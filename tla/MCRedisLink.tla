----------------------------- MODULE MCRedisLink -----------------------------
(***************************************************************************)
(* An instance of RedisLink for TLC: the constants are in RedisLink.cfg.   *)
(***************************************************************************)
EXTENDS RedisLink, TLC
=============================================================================
