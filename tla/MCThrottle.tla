------------------------------ MODULE MCThrottle ------------------------------
(***************************************************************************)
(* An instance of Throttle for TLC: the constants are in Throttle.cfg.     *)
(***************************************************************************)
EXTENDS Throttle, TLC
=============================================================================
