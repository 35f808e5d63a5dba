--------------------------- MODULE MCAnalyticsCache ---------------------------
(***************************************************************************)
(* An instance of AnalyticsCache for TLC: see AnalyticsOwn.cfg.            *)
(***************************************************************************)
EXTENDS AnalyticsCache, TLC

Symmetry == Permutations(Handlers) \cup Permutations(Users)
               \cup Permutations(Urls)
=============================================================================
