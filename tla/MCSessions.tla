------------------------------ MODULE MCSessions ------------------------------
(***************************************************************************)
(* Instances of Sessions for TLC.                                          *)
(***************************************************************************)
EXTENDS Sessions, TLC

Symmetry == Permutations(Handlers) \cup Permutations(TokenIds)
               \cup Permutations(Users)
=============================================================================
