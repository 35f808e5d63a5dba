------------------------------- MODULE MCInbox -------------------------------
(***************************************************************************)
(* An instance of Inbox for TLC: the constants are in Inbox.cfg.           *)
(***************************************************************************)
EXTENDS Inbox, TLC

Symmetry == Permutations(Notes)
=============================================================================
