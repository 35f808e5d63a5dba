------------------------------ MODULE MCTipReads ------------------------------
(***************************************************************************)
(* Instances of TipReads for TLC.                                          *)
(***************************************************************************)
EXTENDS TipReads, TLC

CONSTANTS w0, w1, w2, t1, t2, t3, t4, xlm, usdc, s1, s2

\* w0 is a creator without a wallet; w1 has three tips, one of them of an unnamed sender; w2 has one.
AllReceivers == (t1 :> w1) @@ (t2 :> w1) @@ (t3 :> w1) @@ (t4 :> w2)
AllSenders == (t1 :> s1) @@ (t2 :> s2) @@ (t3 :> Null) @@ (t4 :> s1)
AllAssets == (t1 :> xlm) @@ (t2 :> usdc) @@ (t3 :> xlm) @@ (t4 :> xlm)
AllAmounts == (t1 :> 1) @@ (t2 :> 2) @@ (t3 :> 2) @@ (t4 :> 4)

\* Out of bounds, absent, small, too large.
AllLimits == {-1, 0, 1, 3}
=============================================================================
