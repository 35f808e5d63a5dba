---------------------------- MODULE MCVerification ----------------------------
(***************************************************************************)
(* Instances of Verification for TLC.                                      *)
(***************************************************************************)
EXTENDS Verification, FiniteSets, TLC

CONSTANTS p1, p2, c1, x1, x2, x3, d1, d2, noon, night

\* With REDIS_URL the instances share one cache.
Shared == (p1 :> c1) @@ (p2 :> c1)

\* x1 and x2 are told alike and differ in their times only.  x3 has another
\* operation first; its time in Horizon's reply is no date, and it has none in
\* the contract's record.
AllRecorded == (x1 :> d1) @@ (x2 :> d1) @@ (x3 :> d2)
AllOperations == (x1 :> <<d1>>) @@ (x2 :> <<d1>>) @@ (x3 :> <<d1, d2>>)
AllClosed == (x1 :> noon) @@ (x2 :> night) @@ (x3 :> Garbled)
AllStamped == (x1 :> noon) @@ (x2 :> night) @@ (x3 :> Null)

\* Any two payments are made.
TwoPaid == Cardinality(made) <= 2

\* Requests overlap when they verify one tip and x1 and x2 are on the list.
Overlapping == \A p \in Handlers : pc[p] # "idle"
OverlapOnOneTip ==
    Overlapping => tip[p1] = tip[p2] /\ entries = <<x1, x2>>

\* The hash of one tip is replaced.
OneRehashed == Cardinality(rehashed) <= 1

Bounds == TwoPaid /\ OverlapOnOneTip /\ OneRehashed

Symmetry == Permutations(TipIds) \cup Permutations(Handlers)
=============================================================================
