------------------------------- MODULE TipBook -------------------------------
(***************************************************************************)
(* What the tip ledger promises its clients, without tables, handlers or   *)
(* retries: requests are written down, the ones that came from the chain   *)
(* are announced to the creator once, and such a request is acknowledged   *)
(* only when it has been written down and announced.                       *)
(***************************************************************************)
CONSTANTS
    Ids,        \* entries of the book
    Requests,   \* what an entry may be written for
    Announced,  \* the requests whose entries are announced
    Null        \* an entry that is not written yet

VARIABLES
    origin,     \* Ids -> Requests, or Null
    announced,  \* entries the creator has been told of
    acked       \* requests acknowledged to their sender

Init ==
    /\ origin = [i \in Ids |-> Null]
    /\ announced = {}
    /\ acked = {}

\* An entry is written once and for all.
Record(i, r) ==
    /\ origin[i] = Null
    /\ origin' = [origin EXCEPT ![i] = r]
    /\ UNCHANGED <<announced, acked>>

Announce(i) ==
    /\ origin[i] \in Announced
    /\ i \notin announced
    /\ announced' = announced \cup {i}
    /\ UNCHANGED <<origin, acked>>

Acknowledge(r) ==
    /\ r \in Announced => \E i \in announced : origin[i] = r
    /\ acked' = acked \cup {r}
    /\ UNCHANGED <<origin, announced>>

Next ==
    \/ \E i \in Ids, r \in Requests : Record(i, r)
    \/ \E i \in Ids : Announce(i)
    \/ \E r \in Requests : Acknowledge(r)

Spec == Init /\ [][Next]_<<origin, announced, acked>>

-----------------------------------------------------------------------------
\* What the sender of a request may rely on: once it is acknowledged, an
\* entry stands for it and the creator knows of it.
Kept == \A r \in acked \cap Announced : \E i \in announced : origin[i] = r

\* Nothing is taken back: an entry stays with the request it was written for,
\* the creator stays told, an acknowledgement stays given.
Lasting ==
    /\ \A i \in Ids : origin[i] # Null => origin'[i] = origin[i]
    /\ announced \subseteq announced'
    /\ acked \subseteq acked'
=============================================================================
