----------------------------- MODULE MCTipLedger -----------------------------
(***************************************************************************)
(* Instances of TipLedger for TLC: the requests, made of the model values  *)
(* the configurations declare.                                             *)
(***************************************************************************)
EXTENDS TipLedger, TLC

CONSTANTS t1, h1, h2, h3, w1

TipEvent(hash, valid) ==
    [topic |-> "tip", hash |-> hash, receiver |-> w1, valid |-> valid,
     id |-> Null, tipHash |-> Null, withdrawal |-> Undefined]

Withdrawal(hash, id, tipHash, status) ==
    [topic |-> "withdrawal", hash |-> hash, receiver |-> w1, valid |-> TRUE,
     id |-> id, tipHash |-> tipHash, withdrawal |-> status]

Bare(topic, hash) ==
    [topic |-> topic, hash |-> hash, receiver |-> w1, valid |-> TRUE,
     id |-> Null, tipHash |-> Null, withdrawal |-> Undefined]

Create(hash) == [receiver |-> w1, hash |-> hash, valid |-> TRUE]

Confirm(hash) == [id |-> t1, hash |-> hash]

\* Deliveries against confirmations: a tip event, a withdrawal that names its
\* tip by id, a creation that is refused, and confirmations that carry a hash
\* or nothing.
RaceEvents == {TipEvent(h1, TRUE), Withdrawal(h2, t1, Null, "completed")}
RaceCreates == {Create(Null), [receiver |-> w1, hash |-> h2, valid |-> FALSE]}
RaceConfirms == {Confirm(h1), Confirm(Undefined)}

\* One tip event, delivered again and again, and a confirmation of its tip
\* under another hash.
ReplayEvents == {TipEvent(h1, TRUE)}
ReplayConfirms == {Confirm(h2)}

HandlerSymmetry == Permutations(Handlers)
=============================================================================
