--------------------------- MODULE TipLedgerProofs ---------------------------
(***************************************************************************)
(* Proofs about TipLedger, for every number of handlers, tips and requests.*)
(*                                                                         *)
(* The invariant has four parts.  Suspended says what a handler's locals   *)
(* are at each await; with TypeOK it is inductive.  UniqueHashes is        *)
(* preserved because both writers of `tips` test Conflict.  Notices ties   *)
(* the notification of a tip to the handlers that still owe it.  Settled   *)
(* says that no copy of a tip inserted as completed has another status.    *)
(* Agreed, the fifth, ties the columns of a row to the objects held of it  *)
(* that are not stale.                                                     *)
(***************************************************************************)
EXTENDS TipLedger, TLAPS

Withdrawals == {e \in Events : e.topic = "withdrawal"}

\* What a handler holds while it is suspended in each call.
SuspendedAt(p) ==
    /\ pc[p] \in {"receiver?", "insertCreate"} => arg[p] \in Creates
    /\ pc[p] = "confirm?" => arg[p] \in Confirms
    /\ pc[p] = "duplicate?" => arg[p] \in Events /\ arg[p].hash # Null
    /\ pc[p] \in {"creator?", "insertEvent", "notify"} =>
          arg[p] \in TipEvents /\ arg[p].hash # Null
    /\ pc[p] = "linked?" => arg[p] \in Withdrawals /\ arg[p].hash # Null
    /\ pc[p] = "notify" => tip[p] \in TipIds /\ origin[tip[p]] = arg[p]
    /\ pc[p] \in {"load", "update"} =>
          /\ arg[p] \in Confirms \cup Withdrawals
          /\ tip[p] \in TipIds
          /\ tips[tip[p]] # Null
          /\ entity[p] \in Entity
          /\ arg[p] \in Confirms => entity[p].status = "completed"
    /\ pc[p] = "update" => base[p] \in Row

Suspended == \A p \in Handlers : SuspendedAt(p)

\* A row exists exactly where a request inserted one.
Recorded == \A t \in TipIds : tips[t] = Null <=> origin[t] = Null

TInv == TypeOK /\ Suspended /\ Recorded

\* A handler that still has to notify is the only one, and its tip has not
\* been announced; one that is past that point can point at an announced tip.
Owed ==
    /\ \A p \in Handlers : pc[p] = "notify" => notifications[tip[p]] = 0
    /\ \A p, q \in Handlers :
          pc[p] = "notify" /\ pc[q] = "notify" /\ p # q => tip[p] # tip[q]
    /\ \A t \in TipIds : origin[t] = Null => notifications[t] = 0
    /\ \A p \in Handlers :
          pc[p] = "answer" /\ arg[p] \in TipEvents =>
             \E t \in TipIds : origin[t] = arg[p] /\ notifications[t] = 1

Notices == Owed /\ NotifiedOnce /\ AckImpliesNotified

BornCompleted(t) == origin[t] # Null /\ origin[t].hash # Null

Settled ==
    /\ \A t \in TipIds : BornCompleted(t) => tips[t].status = "completed"
    /\ \A p \in Handlers :
          /\ pc[p] \in {"load", "update"} /\ BornCompleted(tip[p]) =>
                entity[p].status = "completed"
          /\ pc[p] = "update" /\ BornCompleted(tip[p]) =>
                base[p].status = "completed"

IInv == TInv /\ UniqueHashes /\ Notices /\ Settled

-----------------------------------------------------------------------------
(* Rows.                                                                   *)

\* What save() writes over a row is a row: no undefined reaches a column.
LEMMA MergeRow ==
    ASSUME NEW new \in Entity, NEW old \in Row, NEW current \in Row
    PROVE  Merge(new, old, current) \in Row
BY DEF Merge, Column, Entity, Row

\* A new tip is a row, pending exactly when it has no hash.
LEMMA NewTipRow ==
    ASSUME NEW hash \in Hashes \cup {Null}
    PROVE  /\ NewTip(hash) \in Row
           /\ NewTip(hash).transactionHash = hash
           /\ NewTip(hash).withdrawalTransactionHash = Null
           /\ hash # Null => NewTip(hash).status = "completed"
BY DEF NewTip, Row, Status, WithdrawalStatus

\* A row is an entity, and so is one that a confirmation has changed.
LEMMA RowEntity ==
    ASSUME NEW row \in Row
    PROVE  /\ row \in Entity
           /\ \A h \in Hashes \cup {Null, Undefined} :
                 [row EXCEPT !.status = "completed", !.transactionHash = h]
                    \in Entity
           /\ \A h \in Hashes \cup {Null}, s \in WithdrawalStatus :
                 [row EXCEPT !.withdrawalStatus = s,
                             !.withdrawalTransactionHash = h] \in Entity
BY DEF Row, Entity, Status

-----------------------------------------------------------------------------
(* Types and locals.                                                       *)

LEMMA InitTInv == Init => TInv
BY DEF Init, TInv, TypeOK, Suspended, SuspendedAt, Recorded, Label

LEMMA LeaveTInv ==
    ASSUME TInv, NEW p \in Handlers, Leave(p), UNCHANGED database,
           UNCHANGED <<fresh, origin, overwritten>>, acked' \subseteq Events,
           dupAcked' \subseteq Events
    PROVE  TInv'
<1> USE DEF TInv, Leave, database
<1>1. TypeOK'
  BY DEF TypeOK, Label
<1>2. Suspended'
  BY DEF TypeOK, Suspended, SuspendedAt
<1>3. Recorded'
  BY DEF Recorded
<1> QED BY <1>1, <1>2, <1>3

LEMMA RejectTInv ==
    ASSUME TInv, NEW p \in Handlers, Reject(p)
    PROVE  TInv'
BY LeaveTInv DEF Reject, history, TInv, TypeOK

LEMMA EnterTInv ==
    ASSUME TInv, NEW p \in Handlers, NEW label,
           NEW request \in Creates \cup Confirms \cup Events,
           \/ label = "receiver?" /\ request \in Creates
           \/ label = "confirm?" /\ request \in Confirms
           \/ label = "duplicate?" /\ request \in Events /\ request.hash # Null,
           Enter(p, request, label)
    PROVE  TInv'
<1> USE DEF TInv, Enter, database, history
<1>1. TypeOK'
  BY DEF TypeOK, Label
<1>2. Suspended'
  BY DEF TypeOK, Suspended, SuspendedAt
<1>3. Recorded'
  BY DEF Recorded
<1> QED BY <1>1, <1>2, <1>3

LEMMA ProceedTInv ==
    ASSUME TInv, NEW p \in Handlers, NEW label, Proceed(p, label),
           \/ label = "insertCreate" /\ arg[p] \in Creates
           \/ /\ label \in {"creator?", "insertEvent"}
              /\ arg[p] \in TipEvents /\ arg[p].hash # Null
           \/ label = "linked?" /\ arg[p] \in Withdrawals /\ arg[p].hash # Null
           \/ label = "answer"
    PROVE  TInv'
<1> USE DEF TInv, Proceed, Goto, database, history
<1>1. TypeOK'
  BY DEF TypeOK, Label
<1>2. Suspended'
  BY DEF TypeOK, Suspended, SuspendedAt
<1>3. Recorded'
  BY DEF Recorded
<1> QED BY <1>1, <1>2, <1>3

LEMMA ModifyTInv ==
    ASSUME TInv, NEW p \in Handlers, NEW t \in TipIds, NEW o \in Entity,
           arg[p] \in Confirms \cup Withdrawals, tips[t] # Null,
           arg[p] \in Confirms => o.status = "completed",
           Modify(p, t, o)
    PROVE  TInv'
<1> USE DEF TInv, Modify, Goto, database, history
<1>1. TypeOK'
  BY DEF TypeOK, Label
<1>2. Suspended'
  BY DEF TypeOK, Suspended, SuspendedAt
<1>3. Recorded'
  BY DEF Recorded
<1> QED BY <1>1, <1>2, <1>3

\* An insert either leaves everything alone or writes one new tip.
LEMMA InsertTInv ==
    ASSUME TInv, NEW p \in Handlers, NEW label,
           \/ label = "answer" /\ arg[p] \in Creates
           \/ label = "notify" /\ arg[p] \in TipEvents /\ arg[p].hash # Null,
           Insert(p, label)
    PROVE  TInv'
<1> DEFINE row == NewTip(arg[p].hash)
<1>1. arg[p].hash \in Hashes \cup {Null} /\ arg[p] \in Creates \cup Events
  BY LedgerAssumption DEF TipEvents, CreateBody, Event
<1>2. row \in Row
  BY <1>1, NewTipRow
<1>3. PICK t \in TipIds :
         /\ tips[t] = Null
         /\ \/ Leave(p) /\ UNCHANGED <<tips, origin>>
            \/ /\ tips' = [tips EXCEPT ![t] = row]
               /\ origin' = [origin EXCEPT ![t] = arg[p]]
               /\ tip' = [tip EXCEPT ![p] = t]
               /\ Goto(p, label)
               /\ UNCHANGED <<entity, base, stale>>
         /\ UNCHANGED <<users, notifications, fresh, acked, dupAcked,
                        overwritten>>
  BY DEF Insert
<1>4. CASE Leave(p) /\ UNCHANGED <<tips, origin>>
  BY <1>3, <1>4, LeaveTInv DEF database, TInv, TypeOK
<1>5. CASE /\ tips' = [tips EXCEPT ![t] = row]
           /\ origin' = [origin EXCEPT ![t] = arg[p]]
           /\ tip' = [tip EXCEPT ![p] = t]
           /\ Goto(p, label)
           /\ UNCHANGED <<entity, base, stale>>
  <2> USE <1>1, <1>2, <1>3, <1>5 DEF TInv, Goto
  <2> HIDE DEF row
  <2>1. TypeOK'
    BY DEF TypeOK, Label
  <2>2. row # Null /\ arg[p] # Null
    BY LedgerAssumption
  <2>3. SuspendedAt(p)'
    BY DEF TypeOK, SuspendedAt
  <2>4. ASSUME NEW q \in Handlers, q # p
        PROVE  SuspendedAt(q)'
    <3>1. pc[q] = "notify" => tip[q] # t
      BY LedgerAssumption DEF Suspended, SuspendedAt, Recorded, TipEvents
    <3>2. pc[q] \in {"load", "update"} => tip[q] # t
      BY DEF Suspended, SuspendedAt
    <3> QED BY <2>4, <3>1, <3>2 DEF TypeOK, Suspended, SuspendedAt
  <2>5. Suspended'
    BY <2>3, <2>4 DEF Suspended
  <2>6. Recorded'
    BY <2>2 DEF TypeOK, Recorded
  <2> QED BY <2>1, <2>5, <2>6
<1> QED BY <1>3, <1>4, <1>5

LEMMA WebhookTInv ==
    ASSUME TInv, NEW p \in Handlers, IsDuplicateTransaction(p)
    PROVE  TInv'
<1>1. arg[p] \in Events /\ arg[p].hash # Null
  BY DEF TInv, Suspended, SuspendedAt, IsDuplicateTransaction
<1>2. CASE KnownTransaction(arg[p].hash)
  <2>1. dupAcked' \subseteq Events
    BY <1>1, <1>2 DEF IsDuplicateTransaction, TInv, TypeOK
  <2> QED BY <1>2, <2>1, LeaveTInv DEF IsDuplicateTransaction, TInv, TypeOK
<1>3. CASE Dispatch(p, arg[p])
  <2>1. CASE Reject(p)
    BY <2>1, RejectTInv
  <2>2. CASE arg[p] \in TipEvents /\ Proceed(p, "creator?")
    BY <1>1, <2>2, ProceedTInv
  <2>3. CASE arg[p] \in Withdrawals /\ Proceed(p, "linked?")
    BY <1>1, <2>3, ProceedTInv
  <2>4. CASE Proceed(p, "answer")
    BY <2>4, ProceedTInv
  <2> QED BY <1>1, <1>3, <2>1, <2>2, <2>3, <2>4
          DEF Dispatch, TipEvents, Withdrawals
<1> QED BY <1>2, <1>3 DEF IsDuplicateTransaction

LEMMA WithdrawalTInv ==
    ASSUME TInv, NEW p \in Handlers, PersistWithdrawalEvent(p)
    PROVE  TInv'
<1> DEFINE e == arg[p]
           o(t) == [tips[t] EXCEPT !.withdrawalStatus = e.withdrawal,
                                   !.withdrawalTransactionHash = e.hash]
<1>1. e \in Withdrawals /\ e \in Events
  BY DEF TInv, Suspended, SuspendedAt, PersistWithdrawalEvent, Withdrawals
<1>2. CASE Reject(p)
  BY <1>2, RejectTInv
<1>3. CASE Proceed(p, "answer")
  BY <1>3, ProceedTInv
<1>4. ASSUME NEW t \in TipIds, Linked(e, t), Modify(p, t, o(t)),
             e.withdrawal \notin {"other", Undefined}
      PROVE  TInv'
  <2>1. tips[t] # Null /\ tips[t] \in Row
    BY <1>4 DEF Linked, TInv, TypeOK
  <2>2. e.hash \in Hashes \cup {Null} /\ e.withdrawal \in WithdrawalStatus
    BY <1>1, <1>4, LedgerAssumption DEF Event, WithdrawalStatus
  <2>3. o(t) \in Entity
    BY <2>1, <2>2, RowEntity
  <2>4. arg[p] \notin Confirms
    BY <1>1, LedgerAssumption
  <2> QED BY <1>1, <1>4, <2>1, <2>3, <2>4, ModifyTInv
<1> QED BY <1>2, <1>3, <1>4 DEF PersistWithdrawalEvent

LEMMA ConfirmTInv ==
    ASSUME TInv, NEW p \in Handlers, ConfirmTipFind(p)
    PROVE  TInv'
<1> DEFINE t == arg[p].id
           o == [tips[t] EXCEPT !.status = "completed",
                                !.transactionHash = arg[p].hash]
<1>1. arg[p] \in Confirms
  BY DEF TInv, Suspended, SuspendedAt, ConfirmTipFind
<1>2. t \in TipIds /\ arg[p].hash \in Hashes \cup {Null, Undefined}
  BY <1>1, LedgerAssumption DEF ConfirmBody
<1>3. CASE tips[t] = Null
  BY <1>3, RejectTInv DEF ConfirmTipFind
<1>4. CASE tips[t] # Null
  <2>1. tips[t] \in Row
    BY <1>2, <1>4 DEF TInv, TypeOK
  <2>2. o \in Entity /\ o.status = "completed"
    BY <1>2, <2>1, RowEntity DEF Row
  <2>3. Modify(p, t, o)
    BY <1>4 DEF ConfirmTipFind
  <2> QED BY <1>1, <1>2, <1>4, <2>2, <2>3, ModifyTInv
<1> QED BY <1>3, <1>4

LEMMA SaveTInv ==
    ASSUME TInv, NEW p \in Handlers, SaveLoad(p) \/ SaveUpdate(p)
    PROVE  TInv'
<1>1. /\ pc[p] \in {"load", "update"}
      /\ arg[p] \in Confirms \cup Withdrawals
      /\ tip[p] \in TipIds
      /\ tips[tip[p]] \in Row
      /\ entity[p] \in Entity
      /\ pc[p] = "update" => base[p] \in Row
  BY DEF TInv, TypeOK, Suspended, SuspendedAt, SaveLoad, SaveUpdate,
     Update
<1>2. CASE SaveLoad(p)
  <2> USE <1>1, <1>2 DEF SaveLoad, Goto, database, history, TInv
  <2>1. TypeOK'
    BY DEF TypeOK, Label
  <2>2. Suspended'
    BY DEF TypeOK, Suspended, SuspendedAt
  <2>3. Recorded'
    BY DEF Recorded
  <2> QED BY <2>1, <2>2, <2>3
<1>3. CASE SaveUpdate(p)
  <2> DEFINE row == Merge(entity[p], base[p], tips[tip[p]])
  <2>1. CASE Reject(p)
    BY <2>1, RejectTInv
  <2>2. CASE /\ tips' = [tips EXCEPT ![tip[p]] = row]
             /\ Goto(p, "answer")
             /\ stale' \subseteq Handlers /\ overwritten' \subseteq TipIds
             /\ UNCHANGED <<users, notifications, tip, entity, base, fresh,
                            origin, acked, dupAcked>>
    <3>1. row \in Row
      BY <1>1, <1>3, MergeRow DEF SaveUpdate, Update
    <3>2. row # Null /\ tips[tip[p]] # Null
      BY <1>1, <3>1, LedgerAssumption
    <3> HIDE DEF row
    <3> USE <1>1, <2>2, <3>1, <3>2 DEF Goto, TInv
    <3>3. TypeOK'
      BY DEF TypeOK, Label
    <3>4. Suspended'
      BY DEF TypeOK, Suspended, SuspendedAt
    <3>5. Recorded'
      BY DEF TypeOK, Recorded
    <3> QED BY <3>3, <3>4, <3>5
  <2>3. stale \subseteq Handlers /\ overwritten \subseteq TipIds
    BY DEF TInv, TypeOK
  <2> QED BY <1>1, <1>3, <2>1, <2>2, <2>3 DEF SaveUpdate, Update
<1> QED BY <1>2, <1>3

LEMMA NextTInv == TInv /\ [Next]_vars => TInv'
<1> SUFFICES ASSUME TInv, [Next]_vars PROVE TInv'
  OBVIOUS
<1>1. CASE Environment
  BY <1>1 DEF Environment, Register, Expire, TInv, TypeOK, Suspended,
              SuspendedAt, Recorded, locals, history, database
<1>2. ASSUME NEW p \in Handlers, Handle(p)
      PROVE  TInv'
  <2>1. ASSUME NEW d \in Creates, CreateTip(p, d) PROVE TInv'
    BY <2>1, EnterTInv DEF CreateTip
  <2>2. CASE CreateTipFindCreator(p)
    BY <2>2, ProceedTInv, RejectTInv
       DEF CreateTipFindCreator, TInv, Suspended, SuspendedAt
  <2>3. CASE CreateTipInsert(p)
    BY <2>3, InsertTInv DEF CreateTipInsert, TInv, Suspended, SuspendedAt
  <2>4. ASSUME NEW c \in Confirms, ConfirmTip(p, c) PROVE TInv'
    BY <2>4, EnterTInv DEF ConfirmTip
  <2>5. CASE ConfirmTipFind(p)
    BY <2>5, ConfirmTInv
  <2>6. ASSUME NEW e \in Events, HandleContractWebhook(p, e) PROVE TInv'
    BY <2>6, EnterTInv DEF HandleContractWebhook
  <2>7. CASE IsDuplicateTransaction(p)
    BY <2>7, WebhookTInv
  <2>8. CASE PersistTipEventFindCreator(p)
    BY <2>8, ProceedTInv, RejectTInv
       DEF PersistTipEventFindCreator, TInv, Suspended, SuspendedAt
  <2>9. CASE PersistTipEventInsert(p)
    BY <2>9, InsertTInv DEF PersistTipEventInsert, TInv, Suspended, SuspendedAt
  <2>10. CASE NotifyTipReceived(p)
    BY <2>10 DEF NotifyTipReceived, Goto, TInv, TypeOK, Label, Suspended,
                 SuspendedAt, Recorded, history
  <2>11. CASE PersistWithdrawalEvent(p)
    BY <2>11, WithdrawalTInv
  <2>12. CASE SaveLoad(p) \/ SaveUpdate(p)
    BY <2>12, SaveTInv
  <2>13. CASE Answer(p)
    BY <2>13, LeaveTInv DEF Answer, TInv, TypeOK
  <2>14. CASE Fail(p)
    BY <2>14, RejectTInv DEF Fail
  <2> QED BY <1>2, <2>1, <2>2, <2>3, <2>4, <2>5, <2>6, <2>7, <2>8, <2>9,
             <2>10, <2>11, <2>12, <2>13, <2>14 DEF Handle
<1>3. CASE UNCHANGED vars
  BY <1>3 DEF vars, TInv, TypeOK, Suspended, SuspendedAt, Recorded, locals,
              history, database
<1> QED BY <1>1, <1>2, <1>3 DEF Next

\* Every variable keeps its type, whatever the requests: no undefined value
\* of a request body is ever stored in a column.
THEOREM TypeCorrect == Spec => []TypeOK
<1>1. Spec => []TInv
  BY InitTInv, NextTInv, PTL DEF Spec
<1>2. TInv => TypeOK
  BY DEF TInv
<1> QED BY <1>1, <1>2, PTL

-----------------------------------------------------------------------------
(* Every step is one of six kinds.                                         *)

Inserted(p, t) ==
    /\ \/ pc[p] = "insertCreate" /\ pc' = [pc EXCEPT ![p] = "answer"]
       \/ pc[p] = "insertEvent" /\ pc' = [pc EXCEPT ![p] = "notify"]
    /\ tips[t] = Null
    /\ ~ Conflict(t, NewTip(arg[p].hash))
    /\ tips' = [tips EXCEPT ![t] = NewTip(arg[p].hash)]
    /\ origin' = [origin EXCEPT ![t] = arg[p]]
    /\ tip' = [tip EXCEPT ![p] = t]
    /\ UNCHANGED <<arg, entity, base, notifications, acked, stale, overwritten>>

Updated(p) ==
    LET row == Merge(entity[p], base[p], tips[tip[p]]) IN
    /\ pc[p] = "update"
    /\ ~ Conflict(tip[p], row)
    /\ tips' = [tips EXCEPT ![tip[p]] = row]
    /\ pc' = [pc EXCEPT ![p] = "answer"]
    /\ \A q \in Handlers \ {p} :
          /\ q \in stale => q \in stale'
          /\ pc[q] \in {"load", "update"} /\ tip[q] = tip[p] => q \in stale'
    /\ overwritten' = IF p \in stale
                      THEN overwritten \cup {tip[p]} ELSE overwritten
    /\ UNCHANGED <<arg, tip, entity, base, origin, notifications, acked>>

\* The object o is the row r, touched by a confirmation or by a withdrawal.
Confirmed(o, r) ==
    /\ o.status = "completed"
    /\ o.withdrawalStatus = r.withdrawalStatus
    /\ o.withdrawalTransactionHash = r.withdrawalTransactionHash

Withdrawn(o, r) ==
    /\ o.status = r.status
    /\ o.transactionHash = r.transactionHash
    /\ o.withdrawalStatus # "none"
    /\ o.withdrawalTransactionHash # Null

Touched(o, r) == Confirmed(o, r) \/ Withdrawn(o, r)

\* Only p's locals change; what it may hold afterwards.
Quiet(p) ==
    /\ UNCHANGED <<tips, origin, notifications, acked, overwritten>>
    /\ \A q \in Handlers \ {p} :
          /\ q \in stale => q \in stale'
          /\ pc'[q] = pc[q] /\ arg'[q] = arg[q] /\ tip'[q] = tip[q]
          /\ entity'[q] = entity[q] /\ base'[q] = base[q]
    /\ pc'[p] # "notify"
    /\ pc'[p] = "answer" => arg'[p] \notin TipEvents
    /\ pc'[p] = "load" =>
          /\ tip'[p] \in TipIds /\ tips[tip'[p]] # Null
          /\ Touched(entity'[p], tips[tip'[p]])
    /\ pc'[p] = "update" =>
          /\ pc[p] = "load" /\ tip'[p] = tip[p]
          /\ entity'[p] = entity[p] /\ base'[p] = tips[tip[p]]
          /\ stale' = stale

Still == UNCHANGED <<tips, origin, notifications, acked, pc, arg, tip, entity,
                     base, stale, overwritten>>

LEMMA LeaveQuiet ==
    ASSUME TypeOK, NEW p \in Handlers, Leave(p),
           UNCHANGED <<tips, origin, notifications, acked, overwritten>>
    PROVE  Quiet(p)
BY DEF TypeOK, Leave, Quiet

LEMMA RejectQuiet ==
    ASSUME TypeOK, NEW p \in Handlers, Reject(p)
    PROVE  Quiet(p)
BY LeaveQuiet DEF Reject, database, history

LEMMA EnterQuiet ==
    ASSUME TypeOK, NEW p \in Handlers, NEW request, NEW label,
           label \in {"receiver?", "confirm?", "duplicate?"},
           Enter(p, request, label)
    PROVE  Quiet(p)
BY DEF TypeOK, Enter, Quiet, database, history

LEMMA ProceedQuiet ==
    ASSUME TypeOK, NEW p \in Handlers, NEW label, Proceed(p, label),
           \/ label \in {"insertCreate", "creator?", "insertEvent", "linked?"}
           \/ label = "answer" /\ arg[p] \notin TipEvents
    PROVE  Quiet(p)
BY DEF TypeOK, Proceed, Goto, Quiet, database, history

LEMMA ModifyQuiet ==
    ASSUME TypeOK, NEW p \in Handlers, NEW t \in TipIds, NEW o,
           Modify(p, t, o), tips[t] # Null, Touched(o, tips[t])
    PROVE  Quiet(p)
BY DEF TypeOK, Modify, Goto, Quiet, database, history

LEMMA InsertStep ==
    ASSUME TypeOK, NEW p \in Handlers, NEW label, Insert(p, label),
           \/ pc[p] = "insertCreate" /\ label = "answer"
           \/ pc[p] = "insertEvent" /\ label = "notify"
    PROVE  Quiet(p) \/ \E t \in TipIds : Inserted(p, t)
<1>1. \/ Leave(p) /\ UNCHANGED <<tips, origin, notifications, acked, overwritten>>
      \/ \E t \in TipIds : Inserted(p, t)
  BY DEF Insert, Inserted, Goto
<1> QED BY <1>1, LeaveQuiet

LEMMA SaveStep ==
    ASSUME TInv, NEW p \in Handlers, SaveLoad(p) \/ SaveUpdate(p)
    PROVE  Quiet(p) \/ Updated(p)
<1>1. CASE SaveLoad(p)
  <2>1. arg[p] \notin TipEvents
    BY <1>1, LedgerAssumption DEF SaveLoad, TInv, Suspended, SuspendedAt,
       TipEvents, Withdrawals
  <2> QED BY <1>1, <2>1 DEF SaveLoad, Goto, Quiet, TInv, TypeOK, database,
             history
<1>2. CASE SaveUpdate(p)
  BY <1>2, RejectQuiet DEF SaveUpdate, Update, Updated, Goto, TInv
<1> QED BY <1>1, <1>2

LEMMA FindQuiet ==
    ASSUME TInv, NEW p \in Handlers,
           ConfirmTipFind(p) \/ PersistWithdrawalEvent(p)
    PROVE  Quiet(p)
<1> USE DEF TInv
<1>1. CASE ConfirmTipFind(p)
  <2>1. arg[p].id \in TipIds
    BY <1>1, LedgerAssumption DEF ConfirmTipFind, Suspended, SuspendedAt,
       ConfirmBody
  <2>2. tips[arg[p].id] # Null => tips[arg[p].id] \in Row
    BY <2>1 DEF TypeOK
  <2>3. \A row \in Row : \A h :
           Touched([row EXCEPT !.status = "completed", !.transactionHash = h],
                   row)
    BY DEF Row, Touched, Confirmed
  <2> QED BY <1>1, <2>1, <2>2, <2>3, RejectQuiet, ModifyQuiet
          DEF ConfirmTipFind
<1>2. CASE PersistWithdrawalEvent(p)
  <2>1. arg[p] \notin TipEvents
    BY <1>2 DEF PersistWithdrawalEvent, Suspended, SuspendedAt, Withdrawals,
       TipEvents
  <2>2. \A t \in TipIds : tips[t] # Null => tips[t] \in Row
    BY DEF TypeOK
  <2>3. /\ arg[p].hash # Null
        /\ arg[p].withdrawal \notin {"other", Undefined} =>
              arg[p].withdrawal # "none"
    BY <1>2, LedgerAssumption DEF PersistWithdrawalEvent, Suspended,
       SuspendedAt, Withdrawals, Event
  <2>4. ASSUME NEW t \in TipIds, Linked(arg[p], t),
               arg[p].withdrawal \notin {"other", Undefined},
               Modify(p, t, [tips[t] EXCEPT
                               !.withdrawalStatus = arg[p].withdrawal,
                               !.withdrawalTransactionHash = arg[p].hash])
        PROVE  Quiet(p)
    <3>1. Touched([tips[t] EXCEPT
                     !.withdrawalStatus = arg[p].withdrawal,
                     !.withdrawalTransactionHash = arg[p].hash], tips[t])
      BY <2>2, <2>3, <2>4 DEF Linked, Row, Touched, Withdrawn
    <3> QED BY <2>4, <3>1, ModifyQuiet DEF Linked
  <2> QED BY <1>2, <2>1, <2>4, RejectQuiet, ProceedQuiet
          DEF PersistWithdrawalEvent
<1> QED BY <1>1, <1>2

LEMMA WebhookQuiet ==
    ASSUME TInv, NEW p \in Handlers, IsDuplicateTransaction(p)
    PROVE  Quiet(p)
<1> USE DEF TInv
<1>1. arg[p] \in Events
  BY DEF Suspended, SuspendedAt, IsDuplicateTransaction
<1>2. CASE Reject(p)
  BY <1>2, RejectQuiet
<1>3. CASE arg[p].topic = "tip" /\ Proceed(p, "creator?")
  BY <1>3, ProceedQuiet
<1>4. CASE arg[p].topic # "tip" /\ Proceed(p, "linked?")
  BY <1>4, ProceedQuiet
<1>5. CASE arg[p].topic # "tip" /\ Proceed(p, "answer")
  BY <1>5, ProceedQuiet DEF TipEvents
<1>6. CASE Leave(p) /\ UNCHANGED <<database, fresh, origin, acked, overwritten>>
  BY <1>6, LeaveQuiet DEF database
<1> QED BY <1>1, <1>2, <1>3, <1>4, <1>5, <1>6
        DEF IsDuplicateTransaction, Dispatch

LEMMA Steps ==
    ASSUME TInv, [Next]_vars
    PROVE  \/ Still
           \/ \E p \in Handlers :
                 \/ Quiet(p) \/ Updated(p) \/ NotifyTipReceived(p) \/ Answer(p)
                 \/ \E t \in TipIds : Inserted(p, t)
<1>1. CASE Environment
  BY <1>1 DEF Environment, Register, Expire, history, database, locals, Still
<1>2. ASSUME NEW p \in Handlers, Handle(p)
      PROVE  \/ Quiet(p) \/ Updated(p) \/ NotifyTipReceived(p) \/ Answer(p)
             \/ \E t \in TipIds : Inserted(p, t)
  <2> USE DEF TInv
  <2>1. CASE CreateTipInsert(p) \/ PersistTipEventInsert(p)
    BY <2>1, InsertStep DEF CreateTipInsert, PersistTipEventInsert
  <2>2. CASE SaveLoad(p) \/ SaveUpdate(p)
    BY <2>2, SaveStep
  <2>3. CASE \/ \E d \in Creates : CreateTip(p, d)
             \/ \E c \in Confirms : ConfirmTip(p, c)
             \/ \E e \in Events : HandleContractWebhook(p, e)
    BY <2>3, EnterQuiet DEF CreateTip, ConfirmTip, HandleContractWebhook
  <2>4. CASE CreateTipFindCreator(p) \/ PersistTipEventFindCreator(p)
    BY <2>4, ProceedQuiet, RejectQuiet
       DEF CreateTipFindCreator, PersistTipEventFindCreator
  <2>5. CASE ConfirmTipFind(p) \/ PersistWithdrawalEvent(p)
    BY <2>5, FindQuiet
  <2>6. CASE IsDuplicateTransaction(p)
    BY <2>6, WebhookQuiet
  <2>7. CASE Fail(p)
    BY <2>7, RejectQuiet DEF Fail
  <2> QED BY <1>2, <2>1, <2>2, <2>3, <2>4, <2>5, <2>6, <2>7 DEF Handle
<1>3. CASE UNCHANGED vars
  BY <1>3 DEF vars, history, database, locals, Still
<1> QED BY <1>1, <1>2, <1>3 DEF Next

-----------------------------------------------------------------------------
(* Unique hashes.                                                          *)

\* A row that conflicts with no other may be written.
LEMMA WriteUnique ==
    ASSUME TypeOK, UniqueHashes, NEW t \in TipIds, NEW row \in Row,
           ~ Conflict(t, row), tips' = [tips EXCEPT ![t] = row]
    PROVE  UniqueHashes'
BY DEF TypeOK, UniqueHashes, Conflict, Row

LEMMA NextUnique == TInv /\ UniqueHashes /\ [Next]_vars => UniqueHashes'
<1> SUFFICES ASSUME TInv, UniqueHashes, [Next]_vars PROVE UniqueHashes'
  OBVIOUS
<1>1. CASE UNCHANGED tips
  BY <1>1 DEF UniqueHashes
<1>2. ASSUME NEW p \in Handlers, NEW t \in TipIds, Inserted(p, t)
      PROVE  UniqueHashes'
  <2>1. arg[p].hash \in Hashes \cup {Null}
    BY <1>2, LedgerAssumption DEF Inserted, TInv, Suspended, SuspendedAt,
       CreateBody, Event, TipEvents
  <2> QED BY <1>2, <2>1, NewTipRow, WriteUnique DEF Inserted, TInv
<1>3. ASSUME NEW p \in Handlers, Updated(p)
      PROVE  UniqueHashes'
  <2>1. /\ tip[p] \in TipIds
        /\ tips[tip[p]] \in Row /\ base[p] \in Row /\ entity[p] \in Entity
    BY <1>3 DEF Updated, TInv, TypeOK, Suspended, SuspendedAt
  <2>2. Merge(entity[p], base[p], tips[tip[p]]) \in Row
    BY <2>1, MergeRow
  <2> QED BY <1>3, <2>1, <2>2, WriteUnique DEF Updated, TInv
<1> QED BY <1>1, <1>2, <1>3, Steps
        DEF Still, Quiet, NotifyTipReceived, Answer, database

\* No two tips ever share a transaction hash or a withdrawal hash, although
\* the duplicate check and the write are separate steps.
THEOREM HashesUnique == Spec => []UniqueHashes
<1>1. Init => UniqueHashes
  BY DEF Init, UniqueHashes
<1> QED BY <1>1, InitTInv, NextTInv, NextUnique, PTL DEF Spec

-----------------------------------------------------------------------------
(* Notifications.                                                          *)

LEMMA RequestHash ==
    ASSUME TInv, NEW p \in Handlers, NEW t \in TipIds, Inserted(p, t)
    PROVE  /\ arg[p] \in Creates \cup Events /\ arg[p] # Null
           /\ arg[p].hash \in Hashes \cup {Null}
           /\ origin[t] = Null
           /\ pc'[p] = "notify" => arg[p] \in TipEvents
           /\ pc'[p] = "answer" => arg[p] \notin TipEvents
BY LedgerAssumption DEF Inserted, TInv, TypeOK, Suspended, SuspendedAt,
   Recorded, CreateBody, Event, TipEvents

LEMMA NotifyStep ==
    ASSUME TInv, Notices, NEW p \in Handlers, NotifyTipReceived(p)
    PROVE  /\ tip[p] \in TipIds /\ origin[tip[p]] = arg[p]
           /\ arg[p] \in TipEvents /\ notifications[tip[p]] = 0
           /\ notifications' = [notifications EXCEPT ![tip[p]] = 1]
<1>1. /\ tip[p] \in TipIds /\ origin[tip[p]] = arg[p]
      /\ arg[p] \in TipEvents /\ notifications[tip[p]] = 0
  BY DEF TInv, Suspended, SuspendedAt, Notices, Owed, NotifyTipReceived
<1>2. notifications' = [notifications EXCEPT ![tip[p]] = @ + 1]
  BY DEF NotifyTipReceived
<1>3. notifications[tip[p]] + 1 = 1
  BY <1>1
<1> QED BY <1>1, <1>2, <1>3

LEMMA NextNotices == TInv /\ TInv' /\ Notices /\ [Next]_vars => Notices'
<1> SUFFICES ASSUME TInv, TInv', Notices, [Next]_vars PROVE Notices'
  OBVIOUS
<1> USE DEF Notices
<1>1. CASE Still
  BY <1>1 DEF Still, Owed, NotifiedOnce, AckImpliesNotified
<1>2. ASSUME NEW p \in Handlers, Quiet(p)
      PROVE  Notices'
  BY <1>2 DEF Quiet, Owed, NotifiedOnce, AckImpliesNotified
<1>3. ASSUME NEW p \in Handlers, Updated(p)
      PROVE  Notices'
  <2>1. arg[p] \notin TipEvents
    BY <1>3, LedgerAssumption DEF Updated, TInv, Suspended, SuspendedAt,
       TipEvents, Withdrawals
  <2> QED BY <1>3, <2>1 DEF Updated, Owed, NotifiedOnce, AckImpliesNotified,
             TInv, TypeOK
<1>4. ASSUME NEW p \in Handlers, NEW t \in TipIds, Inserted(p, t)
      PROVE  Notices'
  <2>1. /\ arg[p] # Null /\ origin[t] = Null
        /\ pc'[p] = "answer" => arg[p] \notin TipEvents
    BY <1>4, RequestHash
  <2>2. notifications[t] = 0
    BY <2>1 DEF Owed
  <2>3. \A q \in Handlers : pc[q] = "notify" => tip[q] # t
    BY <2>1, LedgerAssumption DEF TInv, Suspended, SuspendedAt, TipEvents
  <2>4. \A u \in TipIds : notifications[u] = 1 => u # t
    BY <2>2
  <2>5. Owed'
    BY <1>4, <2>1, <2>2, <2>3, <2>4 DEF Inserted, Owed, TInv, TypeOK
  <2>6. NotifiedOnce'
    BY <1>4, <2>4 DEF Inserted, NotifiedOnce, TInv, TypeOK
  <2>7. AckImpliesNotified'
    BY <1>4, <2>4 DEF Inserted, AckImpliesNotified, TInv, TypeOK
  <2> QED BY <2>5, <2>6, <2>7
<1>5. ASSUME NEW p \in Handlers, NotifyTipReceived(p)
      PROVE  Notices'
  <2> DEFINE t == tip[p]
  <2>1. /\ t \in TipIds /\ origin[t] = arg[p] /\ arg[p] \in TipEvents
        /\ notifications[t] = 0
        /\ notifications' = [notifications EXCEPT ![t] = 1]
    BY <1>5, NotifyStep
  <2>2. /\ pc[p] = "notify" /\ pc' = [pc EXCEPT ![p] = "answer"]
        /\ UNCHANGED <<arg, tip, origin, acked>>
    BY <1>5 DEF NotifyTipReceived, Goto, history
  <2>3. \A u \in TipIds : notifications[u] = 1 => notifications'[u] = 1
    BY <2>1 DEF TInv, TypeOK
  <2>4. Owed'
    <3>1. \A q \in Handlers : pc'[q] = "notify" =>
             q # p /\ tip[q] # t /\ tip[q] \in TipIds
      BY <2>1, <2>2 DEF Owed, TInv, TypeOK, Suspended, SuspendedAt
    <3>2. arg[p] # Null
      BY <2>1, LedgerAssumption DEF TipEvents
    <3> QED BY <2>1, <2>2, <2>3, <3>1, <3>2 DEF Owed, TInv, TypeOK
  <2>5. NotifiedOnce'
    BY <2>1, <2>2 DEF NotifiedOnce, TInv, TypeOK
  <2>6. AckImpliesNotified'
    BY <2>2, <2>3 DEF AckImpliesNotified
  <2> QED BY <2>4, <2>5, <2>6
<1>6. ASSUME NEW p \in Handlers, Answer(p)
      PROVE  Notices'
  <2>1. UNCHANGED <<origin, notifications>>
    BY <1>6 DEF Answer, database
  <2>2. \A e \in TipEvents : e \in acked' =>
           e \in acked \/ (e = arg[p] /\ pc[p] = "answer")
    BY <1>6 DEF Answer
  <2>3. AckImpliesNotified'
    BY <2>1, <2>2 DEF AckImpliesNotified, Owed
  <2>4. Owed' /\ NotifiedOnce'
    BY <1>6, <2>1 DEF Answer, Leave, Owed, NotifiedOnce, TInv, TypeOK
  <2> QED BY <2>3, <2>4
<1> QED BY <1>1, <1>2, <1>3, <1>4, <1>5, <1>6, Steps

LEMMA InitNotices == Init => Notices
BY DEF Init, Notices, Owed, NotifiedOnce, AckImpliesNotified

\* A tip event is acknowledged only after a tip was recorded for it and its
\* creator was notified, whatever deliveries raced and failed before.
THEOREM AckedIsNotified == Spec => []AckImpliesNotified
<1>1. Notices => AckImpliesNotified
  BY DEF Notices
<1> QED BY <1>1, InitTInv, NextTInv, InitNotices, NextNotices, PTL DEF Spec

\* No creator is told of a tip twice.
THEOREM AnnouncedOnce == Spec => []NotifiedOnce
<1>1. Notices => NotifiedOnce
  BY DEF Notices
<1> QED BY <1>1, InitTInv, NextTInv, InitNotices, NextNotices, PTL DEF Spec

-----------------------------------------------------------------------------
(* The status of a tip.                                                    *)

\* A column in which old, new and current value agree keeps it.
LEMMA UpdatedStatus ==
    ASSUME TInv, NEW p \in Handlers, Updated(p)
    PROVE  /\ tip[p] \in TipIds
           /\ \A t \in TipIds \ {tip[p]} : tips'[t] = tips[t]
           /\ entity[p].status = "completed" /\ tips[tip[p]].status = "completed"
                 => tips'[tip[p]].status = "completed"
<1>1. tip[p] \in TipIds
  BY DEF Updated, TInv, Suspended, SuspendedAt
<1> QED BY <1>1 DEF Updated, TInv, TypeOK, Merge, Column

LEMMA NextSettled == TInv /\ TInv' /\ Settled /\ [Next]_vars => Settled'
<1> SUFFICES ASSUME TInv, TInv', Settled, [Next]_vars PROVE Settled'
  OBVIOUS
<1>1. CASE Still
  BY <1>1 DEF Still, Settled, BornCompleted
<1>2. ASSUME NEW p \in Handlers, Quiet(p)
      PROVE  Settled'
  <2>1. UNCHANGED <<tips, origin>>
    BY <1>2 DEF Quiet
  <2>2. \A t \in TipIds : BornCompleted(t) => tips[t].status = "completed"
    BY DEF Settled
  <2>3. pc'[p] \in {"load", "update"} => tip'[p] \in TipIds
    BY DEF TInv, Suspended, SuspendedAt
  <2>4. pc'[p] \in {"load", "update"} /\ BornCompleted(tip[p])' =>
           entity'[p].status = "completed"
    BY <1>2, <2>1, <2>2, <2>3 DEF Quiet, Settled, BornCompleted, Touched,
       Confirmed, Withdrawn
  <2>5. pc'[p] = "update" /\ BornCompleted(tip[p])' =>
           base'[p].status = "completed"
    BY <1>2, <2>1, <2>2, <2>3 DEF Quiet, BornCompleted
  <2> QED BY <1>2, <2>1, <2>2, <2>4, <2>5 DEF Quiet, Settled, BornCompleted
<1>3. ASSUME NEW p \in Handlers, Updated(p)
      PROVE  Settled'
  <2>1. \A t \in TipIds : BornCompleted(t) => tips'[t].status = "completed"
    <3>1. /\ tip[p] \in TipIds
          /\ \A t \in TipIds \ {tip[p]} : tips'[t] = tips[t]
          /\ entity[p].status = "completed" /\ tips[tip[p]].status = "completed"
                => tips'[tip[p]].status = "completed"
      BY <1>3, UpdatedStatus
    <3>2. pc[p] = "update"
      BY <1>3 DEF Updated
    <3>3. BornCompleted(tip[p]) => entity[p].status = "completed"
      BY <3>2 DEF Settled
    <3>4. \A t \in TipIds : BornCompleted(t) => tips[t].status = "completed"
      BY DEF Settled
    <3> QED BY <3>1, <3>3, <3>4
  <2> QED BY <1>3, <2>1 DEF Settled, BornCompleted, Updated, TInv, TypeOK
<1>4. ASSUME NEW p \in Handlers, NEW t \in TipIds, Inserted(p, t)
      PROVE  Settled'
  <2>1. /\ arg[p].hash \in Hashes \cup {Null}
        /\ arg[p].hash # Null => NewTip(arg[p].hash).status = "completed"
    BY <1>4, RequestHash, NewTipRow
  <2>2. \A q \in Handlers : pc'[q] \in {"load", "update"} =>
           /\ q # p /\ pc[q] = pc'[q] /\ tip'[q] = tip[q] /\ tip[q] # t
           /\ tip[q] \in TipIds
    BY <1>4 DEF Inserted, TInv, TypeOK, Suspended, SuspendedAt
  <2>3. \A u \in TipIds : BornCompleted(u)' => tips'[u].status = "completed"
    BY <1>4, <2>1 DEF Inserted, Settled, BornCompleted, TInv, TypeOK
  <2>4. \A q \in Handlers :
           pc'[q] \in {"load", "update"} /\ BornCompleted(tip[q])' =>
              BornCompleted(tip[q])
    BY <1>4, <2>2 DEF Inserted, BornCompleted, TInv, TypeOK
  <2> QED BY <1>4, <2>2, <2>3, <2>4 DEF Inserted, Settled
<1>5. ASSUME NEW p \in Handlers, NotifyTipReceived(p)
      PROVE  Settled'
  BY <1>5 DEF NotifyTipReceived, Goto, history, Settled, BornCompleted, TInv,
              TypeOK
<1>6. ASSUME NEW p \in Handlers, Answer(p)
      PROVE  Settled'
  BY <1>6 DEF Answer, Leave, database, Settled, BornCompleted, TInv, TypeOK
<1> QED BY <1>1, <1>2, <1>3, <1>4, <1>5, <1>6, Steps

LEMMA InitSettled == Init => Settled
BY DEF Init, Settled, BornCompleted

\* An existing tip is changed by an update only.
LEMMA TipChange ==
    ASSUME TInv, [Next]_vars, NEW t \in TipIds, tips[t] # Null,
           tips'[t] # tips[t]
    PROVE  \E p \in Handlers : Updated(p) /\ tip[p] = t
<1>1. ASSUME NEW p \in Handlers, NEW u \in TipIds, Inserted(p, u)
      PROVE  FALSE
  BY <1>1 DEF Inserted, TInv, TypeOK
<1>2. ASSUME NEW p \in Handlers, Updated(p)
      PROVE  tip[p] = t
  BY <1>2, UpdatedStatus
<1> QED BY <1>1, <1>2, Steps DEF Still, Quiet, NotifyTipReceived, Answer,
        database

\* A tip inserted as completed stays completed: no stale copy of it, whoever
\* loaded it and whenever it is saved, takes it back to pending.
THEOREM SettledForGood == Spec => SettledStays
<1>1. ASSUME TInv, Settled, Settled', [Next]_vars, NEW t \in TipIds,
             origin[t] # Null, origin[t].hash # Null
      PROVE  tips'[t].status = "completed"
  <2>1. origin'[t] = origin[t]
    BY <1>1, Steps DEF TInv, TypeOK, Recorded, Still, Quiet, Updated,
       NotifyTipReceived, Answer, history, Inserted
  <2> QED BY <1>1, <2>1 DEF Settled, BornCompleted
<1>2. TInv /\ Settled /\ Settled' /\ [Next]_vars =>
        [\A t \in TipIds :
            origin[t] # Null /\ origin[t].hash # Null =>
               tips'[t].status = "completed"]_vars
  BY <1>1
<1> QED BY <1>2, InitTInv, NextTInv, InitSettled, NextSettled, PTL
        DEF Spec, SettledStays

-----------------------------------------------------------------------------
(* Stale objects.                                                          *)

\* What a handler holds is the row of its tip, touched by its request only,
\* unless another handler saved the tip meanwhile.
CurrentAt(p) ==
    /\ pc[p] \in {"load", "update"} => Touched(entity[p], tips[tip[p]])
    /\ pc[p] = "update" => base[p] = tips[tip[p]]

Current == \A p \in Handlers \ stale : CurrentAt(p)

Agreed == Current /\ RowsAgree

\* A touched object that is saved over the row it was made of gives a row
\* whose columns agree, and never takes a confirmation back.
LEMMA MergeTouched ==
    ASSUME NEW new \in Entity, NEW row \in Row, Touched(new, row)
    PROVE  LET r == Merge(new, row, row) IN
           /\ row.status = "completed" => r.status = "completed"
           /\ /\ row.transactionHash # Null => row.status = "completed"
              /\ row.withdrawalStatus = "none" <=>
                    row.withdrawalTransactionHash = Null
              => /\ r.transactionHash # Null => r.status = "completed"
                 /\ r.withdrawalStatus = "none" <=>
                       r.withdrawalTransactionHash = Null
<1>1. /\ "completed" # Undefined
      /\ row.withdrawalStatus # Undefined /\ new.withdrawalStatus # Undefined
      /\ new.withdrawalTransactionHash # Undefined
      /\ row.transactionHash # Undefined
  BY LedgerAssumption DEF Status, Entity, Row
<1>2. CASE Confirmed(new, row)
  BY <1>1, <1>2 DEF Merge, Column, Confirmed
<1>3. CASE Withdrawn(new, row)
  BY <1>1, <1>3 DEF Merge, Column, Withdrawn
<1> QED BY <1>2, <1>3 DEF Touched

LEMMA NextCurrent ==
    TInv /\ TInv' /\ Current /\ [Next]_vars => Current'
<1> SUFFICES ASSUME TInv, TInv', Current, [Next]_vars,
                    NEW q \in Handlers, q \notin stale'
             PROVE  CurrentAt(q)'
  BY DEF Current
<1>1. q \notin stale => CurrentAt(q)
  BY DEF Current
<1>2. CASE Still
  BY <1>1, <1>2 DEF Still, CurrentAt
<1>3. ASSUME NEW p \in Handlers, Quiet(p)
      PROVE  CurrentAt(q)'
  BY <1>1, <1>3 DEF Quiet, CurrentAt
<1>4. ASSUME NEW p \in Handlers, Updated(p)
      PROVE  CurrentAt(q)'
  <2>1. pc'[q] \in {"load", "update"} =>
           /\ q # p /\ pc'[q] = pc[q] /\ tip[q] \in TipIds
           /\ tip[q] # tip[p]
    BY <1>4 DEF Updated, TInv, TypeOK, Suspended, SuspendedAt
  <2>2. \A t \in TipIds \ {tip[p]} : tips'[t] = tips[t]
    BY <1>4, UpdatedStatus
  <2> QED BY <1>1, <1>4, <2>1, <2>2 DEF Updated, CurrentAt
<1>5. ASSUME NEW p \in Handlers, NEW t \in TipIds, Inserted(p, t)
      PROVE  CurrentAt(q)'
  <2>1. pc'[q] \in {"load", "update"} =>
           /\ q # p /\ pc'[q] = pc[q] /\ tip'[q] = tip[q]
           /\ tip[q] \in TipIds /\ tip[q] # t
    BY <1>5 DEF Inserted, TInv, TypeOK, Suspended, SuspendedAt
  <2> QED BY <1>1, <1>5, <2>1 DEF Inserted, CurrentAt, TInv, TypeOK
<1>6. ASSUME NEW p \in Handlers, NotifyTipReceived(p) \/ Answer(p)
      PROVE  CurrentAt(q)'
  BY <1>1, <1>6 DEF NotifyTipReceived, Answer, Goto, Leave, database, history,
     CurrentAt, TInv, TypeOK
<1> QED BY <1>2, <1>3, <1>4, <1>5, <1>6, Steps

LEMMA InitCurrent == Init => Current
BY DEF Init, Current, CurrentAt

\* What an update writes over a row, if nobody else saved the tip since the
\* object was read.
LEMMA UpdatedCurrent ==
    ASSUME TInv, Current, NEW p \in Handlers \ stale, Updated(p)
    PROVE  /\ tip[p] \in TipIds /\ tips[tip[p]] \in Row /\ entity[p] \in Entity
           /\ Touched(entity[p], tips[tip[p]])
           /\ tips'[tip[p]] = Merge(entity[p], tips[tip[p]], tips[tip[p]])
           /\ \A t \in TipIds \ {tip[p]} : tips'[t] = tips[t]
<1>1. /\ tip[p] \in TipIds /\ tips[tip[p]] \in Row /\ entity[p] \in Entity
      /\ Touched(entity[p], tips[tip[p]]) /\ base[p] = tips[tip[p]]
  BY DEF Updated, TInv, TypeOK, Suspended, SuspendedAt, Current, CurrentAt
<1> QED BY <1>1 DEF Updated, TInv, TypeOK

LEMMA NextAgree == TInv /\ Current /\ RowsAgree /\ [Next]_vars => RowsAgree'
<1> SUFFICES ASSUME TInv, Current, RowsAgree, [Next]_vars PROVE RowsAgree'
  OBVIOUS
<1>1. CASE UNCHANGED <<tips, overwritten>>
  BY <1>1 DEF RowsAgree
<1>2. ASSUME NEW p \in Handlers, NEW t \in TipIds, Inserted(p, t)
      PROVE  RowsAgree'
  BY <1>2 DEF Inserted, NewTip, RowsAgree, TInv, TypeOK
<1>3. ASSUME NEW p \in Handlers, Updated(p)
      PROVE  RowsAgree'
  <2>1. CASE p \in stale
    <3>1. /\ overwritten' = overwritten \cup {tip[p]}
          /\ \A t \in TipIds \ {tip[p]} : tips'[t] = tips[t]
      BY <1>3, <2>1, UpdatedStatus DEF Updated
    <3> QED BY <3>1 DEF RowsAgree
  <2>2. CASE p \notin stale
    <3>1. /\ tips[tip[p]] # Null /\ tip[p] \in TipIds
          /\ overwritten' = overwritten
      BY <1>3, <2>2, UpdatedCurrent, LedgerAssumption DEF Updated
    <3> QED BY <1>3, <2>2, <3>1, UpdatedCurrent, MergeTouched DEF RowsAgree
  <2> QED BY <2>1, <2>2
<1> QED BY <1>1, <1>2, <1>3, Steps
        DEF Still, Quiet, NotifyTipReceived, Answer, database, history

\* The columns of every row agree, unless a stale object was saved over it:
\* no other interleaving of requests, deliveries and failures tears a row.
THEOREM AgreeUnlessOverwritten == Spec => []RowsAgree
<1>1. Init => Agreed
  BY InitCurrent DEF Init, RowsAgree, Agreed
<1>2. TInv /\ TInv' /\ Agreed /\ [Next]_vars => Agreed'
  BY NextCurrent, NextAgree DEF Agreed
<1>3. Agreed => RowsAgree
  BY DEF Agreed
<1> QED BY <1>1, <1>2, <1>3, InitTInv, NextTInv, PTL DEF Spec

\* Only a withdrawal event that saves a stale copy unconfirms a tip.
THEOREM UnconfirmedByWithdrawal == Spec => UnconfirmedOnlyByStaleWithdrawal
<1> DEFINE Unconfirmed(t) == tips[t] # Null /\ tips[t].status = "completed"
                                /\ tips'[t].status = "pending"
           Stale(t) == \E p \in stale : /\ pc[p] = "update" /\ pc'[p] # "update"
                                        /\ tip[p] = t
                                        /\ arg[p] \in Events
                                        /\ arg[p].topic = "withdrawal"
<1>1. ASSUME TInv, Current, [Next]_vars, NEW t \in TipIds, Unconfirmed(t)
      PROVE  Stale(t)
  <2>1. PICK p \in Handlers : Updated(p) /\ tip[p] = t
    BY <1>1, TipChange
  <2>2. entity[p].status # "completed"
    BY <1>1, <2>1, UpdatedStatus
  <2>3. pc[p] = "update" /\ pc'[p] # "update" /\ arg[p] \in Withdrawals
    BY <1>1, <2>1, <2>2 DEF Updated, TInv, TypeOK, Suspended, SuspendedAt
  <2>4. p \in stale
    <3> SUFFICES ASSUME p \notin stale PROVE FALSE
      OBVIOUS
    <3>1. /\ entity[p] \in Entity /\ tips[t] \in Row
          /\ Touched(entity[p], tips[t])
          /\ tips'[t] = Merge(entity[p], tips[t], tips[t])
      BY <1>1, <2>1, UpdatedCurrent
    <3>2. tips'[t].status = "completed"
      BY <1>1, <3>1, MergeTouched
    <3> QED BY <1>1, <3>2
  <2> QED BY <2>1, <2>3, <2>4 DEF Withdrawals
<1>2. TInv /\ Current /\ [Next]_vars =>
        [\A t \in TipIds : Unconfirmed(t) => Stale(t)]_vars
  BY <1>1
<1>3. (Spec => [][\A t \in TipIds : Unconfirmed(t) => Stale(t)]_vars)
  BY <1>2, InitTInv, NextTInv, InitCurrent, NextCurrent, PTL DEF Spec
<1> QED BY <1>3, PTL DEF UnconfirmedOnlyByStaleWithdrawal

-----------------------------------------------------------------------------
(* The book.                                                               *)

Told == {t \in TipIds : notifications[t] > 0}

\* Every step of the ledger writes an entry, announces it, acknowledges a
\* request, or is invisible in the book.
LEMMA NextBook ==
    ASSUME TInv, Notices, [Next]_vars
    PROVE  [Book!Next]_<<origin, Told, acked>>
<1> USE DEF Told
<1>1. CASE Still
  BY <1>1 DEF Still
<1>2. ASSUME NEW p \in Handlers, Quiet(p) \/ Updated(p)
      PROVE  UNCHANGED <<origin, Told, acked>>
  BY <1>2 DEF Quiet, Updated
<1>3. ASSUME NEW p \in Handlers, NEW t \in TipIds, Inserted(p, t)
      PROVE  Book!Next
  <2>1. Book!Record(t, arg[p])
    BY <1>3, RequestHash DEF Inserted, Book!Record
  <2> QED BY <1>3, <2>1, RequestHash DEF Book!Next
<1>4. ASSUME NEW p \in Handlers, NotifyTipReceived(p)
      PROVE  Book!Next
  <2>1. PICK t \in TipIds : t = tip[p]
    BY <1>4, NotifyStep
  <2>2. /\ origin[t] \in TipEvents /\ notifications[t] = 0
        /\ notifications' = [notifications EXCEPT ![t] = 1]
    BY <1>4, <2>1, NotifyStep
  <2>3. Told' = Told \cup {t}
    BY <2>2 DEF TInv, TypeOK
  <2>4. Book!Announce(t)
    BY <1>4, <2>2, <2>3 DEF Book!Announce, NotifyTipReceived, history
  <2> QED BY <2>4 DEF Book!Next
<1>5. ASSUME NEW p \in Handlers, Answer(p)
      PROVE  [Book!Next]_<<origin, Told, acked>>
  <2>1. UNCHANGED <<origin, Told>>
    BY <1>5 DEF Answer, database
  <2>2. CASE arg[p] \in Events
    <3>1. arg[p] \in TipEvents => \E t \in Told : origin[t] = arg[p]
      BY <1>5 DEF Answer, Notices, Owed
    <3>2. Book!Acknowledge(arg[p])
      BY <1>5, <2>1, <2>2, <3>1 DEF Answer, Book!Acknowledge
    <3> QED BY <2>2, <3>2 DEF Book!Next
  <2>3. CASE arg[p] \notin Events
    BY <1>5, <2>1, <2>3 DEF Answer
  <2> QED BY <2>2, <2>3
<1> QED BY <1>1, <1>2, <1>3, <1>4, <1>5, Steps

\* The ledger implements the book of tips.
THEOREM LedgerImplementsBook == Spec => ImplementsBook
<1>1. Init => Book!Init
  BY DEF Init, Book!Init
<1>2. TInv /\ Notices /\ [Next]_vars => [Book!Next]_<<origin, Told, acked>>
  BY NextBook
<1>3. Spec => Book!Init /\ [][Book!Next]_<<origin, Told, acked>>
  BY <1>1, <1>2, InitTInv, NextTInv, InitNotices, NextNotices, PTL DEF Spec
<1> QED BY <1>3, PTL DEF ImplementsBook, Book!Spec, Told

\* The same after an acknowledgement as after any number of later requests:
\* a chain event that was acknowledged has a tip of its own whose creator
\* was told, and no tip, notification or acknowledgement disappears.  The
\* promise follows from the book alone, whatever implements it.
THEOREM AcknowledgedForGood ==
    Spec => []Book!Kept /\ [][Book!Lasting]_<<origin, Told, acked>>
<1> DEFINE Written == origin \in [TipIds -> Creates \cup Events \cup {Null}]
           Before == Written /\ Book!Kept
<1> USE DEF Told
<1>1. Book!Init => Before
  BY DEF Book!Init, Book!Kept
<1>2. ASSUME Written, [Book!Next]_<<origin, Told, acked>>
      PROVE  Written' /\ [Book!Lasting]_<<origin, Told, acked>>
  BY <1>2, LedgerAssumption DEF Book!Next, Book!Record, Book!Announce, Book!Acknowledge,
     Book!Lasting
<1>3. ASSUME Before, [Book!Next]_<<origin, Told, acked>>
      PROVE  Before'
  <2>1. CASE UNCHANGED <<origin, Told, acked>>
    BY <1>3, <2>1 DEF Book!Kept
  <2>2. CASE Book!Next
    <3>1. Book!Lasting
      BY <1>3, <2>2, LedgerAssumption DEF Book!Next, Book!Record,
         Book!Announce, Book!Acknowledge, Book!Lasting
    <3>2. ASSUME NEW r \in TipEvents, \E i \in Told : origin[i] = r
          PROVE  \E i \in Told' : origin'[i] = r
      <4>1. PICK i \in Told : origin[i] = r
        BY <3>2
      <4>2. r # Null
        BY LedgerAssumption DEF TipEvents
      <4>3. i \in Told' /\ origin'[i] = r
        BY <3>1, <4>1, <4>2 DEF Book!Lasting
      <4> QED BY <4>3
    <3>3. ASSUME NEW r \in acked' \cap TipEvents
          PROVE  \E i \in Told : origin[i] = r
      BY <1>3, <2>2, <3>3 DEF Book!Kept, Book!Next, Book!Record,
         Book!Announce, Book!Acknowledge
    <3>4. \A r \in acked' \cap TipEvents : \E i \in Told' : origin'[i] = r
      BY <3>2, <3>3
    <3> QED BY <1>2, <1>3, <3>4 DEF Book!Kept
  <2> QED BY <1>3, <2>1, <2>2
<1> HIDE DEF Written
<1>4. Before => Written /\ Book!Kept
  OBVIOUS
<1>5. Book!Spec => []Book!Kept /\ [][Book!Lasting]_<<origin, Told, acked>>
  BY <1>1, <1>2, <1>3, <1>4, PTL DEF Book!Spec
<1> QED BY <1>5, LedgerImplementsBook, PTL DEF ImplementsBook
=============================================================================
