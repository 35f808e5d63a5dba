------------------------------ MODULE TipLedger ------------------------------
(***************************************************************************)
(* The tip ledger of the StellarTip API: the `tips` table and the handlers *)
(* that write it.                                                          *)
(*                                                                         *)
(*   POST /tips                      TipsService.createTip                 *)
(*   POST /tips/:id/confirm          TipsService.confirmTip                *)
(*   POST /stellar/contract/webhook  StellarService.handleContractWebhook  *)
(*                                                                         *)
(* Every handler is an async function: it runs without interruption up to  *)
(* an await and other requests (of this process or of another instance)    *)
(* run while it waits.  An action is one awaited database call together    *)
(* with the synchronous code that follows it.  No handler opens a          *)
(* transaction around its calls; the only protection is the unique         *)
(* constraint on each of the two hash columns.                             *)
(***************************************************************************)
EXTENDS Naturals

CONSTANTS
    Handlers,   \* request slots: how many handlers may be in flight at once
    TipIds,     \* primary keys of `tips`; their number bounds the table
    Hashes,     \* Stellar transaction hashes
    Wallets,    \* receiver wallets named by tips
    Creates,    \* bodies of POST /tips
    Confirms,   \* path id and body of POST /tips/:id/confirm
    Events,     \* contract events the webhook is sent, any number of times
    Null,       \* SQL NULL, and the idle value of a handler's locals
    Undefined   \* a JSON property that is absent

Status == {"pending", "completed"}          \* nothing assigns TipStatus.FAILED
WithdrawalStatus == {"none", "pending", "completed", "failed"}

\* The columns of a tip that a handler changes after the insert.  Creator,
\* wallets, amount, asset and message are written once and never updated.
Row == [status : Status,
        transactionHash : Hashes \cup {Null},
        withdrawalStatus : WithdrawalStatus,
        withdrawalTransactionHash : Hashes \cup {Null}]

\* A row as a handler holds it: JavaScript adds the value `undefined`.
Entity == [status : Status,
           transactionHash : Hashes \cup {Null, Undefined},
           withdrawalStatus : WithdrawalStatus,
           withdrawalTransactionHash : Hashes \cup {Null}]

\* `valid` stands for the checks of amount, asset and USDC configuration,
\* none of which depends on the database.
CreateBody == [receiver : Wallets, hash : Hashes \cup {Null}, valid : BOOLEAN]

\* Nothing validates the hash of a confirmation: it may be absent or null.
ConfirmBody == [id : TipIds, hash : Hashes \cup {Null, Undefined}]

\* `valid`: wallets, amount and asset of a tip event parse.  `id` and
\* `tipHash` are the tip a withdrawal event names, `withdrawal` its status:
\* absent (Undefined), unknown ("other") or one of the enum.
Event == [topic : {"tip", "withdrawal", "register", "other"},
          hash : Hashes \cup {Null},
          receiver : Wallets,
          valid : BOOLEAN,
          id : TipIds \cup {Null},
          tipHash : Hashes \cup {Null},
          withdrawal : {"pending", "completed", "failed", "other", Undefined}]

ASSUME LedgerAssumption ==
    /\ Creates \subseteq CreateBody
    /\ Confirms \subseteq ConfirmBody
    /\ Events \subseteq Event
    /\ Creates \cap Events = {}
    /\ Confirms \cap Events = {}
    /\ Undefined \notin Hashes \cup {Null}
    /\ Undefined \notin Status \cup WithdrawalStatus
    /\ Null \notin Row \cup TipIds \cup Hashes
    /\ Null \notin Creates \cup Confirms \cup Events

VARIABLES
    tips,           \* the table: TipIds -> Row, Null where there is no row
    users,          \* wallets linked to an account
    notifications,  \* per tip: TIP_RECEIVED notifications inserted for it
    fresh,          \* events still inside the replay window
    pc,             \* per handler: the awaited call it is suspended in
    arg,            \* per handler: the request it serves
    tip,            \* per handler: the id of the tip it works on
    entity,         \* per handler: the tip object it modified in memory
    base,           \* per handler: the row save() compared the object with
    origin,         \* history: the request a tip was inserted for
    acked,          \* history: events answered {accepted, duplicate: false}
    dupAcked,       \* history: events answered {accepted, duplicate: true}
    late,           \* history: handlers whose event had been acked before
    stale,          \* history: handlers whose tip was saved by another one
                    \* after they read it
    overwritten     \* history: tips that a stale object was saved over

database == <<tips, users, notifications>>
locals == <<pc, arg, tip, entity, base, late, stale>>
history == <<origin, acked, dupAcked, overwritten>>
vars == <<database, fresh, locals, history>>

TipEvents == {e \in Events : e.topic = "tip"}

Label == {"idle", "duplicate?", "creator?", "receiver?", "linked?", "confirm?",
          "insertEvent", "insertCreate", "notify", "load", "update", "answer"}

-----------------------------------------------------------------------------
(* What the database does with one statement.                              *)

\* Mutant of Conflict: the migration forgot the unique transactionHash.
ConflictOnWithdrawalOnly(t, r) ==
    \E u \in TipIds \ {t} :
        /\ tips[u] # Null
        /\ r.withdrawalTransactionHash # Null
        /\ tips[u].withdrawalTransactionHash = r.withdrawalTransactionHash

\* A tip other than t already holds one of r's hashes (the unique columns).
Conflict(t, r) ==
    \E u \in TipIds \ {t} :
        /\ tips[u] # Null
        /\ \/ /\ r.transactionHash # Null
              /\ tips[u].transactionHash = r.transactionHash
           \/ /\ r.withdrawalTransactionHash # Null
              /\ tips[u].withdrawalTransactionHash = r.withdrawalTransactionHash

\* save() of a loaded object re-reads the row (base) and updates the columns
\* in which the object differs from it; an undefined property is skipped.
Column(new, old, current) == IF new \in {old, Undefined} THEN current ELSE new

Merge(new, old, current) ==
    [status |-> Column(new.status, old.status, current.status),
     transactionHash |-> Column(new.transactionHash, old.transactionHash,
                                current.transactionHash),
     withdrawalStatus |-> Column(new.withdrawalStatus, old.withdrawalStatus,
                                 current.withdrawalStatus),
     withdrawalTransactionHash |->
        Column(new.withdrawalTransactionHash, old.withdrawalTransactionHash,
               current.withdrawalTransactionHash)]

\* Mutant of NewTip: without the default of the hash.
NewTipUndefined(hash) ==
    [status |-> IF hash # Null THEN "completed" ELSE "pending",
     transactionHash |-> IF hash = Null THEN Undefined ELSE hash,
     withdrawalStatus |-> "none",
     withdrawalTransactionHash |-> Null]

NewTip(hash) ==
    [status |-> IF hash # Null THEN "completed" ELSE "pending",
     transactionHash |-> hash,
     withdrawalStatus |-> "none",
     withdrawalTransactionHash |-> Null]

-----------------------------------------------------------------------------
(* How a handler moves.                                                    *)

Goto(p, label) ==
    /\ pc' = [pc EXCEPT ![p] = label]
    /\ UNCHANGED <<arg, late>>

\* The handler is done: it answered, or an exception left it.
Leave(p) ==
    /\ pc' = [pc EXCEPT ![p] = "idle"]
    /\ arg' = [arg EXCEPT ![p] = Null]
    /\ tip' = [tip EXCEPT ![p] = Null]
    /\ entity' = [entity EXCEPT ![p] = Null]
    /\ base' = [base EXCEPT ![p] = Null]
    /\ late' = late \ {p}
    /\ stale' = stale \ {p}

Enter(p, request, label) ==
    /\ pc[p] = "idle"
    /\ pc' = [pc EXCEPT ![p] = label]
    /\ arg' = [arg EXCEPT ![p] = request]
    /\ late' = IF request \in acked THEN late \cup {p} ELSE late \ {p}
    /\ UNCHANGED <<tip, entity, base, stale, database, fresh, history>>

\* Mutant of Insert: a unique violation is taken for work already done.
InsertOrIgnore(p, label) ==
    \E t \in TipIds :
        /\ tips[t] = Null
        /\ LET row == NewTip(arg[p].hash) IN
           IF Conflict(t, row)
           THEN /\ Goto(p, "answer")
                /\ UNCHANGED <<tips, origin, tip>>
           ELSE /\ tips' = [tips EXCEPT ![t] = row]
                /\ origin' = [origin EXCEPT ![t] = arg[p]]
                /\ tip' = [tip EXCEPT ![p] = t]
                /\ Goto(p, label)
        /\ UNCHANGED <<entity, base, stale, users, notifications, fresh,
                       acked, dupAcked, overwritten>>

\* INSERT of a new tip; the unique constraint turns a second tip with the
\* same hash into an exception.
Insert(p, label) ==
    \E t \in TipIds :
        /\ tips[t] = Null
        /\ LET row == NewTip(arg[p].hash) IN
           IF Conflict(t, row)
           THEN /\ Leave(p)
                /\ UNCHANGED <<tips, origin>>
           ELSE /\ tips' = [tips EXCEPT ![t] = row]
                /\ origin' = [origin EXCEPT ![t] = arg[p]]
                /\ tip' = [tip EXCEPT ![p] = t]
                /\ Goto(p, label)
                /\ UNCHANGED <<entity, base, stale>>
        /\ UNCHANGED <<users, notifications, fresh, acked, dupAcked,
                       overwritten>>

\* The object o, loaded from row t and modified, is handed to save().
Modify(p, t, o) ==
    /\ tip' = [tip EXCEPT ![p] = t]
    /\ entity' = [entity EXCEPT ![p] = o]
    /\ Goto(p, "load")
    /\ UNCHANGED <<base, stale>>
    /\ UNCHANGED <<database, fresh, history>>

\* The handler moves on and nothing else changes.
Proceed(p, label) ==
    /\ Goto(p, label)
    /\ UNCHANGED <<tip, entity, base, stale, database, fresh, history>>

\* The handler answers with an exception and leaves the database alone.
Reject(p) ==
    /\ Leave(p)
    /\ UNCHANGED <<database, fresh, history>>

-----------------------------------------------------------------------------
(* The surroundings: accounts and the clock.                               *)

\* A wallet signs in for the first time, or is linked to an account.
Register(w) ==
    /\ w \notin users
    /\ users' = users \cup {w}
    /\ UNCHANGED <<tips, notifications, fresh, locals, history>>

\* Five minutes have passed since the event's timestamp.
Expire(e) ==
    /\ e \in fresh
    /\ fresh' = fresh \ {e}
    /\ UNCHANGED <<database, locals, history>>

-----------------------------------------------------------------------------
(* POST /tips                                                              *)

CreateTip(p, d) == Enter(p, d, "receiver?")

CreateTipFindCreator(p) ==
    /\ pc[p] = "receiver?"
    /\ IF arg[p].receiver \in users /\ arg[p].valid
       THEN Proceed(p, "insertCreate")
       ELSE Reject(p)

CreateTipInsert(p) ==
    /\ pc[p] = "insertCreate"
    /\ Insert(p, "answer")

-----------------------------------------------------------------------------
(* POST /tips/:id/confirm                                                  *)

ConfirmTip(p, c) == Enter(p, c, "confirm?")

\* Mutant of ConfirmTipFind: the status follows the body, as in createTip.
ConfirmTipByHash(p) ==
    /\ pc[p] = "confirm?"
    /\ LET t == arg[p].id
           hash == arg[p].hash IN
       IF tips[t] = Null
       THEN Reject(p)
       ELSE Modify(p, t, [tips[t] EXCEPT
                            !.status = IF hash \in Hashes
                                       THEN "completed" ELSE "pending",
                            !.transactionHash = hash])

\* Whatever the tip's state is, it is confirmed with the hash of the body.
ConfirmTipFind(p) ==
    /\ pc[p] = "confirm?"
    /\ LET t == arg[p].id IN
       IF tips[t] = Null
       THEN Reject(p)
       ELSE Modify(p, t, [tips[t] EXCEPT !.status = "completed",
                                         !.transactionHash = arg[p].hash])

-----------------------------------------------------------------------------
(* POST /stellar/contract/webhook                                          *)

\* A delivery with a good signature, inside the replay window and with a
\* hash.  Any other is refused before the first await and changes nothing.
HandleContractWebhook(p, e) ==
    /\ e \in fresh
    /\ e.hash # Null
    /\ Enter(p, e, "duplicate?")

\* Some tip was created or withdrawn by the transaction.
KnownTransaction(hash) ==
    \E t \in TipIds :
        /\ tips[t] # Null
        /\ hash \in {tips[t].transactionHash,
                     tips[t].withdrawalTransactionHash}

\* Up to the next await: the switch on the topic, and the parsing of a tip
\* event or of the tip reference of a withdrawal.
Dispatch(p, e) ==
    \/ /\ e.topic = "tip"
       /\ IF e.valid THEN Proceed(p, "creator?") ELSE Reject(p)
    \/ /\ e.topic = "withdrawal"
       /\ Proceed(p, IF e.id = Null /\ e.tipHash = Null
                     THEN "answer" ELSE "linked?")
    \/ /\ e.topic = "register"
       /\ Proceed(p, "answer")
    \/ /\ e.topic = "other"
       /\ Reject(p)

IsDuplicateTransaction(p) ==
    /\ pc[p] = "duplicate?"
    /\ IF KnownTransaction(arg[p].hash)
       THEN /\ dupAcked' = dupAcked \cup {arg[p]}
            /\ Leave(p)
            /\ UNCHANGED <<database, fresh, origin, acked, overwritten>>
       ELSE Dispatch(p, arg[p])

PersistTipEventFindCreator(p) ==
    /\ pc[p] = "creator?"
    /\ IF arg[p].receiver \in users
       THEN Proceed(p, "insertEvent")
       ELSE Reject(p)

\* Mutant of PersistTipEventInsert: the answer does not wait for the notice.
PersistTipEventUnawaited(p) ==
    /\ pc[p] = "insertEvent"
    /\ Insert(p, "answer")

PersistTipEventInsert(p) ==
    /\ pc[p] = "insertEvent"
    /\ Insert(p, "notify")

NotifyTipReceived(p) ==
    /\ pc[p] = "notify"
    /\ notifications' = [notifications EXCEPT ![tip[p]] = @ + 1]
    /\ Goto(p, "answer")
    /\ UNCHANGED <<tips, users, tip, entity, base, stale, fresh, history>>

\* The tip a withdrawal names: by id if it gives one, else by hash.
Linked(e, t) ==
    /\ tips[t] # Null
    /\ IF e.id # Null THEN t = e.id ELSE tips[t].transactionHash = e.tipHash

\* Mutant of PersistWithdrawalEvent: it saves a new object, with the defaults
\* of a new tip, under the id of the linked one.
PersistWithdrawalAnew(p) ==
    /\ pc[p] = "linked?"
    /\ LET e == arg[p] IN
       \E t \in TipIds :
          /\ Linked(e, t)
          /\ Modify(p, t,
                [NewTip(Null) EXCEPT !.transactionHash = Undefined,
                                     !.withdrawalStatus = e.withdrawal,
                                     !.withdrawalTransactionHash = e.hash])

\* Mutant of PersistWithdrawalEvent: an unknown status is skipped.
PersistWithdrawalHashOnly(p) ==
    /\ pc[p] = "linked?"
    /\ LET e == arg[p] IN
       \E t \in TipIds :
          /\ Linked(e, t)
          /\ Modify(p, t,
                [tips[t] EXCEPT !.withdrawalTransactionHash = e.hash])

PersistWithdrawalEvent(p) ==
    /\ pc[p] = "linked?"
    /\ LET e == arg[p] IN
       \/ /\ ~ \E t \in TipIds : Linked(e, t)
          /\ Proceed(p, "answer")
       \/ \E t \in TipIds :
             /\ Linked(e, t)
             /\ IF e.withdrawal \in {"other", Undefined}
                THEN Reject(p)
                ELSE Modify(p, t,
                       [tips[t] EXCEPT !.withdrawalStatus = e.withdrawal,
                                       !.withdrawalTransactionHash = e.hash])

-----------------------------------------------------------------------------
(* Repository.save() of a loaded tip.                                      *)

\* It selects the row again; without a difference it does nothing.
SaveLoad(p) ==
    /\ pc[p] = "load"
    /\ LET row == tips[tip[p]] IN
       /\ base' = [base EXCEPT ![p] = row]
       /\ Goto(p, IF Merge(entity[p], row, row) = row
                  THEN "answer" ELSE "update")
    /\ UNCHANGED <<tip, entity, stale, database, fresh, history>>

\* The columns that differ are updated; the objects other handlers hold of
\* the tip are out of date from then on.
Update(p, label) ==
    /\ pc[p] = "update"
    /\ LET row == Merge(entity[p], base[p], tips[tip[p]]) IN
       IF Conflict(tip[p], row)
       THEN Reject(p)
       ELSE /\ tips' = [tips EXCEPT ![tip[p]] = row]
            /\ Goto(p, label)
            /\ stale' = {q \in Handlers \ {p} :
                            \/ q \in stale
                            \/ pc[q] \in {"load", "update"} /\ tip[q] = tip[p]}
            /\ overwritten' = IF p \in stale
                              THEN overwritten \cup {tip[p]} ELSE overwritten
            /\ UNCHANGED <<users, notifications, tip, entity, base, fresh,
                           origin, acked, dupAcked>>

\* Mutant of SaveUpdate: a confirmed tip is announced, like a tip event.
SaveUpdateAnnounced(p) ==
    Update(p, IF arg[p] \in Confirms THEN "notify" ELSE "answer")

SaveUpdate(p) == Update(p, "answer")

-----------------------------------------------------------------------------
(* The end of a request.                                                   *)

Answer(p) ==
    /\ pc[p] = "answer"
    /\ acked' = IF arg[p] \in Events THEN acked \cup {arg[p]} ELSE acked
    /\ Leave(p)
    /\ UNCHANGED <<database, fresh, origin, dupAcked, overwritten>>

\* The awaited call throws, the client's connection is lost before the
\* answer, or the process stops.  What is committed stays, nothing is undone.
Fail(p) ==
    /\ pc[p] # "idle"
    /\ Reject(p)

-----------------------------------------------------------------------------
Init ==
    /\ tips = [t \in TipIds |-> Null]
    /\ users = {}
    /\ notifications = [t \in TipIds |-> 0]
    /\ fresh = Events
    /\ pc = [p \in Handlers |-> "idle"]
    /\ arg = [p \in Handlers |-> Null]
    /\ tip = [p \in Handlers |-> Null]
    /\ entity = [p \in Handlers |-> Null]
    /\ base = [p \in Handlers |-> Null]
    /\ late = {}
    /\ stale = {}
    /\ overwritten = {}
    /\ origin = [t \in TipIds |-> Null]
    /\ acked = {}
    /\ dupAcked = {}

Environment ==
    \/ \E w \in Wallets : Register(w)
    \/ \E e \in Events : Expire(e)

Handle(p) ==
    \/ \E d \in Creates : CreateTip(p, d)
    \/ CreateTipFindCreator(p)
    \/ CreateTipInsert(p)
    \/ \E c \in Confirms : ConfirmTip(p, c)
    \/ ConfirmTipFind(p)
    \/ \E e \in Events : HandleContractWebhook(p, e)
    \/ IsDuplicateTransaction(p)
    \/ PersistTipEventFindCreator(p)
    \/ PersistTipEventInsert(p)
    \/ NotifyTipReceived(p)
    \/ PersistWithdrawalEvent(p)
    \/ SaveLoad(p)
    \/ SaveUpdate(p)
    \/ Answer(p)
    \/ Fail(p)

Next == Environment \/ \E p \in Handlers : Handle(p)

Spec == Init /\ [][Next]_vars

-----------------------------------------------------------------------------
TypeOK ==
    /\ tips \in [TipIds -> Row \cup {Null}]
    /\ users \subseteq Wallets
    /\ notifications \in [TipIds -> Nat]
    /\ fresh \subseteq Events
    /\ pc \in [Handlers -> Label]
    /\ arg \in [Handlers -> Creates \cup Confirms \cup Events \cup {Null}]
    /\ tip \in [Handlers -> TipIds \cup {Null}]
    /\ entity \in [Handlers -> Entity \cup {Null}]
    /\ base \in [Handlers -> Row \cup {Null}]
    /\ late \subseteq Handlers
    /\ stale \subseteq Handlers
    /\ overwritten \subseteq TipIds
    /\ origin \in [TipIds -> Creates \cup Events \cup {Null}]
    /\ acked \subseteq Events
    /\ dupAcked \subseteq Events

\* No transaction is recorded twice in a column: however deliveries, retries
\* and confirmations of one transaction interleave between the duplicate
\* check and the insert, at most one tip carries its hash.
UniqueHashes ==
    \A t, u \in TipIds :
        t # u /\ tips[t] # Null /\ tips[u] # Null =>
            /\ tips[t].transactionHash # Null =>
                  tips[t].transactionHash # tips[u].transactionHash
            /\ tips[t].withdrawalTransactionHash # Null =>
                  tips[t].withdrawalTransactionHash
                     # tips[u].withdrawalTransactionHash

\* A delivery answered {accepted, duplicate: false} is a promise: for a tip
\* event a tip was recorded for it and its creator has been notified, even
\* when the first delivery failed half way and a later one did the work.
AckImpliesNotified ==
    \A e \in acked \cap TipEvents :
        \E t \in TipIds : origin[t] = e /\ notifications[t] = 1

\* A creator is told of a tip at most once, however its event is delivered
\* again, fails half way, or meets other requests for the tip.
NotifiedOnce == \A t \in TipIds : notifications[t] <= 1

\* A tip that was inserted as completed, that is with a transaction hash,
\* never leaves that state, whatever stale copies handlers save over it.
SettledStays ==
    [][\A t \in TipIds :
          origin[t] # Null /\ origin[t].hash # Null =>
              tips'[t].status = "completed"]_vars

\* A confirmation is undone in one way only: a withdrawal event read the tip
\* before another handler saved it, and saves its stale copy.  No second
\* confirmation, with whatever body, and no replayed event can do it.
UnconfirmedOnlyByStaleWithdrawal ==
    [][\A t \in TipIds :
          tips[t] # Null /\ tips[t].status = "completed"
             /\ tips'[t].status = "pending" =>
                \E p \in stale : /\ pc[p] = "update" /\ pc'[p] # "update"
                                 /\ tip[p] = t
                                 /\ arg[p] \in Events
                                 /\ arg[p].topic = "withdrawal"]_vars

\* The columns of a row agree: a tip with a transaction hash is completed,
\* and a tip has a withdrawal hash exactly when it has a withdrawal status.
\* Only the save of a stale object, which updates just the columns it sees
\* changed, can break either.
RowsAgree ==
    \A t \in TipIds \ overwritten :
        tips[t] # Null =>
            /\ tips[t].transactionHash # Null => tips[t].status = "completed"
            /\ tips[t].withdrawalStatus = "none" <=>
                  tips[t].withdrawalTransactionHash = Null

\* The abstract book of tips this ledger implements.
Book == INSTANCE TipBook WITH
            Ids <- TipIds,
            Requests <- Creates \cup Events,
            Announced <- TipEvents,
            announced <- {t \in TipIds : notifications[t] > 0}

ImplementsBook == Book!Spec

\* The test 'returns 200 for replayed events without re-processing': a
\* delivery of an event that had been acknowledged records no tip, changes
\* none and notifies nobody.
NoReprocessing ==
    [][\A p \in Handlers :
          p \in late /\ pc'[p] # pc[p] => UNCHANGED <<tips, notifications>>]_vars

\* A sender that gets 200, as a duplicate or not, will not deliver the event
\* again; by then the creator has been notified.
AnsweredImpliesNotified ==
    \A e \in (acked \cup dupAcked) \cap TipEvents :
        \E t \in TipIds : origin[t] = e /\ notifications[t] = 1
=============================================================================
