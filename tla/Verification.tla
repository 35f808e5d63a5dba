----------------------------- MODULE Verification -----------------------------
(***************************************************************************)
(* POST /tips/:id/verify-onchain: TipsService.verifyTipOnChain, with its   *)
(* cache, the rank a tip is looked up under and the discrepancy            *)
(* notifications, for the tips of one creator.                             *)
(*                                                                         *)
(* A payment stands for a transaction, known by its hash.  Horizon tells   *)
(* its source, its operations and when it was closed; the contract keeps   *)
(* the payments made through it in a list, each with its parties, amount   *)
(* and time; a tip of the database claims parties and an amount, its       *)
(* terms, and a hash.  Two payments may have the same terms.  Nothing      *)
(* obliges the three to agree: that is what a verification is for.         *)
(***************************************************************************)
EXTENDS Naturals, Sequences

CONSTANTS
    Handlers,   \* request slots
    TipIds,     \* primary keys of the creator's tips
    Payments,   \* transactions that pay the creator, or that a tip may name
    Terms,      \* senders, recipients and amounts (assets are not compared)
    Recorded,   \* per payment: its terms in the contract's record
    Operations, \* per payment: what each operation in Horizon's reply states
    Closed,     \* per payment: its time in Horizon's reply
    Stamped,    \* per payment: its time in the contract's record
    Times,
    Garbled,    \* a time that is no date
    Caches,     \* one shared Redis, or one map per instance
    CacheOf,    \* the cache each handler uses
    Null

ASSUME VerificationAssumption ==
    /\ CacheOf \in [Handlers -> Caches]
    /\ Null \notin TipIds \cup Payments \cup Terms
    /\ Recorded \in [Payments -> Terms]
    /\ Operations \in [Payments -> Seq(Terms \cup {Null})]
    /\ {Closed, Stamped} \subseteq [Payments -> Times \cup {Garbled, Null}]

VARIABLES
    made,           \* the payments Horizon knows
    entries,        \* the contract's list: payments, oldest first
    order,          \* the creator's tips in the database, oldest first
    claim,          \* per tip: its terms
    hash,           \* per tip: the payment whose transaction hash it has
    notified,       \* tips with a discrepancy notification
    cache,          \* per cache and tip: the result kept for a minute
    pc,             \* per handler: the call it is suspended in
    tip,            \* per handler: the tip it verifies
    seen,           \* per handler: the hash that tip had when it was read,
                    \* until it has been looked up
    index,          \* per handler: tipIndex
    horizon,        \* per handler: what Horizon knows of the hash
    contract,       \* per handler: what the contract has at the index
    drifted,        \* history: database and contract have once disagreed
    failed,         \* history: a look-up has once failed
    rehashed        \* history: tips whose hash was replaced by another

chain == <<made, entries>>
database == <<order, claim, hash, notified>>
found == <<seen, index, horizon, contract>>
locals == <<pc, tip, found>>
history == <<drifted, failed, rehashed>>
vars == <<chain, database, cache, locals, history>>

Label == {"idle", "cache?", "find", "index", "horizon", "contract", "notify",
          "store"}

Result == [index : Nat, horizon : Payments \cup {Null},
           contract : Payments \cup {Null}, matches : BOOLEAN]

\* Every tip o lists is the payment at its own rank of the contract's list:
\* it has the terms cl of the record, and the hash h.
Agree(o, cl, h) ==
    \A i \in DOMAIN o :
        /\ i \in DOMAIN entries
        /\ Recorded[entries[i]] = cl[o[i]]
        /\ h[o[i]] = entries[i]

\* What verifyPayment makes of Horizon's reply: the source of the transaction
\* with the recipient and the amount of its first operation.  Without an
\* operation, or if that one names no recipient and amount, they are '' and 0,
\* which no tip has.  Amounts are compared as they are, whatever their units.
Stated(x) == IF Operations[x] = <<>> THEN Null ELSE Head(Operations[x])

BothTimed(x, y) == Closed[x] # Null /\ Stamped[y] # Null

\* timestampMatch: payment x as Horizon tells it and y as the contract does.
SameTime(x, y) == BothTimed(x, y) => Closed[x] = Stamped[y]

\* toISOString throws a RangeError, and the handler with it.
Unreadable(x, y) == BothTimed(x, y) /\ Garbled \in {Closed[x], Stamped[y]}

\* Horizon and the contract tell the same of a payment.
ToldAlike(x) == Stated(x) = Recorded[x] /\ SameTime(x, x)

-----------------------------------------------------------------------------
(* The surroundings: the chain, the ledger and the clock.                  *)

\* A payment is made, through the contract or past it.
Pay(x) ==
    /\ x \notin made
    /\ made' = made \cup {x}
    /\ entries' \in {entries, Append(entries, x)}
    /\ UNCHANGED <<database, cache, locals, history>>

\* A tip is inserted, with a hash or without.
CreateTip(t, terms, h) ==
    /\ claim[t] = Null
    /\ \A u \in TipIds : h # Null => hash[u] # h
    /\ order' = Append(order, t)
    /\ claim' = [claim EXCEPT ![t] = terms]
    /\ hash' = [hash EXCEPT ![t] = h]
    /\ drifted' = (drifted \/ ~Agree(order', claim', hash'))
    /\ UNCHANGED <<chain, notified, cache, locals, failed, rehashed>>

\* The cached verification of the tip is not touched.
ConfirmTip(t, h) ==
    /\ claim[t] # Null
    /\ \A u \in TipIds \ {t} : hash[u] # h
    /\ hash' = [hash EXCEPT ![t] = h]
    /\ drifted' = (drifted \/ ~Agree(order, claim, hash'))
    /\ rehashed' = IF hash[t] \in {Null, h} THEN rehashed ELSE rehashed \cup {t}
    /\ UNCHANGED <<chain, order, claim, notified, cache, locals, failed>>

\* A minute has passed since the result was stored.
Expire(c, t) ==
    /\ cache[c][t] # Null
    /\ cache' = [cache EXCEPT ![c][t] = Null]
    /\ UNCHANGED <<chain, database, locals, history>>

-----------------------------------------------------------------------------
(* verifyTipOnChain                                                        *)

Goto(p, label) ==
    /\ pc' = [pc EXCEPT ![p] = label]
    /\ UNCHANGED tip

\* The handler answers, with a result or an exception.
Leave(p) ==
    /\ pc' = [pc EXCEPT ![p] = "idle"]
    /\ tip' = [tip EXCEPT ![p] = Null]
    /\ seen' = [seen EXCEPT ![p] = Null]
    /\ index' = [index EXCEPT ![p] = 0]
    /\ horizon' = [horizon EXCEPT ![p] = Null]
    /\ contract' = [contract EXCEPT ![p] = Null]

VerifyOnChain(p, t) ==
    /\ pc[p] = "idle"
    /\ pc' = [pc EXCEPT ![p] = "cache?"]
    /\ tip' = [tip EXCEPT ![p] = t]
    /\ UNCHANGED <<chain, database, cache, found, history>>

\* A cached result is the answer.
ReadVerificationCache(p) ==
    /\ pc[p] = "cache?"
    /\ IF cache[CacheOf[p]][tip[p]] # Null
       THEN Leave(p)
       ELSE Goto(p, "find") /\ UNCHANGED found
    /\ UNCHANGED <<chain, database, cache, history>>

FindTip(p) ==
    /\ pc[p] = "find"
    /\ IF claim[tip[p]] = Null
       THEN Leave(p)
       ELSE /\ seen' = [seen EXCEPT ![p] = hash[tip[p]]]
            /\ Goto(p, "index")
            /\ UNCHANGED <<index, horizon, contract>>
    /\ UNCHANGED <<chain, database, cache, history>>

\* Mutant of GetCreatorTipIndex: the contract's list is taken to begin at 1.
GetCreatorTipRank(p) ==
    /\ pc[p] = "index"
    /\ \E i \in DOMAIN order :
          /\ order[i] = tip[p]
          /\ index' = [index EXCEPT ![p] = i]
    /\ Goto(p, "horizon")
    /\ UNCHANGED <<seen, horizon, contract, chain, database, cache, history>>

\* The tip's rank, from 0, among all tips the database has of the creator,
\* the pending ones too.  (No tip is ever deleted, so it is there.)
GetCreatorTipIndex(p) ==
    /\ pc[p] = "index"
    /\ \E i \in DOMAIN order :
          /\ order[i] = tip[p]
          /\ index' = [index EXCEPT ![p] = i - 1]
    /\ Goto(p, "horizon")
    /\ UNCHANGED <<seen, horizon, contract, chain, database, cache, history>>

\* Horizon knows the payments that were made; a failed look-up reads as an
\* unknown hash.  A tip without a hash is not looked up.
VerifyPayment(p) ==
    /\ pc[p] = "horizon"
    /\ LET known == IF seen[p] \in made THEN seen[p] ELSE Null IN
       \E h \in {known, Null} :
          /\ horizon' = [horizon EXCEPT ![p] = h]
          /\ failed' = (failed \/ h # known)
    /\ seen' = [seen EXCEPT ![p] = Null]
    /\ Goto(p, "contract")
    /\ UNCHANGED <<index, contract, chain, database, cache, drifted, rehashed>>

\* Mutant of Matches: the times are not compared.
MatchesUntimed(p, c) ==
    /\ Null \notin {horizon[p], c}
    /\ Stated(horizon[p]) = claim[tip[p]]
    /\ Recorded[c] = claim[tip[p]]

\* Both Horizon and the contract c know a payment with the tip's terms, and
\* their times do not differ.
Matches(p, c) ==
    /\ Null \notin {horizon[p], c}
    /\ Stated(horizon[p]) = claim[tip[p]]
    /\ Recorded[c] = claim[tip[p]]
    /\ SameTime(horizon[p], c)

\* The contract's entry at the handler's index.
EntryAt(p) ==
    IF index[p] < Len(entries) THEN entries[index[p] + 1] ELSE Null

\* Mutant of VerifyTipOnContract: a tip that Horizon does not know is not
\* reported, as if it were still on its way.
VerifyTipOnContractLenient(p) ==
    /\ pc[p] = "contract"
    /\ \E c \in {EntryAt(p), Null} :
          /\ failed' = (failed \/ c # EntryAt(p))
          /\ IF Null \notin {horizon[p], c} /\ Unreadable(horizon[p], c)
             THEN Leave(p)
             ELSE /\ contract' = [contract EXCEPT ![p] = c]
                  /\ Goto(p, IF Matches(p, c) \/ horizon[p] = Null
                             THEN "store" ELSE "notify")
                  /\ UNCHANGED <<seen, index, horizon>>
    /\ UNCHANGED <<chain, database, cache, drifted, rehashed>>

\* A failed look-up reads as no entry.  A time that cannot be read fails the
\* request, before anything is compared.
VerifyTipOnContract(p) ==
    /\ pc[p] = "contract"
    /\ \E c \in {EntryAt(p), Null} :
          /\ failed' = (failed \/ c # EntryAt(p))
          /\ IF Null \notin {horizon[p], c} /\ Unreadable(horizon[p], c)
             THEN Leave(p)
             ELSE /\ contract' = [contract EXCEPT ![p] = c]
                  /\ Goto(p, IF Matches(p, c) THEN "store" ELSE "notify")
                  /\ UNCHANGED <<seen, index, horizon>>
    /\ UNCHANGED <<chain, database, cache, drifted, rehashed>>

NotifyDiscrepancyDetected(p) ==
    /\ pc[p] = "notify"
    /\ notified' = notified \cup {tip[p]}
    /\ Goto(p, "store")
    /\ UNCHANGED <<found, chain, order, claim, hash, cache, history>>

\* Mutant of WriteVerificationCache: the result lacks what Horizon returned.
WriteVerificationCacheBare(p) ==
    /\ pc[p] = "store"
    /\ cache' = [cache EXCEPT ![CacheOf[p]][tip[p]] =
                    [index |-> index[p], contract |-> contract[p],
                     matches |-> Matches(p, contract[p])]]
    /\ Leave(p)
    /\ UNCHANGED <<chain, database, history>>

\* The result is kept for a minute, under the id of the tip.
WriteVerificationCache(p) ==
    /\ pc[p] = "store"
    /\ cache' = [cache EXCEPT ![CacheOf[p]][tip[p]] =
                    [index |-> index[p], horizon |-> horizon[p],
                     contract |-> contract[p],
                     matches |-> Matches(p, contract[p])]]
    /\ Leave(p)
    /\ UNCHANGED <<chain, database, history>>

\* A call to the database or to Redis throws, or the process stops.
Fail(p) ==
    /\ pc[p] # "idle"
    /\ Leave(p)
    /\ UNCHANGED <<chain, database, cache, history>>

-----------------------------------------------------------------------------
Init ==
    /\ made = {}
    /\ entries = <<>>
    /\ order = <<>>
    /\ claim = [t \in TipIds |-> Null]
    /\ hash = [t \in TipIds |-> Null]
    /\ notified = {}
    /\ cache = [c \in Caches |-> [t \in TipIds |-> Null]]
    /\ pc = [p \in Handlers |-> "idle"]
    /\ tip = [p \in Handlers |-> Null]
    /\ seen = [p \in Handlers |-> Null]
    /\ index = [p \in Handlers |-> 0]
    /\ horizon = [p \in Handlers |-> Null]
    /\ contract = [p \in Handlers |-> Null]
    /\ drifted = FALSE
    /\ failed = FALSE
    /\ rehashed = {}

Environment ==
    \/ \E x \in Payments : Pay(x)
    \/ \E t \in TipIds, terms \in Terms, h \in Payments \cup {Null} :
          CreateTip(t, terms, h)
    \/ \E t \in TipIds, h \in Payments : ConfirmTip(t, h)
    \/ \E c \in Caches, t \in TipIds : Expire(c, t)

Handle(p) ==
    \/ \E t \in TipIds : VerifyOnChain(p, t)
    \/ ReadVerificationCache(p)
    \/ FindTip(p)
    \/ GetCreatorTipIndex(p)
    \/ VerifyPayment(p)
    \/ VerifyTipOnContract(p)
    \/ NotifyDiscrepancyDetected(p)
    \/ WriteVerificationCache(p)
    \/ Fail(p)

Next == Environment \/ \E p \in Handlers : Handle(p)

Spec == Init /\ [][Next]_vars

-----------------------------------------------------------------------------
TypeOK ==
    /\ made \subseteq Payments
    /\ entries \in Seq(Payments)
    /\ order \in Seq(TipIds)
    /\ claim \in [TipIds -> Terms \cup {Null}]
    /\ hash \in [TipIds -> Payments \cup {Null}]
    /\ notified \subseteq TipIds
    /\ cache \in [Caches -> [TipIds -> Result \cup {Null}]]
    /\ pc \in [Handlers -> Label]
    /\ tip \in [Handlers -> TipIds \cup {Null}]
    /\ seen \in [Handlers -> Payments \cup {Null}]
    /\ index \in [Handlers -> Nat]
    /\ horizon \in [Handlers -> Payments \cup {Null}]
    /\ contract \in [Handlers -> Payments \cup {Null}]
    /\ drifted \in BOOLEAN
    /\ failed \in BOOLEAN
    /\ rehashed \subseteq TipIds

\* 'Matches' is never wrong: whatever was inserted, confirmed or paid while
\* the calls were under way, and whatever has happened since, the contract
\* holds a payment with the tip's terms at the index the result names; Horizon
\* knows one with these terms, at no other time than the contract's if both
\* tell one; and that one is the tip's own, by its hash, unless the hash was
\* replaced by another (the stale answer of a tip that is confirmed again).
\* It need not be the one the contract holds: two payments with the same terms
\* are told apart by their times only, and by nothing when a time is missing.
MatchIsOnChain ==
    \A c \in Caches, t \in TipIds :
        cache[c][t] # Null /\ cache[c][t].matches =>
            LET i == cache[c][t].index  x == cache[c][t].horizon IN
            /\ i < Len(entries)
            /\ Recorded[entries[i + 1]] = claim[t]
            /\ x \in made
            /\ Stated(x) = claim[t]
            /\ SameTime(x, entries[i + 1])
            /\ x = hash[t] \/ t \in rehashed

\* CONTRACT_INTEGRATION.md, 'Mismatches create a discrepancy_detected
\* notification for the creator': there is no result that says otherwise
\* before the creator has been told, wherever a verification failed.
MismatchIsNotified ==
    \A c \in Caches, t \in TipIds :
        cache[c][t] # Null /\ ~cache[c][t].matches => t \in notified

\* No false alarm: a creator is told of a discrepancy only if the database
\* and the contract have once disagreed, rank by rank, or a look-up has
\* failed, or Horizon and the contract tell a payment differently (by its time,
\* or because the first operation does not state what the contract recorded).
\* (Each is a cause by itself: a pending tip, or one the contract does not
\* have, shifts the ranks of the tips after it; and a payment may well have
\* another operation first, or a time that is some seconds off.)
NoFalseAlarm ==
    ~drifted /\ ~failed /\ (\A x \in made : ToldAlike(x)) => notified = {}
=============================================================================
