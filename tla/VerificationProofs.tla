-------------------------- MODULE VerificationProofs --------------------------
(***************************************************************************)
(* Proofs about Verification, for every number of handlers, tips, payments *)
(* and caches.                                                             *)
(***************************************************************************)
EXTENDS Verification, TLAPS

\* Every tip of the database is somewhere in the creator's history.
Listed ==
    \A t \in TipIds : claim[t] # Null => \E i \in DOMAIN order : order[i] = t

\* The contract's payments are known to Horizon.
Made == \A i \in DOMAIN entries : entries[i] \in made

\* What a handler holds while it is suspended in each call.
HoldsAt(p) ==
    /\ pc[p] # "idle" => tip[p] \in TipIds
    /\ pc[p] \notin {"idle", "cache?", "find"} => claim[tip[p]] # Null
    /\ pc[p] \in {"horizon", "contract"} =>
          index[p] + 1 \in DOMAIN order /\ order[index[p] + 1] = tip[p]
    /\ pc[p] \in {"notify", "store"} /\ contract[p] # Null =>
          index[p] < Len(entries) /\ entries[index[p] + 1] = contract[p]
    /\ pc[p] \in {"index", "horizon"} /\ seen[p] # Null =>
          seen[p] = hash[tip[p]] \/ tip[p] \in rehashed
    /\ pc[p] \in {"contract", "notify", "store"} /\ horizon[p] # Null =>
          /\ horizon[p] \in made
          /\ horizon[p] = hash[tip[p]] \/ tip[p] \in rehashed
    /\ pc[p] = "store" => Matches(p, contract[p]) \/ tip[p] \in notified

Holds == \A p \in Handlers : HoldsAt(p)

\* What it holds besides, as long as nothing has drifted or failed.
FaithfulAt(p) ==
    /\ pc[p] \in {"index", "horizon"} => seen[p] = hash[tip[p]]
    /\ pc[p] = "contract" => horizon[p] = hash[tip[p]]
    /\ pc[p] # "notify"

Faithful ==
    /\ ~drifted => Agree(order, claim, hash)
    /\ ~drifted /\ ~failed /\ (\A x \in made : ToldAlike(x)) =>
          \A p \in Handlers : FaithfulAt(p)

IInv ==
    /\ TypeOK
    /\ Listed
    /\ Made
    /\ Holds
    /\ Faithful
    /\ MatchIsOnChain
    /\ MismatchIsNotified
    /\ NoFalseAlarm

\* What MatchIsOnChain says of a result for tip t.
RightAt(result, t) ==
    LET i == result.index  x == result.horizon IN
    /\ i < Len(entries)
    /\ Recorded[entries[i + 1]] = claim[t]
    /\ x \in made
    /\ Stated(x) = claim[t]
    /\ SameTime(x, entries[i + 1])
    /\ x = hash[t] \/ t \in rehashed

LEMMA RightResults ==
    MatchIsOnChain <=>
        \A c \in Caches, t \in TipIds :
            cache[c][t] # Null /\ cache[c][t].matches => RightAt(cache[c][t], t)
BY DEF MatchIsOnChain, RightAt

\* The results that are left, and new ones that are right, stay right while
\* the chain and the tips stay as they are.
LEMMA RightStill ==
    ASSUME MatchIsOnChain,
           made' = made, entries' = entries, claim' = claim, hash' = hash,
           rehashed' = rehashed,
           \A c \in Caches, t \in TipIds :
              \/ cache'[c][t] = cache[c][t]
              \/ cache'[c][t] = Null
              \/ cache'[c][t].matches => RightAt(cache'[c][t], t)
    PROVE  MatchIsOnChain'
<1> SUFFICES ASSUME NEW c \in Caches, NEW t \in TipIds,
                    cache'[c][t] # Null, cache'[c][t].matches
             PROVE  RightAt(cache'[c][t], t)
  BY DEF MatchIsOnChain, RightAt
<1> QED BY RightResults

LEMMA InitIInv == Init => IInv
<1> SUFFICES ASSUME Init PROVE IInv
  OBVIOUS
<1> USE DEF Init
<1>1. TypeOK
  <2>1. /\ entries \in Seq(Payments) /\ order \in Seq(TipIds)
        /\ made \subseteq Payments /\ rehashed \subseteq TipIds
    OBVIOUS
  <2>2. claim \in [TipIds -> Terms \cup {Null}]
    OBVIOUS
  <2>3. hash \in [TipIds -> Payments \cup {Null}]
    OBVIOUS
  <2>4. cache \in [Caches -> [TipIds -> Result \cup {Null}]]
    OBVIOUS
  <2>5. pc \in [Handlers -> Label]
    BY DEF Label
  <2>6. tip \in [Handlers -> TipIds \cup {Null}] /\ index \in [Handlers -> Nat]
    OBVIOUS
  <2>7. /\ seen \in [Handlers -> Payments \cup {Null}]
        /\ horizon \in [Handlers -> Payments \cup {Null}]
        /\ contract \in [Handlers -> Payments \cup {Null}]
    OBVIOUS
  <2> QED BY <2>1, <2>2, <2>3, <2>4, <2>5, <2>6, <2>7 DEF TypeOK
<1>2. Listed /\ Made
  BY DEF Listed, Made
<1>3. Holds
  BY DEF Holds, HoldsAt
<1>4. Faithful
  <2>1. Agree(order, claim, hash)
    BY DEF Agree
  <2>2. \A p \in Handlers : FaithfulAt(p)
    BY DEF FaithfulAt
  <2> QED BY <2>1, <2>2 DEF Faithful
<1>5. \A c \in Caches, t \in TipIds : cache[c][t] = Null
  OBVIOUS
<1>6. MatchIsOnChain /\ MismatchIsNotified /\ NoFalseAlarm
  BY <1>5 DEF MatchIsOnChain, MismatchIsNotified, NoFalseAlarm
<1> QED BY <1>1, <1>2, <1>3, <1>4, <1>6 DEF IInv

-----------------------------------------------------------------------------
(* The surroundings.                                                       *)

LEMMA PayIInv ==
    ASSUME IInv, NEW x \in Payments, Pay(x)
    PROVE  IInv'
<1> USE DEF IInv, Pay, database, locals, found, history
<1>1. /\ entries \in Seq(Payments) /\ entries' \in Seq(Payments)
      /\ Len(entries) \in Nat /\ Len(entries') \in Nat
      /\ Len(entries) <= Len(entries')
      /\ \A i \in DOMAIN entries : i \in DOMAIN entries'
                                     /\ entries'[i] = entries[i]
  <2>1. CASE entries' = entries
    BY <2>1 DEF TypeOK
  <2>2. CASE entries' = Append(entries, x)
    BY <2>2 DEF TypeOK
  <2> QED BY <2>1, <2>2
<1>2. TypeOK' /\ Made'
  BY <1>1 DEF TypeOK, Made
<1>3. Listed'
  BY DEF Listed
<1>4. Holds'
  <2> SUFFICES ASSUME NEW p \in Handlers PROVE HoldsAt(p)'
    BY DEF Holds
  <2>1. HoldsAt(p)
    BY DEF Holds
  <2>2. index[p] \in Nat
    BY DEF TypeOK
  <2> QED BY <1>1, <2>1, <2>2 DEF HoldsAt, Matches
<1>5. Faithful'
  BY <1>1 DEF Faithful, FaithfulAt, Agree
<1>6. MatchIsOnChain'
  <2> SUFFICES ASSUME NEW c \in Caches, NEW t \in TipIds,
                      cache[c][t] # Null, cache[c][t].matches
               PROVE  LET i == cache[c][t].index  y == cache[c][t].horizon IN
                      /\ i < Len(entries')
                      /\ Recorded[entries'[i + 1]] = claim[t]
                      /\ y \in made'
                      /\ Stated(y) = claim[t]
                      /\ SameTime(y, entries'[i + 1])
                      /\ y = hash[t] \/ t \in rehashed
    BY DEF MatchIsOnChain
  <2>1. cache[c][t].index \in Nat
    BY DEF TypeOK, Result
  <2>2. /\ cache[c][t].index < Len(entries')
        /\ entries'[cache[c][t].index + 1] = entries[cache[c][t].index + 1]
    BY <1>1, <2>1 DEF MatchIsOnChain
  <2> QED BY <2>2 DEF MatchIsOnChain
<1>7. MismatchIsNotified' /\ NoFalseAlarm'
  BY DEF MismatchIsNotified, NoFalseAlarm
<1> QED BY <1>2, <1>3, <1>4, <1>5, <1>6, <1>7

LEMMA CreateTipIInv ==
    ASSUME IInv, NEW t \in TipIds, NEW terms \in Terms,
           NEW h \in Payments \cup {Null}, CreateTip(t, terms, h)
    PROVE  IInv'
<1> USE DEF IInv, CreateTip, chain, locals, found
<1>1. /\ order \in Seq(TipIds) /\ Len(order) \in Nat
      /\ Len(order') = Len(order) + 1
      /\ order'[Len(order')] = t
      /\ \A i \in DOMAIN order : i \in DOMAIN order' /\ order'[i] = order[i]
  BY DEF TypeOK
<1>2. TypeOK'
  BY DEF TypeOK
<1>3. Listed' /\ Made'
  BY <1>1 DEF Listed, Made, TypeOK
<1>4. Holds'
  <2> SUFFICES ASSUME NEW p \in Handlers PROVE HoldsAt(p)'
    BY DEF Holds
  <2>1. HoldsAt(p)
    BY DEF Holds
  <2>2. pc[p] \notin {"idle", "cache?", "find"} =>
           /\ tip[p] # t /\ claim'[tip[p]] = claim[tip[p]]
           /\ hash'[tip[p]] = hash[tip[p]]
    BY <2>1 DEF HoldsAt, TypeOK
  <2> QED BY <1>1, <2>1, <2>2 DEF HoldsAt, Matches
<1>5. Faithful'
  <2>1. ~drifted' => Agree(order, claim, hash)'
    BY DEF Agree
  <2>2. ASSUME ~drifted', ~failed', \A y \in made' : ToldAlike(y),
               NEW p \in Handlers
        PROVE  FaithfulAt(p)'
    <3>1. FaithfulAt(p) /\ HoldsAt(p)
      BY <2>2 DEF Faithful, Holds
    <3>2. pc[p] \notin {"idle", "cache?", "find"} =>
             /\ tip[p] # t /\ claim'[tip[p]] = claim[tip[p]]
             /\ hash'[tip[p]] = hash[tip[p]]
      BY <3>1 DEF HoldsAt, TypeOK
    <3> QED BY <3>1, <3>2 DEF FaithfulAt
  <2> QED BY <2>1, <2>2 DEF Faithful
<1>6. MatchIsOnChain'
  <2> SUFFICES ASSUME NEW c \in Caches, NEW u \in TipIds,
                      cache[c][u] # Null, cache[c][u].matches
               PROVE  claim'[u] = claim[u] /\ hash'[u] = hash[u]
    BY DEF MatchIsOnChain
  <2>1. claim[u] \in Terms
    <3>1. cache[c][u].index \in Nat
      BY DEF TypeOK, Result
    <3>2. entries[cache[c][u].index + 1] \in Payments
      BY <3>1 DEF MatchIsOnChain, TypeOK
    <3> QED BY <3>2, VerificationAssumption DEF MatchIsOnChain
  <2> QED BY <2>1, VerificationAssumption DEF TypeOK
<1>7. MismatchIsNotified' /\ NoFalseAlarm'
  BY DEF MismatchIsNotified, NoFalseAlarm
<1> QED BY <1>2, <1>3, <1>4, <1>5, <1>6, <1>7

LEMMA ConfirmTipIInv ==
    ASSUME IInv, NEW t \in TipIds, NEW h \in Payments, ConfirmTip(t, h)
    PROVE  IInv'
<1> USE DEF IInv, ConfirmTip, chain, locals, found
<1>1. TypeOK'
  BY DEF TypeOK
<1>2. Listed' /\ Made'
  BY DEF Listed, Made
<1>3. \A u \in TipIds : /\ hash'[u] = hash[u] \/ hash[u] = Null \/ u \in rehashed'
                        /\ u \in rehashed => u \in rehashed'
  BY DEF TypeOK
<1>4. Holds'
  <2> SUFFICES ASSUME NEW p \in Handlers PROVE HoldsAt(p)'
    BY DEF Holds
  <2>1. HoldsAt(p)
    BY DEF Holds
  <2> QED BY <1>3, <2>1 DEF HoldsAt, Matches
<1>5. MatchIsOnChain'
  <2> SUFFICES ASSUME NEW c \in Caches, NEW u \in TipIds,
                      cache[c][u] # Null, cache[c][u].matches
               PROVE  cache[c][u].horizon = hash'[u] \/ u \in rehashed'
    BY DEF MatchIsOnChain
  <2>1. cache[c][u].horizon # Null
    BY VerificationAssumption DEF MatchIsOnChain, TypeOK
  <2> QED BY <1>3, <2>1 DEF MatchIsOnChain
<1>6. Faithful'
  <2>1. ~drifted' => Agree(order, claim, hash) /\ Agree(order, claim, hash')
    BY DEF Faithful, Agree
  <2>2. ~drifted' => hash' = hash
    <3>1. PICK i \in DOMAIN order : order[i] = t
      BY DEF Listed
    <3> QED BY <2>1, <3>1 DEF Agree, TypeOK
  <2> QED BY <2>1, <2>2 DEF Faithful, FaithfulAt, Agree
<1>7. MismatchIsNotified' /\ NoFalseAlarm'
  BY DEF MismatchIsNotified, NoFalseAlarm
<1> QED BY <1>1, <1>2, <1>4, <1>5, <1>6, <1>7

LEMMA ExpireIInv ==
    ASSUME IInv, NEW c \in Caches, NEW t \in TipIds, Expire(c, t)
    PROVE  IInv'
<1> USE DEF IInv, Expire, chain, database, locals, found, history
<1>1. TypeOK'
  BY DEF TypeOK
<1>2. Listed' /\ Made' /\ Holds' /\ Faithful' /\ NoFalseAlarm'
  BY DEF Listed, Made, Holds, HoldsAt, Matches, Faithful, FaithfulAt, Agree,
         NoFalseAlarm
<1>3. \A d \in Caches, u \in TipIds :
         cache'[d][u] = cache[d][u] \/ cache'[d][u] = Null
  BY DEF TypeOK
<1>4. MatchIsOnChain'
  BY <1>3, RightStill
<1>5. MismatchIsNotified'
  BY <1>3 DEF MismatchIsNotified
<1> QED BY <1>1, <1>2, <1>4, <1>5

-----------------------------------------------------------------------------
(* The handler.                                                            *)

\* A handler that answers or fails disturbs nothing.
LEMMA LeaveIInv ==
    ASSUME IInv, NEW p \in Handlers, Leave(p),
           UNCHANGED <<chain, database, cache, history>>
    PROVE  IInv'
<1> USE DEF IInv, Leave, chain, database, history
<1>1. TypeOK'
  BY DEF TypeOK, Label
<1>2. Holds'
  BY DEF TypeOK, Holds, HoldsAt, Matches
<1>3. Faithful'
  BY DEF TypeOK, Faithful, FaithfulAt, Agree
<1>4. Listed' /\ Made' /\ MatchIsOnChain' /\ MismatchIsNotified' /\ NoFalseAlarm'
  BY DEF Listed, Made, MatchIsOnChain, MismatchIsNotified, NoFalseAlarm
<1> QED BY <1>1, <1>2, <1>3, <1>4

\* The steps up to the look-ups.
LEMMA LookUpIInv ==
    ASSUME IInv, NEW p \in Handlers,
           \/ \E t \in TipIds : VerifyOnChain(p, t)
           \/ ReadVerificationCache(p)
           \/ FindTip(p)
           \/ GetCreatorTipIndex(p)
    PROVE  IInv'
<1> USE DEF IInv
<1>1. CASE Leave(p) /\ UNCHANGED <<chain, database, cache, history>>
  BY <1>1, LeaveIInv
<1>2. ASSUME NEW t \in TipIds, VerifyOnChain(p, t)
      PROVE  IInv'
  <2> USE <1>2 DEF VerifyOnChain, chain, database, found, history
  <2>1. TypeOK' /\ Holds' /\ Faithful'
    BY DEF TypeOK, Label, Holds, HoldsAt, Matches, Faithful, FaithfulAt, Agree
  <2>2. Listed' /\ Made' /\ MatchIsOnChain' /\ MismatchIsNotified' /\ NoFalseAlarm'
    BY DEF Listed, Made, MatchIsOnChain, MismatchIsNotified, NoFalseAlarm
  <2> QED BY <2>1, <2>2
<1>3. CASE ReadVerificationCache(p) /\ Goto(p, "find") /\ UNCHANGED found
  <2> USE <1>3 DEF ReadVerificationCache, Goto, chain, database, found, history
  <2>1. TypeOK' /\ Holds' /\ Faithful'
    BY DEF TypeOK, Label, Holds, HoldsAt, Matches, Faithful, FaithfulAt, Agree
  <2>2. Listed' /\ Made' /\ MatchIsOnChain' /\ MismatchIsNotified' /\ NoFalseAlarm'
    BY DEF Listed, Made, MatchIsOnChain, MismatchIsNotified, NoFalseAlarm
  <2> QED BY <2>1, <2>2
<1>4. CASE FindTip(p) /\ claim[tip[p]] # Null
  <2> USE <1>4 DEF FindTip, Goto, chain, database, history
  <2>1. tip[p] \in TipIds
    BY DEF Holds, HoldsAt
  <2>2. TypeOK'
    BY <2>1 DEF TypeOK, Label
  <2>6. Holds'
    <3>1. HoldsAt(p)'
      BY <2>1 DEF TypeOK, HoldsAt
    <3>2. ASSUME NEW q \in Handlers, q # p
          PROVE  HoldsAt(q)'
      BY <3>2 DEF TypeOK, Holds, HoldsAt, Matches
    <3> QED BY <3>1, <3>2 DEF Holds
  <2>3. Faithful'
    BY DEF TypeOK, Faithful, FaithfulAt, Agree
  <2>4. Listed' /\ Made' /\ MatchIsOnChain' /\ MismatchIsNotified' /\ NoFalseAlarm'
    BY DEF Listed, Made, MatchIsOnChain, MismatchIsNotified, NoFalseAlarm
  <2> QED BY <2>2, <2>3, <2>4, <2>6
<1>5. CASE GetCreatorTipIndex(p)
  <2> USE <1>5 DEF GetCreatorTipIndex, Goto, chain, database, history
  <2>1. PICK i \in DOMAIN order :
           order[i] = tip[p] /\ index' = [index EXCEPT ![p] = i - 1]
    OBVIOUS
  <2>2. i \in Nat \ {0} /\ i - 1 \in Nat /\ (i - 1) + 1 = i
    BY DEF TypeOK
  <2>3. TypeOK' /\ Holds'
    BY <2>1, <2>2 DEF TypeOK, Label, Holds, HoldsAt, Matches
  <2>4. Faithful'
    BY DEF TypeOK, Faithful, FaithfulAt, Agree
  <2>5. Listed' /\ Made' /\ MatchIsOnChain' /\ MismatchIsNotified' /\ NoFalseAlarm'
    BY DEF Listed, Made, MatchIsOnChain, MismatchIsNotified, NoFalseAlarm
  <2> QED BY <2>3, <2>4, <2>5
<1> QED BY <1>1, <1>2, <1>3, <1>4, <1>5 DEF ReadVerificationCache, FindTip

LEMMA VerifyPaymentIInv ==
    ASSUME IInv, NEW p \in Handlers, VerifyPayment(p)
    PROVE  IInv'
<1> USE DEF IInv, VerifyPayment, Goto, chain, database
<1> DEFINE known == IF seen[p] \in made THEN seen[p] ELSE Null
<1>1. PICK h \in {known, Null} : /\ horizon' = [horizon EXCEPT ![p] = h]
                                 /\ failed' = (failed \/ h # known)
                                 /\ seen' = [seen EXCEPT ![p] = Null]
  OBVIOUS
<1>2. known \in Payments \cup {Null}
  BY DEF TypeOK
<1>3. TypeOK' /\ Holds'
  BY <1>1, <1>2 DEF TypeOK, Label, Holds, HoldsAt, Matches
<1>4. Faithful'
  <2>1. ASSUME ~drifted', ~failed', \A x \in made : ToldAlike(x)
        PROVE  h = hash[tip[p]]
    <3>1. h = known /\ ~failed /\ ~drifted
      BY <1>1, <2>1
    <3>2. /\ seen[p] = hash[tip[p]]
          /\ index[p] + 1 \in DOMAIN order /\ order[index[p] + 1] = tip[p]
          /\ Agree(order, claim, hash)
      BY <2>1, <3>1 DEF Faithful, FaithfulAt, Holds, HoldsAt
    <3>3. hash[tip[p]] \in made
      BY <3>2 DEF Agree, Made
    <3> QED BY <3>1, <3>2, <3>3
  <2> QED BY <1>1, <2>1 DEF TypeOK, Faithful, FaithfulAt, Agree
<1>5. Listed' /\ Made' /\ MatchIsOnChain' /\ MismatchIsNotified' /\ NoFalseAlarm'
  <2>1. Listed' /\ Made'
    BY DEF Listed, Made
  <2>2. MatchIsOnChain'
    BY DEF MatchIsOnChain
  <2>3. MismatchIsNotified'
    BY DEF MismatchIsNotified
  <2>4. NoFalseAlarm'
    BY <1>1 DEF NoFalseAlarm
  <2> QED BY <2>1, <2>2, <2>3, <2>4
<1> QED BY <1>3, <1>4, <1>5

LEMMA VerifyTipOnContractIInv ==
    ASSUME IInv, NEW p \in Handlers, VerifyTipOnContract(p)
    PROVE  IInv'
<1> USE DEF IInv, VerifyTipOnContract, Goto, chain, database
<1>1. PICK c \in {EntryAt(p), Null} :
         /\ failed' = (failed \/ c # EntryAt(p))
         /\ IF Null \notin {horizon[p], c} /\ Unreadable(horizon[p], c)
            THEN Leave(p)
            ELSE /\ contract' = [contract EXCEPT ![p] = c]
                 /\ pc' = [pc EXCEPT ![p] =
                              IF Matches(p, c) THEN "store" ELSE "notify"]
                 /\ UNCHANGED <<tip, seen, index, horizon>>
  OBVIOUS
<1>2. /\ index[p] \in Nat /\ EntryAt(p) \in Payments \cup {Null}
      /\ EntryAt(p) # Null =>
            index[p] < Len(entries) /\ entries[index[p] + 1] = EntryAt(p)
  BY DEF TypeOK, EntryAt
<1>3. Listed' /\ Made' /\ MatchIsOnChain' /\ MismatchIsNotified' /\ NoFalseAlarm'
  <2>1. Listed' /\ Made'
    BY DEF Listed, Made
  <2>2. MatchIsOnChain'
    BY DEF MatchIsOnChain
  <2>3. MismatchIsNotified'
    BY DEF MismatchIsNotified
  <2>4. NoFalseAlarm'
    BY <1>1 DEF NoFalseAlarm
  <2> QED BY <2>1, <2>2, <2>3, <2>4
<1>4. CASE Leave(p)
  <2>1. TypeOK'
    BY <1>1, <1>4 DEF Leave, TypeOK, Label
  <2>2. Holds'
    BY <1>4 DEF Leave, TypeOK, Holds, HoldsAt, Matches
  <2>3. Faithful'
    BY <1>1, <1>4 DEF Leave, TypeOK, Faithful, FaithfulAt, Agree
  <2> QED BY <1>3, <2>1, <2>2, <2>3
<1>5. CASE /\ contract' = [contract EXCEPT ![p] = c]
           /\ pc' = [pc EXCEPT ![p] = IF Matches(p, c) THEN "store" ELSE "notify"]
           /\ UNCHANGED <<tip, seen, index, horizon>>
  <2>1. TypeOK'
    BY <1>1, <1>2, <1>5 DEF TypeOK, Label
  <2>2. Holds'
    <3>1. HoldsAt(p)'
      BY <1>1, <1>2, <1>5 DEF TypeOK, Holds, HoldsAt, Matches
    <3>2. ASSUME NEW q \in Handlers, q # p
          PROVE  HoldsAt(q)'
      BY <1>1, <1>5, <3>2 DEF TypeOK, Holds, HoldsAt, Matches
    <3> QED BY <3>1, <3>2 DEF Holds
  <2>3. Faithful'
    <3>1. ASSUME ~drifted', ~failed', \A x \in made : ToldAlike(x)
          PROVE  Matches(p, c)
      <4>1. c = EntryAt(p) /\ ~failed /\ ~drifted
        BY <1>1, <3>1
      <4>2. /\ horizon[p] = hash[tip[p]]
            /\ index[p] + 1 \in DOMAIN order /\ order[index[p] + 1] = tip[p]
            /\ Agree(order, claim, hash)
        BY <3>1, <4>1 DEF Faithful, FaithfulAt, Holds, HoldsAt
      <4>3. /\ index[p] + 1 \in DOMAIN entries
            /\ entries[index[p] + 1] = hash[tip[p]]
            /\ Recorded[entries[index[p] + 1]] = claim[tip[p]]
        BY <4>2 DEF Agree
      <4>4. index[p] < Len(entries)
        BY <1>2, <4>3 DEF TypeOK
      <4>5. c = hash[tip[p]] /\ c \in made /\ c # Null
        BY <4>1, <4>3, <4>4, VerificationAssumption DEF EntryAt, Made, TypeOK
      <4>6. Stated(c) = Recorded[c] /\ SameTime(c, c)
        BY <3>1, <4>5 DEF ToldAlike
      <4> QED BY <4>2, <4>3, <4>5, <4>6 DEF Matches
    <3> QED BY <1>1, <1>5, <3>1 DEF TypeOK, Faithful, FaithfulAt, Agree
  <2> QED BY <1>3, <2>1, <2>2, <2>3
<1> QED BY <1>1, <1>4, <1>5

LEMMA NotifyIInv ==
    ASSUME IInv, NEW p \in Handlers, NotifyDiscrepancyDetected(p)
    PROVE  IInv'
<1> USE DEF IInv, NotifyDiscrepancyDetected, Goto, chain, found, history
<1>1. tip[p] \in TipIds
  BY DEF Holds, HoldsAt
<1>2. TypeOK' /\ Holds'
  BY <1>1 DEF TypeOK, Label, Holds, HoldsAt, Matches
<1>3. Faithful'
  BY DEF TypeOK, Faithful, FaithfulAt, Agree
<1>4. NoFalseAlarm'
  BY DEF Faithful, FaithfulAt, NoFalseAlarm
<1>5. Listed' /\ Made' /\ MatchIsOnChain' /\ MismatchIsNotified'
  BY DEF Listed, Made, MatchIsOnChain, MismatchIsNotified
<1> QED BY <1>2, <1>3, <1>4, <1>5

LEMMA StoreIInv ==
    ASSUME IInv, NEW p \in Handlers, WriteVerificationCache(p)
    PROVE  IInv'
<1> USE DEF IInv, WriteVerificationCache, Leave, chain, database, history
<1> DEFINE result == [index |-> index[p], horizon |-> horizon[p],
                      contract |-> contract[p],
                      matches |-> Matches(p, contract[p])]
           c == CacheOf[p]
           t == tip[p]
<1>1. c \in Caches /\ t \in TipIds /\ claim[t] \in Terms
  BY VerificationAssumption DEF TypeOK, Holds, HoldsAt
<1>2. result \in Result
  BY DEF TypeOK, Result, Matches
<1>3. TypeOK'
  BY <1>1, <1>2 DEF TypeOK, Label
<1>4. Holds'
  BY DEF TypeOK, Holds, HoldsAt, Matches
<1>5. Faithful'
  BY DEF TypeOK, Faithful, FaithfulAt, Agree
<1>6. \A d \in Caches, u \in TipIds :
         \/ cache'[d][u] = cache[d][u]
         \/ u = t /\ cache'[d][u] = result
  BY <1>1 DEF TypeOK
<1>7. result.matches =>
         /\ result.index < Len(entries)
         /\ Recorded[entries[result.index + 1]] = claim[t]
         /\ result.horizon \in made
         /\ Stated(result.horizon) = claim[t]
         /\ SameTime(result.horizon, entries[result.index + 1])
         /\ result.horizon = hash[t] \/ t \in rehashed
  BY <1>1 DEF Holds, HoldsAt, Matches
<1>8. ~result.matches => t \in notified
  BY DEF Holds, HoldsAt, Matches
<1>9. MatchIsOnChain'
  <2>1. result.matches => RightAt(result, t)
    BY <1>7 DEF RightAt
  <2> HIDE DEF result
  <2> QED BY <1>6, <2>1, RightStill
<1>10. MismatchIsNotified'
  BY <1>6, <1>8 DEF MismatchIsNotified
<1>11. Listed' /\ Made' /\ NoFalseAlarm'
  BY DEF Listed, Made, NoFalseAlarm
<1> QED BY <1>3, <1>4, <1>5, <1>9, <1>10, <1>11

-----------------------------------------------------------------------------
LEMMA NextIInv == IInv /\ [Next]_vars => IInv'
<1> SUFFICES ASSUME IInv, [Next]_vars PROVE IInv'
  OBVIOUS
<1>1. CASE Environment
  BY <1>1, PayIInv, CreateTipIInv, ConfirmTipIInv, ExpireIInv DEF Environment
<1>2. ASSUME NEW p \in Handlers, Handle(p)
      PROVE  IInv'
  <2>1. CASE Fail(p)
    BY <2>1, LeaveIInv DEF Fail
  <2> QED BY <1>2, <2>1, LookUpIInv, VerifyPaymentIInv,
             VerifyTipOnContractIInv, NotifyIInv, StoreIInv DEF Handle
<1>3. CASE UNCHANGED vars
  BY <1>3 DEF vars, chain, database, locals, found, history, IInv, TypeOK,
     Listed, Made, Holds, HoldsAt, Matches, Faithful, FaithfulAt, Agree, MatchIsOnChain,
     MismatchIsNotified, NoFalseAlarm
<1> QED BY <1>1, <1>2, <1>3 DEF Next

LEMMA Invariance == Spec => []IInv
BY InitIInv, NextIInv, PTL DEF Spec

\* Every variable keeps its type; in particular no index is ever negative.
THEOREM TypeCorrect == Spec => []TypeOK
<1>1. IInv => TypeOK
  BY DEF IInv
<1> QED BY <1>1, Invariance, PTL

\* A result that says 'matches' is right about the contract's entry and about
\* Horizon, terms and times, and about the tip's own hash until that is
\* replaced, however old the result is.
THEOREM VerifiedIsOnChain == Spec => []MatchIsOnChain
<1>1. IInv => MatchIsOnChain
  BY DEF IInv
<1> QED BY <1>1, Invariance, PTL

\* No result that says otherwise is kept without a notification.
THEOREM DiscrepancyIsNotified == Spec => []MismatchIsNotified
<1>1. IInv => MismatchIsNotified
  BY DEF IInv
<1> QED BY <1>1, Invariance, PTL

\* Without drift, failed look-ups and payments that Horizon and the contract
\* tell differently nobody is alarmed.
THEOREM NoAlarmWithoutCause == Spec => []NoFalseAlarm
<1>1. IInv => NoFalseAlarm
  BY DEF IInv
<1> QED BY <1>1, Invariance, PTL
-----------------------------------------------------------------------------
(* Verifications of one tip that overlap each alarm the creator.  What the *)
(* cache is worth when they do not.                                        *)

\* A request that found no result in the cache and is working one out.
Verifying(p) == pc[p] \notin {"idle", "cache?"}

\* No two requests work out the result of one tip for one cache.
OneVerifier ==
    \A p, q \in Handlers :
        p # q /\ Verifying(p) /\ Verifying(q) /\ CacheOf[p] = CacheOf[q] =>
            tip[p] # tip[q]

\* What a request works out is not in its cache meanwhile.
Uncached ==
    \A p \in Handlers : Verifying(p) => cache[CacheOf[p]][tip[p]] = Null

LEMMA NextUncached == IInv /\ Uncached /\ OneVerifier /\ [Next]_vars => Uncached'
<1> SUFFICES ASSUME IInv, Uncached, OneVerifier, [Next]_vars,
                    NEW p \in Handlers, Verifying(p)'
             PROVE  cache'[CacheOf[p]][tip'[p]] = Null
  BY DEF Uncached
<1> USE DEF Verifying, IInv, TypeOK
<1>1. ASSUME UNCHANGED <<cache, tip[p]>>, Verifying(p)
      PROVE  cache'[CacheOf[p]][tip'[p]] = Null
  BY <1>1 DEF Uncached
<1>2. CASE Environment
  <2>1. UNCHANGED locals
    BY <1>2 DEF Environment, Pay, CreateTip, ConfirmTip, Expire
  <2>2. UNCHANGED cache \/ \E c \in Caches, t \in TipIds : Expire(c, t)
    BY <1>2 DEF Environment, Pay, CreateTip, ConfirmTip
  <2>3. ASSUME NEW c \in Caches, NEW t \in TipIds, Expire(c, t)
        PROVE  cache'[CacheOf[p]][tip[p]] = Null
    <3>1. CacheOf[p] \in Caches /\ tip[p] \in TipIds
      BY <2>1, VerificationAssumption DEF Holds, HoldsAt, locals
    <3>2. cache[CacheOf[p]][tip[p]] = Null
      BY <2>1 DEF Uncached, locals
    <3> QED BY <2>3, <3>1, <3>2 DEF Expire
  <2> QED BY <1>1, <2>1, <2>2, <2>3 DEF locals
<1>3. ASSUME NEW q \in Handlers, Handle(q)
      PROVE  cache'[CacheOf[p]][tip'[p]] = Null
  <2>1. CASE q # p
    <3>1. Verifying(p) /\ UNCHANGED tip[p]
      BY <1>3, <2>1 DEF Handle, VerifyOnChain, ReadVerificationCache, FindTip,
         GetCreatorTipIndex, VerifyPayment, VerifyTipOnContract,
         NotifyDiscrepancyDetected, WriteVerificationCache, Fail, Goto, Leave
    <3>2. CASE WriteVerificationCache(q)
      <4>1. CacheOf[q] # CacheOf[p] \/ tip[q] # tip[p]
        BY <2>1, <3>1, <3>2 DEF OneVerifier, WriteVerificationCache
      <4>2. /\ CacheOf[p] \in Caches /\ CacheOf[q] \in Caches
            /\ tip[p] \in TipIds /\ tip[q] \in TipIds
        BY <3>1, <3>2, VerificationAssumption
           DEF Holds, HoldsAt, WriteVerificationCache
      <4>3. cache'[CacheOf[p]][tip[p]] = cache[CacheOf[p]][tip[p]]
        BY <3>2, <4>1, <4>2 DEF WriteVerificationCache
      <4> QED BY <3>1, <4>3 DEF Uncached
    <3>3. CASE UNCHANGED cache
      BY <1>1, <3>1, <3>3
    <3> QED BY <1>3, <3>2, <3>3 DEF Handle, VerifyOnChain,
               ReadVerificationCache, FindTip, GetCreatorTipIndex,
               VerifyPayment, VerifyTipOnContract, NotifyDiscrepancyDetected,
               Fail
  <2>2. CASE q = p
    <3>1. CASE ReadVerificationCache(p)
      BY <3>1 DEF ReadVerificationCache, Goto, Leave
    <3>2. CASE ~ReadVerificationCache(p)
      <4>1. UNCHANGED <<cache, tip[p]>> /\ Verifying(p)
        BY <1>3, <2>2, <3>2 DEF Handle, VerifyOnChain, FindTip,
           GetCreatorTipIndex, VerifyPayment, VerifyTipOnContract,
           NotifyDiscrepancyDetected, WriteVerificationCache, Fail, Goto, Leave
      <4> QED BY <1>1, <4>1
    <3> QED BY <3>1, <3>2
  <2> QED BY <2>1, <2>2
<1>4. CASE UNCHANGED vars
  BY <1>1, <1>4 DEF vars, locals
<1> QED BY <1>2, <1>3, <1>4 DEF Next

\* Verifications of one tip that do not overlap alarm the creator at most
\* once in the minute a result is kept: no discrepancy is notified while the
\* cache has a result for the tip.
THEOREM NoAlarmWhileCached ==
    Spec /\ []OneVerifier =>
        [][\A p \in Handlers :
              NotifyDiscrepancyDetected(p) =>
                  cache[CacheOf[p]][tip[p]] = Null]_vars
<1>1. Init => Uncached
  BY DEF Init, Uncached, Verifying
<1>2. Uncached => \A p \in Handlers :
         NotifyDiscrepancyDetected(p) => cache[CacheOf[p]][tip[p]] = Null
  BY DEF Uncached, Verifying, NotifyDiscrepancyDetected
<1> QED BY <1>1, <1>2, NextUncached, Invariance, PTL DEF Spec
=============================================================================
