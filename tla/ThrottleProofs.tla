---------------------------- MODULE ThrottleProofs ----------------------------
(***************************************************************************)
(* What Throttle's safety properties rest on, for every limit, window,     *)
(* unit of Retry-After and number of requests.                             *)
(*                                                                         *)
(* The counter and the block tick together, so a counter over the limit    *)
(* never outlives the block it caused (Bounds).  But for what is excused,  *)
(* what a window has let through so far is the newest part of `passed`;    *)
(* the oldest of it is as old as the window, and Limit places further back *)
(* the window before has ended.  Going back n places more, either the same *)
(* holds or more than n were excused since (Windows).  The hits of a       *)
(* window are the newest part of `asked`, no older than the window         *)
(* (Keeping).                                                              *)
(***************************************************************************)
EXTENDS Throttle, TLAPS

Bounds ==
    /\ hits > Limit => hitTtl <= blockTtl
    /\ hits = Limit + 2 => hitTtl = 0 /\ blockTtl > 0
    /\ promise # Null => blockTtl <= promise

\* How many of the hits of the window were let through.
Admitted == IF hits <= Limit THEN hits ELSE Limit

Windows ==
    /\ \A i, j \in 1 .. 2 * Limit + Slack : i <= j => passed[i] <= passed[j]
    /\ \A n \in 0 .. Slack : passed[Admitted + Limit + n] >= excused[n + 1]
    /\ hits > 0 =>
          \A n \in 0 .. Slack : \/ passed[Admitted + n] >= Ttl - hitTtl
                                \/ passed[Admitted + n] >= excused[n + 1]

Keeping ==
    kept =>
        /\ hits <= Limit
        /\ blockTtl = Gone
        /\ \A p \in Requests : pc[p] = "answered" => ~refused[p]
        /\ \A i \in 1 .. hits : asked[i] <= Ttl - hitTtl

IInv == TypeOK /\ Bounds /\ Windows /\ Keeping

-----------------------------------------------------------------------------
\* Rounding up to whole seconds never shortens a wait.
LEMMA RoundsUp ==
    ASSUME NEW t \in Nat
    PROVE  RetryAfter(t) \in Nat /\ RetryAfter(t) >= t
<1> DEFINE n == t + Second - 1
           q == n \div Second
<1>1. n \in Nat /\ Second \in Nat \ {0}
  BY ThrottleAssumption
<1>2. q \in Nat /\ n = Second * q + (n % Second) /\ n % Second \in 0 .. Second - 1
  BY <1>1, SMTT(30)
<1>3. q * Second = Second * q /\ q * Second \in Nat
  BY <1>1, <1>2
<1>4. q * Second >= t
  BY <1>1, <1>2, <1>3
<1> QED BY <1>3, <1>4 DEF RetryAfter

LEMMA OlderType ==
    ASSUME NEW S, NEW ages \in [S -> 0 .. Old]
    PROVE  Older(ages) \in [S -> 0 .. Old]
<1>1. \A i \in S : (IF ages[i] = Old THEN Old ELSE ages[i] + 1) \in 0 .. Old
  BY ThrottleAssumption DEF Old
<1> QED BY <1>1 DEF Older

LEMMA WithLatestType ==
    ASSUME NEW m \in Nat \ {0}, NEW n \in Nat, NEW ages \in [1 .. n -> 0 .. Old]
    PROVE  /\ WithLatest(m, ages) \in [1 .. n -> 0 .. Old]
           /\ \A i \in 1 .. n : i <= m => WithLatest(m, ages)[i] = 0
           /\ \A i \in 1 .. n :
                 i > m => i - m \in 1 .. n /\ WithLatest(m, ages)[i] = ages[i - m]
<1>1. \A i \in 1 .. n : (IF i <= m THEN 0 ELSE ages[i - m]) \in 0 .. Old
  BY ThrottleAssumption DEF Old
<1> QED BY <1>1 DEF WithLatest

LEMMA NeverType ==
    ASSUME NEW n \in Nat
    PROVE  Never(n) \in [1 .. n -> 0 .. Old] /\ \A i \in 1 .. n : Never(n)[i] = Old
BY ThrottleAssumption DEF Never, Old

\* A new entry leaves a record of ages in order.
LEMMA LatestInOrder ==
    ASSUME NEW n \in Nat, NEW ages \in [1 .. n -> 0 .. Old],
           \A i, j \in 1 .. n : i <= j => ages[i] <= ages[j]
    PROVE  \A i, j \in 1 .. n :
              i <= j => WithLatest(1, ages)[i] <= WithLatest(1, ages)[j]
<1> SUFFICES ASSUME NEW i \in 1 .. n, NEW j \in 1 .. n, i <= j
             PROVE  WithLatest(1, ages)[i] <= WithLatest(1, ages)[j]
  OBVIOUS
<1>1. /\ WithLatest(1, ages) \in [1 .. n -> 0 .. Old]
      /\ \A k \in 1 .. n : k <= 1 => WithLatest(1, ages)[k] = 0
      /\ \A k \in 1 .. n :
            k > 1 => k - 1 \in 1 .. n /\ WithLatest(1, ages)[k] = ages[k - 1]
  BY WithLatestType
<1>2. CASE i = 1
  <2>1. WithLatest(1, ages)[j] \in 0 .. Old
    BY <1>1
  <2> QED BY <1>1, <1>2, <2>1, ThrottleAssumption DEF Old
<1>3. CASE i > 1
  <2>1. i - 1 \in 1 .. n /\ j - 1 \in 1 .. n /\ i - 1 <= j - 1
    BY <1>3
  <2> QED BY <1>1, <1>3, <2>1
<1> QED BY <1>2, <1>3

-----------------------------------------------------------------------------
LEMMA InitInv == Init => IInv
<1> SUFFICES ASSUME Init PROVE IInv
  OBVIOUS
<1> USE ThrottleAssumption
<1>00. 2 * Limit + Slack \in Nat /\ Slack + 1 \in Nat /\ Limit + 1 \in Nat
  OBVIOUS
<1>0. /\ passed \in [1 .. 2 * Limit + Slack -> 0 .. Old]
      /\ excused \in [1 .. Slack + 1 -> 0 .. Old]
      /\ asked \in [1 .. Limit + 1 -> 0 .. Old]
      /\ \A i \in 1 .. 2 * Limit + Slack : passed[i] = Old
      /\ \A i \in 1 .. Slack + 1 : excused[i] = Old
  BY <1>00, NeverType DEF Init
<1>1. TypeOK
  BY <1>0 DEF Init, TypeOK, Gone
<1>2. Bounds
  BY DEF Init, Bounds
<1>3. Windows
  <2>1. \A n \in 0 .. Slack : /\ 0 + Limit + n \in 1 .. 2 * Limit + Slack
                               /\ n + 1 \in 1 .. Slack + 1
    OBVIOUS
  <2>2. Old \in Nat /\ Admitted = 0 /\ hits = 0
    BY DEF Init, Admitted, Old
  <2> QED BY <1>0, <2>1, <2>2 DEF Windows
<1>4. Keeping
  BY DEF Init, Keeping, Gone
<1> QED BY <1>1, <1>2, <1>3, <1>4 DEF IInv

\* What one request more does to the records of what was let through.
LEMMA OneMore ==
    ASSUME IInv
    PROVE  /\ WithLatest(1, passed) \in [1 .. 2 * Limit + Slack -> 0 .. Old]
           /\ \A i \in 1 .. 2 * Limit + Slack :
                 i > 1 => WithLatest(1, passed)[i] = passed[i - 1]
           /\ \A i, j \in 1 .. 2 * Limit + Slack :
                 i <= j => WithLatest(1, passed)[i] <= WithLatest(1, passed)[j]
           /\ WithLatest(1, excused) \in [1 .. Slack + 1 -> 0 .. Old]
           /\ WithLatest(1, excused)[1] = 0
           /\ \A i \in 1 .. Slack + 1 :
                 i > 1 => WithLatest(1, excused)[i] = excused[i - 1]
<1>1. 2 * Limit + Slack \in Nat /\ Slack + 1 \in Nat /\ 1 \in 1 .. Slack + 1
  BY ThrottleAssumption
<1>2. passed \in [1 .. 2 * Limit + Slack -> 0 .. Old]
  BY DEF IInv, TypeOK
<1>3. excused \in [1 .. Slack + 1 -> 0 .. Old]
  BY DEF IInv, TypeOK
<1>4. \A i, j \in 1 .. 2 * Limit + Slack : i <= j => passed[i] <= passed[j]
  BY DEF IInv, Windows
<1>5. /\ WithLatest(1, passed) \in [1 .. 2 * Limit + Slack -> 0 .. Old]
      /\ \A i \in 1 .. 2 * Limit + Slack :
            i > 1 => WithLatest(1, passed)[i] = passed[i - 1]
  <2> DEFINE n == 2 * Limit + Slack
  <2>1. n \in Nat /\ passed \in [1 .. n -> 0 .. Old] /\ 1 \in Nat \ {0}
    BY <1>1, <1>2
  <2> HIDE DEF n
  <2>2. /\ WithLatest(1, passed) \in [1 .. n -> 0 .. Old]
        /\ \A i \in 1 .. n : i > 1 => WithLatest(1, passed)[i] = passed[i - 1]
    BY <2>1, WithLatestType
  <2> QED BY <2>2 DEF n
<1>6. \A i, j \in 1 .. 2 * Limit + Slack :
          i <= j => WithLatest(1, passed)[i] <= WithLatest(1, passed)[j]
  <2> DEFINE n == 2 * Limit + Slack
  <2>1. /\ n \in Nat /\ passed \in [1 .. n -> 0 .. Old]
        /\ \A i, j \in 1 .. n : i <= j => passed[i] <= passed[j]
    BY <1>1, <1>2, <1>4
  <2> HIDE DEF n
  <2>2. \A i, j \in 1 .. n :
            i <= j => WithLatest(1, passed)[i] <= WithLatest(1, passed)[j]
    BY <2>1, LatestInOrder
  <2> QED BY <2>2 DEF n
<1>7. /\ WithLatest(1, excused) \in [1 .. Slack + 1 -> 0 .. Old]
      /\ WithLatest(1, excused)[1] = 0
      /\ \A i \in 1 .. Slack + 1 :
            i > 1 => WithLatest(1, excused)[i] = excused[i - 1]
  <2> DEFINE n == Slack + 1
  <2>1. /\ n \in Nat /\ excused \in [1 .. n -> 0 .. Old] /\ 1 \in Nat \ {0}
        /\ 1 \in 1 .. n
    BY <1>1, <1>3
  <2> HIDE DEF n
  <2>2. /\ WithLatest(1, excused) \in [1 .. n -> 0 .. Old]
        /\ \A i \in 1 .. n : i <= 1 => WithLatest(1, excused)[i] = 0
        /\ \A i \in 1 .. n : i > 1 => WithLatest(1, excused)[i] = excused[i - 1]
    BY <2>1, WithLatestType
  <2>3. WithLatest(1, excused)[1] = 0
    BY <2>1, <2>2
  <2> QED BY <2>2, <2>3 DEF n
<1> QED BY <1>5, <1>6, <1>7

\* Time passes.
LEMMA TickStep ==
    ASSUME IInv, Tick
    PROVE  IInv'
<1> USE ThrottleAssumption DEF Gone, Old, BlockDuration
<1>1. TypeOK'
  <2>1. /\ hits' \in 0 .. Limit + 2
        /\ hitTtl' \in {Gone} \cup 0 .. Ttl
        /\ blockTtl' \in {Gone} \cup 0 .. BlockDuration
        /\ hits' = 0 <=> hitTtl' = Gone
    BY DEF IInv, TypeOK, Tick, Elapsed
  <2>2. /\ passed' \in [1 .. 2 * Limit + Slack -> 0 .. Old]
        /\ excused' \in [1 .. Slack + 1 -> 0 .. Old]
        /\ asked' \in [1 .. Limit + 1 -> 0 .. Old]
    BY OlderType DEF IInv, TypeOK, Tick
  <2>3. promise' \in Nat \cup {Null}
    BY DEF IInv, TypeOK, Tick
  <2> QED BY <2>1, <2>2, <2>3 DEF IInv, TypeOK, Tick, guards
<1>2. Bounds'
  BY DEF IInv, TypeOK, Bounds, Tick, Elapsed
<1>3. /\ \A i \in 1 .. 2 * Limit + Slack :
            passed'[i] = IF passed[i] = Old THEN Old ELSE passed[i] + 1
      /\ \A i \in 1 .. Slack + 1 :
            excused'[i] = IF excused[i] = Old THEN Old ELSE excused[i] + 1
  BY DEF IInv, TypeOK, Tick, Older
<1>30. /\ \A i \in 1 .. 2 * Limit + Slack : passed[i] \in 0 .. Old
       /\ \A i \in 1 .. Slack + 1 : excused[i] \in 0 .. Old
       /\ Admitted \in 0 .. Limit
       /\ hits > 0 => Admitted \in 1 .. Limit /\ hitTtl \in 0 .. Ttl
       /\ \A n \in 0 .. Slack : /\ Admitted + Limit + n \in 1 .. 2 * Limit + Slack
                                /\ Limit + n \in 1 .. 2 * Limit + Slack
                                /\ Admitted > 0 =>
                                      Admitted + n \in 1 .. 2 * Limit + Slack
                                /\ n + 1 \in 1 .. Slack + 1
  BY DEF IInv, TypeOK, Admitted
<1>4. Windows'
  <2>1. \A i, j \in 1 .. 2 * Limit + Slack : i <= j => passed'[i] <= passed'[j]
    BY <1>3, <1>30 DEF IInv, Windows
  <2>2. CASE hitTtl > 0 \/ hits = 0
    <3>1. hits' = hits /\ Admitted' = Admitted
      BY <2>2 DEF IInv, TypeOK, Tick, Elapsed, Admitted
    <3>2. ASSUME NEW n \in 0 .. Slack
          PROVE  passed'[Admitted + Limit + n] >= excused'[n + 1]
      <4>1. passed[Admitted + Limit + n] >= excused[n + 1]
        BY DEF IInv, Windows
      <4>2. /\ Admitted + Limit + n \in 1 .. 2 * Limit + Slack
            /\ n + 1 \in 1 .. Slack + 1
        BY <1>30
      <4> QED BY <1>3, <1>30, <4>1, <4>2
    <3>3. ASSUME hits > 0, NEW n \in 0 .. Slack
          PROVE  \/ passed'[Admitted + n] >= Ttl - hitTtl'
                 \/ passed'[Admitted + n] >= excused'[n + 1]
      <4>1. hitTtl \in 1 .. Ttl /\ hitTtl' = hitTtl - 1
        BY <2>2, <3>3 DEF IInv, TypeOK, Tick, Elapsed
      <4>2. \/ passed[Admitted + n] >= Ttl - hitTtl
            \/ passed[Admitted + n] >= excused[n + 1]
        BY <3>3 DEF IInv, Windows
      <4>3. /\ Admitted + n \in 1 .. 2 * Limit + Slack
            /\ n + 1 \in 1 .. Slack + 1
        BY <1>30, <3>3
      <4> QED BY <1>3, <1>30, <4>1, <4>2, <4>3
    <3> QED BY <2>1, <3>1, <3>2, <3>3 DEF Windows
  <2>3. CASE hitTtl = 0 /\ hits > 0
    <3>1. hits' = 0 /\ Admitted' = 0
      BY <2>3 DEF IInv, TypeOK, Tick, Elapsed, Admitted
    <3>2. ASSUME NEW n \in 0 .. Slack
          PROVE  passed'[Limit + n] >= excused'[n + 1]
      <4>1. /\ Admitted + n \in 1 .. 2 * Limit + Slack
            /\ Limit + n \in 1 .. 2 * Limit + Slack
            /\ n + 1 \in 1 .. Slack + 1
            /\ Admitted + n <= Limit + n
        BY <1>30, <2>3
      <4>2. \/ passed[Admitted + n] >= Ttl
            \/ passed[Admitted + n] >= excused[n + 1]
        BY <2>3 DEF IInv, Windows
      <4>3. passed'[Admitted + n] >= excused'[n + 1]
        BY <1>3, <1>30, <4>1, <4>2
      <4>4. passed'[Admitted + n] <= passed'[Limit + n]
        BY <2>1, <4>1
      <4>5. /\ passed'[Admitted + n] \in 0 .. Old /\ passed'[Limit + n] \in 0 .. Old
            /\ excused'[n + 1] \in 0 .. Old
        BY <1>1, <4>1 DEF TypeOK
      <4> QED BY <4>3, <4>4, <4>5
    <3> QED BY <2>1, <3>1, <3>2 DEF Windows
  <2>4. hitTtl > 0 \/ hits = 0 \/ (hitTtl = 0 /\ hits > 0)
    BY DEF IInv, TypeOK
  <2> QED BY <2>2, <2>3, <2>4
<1>5. Keeping'
  <2> SUFFICES ASSUME kept
               PROVE  /\ hits' <= Limit
                      /\ blockTtl' = Gone
                      /\ \A p \in Requests : pc[p] = "answered" => ~refused[p]
                      /\ \A i \in 1 .. hits' : asked'[i] <= Ttl - hitTtl'
    BY DEF Keeping, Tick, guards
  <2>1. /\ hits <= Limit /\ blockTtl = Gone
        /\ \A p \in Requests : pc[p] = "answered" => ~refused[p]
        /\ \A i \in 1 .. hits : asked[i] <= Ttl - hitTtl
    BY DEF IInv, Keeping
  <2>2. \A i \in 1 .. hits' : asked'[i] <= Ttl - hitTtl'
    BY <2>1 DEF IInv, TypeOK, Tick, Older, Elapsed
  <2> QED BY <2>1, <2>2 DEF IInv, TypeOK, Tick, Elapsed
<1> QED BY <1>1, <1>2, <1>4, <1>5 DEF IInv

\* Redis comes back empty: what the last window let through is excused.
LEMMA RestartStep ==
    ASSUME IInv, Restart
    PROVE  IInv'
<1> USE ThrottleAssumption DEF Gone, Old, BlockDuration
<1>1. /\ excused' \in [1 .. Slack + 1 -> 0 .. Old]
      /\ \A i \in 1 .. Slack + 1 : i <= Limit => excused'[i] = 0
      /\ \A i \in 1 .. Slack + 1 :
            i > Limit => /\ i - Limit \in 1 .. Slack + 1
                         /\ excused'[i] = excused[i - Limit]
  <2>1. Slack + 1 \in Nat /\ Limit \in Nat \ {0}
    OBVIOUS
  <2>2. /\ excused \in [1 .. Slack + 1 -> 0 .. Old]
        /\ excused' = WithLatest(Limit, excused)
    BY DEF IInv, TypeOK, Restart
  <2> QED BY <2>1, <2>2, WithLatestType
<1>2. TypeOK'
  BY <1>1 DEF IInv, TypeOK, Restart, guards
<1>3. Bounds'
  BY DEF IInv, TypeOK, Bounds, Restart
<1>4. Windows'
  <2>1. hits' = 0 /\ Admitted' = 0 /\ passed' = passed /\ Admitted \in 0 .. Limit
    BY DEF IInv, TypeOK, Admitted, Restart
  <2>2. ASSUME NEW n \in 0 .. Slack
        PROVE  passed[Limit + n] >= excused'[n + 1]
    <3>1. /\ n + 1 \in 1 .. Slack + 1 /\ Limit + n \in 1 .. 2 * Limit + Slack
          /\ passed[Limit + n] \in 0 .. Old
      BY DEF IInv, TypeOK
    <3>2. CASE n + 1 <= Limit
      BY <1>1, <3>1, <3>2
    <3>3. CASE n + 1 > Limit
      <4> DEFINE m == n - Limit
      <4>1. /\ m \in 0 .. Slack /\ m + 1 = n + 1 - Limit
            /\ Admitted + Limit + m \in 1 .. 2 * Limit + Slack
            /\ Admitted + Limit + m <= Limit + n
        BY <2>1, <3>3
      <4>2. excused'[n + 1] = excused[m + 1]
        BY <1>1, <3>1, <3>3, <4>1
      <4> HIDE DEF m
      <4>3. passed[Admitted + Limit + m] >= excused[m + 1]
        BY <4>1 DEF IInv, Windows
      <4>4. passed[Admitted + Limit + m] <= passed[Limit + n]
        BY <3>1, <4>1 DEF IInv, Windows
      <4>5. passed[Admitted + Limit + m] \in 0 .. Old /\ excused[m + 1] \in 0 .. Old
        <5>1. m + 1 \in 1 .. Slack + 1
          BY <4>1
        <5> QED BY <4>1, <5>1 DEF IInv, TypeOK
      <4> QED BY <3>1, <4>2, <4>3, <4>4, <4>5
    <3> QED BY <3>2, <3>3, <3>1
  <2> QED BY <2>1, <2>2 DEF IInv, Windows
<1>5. Keeping'
  BY DEF IInv, TypeOK, Keeping, Restart, guards
<1> QED BY <1>2, <1>3, <1>4, <1>5 DEF IInv

\* A guard moves on and lets nobody through.
LEMMA GuardStep ==
    ASSUME IInv, NEW p \in Requests,
           CanActivate(p) \/ Decide(p) \/ LoseCommand(p)
    PROVE  IInv'
<1>1. /\ UNCHANGED <<redis, history>>
      /\ refused' \in [Requests -> BOOLEAN]
      /\ pc' \in [Requests -> {"idle", "sent", "answered", "abandoned"}]
      /\ \A q \in Requests : pc'[q] = "answered" =>
                                 pc[q] = "answered" /\ refused'[q] = refused[q]
  BY DEF IInv, TypeOK, CanActivate, Decide, LoseCommand
<1>2. TypeOK'
  BY <1>1 DEF IInv, TypeOK, redis, history
<1>3. Bounds' /\ Windows'
  BY <1>1 DEF IInv, Bounds, Windows, Admitted, redis, history
<1>4. Keeping'
  BY <1>1 DEF IInv, Keeping, redis, history
<1> QED BY <1>2, <1>3, <1>4 DEF IInv

\* A request fails open: it is let through and excused.
LEMMA FailOpenStep ==
    ASSUME IInv, NEW p \in Requests, FailOpen(p)
    PROVE  IInv'
<1> USE ThrottleAssumption DEF Old
<1>1. /\ UNCHANGED <<redis, asked, kept, promise>>
      /\ passed' = WithLatest(1, passed) /\ excused' = WithLatest(1, excused)
      /\ refused' \in [Requests -> BOOLEAN]
      /\ pc' \in [Requests -> {"idle", "sent", "answered", "abandoned"}]
      /\ \A q \in Requests : pc'[q] = "answered" =>
                                 pc[q] = "answered" /\ refused'[q] = refused[q]
  BY DEF IInv, TypeOK, FailOpen
<1>2. /\ passed' \in [1 .. 2 * Limit + Slack -> 0 .. Old]
      /\ \A i \in 1 .. 2 * Limit + Slack : i > 1 => passed'[i] = passed[i - 1]
  BY <1>1, OneMore
<1>3. /\ excused' \in [1 .. Slack + 1 -> 0 .. Old]
      /\ excused'[1] = 0
      /\ \A i \in 1 .. Slack + 1 : i > 1 => excused'[i] = excused[i - 1]
  BY <1>1, OneMore
<1>4. TypeOK'
  BY <1>1, <1>2, <1>3 DEF IInv, TypeOK, redis
<1>5. Bounds'
  BY <1>1 DEF IInv, Bounds, redis
<1>6. Windows'
  <2>1. /\ hits' = hits /\ hitTtl' = hitTtl /\ Admitted' = Admitted
        /\ Admitted \in 0 .. Limit
        /\ hits > 0 => Admitted \in 1 .. Limit
    BY <1>1 DEF redis, IInv, TypeOK, Admitted
  <2>2. \A i, j \in 1 .. 2 * Limit + Slack : i <= j => passed'[i] <= passed'[j]
    BY <1>1, OneMore
  <2>3. ASSUME NEW n \in 0 .. Slack, NEW k \in 1 .. 2 * Limit, n > 0
        PROVE  /\ passed'[k + n] = passed[k + (n - 1)]
               /\ excused'[n + 1] = excused[(n - 1) + 1]
               /\ n - 1 \in 0 .. Slack
    <3>1. /\ k + n \in 1 .. 2 * Limit + Slack /\ k + n > 1
          /\ (k + n) - 1 = k + (n - 1)
          /\ n + 1 \in 1 .. Slack + 1 /\ n + 1 > 1 /\ (n + 1) - 1 = (n - 1) + 1
          /\ n - 1 \in 0 .. Slack
      BY <2>3
    <3>2. passed'[k + n] = passed[(k + n) - 1]
      BY <1>2, <3>1
    <3>3. excused'[n + 1] = excused[(n + 1) - 1]
      BY <1>3, <3>1
    <3> QED BY <3>1, <3>2, <3>3
  <2>4. ASSUME NEW k \in 1 .. 2 * Limit
        PROVE  k + 0 \in 1 .. 2 * Limit + Slack /\ passed'[k + 0] >= excused'[0 + 1]
    <3>1. k + 0 \in 1 .. 2 * Limit + Slack
      OBVIOUS
    <3>2. passed'[k + 0] \in 0 .. Old
      BY <1>2, <3>1
    <3> QED BY <1>3, <3>1, <3>2
  <2>5. ASSUME NEW n \in 0 .. Slack
        PROVE  passed'[Admitted + Limit + n] >= excused'[n + 1]
    <3>1. Admitted + Limit \in 1 .. 2 * Limit
      BY <2>1
    <3>2. CASE n = 0
      BY <2>4, <3>1, <3>2
    <3>3. CASE n > 0
      BY <2>3, <3>1, <3>3 DEF IInv, Windows
    <3> QED BY <3>2, <3>3
  <2>6. ASSUME hits > 0, NEW n \in 0 .. Slack
        PROVE  \/ passed'[Admitted + n] >= Ttl - hitTtl
               \/ passed'[Admitted + n] >= excused'[n + 1]
    <3>1. Admitted \in 1 .. 2 * Limit
      BY <2>1, <2>6
    <3>2. CASE n = 0
      BY <2>4, <3>1, <3>2
    <3>3. CASE n > 0
      BY <2>3, <2>6, <3>1, <3>3 DEF IInv, Windows
    <3> QED BY <3>2, <3>3
  <2> QED BY <2>1, <2>2, <2>5, <2>6 DEF Windows
<1>7. Keeping'
  BY <1>1 DEF IInv, Keeping, redis
<1> QED BY <1>4, <1>5, <1>6, <1>7 DEF IInv

\* What every evaluation does to the record of evaluations.
LEMMA AskedStep ==
    ASSUME TypeOK, NEW p \in Requests, Evaluate(p)
    PROVE  /\ asked' \in [1 .. Limit + 1 -> 0 .. Old]
           /\ kept' \in BOOLEAN
           /\ kept' => /\ kept
                       /\ asked'[Limit + 1] = Old
                       /\ asked'[1] = 0
                       /\ \A i \in 2 .. Limit + 1 : asked'[i] = asked[i - 1]
           /\ excused' = excused
           /\ pc' \in [Requests -> {"idle", "sent", "answered", "abandoned"}]
           /\ \A q \in Requests \ {p} : pc'[q] = pc[q]
<1> DEFINE latest == WithLatest(1, asked)
<1>1. Limit + 1 \in Nat \ {0} /\ Limit + 1 \in 1 .. Limit + 1
  BY ThrottleAssumption
<1>2. /\ latest \in [1 .. Limit + 1 -> 0 .. Old]
      /\ latest[1] = 0
      /\ \A i \in 2 .. Limit + 1 : latest[i] = asked[i - 1]
  <2> DEFINE n == Limit + 1
  <2>1. /\ n \in Nat /\ asked \in [1 .. n -> 0 .. Old] /\ 1 \in Nat \ {0}
        /\ 1 \in 1 .. n /\ \A i \in 2 .. n : i \in 1 .. n /\ i > 1
    BY <1>1 DEF TypeOK
  <2> HIDE DEF n
  <2>2. /\ latest \in [1 .. n -> 0 .. Old]
        /\ \A i \in 1 .. n : i <= 1 => latest[i] = 0
        /\ \A i \in 1 .. n : i > 1 => latest[i] = asked[i - 1]
    BY <2>1, WithLatestType
  <2>3. latest[1] = 0
    BY <2>1, <2>2
  <2>4. \A i \in 2 .. n : latest[i] = asked[i - 1]
    BY <2>1, <2>2
  <2> QED BY <2>2, <2>3, <2>4 DEF n
<1>3. /\ kept' = (kept /\ latest[Limit + 1] = Old)
      /\ asked' = IF kept' THEN latest ELSE Never(Limit + 1)
      /\ excused' = excused
  BY DEF Evaluate
<1>4. Never(Limit + 1) \in [1 .. Limit + 1 -> 0 .. Old]
  BY <1>1, NeverType
<1>5. /\ pc' \in [Requests -> {"idle", "sent", "answered", "abandoned"}]
      /\ \A q \in Requests \ {p} : pc'[q] = pc[q]
  BY DEF TypeOK, Evaluate
<1> HIDE DEF latest
<1>6. kept' \in BOOLEAN /\ (kept' => kept /\ latest[Limit + 1] = Old)
  BY <1>3 DEF TypeOK
<1>7. asked' \in [1 .. Limit + 1 -> 0 .. Old]
  BY <1>2, <1>3, <1>4
<1> QED BY <1>2, <1>3, <1>5, <1>6, <1>7

\* The key is blocked.
LEMMA RefuseStep ==
    ASSUME IInv, NEW p \in Requests, Evaluate(p), Refuse(p)
    PROVE  IInv'
<1> USE ThrottleAssumption DEF Gone, Old, BlockDuration
<1>1. /\ UNCHANGED redis /\ passed' = passed
      /\ refused' = [refused EXCEPT ![p] = pc[p] = "sent"]
  BY DEF Refuse, Tell
<1>2. blockTtl \in 1 .. Ttl /\ ~kept
  BY DEF Refuse, IInv, TypeOK, Keeping
<1>3. RetryAfter(blockTtl) \in Nat /\ RetryAfter(blockTtl) >= blockTtl
  BY <1>2, RoundsUp
<1>4. promise' \in Nat /\ promise' >= blockTtl
  BY <1>2, <1>3 DEF Refuse, Tell, IInv, TypeOK, Bounds
<1>5. TypeOK'
  BY <1>1, <1>4, AskedStep DEF IInv, TypeOK, redis
<1>6. Bounds'
  BY <1>1, <1>4 DEF IInv, Bounds, redis
<1>7. Windows'
  BY <1>1, AskedStep DEF IInv, Windows, Admitted, redis
<1>8. Keeping'
  BY <1>2, AskedStep DEF IInv, Keeping
<1> QED BY <1>5, <1>6, <1>7, <1>8 DEF IInv

\* The hit is counted.
LEMMA CountStep ==
    ASSUME IInv, NEW p \in Requests, Evaluate(p), Count(p)
    PROVE  IInv'
<1> USE ThrottleAssumption DEF Gone, Old, BlockDuration
<1> DEFINE over == hits + 1 > Limit
<1>1. /\ hits' = hits + 1
      /\ hitTtl' = IF hits = 0 THEN Ttl ELSE hitTtl
      /\ refused' = [refused EXCEPT ![p] = over /\ pc[p] = "sent"]
      /\ blockTtl <= 0
  BY DEF Count, Hit
<1>2. /\ over => /\ blockTtl' = Ttl
                 /\ promise' = RetryAfter(Ttl)
                 /\ passed' = passed
      /\ ~over => /\ passed' = WithLatest(1, passed)
                  /\ blockTtl' = blockTtl
                  /\ promise' = promise
  BY DEF Count, Hit
<1>3. RetryAfter(Ttl) \in Nat /\ RetryAfter(Ttl) >= Ttl
  BY RoundsUp
<1>4. /\ hits \in 0 .. Limit + 1
      /\ hits = Limit + 1 => hitTtl = 0
      /\ hits > 0 => hitTtl \in 0 .. Ttl
  BY <1>1 DEF IInv, TypeOK, Bounds
<1>5. /\ WithLatest(1, passed) \in [1 .. 2 * Limit + Slack -> 0 .. Old]
      /\ \A i \in 1 .. 2 * Limit + Slack :
            i > 1 => WithLatest(1, passed)[i] = passed[i - 1]
  BY OneMore
<1>6. TypeOK'
  <2>1. /\ hits' \in 0 .. Limit + 2
        /\ hitTtl' \in {Gone} \cup 0 .. Ttl
        /\ hits' = 0 <=> hitTtl' = Gone
    BY <1>1, <1>4
  <2>2. /\ blockTtl' \in {Gone} \cup 0 .. BlockDuration
        /\ promise' \in Nat \cup {Null}
        /\ passed' \in [1 .. 2 * Limit + Slack -> 0 .. Old]
    <3>1. CASE over
      BY <1>2, <1>3, <3>1 DEF IInv, TypeOK
    <3>2. CASE ~over
      BY <1>2, <1>5, <3>2 DEF IInv, TypeOK
    <3> QED BY <3>1, <3>2
  <2>3. refused' \in [Requests -> BOOLEAN]
    BY <1>1 DEF IInv, TypeOK
  <2> QED BY <2>1, <2>2, <2>3, AskedStep DEF IInv, TypeOK
<1>7. Bounds'
  BY <1>1, <1>2, <1>3, <1>4 DEF IInv, TypeOK, Bounds
<1>80. excused' = excused
  BY AskedStep DEF IInv
<1>8. Windows'
  <2>1. CASE over
    <3>1. hits' > 0 /\ hits > 0 /\ Admitted = Limit /\ Admitted' = Limit
          /\ hitTtl' = hitTtl
      BY <1>1, <1>4, <2>1 DEF Admitted
    <3> QED BY <1>2, <1>80, <2>1, <3>1 DEF IInv, Windows
  <2>2. CASE ~over
    <3>1. /\ Admitted = hits /\ Admitted' = hits + 1
          /\ hits \in 0 .. Limit - 1
      BY <1>1, <1>4, <2>2 DEF Admitted
    <3>2. \A i, j \in 1 .. 2 * Limit + Slack : i <= j => passed'[i] <= passed'[j]
      BY <1>2, <2>2, OneMore
    <3>3. ASSUME NEW n \in 0 .. Slack
          PROVE  passed'[Admitted' + Limit + n] >= excused[n + 1]
      <4> DEFINE k == Admitted' + Limit + n
      <4>1. /\ k \in 1 .. 2 * Limit + Slack /\ k > 1
            /\ k - 1 = Admitted + Limit + n
        BY <3>1
      <4>2. passed'[k] = passed[k - 1]
        BY <1>2, <1>5, <2>2, <4>1
      <4>3. passed[Admitted + Limit + n] >= excused[n + 1]
        BY DEF IInv, Windows
      <4> QED BY <4>1, <4>2, <4>3
    <3>4. ASSUME NEW n \in 0 .. Slack
          PROVE  \/ passed'[Admitted' + n] >= Ttl - hitTtl'
                 \/ passed'[Admitted' + n] >= excused[n + 1]
      <4>0. Admitted' + n \in 1 .. 2 * Limit + Slack
        BY <3>1
      <4>1. CASE hits = 0
        <5>1. Ttl - hitTtl' = 0
          BY <1>1, <4>1
        <5>2. passed'[Admitted' + n] \in 0 .. Old
          BY <1>6, <4>0 DEF TypeOK
        <5> QED BY <5>1, <5>2
      <4>2. CASE hits > 0
        <5>1. /\ Admitted' + n > 1 /\ (Admitted' + n) - 1 = Admitted + n
              /\ hitTtl' = hitTtl
          BY <1>1, <3>1, <4>2
        <5>2. passed'[Admitted' + n] = passed[(Admitted' + n) - 1]
          BY <1>2, <1>5, <2>2, <4>0, <5>1
        <5>3. \/ passed[Admitted + n] >= Ttl - hitTtl
              \/ passed[Admitted + n] >= excused[n + 1]
          BY <4>2 DEF IInv, Windows
        <5> QED BY <5>1, <5>2, <5>3
      <4> QED BY <3>1, <4>1, <4>2
    <3> QED BY <1>80, <3>2, <3>3, <3>4 DEF Windows
  <2> QED BY <2>1, <2>2
<1>9. Keeping'
  <2> SUFFICES ASSUME kept'
               PROVE  /\ hits' <= Limit
                      /\ blockTtl' = Gone
                      /\ \A q \in Requests : pc'[q] = "answered" => ~refused'[q]
                      /\ \A i \in 1 .. hits' : asked'[i] <= Ttl - hitTtl'
    BY DEF Keeping
  <2>1. /\ hits <= Limit /\ blockTtl = Gone
        /\ \A q \in Requests : pc[q] = "answered" => ~refused[q]
        /\ \A i \in 1 .. hits : asked[i] <= Ttl - hitTtl
        /\ asked'[Limit + 1] = Old
    BY AskedStep DEF IInv, Keeping
  <2>2. hits < Limit
    <3> SUFFICES ASSUME hits = Limit PROVE FALSE
      BY <1>4, <2>1
    <3>1. asked'[Limit + 1] = asked[Limit]
      <4>1. Limit + 1 \in 2 .. Limit + 1 /\ Limit + 1 - 1 = Limit
        OBVIOUS
      <4> QED BY <4>1, AskedStep DEF IInv
    <3>2. asked[Limit] <= Ttl - hitTtl /\ hitTtl \in 0 .. Ttl
      BY <1>4, <2>1
    <3> QED BY <2>1, <3>1, <3>2
  <2>3. ~over
    BY <1>4, <2>2
  <2>4. \A q \in Requests : pc'[q] = "answered" => ~refused'[q]
    BY <1>1, <2>1, <2>3, AskedStep DEF IInv, TypeOK
  <2>5. \A i \in 1 .. hits' : asked'[i] <= Ttl - hitTtl'
    <3>0. 0 <= Ttl - hitTtl'
      BY <1>1, <1>4
    <3> SUFFICES ASSUME NEW i \in 1 .. hits + 1
                 PROVE  asked'[i] <= Ttl - hitTtl'
      BY <1>1
    <3>1. CASE i = 1
      <4>1. asked'[i] = 0
        BY <3>1, AskedStep DEF IInv
      <4> QED BY <3>0, <4>1
    <3>2. CASE i > 1
      <4>1. /\ i \in 2 .. Limit + 1 /\ i - 1 \in 1 .. hits
            /\ hitTtl' = hitTtl
        BY <1>1, <2>2, <3>2, <1>4
      <4>2. asked'[i] = asked[i - 1]
        BY <4>1, AskedStep DEF IInv
      <4>3. asked[i - 1] <= Ttl - hitTtl
        BY <2>1, <4>1
      <4> QED BY <4>1, <4>2, <4>3
    <3> QED BY <3>1, <3>2
  <2> QED BY <1>1, <1>2, <1>4, <2>1, <2>2, <2>3, <2>4, <2>5
<1> QED BY <1>6, <1>7, <1>8, <1>9 DEF IInv

LEMMA NextInv == IInv /\ [Next]_vars => IInv'
<1> SUFFICES ASSUME IInv, [Next]_vars PROVE IInv'
  OBVIOUS
<1>1. CASE Tick
  BY <1>1, TickStep
<1>2. CASE Restart
  BY <1>2, RestartStep
<1>3. ASSUME NEW p \in Requests, Guard(p) PROVE IInv'
  <2>1. CASE Evaluate(p)
    BY <2>1, RefuseStep, CountStep DEF Evaluate
  <2>2. CASE CanActivate(p) \/ Decide(p) \/ LoseCommand(p)
    BY <2>2, GuardStep
  <2>3. CASE FailOpen(p)
    BY <2>3, FailOpenStep
  <2> QED BY <1>3, <2>1, <2>2, <2>3 DEF Guard
<1>4. CASE UNCHANGED vars
  BY <1>4 DEF IInv, TypeOK, Bounds, Windows, Admitted, Keeping, vars, redis,
              guards, history
<1> QED BY <1>1, <1>2, <1>3, <1>4 DEF Next

THEOREM Invariance == Spec => []IInv
<1>1. Init => IInv
  BY InitInv
<1>2. IInv /\ [Next]_vars => IInv'
  BY NextInv
<1> QED BY <1>1, <1>2, PTL DEF Spec

-----------------------------------------------------------------------------
\* Every state is well typed; the counter exists exactly while it has time
\* left and never counts more than two hits over the limit.
THEOREM TypeCorrect == Spec => []TypeOK
<1>1. IInv => TypeOK
  BY DEF IInv
<1> QED BY <1>1, Invariance, PTL

\* No stretch of time as long as a window lets twice the limit through, but
\* for one request more with each that fails open in it, and Limit more with
\* each restart of Redis.
THEOREM WindowsAddUp == Spec => []TwoWindowLimit
<1>1. IInv => TwoWindowLimit
  <2> SUFFICES ASSUME IInv, NEW n \in 0 .. Slack, excused[n + 1] = Old
               PROVE  passed[2 * Limit + n] = Old
    BY DEF TwoWindowLimit
  <2>1. /\ Admitted + Limit + n \in 1 .. 2 * Limit + Slack
        /\ 2 * Limit + n \in 1 .. 2 * Limit + Slack
        /\ Admitted + Limit + n <= 2 * Limit + n
    BY ThrottleAssumption DEF IInv, TypeOK, Admitted
  <2>2. /\ passed[Admitted + Limit + n] >= Old
        /\ passed[Admitted + Limit + n] \in 0 .. Old
        /\ passed[2 * Limit + n] \in 0 .. Old
    BY <2>1 DEF IInv, TypeOK, Windows
  <2>3. passed[Admitted + Limit + n] <= passed[2 * Limit + n]
    BY <2>1 DEF IInv, Windows
  <2> QED BY <2>2, <2>3, ThrottleAssumption DEF Old
<1> QED BY <1>1, Invariance, PTL

\* A client that keeps to the limit is not refused.
THEOREM KeepersServed == Spec => []KeepersAreServed
<1>1. IInv => KeepersAreServed
  BY DEF IInv, Keeping, KeepersAreServed
<1> QED BY <1>1, Invariance, PTL

\* Who waits as long as told is not refused for the same hits.
THEOREM WaitingSuffices == Spec => []RetryAfterSuffices
<1>1. IInv => RetryAfterSuffices
  BY ThrottleAssumption DEF IInv, TypeOK, Bounds, RetryAfterSuffices, Gone
<1> QED BY <1>1, Invariance, PTL
=============================================================================
