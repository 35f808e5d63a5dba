------------------------------ MODULE InboxProofs ------------------------------
(***************************************************************************)
(* A walk of the inbox leaves nothing behind, for every number of notes,   *)
(* every page size and every clock.                                        *)
(*                                                                         *)
(* A note that has a stamp of its own has a least position in the list,    *)
(* the number of younger rows, and rows only ever push it further down.    *)
(* The walk keeps ahead of it: what it has not shown to the client has at  *)
(* least as many younger rows as the pages it has asked for hold (Ahead).  *)
(***************************************************************************)
EXTENDS Inbox, FiniteSetTheorems, TLAPS

Younger(n) == {m \in rows : createdAt[m] > createdAt[n]}

Walking == {"rows", "count", "mark"}

\* How many rows the pages asked for so far hold.
Reached == IF pc = "rows" THEN Skip(page) ELSE Skip(page) + Limit

Shown(n) == n \in isRead \/ n \in unread

Ahead ==
    pc \in Walking =>
        \A n \in aim : Stamped(n) =>
            Shown(n) \/ Cardinality(Younger(n)) >= Reached

LastPage ==
    pc = "mark" /\ ~more => \A n \in aim : Stamped(n) => Shown(n)

NothingToMark == pc \in {"idle", "rows", "end"} => unread = {}

IInv == TypeOK /\ Ahead /\ LastPage /\ NothingToMark /\ InboxCleared

-----------------------------------------------------------------------------
LEMMA YoungerFinite ==
    ASSUME TypeOK, NEW n
    PROVE  IsFiniteSet(Younger(n)) /\ Cardinality(Younger(n)) \in Nat
<1>1. Younger(n) \in SUBSET Notes
  BY DEF TypeOK, Younger
<1> QED BY <1>1, FS_Subset, FS_CardinalityType, InboxAssumption

LEMMA SkipType ==
    ASSUME NEW n \in Nat \ {0}
    PROVE  /\ Skip(n) \in Nat
           /\ Skip(n + 1) = Skip(n) + Limit
<1>1. n - 1 \in Nat /\ Limit \in Nat /\ n + 1 - 1 = n /\ n = (n - 1) + 1
  BY InboxAssumption
<1>2. \A a, b \in Nat : a * b \in Nat /\ (a + 1) * b = a * b + b
  BY SMTT(30)
<1>3. n * Limit = (n - 1) * Limit + Limit
  BY <1>1, <1>2
<1> QED BY <1>1, <1>2, <1>3 DEF Skip

\* hasNextPage is false only if the pages up to this one hold every row.
LEMMA LastPageHoldsAll ==
    ASSUME NEW n \in Nat \ {0}, NEW total \in Nat, ~(n < TotalPages(total))
    PROVE  total <= Skip(n) + Limit
<1> DEFINE m == total + Limit - 1
           q == m \div Limit
<1>1. m \in Nat /\ Limit \in Nat \ {0}
  BY InboxAssumption
<1>2. q \in Nat /\ m = Limit * q + (m % Limit) /\ m % Limit \in 0 .. Limit - 1
  BY <1>1, SMTT(30)
<1>3. q <= n
  BY <1>2 DEF TotalPages
<1>4. Limit * q \in Nat /\ total <= Limit * q
  <2>1. Limit * q \in Nat
    BY <1>1, <1>2
  <2> QED BY <1>1, <1>2, <2>1
<1>5. Limit * q <= Limit * n
  <2>1. \A a, b, c \in Nat : b <= c => a * b <= a * c
    BY SMTT(30)
  <2> QED BY <1>1, <1>2, <1>3, <2>1
<1>6. Limit * n = Skip(n) + Limit /\ Limit * n \in Nat
  <2>1. Skip(n + 1) = n * Limit /\ n * Limit = Limit * n /\ Limit * n \in Nat
    BY <1>1 DEF Skip
  <2> QED BY <2>1, SkipType
<1> QED BY <1>4, <1>5, <1>6

\* What a page leaves out of a note's sight is below the page.
LEMMA PageHolds ==
    ASSUME TypeOK, NEW skip \in Nat, NEW p \in Pages(skip),
           NEW n \in rows, Stamped(n), n \notin p,
           Cardinality(Younger(n)) >= skip
    PROVE  Cardinality(Younger(n)) >= skip + Limit
<1>1. PICK before \in SUBSET (rows \ p) :
         LET after == rows \ (p \cup before) IN
         /\ NoYounger(before, p) /\ NoYounger(p, after)
         /\ NoYounger(before, after)
         /\ Cardinality(before) = skip \/ (p = {} /\ after = {})
         /\ Cardinality(before) <= skip
         /\ Cardinality(p) = Limit \/ after = {}
  BY DEF Pages
<1> DEFINE after == rows \ (p \cup before)
<1>2. p \in SUBSET rows
  BY DEF Pages
<1>3. /\ IsFiniteSet(before) /\ Cardinality(before) \in Nat
      /\ IsFiniteSet(p) /\ Cardinality(p) \in Nat
  <2>1. before \in SUBSET Notes /\ p \in SUBSET Notes
    BY <1>1, <1>2 DEF TypeOK
  <2> QED BY <2>1, FS_Subset, FS_CardinalityType, InboxAssumption
<1>4. \A m \in Notes : createdAt[m] \in Int
  BY InboxAssumption DEF TypeOK
<1>5. n \notin before
  <2> SUFFICES ASSUME n \in before PROVE FALSE
    OBVIOUS
  <2>1. Younger(n) \subseteq before \ {n}
    BY <1>1, <1>2, <1>4 DEF Younger, NoYounger, TypeOK
  <2>2. IsFiniteSet(before \ {n}) /\ Cardinality(before \ {n}) = Cardinality(before) - 1
    BY <1>3, FS_RemoveElement
  <2>3. Cardinality(Younger(n)) <= Cardinality(before) - 1
    BY <2>1, <2>2, FS_Subset
  <2>4. Cardinality(Younger(n)) \in Nat
    BY YoungerFinite
  <2> QED BY <1>1, <1>3, <2>3, <2>4
<1>6. n \in after
  BY <1>5
<1>7. Cardinality(before) = skip /\ Cardinality(p) = Limit
  BY <1>1, <1>6
<1>8. before \cup p \subseteq Younger(n)
  <2> SUFFICES ASSUME NEW m \in before \cup p
               PROVE  m \in rows /\ createdAt[m] > createdAt[n]
    BY DEF Younger
  <2>1. m \in rows /\ m \in Notes /\ n \in Notes /\ m # n
    BY <1>2, <1>5 DEF TypeOK
  <2>2. createdAt[m] >= createdAt[n]
    BY <1>1, <1>6 DEF NoYounger
  <2>3. createdAt[m] # createdAt[n]
    BY <2>1 DEF Stamped
  <2> QED BY <1>4, <2>1, <2>2, <2>3
<1>9. Cardinality(before \cup p) = skip + Limit
  <2>1. before \cap p = {}
    OBVIOUS
  <2>2. Cardinality(before \cup p) =
           Cardinality(before) + Cardinality(p) - Cardinality(before \cap p)
    BY <1>3, FS_Union
  <2> QED BY <1>7, <2>1, <2>2, FS_EmptySet, InboxAssumption
<1>10. Cardinality(before \cup p) <= Cardinality(Younger(n))
  BY <1>8, YoungerFinite, FS_Subset
<1> QED BY <1>9, <1>10, YoungerFinite, InboxAssumption

-----------------------------------------------------------------------------
(* Steps that leave the walk where it is.                                  *)

\* Notes may arrive, and notes may be marked: what the walk has shown stays
\* shown, and what is younger stays younger.
LEMMA StandingStep ==
    ASSUME TypeOK, Ahead, LastPage, NothingToMark, InboxCleared,
           rows \subseteq rows', rows' \subseteq Notes,
           \A n \in rows : createdAt'[n] = createdAt[n],
           \A n \in aim : Stamped(n)' => Stamped(n),
           isRead \subseteq isRead', isRead \cup unread \subseteq isRead' \cup unread',
           unread' \subseteq unread,
           UNCHANGED <<pc, page, more, aim>>
    PROVE  Ahead' /\ LastPage' /\ NothingToMark' /\ InboxCleared'
<1>1. \A n \in aim : Shown(n) => Shown(n)'
  BY DEF Shown
<1>2. Ahead'
  <2> SUFFICES ASSUME pc \in Walking, NEW n \in aim, Stamped(n)', ~Shown(n)'
               PROVE  Cardinality(Younger(n)') >= Reached
    BY DEF Ahead, Reached, Skip
  <2>1. Cardinality(Younger(n)) >= Reached
    BY <1>1 DEF Ahead
  <2>2. Younger(n) \subseteq Younger(n)'
    BY DEF Younger, TypeOK
  <2>3. IsFiniteSet(Younger(n)') /\ Cardinality(Younger(n)') \in Nat
    <3>1. Younger(n)' \in SUBSET Notes
      BY DEF Younger
    <3> QED BY <3>1, FS_Subset, FS_CardinalityType, InboxAssumption
  <2>4. Cardinality(Younger(n)) <= Cardinality(Younger(n)')
    BY <2>2, <2>3, FS_Subset
  <2>5. Reached \in Nat
    BY SkipType, InboxAssumption DEF Reached, TypeOK
  <2> QED BY <2>1, <2>3, <2>4, <2>5, YoungerFinite
<1>3. LastPage'
  BY <1>1 DEF LastPage
<1>4. NothingToMark'
  BY DEF NothingToMark
<1>5. InboxCleared'
  BY DEF InboxCleared
<1> QED BY <1>2, <1>3, <1>4, <1>5

LEMMA TableStep ==
    ASSUME IInv, NEW k \in Notes,
           CreateNotification(k) \/ Commit(k)
    PROVE  IInv'
<1> USE InboxAssumption DEF IInv
<1>1. TypeOK'
  BY DEF TypeOK, CreateNotification, Commit, walk
<1>2. /\ rows \subseteq rows' /\ rows' \subseteq Notes
      /\ \A n \in rows : createdAt'[n] = createdAt[n]
      /\ UNCHANGED <<isRead, walk>>
  BY DEF TypeOK, CreateNotification, Commit
<1>3. \A n \in aim : Stamped(n)' => Stamped(n)
  <2> SUFFICES ASSUME NEW n \in aim, Stamped(n)', NEW m \in Notes \ {n}
               PROVE  createdAt[m] # createdAt[n]
    BY DEF Stamped
  <2>1. createdAt'[m] # createdAt'[n] /\ createdAt'[n] = createdAt[n]
    BY <1>2 DEF Stamped, TypeOK
  <2>2. CASE createdAt'[m] = createdAt[m]
    BY <2>1, <2>2
  <2>3. CASE createdAt'[m] # createdAt[m]
    BY <2>3 DEF TypeOK, CreateNotification, Commit
  <2> QED BY <2>2, <2>3
<1>4. /\ isRead \subseteq isRead' /\ isRead \cup unread \subseteq isRead' \cup unread'
      /\ unread' \subseteq unread /\ UNCHANGED <<pc, page, more, aim>>
  BY <1>2 DEF walk
<1> QED BY <1>1, <1>2, <1>3, <1>4, StandingStep

LEMMA MarkStep ==
    ASSUME IInv, NEW k \in Notes,
           FindNote(k) \/ SaveNote(k) \/ FailToSave(k)
    PROVE  IInv'
<1> USE DEF IInv
<1>1. TypeOK'
  BY DEF TypeOK, FindNote, SaveNote, FailToSave, table, walk
<1>2. /\ UNCHANGED <<rows, createdAt, pc, page, more, aim>>
      /\ isRead \subseteq isRead' /\ isRead \cup unread \subseteq isRead' \cup unread'
      /\ unread' \subseteq unread
  BY DEF FindNote, SaveNote, FailToSave, table, walk
<1>3. \A n \in aim : Stamped(n)' => Stamped(n)
  BY <1>2 DEF Stamped
<1>4. rows' \subseteq Notes
  BY <1>2 DEF TypeOK
<1> QED BY <1>1, <1>2, <1>3, <1>4, StandingStep

-----------------------------------------------------------------------------
(* Steps of the walk.                                                      *)

LEMMA StartWalkStep ==
    ASSUME IInv, StartWalk
    PROVE  IInv'
<1> USE DEF IInv, StartWalk, table
<1>1. TypeOK'
  BY DEF TypeOK
<1>2. Ahead'
  <2>1. Reached' = 0
    <3>1. \A b \in Nat : (1 - 1) * b = 0
      OBVIOUS
    <3> QED BY <3>1, InboxAssumption DEF Reached, Skip
  <2>2. \A n : Cardinality(Younger(n)') \in Nat
    BY YoungerFinite DEF Younger
  <2> QED BY <2>1, <2>2 DEF Ahead
<1>3. LastPage' /\ NothingToMark' /\ InboxCleared'
  BY DEF LastPage, NothingToMark, InboxCleared
<1> QED BY <1>1, <1>2, <1>3

LEMMA SelectPageStep ==
    ASSUME IInv, SelectPage
    PROVE  IInv'
<1> USE DEF IInv
<1>1. PICK p \in Pages(Skip(page)) : unread' = p \ isRead
  BY DEF SelectPage
<1>2. /\ pc = "rows" /\ pc' = "count" /\ p \subseteq rows
      /\ UNCHANGED <<table, found, page, more, aim>>
  BY DEF SelectPage, Pages
<1>3. TypeOK'
  BY <1>1, <1>2 DEF TypeOK, table
<1>4. Ahead'
  <2> SUFFICES ASSUME NEW n \in aim, Stamped(n), n \notin isRead, n \notin p
               PROVE  Cardinality(Younger(n)) >= Skip(page) + Limit
    BY <1>1, <1>2 DEF Ahead, Walking, Shown, Stamped, Younger, Reached, Skip, table
  <2>1. Cardinality(Younger(n)) >= Skip(page)
    BY <1>2 DEF Ahead, Walking, Shown, NothingToMark, Reached
  <2>2. n \in rows /\ Skip(page) \in Nat
    BY SkipType DEF TypeOK
  <2> QED BY <2>1, <2>2, PageHolds
<1>5. LastPage' /\ NothingToMark' /\ InboxCleared'
  BY <1>2 DEF LastPage, NothingToMark, InboxCleared
<1> QED BY <1>3, <1>4, <1>5

LEMMA CountRowsStep ==
    ASSUME IInv, CountRows
    PROVE  IInv'
<1> USE DEF IInv
<1>1. /\ pc = "count" /\ pc' = "mark"
      /\ more' = (page < TotalPages(Cardinality(rows)))
      /\ UNCHANGED <<table, found, page, unread, aim>>
  BY DEF CountRows
<1>2. TypeOK'
  BY <1>1 DEF TypeOK, table
<1>3. Ahead'
  BY <1>1 DEF Ahead, Walking, Shown, Stamped, Younger, Reached, Skip, table
<1>4. LastPage'
  <2> SUFFICES ASSUME ~more', NEW n \in aim, Stamped(n), ~Shown(n)
               PROVE  FALSE
    BY <1>1 DEF LastPage, Shown, Stamped, table
  <2>1. Cardinality(Younger(n)) >= Skip(page) + Limit
    BY <1>1 DEF Ahead, Walking, Reached
  <2>2. IsFiniteSet(rows) /\ Cardinality(rows) \in Nat
    <3>1. rows \in SUBSET Notes
      BY DEF TypeOK
    <3> QED BY <3>1, FS_Subset, FS_CardinalityType, InboxAssumption
  <2>3. Cardinality(rows) <= Skip(page) + Limit
    BY <1>1, <2>2, LastPageHoldsAll DEF TypeOK
  <2>4. Younger(n) \subseteq rows \ {n}
    BY InboxAssumption DEF TypeOK, Younger
  <2>5. IsFiniteSet(rows \ {n}) /\ Cardinality(rows \ {n}) = Cardinality(rows) - 1
    BY <2>2, FS_RemoveElement DEF TypeOK
  <2>6. Cardinality(Younger(n)) <= Cardinality(rows) - 1
    BY <2>4, <2>5, FS_Subset
  <2>7. Skip(page) + Limit \in Nat
    BY SkipType, InboxAssumption DEF TypeOK
  <2> QED BY <2>1, <2>2, <2>3, <2>6, <2>7, YoungerFinite
<1>5. NothingToMark' /\ InboxCleared'
  BY <1>1 DEF NothingToMark, InboxCleared
<1> QED BY <1>2, <1>3, <1>4, <1>5

LEMMA NextPageStep ==
    ASSUME IInv, NextPage
    PROVE  IInv'
<1> USE DEF IInv
<1>1. /\ pc = "mark" /\ unread = {}
      /\ UNCHANGED <<table, found, unread, more, aim>>
  BY DEF NextPage
<1>2. CASE more
  <2>1. page' = page + 1 /\ pc' = "rows"
    BY <1>2 DEF NextPage
  <2>2. Reached' = Reached
    BY <1>1, <2>1, SkipType DEF TypeOK, Reached
  <2>3. TypeOK' /\ LastPage' /\ NothingToMark' /\ InboxCleared'
    BY <1>1, <2>1 DEF TypeOK, LastPage, NothingToMark, InboxCleared, table
  <2>4. Ahead'
    BY <1>1, <2>1, <2>2 DEF Ahead, Walking, Shown, Stamped, Younger, table
  <2> QED BY <2>3, <2>4
<1>3. CASE ~more
  <2>1. page' = page /\ pc' = "end"
    BY <1>3 DEF NextPage
  <2>2. InboxCleared'
    BY <1>1, <1>3 DEF InboxCleared, LastPage, Shown, Stamped, table
  <2> QED BY <1>1, <2>1, <2>2
          DEF TypeOK, Ahead, Walking, LastPage, NothingToMark, table
<1> QED BY <1>2, <1>3

LEMMA GiveUpStep ==
    ASSUME IInv, GiveUp
    PROVE  IInv'
BY DEF IInv, GiveUp, TypeOK, Ahead, Walking, LastPage, NothingToMark,
       InboxCleared, table

-----------------------------------------------------------------------------
LEMMA InitInv == Init => IInv
<1> SUFFICES ASSUME Init PROVE IInv
  OBVIOUS
<1>1. TypeOK
  <2>1. now \in 1 .. MaxTime /\ 0 \in 0 .. MaxTime
    BY InboxAssumption DEF Init
  <2>2. createdAt \in [Notes -> 0 .. MaxTime]
    BY <2>1, Zenon DEF Init
  <2>3. /\ rows \subseteq {n \in Notes : createdAt[n] # 0}
        /\ isRead \subseteq rows /\ found \subseteq rows
        /\ unread \subseteq rows /\ aim \subseteq rows
    BY Zenon DEF Init
  <2>4. page \in Nat \ {0}
    BY DEF Init
  <2>5. more \in BOOLEAN /\ pc \in {"idle", "rows", "count", "mark", "end"}
    BY Zenon DEF Init
  <2> QED BY <2>1, <2>2, <2>3, <2>4, <2>5 DEF TypeOK
<1>2. Ahead /\ LastPage /\ NothingToMark /\ InboxCleared
  BY DEF Init, Ahead, Walking, LastPage, NothingToMark, InboxCleared
<1> QED BY <1>1, <1>2 DEF IInv

LEMMA NextInv == IInv /\ [Next]_vars => IInv'
<1> SUFFICES ASSUME IInv, [Next]_vars PROVE IInv'
  OBVIOUS
<1>1. CASE Tick
  <2>1. UNCHANGED <<rows, createdAt, isRead, unread, pc, page, more, aim>>
    BY <1>1 DEF Tick, walk
  <2>2. TypeOK'
    BY <1>1, InboxAssumption DEF IInv, TypeOK, Tick, walk
  <2>3. rows' \subseteq Notes /\ \A n \in aim : Stamped(n)' => Stamped(n)
    BY <2>1 DEF IInv, TypeOK, Stamped
  <2> QED BY <2>1, <2>2, <2>3, StandingStep DEF IInv
<1>2. CASE Walk
  BY <1>2, StartWalkStep, SelectPageStep, CountRowsStep, NextPageStep,
     GiveUpStep DEF Walk
<1>3. ASSUME NEW n \in Notes,
             \/ CreateNotification(n) \/ Commit(n)
             \/ FindNote(n) \/ SaveNote(n) \/ FailToSave(n)
      PROVE  IInv'
  BY <1>3, TableStep, MarkStep
<1>4. CASE UNCHANGED vars
  <2>1. TypeOK' /\ UNCHANGED <<rows, createdAt, isRead, unread, pc, page, more, aim>>
    BY <1>4 DEF IInv, TypeOK, vars, table, walk
  <2>2. rows' \subseteq Notes /\ \A n \in aim : Stamped(n)' => Stamped(n)
    BY <2>1 DEF IInv, TypeOK, Stamped
  <2> QED BY <2>1, <2>2, StandingStep DEF IInv
<1> QED BY <1>1, <1>2, <1>3, <1>4 DEF Next

LEMMA Invariance == Spec => []IInv
BY InitInv, NextInv, PTL DEF Spec

\* Every variable keeps its type; only stored notes are read or marked.
THEOREM TypeCorrect == Spec => []TypeOK
<1>1. IInv => TypeOK
  BY DEF IInv
<1> QED BY <1>1, Invariance, PTL

\* A walk to the end, with its pages marked, leaves no note unread that was
\* there at its first page and has a stamp of its own.
THEOREM WalkClearsInbox == Spec => []InboxCleared
<1>1. IInv => InboxCleared
  BY DEF IInv
<1> QED BY <1>1, Invariance, PTL
=============================================================================
