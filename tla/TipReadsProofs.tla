---------------------------- MODULE TipReadsProofs ----------------------------
(***************************************************************************)
(* Proofs about TipReads, for any number of clients and tips, any order of *)
(* the lists and any page size.                                            *)
(*                                                                         *)
(* First the walks over pages (IInv), then the figures (FInv).  Figures    *)
(* are sums over finite sets of tips; what is needed about such sums is    *)
(* proved from the definition of the fold, by an induction over the        *)
(* subsets of a finite set (SubsetInduction) that rests on the least       *)
(* number principle (LeastNatural).                                        *)
(***************************************************************************)
EXTENDS TipReads, FiniteSetTheorems, FunctionTheorems, WellFoundedInduction,
        TLAPS

\* A tip is in s past the first n places.
Past(t, s, n) == \E i \in DOMAIN s : i > n /\ s[i] = t

\* Of the tips a walk aims at, those not yet seen are still ahead.
AimAt(c) ==
    LET s == list[ask[c].creator]  size == ask[c].limit IN
    /\ pc[c] \in Walking =>
          \A t \in aim[c] : t \in got[c] \/ Past(t, s, (page[c] - 1) * size)
    /\ pc[c] = "count" =>
          \A t \in aim[c] : t \in got[c] \cup rows[c] \/ Past(t, s, page[c] * size)
    /\ pc[c] = "end" => aim[c] \subseteq got[c]
    /\ pc[c] \notin Walking \cup {"end"} => aim[c] = {}

\* The page a walk asks for is there, except perhaps the first.
PromisedAt(c) ==
    LET s == list[ask[c].creator]  size == ask[c].limit IN
    /\ pc[c] \in Walking /\ page[c] > 1 => (page[c] - 1) * size < Len(s)
    /\ pc[c] = "count" /\ page[c] > 1 => rows[c] # {}
    /\ pc[c] \notin Walking \cup {"end"} => page[c] = 1

IInv ==
    /\ TypeOK
    /\ \A c \in Clients : AimAt(c) /\ PromisedAt(c)

-----------------------------------------------------------------------------
(* Pages and places.                                                       *)

LEMMA Products ==
    ASSUME NEW m \in Nat, NEW n \in Nat, NEW size \in Nat, m <= n
    PROVE  m * size <= n * size
OBVIOUS

LEMMA Places ==
    ASSUME NEW n \in Nat \ {0}, NEW size \in Nat
    PROVE  /\ (n - 1) * size \in Nat
           /\ n * size \in Nat
           /\ n * size = (n - 1) * size + size
OBVIOUS

\* There is a page after the n-th exactly if n pages do not hold all rows.
LEMMA MorePages ==
    ASSUME NEW total \in Nat, NEW size \in Nat \ {0}, NEW n \in Nat
    PROVE  n < TotalPages(total, size) <=> n * size < total
<1> DEFINE q == TotalPages(total, size)
<1>1. /\ q \in Nat
      /\ q * size <= total + size - 1
      /\ total + size - 1 < q * size + size
  BY DEF TotalPages
<1> HIDE DEF q
<1>2. ASSUME n < q PROVE n * size < total
  <2>1. (n + 1) * size <= q * size
    BY <1>1, <1>2, Products
  <2> QED BY <1>1, <2>1
<1>3. ASSUME ~(n < q) PROVE ~(n * size < total)
  <2>1. q * size <= n * size
    BY <1>1, <1>3, Products
  <2> QED BY <1>1, <2>1
<1> QED BY <1>2, <1>3 DEF q

\* What a step of the table does to one list: rows only move back.
Grows(s, r) ==
    /\ r \in Seq(Tips)
    /\ Len(s) <= Len(r)
    /\ \A i \in DOMAIN s : \E j \in DOMAIN r : j >= i /\ r[j] = s[i]

InsertAt(s, t, i) == SubSeq(s, 1, i - 1) \o <<t>> \o SubSeq(s, i, Len(s))

LEMMA InsertPlaces ==
    ASSUME NEW s \in Seq(Tips), NEW t \in Tips, NEW i \in 1 .. Len(s) + 1
    PROVE  LET r == InsertAt(s, t, i) IN
           /\ r \in Seq(Tips) /\ Len(r) = Len(s) + 1
           /\ r[i] = t
           /\ \A k \in 1 .. i - 1 : r[k] = s[k]
           /\ \A k \in i + 1 .. Len(s) + 1 : r[k] = s[k - 1]
<1> DEFINE head == SubSeq(s, 1, i - 1)
           tail == SubSeq(s, i, Len(s))
           r == head \o <<t>> \o tail
<1>1. /\ head \in Seq(Tips) /\ Len(head) = i - 1
      /\ \A k \in 1 .. i - 1 : head[k] = s[k]
  OBVIOUS
<1>2. /\ tail \in Seq(Tips) /\ Len(tail) = Len(s) - i + 1
      /\ \A k \in 1 .. Len(s) - i + 1 : tail[k] = s[k + i - 1]
  OBVIOUS
<1> HIDE DEF head, tail
<1>3. /\ r \in Seq(Tips) /\ Len(r) = Len(s) + 1
      /\ \A k \in 1 .. i - 1 : r[k] = head[k]
      /\ \A k \in i + 1 .. Len(s) + 1 : r[k] = tail[k - i]
  BY <1>1, <1>2
<1>4. r[i] = t
  BY <1>1, <1>2
<1> HIDE DEF r
<1>5. ASSUME NEW k \in i + 1 .. Len(s) + 1 PROVE r[k] = s[k - 1]
  <2>1. k - i \in 1 .. Len(s) - i + 1 /\ (k - i) + i - 1 = k - 1
    OBVIOUS
  <2> QED BY <1>2, <1>3, <2>1
<1>6. \A k \in 1 .. i - 1 : r[k] = s[k]
  BY <1>1, <1>3
<1> QED BY <1>3, <1>4, <1>5, <1>6 DEF r, head, tail, InsertAt

LEMMA InsertGrows ==
    ASSUME NEW s \in Seq(Tips), NEW t \in Tips, NEW i \in 1 .. Len(s) + 1
    PROVE  Grows(s, InsertAt(s, t, i))
<1> DEFINE r == InsertAt(s, t, i)
<1>1. /\ r \in Seq(Tips) /\ Len(r) = Len(s) + 1
      /\ \A k \in 1 .. i - 1 : r[k] = s[k]
      /\ \A k \in i + 1 .. Len(s) + 1 : r[k] = s[k - 1]
  BY InsertPlaces
<1> HIDE DEF r
<1>2. ASSUME NEW k \in DOMAIN s
      PROVE  \E j \in DOMAIN r : j >= k /\ r[j] = s[k]
  <2>0. DOMAIN r = 1 .. Len(s) + 1 /\ k \in 1 .. Len(s)
    BY <1>1
  <2>1. CASE k < i
    <3>1. k \in 1 .. i - 1 /\ k \in DOMAIN r /\ k >= k
      BY <2>0, <2>1
    <3>2. r[k] = s[k]
      BY <1>1, <3>1
    <3> QED BY <3>1, <3>2
  <2>2. CASE k >= i
    <3>1. k + 1 \in i + 1 .. Len(s) + 1 /\ (k + 1) - 1 = k
      BY <2>0, <2>2
    <3>2. r[k + 1] = s[k] /\ k + 1 \in DOMAIN r /\ k + 1 >= k
      BY <1>1, <2>0, <3>1
    <3> QED BY <3>2
  <2> QED BY <2>1, <2>2
<1>3. Grows(s, r)
  BY <1>1, <1>2 DEF Grows
<1> QED BY <1>3 DEF r

LEMMA PastGrows ==
    ASSUME NEW s \in Seq(Tips), NEW r, Grows(s, r), NEW t, NEW n \in Nat,
           Past(t, s, n)
    PROVE  Past(t, r, n)
BY DEF Past, Grows

-----------------------------------------------------------------------------
LEMMA InitIInv == Init => IInv
BY DEF Init, IInv, TypeOK, AimAt, PromisedAt, Walking, Label

\* A step of the table leaves every client as it is, and lists only grow.
LEMMA TableIInv ==
    ASSUME IInv, Table
    PROVE  IInv'
<1> USE DEF IInv
<1>1. PICK t \in Tips :
         \/ \E i \in 1 .. Len(list[Receiver[t]]) + 1 : CreateTip(t, i)
         \/ ConfirmTip(t)
         \/ TakeBack(t)
  BY DEF Table
<1>2. Receiver[t] \in Creators
  BY ReadsAssumption
<1>3. /\ pc' = pc /\ ask' = ask /\ page' = page /\ rows' = rows
      /\ got' = got /\ aim' = aim /\ part' = part
  BY <1>1 DEF CreateTip, ConfirmTip, TakeBack, walk
<1>4. completed' \subseteq Tips
  BY <1>1 DEF CreateTip, ConfirmTip, TakeBack, TypeOK
<1>5. shift' \in [Clients -> SUBSET {"more", "less"}]
  <2>1. \A w \in Creators, way \in {"more", "less"} :
           Shift(w, way) => shift' \in [Clients -> SUBSET {"more", "less"}]
    BY DEF Shift, TypeOK
  <2>2. \/ UNCHANGED shift
        \/ Shift(Receiver[t], "more")
        \/ Shift(Receiver[t], "less")
    BY <1>1 DEF CreateTip, ConfirmTip, TakeBack
  <2> QED BY <1>2, <2>1, <2>2 DEF TypeOK
<1>6. list' \in [Creators -> Seq(Tips)] /\ \A w \in Creators : Grows(list[w], list'[w])
  <2>1. CASE list' = list
    BY <2>1 DEF TypeOK, Grows
  <2>2. ASSUME NEW i \in 1 .. Len(list[Receiver[t]]) + 1, CreateTip(t, i)
        PROVE  /\ list' \in [Creators -> Seq(Tips)]
               /\ \A w \in Creators : Grows(list[w], list'[w])
    <3> DEFINE s == list[Receiver[t]]
               r == InsertAt(s, t, i)
    <3>1. s \in Seq(Tips)
      BY <1>2 DEF TypeOK
    <3>2. Grows(s, r)
      BY <3>1, InsertGrows
    <3>3. list' = [list EXCEPT ![Receiver[t]] = r]
      BY <2>2 DEF CreateTip, InsertAt
    <3> HIDE DEF r
    <3>4. r \in Seq(Tips)
      BY <3>2 DEF Grows
    <3>5. \A w \in Creators \ {Receiver[t]} : Grows(list[w], list[w])
      BY DEF Grows, TypeOK
    <3>6. list' \in [Creators -> Seq(Tips)]
      BY <1>2, <3>3, <3>4 DEF TypeOK
    <3>7. list'[Receiver[t]] = r
          /\ \A w \in Creators \ {Receiver[t]} : list'[w] = list[w]
      BY <1>2, <3>3 DEF TypeOK
    <3>8. ASSUME NEW w \in Creators PROVE Grows(list[w], list'[w])
      <4>1. CASE w = Receiver[t]
        BY <3>2, <3>7, <4>1 DEF Grows
      <4>2. CASE w # Receiver[t]
        BY <3>5, <3>7, <4>2 DEF Grows
      <4> QED BY <4>1, <4>2
    <3> QED BY <3>6, <3>8
  <2>3. CASE ConfirmTip(t) \/ TakeBack(t)
    BY <2>1, <2>3 DEF ConfirmTip, TakeBack
  <2> QED BY <1>1, <2>2, <2>3
<1>7. TypeOK'
  BY <1>3, <1>4, <1>5, <1>6 DEF TypeOK, Request
<1>8. ASSUME NEW c \in Clients PROVE AimAt(c)' /\ PromisedAt(c)'
  <2>1. AimAt(c) /\ PromisedAt(c)
    OBVIOUS
  <2>2. CASE pc[c] \notin Walking
    BY <1>3, <2>1, <2>2 DEF AimAt, PromisedAt, Walking
  <2>3. CASE pc[c] \in Walking
    <3> DEFINE s == list[ask[c].creator]  size == ask[c].limit
               r == list'[ask[c].creator]  n == page[c]
    <3>1. /\ ask[c].creator \in Creators /\ size \in Nat /\ n \in Nat \ {0}
          /\ s \in Seq(Tips)
      BY <2>3, ReadsAssumption DEF TypeOK, Request, Walking
    <3>2. Grows(s, r) /\ Len(s) <= Len(r) /\ Len(r) \in Nat /\ Len(s) \in Nat
      BY <1>6, <3>1 DEF Grows
    <3>3. (n - 1) * size \in Nat /\ n * size \in Nat
      BY <3>1, Places
    <3>4. /\ \A x : Past(x, s, (n - 1) * size) => Past(x, r, (n - 1) * size)
          /\ \A x : Past(x, s, n * size) => Past(x, r, n * size)
      <4> HIDE DEF s, r, size, n
      <4> QED BY <3>1, <3>2, <3>3, PastGrows
    <3>5. AimAt(c)'
      BY <1>3, <2>1, <2>3, <3>4 DEF AimAt, Past, Walking
    <3>6. PromisedAt(c)'
      <4>1. (n - 1) * size < Len(s) => (n - 1) * size < Len(r)
        BY <3>2, <3>3
      <4> QED BY <1>3, <2>1, <2>3, <4>1 DEF PromisedAt, Walking
    <3> QED BY <3>5, <3>6
  <2> QED BY <2>2, <2>3
<1> QED BY <1>7, <1>8

-----------------------------------------------------------------------------
\* A step of c that leaves the table alone leaves the other clients alone.
LEMMA ServeIInv ==
    ASSUME IInv, NEW c \in Clients, TypeOK', list' = list,
           AimAt(c)', PromisedAt(c)',
           \A d \in Clients \ {c} :
              /\ pc'[d] = pc[d] /\ ask'[d] = ask[d] /\ page'[d] = page[d]
              /\ rows'[d] = rows[d] /\ got'[d] = got[d] /\ aim'[d] = aim[d]
    PROVE  IInv'
<1> SUFFICES ASSUME NEW d \in Clients, d # c
             PROVE  AimAt(d)' /\ PromisedAt(d)'
  BY DEF IInv
<1>1. AimAt(d) /\ PromisedAt(d)
  BY DEF IInv
<1>2. AimAt(d)'
  BY <1>1 DEF AimAt, Past
<1>3. PromisedAt(d)'
  BY <1>1 DEF PromisedAt
<1> QED BY <1>2, <1>3

LEMMA StartWalkIInv ==
    ASSUME IInv, NEW c \in Clients, NEW w \in Creators, NEW n \in Limits,
           StartWalk(c, w, n)
    PROVE  IInv'
<1> DEFINE size == IF n = 0 THEN Default ELSE n
<1> USE DEF IInv, StartWalk, Start, Goto, figures, table
<1>1. TypeOK'
  <2>1. [creator |-> w, limit |-> size, asset |-> Null] \in Request
    BY ReadsAssumption DEF Request
  <2>2. Range(list[w]) \subseteq Tips
    BY DEF TypeOK, Range
  <2> QED BY <2>1, <2>2 DEF TypeOK, Label
<1>2. /\ pc[c] = "idle" /\ pc'[c] = "rows" /\ page'[c] = page[c]
      /\ ask'[c].creator = w /\ ask'[c].limit = size /\ size \in Nat
      /\ aim'[c] = Range(list[w])
  BY ReadsAssumption DEF TypeOK
<1>3. page[c] = 1
  BY <1>2 DEF PromisedAt, Walking
<1>4. AimAt(c)'
  <2>1. (1 - 1) * size = 0
    BY <1>2
  <2>2. \A t \in aim'[c] : Past(t, list[w], 0)
    BY <1>2 DEF Past, Range, TypeOK
  <2> QED BY <1>2, <1>3, <2>1, <2>2 DEF AimAt, Walking, Past
<1>5. PromisedAt(c)'
  BY <1>2, <1>3 DEF PromisedAt, Walking
<1>6. \A d \in Clients \ {c} :
         /\ pc'[d] = pc[d] /\ ask'[d] = ask[d] /\ page'[d] = page[d]
         /\ rows'[d] = rows[d] /\ got'[d] = got[d] /\ aim'[d] = aim[d]
  BY DEF TypeOK
<1> QED BY <1>1, <1>4, <1>5, <1>6, ServeIInv

LEMMA SelectPageIInv ==
    ASSUME IInv, NEW c \in Clients, SelectPage(c)
    PROVE  IInv'
<1> DEFINE s == list[ask[c].creator]  size == ask[c].limit  n == page[c]
           R == {s[i] : i \in DOMAIN s \cap
                               (Skip(n, size) + 1 .. Skip(n, size) + size)}
<1> USE DEF IInv, SelectPage, Goto, figures, table
<1>1. /\ s \in Seq(Tips) /\ size \in Nat \ {0} /\ n \in Nat \ {0}
      /\ pc[c] = "rows" /\ AimAt(c) /\ PromisedAt(c)
  BY ReadsAssumption DEF TypeOK, Request
<1>2. /\ pc'[c] = "count" /\ page'[c] = n /\ ask'[c] = ask[c]
      /\ list' = list /\ rows'[c] = R /\ aim'[c] = aim[c] /\ got'[c] = got[c]
  BY DEF TypeOK
<1>3. TypeOK'
  <2>1. R \subseteq Tips
    BY <1>1
  <2> HIDE DEF R
  <2>2. rows' = [rows EXCEPT ![c] = R]
    BY DEF R
  <2> QED BY <2>1, <2>2 DEF TypeOK, Label
<1>4. /\ Skip(n, size) \in Nat
      /\ (n - 1) * size = Skip(n, size)
      /\ n * size = Skip(n, size) + size
  BY <1>1, Places DEF Skip
<1>5. \A t \in aim[c] : t \in got[c] \/ Past(t, s, Skip(n, size))
  BY <1>1, <1>4 DEF AimAt, Walking
<1>6. n > 1 => Skip(n, size) < Len(s)
  BY <1>1, <1>4 DEF PromisedAt, Walking
<1> HIDE DEF s, size, n
<1>7. \A t \in aim[c] : t \in got[c] \cup R \/ Past(t, s, Skip(n, size) + size)
  BY <1>1, <1>4, <1>5 DEF Past
<1>8. n > 1 => R # {}
  <2> SUFFICES ASSUME n > 1 PROVE s[Skip(n, size) + 1] \in R
    OBVIOUS
  <2> QED BY <1>1, <1>4, <1>6
<1> HIDE DEF R
<1>9. AimAt(c)'
  BY <1>2, <1>4, <1>5, <1>7 DEF AimAt, Walking, Past, s, size, n
<1>10. PromisedAt(c)'
  BY <1>2, <1>4, <1>6, <1>8 DEF PromisedAt, Walking, s, size, n
<1>11. \A d \in Clients \ {c} :
         /\ pc'[d] = pc[d] /\ ask'[d] = ask[d] /\ page'[d] = page[d]
         /\ rows'[d] = rows[d] /\ got'[d] = got[d] /\ aim'[d] = aim[d]
  BY DEF TypeOK
<1> QED BY <1>2, <1>3, <1>9, <1>10, <1>11, ServeIInv

LEMMA CountRowsIInv ==
    ASSUME IInv, NEW c \in Clients, CountRows(c)
    PROVE  IInv'
<1> DEFINE s == list[ask[c].creator]  size == ask[c].limit  n == page[c]
<1> USE DEF IInv, CountRows, Goto, figures, table
<1>1. /\ s \in Seq(Tips) /\ size \in Nat \ {0} /\ n \in Nat \ {0}
      /\ pc[c] = "count" /\ AimAt(c)
  BY ReadsAssumption DEF TypeOK, Request
<1>2. /\ ask'[c] = ask[c] /\ list' = list /\ rows'[c] = {}
      /\ aim'[c] = aim[c] /\ got'[c] = got[c] \cup rows[c]
  BY DEF TypeOK
<1>3. \A t \in aim[c] : t \in got'[c] \/ Past(t, s, n * size)
  BY <1>1, <1>2 DEF AimAt
<1>4. \A d \in Clients \ {c} :
         /\ pc'[d] = pc[d] /\ ask'[d] = ask[d] /\ page'[d] = page[d]
         /\ rows'[d] = rows[d] /\ got'[d] = got[d] /\ aim'[d] = aim[d]
  BY DEF TypeOK
<1>5. n < TotalPages(Len(s), size) <=> n * size < Len(s)
  BY <1>1, MorePages
<1>6. CASE n < TotalPages(Len(s), size)
  <2>1. /\ pc' = [pc EXCEPT ![c] = "rows"] /\ page' = [page EXCEPT ![c] = @ + 1]
        /\ pc'[c] = "rows" /\ page'[c] - 1 = n
    BY <1>1, <1>6 DEF TypeOK
  <2>2. TypeOK'
    BY <1>1, <2>1 DEF TypeOK, Label
  <2> HIDE DEF IInv, CountRows, Goto, figures, table
  <2>3. AimAt(c)'
    BY <1>2, <1>3, <2>1 DEF AimAt, Past, Walking
  <2>4. PromisedAt(c)'
    BY <1>2, <1>5, <1>6, <2>1 DEF PromisedAt, Walking
  <2> QED BY <1>2, <1>4, <2>2, <2>3, <2>4, ServeIInv
<1>7. CASE ~(n < TotalPages(Len(s), size))
  <2>1. /\ pc' = [pc EXCEPT ![c] = "end"] /\ page' = page /\ pc'[c] = "end"
    BY <1>7 DEF TypeOK
  <2>2. TypeOK'
    BY <2>1 DEF TypeOK, Label
  <2>3. n * size \in Nat /\ Len(s) \in Nat /\ ~(n * size < Len(s))
    BY <1>1, <1>5, <1>7, Places
  <2>4. \A t : ~Past(t, s, n * size)
    <3> HIDE DEF s, n, size
    <3> QED BY <1>1, <2>3 DEF Past
  <2>5. AimAt(c)'
    BY <1>2, <1>3, <2>1, <2>4 DEF AimAt, Walking
  <2>6. PromisedAt(c)'
    BY <2>1 DEF PromisedAt, Walking
  <2> QED BY <1>2, <1>4, <2>2, <2>5, <2>6, ServeIInv
<1> QED BY <1>6, <1>7

LEMMA AskAgainIInv ==
    ASSUME IInv, NEW c \in Clients, AskAgain(c)
    PROVE  IInv'
<1> USE DEF IInv, AskAgain, Goto, figures, table
<1>1. TypeOK'
  BY DEF TypeOK, Label
<1>2. /\ pc[c] = "count" /\ pc'[c] = "rows" /\ list' = list
      /\ ask'[c] = ask[c] /\ page'[c] = page[c] /\ aim'[c] = aim[c]
      /\ got'[c] = got[c] /\ AimAt(c) /\ PromisedAt(c)
  BY DEF TypeOK
<1> HIDE DEF IInv, AskAgain, Goto, figures, table
<1>3. AimAt(c)'
  BY <1>2 DEF AimAt, Past, Walking
<1>4. PromisedAt(c)'
  BY <1>2 DEF PromisedAt, Walking
<1>5. \A d \in Clients \ {c} :
         /\ pc'[d] = pc[d] /\ ask'[d] = ask[d] /\ page'[d] = page[d]
         /\ rows'[d] = rows[d] /\ got'[d] = got[d] /\ aim'[d] = aim[d]
  BY DEF IInv, AskAgain, Goto, figures, TypeOK
<1> QED BY <1>1, <1>2, <1>3, <1>4, <1>5, ServeIInv

\* A request for figures touches no walk.
LEMMA FiguresIInv ==
    ASSUME IInv, NEW c \in Clients, UNCHANGED <<table, ask, walk>>,
           pc[c] \in Analysing \cup Showing,
           NEW label \in Analysing \cup Showing \cup {"end"},
           Goto(c, label), DOMAIN part' = Clients, UNCHANGED shift
    PROVE  IInv'
<1> USE DEF IInv, Goto, table, walk, Analysing, Showing, Walking
<1>1. TypeOK'
  BY DEF TypeOK, Label
<1>2. AimAt(c)'
  BY DEF TypeOK, AimAt
<1>3. PromisedAt(c)'
  BY DEF TypeOK, PromisedAt
<1>4. \A d \in Clients \ {c} :
         /\ pc'[d] = pc[d] /\ ask'[d] = ask[d] /\ page'[d] = page[d]
         /\ rows'[d] = rows[d] /\ got'[d] = got[d] /\ aim'[d] = aim[d]
  BY DEF TypeOK
<1> QED BY <1>1, <1>2, <1>3, <1>4, ServeIInv

LEMMA GetFiguresIInv ==
    ASSUME IInv, NEW c \in Clients, NEW w \in Creators,
           \/ \E a \in Assets \cup {Null} : GetAnalytics(c, w, a)
           \/ GetTippingInfo(c, w)
    PROVE  IInv'
<1> USE DEF IInv, GetAnalytics, GetTippingInfo, Start, Goto, table, walk,
            figures, Walking
<1>1. PICK label \in {"summary", "stats"}, a \in Assets \cup {Null} :
         /\ pc[c] = "idle" /\ pc' = [pc EXCEPT ![c] = label]
         /\ ask' = [ask EXCEPT ![c] = [creator |-> w, limit |-> 1, asset |-> a]]
         /\ UNCHANGED <<table, walk, figures>>
  OBVIOUS
<1>2. [creator |-> w, limit |-> 1, asset |-> a] \in Request
  BY ReadsAssumption DEF Request
<1>3. TypeOK'
  BY <1>1, <1>2 DEF TypeOK, Label
<1>4. AimAt(c)'
  BY <1>1 DEF TypeOK, AimAt
<1>5. PromisedAt(c)'
  BY <1>1 DEF TypeOK, PromisedAt
<1>6. \A d \in Clients \ {c} :
         /\ pc'[d] = pc[d] /\ ask'[d] = ask[d] /\ page'[d] = page[d]
         /\ rows'[d] = rows[d] /\ got'[d] = got[d] /\ aim'[d] = aim[d]
  BY <1>1 DEF TypeOK
<1> QED BY <1>1, <1>3, <1>4, <1>5, <1>6, ServeIInv

LEMMA LeaveIInv ==
    ASSUME IInv, NEW c \in Clients, Leave(c)
    PROVE  IInv'
<1> USE DEF IInv, Leave, Goto, table
<1>1. TypeOK'
  BY DEF TypeOK, Label
<1>2. AimAt(c)' /\ PromisedAt(c)'
  BY DEF TypeOK, AimAt, PromisedAt, Walking
<1>3. \A d \in Clients \ {c} :
         /\ pc'[d] = pc[d] /\ ask'[d] = ask[d] /\ page'[d] = page[d]
         /\ rows'[d] = rows[d] /\ got'[d] = got[d] /\ aim'[d] = aim[d]
  BY DEF TypeOK
<1> QED BY <1>1, <1>2, <1>3, ServeIInv

LEMMA NextIInv == IInv /\ [Next]_vars => IInv'
<1> SUFFICES ASSUME IInv, [Next]_vars PROVE IInv'
  OBVIOUS
<1>1. CASE Table
  BY <1>1, TableIInv
<1>2. ASSUME NEW c \in Clients, Serve(c) PROVE IInv'
  <2>1. CASE \/ Summary(c) \/ ByAsset(c) \/ TimeSeries(c) \/ TopSupporters(c)
             \/ TippingStats(c) \/ TopSupporter(c) \/ RecentTips(c)
    <3>1. DOMAIN part = Clients
      BY DEF IInv, TypeOK
    <3>2. /\ UNCHANGED <<table, ask, walk>>
          /\ pc[c] \in Analysing \cup Showing
          /\ UNCHANGED shift
      BY <2>1 DEF Summary, ByAsset, TimeSeries, TopSupporters, TippingStats,
                  TopSupporter, RecentTips, Analysing, Showing
    <3>3. DOMAIN part' = Clients
      BY <2>1, <3>1 DEF Summary, ByAsset, TimeSeries, TopSupporters,
                  TippingStats, TopSupporter, RecentTips, Give
    <3>4. PICK label \in Analysing \cup Showing \cup {"end"} : Goto(c, label)
      BY <2>1 DEF Summary, ByAsset, TimeSeries, TopSupporters, TippingStats,
                  TopSupporter, RecentTips, Analysing, Showing
    <3> QED BY <3>2, <3>3, <3>4, FiguresIInv
  <2> QED BY <1>2, <2>1, StartWalkIInv, SelectPageIInv, CountRowsIInv,
             AskAgainIInv, GetFiguresIInv, LeaveIInv DEF Serve
<1>3. CASE UNCHANGED vars
  <2>1. /\ UNCHANGED <<list, completed, pc, ask, page, rows, got, aim>>
        /\ UNCHANGED <<part, shift>>
    BY <1>3 DEF vars, table, walk, figures
  <2>2. TypeOK'
    BY <2>1 DEF IInv, TypeOK, Request
  <2>3. ASSUME NEW c \in Clients PROVE AimAt(c)' /\ PromisedAt(c)'
    BY <2>1 DEF IInv, AimAt, PromisedAt, Past
  <2> QED BY <2>2, <2>3 DEF IInv
<1> QED BY <1>1, <1>2, <1>3 DEF Next

LEMMA SpecIInv == Spec => []IInv
BY InitIInv, NextIInv, PTL DEF Spec

\* Every variable keeps its type; in particular no page is ever smaller than
\* one row or larger than the largest allowed.
THEOREM TypeCorrect == Spec => []TypeOK
<1>1. IInv => TypeOK
  BY DEF IInv
<1> QED BY <1>1, SpecIInv, PTL

\* A walk along hasNextPage misses no tip that was there when it began,
\* wherever others are inserted meanwhile.
THEOREM WalksMissNothing == Spec => []WalkSeesAll
<1>1. IInv => WalkSeesAll
  BY DEF IInv, AimAt, WalkSeesAll
<1> QED BY <1>1, SpecIInv, PTL

\* A page announced by hasNextPage has rows when it is asked for.
THEOREM NoPromisedPageIsEmpty == Spec => []PromisedPageHasRows
<1>1. IInv => PromisedPageHasRows
  BY DEF IInv, PromisedAt, PromisedPageHasRows
<1> QED BY <1>1, SpecIInv, PTL

-----------------------------------------------------------------------------
(* Sums.                                                                   *)

\* Every nonempty set of naturals has a least element.
LEMMA LeastNatural ==
    ASSUME NEW S \in SUBSET Nat, S # {}
    PROVE  \E m \in S : \A n \in S : m <= n
<1> DEFINE R == OpToRel(<, Nat)
<1>1. IsWellFoundedOn(R, Nat)
  BY NatLessThanWellFounded
<1>2. \A m, n \in Nat : n < m => <<n, m>> \in R
  BY DEF OpToRel
<1> HIDE DEF R
<1>3. PICK m \in S : \A n \in S : ~ (<<n, m>> \in R)
  BY <1>1, WFMin, Zenon
<1>4. \A n \in S : ~ (n < m)
  BY <1>2, <1>3, Zenon
<1>5. m \in Nat /\ \A n \in S : n \in Nat
  OBVIOUS
<1> QED BY <1>4, <1>5

\* Induction over the subsets of a finite set, for a property given as the
\* set P of those that have it.
LEMMA SubsetInduction ==
    ASSUME NEW S, IsFiniteSet(S), NEW P,
           \A T \in SUBSET S :
              (\A U \in SUBSET T : U # T => U \in P) => T \in P
    PROVE  \A T \in SUBSET S : T \in P
<1> DEFINE Size(n) == \E T \in SUBSET S : T \notin P /\ Cardinality(T) = n
           N == {n \in Nat : Size(n)}
<1>1. SUFFICES N = {}
  BY FS_Subset, FS_CardinalityType
<1>2. SUFFICES ASSUME N # {} PROVE FALSE
  OBVIOUS
<1>3. PICK m \in N : \A n \in N : m <= n
  BY <1>2, LeastNatural
<1>4. PICK T \in SUBSET S : T \notin P /\ Cardinality(T) = m
  BY <1>3
<1>5. ASSUME NEW U \in SUBSET T, U # T PROVE U \in P
  <2>1. /\ IsFiniteSet(T) /\ IsFiniteSet(U)
        /\ Cardinality(U) <= Cardinality(T) /\ Cardinality(U) # Cardinality(T)
    BY <1>4, <1>5, FS_Subset
  <2>2. Cardinality(U) \in Nat /\ m \in Nat /\ ~(m <= Cardinality(U))
    BY <1>3, <1>4, <2>1, FS_CardinalityType
  <2>3. Cardinality(U) \notin N
    BY <1>3, <2>2
  <2> QED BY <1>4, <1>5, <2>2, <2>3
<1> QED BY <1>4, <1>5

\* The function by which the community modules define a sum: an element is
\* chosen, and added to the sum of the rest.
Pick(s) == CHOOSE x \in s : TRUE

AddUp(f, g, s) == IF s = {} THEN 0 ELSE f[Pick(s)] + g[s \ {Pick(s)}]

SumsUp(f, S, g) == g = [s \in SUBSET S |-> AddUp(f, g, s)]



LEMMA Picked ==
    ASSUME NEW s, s # {}
    PROVE  Pick(s) \in s
BY DEF Pick

LEMMA SumUnfolds ==
    ASSUME NEW f, NEW S
    PROVE  SumFunctionOnSet(f, S) = (CHOOSE g : SumsUp(f, S, g))[S]
BY DEF SumFunctionOnSet, FoldFunctionOnSet, MapThenFoldSet, SumsUp, AddUp, Pick

\* Two such functions agree where both are defined.
LEMMA SumsUpUnique ==
    ASSUME NEW S, IsFiniteSet(S), NEW T \in SUBSET S, NEW f, NEW g, NEW h,
           SumsUp(f, S, g), SumsUp(f, T, h)
    PROVE  g[T] = h[T]
<1> DEFINE P == {s \in SUBSET T : g[s] = h[s]}
<1>1. IsFiniteSet(T)
  BY FS_Subset
<1>2. \A s \in SUBSET T : g[s] = AddUp(f, g, s) /\ h[s] = AddUp(f, h, s)
  BY DEF SumsUp
<1>3. ASSUME NEW s \in SUBSET T, \A u \in SUBSET s : u # s => u \in P
      PROVE  s \in P
  <2>1. CASE s = {}
    BY <1>2, <2>1 DEF AddUp
  <2>2. CASE s # {}
    <3>1. s \ {Pick(s)} \in P
      BY <1>3, <2>2, Picked
    <3> QED BY <1>2, <2>2, <3>1 DEF AddUp
  <2> QED BY <2>1, <2>2
<1> HIDE DEF P
<1>4. T \in P
  BY <1>1, <1>3, SubsetInduction
<1> QED BY <1>4 DEF P

\* There is such a function for every finite set.
LEMMA SumsUpExists ==
    ASSUME NEW S, IsFiniteSet(S), NEW f
    PROVE  \E g : SumsUp(f, S, g)
<1> DEFINE P == {T \in SUBSET S : \E g : SumsUp(f, T, g)}
<1>1. ASSUME NEW T \in SUBSET S, \A U \in SUBSET T : U # T => U \in P
      PROVE  T \in P
  <2> DEFINE Value(s) == (CHOOSE g : SumsUp(f, s, g))[s]
             Step(s) == IF s = {} THEN 0 ELSE f[Pick(s)] + Value(s \ {Pick(s)})
             g == [s \in SUBSET T |-> Step(s)]
  <2>1. ASSUME NEW s \in SUBSET T, s # T PROVE Step(s) = Value(s)
    <3>1. PICK h : h = (CHOOSE i : SumsUp(f, s, i)) /\ SumsUp(f, s, h)
      BY <1>1, <2>1
    <3>2. Value(s) = AddUp(f, h, s)
      BY <3>1 DEF SumsUp
    <3>3. CASE s = {}
      BY <3>2, <3>3 DEF AddUp
    <3>4. CASE s # {}
      <4> DEFINE u == s \ {Pick(s)}
      <4>1. u \in SUBSET T /\ u # T /\ u \in SUBSET s
        BY <2>1
      <4>2. PICK i : i = (CHOOSE j : SumsUp(f, u, j)) /\ SumsUp(f, u, i)
        BY <1>1, <4>1
      <4>3. IsFiniteSet(s)
        BY FS_Subset
      <4>4. h[u] = i[u]
        BY <3>1, <4>1, <4>2, <4>3, SumsUpUnique
      <4> QED BY <3>2, <3>4, <4>2, <4>4 DEF AddUp
    <3> QED BY <3>3, <3>4
  <2> HIDE DEF Value
  <2>2. ASSUME NEW s \in SUBSET T PROVE g[s] = AddUp(f, g, s)
    <3>1. CASE s = {}
      BY <3>1 DEF AddUp
    <3>2. CASE s # {}
      <4> DEFINE u == s \ {Pick(s)}
      <4>1. u \in SUBSET T /\ u # T
        BY <3>2, Picked
      <4>2. g[u] = Value(u)
        BY <2>1, <4>1
      <4> QED BY <3>2, <4>2 DEF AddUp
    <3> QED BY <3>1, <3>2
  <2>3. SumsUp(f, T, g)
    BY <2>2 DEF SumsUp
  <2> QED BY <2>3
<1> HIDE DEF P
<1>2. S \in P
  BY <1>1, SubsetInduction
<1> QED BY <1>2 DEF P

\* The sum of nothing, and of something.
LEMMA SumDef ==
    ASSUME NEW S, IsFiniteSet(S), NEW f
    PROVE  SumFunctionOnSet(f, S) =
              IF S = {} THEN 0
              ELSE f[Pick(S)] + SumFunctionOnSet(f, S \ {Pick(S)})
<1> DEFINE u == S \ {Pick(S)}
<1>1. PICK g : g = (CHOOSE i : SumsUp(f, S, i)) /\ SumsUp(f, S, g)
  BY SumsUpExists
<1>2. IsFiniteSet(u)
  BY FS_Subset
<1>3. PICK h : h = (CHOOSE i : SumsUp(f, u, i)) /\ SumsUp(f, u, h)
  BY <1>2, SumsUpExists
<1>4. g[u] = h[u]
  BY <1>1, <1>3, SumsUpUnique
<1>5. SumFunctionOnSet(f, S) = g[S] /\ SumFunctionOnSet(f, u) = h[u]
  BY <1>1, <1>3, SumUnfolds
<1>6. g[S] = AddUp(f, g, S)
  BY <1>1 DEF SumsUp
<1> QED BY <1>4, <1>5, <1>6 DEF AddUp

LEMMA SumNat ==
    ASSUME NEW S, IsFiniteSet(S), NEW f, \A x \in S : f[x] \in Nat
    PROVE  SumFunctionOnSet(f, S) \in Nat
<1> DEFINE P == {T \in SUBSET S : SumFunctionOnSet(f, T) \in Nat}
<1>1. ASSUME NEW T \in SUBSET S, \A U \in SUBSET T : U # T => U \in P
      PROVE  T \in P
  <2>1. IsFiniteSet(T)
    BY FS_Subset
  <2>2. CASE T = {}
    <3>1. SumFunctionOnSet(f, T) = 0
      BY <2>1, <2>2, SumDef
    <3> QED BY <3>1
  <2>3. CASE T # {}
    <3>1. Pick(T) \in T /\ f[Pick(T)] \in Nat
      BY <2>3, Picked
    <3>2. SumFunctionOnSet(f, T \ {Pick(T)}) \in Nat
      BY <1>1, <3>1
    <3>3. SumFunctionOnSet(f, T) = f[Pick(T)] + SumFunctionOnSet(f, T \ {Pick(T)})
      BY <2>1, <2>3, SumDef
    <3> QED BY <3>1, <3>2, <3>3
  <2> QED BY <2>2, <2>3
<1> HIDE DEF P
<1>2. S \in P
  BY <1>1, SubsetInduction
<1> QED BY <1>2 DEF P

\* Any element may be added last.
LEMMA SumRemove ==
    ASSUME NEW S, IsFiniteSet(S), NEW f, \A x \in S : f[x] \in Nat,
           NEW x \in S
    PROVE  SumFunctionOnSet(f, S) = f[x] + SumFunctionOnSet(f, S \ {x})
<1> DEFINE Sum(T) == SumFunctionOnSet(f, T)
           P == {T \in SUBSET S : \A y \in T : Sum(T) = f[y] + Sum(T \ {y})}
<1>1. \A T \in SUBSET S : IsFiniteSet(T) /\ Sum(T) \in Nat
  BY FS_Subset, SumNat
<1>2. \A T \in SUBSET S :
         T # {} => /\ Pick(T) \in T
                   /\ Sum(T) = f[Pick(T)] + Sum(T \ {Pick(T)})
  BY <1>1, SumDef, Picked
<1> HIDE DEF Sum
<1>3. ASSUME NEW T \in SUBSET S, \A U \in SUBSET T : U # T => U \in P,
             NEW y \in T
      PROVE  Sum(T) = f[y] + Sum(T \ {y})
  <2> DEFINE p == Pick(T)
  <2>1. p \in T /\ Sum(T) = f[p] + Sum(T \ {p})
    BY <1>2
  <2> HIDE DEF p
  <2>2. CASE p = y
    BY <2>1, <2>2
  <2>3. CASE p # y
    <3>1. T \ {p} \in P /\ T \ {y} \in P
      BY <1>3, <2>1
    <3>2. Sum(T \ {p}) = f[y] + Sum((T \ {p}) \ {y})
      BY <2>3, <3>1
    <3>3. Sum(T \ {y}) = f[p] + Sum((T \ {y}) \ {p})
      BY <2>1, <2>3, <3>1
    <3>4. (T \ {p}) \ {y} = (T \ {y}) \ {p}
      OBVIOUS
    <3>5. f[p] \in Nat /\ f[y] \in Nat /\ Sum((T \ {y}) \ {p}) \in Nat
      BY <1>1, <2>1
    <3> QED BY <2>1, <3>2, <3>3, <3>4, <3>5
  <2> QED BY <2>2, <2>3
<1>4. \A T \in SUBSET S : (\A U \in SUBSET T : U # T => U \in P) => T \in P
  BY <1>3
<1> HIDE DEF P
<1>5. S \in P
  BY <1>4, SubsetInduction
<1> QED BY <1>5 DEF P, Sum

\* A set of two parts adds up to the sums of the parts.
LEMMA SumUnion ==
    ASSUME NEW S, IsFiniteSet(S), NEW f, \A x \in S : f[x] \in Nat,
           NEW T \in SUBSET S, NEW U \in SUBSET S, T \cap U = {}
    PROVE  SumFunctionOnSet(f, T \cup U)
              = SumFunctionOnSet(f, T) + SumFunctionOnSet(f, U)
<1> DEFINE Sum(V) == SumFunctionOnSet(f, V)
           P == {V \in SUBSET U : Sum(T \cup V) = Sum(T) + Sum(V)}
<1>1. \A V \in SUBSET S : IsFiniteSet(V) /\ Sum(V) \in Nat
  BY FS_Subset, SumNat
<1>2. \A V \in SUBSET S, x \in S : x \in V => Sum(V) = f[x] + Sum(V \ {x})
  BY <1>1, SumRemove
<1>3. Sum({}) = 0
  BY FS_EmptySet, SumDef
<1> HIDE DEF Sum
<1>4. ASSUME NEW V \in SUBSET U, \A W \in SUBSET V : W # V => W \in P
      PROVE  Sum(T \cup V) = Sum(T) + Sum(V)
  <2>1. CASE V = {}
    BY <1>1, <1>3, <2>1
  <2>2. CASE V # {}
    <3>1. PICK x \in V : x \in S /\ x \notin T
      BY <2>2
    <3>2. Sum(V) = f[x] + Sum(V \ {x})
      BY <1>2, <3>1
    <3>3. T \cup V \in SUBSET S /\ (T \cup V) \ {x} = T \cup (V \ {x})
      BY <3>1
    <3>4. Sum(T \cup V) = f[x] + Sum(T \cup (V \ {x}))
      BY <1>2, <3>1, <3>3
    <3>5. Sum(T \cup (V \ {x})) = Sum(T) + Sum(V \ {x})
      BY <1>4, <3>1
    <3>6. f[x] \in Nat /\ Sum(T) \in Nat /\ Sum(V \ {x}) \in Nat
      BY <1>1, <3>1
    <3> QED BY <3>2, <3>4, <3>5, <3>6
  <2> QED BY <2>1, <2>2
<1>5. \A V \in SUBSET U : (\A W \in SUBSET V : W # V => W \in P) => V \in P
  BY <1>4
<1>6. IsFiniteSet(U)
  BY <1>1
<1> HIDE DEF P
<1>7. U \in P
  BY <1>5, <1>6, SubsetInduction
<1> QED BY <1>7 DEF P, Sum

\* A part adds up to no more than the whole.
LEMMA SumMonotonic ==
    ASSUME NEW S, IsFiniteSet(S), NEW f, \A x \in S : f[x] \in Nat,
           NEW T \in SUBSET S
    PROVE  SumFunctionOnSet(f, T) <= SumFunctionOnSet(f, S)
<1>1. T \cup (S \ T) = S /\ T \cap (S \ T) = {}
  OBVIOUS
<1>2. SumFunctionOnSet(f, S)
         = SumFunctionOnSet(f, T) + SumFunctionOnSet(f, S \ T)
  BY <1>1, SumUnion
<1>3. /\ SumFunctionOnSet(f, T) \in Nat
      /\ SumFunctionOnSet(f, S \ T) \in Nat
  BY FS_Subset, SumNat
<1> QED BY <1>2, <1>3

\* Counting is adding up ones.
LEMMA SumCounts ==
    ASSUME NEW S, IsFiniteSet(S), NEW f, \A x \in S : f[x] = 1
    PROVE  SumFunctionOnSet(f, S) = Cardinality(S)
<1> DEFINE P == {T \in SUBSET S : SumFunctionOnSet(f, T) = Cardinality(T)}
<1>1. ASSUME NEW T \in SUBSET S, \A U \in SUBSET T : U # T => U \in P
      PROVE  T \in P
  <2>1. IsFiniteSet(T)
    BY FS_Subset
  <2>2. CASE T = {}
    BY <2>1, <2>2, SumDef, FS_EmptySet
  <2>3. CASE T # {}
    <3>1. Pick(T) \in T /\ f[Pick(T)] = 1
      BY <2>3, Picked
    <3>2. SumFunctionOnSet(f, T \ {Pick(T)}) = Cardinality(T \ {Pick(T)})
      BY <1>1, <3>1
    <3>3. SumFunctionOnSet(f, T) = f[Pick(T)] + SumFunctionOnSet(f, T \ {Pick(T)})
      BY <2>1, <2>3, SumDef
    <3>4. /\ Cardinality(T \ {Pick(T)}) = Cardinality(T) - 1
          /\ Cardinality(T) \in Nat
      BY <2>1, <3>1, FS_RemoveElement, FS_CardinalityType
    <3> QED BY <3>1, <3>2, <3>3, <3>4
  <2> QED BY <2>2, <2>3
<1> HIDE DEF P
<1>2. S \in P
  BY <1>1, SubsetInduction
<1> QED BY <1>2 DEF P

\* The sums of the classes A of S add up to the sum of those elements of S
\* whose class is in A.
LEMMA SumByClass ==
    ASSUME NEW S, IsFiniteSet(S), NEW f, \A x \in S : f[x] \in Nat,
           NEW class, NEW A, IsFiniteSet(A), NEW g,
           \A a \in A : g[a] = SumFunctionOnSet(f, {x \in S : class[x] = a})
    PROVE  SumFunctionOnSet(g, A)
              = SumFunctionOnSet(f, {x \in S : class[x] \in A})
<1> DEFINE Sum(V) == SumFunctionOnSet(f, V)
           In(B) == {x \in S : class[x] \in B}
           P == {B \in SUBSET A : SumFunctionOnSet(g, B) = Sum(In(B))}
<1>1. ASSUME NEW B \in SUBSET A, \A U \in SUBSET B : U # B => U \in P
      PROVE  B \in P
  <2>1. IsFiniteSet(B)
    BY FS_Subset
  <2>2. CASE B = {}
    <3>1. In(B) = {}
      BY <2>2
    <3> QED BY <2>1, <2>2, <3>1, SumDef, FS_EmptySet
  <2>3. CASE B # {}
    <3> DEFINE a == Pick(B)
    <3>1. a \in B
      BY <2>3, Picked
    <3>2. SumFunctionOnSet(g, B) = g[a] + SumFunctionOnSet(g, B \ {a})
      BY <2>1, <2>3, SumDef
    <3> HIDE DEF a
    <3>3. SumFunctionOnSet(g, B \ {a}) = Sum(In(B \ {a}))
      BY <1>1, <3>1
    <3>4. g[a] = Sum({x \in S : class[x] = a})
      BY <3>1
    <3>5. /\ In(B) = {x \in S : class[x] = a} \cup In(B \ {a})
          /\ {x \in S : class[x] = a} \cap In(B \ {a}) = {}
      BY <3>1
    <3>6. Sum(In(B)) = Sum({x \in S : class[x] = a}) + Sum(In(B \ {a}))
      BY <3>5, SumUnion
    <3> QED BY <3>2, <3>3, <3>4, <3>6
  <2> QED BY <2>2, <2>3
<1> HIDE DEF P
<1>2. A \in P
  BY <1>1, SubsetInduction
<1> QED BY <1>2 DEF P

-----------------------------------------------------------------------------
(* Figures.                                                                *)

\* Every list holds tips of its creator; a completed tip is on its list.
Held ==
    /\ \A w \in Creators : \A t \in Range(list[w]) : Receiver[t] = w
    /\ \A t \in completed : t \in Range(list[Receiver[t]])
    /\ IsFiniteSet(completed)

Figure == [count : Nat, amount : Nat]

\* x was counted before y, and the figures moved in these ways since.
Rises(ways, x, y) ==
    /\ "less" \notin ways => AtMost(x, y)
    /\ ways = {} => x = y

SummaryOf(c) == part[c].summary
AssetsOf(c) == Filtered(part[c].byAsset, ask[c].asset)
SeriesOf(c) == Total(part[c].series)
SupportersOf(c) == Total(part[c].supporters)
StatsOf(c) == part[c].stats
TopOf(c) == Total(part[c].top)

\* What a statement of the request would count now.
Now(c) == Tally(Counted(c, ask[c].asset))
AllNow(c) == Tally(Counted(c, Null))

\* The parts of an analysis so far are in order, and the last is in order
\* with what would be counted now.
AnalysedAt(c) ==
    /\ pc[c] = "byAsset" =>
          /\ DOMAIN part[c] = {"summary"} /\ SummaryOf(c) \in Figure
          /\ Rises(shift[c], SummaryOf(c), Now(c))
    /\ pc[c] = "series" =>
          /\ DOMAIN part[c] = {"summary", "byAsset"}
          /\ SummaryOf(c) \in Figure /\ AssetsOf(c) \in Figure
          /\ Rises(shift[c], SummaryOf(c), AssetsOf(c))
          /\ Rises(shift[c], AssetsOf(c), Now(c))
    /\ pc[c] = "supporters" =>
          /\ DOMAIN part[c] = {"summary", "byAsset", "series"}
          /\ SummaryOf(c) \in Figure /\ AssetsOf(c) \in Figure
          /\ SeriesOf(c) \in Figure
          /\ Rises(shift[c], SummaryOf(c), AssetsOf(c))
          /\ Rises(shift[c], AssetsOf(c), SeriesOf(c))
          /\ Rises(shift[c], SeriesOf(c), Now(c))
    /\ Analytics(c) =>
          /\ Rises(shift[c], SummaryOf(c), AssetsOf(c))
          /\ Rises(shift[c], AssetsOf(c), SeriesOf(c))
          /\ shift[c] = {} => AtMost(SupportersOf(c), SummaryOf(c))

\* The same for the parts of a public page.
ShownAt(c) ==
    /\ pc[c] = "top" =>
          /\ DOMAIN part[c] = {"stats"} /\ StatsOf(c) \in Figure
          /\ Rises(shift[c], StatsOf(c), AllNow(c))
    /\ pc[c] = "recent" =>
          /\ DOMAIN part[c] = {"stats", "top"} /\ StatsOf(c) \in Figure
          /\ Rises(shift[c], StatsOf(c), AllNow(c))
          /\ shift[c] = {} => AtMost(TopOf(c), StatsOf(c))
    /\ Tipping(c) =>
          /\ "less" \notin shift[c] =>
                Least(Recent, StatsOf(c).count) <= Cardinality(part[c].recent)
          /\ shift[c] = {} => AtMost(TopOf(c), StatsOf(c))
          /\ shift[c] = {} /\ ask[c].creator \notin Walletless =>
                Cardinality(part[c].recent) = Least(Recent, StatsOf(c).count)
          /\ ask[c].creator \notin Walletless =>
                part[c].recent \subseteq Range(list[ask[c].creator])

FiguresAt(c) ==
    /\ pc[c] \in {"idle", "summary", "stats"} \cup Walking =>
          DOMAIN part[c] = {}
    /\ AnalysedAt(c)
    /\ ShownAt(c)

FInv == Held /\ \A c \in Clients : FiguresAt(c)

LEMMA TallyFigure ==
    ASSUME NEW S \in SUBSET Tips, IsFiniteSet(S)
    PROVE  Tally(S) \in Figure
<1>1. \A t \in S : Amount[t] \in Nat
  BY ReadsAssumption
<1>2. SumFunctionOnSet(Amount, S) \in Nat /\ Cardinality(S) \in Nat
  BY <1>1, SumNat, FS_CardinalityType
<1> QED BY <1>2 DEF Tally, Figure

\* More tips are counted higher.
LEMMA TallyMonotonic ==
    ASSUME NEW S \in SUBSET Tips, IsFiniteSet(S), NEW T \in SUBSET S
    PROVE  AtMost(Tally(T), Tally(S))
<1>1. \A t \in S : Amount[t] \in Nat
  BY ReadsAssumption
<1>2. SumFunctionOnSet(Amount, T) <= SumFunctionOnSet(Amount, S)
  BY <1>1, SumMonotonic
<1>3. Cardinality(T) <= Cardinality(S)
  BY FS_Subset
<1> QED BY <1>2, <1>3 DEF Tally, AtMost

\* The figures of the classes of S add up to those of the tips of S that are
\* in one of the classes.
LEMMA TallyByClass ==
    ASSUME NEW S \in SUBSET Tips, IsFiniteSet(S), NEW class,
           NEW A, IsFiniteSet(A)
    PROVE  Total([a \in A |-> Tally({t \in S : class[t] = a})])
              = Tally({t \in S : class[t] \in A})
<1> DEFINE Of(a) == {t \in S : class[t] = a}
           f == [a \in A |-> Tally(Of(a))]
           one == [t \in S |-> 1]
           count == [a \in A |-> f[a].count]
           amount == [a \in A |-> f[a].amount]
           whole == {t \in S : class[t] \in A}
<1>1. \A a \in A : Of(a) \in SUBSET S /\ IsFiniteSet(Of(a))
  BY FS_Subset
<1>2. whole \in SUBSET S /\ IsFiniteSet(whole)
  BY FS_Subset
<1>3. \A a \in A : amount[a] = SumFunctionOnSet(Amount, Of(a))
  BY DEF Tally
<1>4. \A t \in S : Amount[t] \in Nat
  BY ReadsAssumption
<1>5. SumFunctionOnSet(amount, A) = SumFunctionOnSet(Amount, whole)
  <2> HIDE DEF amount
  <2> QED BY <1>3, <1>4, SumByClass
<1>6. \A T \in SUBSET S : SumFunctionOnSet(one, T) = Cardinality(T)
  <2>1. \A t \in S : one[t] = 1
    OBVIOUS
  <2> HIDE DEF one
  <2> QED BY <2>1, FS_Subset, SumCounts
<1>7. \A a \in A : count[a] = SumFunctionOnSet(one, Of(a))
  BY <1>1, <1>6 DEF Tally
<1>8. SumFunctionOnSet(count, A) = SumFunctionOnSet(one, whole)
  <2>1. \A t \in S : one[t] \in Nat
    OBVIOUS
  <2> HIDE DEF count, one
  <2> QED BY <1>7, <2>1, SumByClass
<1>9. SumFunctionOnSet(count, A) = Cardinality(whole)
  BY <1>2, <1>6, <1>8
<1>10. Total(f) = [count |-> SumFunctionOnSet(count, A),
                   amount |-> SumFunctionOnSet(amount, A)]
  BY DEF Total, SumFunction
<1> QED BY <1>5, <1>9, <1>10 DEF Tally

\* The figures by asset add up to those of all the tips.
LEMMA TallyByAsset ==
    ASSUME NEW S \in SUBSET Tips, IsFiniteSet(S)
    PROVE  Total([x \in Assets |-> Tally({t \in S : Asset[t] = x})]) = Tally(S)
<1>1. {t \in S : Asset[t] \in Assets} = S
  BY ReadsAssumption
<1> QED BY <1>1, TallyByClass, ReadsAssumption

\* The top senders of S have given no more than there is.
LEMMA TallyOfTop ==
    ASSUME NEW S \in SUBSET Tips, IsFiniteSet(S), NEW n,
           NEW top \in TopSenders(S, n)
    PROVE  AtMost(Total(top), Tally(S))
<1> DEFINE from == {Sender[t] : t \in S} \ {Null}
           f == [t \in S |-> Sender[t]]
<1>1. PICK T \in SUBSET from :
         top = [s \in T |-> Tally({t \in S : Sender[t] = s})]
  BY DEF TopSenders
<1>2. IsFiniteSet({Sender[t] : t \in S})
  <2>1. f \in Surjection(S, {Sender[t] : t \in S})
    BY DEF Surjection
  <2> HIDE DEF f
  <2> QED BY <2>1, FS_Surjection
<1>3. IsFiniteSet(T)
  BY <1>1, <1>2, FS_Subset
<1>4. Total(top) = Tally({t \in S : Sender[t] \in T})
  BY <1>1, <1>3, TallyByClass
<1> QED BY <1>4, TallyMonotonic

-----------------------------------------------------------------------------
(* Figures are counted in order.                                           *)

LEMMA ListFinite ==
    ASSUME NEW s \in Seq(Tips)
    PROVE  IsFiniteSet(Range(s)) /\ Range(s) \subseteq Tips
<1>1. s \in [1 .. Len(s) -> Tips] /\ Len(s) \in Nat
  OBVIOUS
<1>2. IsFiniteSet(1 .. Len(s))
  BY <1>1, FS_Interval
<1> QED BY <1>1, <1>2, Fun_RangeProperties, FS_Surjection

LEMMA PartFinite ==
    ASSUME NEW s \in Seq(Tips), NEW S \in SUBSET Range(s)
    PROVE  S \in SUBSET Tips /\ IsFiniteSet(S)
BY ListFinite, FS_Subset

LEMMA CountedTips ==
    ASSUME TypeOK, NEW c \in Clients, pc[c] # "idle", NEW a
    PROVE  Counted(c, a) \in SUBSET Tips /\ IsFiniteSet(Counted(c, a))
<1>1. list[ask[c].creator] \in Seq(Tips)
  BY DEF TypeOK, Request
<1>2. Counted(c, a) \in SUBSET Range(list[ask[c].creator])
  BY DEF Counted
<1> QED BY <1>1, <1>2, PartFinite

\* An insert puts the tip, and nothing else, on the list of its creator.
LEMMA CreatedRange ==
    ASSUME IInv, NEW t \in Tips, NEW i \in 1 .. Len(list[Receiver[t]]) + 1,
           CreateTip(t, i), NEW w \in Creators
    PROVE  /\ Range(list'[w]) \subseteq Range(list[w]) \cup {t}
           /\ Range(list[w]) \subseteq Range(list'[w])
           /\ w # Receiver[t] => list'[w] = list[w]
           /\ w = Receiver[t] => t \in Range(list'[w])
<1> DEFINE s == list[Receiver[t]]
           r == InsertAt(s, t, i)
<1>1. s \in Seq(Tips) /\ Receiver[t] \in Creators /\ i \in 1 .. Len(s) + 1
  BY ReadsAssumption DEF IInv, TypeOK
<1>2. list' = [list EXCEPT ![Receiver[t]] = r]
  BY DEF CreateTip, InsertAt
<1>3. /\ r \in Seq(Tips) /\ Len(r) = Len(s) + 1 /\ r[i] = t
      /\ \A k \in 1 .. i - 1 : r[k] = s[k]
      /\ \A k \in i + 1 .. Len(s) + 1 : r[k] = s[k - 1]
  <2>1. s \in Seq(Tips) /\ t \in Tips /\ i \in 1 .. Len(s) + 1
    BY <1>1
  <2> HIDE DEF s
  <2>2. r \in Seq(Tips) /\ Len(r) = Len(s) + 1
    BY <2>1, InsertPlaces
  <2>3. r[i] = t
    BY <2>1, InsertPlaces
  <2>4. \A k \in 1 .. i - 1 : r[k] = s[k]
    BY <2>1, InsertPlaces
  <2>5. \A k \in i + 1 .. Len(s) + 1 : r[k] = s[k - 1]
    BY <2>1, InsertPlaces
  <2> QED BY <2>2, <2>3, <2>4, <2>5
<1>4. Grows(s, r)
  BY <1>1, InsertGrows
<1> HIDE DEF r
<1>5. Range(r) \subseteq Range(s) \cup {t}
  <2> SUFFICES ASSUME NEW k \in 1 .. Len(s) + 1, k # i
               PROVE  \E j \in DOMAIN s : r[k] = s[j]
    BY <1>1, <1>3 DEF Range
  <2>1. CASE k < i
    BY <1>1, <1>3, <2>1
  <2>2. CASE k > i
    <3>1. k \in i + 1 .. Len(s) + 1 /\ k - 1 \in DOMAIN s
      BY <1>1, <2>2
    <3> QED BY <1>3, <3>1
  <2> QED BY <2>1, <2>2
<1>6. Range(s) \subseteq Range(r)
  BY <1>4 DEF Grows, Range
<1>7. t \in Range(r)
  <2>1. i \in DOMAIN r
    BY <1>1, <1>3
  <2> QED BY <1>3, <2>1 DEF Range
<1>8. CASE w = Receiver[t]
  <2>1. list'[w] = r
    BY <1>1, <1>2, <1>8 DEF IInv, TypeOK
  <2> QED BY <1>5, <1>6, <1>7, <1>8, <2>1
<1>9. CASE w # Receiver[t]
  BY <1>2, <1>9 DEF IInv, TypeOK
<1> QED BY <1>8, <1>9

\* What a step of the table does to what a request counts.
LEMMA TableCounts ==
    ASSUME IInv, Held, Table, NEW c \in Clients,
           pc[c] \in Analysing \cup Showing, NEW a
    PROVE  /\ "less" \notin shift'[c] => Counted(c, a) \subseteq Counted(c, a)'
           /\ shift'[c] = {} => Counted(c, a)' = Counted(c, a)
           /\ shift[c] \subseteq shift'[c]
<1> DEFINE w == ask[c].creator
<1>1. PICK t \in Tips :
         \/ \E i \in 1 .. Len(list[Receiver[t]]) + 1 : CreateTip(t, i)
         \/ ConfirmTip(t)
         \/ TakeBack(t)
  BY DEF Table
<1>2. Receiver[t] \in Creators /\ w \in Creators /\ ask' = ask
  BY <1>1, ReadsAssumption DEF IInv, TypeOK, Request, Analysing, Showing,
     CreateTip, ConfirmTip, TakeBack
<1>3. \A way : Shift(Receiver[t], way) =>
         shift'[c] = IF w = Receiver[t] THEN shift[c] \cup {way} ELSE shift[c]
  BY DEF Shift
<1>4. CASE ConfirmTip(t)
  <2>1. list' = list /\ completed' = completed \cup {t}
    BY <1>4 DEF ConfirmTip
  <2>2. w # Receiver[t] => t \notin Range(list[w])
    BY <1>2 DEF Held
  <2>3. Counted(c, a) \subseteq Counted(c, a)'
    BY <1>2, <2>1 DEF Counted
  <2>4. w # Receiver[t] => Counted(c, a)' = Counted(c, a)
    BY <1>2, <2>1, <2>2 DEF Counted
  <2> QED BY <1>3, <1>4, <2>3, <2>4 DEF ConfirmTip
<1>5. CASE TakeBack(t)
  <2>1. list' = list /\ completed' = completed \ {t}
    BY <1>5 DEF TakeBack
  <2>2. w # Receiver[t] => t \notin Range(list[w])
    BY <1>2 DEF Held
  <2>3. w # Receiver[t] => Counted(c, a)' = Counted(c, a)
    BY <1>2, <2>1, <2>2 DEF Counted
  <2> QED BY <1>3, <1>5, <2>3 DEF TakeBack
<1>6. ASSUME NEW i \in 1 .. Len(list[Receiver[t]]) + 1, CreateTip(t, i)
      PROVE  /\ "less" \notin shift'[c] => Counted(c, a) \subseteq Counted(c, a)'
             /\ shift'[c] = {} => Counted(c, a)' = Counted(c, a)
             /\ shift[c] \subseteq shift'[c]
  <2>1. /\ Range(list'[w]) \subseteq Range(list[w]) \cup {t}
        /\ Range(list[w]) \subseteq Range(list'[w])
        /\ w # Receiver[t] => list'[w] = list[w]
    BY <1>2, <1>6, CreatedRange
  <2>2. t \notin completed /\ t \notin Range(list[Receiver[t]])
    BY <1>6 DEF Held, CreateTip
  <2>3. CASE completed' = completed /\ shift' = shift
    BY <1>2, <2>1, <2>2, <2>3 DEF Counted
  <2>4. CASE completed' = completed \cup {t} /\ Shift(Receiver[t], "more")
    <3>1. Counted(c, a) \subseteq Counted(c, a)'
      BY <1>2, <2>1, <2>4 DEF Counted
    <3>2. w # Receiver[t] => Counted(c, a)' = Counted(c, a)
      <4>1. w # Receiver[t] => t \notin Range(list[w])
        BY <1>2 DEF Held
      <4> QED BY <1>2, <2>1, <2>4, <4>1 DEF Counted
    <3> QED BY <1>3, <2>4, <3>1, <3>2
  <2> QED BY <1>6, <2>3, <2>4 DEF CreateTip
<1> QED BY <1>1, <1>4, <1>5, <1>6

LEMMA TableHeld ==
    ASSUME IInv, Held, Table
    PROVE  Held'
<1>1. PICK t \in Tips :
         \/ \E i \in 1 .. Len(list[Receiver[t]]) + 1 : CreateTip(t, i)
         \/ ConfirmTip(t)
         \/ TakeBack(t)
  BY DEF Table
<1>2. CASE ConfirmTip(t) \/ TakeBack(t)
  <2>1. IsFiniteSet(completed \cup {t}) /\ IsFiniteSet(completed \ {t})
    BY FS_AddElement, FS_Subset DEF Held
  <2> QED BY <1>2, <2>1 DEF ConfirmTip, TakeBack, Held
<1>3. ASSUME NEW i \in 1 .. Len(list[Receiver[t]]) + 1, CreateTip(t, i)
      PROVE  Held'
  <2>1. \A w \in Creators :
           /\ Range(list'[w]) \subseteq Range(list[w]) \cup {t}
           /\ Range(list[w]) \subseteq Range(list'[w])
           /\ w # Receiver[t] => list'[w] = list[w]
           /\ w = Receiver[t] => t \in Range(list'[w])
    BY <1>3, CreatedRange
  <2>2. completed' \subseteq completed \cup {t} /\ completed \subseteq Tips
    BY <1>3 DEF CreateTip, IInv, TypeOK
  <2>3. Receiver \in [Tips -> Creators]
    BY ReadsAssumption
  <2>4. IsFiniteSet(completed')
    BY <2>2, FS_AddElement, FS_Subset DEF Held
  <2> QED BY <2>1, <2>2, <2>3, <2>4 DEF Held
<1> QED BY <1>1, <1>2, <1>3

LEMMA RisesOn ==
    ASSUME NEW ways, NEW more, ways \subseteq more,
           NEW x \in Figure, NEW y \in Figure, NEW z \in Figure,
           Rises(ways, x, y), "less" \notin more => AtMost(y, z),
           more = {} => y = z
    PROVE  Rises(more, x, z)
BY DEF Rises, AtMost, Figure

LEMMA RisesStill ==
    ASSUME NEW ways, NEW more, ways \subseteq more, NEW x, NEW y,
           Rises(ways, x, y)
    PROVE  Rises(more, x, y)
BY DEF Rises

LEMMA RisesSame ==
    ASSUME NEW ways, NEW x \in Figure
    PROVE  Rises(ways, x, x)
BY DEF Rises, AtMost, Figure

\* Lists only grow.
LEMMA TableGrows ==
    ASSUME IInv, Table, NEW w \in Creators
    PROVE  Range(list[w]) \subseteq Range(list'[w])
<1>1. PICK t \in Tips :
         \/ \E i \in 1 .. Len(list[Receiver[t]]) + 1 : CreateTip(t, i)
         \/ ConfirmTip(t)
         \/ TakeBack(t)
  BY DEF Table
<1>2. CASE ConfirmTip(t) \/ TakeBack(t)
  BY <1>2 DEF ConfirmTip, TakeBack
<1>3. ASSUME NEW i \in 1 .. Len(list[Receiver[t]]) + 1, CreateTip(t, i)
      PROVE  Range(list[w]) \subseteq Range(list'[w])
  BY <1>3, CreatedRange
<1> QED BY <1>1, <1>2, <1>3

\* A step of the table keeps the figures given so far in order.
LEMMA TableFigures ==
    ASSUME IInv, IInv', FInv, Table
    PROVE  FInv'
<1> SUFFICES ASSUME NEW c \in Clients PROVE FiguresAt(c)'
  BY TableHeld DEF FInv
<1>1. FiguresAt(c) /\ Held
  BY DEF FInv
<1>2. pc' = pc /\ ask' = ask /\ part' = part
  BY DEF Table, CreateTip, ConfirmTip, TakeBack, walk
<1>3. /\ SummaryOf(c)' = SummaryOf(c) /\ AssetsOf(c)' = AssetsOf(c)
      /\ SeriesOf(c)' = SeriesOf(c) /\ SupportersOf(c)' = SupportersOf(c)
      /\ StatsOf(c)' = StatsOf(c) /\ TopOf(c)' = TopOf(c)
  BY <1>2 DEF SummaryOf, AssetsOf, SeriesOf, SupportersOf, StatsOf, TopOf
<1>6. \A w \in Creators : Range(list[w]) \subseteq Range(list'[w])
  BY TableGrows
<1>7. pc[c] # "idle" => ask[c].creator \in Creators
  BY DEF IInv, TypeOK, Request
<1>4. CASE pc[c] \notin Analysing \cup Showing
  <2>1. shift'[c] = shift[c]
    BY <1>4 DEF Table, CreateTip, ConfirmTip, TakeBack, Shift
  <2>2. Analytics(c)' = Analytics(c) /\ Tipping(c)' = Tipping(c)
    BY <1>2 DEF Analytics, Tipping
  <2>3. Tipping(c) /\ part[c].recent \subseteq Range(list[ask[c].creator])
           => part[c].recent \subseteq Range(list'[ask[c].creator])
    BY <1>6, <1>7 DEF Tipping
  <2> QED BY <1>1, <1>2, <1>3, <1>4, <2>1, <2>2, <2>3
          DEF FiguresAt, AnalysedAt, ShownAt, Analysing, Showing
<1>5. CASE pc[c] \in Analysing \cup Showing
  <2>1. ASSUME NEW a, NEW x \in Figure,
               Rises(shift[c], x, Tally(Counted(c, a)))
        PROVE  Rises(shift'[c], x, Tally(Counted(c, a)'))
    <3>1. /\ "less" \notin shift'[c] => Counted(c, a) \subseteq Counted(c, a)'
          /\ shift'[c] = {} => Counted(c, a)' = Counted(c, a)
          /\ shift[c] \subseteq shift'[c]
      BY <1>1, <1>5, TableCounts
    <3>2. /\ Counted(c, a) \in SUBSET Tips /\ IsFiniteSet(Counted(c, a))
          /\ Counted(c, a)' \in SUBSET Tips /\ IsFiniteSet(Counted(c, a)')
      <4>1. pc[c] # "idle" /\ pc'[c] # "idle"
        BY <1>2, <1>5 DEF Analysing, Showing
      <4>2. Counted(c, a) \in SUBSET Tips /\ IsFiniteSet(Counted(c, a))
        BY <4>1, CountedTips DEF IInv
      <4>3. Counted(c, a)' \in SUBSET Tips /\ IsFiniteSet(Counted(c, a)')
        <5>1. list'[ask'[c].creator] \in Seq(Tips)
          BY <4>1 DEF IInv, TypeOK, Request
        <5>2. Counted(c, a)' \in SUBSET Range(list'[ask'[c].creator])
          BY DEF Counted
        <5> QED BY <5>1, <5>2, PartFinite
      <4> QED BY <4>2, <4>3
    <3>3. /\ Tally(Counted(c, a)) \in Figure /\ Tally(Counted(c, a)') \in Figure
      BY <3>2, TallyFigure
    <3>4. "less" \notin shift'[c] =>
             AtMost(Tally(Counted(c, a)), Tally(Counted(c, a)'))
      BY <3>1, <3>2, TallyMonotonic
    <3> QED BY <2>1, <3>1, <3>3, <3>4, RisesOn
  <2>2. shift[c] \subseteq shift'[c]
    BY <1>1, <1>5, TableCounts
  <2> QED BY <1>1, <1>2, <1>3, <1>5, <2>1, <2>2, RisesStill
          DEF FiguresAt, AnalysedAt, ShownAt, Now, AllNow, Analytics, Tipping,
              Analysing, Showing
<1> QED BY <1>4, <1>5

\* A step of c's request leaves the other requests and the table alone.
LEMMA ServeFigures ==
    ASSUME FInv, NEW c \in Clients, UNCHANGED table, FiguresAt(c)',
           \A d \in Clients \ {c} :
              /\ pc'[d] = pc[d] /\ ask'[d] = ask[d]
              /\ part'[d] = part[d] /\ shift'[d] = shift[d]
    PROVE  FInv'
<1>1. Held'
  BY DEF FInv, Held, table
<1>2. ASSUME NEW d \in Clients, d # c
      PROVE  FiguresAt(d)'
  <2>1. /\ FiguresAt(d)
        /\ pc'[d] = pc[d] /\ ask'[d] = ask[d]
        /\ part'[d] = part[d] /\ shift'[d] = shift[d]
        /\ list' = list /\ completed' = completed
    BY <1>2 DEF FInv, table
  <2>2. /\ SummaryOf(d)' = SummaryOf(d) /\ AssetsOf(d)' = AssetsOf(d)
        /\ SeriesOf(d)' = SeriesOf(d) /\ SupportersOf(d)' = SupportersOf(d)
        /\ StatsOf(d)' = StatsOf(d) /\ TopOf(d)' = TopOf(d)
    BY <2>1 DEF SummaryOf, AssetsOf, SeriesOf, SupportersOf, StatsOf, TopOf
  <2>3. /\ Now(d)' = Now(d) /\ AllNow(d)' = AllNow(d)
        /\ Analytics(d)' = Analytics(d) /\ Tipping(d)' = Tipping(d)
    BY <2>1 DEF Now, AllNow, Counted, Analytics, Tipping
  <2> QED BY <2>1, <2>2, <2>3 DEF FiguresAt, AnalysedAt, ShownAt
<1> QED BY <1>1, <1>2 DEF FInv

\* A request that has been given no figures yet.
LEMMA NoFigures ==
    ASSUME IInv, FInv, NEW c \in Clients, UNCHANGED table, DOMAIN part'[c] = {},
           pc'[c] \in {"idle", "summary", "stats", "end"} \cup Walking,
           \A d \in Clients \ {c} :
              /\ pc'[d] = pc[d] /\ ask'[d] = ask[d]
              /\ part'[d] = part[d] /\ shift'[d] = shift[d]
    PROVE  FInv'
<1>1. FiguresAt(c)'
  BY DEF FiguresAt, AnalysedAt, ShownAt, Analytics, Tipping, Walking
<1> QED BY <1>1, ServeFigures

LEMMA WalkFigures ==
    ASSUME IInv, FInv, NEW c \in Clients,
           \/ \E w \in Creators, n \in Limits : StartWalk(c, w, n)
           \/ SelectPage(c) \/ CountRows(c) \/ AskAgain(c)
           \/ \E w \in Creators, a \in Assets \cup {Null} : GetAnalytics(c, w, a)
           \/ \E w \in Creators : GetTippingInfo(c, w)
           \/ Leave(c)
    PROVE  FInv'
<1> USE DEF figures, table, walk, Start, Goto
<1>1. DOMAIN pc = Clients /\ DOMAIN ask = Clients /\ DOMAIN part = Clients
      /\ DOMAIN shift = Clients
  BY DEF IInv, TypeOK
<1>2. CASE Leave(c)
  <2>1. /\ pc' = [pc EXCEPT ![c] = "idle"] /\ ask' = [ask EXCEPT ![c] = Null]
        /\ part' = [part EXCEPT ![c] = <<>>] /\ shift' = [shift EXCEPT ![c] = {}]
        /\ UNCHANGED table
    BY <1>2 DEF Leave
  <2>2. DOMAIN part'[c] = {}
    BY <1>1, <2>1
  <2> QED BY <1>1, <2>1, <2>2, NoFigures DEF IInv, TypeOK
<1>3. CASE ~Leave(c)
  <2>1. /\ UNCHANGED figures /\ UNCHANGED table
        /\ pc[c] \in {"idle"} \cup Walking
        /\ \E label \in {"summary", "stats", "end"} \cup Walking :
              pc' = [pc EXCEPT ![c] = label]
        /\ ask' = ask \/ \E request : ask' = [ask EXCEPT ![c] = request]
    BY <1>3 DEF StartWalk, SelectPage, CountRows, AskAgain, GetAnalytics,
       GetTippingInfo, Walking
  <2>2. DOMAIN part'[c] = {}
    BY <2>1 DEF FInv, FiguresAt
  <2> QED BY <1>1, <2>1, <2>2, NoFigures
<1> QED BY <1>2, <1>3

\* What an action that gives a part does.
LEMMA Gives ==
    ASSUME IInv, FInv, NEW c \in Clients, NEW name, NEW value, NEW label,
           Give(c, name, value), Goto(c, label),
           UNCHANGED <<table, ask, walk, shift>>
    PROVE  /\ DOMAIN part'[c] = DOMAIN part[c] \cup {name}
           /\ part'[c][name] = value
           /\ \A n \in DOMAIN part[c] \ {name} : part'[c][n] = part[c][n]
           /\ pc'[c] = label /\ ask' = ask /\ shift' = shift
           /\ list' = list /\ completed' = completed
           /\ Now(c)' = Now(c) /\ AllNow(c)' = AllNow(c)
           /\ FiguresAt(c)' => FInv'
<1>1. DOMAIN pc = Clients /\ DOMAIN part = Clients
  BY DEF IInv, TypeOK
<1>2. /\ DOMAIN part'[c] = DOMAIN part[c] \cup {name}
      /\ part'[c][name] = value
      /\ \A n \in DOMAIN part[c] \ {name} : part'[c][n] = part[c][n]
      /\ \A d \in Clients \ {c} : part'[d] = part[d]
  BY <1>1 DEF Give
<1>3. /\ pc'[c] = label /\ \A d \in Clients \ {c} : pc'[d] = pc[d]
      /\ ask' = ask /\ shift' = shift /\ list' = list /\ completed' = completed
  BY <1>1 DEF Goto, table
<1>4. Now(c)' = Now(c) /\ AllNow(c)' = AllNow(c)
  BY <1>3 DEF Now, AllNow, Counted
<1>5. FiguresAt(c)' => FInv'
  BY <1>2, <1>3, ServeFigures
<1> QED BY <1>2, <1>3, <1>4, <1>5

LEMMA SummaryFigures ==
    ASSUME IInv, FInv, NEW c \in Clients, Summary(c)
    PROVE  FInv'
<1>1. pc[c] = "summary" /\ DOMAIN part[c] = {}
  BY DEF Summary, FInv, FiguresAt
<1>2. Give(c, "summary", Now(c)) /\ Goto(c, "byAsset")
      /\ UNCHANGED <<table, ask, walk, shift>>
  BY DEF Summary, Now
<1>3. /\ DOMAIN part'[c] = {"summary"} /\ SummaryOf(c)' = Now(c)
      /\ pc'[c] = "byAsset" /\ Now(c)' = Now(c)
      /\ FiguresAt(c)' => FInv'
  BY <1>1, <1>2, Gives DEF SummaryOf
<1>4. Now(c) \in Figure
  BY <1>1, CountedTips, TallyFigure DEF IInv, Now
<1> QED BY <1>3, <1>4, RisesSame
        DEF FiguresAt, AnalysedAt, ShownAt, Analytics, Tipping, Walking

\* Counted now, the breakdown by asset gives the figures of the filter.
LEMMA AssetsNow ==
    ASSUME TypeOK, NEW c \in Clients, pc[c] # "idle"
    PROVE  Filtered([x \in Assets |-> Tally(Counted(c, x))], ask[c].asset)
              = Now(c)
<1> DEFINE S == Counted(c, Null)
           f == [x \in Assets |-> Tally(Counted(c, x))]
<1>1. ask[c].asset \in Assets \cup {Null}
  BY DEF TypeOK, Request
<1>2. CASE ask[c].asset = Null
  <2>1. \A x \in Assets : Counted(c, x) = {t \in S : Asset[t] = x}
    BY ReadsAssumption DEF Counted
  <2>2. f = [x \in Assets |-> Tally({t \in S : Asset[t] = x})]
    BY <2>1
  <2>3. Total(f) = Tally(S)
    <3> HIDE DEF f, S
    <3>1. S \in SUBSET Tips /\ IsFiniteSet(S)
      BY CountedTips DEF S
    <3> QED BY <2>2, <3>1, TallyByAsset
  <2> QED BY <1>2, <2>3 DEF Filtered, Now
<1>3. CASE ask[c].asset # Null
  BY <1>1, <1>3 DEF Filtered, Now
<1> QED BY <1>2, <1>3

LEMMA ByAssetFigures ==
    ASSUME IInv, FInv, NEW c \in Clients, ByAsset(c)
    PROVE  FInv'
<1> DEFINE f == [x \in Assets |-> Tally(Counted(c, x))]
<1>1. /\ pc[c] = "byAsset" /\ DOMAIN part[c] = {"summary"}
      /\ SummaryOf(c) \in Figure
      /\ Rises(shift[c], SummaryOf(c), Now(c))
  BY DEF ByAsset, FInv, FiguresAt, AnalysedAt
<1>2. /\ Give(c, "byAsset", f) /\ Goto(c, "series")
      /\ UNCHANGED <<table, ask, walk, shift>>
  BY DEF ByAsset
<1>3. Filtered(f, ask[c].asset) = Now(c)
  BY <1>1, AssetsNow DEF IInv
<1> HIDE DEF f
<1>4. /\ DOMAIN part'[c] = {"summary", "byAsset"}
      /\ SummaryOf(c)' = SummaryOf(c) /\ AssetsOf(c)' = Now(c)
      /\ pc'[c] = "series" /\ shift' = shift /\ Now(c)' = Now(c)
      /\ FiguresAt(c)' => FInv'
  BY <1>1, <1>2, <1>3, Gives DEF SummaryOf, AssetsOf
<1>5. Now(c) \in Figure
  BY <1>1, CountedTips, TallyFigure DEF IInv, Now
<1> QED BY <1>1, <1>4, <1>5, RisesSame
        DEF FiguresAt, AnalysedAt, ShownAt, Analytics, Tipping, Walking

LEMMA TimeSeriesFigures ==
    ASSUME IInv, FInv, NEW c \in Clients, TimeSeries(c)
    PROVE  FInv'
<1> DEFINE S == Counted(c, ask[c].asset)
           f == [x \in Assets |-> Tally({t \in S : Asset[t] = x})]
<1>1. /\ pc[c] = "series" /\ DOMAIN part[c] = {"summary", "byAsset"}
      /\ SummaryOf(c) \in Figure /\ AssetsOf(c) \in Figure
      /\ Rises(shift[c], SummaryOf(c), AssetsOf(c))
      /\ Rises(shift[c], AssetsOf(c), Now(c))
  BY DEF TimeSeries, FInv, FiguresAt, AnalysedAt
<1>2. /\ Give(c, "series", f) /\ Goto(c, "supporters")
      /\ UNCHANGED <<table, ask, walk, shift>>
  BY DEF TimeSeries
<1>3. Total(f) = Now(c) /\ Now(c) \in Figure
  <2> HIDE DEF S
  <2>1. S \in SUBSET Tips /\ IsFiniteSet(S)
    BY <1>1, CountedTips DEF IInv, S
  <2> QED BY <2>1, TallyByAsset, TallyFigure DEF Now, S
<1> HIDE DEF f
<1>4. /\ DOMAIN part'[c] = {"summary", "byAsset", "series"}
      /\ SummaryOf(c)' = SummaryOf(c) /\ AssetsOf(c)' = AssetsOf(c)
      /\ SeriesOf(c)' = Now(c)
      /\ pc'[c] = "supporters" /\ shift' = shift /\ Now(c)' = Now(c)
      /\ FiguresAt(c)' => FInv'
  BY <1>1, <1>2, <1>3, Gives DEF SummaryOf, AssetsOf, SeriesOf
<1> QED BY <1>1, <1>3, <1>4, RisesSame
        DEF FiguresAt, AnalysedAt, ShownAt, Analytics, Tipping, Walking

LEMMA TopSupportersFigures ==
    ASSUME IInv, FInv, NEW c \in Clients, TopSupporters(c)
    PROVE  FInv'
<1>1. /\ pc[c] = "supporters" /\ DOMAIN part[c] = {"summary", "byAsset", "series"}
      /\ SummaryOf(c) \in Figure /\ AssetsOf(c) \in Figure
      /\ SeriesOf(c) \in Figure
      /\ Rises(shift[c], SummaryOf(c), AssetsOf(c))
      /\ Rises(shift[c], AssetsOf(c), SeriesOf(c))
      /\ Rises(shift[c], SeriesOf(c), Now(c))
  BY DEF TopSupporters, FInv, FiguresAt, AnalysedAt
<1>2. PICK top \in TopSenders(Counted(c, ask[c].asset), Top) :
         /\ Give(c, "supporters", top) /\ Goto(c, "end")
         /\ UNCHANGED <<table, ask, walk, shift>>
  BY DEF TopSupporters
<1>3. AtMost(Total(top), Now(c))
  BY <1>1, CountedTips, TallyOfTop DEF IInv, Now
<1>4. /\ DOMAIN part'[c] = {"summary", "byAsset", "series", "supporters"}
      /\ SummaryOf(c)' = SummaryOf(c) /\ AssetsOf(c)' = AssetsOf(c)
      /\ SeriesOf(c)' = SeriesOf(c) /\ SupportersOf(c)' = Total(top)
      /\ pc'[c] = "end" /\ shift' = shift
      /\ FiguresAt(c)' => FInv'
  BY <1>1, <1>2, Gives DEF SummaryOf, AssetsOf, SeriesOf, SupportersOf
<1>5. shift[c] = {} => SummaryOf(c) = Now(c)
  BY <1>1 DEF Rises
<1> QED BY <1>1, <1>3, <1>4, <1>5
        DEF FiguresAt, AnalysedAt, ShownAt, Analytics, Tipping, Walking

LEMMA StatsFigures ==
    ASSUME IInv, FInv, NEW c \in Clients, TippingStats(c)
    PROVE  FInv'
<1>1. pc[c] = "stats" /\ DOMAIN part[c] = {}
  BY DEF TippingStats, FInv, FiguresAt
<1>2. /\ Give(c, "stats", AllNow(c)) /\ Goto(c, "top")
      /\ UNCHANGED <<table, ask, walk, shift>>
  BY DEF TippingStats, AllNow
<1>3. /\ DOMAIN part'[c] = {"stats"} /\ StatsOf(c)' = AllNow(c)
      /\ pc'[c] = "top" /\ AllNow(c)' = AllNow(c)
      /\ FiguresAt(c)' => FInv'
  BY <1>1, <1>2, Gives DEF StatsOf
<1>4. AllNow(c) \in Figure
  BY <1>1, CountedTips, TallyFigure DEF IInv, AllNow
<1> QED BY <1>3, <1>4, RisesSame
        DEF FiguresAt, AnalysedAt, ShownAt, Analytics, Tipping, Walking

LEMMA TopFigures ==
    ASSUME IInv, FInv, NEW c \in Clients, TopSupporter(c)
    PROVE  FInv'
<1>1. /\ pc[c] = "top" /\ DOMAIN part[c] = {"stats"} /\ StatsOf(c) \in Figure
      /\ Rises(shift[c], StatsOf(c), AllNow(c))
  BY DEF TopSupporter, FInv, FiguresAt, ShownAt
<1>2. PICK top \in TopSenders(Counted(c, Null), 1) :
         /\ Give(c, "top", top) /\ Goto(c, "recent")
         /\ UNCHANGED <<table, ask, walk, shift>>
  BY DEF TopSupporter
<1>3. AtMost(Total(top), AllNow(c))
  BY <1>1, CountedTips, TallyOfTop DEF IInv, AllNow
<1>4. /\ DOMAIN part'[c] = {"stats", "top"}
      /\ StatsOf(c)' = StatsOf(c) /\ TopOf(c)' = Total(top)
      /\ pc'[c] = "recent" /\ shift' = shift /\ AllNow(c)' = AllNow(c)
      /\ FiguresAt(c)' => FInv'
  BY <1>1, <1>2, Gives DEF StatsOf, TopOf
<1>5. shift[c] = {} => StatsOf(c) = AllNow(c)
  BY <1>1 DEF Rises
<1> QED BY <1>1, <1>3, <1>4, <1>5
        DEF FiguresAt, AnalysedAt, ShownAt, Analytics, Tipping, Walking

\* Nothing is counted for a creator without a wallet.
LEMMA NothingCounted ==
    ASSUME TypeOK, Held, NEW c \in Clients, pc[c] # "idle",
           ask[c].creator \in Walletless, NEW a
    PROVE  Counted(c, a) = {}
<1>1. ask[c].creator \in Creators
  BY DEF TypeOK, Request
<1>2. Range(list[ask[c].creator]) \subseteq Tips
  BY <1>1, ListFinite DEF TypeOK
<1>3. \A t \in Range(list[ask[c].creator]) : Receiver[t] = ask[c].creator
  BY <1>1 DEF Held
<1>4. Range(list[ask[c].creator]) = {}
  BY <1>2, <1>3, ReadsAssumption
<1> QED BY <1>4 DEF Counted

LEMMA RecentFigures ==
    ASSUME IInv, FInv, NEW c \in Clients, RecentTips(c)
    PROVE  FInv'
<1> DEFINE S == Counted(c, Null)  n == Cardinality(S)  m == StatsOf(c).count
<1>1. /\ pc[c] = "recent" /\ DOMAIN part[c] = {"stats", "top"}
      /\ StatsOf(c) \in Figure
      /\ Rises(shift[c], StatsOf(c), AllNow(c))
      /\ shift[c] = {} => AtMost(TopOf(c), StatsOf(c))
  BY DEF RecentTips, FInv, FiguresAt, ShownAt
<1>2. PICK R \in kSubset(Least(Recent, Cardinality(Shown(c))), Shown(c)) :
         /\ Give(c, "recent", R) /\ Goto(c, "end")
         /\ UNCHANGED <<table, ask, walk, shift>>
  BY DEF RecentTips
<1>3. AllNow(c).count = n /\ n \in Nat
  BY <1>1, CountedTips, FS_CardinalityType DEF IInv, AllNow, Tally
<1>4. S \subseteq Range(list[ask[c].creator])
  BY DEF Counted
<1>5. /\ R \subseteq Shown(c)
      /\ Cardinality(R) = Least(Recent, Cardinality(Shown(c)))
  BY <1>2 DEF kSubset
<1>6. /\ "less" \notin shift[c] => m <= n
      /\ shift[c] = {} => m = n
      /\ m \in Nat
  BY <1>1, <1>3 DEF Rises, AtMost, Figure
<1>7. /\ "less" \notin shift[c] => Least(Recent, m) <= Cardinality(R)
      /\ ask[c].creator \notin Walletless =>
            /\ shift[c] = {} => Cardinality(R) = Least(Recent, m)
            /\ R \subseteq Range(list[ask[c].creator])
  <2>1. CASE ask[c].creator \notin Walletless
    <3>1. Shown(c) = S
      BY <2>1 DEF Shown
    <3>2. Cardinality(R) = Least(Recent, n) /\ R \subseteq S
      BY <1>5, <3>1
    <3> HIDE DEF S, n, m
    <3> QED BY <1>3, <1>4, <1>6, <3>2, ReadsAssumption DEF Least
  <2>2. CASE ask[c].creator \in Walletless
    <3>1. n = 0
      BY <1>1, <2>2, NothingCounted, FS_EmptySet DEF IInv, FInv
    <3>2. Shown(c) = completed /\ completed \subseteq Tips
      BY <2>2 DEF Shown, IInv, TypeOK
    <3>3. Recent \in Nat
      BY ReadsAssumption
    <3>4. Least(Recent, m) = 0 \/ "less" \in shift[c]
      <4> HIDE DEF n, m
      <4> QED BY <1>6, <3>1, <3>3 DEF Least
    <3>5. IsFiniteSet(Shown(c)) => 0 <= Cardinality(R)
      BY <1>5, FS_Subset, FS_CardinalityType
    <3>6. IsFiniteSet(Shown(c))
      BY <3>2 DEF FInv, Held
    <3> HIDE DEF n, m
    <3> QED BY <2>2, <3>4, <3>5, <3>6
  <2> QED BY <2>1, <2>2
<1> HIDE DEF n, S, m
<1>8. /\ DOMAIN part'[c] = {"stats", "top", "recent"}
      /\ StatsOf(c)' = StatsOf(c) /\ TopOf(c)' = TopOf(c)
      /\ part'[c].recent = R
      /\ pc'[c] = "end" /\ shift' = shift /\ ask' = ask /\ list' = list
      /\ FiguresAt(c)' => FInv'
  BY <1>1, <1>2, Gives DEF StatsOf, TopOf
<1> QED BY <1>1, <1>7, <1>8
        DEF FiguresAt, AnalysedAt, ShownAt, Analytics, Tipping, Walking, m

LEMMA InitFInv == Init => FInv
BY FS_EmptySet DEF Init, FInv, Held, FiguresAt, AnalysedAt, ShownAt, Analytics, Tipping,
       Range

LEMMA NextFInv == IInv /\ IInv' /\ FInv /\ [Next]_vars => FInv'
<1> SUFFICES ASSUME IInv, IInv', FInv, [Next]_vars PROVE FInv'
  OBVIOUS
<1>1. CASE Table
  BY <1>1, TableFigures
<1>2. ASSUME NEW c \in Clients, Serve(c) PROVE FInv'
  BY <1>2, WalkFigures, SummaryFigures, ByAssetFigures, TimeSeriesFigures,
     TopSupportersFigures, StatsFigures, TopFigures, RecentFigures DEF Serve
<1>3. CASE UNCHANGED vars
  <2>1. UNCHANGED <<list, completed, pc, ask, part, shift>>
    BY <1>3 DEF vars, table, figures
  <2>2. Held'
    BY <2>1 DEF FInv, Held
  <2>3. ASSUME NEW c \in Clients PROVE FiguresAt(c)'
    <3>1. /\ SummaryOf(c)' = SummaryOf(c) /\ AssetsOf(c)' = AssetsOf(c)
          /\ SeriesOf(c)' = SeriesOf(c) /\ SupportersOf(c)' = SupportersOf(c)
          /\ StatsOf(c)' = StatsOf(c) /\ TopOf(c)' = TopOf(c)
      BY <2>1 DEF SummaryOf, AssetsOf, SeriesOf, SupportersOf, StatsOf, TopOf
    <3>2. /\ Now(c)' = Now(c) /\ AllNow(c)' = AllNow(c)
          /\ Analytics(c)' = Analytics(c) /\ Tipping(c)' = Tipping(c)
      BY <2>1 DEF Now, AllNow, Counted, Analytics, Tipping
    <3> QED BY <2>1, <3>1, <3>2 DEF FInv, FiguresAt, AnalysedAt, ShownAt
  <2> QED BY <2>2, <2>3 DEF FInv
<1> QED BY <1>1, <1>2, <1>3 DEF Next

LEMMA SpecFInv == Spec => []FInv
BY InitIInv, NextIInv, InitFInv, NextFInv, PTL DEF Spec

\* The parts of an answer are in the order they were counted in.
THEOREM PartsInOrder == Spec => []LaterPartsShowMore
<1>1. FInv => LaterPartsShowMore
  BY DEF FInv, FiguresAt, AnalysedAt, ShownAt, Rises, LaterPartsShowMore,
         SummaryOf, AssetsOf, SeriesOf, StatsOf
<1> QED BY <1>1, SpecFInv, PTL

\* The parts of an answer add up when nothing was completed or taken back
\* between the statements that counted them, and the page of a creator with a
\* wallet shows messages of the tips it counts.
THEOREM AnswersAddUp == Spec => []FiguresAddUp
<1>1. FInv => FiguresAddUp
  BY DEF FInv, FiguresAt, AnalysedAt, ShownAt, Rises, FiguresAddUp,
         SummaryOf, AssetsOf, SeriesOf, SupportersOf, StatsOf, TopOf
<1> QED BY <1>1, SpecFInv, PTL
=============================================================================
