------------------------------- MODULE TipReads -------------------------------
(***************************************************************************)
(* The endpoints that read tips: lists that a client walks page by page    *)
(* (tips.service), the public figures of a creator and the creator's       *)
(* analytics (profiles.service), next to a table that changes.             *)
(*                                                                         *)
(* One request sends several statements, and no transaction gives them one *)
(* snapshot.  One action is one statement that counts.                     *)
(***************************************************************************)
EXTENDS Sequences, FiniteSetsExt

CONSTANTS
    Clients,
    Tips,
    Creators,
    Walletless, \* those with no wallet, who signed up with an e-mail address
    Assets,
    Senders,    \* wallets that tips come from
    Receiver, Sender, Asset, Amount,    \* columns of a tip, never updated
    Limits,     \* page sizes that clients ask for
    Default,    \* the page size of those that ask for none (20)
    Largest,    \* the largest page size (100)
    Recent,     \* how many messages the public page shows
    Top,        \* how many supporters the analytics list
    Null

ASSUME ReadsAssumption ==
    /\ Receiver \in [Tips -> Creators \ Walletless]
    /\ Sender \in [Tips -> Senders \cup {Null}]
    /\ Asset \in [Tips -> Assets]
    /\ IsFiniteSet(Assets) /\ Null \notin Assets
    /\ Amount \in [Tips -> Nat \ {0}]
    /\ Limits \subseteq Int
    /\ {Largest, Recent, Top} \subseteq Nat \ {0}
    /\ Default \in 1 .. Largest

VARIABLES
    list,       \* per creator: the tips of its wallet, in the order walks ask for
    completed,  \* tips with status completed
    pc,         \* per client: the statement its request is suspended in
    ask,        \* per client: the request, as [creator, limit, asset]
    page,       \* per client: the page it asks for
    rows,       \* per client: the rows of that page
    got,        \* per client: the rows of the pages before
    part,       \* per client: the figures it has been given so far
    aim,        \* history, per client: the rows there were at the first page
    shift       \* history, per client: whether figures rose or fell meanwhile

walk == <<page, rows, got, aim>>
figures == <<part, shift>>
table == <<list, completed>>
vars == <<table, pc, ask, walk, figures>>

Label == {"idle", "rows", "count", "summary", "byAsset", "series",
          "supporters", "stats", "top", "recent", "end"}

Walking == {"rows", "count"}
Analysing == {"summary", "byAsset", "series", "supporters"}
Showing == {"stats", "top", "recent"}

Least(m, n) == IF m < n THEN m ELSE n

-----------------------------------------------------------------------------
(* The table.  No tip is ever deleted.                                     *)

\* History: the figures of the creator rise ("more") or fall ("less").
Shift(w, way) ==
    shift' = [c \in Clients |->
                IF pc[c] \in Analysing \cup Showing /\ ask[c].creator = w
                THEN shift[c] \cup {way} ELSE shift[c]]

\* A tip is inserted, anywhere in the order, completed or not.
CreateTip(t, i) ==
    LET w == Receiver[t] IN
    /\ t \notin Range(list[w])
    /\ i \in 1 .. Len(list[w]) + 1
    /\ list' = [list EXCEPT ![w] = SubSeq(@, 1, i - 1) \o <<t>>
                                      \o SubSeq(@, i, Len(@))]
    /\ \/ completed' = completed \cup {t} /\ Shift(w, "more")
       \/ UNCHANGED <<completed, shift>>
    /\ UNCHANGED <<pc, ask, walk, part>>

ConfirmTip(t) ==
    /\ t \in Range(list[Receiver[t]]) \ completed
    /\ completed' = completed \cup {t}
    /\ Shift(Receiver[t], "more")
    /\ UNCHANGED <<list, pc, ask, walk, part>>

\* A withdrawal saves a stale copy of the tip over its confirmation.
TakeBack(t) ==
    /\ t \in completed
    /\ completed' = completed \ {t}
    /\ Shift(Receiver[t], "less")
    /\ UNCHANGED <<list, pc, ask, walk, part>>

-----------------------------------------------------------------------------
(* Requests.                                                               *)

Goto(c, label) == pc' = [pc EXCEPT ![c] = label]

Start(c, label, request) ==
    /\ pc[c] = "idle"
    /\ Goto(c, label)
    /\ ask' = [ask EXCEPT ![c] = request]
    /\ UNCHANGED table

\* The client is done with the answer, or the request fails for good.
Leave(c) ==
    /\ pc[c] # "idle"
    /\ Goto(c, "idle")
    /\ ask' = [ask EXCEPT ![c] = Null]
    /\ page' = [page EXCEPT ![c] = 1]
    /\ rows' = [rows EXCEPT ![c] = {}]
    /\ got' = [got EXCEPT ![c] = {}]
    /\ aim' = [aim EXCEPT ![c] = {}]
    /\ part' = [part EXCEPT ![c] = <<>>]
    /\ shift' = [shift EXCEPT ![c] = {}]
    /\ UNCHANGED table

-----------------------------------------------------------------------------
(* Lists, page by page.                                                    *)

\* Mutant of StartWalk: the page size is not checked.
StartWalkUnchecked(c, w, n) ==
    LET size == IF n = 0 THEN Default ELSE n IN
    /\ Start(c, "rows", [creator |-> w, limit |-> size, asset |-> Null])
    /\ aim' = [aim EXCEPT ![c] = Range(list[w])]
    /\ UNCHANGED <<page, rows, got, figures>>

\* A page size out of bounds is refused.
StartWalk(c, w, n) ==
    LET size == IF n = 0 THEN Default ELSE n IN
    /\ size \in 1 .. Largest
    /\ Start(c, "rows", [creator |-> w, limit |-> size, asset |-> Null])
    /\ aim' = [aim EXCEPT ![c] = Range(list[w])]
    /\ UNCHANGED <<page, rows, got, figures>>

\* The rows before page n.
Skip(n, size) == (n - 1) * size

\* Mutant of TotalPages: Math.floor(total / limit).
TotalPagesFloor(total, size) == total \div size

\* Mutant of TotalPages: always one more than there are full pages.
TotalPagesOneMore(total, size) == total \div size + 1

\* Math.ceil(total / limit)
TotalPages(total, size) == (total + size - 1) \div size

\* The first statement of findAndCount, with skip and take.  The filter and
\* the order look at columns that no update changes; rows outside the filter
\* are left out, and rows that are equal in the order are told apart by id.
SelectPage(c) ==
    /\ pc[c] = "rows"
    /\ LET l == list[ask[c].creator]
           first == Skip(page[c], ask[c].limit) IN
       rows' = [rows EXCEPT ![c] =
                  {l[i] : i \in DOMAIN l \cap (first + 1 .. first + ask[c].limit)}]
    /\ Goto(c, "count")
    /\ UNCHANGED <<table, ask, page, got, aim, figures>>

\* The second statement, and the answer.  The client asks for the next page
\* when it hears that there is one.
CountRows(c) ==
    /\ pc[c] = "count"
    /\ got' = [got EXCEPT ![c] = @ \cup rows[c]]
    /\ rows' = [rows EXCEPT ![c] = {}]
    /\ IF page[c] < TotalPages(Len(list[ask[c].creator]), ask[c].limit)
       THEN page' = [page EXCEPT ![c] = @ + 1] /\ Goto(c, "rows")
       ELSE Goto(c, "end") /\ UNCHANGED page
    /\ UNCHANGED <<table, ask, aim, figures>>

\* The request fails and the client asks for the page again.
AskAgain(c) ==
    /\ pc[c] = "count"
    /\ Goto(c, "rows")
    /\ rows' = [rows EXCEPT ![c] = {}]
    /\ UNCHANGED <<table, ask, page, got, aim, figures>>

-----------------------------------------------------------------------------
(* Figures.                                                                *)

Tally(S) ==
    [count |-> Cardinality(S), amount |-> SumFunctionOnSet(Amount, S)]

\* For the mutants: pending tips are counted too.
CountedPending(c, a) ==
    {t \in Range(list[ask[c].creator]) : a = Null \/ Asset[t] = a}

\* The completed tips of the creator's wallet, of one asset or of all; no tip
\* is equal to NULL, the wallet of a creator who has none.
Counted(c, a) ==
    {t \in Range(list[ask[c].creator]) \cap completed : a = Null \/ Asset[t] = a}

Give(c, name, value) ==
    part' = [part EXCEPT ![c] = [n \in DOMAIN @ \cup {name} |->
                                   IF n = name THEN value ELSE @[n]]]

\* The senders of S, at most n, those who gave most; unnamed senders are
\* left out.
TopSenders(S, n) ==
    LET from == {Sender[t] : t \in S} \ {Null}
        Given(s) == Tally({t \in S : Sender[t] = s}) IN
    {[s \in T |-> Given(s)] :
        T \in {T \in SUBSET from :
                 /\ Cardinality(T) = Least(n, Cardinality(from))
                 /\ \A s \in T, r \in from \ T :
                       Given(s).amount >= Given(r).amount}}

GetAnalytics(c, w, a) ==
    /\ Start(c, "summary", [creator |-> w, limit |-> 1, asset |-> a])
    /\ UNCHANGED <<walk, figures>>

\* Mutant of Summary: pending tips are counted too.
SummaryPending(c) ==
    /\ pc[c] = "summary"
    /\ Give(c, "summary", Tally(CountedPending(c, ask[c].asset)))
    /\ Goto(c, "byAsset")
    /\ UNCHANGED <<table, ask, walk, shift>>

Summary(c) ==
    /\ pc[c] = "summary"
    /\ Give(c, "summary", Tally(Counted(c, ask[c].asset)))
    /\ Goto(c, "byAsset")
    /\ UNCHANGED <<table, ask, walk, shift>>

\* Mutant of ByAsset: pending tips are counted too.
ByAssetPending(c) ==
    /\ pc[c] = "byAsset"
    /\ Give(c, "byAsset", [x \in Assets |-> Tally(CountedPending(c, x))])
    /\ Goto(c, "series")
    /\ UNCHANGED <<table, ask, walk, shift>>

\* All assets, whatever the filter.
ByAsset(c) ==
    /\ pc[c] = "byAsset"
    /\ Give(c, "byAsset", [x \in Assets |-> Tally(Counted(c, x))])
    /\ Goto(c, "series")
    /\ UNCHANGED <<table, ask, walk, shift>>

\* The days are added up.
TimeSeries(c) ==
    /\ pc[c] = "series"
    /\ LET S == Counted(c, ask[c].asset) IN
       Give(c, "series", [x \in Assets |-> Tally({t \in S : Asset[t] = x})])
    /\ Goto(c, "supporters")
    /\ UNCHANGED <<table, ask, walk, shift>>

TopSupporters(c) ==
    /\ pc[c] = "supporters"
    /\ \E top \in TopSenders(Counted(c, ask[c].asset), Top) :
          Give(c, "supporters", top)
    /\ Goto(c, "end")
    /\ UNCHANGED <<table, ask, walk, shift>>

GetTippingInfo(c, w) ==
    /\ Start(c, "stats", [creator |-> w, limit |-> 1, asset |-> Null])
    /\ UNCHANGED <<walk, figures>>

TippingStats(c) ==
    /\ pc[c] = "stats"
    /\ Give(c, "stats", Tally(Counted(c, Null)))
    /\ Goto(c, "top")
    /\ UNCHANGED <<table, ask, walk, shift>>

TopSupporter(c) ==
    /\ pc[c] = "top"
    /\ \E top \in TopSenders(Counted(c, Null), 1) : Give(c, "top", top)
    /\ Goto(c, "recent")
    /\ UNCHANGED <<table, ask, walk, shift>>

\* The tips whose messages are shown.  find() leaves a null out of its
\* condition, so that every creator's tips answer for one without a wallet.
Shown(c) ==
    IF ask[c].creator \in Walletless THEN completed ELSE Counted(c, Null)

\* Some of them: the latest, whichever they are.
RecentTips(c) ==
    /\ pc[c] = "recent"
    /\ \E R \in kSubset(Least(Recent, Cardinality(Shown(c))), Shown(c)) :
          Give(c, "recent", R)
    /\ Goto(c, "end")
    /\ UNCHANGED <<table, ask, walk, shift>>

-----------------------------------------------------------------------------
Init ==
    /\ list = [w \in Creators |-> <<>>]
    /\ completed = {}
    /\ pc = [c \in Clients |-> "idle"]
    /\ ask = [c \in Clients |-> Null]
    /\ page = [c \in Clients |-> 1]
    /\ rows = [c \in Clients |-> {}]
    /\ got = [c \in Clients |-> {}]
    /\ part = [c \in Clients |-> <<>>]
    /\ aim = [c \in Clients |-> {}]
    /\ shift = [c \in Clients |-> {}]

Table ==
    \E t \in Tips :
        \/ \E i \in 1 .. Len(list[Receiver[t]]) + 1 : CreateTip(t, i)
        \/ ConfirmTip(t)
        \/ TakeBack(t)

Serve(c) ==
    \/ \E w \in Creators, n \in Limits : StartWalk(c, w, n)
    \/ SelectPage(c)
    \/ CountRows(c)
    \/ AskAgain(c)
    \/ \E w \in Creators, a \in Assets \cup {Null} : GetAnalytics(c, w, a)
    \/ Summary(c)
    \/ ByAsset(c)
    \/ TimeSeries(c)
    \/ TopSupporters(c)
    \/ \E w \in Creators : GetTippingInfo(c, w)
    \/ TippingStats(c)
    \/ TopSupporter(c)
    \/ RecentTips(c)
    \/ Leave(c)

Next == Table \/ \E c \in Clients : Serve(c)

Spec == Init /\ [][Next]_vars

-----------------------------------------------------------------------------
Request == [creator : Creators, limit : 1 .. Largest, asset : Assets \cup {Null}]

TypeOK ==
    /\ list \in [Creators -> Seq(Tips)]
    /\ completed \subseteq Tips
    /\ pc \in [Clients -> Label]
    /\ DOMAIN ask = Clients
    /\ \A c \in Clients : pc[c] # "idle" => ask[c] \in Request
    /\ page \in [Clients -> Nat \ {0}]
    /\ rows \in [Clients -> SUBSET Tips]
    /\ got \in [Clients -> SUBSET Tips]
    /\ aim \in [Clients -> SUBSET Tips]
    /\ shift \in [Clients -> SUBSET {"more", "less"}]
    /\ DOMAIN part = Clients

\* A client that follows hasNextPage to the end has seen every tip that was
\* there when it asked for the first page, however many were inserted before
\* or between its pages, in whatever order it asked.
WalkSeesAll ==
    \A c \in Clients : pc[c] = "end" => aim[c] \subseteq got[c]

\* hasNextPage never promises a page that is empty when it is asked for.
PromisedPageHasRows ==
    \A c \in Clients : pc[c] = "count" /\ page[c] > 1 => rows[c] # {}

Total(f) ==
    [count |-> SumFunction([x \in DOMAIN f |-> f[x].count]),
     amount |-> SumFunction([x \in DOMAIN f |-> f[x].amount])]

AtMost(x, y) == x.count <= y.count /\ x.amount <= y.amount

\* The part of the breakdown by asset that a filter is about.
Filtered(f, a) == IF a = Null THEN Total(f) ELSE f[a]

Analytics(c) == pc[c] = "end" /\ "summary" \in DOMAIN part[c]
Tipping(c) == pc[c] = "end" /\ "stats" \in DOMAIN part[c]

\* The figures of one answer are in the order they were counted in: a part
\* that was counted later shows no fewer tips and no smaller sum, unless a
\* confirmation was taken back meanwhile.
LaterPartsShowMore ==
    \A c \in Clients : "less" \notin shift[c] =>
        LET f == part[c]  a == ask[c].asset IN
        /\ Analytics(c) =>
              /\ AtMost(f.summary, Filtered(f.byAsset, a))
              /\ AtMost(Filtered(f.byAsset, a), Total(f.series))
        /\ Tipping(c) => Least(Recent, f.stats.count) <= Cardinality(f.recent)

\* The figures of one answer add up, if nothing was completed meanwhile and
\* nothing taken back: the parts give the same sums, supporters have given no
\* more than the creator received, and the public page of a creator who has a
\* wallet shows as many messages as it counts tips, up to its limit, all of
\* tips to that wallet.
FiguresAddUp ==
    \A c \in Clients : shift[c] = {} =>
        LET f == part[c]  a == ask[c].asset  w == ask[c].creator IN
        /\ Analytics(c) =>
              /\ f.summary = Filtered(f.byAsset, a)
              /\ f.summary = Total(f.series)
              /\ AtMost(Total(f.supporters), f.summary)
        /\ Tipping(c) =>
              /\ AtMost(Total(f.top), f.stats)
              /\ w \notin Walletless =>
                    /\ Cardinality(f.recent) = Least(Recent, f.stats.count)
                    /\ f.recent \subseteq Range(list[w])

\* The public page of a creator shows messages of tips to that creator.  The
\* code shows the messages of others when the creator has no wallet.
OwnMessages ==
    \A c \in Clients :
        Tipping(c) => part[c].recent \subseteq Range(list[ask[c].creator])
=============================================================================
