--------------------------------- MODULE Inbox ---------------------------------
(***************************************************************************)
(* The notifications of one user: what the service inserts for tips and    *)
(* discrepancies, the list a client walks page by page, and the marking of *)
(* what it saw (notifications.service, notifications.controller).          *)
(*                                                                         *)
(* The list is ordered by createdAt alone.  The database stamps a row when *)
(* its insert begins and shows it when it ends, so a row may appear below  *)
(* younger ones; rows with one stamp come in an order of the database's    *)
(* own choosing, in every statement anew.  Nothing deletes a row.  The     *)
(* rows of other users are left out: every statement asks for userId.      *)
(***************************************************************************)
EXTENDS Integers, FiniteSets

CONSTANTS
    Notes,      \* ids; their number bounds the table
    Limit,      \* the page size the client asks for
    MaxTime     \* bound: the last stamp the database's clock gives

ASSUME InboxAssumption ==
    /\ IsFiniteSet(Notes)
    /\ Limit \in Nat \ {0}
    /\ MaxTime \in Nat \ {0}

VARIABLES
    now,        \* the database's clock
    createdAt,  \* per note: its stamp, 0 before its insert begins
    rows,       \* notes that are in the table
    isRead,     \* those of them with isRead true
    found,      \* notes that a markAsRead has read and not saved yet
    pc,         \* the client's walk: where it is
    page,       \* the page it asks for
    unread,     \* the notes of the page it still has to mark
    more,       \* hasNextPage, of the latest answer
    aim         \* history: the notes there were when the walk began

table == <<now, createdAt, rows, isRead>>
walk == <<pc, page, unread, more, aim>>
vars == <<table, found, walk>>

-----------------------------------------------------------------------------
(* Inserts.                                                                *)

Tick ==
    /\ now < MaxTime
    /\ now' = now + 1
    /\ UNCHANGED <<createdAt, rows, isRead, found, walk>>

\* createNotification's save begins, for a tip or for a discrepancy.
CreateNotification(n) ==
    /\ createdAt[n] = 0
    /\ createdAt' = [createdAt EXCEPT ![n] = now]
    /\ UNCHANGED <<now, rows, isRead, found, walk>>

\* Its transaction commits.  (One that fails is never seen.)
Commit(n) ==
    /\ createdAt[n] # 0
    /\ n \notin rows
    /\ rows' = rows \cup {n}
    /\ UNCHANGED <<now, createdAt, isRead, found, walk>>

-----------------------------------------------------------------------------
(* The list.                                                               *)

\* Every note of `above` may come before every note of `below`.
NoYounger(above, below) ==
    \A m \in above, n \in below : createdAt[m] >= createdAt[n]

\* The pages that a statement may return for this skip and take.
Pages(skip) ==
    {p \in SUBSET rows :
        /\ Cardinality(p) <= Limit
        /\ \E before \in SUBSET (rows \ p) :
              LET after == rows \ (p \cup before) IN
              /\ NoYounger(before, p) /\ NoYounger(p, after)
              /\ NoYounger(before, after)
              /\ Cardinality(before) = skip \/ (p = {} /\ after = {})
              /\ Cardinality(before) <= skip
              /\ Cardinality(p) = Limit \/ after = {}}

\* The rows before page n.
Skip(n) == (n - 1) * Limit

\* Mutant of TotalPages: Math.floor(total / limit).
TotalPagesFloor(total) == total \div Limit

\* Math.ceil(total / limit)
TotalPages(total) == (total + Limit - 1) \div Limit

\* A client asks for the first page.
StartWalk ==
    /\ pc \in {"idle", "end"}
    /\ pc' = "rows"
    /\ page' = 1
    /\ aim' = rows
    /\ UNCHANGED <<table, found, unread, more>>

\* The first statement of findAndCount.
SelectPage ==
    /\ pc = "rows"
    /\ \E p \in Pages(Skip(page)) : unread' = p \ isRead
    /\ pc' = "count"
    /\ UNCHANGED <<table, found, page, more, aim>>

\* The second statement, and the answer.
CountRows ==
    /\ pc = "count"
    /\ more' = (page < TotalPages(Cardinality(rows)))
    /\ pc' = "mark"
    /\ UNCHANGED <<table, found, page, unread, aim>>

\* The client has had its page marked, and follows hasNextPage.
NextPage ==
    /\ pc = "mark" /\ unread = {}
    /\ IF more THEN page' = page + 1 /\ pc' = "rows"
               ELSE pc' = "end" /\ UNCHANGED page
    /\ UNCHANGED <<table, found, unread, more, aim>>

\* A request of the walk fails and the client gives up.
GiveUp ==
    /\ pc \in {"rows", "count", "mark"}
    /\ pc' = "idle"
    /\ unread' = {}
    /\ UNCHANGED <<table, found, page, more, aim>>

-----------------------------------------------------------------------------
(* Marking.                                                                *)

\* Mutant of FindNote: what is not found is not refused.
FindAnyNote(n) ==
    /\ n \notin found
    /\ found' = found \cup {n}
    /\ UNCHANGED <<table, walk>>

\* markAsRead finds the note; an id without a row of the user is answered
\* with 404.  The walk asks for this, and so may other clients of the user.
FindNote(n) ==
    /\ n \in rows \ found
    /\ found' = found \cup {n}
    /\ UNCHANGED <<table, walk>>

\* It is saved as read, and the answer reaches the client.
SaveNote(n) ==
    /\ n \in found
    /\ found' = found \ {n}
    /\ isRead' = isRead \cup {n}
    /\ unread' = unread \ {n}
    /\ UNCHANGED <<now, createdAt, rows, pc, page, more, aim>>

\* It fails in between.
FailToSave(n) ==
    /\ n \in found
    /\ found' = found \ {n}
    /\ UNCHANGED <<table, walk>>

-----------------------------------------------------------------------------
Init ==
    /\ now = 1
    /\ createdAt = [n \in Notes |-> 0]
    /\ rows = {}
    /\ isRead = {}
    /\ found = {}
    /\ pc = "idle"
    /\ page = 1
    /\ unread = {}
    /\ more = FALSE
    /\ aim = {}

Walk == StartWalk \/ SelectPage \/ CountRows \/ NextPage \/ GiveUp

Next ==
    \/ Tick
    \/ Walk
    \/ \E n \in Notes :
          \/ CreateNotification(n) \/ Commit(n)
          \/ FindNote(n) \/ SaveNote(n) \/ FailToSave(n)

Spec == Init /\ [][Next]_vars

-----------------------------------------------------------------------------
\* Only stored notifications are read, listed or marked.
TypeOK ==
    /\ now \in 1 .. MaxTime
    /\ createdAt \in [Notes -> 0 .. MaxTime]
    /\ rows \subseteq {n \in Notes : createdAt[n] # 0}
    /\ isRead \subseteq rows
    /\ found \subseteq rows
    /\ pc \in {"idle", "rows", "count", "mark", "end"}
    /\ page \in Nat \ {0}
    /\ unread \subseteq rows
    /\ more \in BOOLEAN
    /\ aim \subseteq rows

\* createdAt names one notification only.
Stamped(n) == \A m \in Notes \ {n} : createdAt[m] # createdAt[n]

\* A client that walks the list to its end and marks what it sees has read
\* every notification there was at the first page, whatever arrived between
\* its pages and wherever in the order; notifications with equal createdAt,
\* which have no order of their own, are excepted.
InboxCleared ==
    pc = "end" => \A n \in aim : Stamped(n) => n \in isRead
=============================================================================
