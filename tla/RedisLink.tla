------------------------------- MODULE RedisLink -------------------------------
(***************************************************************************)
(* The connection of the rate limiter to Redis: RedisCommandConnection and *)
(* its caller RedisThrottlerStorage.increment, in one API instance.        *)
(*                                                                         *)
(* All requests of the instance share one RedisCommandConnection.  A       *)
(* command puts its own data listener on the socket; whatever arrives is   *)
(* given to every listener, and nothing ties a reply to the command that   *)
(* asked for it.  An action is one event of Node's loop with the promise   *)
(* reactions that follow it.                                               *)
(*                                                                         *)
(* A command opens at most one socket, so a socket is named after the      *)
(* command that opened it.  A chunk of data holds whole replies.           *)
(***************************************************************************)
EXTENDS Naturals, Sequences

CONSTANTS
    Commands,   \* calls of increment; each is made once
    Password,   \* does REDIS_URL hold a password?
    Null

ASSUME RedisAssumption ==
    /\ Password \in BOOLEAN
    /\ Null \notin Commands

VARIABLES
    socket,     \* this.socket
    link,       \* per socket: its state
    listeners,  \* per socket: the requests that listen to it, in order
    pending,    \* per socket: the requests Redis has still to answer
    authed,     \* sockets on which Redis has accepted the password
    buffer,     \* this.buffer: replies received and not consumed
    pc,         \* per command: where increment is suspended, or how it ended
    reply,      \* per command: the request whose reply decided it
    overlapped, \* history: a command began while another was undecided
    thrown,     \* history: parse has thrown an error reply
    silent      \* history: sockets closed without an 'error' event

sockets == <<socket, link, listeners, pending, authed>>
commands == <<pc, reply>>
vars == <<sockets, buffer, commands, overlapped, thrown, silent>>

Request == [cmd : Commands, kind : {"AUTH", "EVAL"}]
Reply == [to : Request, error : BOOLEAN]
LinkState == {"unused", "connecting", "open", "closed"}
Undecided == {"connecting", "AUTH", "EVAL"}
Label == Undecided \cup {"idle", "decided", "failedOpen"}

Authenticate(c) == [cmd |-> c, kind |-> "AUTH"]
Eval(c) == [cmd |-> c, kind |-> "EVAL"]

Listening(c, s) == \E i \in DOMAIN listeners[s] : listeners[s][i].cmd = c

-----------------------------------------------------------------------------
(* increment, up to its first wait.                                        *)

\* Command c puts its listener on socket s and writes a request.
Send(c, s, request) ==
    /\ listeners' = [listeners EXCEPT ![s] = Append(@, request)]
    /\ pending' = [pending EXCEPT ![s] = Append(@, request)]
    /\ pc' = [pc EXCEPT ![c] = request.kind]

\* Mutant of Increment: this.socket is assigned before it is connected.
IncrementAssignsEarly(c) ==
    /\ pc[c] = "idle"
    /\ IF socket # Null /\ link[socket] = "open"
       THEN /\ Send(c, socket, Eval(c))
            /\ UNCHANGED <<socket, link>>
       ELSE /\ link' = [link EXCEPT ![c] = "connecting"]
            /\ socket' = c
            /\ pc' = [pc EXCEPT ![c] = "connecting"]
            /\ UNCHANGED <<listeners, pending>>
    /\ overlapped' = (overlapped \/ \E d \in Commands : pc[d] \in Undecided)
    /\ UNCHANGED <<authed, buffer, reply, thrown, silent>>

\* An open socket is used at once, even if its password is still on the way.
Increment(c) ==
    /\ pc[c] = "idle"
    /\ IF socket # Null /\ link[socket] = "open"
       THEN /\ Send(c, socket, Eval(c))
            /\ UNCHANGED link
       ELSE /\ link' = [link EXCEPT ![c] = "connecting"]
            /\ pc' = [pc EXCEPT ![c] = "connecting"]
            /\ UNCHANGED <<listeners, pending>>
    /\ overlapped' = (overlapped \/ \E d \in Commands : pc[d] \in Undecided)
    /\ UNCHANGED <<socket, authed, buffer, reply, thrown, silent>>

-----------------------------------------------------------------------------
(* Opening a socket.                                                       *)

\* The last socket to connect becomes this.socket; an earlier one stays open.
Connected(s) ==
    /\ link[s] = "connecting"
    /\ link' = [link EXCEPT ![s] = "open"]
    /\ socket' = s
    /\ Send(s, s, IF Password THEN Authenticate(s) ELSE Eval(s))
    /\ UNCHANGED <<authed, buffer, reply, overlapped, thrown, silent>>

Refused(s) ==
    /\ link[s] = "connecting"
    /\ link' = [link EXCEPT ![s] = "closed"]
    /\ pc' = [pc EXCEPT ![s] = "failedOpen"]
    /\ UNCHANGED <<socket, listeners, pending, authed, buffer, reply,
                   overlapped, thrown, silent>>

-----------------------------------------------------------------------------
(* Data arrives.                                                           *)

\* The answers to the first k requests on s; those at the indices in bad are
\* errors.  Without an accepted password Redis refuses to evaluate.
Answers(s, k, bad) ==
    [i \in 1..k |-> [to |-> pending[s][i], error |-> i \in bad]]

Accepts(s, i, bad) ==
    \/ ~Password \/ s \in authed
    \/ \E j \in 1..(i - 1) : pending[s][j].kind = "AUTH" /\ j \notin bad

Possible(s, k, bad) ==
    \A i \in 1..k : pending[s][i].kind = "EVAL" /\ ~Accepts(s, i, bad)
                       => i \in bad

\* Every one of n listeners appends the chunk to the buffer, so the i-th
\* looks at the i-th reply of the buffer followed by n times the chunk.
Stream(n, chunk) ==
    [i \in 1..(Len(buffer) + n * Len(chunk)) |->
        IF i <= Len(buffer) THEN buffer[i]
        ELSE chunk[((i - Len(buffer) - 1) % Len(chunk)) + 1]]

\* The first listener that sees an error, and with it all after it: an error
\* is thrown before the buffer is advanced.  n + 1 if there is none.
FirstError(n, stream) ==
    CHOOSE i \in 1..(n + 1) :
        /\ i = n + 1 \/ stream[i].error
        /\ \A j \in 1..(i - 1) : ~stream[j].error

\* Mutant of Unread: a parsed reply stays in the buffer.
UnreadAll(first, stream) == stream

\* Mutant of Unread: an error empties the buffer.
UnreadClearedOnError(first, stream) ==
    IF first <= Len(stream) /\ stream[first].error
    THEN <<>> ELSE SubSeq(stream, first, Len(stream))

\* What is left in the buffer.
Unread(first, stream) == SubSeq(stream, first, Len(stream))

\* Mutant of StillListening: a rejected command leaves its listener behind.
RejectedStillListen(first, waiting) == SubSeq(waiting, first, Len(waiting))

\* Resolved or rejected, a command takes its listener off the socket.
StillListening(first, waiting) == <<>>

\* The AUTH of the command that opened a socket is the first request on it,
\* and no other is one.  Once it is answered, that command goes on.
Evaluations(resolved) ==
    IF resolved # <<>> /\ resolved[1].kind = "AUTH"
    THEN <<Eval(resolved[1].cmd)>> ELSE <<>>

\* A chunk with the first k answers arrives.  All listeners of s are settled:
\* before `first` they are resolved, each with the reply it saw, the others
\* are rejected.  After AUTH a command writes to what is this.socket by then,
\* and fails if that has been destroyed.
Data(s, k, bad) ==
    /\ link[s] = "open"
    /\ k \in 1..Len(pending[s])
    /\ bad \subseteq 1..k
    /\ Possible(s, k, bad)
    /\ LET waiting == listeners[s]
           stream == Stream(Len(waiting), Answers(s, k, bad))
           first == FirstError(Len(waiting), stream)
           writable == link[socket] = "open"
           next == IF writable THEN Evaluations(SubSeq(waiting, 1, first - 1))
                   ELSE <<>>
           At(c) == CHOOSE i \in DOMAIN waiting : waiting[i].cmd = c
           Settled(c) == IF At(c) >= first THEN "failedOpen"
                         ELSE IF waiting[At(c)].kind = "EVAL" THEN "decided"
                         ELSE IF writable THEN "EVAL" ELSE "failedOpen" IN
       /\ buffer' = Unread(first, stream)
       /\ thrown' = (thrown \/ first <= Len(waiting))
       /\ pc' = [c \in Commands |->
                    IF Listening(c, s) THEN Settled(c) ELSE pc[c]]
       /\ reply' = [c \in Commands |->
                       IF Listening(c, s) /\ Settled(c) = "decided"
                       THEN stream[At(c)].to ELSE reply[c]]
       /\ listeners' = [[listeners EXCEPT ![s] = StillListening(first, waiting)]
                           EXCEPT ![socket] = @ \o next]
       /\ pending' = [[pending EXCEPT ![s] = SubSeq(@, k + 1, Len(@))]
                           EXCEPT ![socket] = @ \o next]
    /\ authed' = IF \E i \in 1..k : pending[s][i].kind = "AUTH" /\ i \notin bad
                 THEN authed \cup {s} ELSE authed
    /\ UNCHANGED <<socket, link, overlapped, silent>>

-----------------------------------------------------------------------------
(* A socket closes.                                                        *)

Close(closing) ==
    /\ link' = [s \in Commands |-> IF s \in closing THEN "closed" ELSE link[s]]
    /\ pending' = [s \in Commands |-> IF s \in closing THEN <<>> ELSE pending[s]]

\* Mutant of Reset: a command does not listen for 'error'.
ResetUnheard(s) ==
    /\ link[s] = "open"
    /\ Close({s, socket})
    /\ silent' = IF link[socket] = "open" THEN silent \cup ({socket} \ {s})
                 ELSE silent
    /\ UNCHANGED <<socket, listeners, authed, buffer, pc, reply, overlapped,
                   thrown>>

\* The 'error' event of s rejects the commands that listen to s.  It also
\* destroys this.socket, whichever that is, without an event for those that
\* listen there.
Reset(s) ==
    /\ link[s] = "open"
    /\ Close({s, socket})
    /\ pc' = [c \in Commands |-> IF Listening(c, s) THEN "failedOpen"
                                 ELSE pc[c]]
    /\ listeners' = [listeners EXCEPT ![s] = <<>>]
    /\ silent' = IF link[socket] = "open" THEN silent \cup ({socket} \ {s})
                 ELSE silent
    /\ UNCHANGED <<socket, authed, buffer, reply, overlapped, thrown>>

\* Redis closes the connection in good order: 'end' and 'close', no 'error'.
\* No code listens for these.
End(s) ==
    /\ link[s] = "open"
    /\ Close({s})
    /\ silent' = silent \cup {s}
    /\ UNCHANGED <<socket, listeners, authed, buffer, commands, overlapped,
                   thrown>>

-----------------------------------------------------------------------------
Init ==
    /\ socket = Null
    /\ link = [s \in Commands |-> "unused"]
    /\ listeners = [s \in Commands |-> <<>>]
    /\ pending = [s \in Commands |-> <<>>]
    /\ authed = {}
    /\ buffer = <<>>
    /\ pc = [c \in Commands |-> "idle"]
    /\ reply = [c \in Commands |-> Null]
    /\ overlapped = FALSE
    /\ thrown = FALSE
    /\ silent = {}

Receive(s) ==
    \E k \in 1..Len(pending[s]) : \E bad \in SUBSET (1..k) : Data(s, k, bad)

Connect(s) == Connected(s) \/ Refused(s)

Next ==
    \E s \in Commands :
        \/ Increment(s)
        \/ Connect(s)
        \/ Receive(s)
        \/ Reset(s)
        \/ End(s)

\* The operating system ends every connection attempt, with a connection or
\* an error, and Redis answers what it is sent, as long as the socket is
\* open.  Nothing obliges a client to call, or a connection to break.
Fairness ==
    \A s \in Commands : WF_vars(Connect(s)) /\ WF_vars(Receive(s))

Spec == Init /\ [][Next]_vars

FairSpec == Spec /\ Fairness

-----------------------------------------------------------------------------
\* this.socket is a socket that has been connected.
TypeOK ==
    /\ socket \in {s \in Commands : link[s] \in {"open", "closed"}} \cup {Null}
    /\ link \in [Commands -> LinkState]
    /\ listeners \in [Commands -> Seq(Request)]
    /\ pending \in [Commands -> Seq(Request)]
    /\ authed \subseteq Commands
    /\ buffer \in Seq(Reply)
    /\ pc \in [Commands -> Label]
    /\ reply \in [Commands -> Request \cup {Null}]
    /\ overlapped \in BOOLEAN
    /\ thrown \in BOOLEAN
    /\ silent \subseteq Commands

\* Used by one request at a time, and until Redis answers with an error,
\* the connection gives each command the answer to its own evaluation and
\* leaves nothing in the buffer, whichever sockets came and went.
OwnReplyAlone ==
    ~overlapped /\ ~thrown =>
        /\ buffer = <<>>
        /\ \A c \in Commands : pc[c] = "decided" => reply[c] = Eval(c)

\* A command that listens to an open socket still has an answer to come on
\* it: it has not been passed over by a reply that others consumed.
AnswerOutstanding ==
    \A s \in Commands : link[s] = "open" =>
        \A i \in DOMAIN listeners[s] :
            \E j \in DOMAIN pending[s] : pending[s][j] = listeners[s][i]

\* parse throws before the buffer is advanced, and no code empties it: from
\* the first error reply on, the limiter decides nothing any more.
NothingPassesAnError ==
    [][thrown => \A c \in Commands :
                    pc'[c] = "decided" => pc[c] = "decided"]_vars

\* A call of increment ends, unless its socket was closed without an error
\* event under it.
SettledUnlessSilent ==
    \A c \in Commands :
        pc[c] \in Undecided ~>
            \/ pc[c] \in {"decided", "failedOpen"}
            \/ \E s \in silent : Listening(c, s)
=============================================================================
