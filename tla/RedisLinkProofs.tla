---------------------------- MODULE RedisLinkProofs ----------------------------
(***************************************************************************)
(* What the shared connection of the rate limiter guarantees, for any      *)
(* number of commands, with and without a password.                        *)
(*                                                                         *)
(* Which replies a listener sees follows from the closed form of Data      *)
(* (StreamType, FirstErrorFound, DataEffect).  A socket that is not yet    *)
(* connected has neither listeners nor requests (Connecting), and a        *)
(* command listens in one place, for what it waits for (Hearing).  One     *)
(* command at a time finds the buffer empty and Redis asked for nothing    *)
(* else (Alone); after the first error its reply stays at the head of the  *)
(* buffer (Stuck).                                                         *)
(***************************************************************************)
EXTENDS RedisLink, WellFoundedInduction, SequenceTheorems, TLAPS

Connecting ==
    /\ \A s \in Commands : link[s] = "open" => socket # Null
    /\ \A s \in Commands : pc[s] = "idle" => link[s] = "unused"
    /\ \A s \in Commands : link[s] = "connecting" => pc[s] = "connecting"
    /\ \A s \in Commands : link[s] \in {"unused", "connecting"} =>
          listeners[s] = <<>> /\ pending[s] = <<>>

Hearing ==
    /\ \A s \in Commands : \A i \in DOMAIN listeners[s] :
          pc[listeners[s][i].cmd] = listeners[s][i].kind
    /\ \A s, t \in Commands :
          \A i \in DOMAIN listeners[s], j \in DOMAIN listeners[t] :
             listeners[s][i].cmd = listeners[t][j].cmd => s = t /\ i = j

Alone ==
    /\ ~overlapped =>
          \A c, d \in Commands : pc[c] \in Undecided /\ pc[d] \in Undecided => c = d
    /\ ~overlapped /\ ~thrown =>
          \A s \in Commands : link[s] = "open" => pending[s] = listeners[s]

Stuck == thrown => buffer # <<>> /\ buffer[1].error

IInv == /\ TypeOK /\ Connecting /\ Hearing
        /\ Alone /\ OwnReplyAlone /\ Stuck /\ AnswerOutstanding

-----------------------------------------------------------------------------
LEMMA Least ==
    ASSUME NEW S \in SUBSET Nat, S # {}
    PROVE  \E m \in S : \A n \in S : m <= n
<1> DEFINE R == OpToRel(<, Nat)
<1>1. IsWellFoundedOn(R, Nat)
  BY NatLessThanWellFounded
<1>2. \A m, n \in Nat : n < m => <<n, m>> \in R
  BY DEF OpToRel
<1> HIDE DEF R
<1>3. PICK m \in S : \A n \in S : ~ (<<n, m>> \in R)
  BY <1>1, WFMin, Zenon
<1>4. \A n \in S : ~ (n < m)
  BY <1>2, <1>3, Zenon
<1>5. m \in Nat /\ \A n \in S : n \in Nat
  OBVIOUS
<1> QED BY <1>4, <1>5

\* The first listener that sees an error is well defined.
LEMMA FirstErrorFound ==
    ASSUME NEW n \in Nat, NEW stream
    PROVE  LET first == FirstError(n, stream) IN
           /\ first \in 1..(n + 1)
           /\ first = n + 1 \/ stream[first].error
           /\ \A j \in 1..(first - 1) : ~stream[j].error
<1> DEFINE S == {i \in 1..(n + 1) : i = n + 1 \/ stream[i].error}
<1>1. S \in SUBSET Nat /\ n + 1 \in S
  OBVIOUS
<1>2. PICK m \in S : \A i \in S : m <= i
  BY <1>1, Least
<1>3. \A j \in 1..(m - 1) : ~stream[j].error
  BY <1>2
<1>4. \E i \in 1..(n + 1) :
         /\ i = n + 1 \/ stream[i].error
         /\ \A j \in 1..(i - 1) : ~stream[j].error
  BY <1>2, <1>3
<1> QED BY <1>4 DEF FirstError

\* There are as many replies to look at as there are listeners; the replies
\* of the buffer come first.
LEMMA StreamType ==
    ASSUME NEW n \in Nat, buffer \in Seq(Reply),
           NEW chunk \in Seq(Reply), chunk # <<>>
    PROVE  /\ Stream(n, chunk) \in Seq(Reply)
           /\ Len(Stream(n, chunk)) = Len(buffer) + n * Len(chunk)
           /\ Len(Stream(n, chunk)) >= n
           /\ \A i \in 1..Len(buffer) : Stream(n, chunk)[i] = buffer[i]
           /\ buffer = <<>> /\ n > 0 => Stream(n, chunk)[1] = chunk[1]
<1> DEFINE b == Len(buffer)
           l == Len(chunk)
           f == Stream(n, chunk)
<1>1. b \in Nat /\ l \in Nat \ {0}
  OBVIOUS
<1>2. n * l \in Nat /\ n * l >= n
  BY <1>1, SMTT(30)
<1>3. \A i \in 1..(b + n * l) : f[i] \in Reply
  <2> SUFFICES ASSUME NEW i \in 1..(b + n * l), i > b
               PROVE  chunk[((i - b - 1) % l) + 1] \in Reply
    BY <1>1, <1>2 DEF Stream
  <2>1. i - b - 1 \in Nat
    BY <1>1, <1>2
  <2>2. (i - b - 1) % l \in 0..(l - 1)
    <3> DEFINE a == i - b - 1
    <3> HIDE DEF a, l
    <3> QED BY <1>1, <2>1 DEF a
  <2> QED BY <1>1, <2>2
<1>4. f \in [1..(b + n * l) -> Reply]
  BY <1>3 DEF Stream
<1>5. f \in Seq(Reply) /\ Len(f) = b + n * l
  BY <1>1, <1>2, <1>4
<1>6. \A i \in 1..b : f[i] = buffer[i]
  BY <1>1, <1>2 DEF Stream
<1>7. ASSUME buffer = <<>>, n > 0 PROVE f[1] = chunk[1]
  <2>1. b = 0 /\ 1 \in 1..(b + n * l) /\ 0 % l = 0
    BY <1>1, <1>2, <1>7
  <2> QED BY <2>1 DEF Stream
<1> QED BY <1>1, <1>2, <1>5, <1>6, <1>7

-----------------------------------------------------------------------------
LEMMA Queues ==
    ASSUME NEW q \in [Commands -> Seq(Request)], NEW t \in Commands
    PROVE  /\ q[t] \in Seq(Request)
           /\ Len(q[t]) \in Nat
           /\ DOMAIN q[t] = 1..Len(q[t])
           /\ \A i \in 1..Len(q[t]) : /\ q[t][i] \in Request
                                      /\ q[t][i].cmd \in Commands
                                      /\ q[t][i].kind \in {"AUTH", "EVAL"}
<1>1. q[t] \in Seq(Request)
  OBVIOUS
<1>2. /\ Len(q[t]) \in Nat
      /\ DOMAIN q[t] = 1..Len(q[t])
      /\ \A i \in 1..Len(q[t]) : q[t][i] \in Request
  BY <1>1
<1> QED BY <1>1, <1>2 DEF Request

LEMMA InitInv == Init => IInv
<1> SUFFICES ASSUME Init PROVE IInv
  OBVIOUS
<1>1. <<>> \in Seq(Request) /\ <<>> \in Seq(Reply) /\ DOMAIN <<>> = {}
  OBVIOUS
<1>2. TypeOK
  BY <1>1 DEF Init, TypeOK, LinkState, Label
<1>3. Connecting /\ Stuck
  BY DEF Init, Connecting, Stuck
<1>4. \A s \in Commands : listeners[s] = <<>> /\ DOMAIN listeners[s] = {}
  BY <1>1 DEF Init
<1>5. Hearing /\ AnswerOutstanding
  BY <1>4 DEF Hearing, AnswerOutstanding
<1>6. Alone /\ OwnReplyAlone
  BY DEF Init, Alone, OwnReplyAlone, Undecided
<1> QED BY <1>2, <1>3, <1>5, <1>6 DEF IInv

\* A command that listens nowhere writes a request to a socket that is open
\* by then.
LEMMA Sent ==
    ASSUME IInv, NEW c \in Commands, NEW s \in Commands,
           pc[c] \in {"idle", "connecting"},
           NEW request \in Request, request.cmd = c,
           Send(c, s, request)
    PROVE  /\ listeners' \in [Commands -> Seq(Request)]
           /\ pending' \in [Commands -> Seq(Request)]
           /\ pc' \in [Commands -> Label]
           /\ Hearing'
           /\ \A t \in Commands : t # s =>
                 listeners'[t] = listeners[t] /\ pending'[t] = pending[t]
           /\ pending[s] = listeners[s] => pending'[s] = listeners'[s]
           /\ (\A i \in DOMAIN listeners[s] :
                  \E j \in DOMAIN pending[s] : pending[s][j] = listeners[s][i])
              => \A i \in DOMAIN listeners'[s] :
                    \E j \in DOMAIN pending'[s] : pending'[s][j] = listeners'[s][i]
<1>1. /\ listeners \in [Commands -> Seq(Request)]
      /\ pending \in [Commands -> Seq(Request)]
      /\ pc \in [Commands -> Label]
      /\ request.kind \in {"AUTH", "EVAL"}
  BY DEF IInv, TypeOK, Request
<1>2. /\ listeners'[s] = Append(listeners[s], request)
      /\ pending'[s] = Append(pending[s], request)
      /\ \A t \in Commands : t # s =>
            listeners'[t] = listeners[t] /\ pending'[t] = pending[t]
      /\ pc' = [pc EXCEPT ![c] = request.kind]
  BY <1>1 DEF Send
<1>3. /\ listeners' \in [Commands -> Seq(Request)]
      /\ pending' \in [Commands -> Seq(Request)]
  BY <1>1 DEF Send
<1>4. pc' \in [Commands -> Label]
  BY <1>1, <1>2 DEF Label, Undecided
<1>5. ASSUME NEW t \in Commands, NEW i \in DOMAIN listeners[t]
      PROVE  /\ listeners[t][i].cmd \in Commands \ {c}
             /\ pc[listeners[t][i].cmd] = listeners[t][i].kind
  <2>1. i \in 1..Len(listeners[t])
    BY <1>1, Queues
  <2>2. listeners[t][i].cmd \in Commands
    BY <1>1, <2>1, Queues
  <2>3. /\ pc[listeners[t][i].cmd] = listeners[t][i].kind
        /\ listeners[t][i].kind \in {"AUTH", "EVAL"}
    BY <1>1, <2>1, Queues DEF IInv, Hearing
  <2> QED BY <2>2, <2>3
<1>6. ASSUME NEW t \in Commands, NEW i \in DOMAIN listeners'[t]
      PROVE  \/ i \in DOMAIN listeners[t] /\ listeners'[t][i] = listeners[t][i]
             \/ t = s /\ i = Len(listeners[s]) + 1 /\ listeners'[t][i] = request
  <2>1. CASE t # s
    BY <1>2, <2>1
  <2>2. CASE t = s
    <3>1. listeners[s] \in Seq(Request) /\ DOMAIN listeners[s] = 1..Len(listeners[s])
      BY <1>1, Queues
    <3> QED BY <1>2, <2>2, <3>1
  <2> QED BY <2>1, <2>2
<1>7. Hearing'
  <2>1. ASSUME NEW t \in Commands, NEW i \in DOMAIN listeners'[t]
        PROVE  pc'[listeners'[t][i].cmd] = listeners'[t][i].kind
    <3>1. CASE i \in DOMAIN listeners[t] /\ listeners'[t][i] = listeners[t][i]
      BY <1>1, <1>2, <1>5, <3>1
    <3>2. CASE listeners'[t][i] = request
      BY <1>1, <1>2, <3>2
    <3> QED BY <1>6, <3>1, <3>2
  <2>2. ASSUME NEW t \in Commands, NEW u \in Commands,
               NEW i \in DOMAIN listeners'[t], NEW j \in DOMAIN listeners'[u],
               listeners'[t][i].cmd = listeners'[u][j].cmd
        PROVE  t = u /\ i = j
    BY <1>5, <1>6, <2>2 DEF IInv, Hearing
  <2> QED BY <2>1, <2>2 DEF Hearing
<1>8. ASSUME \A i \in DOMAIN listeners[s] :
                \E j \in DOMAIN pending[s] : pending[s][j] = listeners[s][i],
             NEW i \in DOMAIN listeners'[s]
      PROVE  \E j \in DOMAIN pending'[s] : pending'[s][j] = listeners'[s][i]
  <2>1. /\ Len(pending'[s]) = Len(pending[s]) + 1
        /\ DOMAIN pending'[s] = 1..Len(pending[s]) + 1
        /\ pending'[s][Len(pending[s]) + 1] = request
        /\ \A j \in DOMAIN pending[s] :
              j \in DOMAIN pending'[s] /\ pending'[s][j] = pending[s][j]
        /\ Len(pending[s]) \in Nat
    BY <1>1, <1>2, Queues
  <2>2. CASE listeners'[s][i] = request
    BY <2>1, <2>2
  <2>3. CASE i \in DOMAIN listeners[s] /\ listeners'[s][i] = listeners[s][i]
    BY <1>8, <2>1, <2>3
  <2> QED BY <1>6, <2>2, <2>3
<1> QED BY <1>2, <1>3, <1>4, <1>7, <1>8

-----------------------------------------------------------------------------
LEMMA IncrementStep ==
    ASSUME IInv, NEW c \in Commands, Increment(c)
    PROVE  IInv'
<1>1. TypeOK /\ Connecting /\ Hearing /\ pc[c] = "idle" /\ link[c] = "unused"
  BY DEF IInv, Connecting, Increment
<1>2. /\ overlapped' \in BOOLEAN
      /\ ~overlapped' => ~overlapped /\ \A d \in Commands : pc[d] \notin Undecided
  BY <1>1 DEF Increment, TypeOK
<1>3. UNCHANGED <<socket, authed, buffer, reply, thrown, silent>>
  BY DEF Increment
<1>4. CASE socket # Null /\ link[socket] = "open"
  <2>1. socket \in Commands /\ link[socket] = "open" /\ socket # c
    BY <1>1, <1>4 DEF TypeOK
  <2>2. Eval(c) \in Request /\ Eval(c).cmd = c /\ Eval(c).kind = "EVAL"
    BY DEF Eval, Request
  <2>3. Send(c, socket, Eval(c)) /\ link' = link
    BY <1>4 DEF Increment
  <2>4. /\ listeners' \in [Commands -> Seq(Request)]
        /\ pending' \in [Commands -> Seq(Request)]
        /\ pc' \in [Commands -> Label]
        /\ Hearing'
        /\ \A t \in Commands : t # socket =>
              listeners'[t] = listeners[t] /\ pending'[t] = pending[t]
        /\ pending[socket] = listeners[socket]
              => pending'[socket] = listeners'[socket]
        /\ AnswerOutstanding => AnswerOutstanding'
    <3>1. pc[c] \in {"idle", "connecting"}
      BY <1>1
    <3> DEFINE Out == \A i \in DOMAIN listeners[socket] :
                        \E j \in DOMAIN pending[socket] :
                           pending[socket][j] = listeners[socket][i]
               OutNext == \A i \in DOMAIN listeners'[socket] :
                        \E j \in DOMAIN pending'[socket] :
                           pending'[socket][j] = listeners'[socket][i]
    <3>2. /\ listeners' \in [Commands -> Seq(Request)]
          /\ pending' \in [Commands -> Seq(Request)]
          /\ pc' \in [Commands -> Label]
          /\ Hearing'
          /\ \A t \in Commands : t # socket =>
                listeners'[t] = listeners[t] /\ pending'[t] = pending[t]
          /\ pending[socket] = listeners[socket]
                => pending'[socket] = listeners'[socket]
          /\ Out => OutNext
      BY <2>1, <2>2, <2>3, <3>1, Sent
    <3>3. AnswerOutstanding => Out
      BY <2>1 DEF AnswerOutstanding
    <3>4. AnswerOutstanding => AnswerOutstanding'
      <4> SUFFICES ASSUME AnswerOutstanding, NEW t \in Commands, link'[t] = "open"
                   PROVE  \A i \in DOMAIN listeners'[t] :
                             \E j \in DOMAIN pending'[t] :
                                pending'[t][j] = listeners'[t][i]
        BY DEF AnswerOutstanding
      <4>1. CASE t = socket
        BY <3>2, <3>3, <4>1
      <4>2. CASE t # socket
        <5>1. \A i \in DOMAIN listeners[t] :
                 \E j \in DOMAIN pending[t] : pending[t][j] = listeners[t][i]
          BY <2>3 DEF AnswerOutstanding
        <5>2. listeners'[t] = listeners[t] /\ pending'[t] = pending[t]
          BY <3>2, <4>2
        <5> QED BY <5>1, <5>2
      <4> QED BY <4>1, <4>2
    <3> QED BY <3>2, <3>4
  <2>5. pc' = [pc EXCEPT ![c] = "EVAL"]
    BY <2>2, <2>3 DEF Send
  <2>6. TypeOK'
    BY <1>1, <1>2, <1>3, <2>3, <2>4 DEF TypeOK
  <2>7. Connecting'
    BY <1>1, <1>3, <2>1, <2>3, <2>4, <2>5 DEF TypeOK, Connecting
  <2>8. Alone'
    <3>1. ~overlapped' => \A d, e \in Commands :
             pc'[d] \in Undecided /\ pc'[e] \in Undecided => d = e
      BY <1>1, <1>2, <2>5 DEF TypeOK
    <3>2. ASSUME ~overlapped', ~thrown', NEW t \in Commands, link'[t] = "open"
          PROVE  pending'[t] = listeners'[t]
      <4>1. pending[t] = listeners[t] /\ pending[socket] = listeners[socket]
        <5>1. ~overlapped /\ ~thrown /\ link[t] = "open"
          BY <1>2, <1>3, <2>3, <3>2
        <5> QED BY <2>1, <5>1 DEF IInv, Alone
      <4> QED BY <2>4, <4>1
    <3> QED BY <3>1, <3>2 DEF Alone
  <2>9. OwnReplyAlone'
    BY <1>1, <1>2, <1>3, <2>5 DEF IInv, OwnReplyAlone, TypeOK
  <2>10. Stuck'
    BY <1>3 DEF IInv, Stuck
  <2> QED BY <2>4, <2>6, <2>7, <2>8, <2>9, <2>10 DEF IInv
<1>5. CASE ~(socket # Null /\ link[socket] = "open")
  <2>1. /\ link' = [link EXCEPT ![c] = "connecting"]
        /\ pc' = [pc EXCEPT ![c] = "connecting"]
        /\ UNCHANGED <<listeners, pending>>
    BY <1>5 DEF Increment
  <2>2. TypeOK'
    BY <1>1, <1>2, <1>3, <2>1 DEF TypeOK, LinkState, Label, Undecided
  <2>3. Connecting'
    BY <1>1, <1>3, <2>1 DEF TypeOK, Connecting
  <2>4. ASSUME NEW t \in Commands, NEW i \in DOMAIN listeners[t]
        PROVE  /\ listeners[t][i].cmd \in Commands \ {c}
               /\ pc'[listeners[t][i].cmd] = listeners[t][i].kind
    <3>1. listeners[t][i].cmd \in Commands /\ listeners[t][i].kind \in {"AUTH", "EVAL"}
      BY <1>1, Queues DEF TypeOK
    <3>2. pc[listeners[t][i].cmd] = listeners[t][i].kind
      BY <1>1 DEF Hearing
    <3> QED BY <1>1, <2>1, <3>1, <3>2 DEF TypeOK
  <2>5. Hearing'
    BY <1>1, <2>1, <2>4 DEF Hearing
  <2>6. Alone'
    BY <1>1, <1>2, <1>3, <2>1 DEF IInv, Alone, TypeOK
  <2>7. OwnReplyAlone'
    BY <1>1, <1>2, <1>3, <2>1 DEF IInv, OwnReplyAlone, TypeOK
  <2>8. AnswerOutstanding' /\ Stuck'
    BY <1>1, <1>3, <2>1 DEF IInv, AnswerOutstanding, Stuck, TypeOK
  <2> QED BY <2>2, <2>3, <2>5, <2>6, <2>7, <2>8 DEF IInv
<1> QED BY <1>4, <1>5

LEMMA ConnectedStep ==
    ASSUME IInv, NEW s \in Commands, Connected(s)
    PROVE  IInv'
<1> DEFINE request == IF Password THEN Authenticate(s) ELSE Eval(s)
<1>1. /\ TypeOK /\ Connecting /\ Hearing
      /\ link[s] = "connecting" /\ pc[s] = "connecting"
      /\ listeners[s] = <<>> /\ pending[s] = <<>>
  BY DEF IInv, Connecting, Connected
<1>2. /\ link' = [link EXCEPT ![s] = "open"]
      /\ socket' = s
      /\ Send(s, s, request)
      /\ UNCHANGED <<authed, buffer, reply, overlapped, thrown, silent>>
  BY DEF Connected
<1>3. request \in Request /\ request.cmd = s /\ request.kind \in {"AUTH", "EVAL"}
  BY RedisAssumption DEF Authenticate, Eval, Request
<1>4. pc' = [pc EXCEPT ![s] = request.kind]
  BY <1>2 DEF Send
<1> HIDE DEF request
<1>5. /\ listeners' \in [Commands -> Seq(Request)]
      /\ pending' \in [Commands -> Seq(Request)]
      /\ pc' \in [Commands -> Label]
      /\ Hearing'
      /\ \A t \in Commands : t # s =>
            listeners'[t] = listeners[t] /\ pending'[t] = pending[t]
      /\ pending'[s] = listeners'[s]
  BY <1>1, <1>2, <1>3, Sent
<1>6. TypeOK'
  BY <1>1, <1>2, <1>5 DEF TypeOK, LinkState
<1>7. Connecting'
  BY <1>1, <1>2, <1>3, <1>4, <1>5, RedisAssumption DEF TypeOK, Connecting
<1>8. Alone'
  <2>1. ASSUME ~overlapped', NEW c \in Commands, NEW d \in Commands,
               pc'[c] \in Undecided, pc'[d] \in Undecided
        PROVE  c = d
    <3>1. pc[c] \in Undecided /\ pc[d] \in Undecided
      BY <1>1, <1>4, <2>1 DEF TypeOK, Undecided
    <3> QED BY <1>2, <2>1, <3>1 DEF IInv, Alone
  <2>2. ASSUME ~overlapped', ~thrown', NEW t \in Commands, link'[t] = "open"
        PROVE  pending'[t] = listeners'[t]
    BY <1>1, <1>2, <1>5, <2>2 DEF IInv, Alone, TypeOK
  <2> QED BY <2>1, <2>2 DEF Alone
<1>9. OwnReplyAlone'
  BY <1>1, <1>2, <1>3, <1>4 DEF IInv, OwnReplyAlone, TypeOK
<1>10. AnswerOutstanding'
  <2> SUFFICES ASSUME NEW t \in Commands, link'[t] = "open",
                      NEW i \in DOMAIN listeners'[t]
               PROVE  \E j \in DOMAIN pending'[t] :
                         pending'[t][j] = listeners'[t][i]
    BY DEF AnswerOutstanding
  <2>1. CASE t = s
    BY <1>5, <2>1
  <2>2. CASE t # s
    BY <1>1, <1>2, <1>5, <2>2 DEF IInv, AnswerOutstanding, TypeOK
  <2> QED BY <2>1, <2>2
<1>11. Stuck'
  BY <1>2 DEF IInv, Stuck
<1> QED BY <1>5, <1>6, <1>7, <1>8, <1>9, <1>10, <1>11 DEF IInv

LEMMA RefusedStep ==
    ASSUME IInv, NEW s \in Commands, Refused(s)
    PROVE  IInv'
<1>1. /\ TypeOK /\ Connecting /\ Hearing
      /\ link[s] = "connecting" /\ pc[s] = "connecting"
  BY DEF IInv, Connecting, Refused
<1>2. /\ link' = [link EXCEPT ![s] = "closed"]
      /\ pc' = [pc EXCEPT ![s] = "failedOpen"]
      /\ UNCHANGED <<socket, listeners, pending, authed, buffer, reply,
                     overlapped, thrown, silent>>
  BY DEF Refused
<1>3. TypeOK'
  BY <1>1, <1>2 DEF TypeOK, LinkState, Label
<1>4. Connecting'
  BY <1>1, <1>2 DEF TypeOK, Connecting
<1>5. Hearing'
  <2>1. ASSUME NEW t \in Commands, NEW i \in DOMAIN listeners[t]
        PROVE  pc'[listeners[t][i].cmd] = listeners[t][i].kind
    <3>1. listeners[t][i].cmd \in Commands /\ listeners[t][i].kind \in {"AUTH", "EVAL"}
      BY <1>1, Queues DEF TypeOK
    <3>2. pc[listeners[t][i].cmd] = listeners[t][i].kind
      BY <1>1 DEF Hearing
    <3> QED BY <1>1, <1>2, <3>1, <3>2 DEF TypeOK
  <2> QED BY <1>1, <1>2, <2>1 DEF Hearing
<1>6. Alone'
  BY <1>1, <1>2 DEF IInv, Alone, TypeOK, Undecided
<1>7. OwnReplyAlone'
  BY <1>1, <1>2 DEF IInv, OwnReplyAlone, TypeOK
<1>8. AnswerOutstanding' /\ Stuck'
  BY <1>1, <1>2 DEF IInv, AnswerOutstanding, Stuck, TypeOK
<1> QED BY <1>3, <1>4, <1>5, <1>6, <1>7, <1>8 DEF IInv

\* Sockets are closed; commands that listened to s may be told.
LEMMA Closed ==
    ASSUME IInv, NEW s \in Commands, NEW closing \in SUBSET Commands, s \in closing,
           \A t \in closing : link[t] \in {"open", "closed"},
           Close(closing),
           UNCHANGED <<socket, authed, buffer, reply, overlapped, thrown>>,
           silent' \subseteq Commands,
           \/ UNCHANGED <<listeners, pc>>
           \/ /\ pc' = [c \in Commands |-> IF Listening(c, s) THEN "failedOpen"
                                           ELSE pc[c]]
              /\ listeners' = [listeners EXCEPT ![s] = <<>>]
    PROVE  IInv'
<1>1. TypeOK /\ Connecting /\ Hearing
  BY DEF IInv
<1>2. /\ \A t \in Commands : link'[t] = IF t \in closing THEN "closed" ELSE link[t]
      /\ \A t \in Commands : pending'[t] = IF t \in closing THEN <<>> ELSE pending[t]
      /\ link' \in [Commands -> LinkState]
      /\ pending' \in [Commands -> Seq(Request)]
  <2>1. <<>> \in Seq(Request)
    OBVIOUS
  <2> QED BY <1>1, <2>1 DEF Close, TypeOK, LinkState
<1>3. /\ \A t \in Commands \ {s} : listeners'[t] = listeners[t]
      /\ listeners'[s] \in {<<>>, listeners[s]}
      /\ listeners' \in [Commands -> Seq(Request)]
  <2>1. <<>> \in Seq(Request)
    OBVIOUS
  <2> QED BY <1>1, <2>1 DEF TypeOK
<1>4. \A c \in Commands : \/ pc'[c] = pc[c]
                          \/ Listening(c, s) /\ pc'[c] = "failedOpen"
  <2>1. CASE UNCHANGED <<listeners, pc>>
    BY <2>1
  <2>2. CASE pc' = [c \in Commands |-> IF Listening(c, s) THEN "failedOpen"
                                      ELSE pc[c]]
    BY <2>2
  <2> QED BY <2>1, <2>2
<1>5. pc' \in [Commands -> Label]
  BY <1>1 DEF TypeOK, Label
<1>6. TypeOK'
  BY <1>1, <1>2, <1>3, <1>5 DEF TypeOK
<1>7. ASSUME NEW t \in Commands, NEW i \in DOMAIN listeners[t]
      PROVE  /\ listeners[t][i].cmd \in Commands
             /\ pc[listeners[t][i].cmd] = listeners[t][i].kind
             /\ listeners[t][i].kind \in {"AUTH", "EVAL"}
  <2>1. i \in 1..Len(listeners[t])
    BY <1>1, Queues DEF TypeOK
  <2>2. listeners[t][i].cmd \in Commands /\ listeners[t][i].kind \in {"AUTH", "EVAL"}
    BY <1>1, <2>1, Queues DEF TypeOK
  <2>3. pc[listeners[t][i].cmd] = listeners[t][i].kind
    BY <1>1 DEF Hearing
  <2> QED BY <2>2, <2>3
<1>8. \A c \in Commands : Listening(c, s) => pc[c] \in {"AUTH", "EVAL"}
  BY <1>7 DEF Listening
<1>9. Connecting'
  <2>1. \A t \in Commands : link'[t] = "open" => socket' # Null
    BY <1>1, <1>2 DEF Connecting
  <2>2. \A t \in Commands : pc'[t] = "idle" => link'[t] = "unused"
    BY <1>1, <1>2, <1>4 DEF Connecting
  <2>3. \A t \in Commands : link'[t] = "connecting" => pc'[t] = "connecting"
    BY <1>1, <1>2, <1>4, <1>8 DEF Connecting
  <2>4. \A t \in Commands : link'[t] \in {"unused", "connecting"} =>
           listeners'[t] = <<>> /\ pending'[t] = <<>>
    BY <1>1, <1>2, <1>3 DEF Connecting
  <2> QED BY <2>1, <2>2, <2>3, <2>4 DEF Connecting
<1>10. Hearing'
  <2>1. CASE UNCHANGED <<listeners, pc>>
    BY <1>1, <2>1 DEF Hearing
  <2>2. CASE /\ pc' = [c \in Commands |-> IF Listening(c, s) THEN "failedOpen"
                                           ELSE pc[c]]
             /\ listeners' = [listeners EXCEPT ![s] = <<>>]
    <3>1. /\ listeners'[s] = <<>> /\ DOMAIN listeners'[s] = {}
          /\ \A t \in Commands \ {s} : listeners'[t] = listeners[t]
      BY <1>1, <2>2 DEF TypeOK
    <3>2. ASSUME NEW t \in Commands \ {s}, NEW i \in DOMAIN listeners[t]
          PROVE  pc'[listeners[t][i].cmd] = listeners[t][i].kind
      <4>1. ~Listening(listeners[t][i].cmd, s)
        BY <1>1, <3>2 DEF Listening, Hearing
      <4> QED BY <1>7, <2>2, <4>1
    <3> QED BY <1>1, <3>1, <3>2 DEF Hearing
  <2> QED BY <2>1, <2>2
<1>11. Alone'
  <2>1. \A c \in Commands : pc'[c] \in Undecided => pc[c] \in Undecided
    BY <1>4 DEF Undecided
  <2>2. \A t \in Commands : link'[t] = "open" =>
           /\ link[t] = "open"
           /\ listeners'[t] = listeners[t] /\ pending'[t] = pending[t]
    BY <1>2, <1>3
  <2> QED BY <2>1, <2>2 DEF IInv, Alone
<1>12. OwnReplyAlone'
  <2>1. \A c \in Commands : pc'[c] = "decided" => pc[c] = "decided"
    BY <1>4
  <2> QED BY <2>1 DEF IInv, OwnReplyAlone
<1>13. AnswerOutstanding'
  <2> SUFFICES ASSUME NEW t \in Commands, link'[t] = "open"
               PROVE  \A i \in DOMAIN listeners'[t] :
                         \E j \in DOMAIN pending'[t] :
                            pending'[t][j] = listeners'[t][i]
    BY DEF AnswerOutstanding
  <2>1. link[t] = "open" /\ listeners'[t] = listeners[t] /\ pending'[t] = pending[t]
    BY <1>2, <1>3
  <2>2. \A i \in DOMAIN listeners[t] :
           \E j \in DOMAIN pending[t] : pending[t][j] = listeners[t][i]
    BY <2>1 DEF IInv, AnswerOutstanding
  <2> QED BY <2>1, <2>2
<1>14. Stuck'
  BY DEF IInv, Stuck
<1> QED BY <1>6, <1>9, <1>10, <1>11, <1>12, <1>13, <1>14 DEF IInv

LEMMA CloseStep ==
    ASSUME IInv, NEW s \in Commands, Reset(s) \/ End(s)
    PROVE  IInv'
<1>1. link[s] = "open" /\ socket \in Commands /\ link[socket] \in {"open", "closed"}
  BY DEF IInv, TypeOK, Connecting, Reset, End
<1>2. CASE Reset(s)
  <2>1. silent' \subseteq Commands
    BY <1>1, <1>2 DEF IInv, TypeOK, Reset
  <2>2. {s, socket} \in SUBSET Commands /\ s \in {s, socket}
        /\ \A t \in {s, socket} : link[t] \in {"open", "closed"}
    BY <1>1
  <2> QED BY <1>2, <2>1, <2>2, Closed DEF Reset
<1>3. CASE End(s)
  <2>1. silent' \subseteq Commands
    BY <1>3 DEF IInv, TypeOK, End
  <2>2. {s} \in SUBSET Commands /\ s \in {s}
        /\ \A t \in {s} : link[t] \in {"open", "closed"}
    BY <1>1
  <2> QED BY <1>3, <2>1, <2>2, Closed DEF End, commands
<1> QED BY <1>2, <1>3

-----------------------------------------------------------------------------
\* A chunk of data, in the terms of its definition.
TheStream(s, k, bad) == Stream(Len(listeners[s]), Answers(s, k, bad))
TheFirst(s, k, bad) == FirstError(Len(listeners[s]), TheStream(s, k, bad))
TheNext(s, k, bad) ==
    IF link[socket] = "open"
    THEN Evaluations(SubSeq(listeners[s], 1, TheFirst(s, k, bad) - 1))
    ELSE <<>>
Outcome(s, k, bad, i) ==
    IF i >= TheFirst(s, k, bad) THEN "failedOpen"
    ELSE IF listeners[s][i].kind = "EVAL" THEN "decided"
    ELSE IF link[socket] = "open" THEN "EVAL" ELSE "failedOpen"

\* Every listener sees a reply of its own place; the buffer keeps the rest.
LEMMA ChunkType ==
    ASSUME IInv, NEW s \in Commands, NEW k \in 1..Len(pending[s]), NEW bad
    PROVE  /\ Answers(s, k, bad) \in Seq(Reply) /\ Answers(s, k, bad) # <<>>
           /\ Answers(s, k, bad)[1].to = pending[s][1]
           /\ TheStream(s, k, bad) \in Seq(Reply)
           /\ Len(TheStream(s, k, bad)) \in Nat
           /\ Len(TheStream(s, k, bad)) = Len(buffer) + Len(listeners[s]) * k
           /\ Len(TheStream(s, k, bad)) >= Len(listeners[s])
           /\ Len(TheStream(s, k, bad)) >= Len(buffer)
           /\ \A i \in 1..Len(buffer) : TheStream(s, k, bad)[i] = buffer[i]
           /\ buffer = <<>> /\ Len(listeners[s]) > 0 =>
                 TheStream(s, k, bad)[1] = Answers(s, k, bad)[1]
           /\ TheFirst(s, k, bad) \in 1..(Len(listeners[s]) + 1)
           /\ \/ TheFirst(s, k, bad) = Len(listeners[s]) + 1
              \/ TheStream(s, k, bad)[TheFirst(s, k, bad)].error
           /\ \A j \in 1..(TheFirst(s, k, bad) - 1) :
                 ~TheStream(s, k, bad)[j].error
<1> DEFINE chunk == Answers(s, k, bad)
           n == Len(listeners[s])
<1>1. /\ n \in Nat /\ k \in Nat \ {0} /\ buffer \in Seq(Reply) /\ Len(buffer) \in Nat
      /\ \A i \in 1..k : pending[s][i] \in Request
  <2>1. /\ listeners \in [Commands -> Seq(Request)]
        /\ pending \in [Commands -> Seq(Request)]
        /\ buffer \in Seq(Reply)
    BY DEF IInv, TypeOK
  <2> QED BY <2>1, Queues
<1>2. chunk \in [1..k -> Reply]
  BY <1>1 DEF Answers, Reply
<1>3. chunk \in Seq(Reply) /\ Len(chunk) = k /\ chunk # <<>>
  BY <1>1, <1>2
<1>4. chunk[1].to = pending[s][1]
  BY <1>1 DEF Answers
<1> HIDE DEF chunk
<1>5. /\ Stream(n, chunk) \in Seq(Reply)
      /\ Len(Stream(n, chunk)) = Len(buffer) + n * Len(chunk)
      /\ Len(Stream(n, chunk)) >= n
      /\ \A i \in 1..Len(buffer) : Stream(n, chunk)[i] = buffer[i]
      /\ buffer = <<>> /\ n > 0 => Stream(n, chunk)[1] = chunk[1]
  BY <1>1, <1>3, StreamType
<1>6. n * Len(chunk) \in Nat
  BY <1>1, <1>3, SMTT(30)
<1>7. LET first == FirstError(n, Stream(n, chunk)) IN
      /\ first \in 1..(n + 1)
      /\ first = n + 1 \/ Stream(n, chunk)[first].error
      /\ \A j \in 1..(first - 1) : ~Stream(n, chunk)[j].error
  BY <1>1, FirstErrorFound
<1>8. Stream(n, chunk) = TheStream(s, k, bad) /\ Answers(s, k, bad) = chunk
  BY DEF TheStream, chunk
<1>9. Len(Stream(n, chunk)) \in Nat /\ Len(Stream(n, chunk)) >= Len(buffer)
  BY <1>1, <1>5, <1>6
<1>10. FirstError(n, TheStream(s, k, bad)) = TheFirst(s, k, bad)
  BY DEF TheFirst
<1> HIDE DEF n
<1>11. LET first == TheFirst(s, k, bad) IN
      /\ first \in 1..(n + 1)
      /\ first = n + 1 \/ TheStream(s, k, bad)[first].error
      /\ \A j \in 1..(first - 1) : ~TheStream(s, k, bad)[j].error
  BY <1>7, <1>8, <1>10
<1>12. Len(TheStream(s, k, bad)) = Len(buffer) + n * k
  BY <1>3, <1>5, <1>8
<1> QED BY <1>3, <1>4, <1>5, <1>8, <1>9, <1>11, <1>12 DEF n

\* Who goes on to evaluate did listen, with its AUTH, and was not rejected.
LEMMA NextType ==
    ASSUME IInv, NEW s \in Commands, NEW k \in 1..Len(pending[s]), NEW bad
    PROVE  /\ TheNext(s, k, bad) \in Seq(Request)
           /\ \/ TheNext(s, k, bad) = <<>>
              \/ /\ listeners[s] # <<>> /\ TheFirst(s, k, bad) > 1
                 /\ listeners[s][1].kind = "AUTH"
                 /\ link[socket] = "open"
                 /\ TheNext(s, k, bad) = <<Eval(listeners[s][1].cmd)>>
<1> DEFINE first == TheFirst(s, k, bad)
           resolved == SubSeq(listeners[s], 1, first - 1)
<1>1. listeners[s] \in Seq(Request) /\ Len(listeners[s]) \in Nat
  BY DEF IInv, TypeOK
<1>2. first \in 1..(Len(listeners[s]) + 1)
  BY ChunkType
<1>3. CASE link[socket] = "open" /\ resolved # <<>> /\ resolved[1].kind = "AUTH"
  <2> HIDE DEF first
  <2>1. first > 1
    BY <1>1, <1>2, <1>3
  <2>2. resolved[1] = listeners[s][1] /\ listeners[s] # <<>>
    BY <1>1, <1>2, <2>1
  <2>3. listeners[s][1] \in Request /\ Eval(listeners[s][1].cmd) \in Request
    <3>1. listeners[s][1] \in Request
      BY <1>1, <1>2, <2>1
    <3>2. listeners[s][1].cmd \in Commands
      BY <3>1 DEF Request
    <3> QED BY <3>1, <3>2 DEF Request, Eval
  <2>4. TheNext(s, k, bad) = <<Eval(listeners[s][1].cmd)>>
    BY <1>3, <2>2 DEF TheNext, Evaluations, first
  <2>5. TheNext(s, k, bad) \in Seq(Request)
    BY <2>3, <2>4
  <2>6. listeners[s][1].kind = "AUTH"
    BY <1>3, <2>2
  <2> QED BY <1>3, <2>1, <2>2, <2>4, <2>5, <2>6 DEF first
<1>4. CASE ~(link[socket] = "open" /\ resolved # <<>> /\ resolved[1].kind = "AUTH")
  <2>1. TheNext(s, k, bad) = <<>>
    BY <1>4 DEF TheNext, Evaluations
  <2>2. <<>> \in Seq(Request)
    OBVIOUS
  <2> QED BY <2>1, <2>2
<1> QED BY <1>3, <1>4

\* What Data does, listener by listener.
LEMMA DataEffect ==
    ASSUME IInv, NEW s \in Commands, NEW k, NEW bad, Data(s, k, bad)
    PROVE  /\ k \in 1..Len(pending[s]) /\ link[s] = "open"
           /\ buffer' = SubSeq(TheStream(s, k, bad), TheFirst(s, k, bad),
                              Len(TheStream(s, k, bad)))
           /\ thrown' = (thrown \/ TheFirst(s, k, bad) <= Len(listeners[s]))
           /\ pc' = [c \in Commands |-> pc'[c]]
           /\ reply' = [c \in Commands |-> reply'[c]]
           /\ \A c \in Commands : ~Listening(c, s) =>
                 pc'[c] = pc[c] /\ reply'[c] = reply[c]
           /\ \A i \in 1..Len(listeners[s]) :
                 LET c == listeners[s][i].cmd IN
                 /\ pc'[c] = Outcome(s, k, bad, i)
                 /\ reply'[c] = IF Outcome(s, k, bad, i) = "decided"
                                THEN TheStream(s, k, bad)[i].to ELSE reply[c]
<1>1. k \in 1..Len(pending[s]) /\ link[s] = "open"
  BY DEF Data
<1>2. /\ buffer' = SubSeq(TheStream(s, k, bad), TheFirst(s, k, bad),
                         Len(TheStream(s, k, bad)))
      /\ thrown' = (thrown \/ TheFirst(s, k, bad) <= Len(listeners[s]))
  BY DEF Data, TheStream, TheFirst, Unread
<1> DEFINE At(c) == CHOOSE i \in DOMAIN listeners[s] : listeners[s][i].cmd = c
           Settled(c) == Outcome(s, k, bad, At(c))
<1>3. /\ pc' = [c \in Commands |-> IF Listening(c, s) THEN Settled(c) ELSE pc[c]]
      /\ reply' = [c \in Commands |->
                       IF Listening(c, s) /\ Settled(c) = "decided"
                       THEN TheStream(s, k, bad)[At(c)].to ELSE reply[c]]
  BY DEF Data, TheStream, TheFirst, Outcome
<1>4. \A i \in 1..Len(listeners[s]) :
         /\ listeners[s][i].cmd \in Commands
         /\ Listening(listeners[s][i].cmd, s)
         /\ At(listeners[s][i].cmd) = i
  <2>1. /\ DOMAIN listeners[s] = 1..Len(listeners[s])
        /\ \A i \in 1..Len(listeners[s]) : listeners[s][i].cmd \in Commands
    BY Queues DEF IInv, TypeOK
  <2>2. \A i, j \in DOMAIN listeners[s] :
           listeners[s][i].cmd = listeners[s][j].cmd => i = j
    BY DEF IInv, Hearing
  <2> QED BY <2>1, <2>2 DEF Listening
<1> HIDE DEF At
<1>5. ASSUME NEW i \in 1..Len(listeners[s])
      PROVE  LET c == listeners[s][i].cmd IN
             /\ pc'[c] = Outcome(s, k, bad, i)
             /\ reply'[c] = IF Outcome(s, k, bad, i) = "decided"
                            THEN TheStream(s, k, bad)[i].to ELSE reply[c]
  BY <1>3, <1>4
<1>6. /\ pc' = [c \in Commands |-> pc'[c]]
      /\ reply' = [c \in Commands |-> reply'[c]]
      /\ \A c \in Commands : ~Listening(c, s) =>
            pc'[c] = pc[c] /\ reply'[c] = reply[c]
  BY <1>3
<1> QED BY <1>1, <1>2, <1>5, <1>6

\* Its effect on the queues.
LEMMA DataQueues ==
    ASSUME IInv, NEW s \in Commands, NEW k, NEW bad, Data(s, k, bad)
    PROVE  /\ socket \in Commands
           /\ listeners' \in [Commands -> Seq(Request)]
           /\ pending' \in [Commands -> Seq(Request)]
           /\ \A t \in Commands :
                 LET heard == IF t = s THEN <<>> ELSE listeners[t]
                     open == IF t = s THEN SubSeq(pending[s], k + 1, Len(pending[s]))
                             ELSE pending[t]
                     next == IF t = socket THEN TheNext(s, k, bad) ELSE <<>> IN
                 listeners'[t] = heard \o next /\ pending'[t] = open \o next
<1> DEFINE next == TheNext(s, k, bad)
           rest == SubSeq(pending[s], k + 1, Len(pending[s]))
<1>1. /\ socket \in Commands
      /\ listeners \in [Commands -> Seq(Request)]
      /\ pending \in [Commands -> Seq(Request)]
      /\ k \in 1..Len(pending[s])
  BY DEF IInv, TypeOK, Connecting, Data
<1>2. next \in Seq(Request)
  BY <1>1, NextType
<1>3. rest \in Seq(Request) /\ <<>> \in Seq(Request)
  <2>1. /\ pending[s] \in Seq(Request) /\ Len(pending[s]) \in Nat
        /\ \A i \in (k + 1)..Len(pending[s]) : pending[s][i] \in Request
    BY <1>1, Queues
  <2>2. k + 1 \in Int /\ Len(pending[s]) \in Int
    BY <1>1, <2>1
  <2> QED BY <2>1, <2>2, SubSeqProperties
<1>4. /\ listeners' = [[listeners EXCEPT ![s] = <<>>] EXCEPT ![socket] = @ \o next]
      /\ pending' = [[pending EXCEPT ![s] = rest] EXCEPT ![socket] = @ \o next]
  BY DEF Data, TheNext, TheFirst, TheStream, StillListening
<1> HIDE DEF next, rest
<1>5. /\ listeners' \in [Commands -> Seq(Request)]
      /\ pending' \in [Commands -> Seq(Request)]
  <2>1. ASSUME NEW q \in [Commands -> Seq(Request)]
        PROVE  [q EXCEPT ![socket] = @ \o next] \in [Commands -> Seq(Request)]
    <3>1. q[socket] \o next \in Seq(Request)
      BY <1>1, <1>2
    <3> QED BY <1>1, <3>1
  <2>2. /\ [listeners EXCEPT ![s] = <<>>] \in [Commands -> Seq(Request)]
        /\ [pending EXCEPT ![s] = rest] \in [Commands -> Seq(Request)]
    BY <1>1, <1>3
  <2> QED BY <1>4, <2>1, <2>2
<1>6. ASSUME NEW t \in Commands
      PROVE  LET heard == IF t = s THEN <<>> ELSE listeners[t]
                 open == IF t = s THEN rest ELSE pending[t]
                 new == IF t = socket THEN next ELSE <<>> IN
             listeners'[t] = heard \o new /\ pending'[t] = open \o new
  <2>1. listeners[t] \in Seq(Request) /\ pending[t] \in Seq(Request)
    BY <1>1
  <2>2. \A q \in Seq(Request) : q \o <<>> = q
    OBVIOUS
  <2> QED BY <1>1, <1>3, <1>4, <2>1, <2>2
<1> QED BY <1>1, <1>5, <1>6 DEF next, rest

\* Who listens afterwards listened elsewhere before, or has just written its
\* command after its password was accepted.
LEMMA DataListeners ==
    ASSUME IInv, NEW s \in Commands, NEW k, NEW bad, Data(s, k, bad),
           NEW t \in Commands, NEW i \in DOMAIN listeners'[t]
    PROVE  \/ /\ t # s /\ i \in DOMAIN listeners[t]
              /\ listeners'[t][i] = listeners[t][i]
           \/ /\ t = socket /\ listeners[s] # <<>>
              /\ TheFirst(s, k, bad) > 1 /\ link[socket] = "open"
              /\ listeners[s][1].kind = "AUTH"
              /\ i = (IF t = s THEN 0 ELSE Len(listeners[t])) + 1
              /\ TheNext(s, k, bad) = <<Eval(listeners[s][1].cmd)>>
              /\ listeners'[t][i] = Eval(listeners[s][1].cmd)
<1> DEFINE heard == IF t = s THEN <<>> ELSE listeners[t]
           new == IF t = socket THEN TheNext(s, k, bad) ELSE <<>>
           after == listeners'[t]
<1>1. heard \in Seq(Request) /\ Len(heard) \in Nat
  BY DEF IInv, TypeOK
<1>2. k \in 1..Len(pending[s])
  BY DEF Data
<1>3. /\ new \in Seq(Request)
      /\ \/ new = <<>>
         \/ /\ t = socket /\ listeners[s] # <<>> /\ TheFirst(s, k, bad) > 1
            /\ listeners[s][1].kind = "AUTH"
            /\ link[socket] = "open"
            /\ new = <<Eval(listeners[s][1].cmd)>>
            /\ TheNext(s, k, bad) = new
  <2>1. <<>> \in Seq(Request)
    OBVIOUS
  <2> QED BY <1>2, <2>1, NextType
<1>4. after = heard \o new
  BY DataQueues
<1>5. i \in DOMAIN after
  OBVIOUS
<1> HIDE DEF after, new, heard
<1>6. \/ i \in 1..Len(heard) /\ after[i] = heard[i]
      \/ new # <<>> /\ i \in (Len(heard) + 1)..(Len(heard) + Len(new))
                   /\ after[i] = new[i - Len(heard)]
  BY <1>1, <1>3, <1>4, <1>5
<1>7. CASE i \in 1..Len(heard) /\ after[i] = heard[i]
  <2>1. t # s
    BY <1>7 DEF heard
  <2>2. heard = listeners[t] /\ DOMAIN heard = 1..Len(heard)
    BY <1>1, <2>1 DEF heard
  <2> QED BY <1>7, <2>1, <2>2 DEF after
<1>8. CASE new # <<>> /\ i \in (Len(heard) + 1)..(Len(heard) + Len(new))
                     /\ after[i] = new[i - Len(heard)]
  <2>1. Len(new) = 1 /\ new[1] = Eval(listeners[s][1].cmd)
    BY <1>3, <1>8
  <2>2. i = Len(heard) + 1 /\ i - Len(heard) = 1
    BY <1>1, <1>8, <2>1
  <2>3. after[i] = Eval(listeners[s][1].cmd)
    BY <1>8, <2>1, <2>2
  <2>4. Len(heard) = IF t = s THEN 0 ELSE Len(listeners[t])
    BY DEF heard
  <2> QED BY <1>3, <1>8, <2>2, <2>3, <2>4 DEF after
<1> QED BY <1>6, <1>7, <1>8

LEMMA ListenersWait ==
    ASSUME IInv, NEW s \in Commands, NEW i \in 1..Len(listeners[s])
    PROVE  /\ i \in DOMAIN listeners[s] /\ listeners[s][i] \in Request
           /\ listeners[s][i].cmd \in Commands
           /\ listeners[s][i].kind \in {"AUTH", "EVAL"}
           /\ pc[listeners[s][i].cmd] = listeners[s][i].kind
           /\ Listening(listeners[s][i].cmd, s)
<1>1. /\ i \in DOMAIN listeners[s] /\ listeners[s][i] \in Request
      /\ listeners[s][i].cmd \in Commands
      /\ listeners[s][i].kind \in {"AUTH", "EVAL"}
  BY Queues DEF IInv, TypeOK
<1> QED BY <1>1 DEF IInv, Hearing, Listening

LEMMA DataTypes ==
    ASSUME IInv, NEW s \in Commands, NEW k, NEW bad, Data(s, k, bad)
    PROVE  TypeOK' /\ Connecting'
<1>1. /\ TypeOK /\ Connecting /\ link[s] = "open" /\ k \in 1..Len(pending[s])
      /\ UNCHANGED <<socket, link, overlapped, silent>>
  BY DEF IInv, Data
<1>2. /\ TheStream(s, k, bad) \in Seq(Reply)
      /\ Len(TheStream(s, k, bad)) \in Nat
      /\ Len(TheStream(s, k, bad)) >= Len(listeners[s])
      /\ TheFirst(s, k, bad) \in 1..(Len(listeners[s]) + 1)
      /\ Len(listeners[s]) \in Nat
  <2>1. Len(listeners[s]) \in Nat
    BY <1>1, Queues DEF TypeOK
  <2> QED BY <1>1, <2>1, ChunkType
<1>3. buffer' \in Seq(Reply)
  <2> DEFINE stream == TheStream(s, k, bad)
             first == TheFirst(s, k, bad)
  <2>1. buffer' = SubSeq(stream, first, Len(stream))
    BY DataEffect
  <2>2. stream \in Seq(Reply) /\ Len(stream) \in Nat /\ first \in Nat \ {0}
    BY <1>2
  <2> HIDE DEF stream, first
  <2>3. first \in Int /\ Len(stream) \in Int
        /\ \A i \in first..Len(stream) : stream[i] \in Reply
    BY <2>2
  <2>4. SubSeq(stream, first, Len(stream)) \in Seq(Reply)
    BY <2>3, SubSeqProperties
  <2> QED BY <2>1, <2>4
<1>4. ASSUME NEW c \in Commands
      PROVE  /\ pc'[c] \in Label
             /\ reply'[c] \in Request \cup {Null}
             /\ pc'[c] = "idle" => pc[c] = "idle"
             /\ pc[c] = "connecting" => pc'[c] = "connecting"
  <2>1. CASE ~Listening(c, s)
    <3>1. pc'[c] = pc[c] /\ reply'[c] = reply[c]
      BY <2>1, DataEffect
    <3> QED BY <1>1, <3>1 DEF TypeOK
  <2>2. CASE Listening(c, s)
    <3>1. PICK i \in 1..Len(listeners[s]) : listeners[s][i].cmd = c
      BY <1>1, <2>2, Queues DEF Listening, TypeOK
    <3>2. pc[c] \in {"AUTH", "EVAL"}
      BY <3>1, ListenersWait
    <3>3. pc'[c] \in {"failedOpen", "decided", "EVAL"}
      BY <3>1, DataEffect DEF Outcome
    <3>4. TheStream(s, k, bad)[i].to \in Request
      <4>1. TheStream(s, k, bad)[i] \in Reply
        BY <1>2
      <4> QED BY <4>1 DEF Reply
    <3>5. reply'[c] = TheStream(s, k, bad)[i].to \/ reply'[c] = reply[c]
      BY <3>1, DataEffect
    <3> QED BY <1>1, <3>2, <3>3, <3>4, <3>5 DEF TypeOK, Label, Undecided
  <2> QED BY <2>1, <2>2
<1>5. /\ pc' \in [Commands -> Label]
      /\ reply' \in [Commands -> Request \cup {Null}]
  <2>1. /\ pc' = [c \in Commands |-> pc'[c]]
        /\ reply' = [c \in Commands |-> reply'[c]]
    BY DataEffect
  <2> QED BY <1>4, <2>1
<1>6. authed' \subseteq Commands /\ thrown' \in BOOLEAN
  BY <1>1 DEF Data, TypeOK
<1>7. /\ socket \in Commands
      /\ listeners' \in [Commands -> Seq(Request)]
      /\ pending' \in [Commands -> Seq(Request)]
  BY DataQueues
<1>8. TypeOK'
  BY <1>1, <1>3, <1>5, <1>6, <1>7 DEF TypeOK
<1>9. ASSUME NEW t \in Commands, link[t] \in {"unused", "connecting"}
      PROVE  listeners'[t] = <<>> /\ pending'[t] = <<>>
  <2>1. t # s /\ t # socket /\ listeners[t] = <<>> /\ pending[t] = <<>>
    BY <1>1, <1>7, <1>9, RedisAssumption DEF TypeOK, Connecting
  <2>2. listeners'[t] = <<>> \o <<>> /\ pending'[t] = <<>> \o <<>>
    BY <2>1, DataQueues
  <2> QED BY <2>2
<1>10. Connecting'
  BY <1>1, <1>4, <1>9 DEF Connecting
<1> QED BY <1>8, <1>10

LEMMA DataHearing ==
    ASSUME IInv, NEW s \in Commands, NEW k, NEW bad, Data(s, k, bad)
    PROVE  Hearing'
<1> DEFINE c1 == listeners[s][1].cmd
           IsOld(t, i) == /\ t # s /\ i \in DOMAIN listeners[t]
                          /\ listeners'[t][i] = listeners[t][i]
           IsNew(t, i) == /\ t = socket /\ listeners[s] # <<>>
                          /\ TheFirst(s, k, bad) > 1 /\ link[socket] = "open"
                          /\ listeners[s][1].kind = "AUTH"
                          /\ i = (IF t = s THEN 0 ELSE Len(listeners[t])) + 1
                          /\ listeners'[t][i] = Eval(c1)
<1>1. \A t \in Commands : \A i \in DOMAIN listeners'[t] : IsOld(t, i) \/ IsNew(t, i)
  BY DataListeners
<1>2. \A t \in Commands : /\ DOMAIN listeners[t] = 1..Len(listeners[t])
                          /\ Len(listeners[t]) \in Nat
                          /\ listeners[t] = <<>> \/ 1 \in DOMAIN listeners[t]
  BY Queues DEF IInv, TypeOK
<1>3. \A u, v \in Commands : \A i \in DOMAIN listeners[u], j \in DOMAIN listeners[v] :
         listeners[u][i].cmd = listeners[v][j].cmd => u = v /\ i = j
  BY DEF IInv, Hearing
<1>4. ASSUME NEW t \in Commands, NEW i \in DOMAIN listeners'[t], IsOld(t, i)
      PROVE  /\ pc'[listeners'[t][i].cmd] = listeners'[t][i].kind
             /\ listeners[s] # <<>> => listeners'[t][i].cmd # c1
  <2>1. /\ listeners[t][i].cmd \in Commands
        /\ pc[listeners[t][i].cmd] = listeners[t][i].kind
    BY <1>2, <1>4, ListenersWait
  <2>2. ~Listening(listeners[t][i].cmd, s)
    BY <1>3, <1>4 DEF Listening
  <2>3. pc'[listeners[t][i].cmd] = pc[listeners[t][i].cmd]
    BY <2>1, <2>2, DataEffect
  <2>4. listeners[s] # <<>> => listeners[t][i].cmd # c1
    BY <1>2, <1>3, <1>4
  <2> QED BY <1>4, <2>1, <2>3, <2>4
<1>5. ASSUME NEW t \in Commands, NEW i \in DOMAIN listeners'[t], IsNew(t, i)
      PROVE  pc'[listeners'[t][i].cmd] = listeners'[t][i].kind
  <2>1. 1 \in 1..Len(listeners[s])
    BY <1>2, <1>5
  <2>2. pc'[c1] = Outcome(s, k, bad, 1)
    BY <2>1, DataEffect
  <2>3. k \in 1..Len(pending[s]) /\ TheFirst(s, k, bad) \in Nat
    BY <1>2, ChunkType DEF Data
  <2>4. Outcome(s, k, bad, 1) = "EVAL"
    BY <1>5, <2>3 DEF Outcome
  <2> QED BY <1>5, <2>2, <2>4 DEF Eval
<1>6. ASSUME NEW t \in Commands, NEW u \in Commands,
             NEW i \in DOMAIN listeners'[t], NEW j \in DOMAIN listeners'[u],
             listeners'[t][i].cmd = listeners'[u][j].cmd
      PROVE  t = u /\ i = j
  <2>1. CASE IsOld(t, i) /\ IsOld(u, j)
    BY <1>3, <1>6, <2>1
  <2>2. CASE IsOld(t, i) /\ IsNew(u, j)
    BY <1>4, <1>6, <2>2 DEF Eval
  <2>3. CASE IsNew(t, i) /\ IsOld(u, j)
    BY <1>4, <1>6, <2>3 DEF Eval
  <2>4. CASE IsNew(t, i) /\ IsNew(u, j)
    BY <2>4
  <2> QED BY <1>1, <2>1, <2>2, <2>3, <2>4
<1> QED BY <1>1, <1>4, <1>5, <1>6 DEF Hearing

LEMMA DataOutstanding ==
    ASSUME IInv, NEW s \in Commands, NEW k, NEW bad, Data(s, k, bad)
    PROVE  AnswerOutstanding'
<1> SUFFICES ASSUME NEW t \in Commands, link[t] = "open",
                    NEW i \in DOMAIN listeners'[t]
             PROVE  \E j \in DOMAIN pending'[t] : pending'[t][j] = listeners'[t][i]
  BY DEF AnswerOutstanding, Data
<1> DEFINE open == IF t = s THEN SubSeq(pending[s], k + 1, Len(pending[s]))
                   ELSE pending[t]
           new == IF t = socket THEN TheNext(s, k, bad) ELSE <<>>
<1>1. k \in 1..Len(pending[s]) /\ pending[s] \in Seq(Request) /\ pending[t] \in Seq(Request)
  BY DEF IInv, TypeOK, Data
<1>2. open \in Seq(Request) /\ Len(open) \in Nat
  <2>1. /\ Len(pending[s]) \in Int /\ k + 1 \in Int
        /\ \A j \in (k + 1)..Len(pending[s]) : pending[s][j] \in Request
    BY <1>1
  <2>2. SubSeq(pending[s], k + 1, Len(pending[s])) \in Seq(Request)
    BY <2>1, SubSeqProperties
  <2> QED BY <1>1, <2>2
<1>3. new \in Seq(Request)
  <2>1. <<>> \in Seq(Request)
    OBVIOUS
  <2> QED BY <1>1, <2>1, NextType
<1>4. pending'[t] = open \o new
  BY DataQueues
<1>5. CASE t # s /\ i \in DOMAIN listeners[t] /\ listeners'[t][i] = listeners[t][i]
  <2>1. PICK j \in DOMAIN pending[t] : pending[t][j] = listeners[t][i]
    BY <1>5 DEF IInv, AnswerOutstanding
  <2>2. open = pending[t]
    BY <1>5
  <2> HIDE DEF open, new
  <2>3. j \in 1..Len(open)
    BY <1>2, <2>1, <2>2
  <2>4. j \in DOMAIN (open \o new) /\ (open \o new)[j] = open[j]
    BY <1>2, <1>3, <2>3
  <2> QED BY <1>4, <1>5, <2>1, <2>2, <2>4
<1>6. CASE /\ t = socket /\ TheNext(s, k, bad) = <<Eval(listeners[s][1].cmd)>>
           /\ listeners'[t][i] = Eval(listeners[s][1].cmd)
  <2>1. Len(new) = 1 /\ new[1] = listeners'[t][i]
    BY <1>6
  <2> HIDE DEF open, new
  <2>2. /\ Len(open) + 1 \in DOMAIN (open \o new)
        /\ (open \o new)[Len(open) + 1] = new[1]
    <3>1. /\ open \o new \in Seq(Request)
          /\ Len(open \o new) = Len(open) + Len(new)
          /\ \A j \in 1..Len(open) + Len(new) :
                (open \o new)[j] = IF j <= Len(open) THEN open[j]
                                    ELSE new[j - Len(open)]
      BY <1>2, <1>3, ConcatProperties
    <3>2. Len(open) + 1 \in 1..Len(open) + Len(new)
      BY <1>2, <2>1
    <3>3. (open \o new)[Len(open) + 1] = new[(Len(open) + 1) - Len(open)]
      BY <1>2, <3>1, <3>2
    <3>4. (Len(open) + 1) - Len(open) = 1
      BY <1>2
    <3> QED BY <3>1, <3>2, <3>3, <3>4
  <2> QED BY <1>4, <2>1, <2>2
<1> QED BY <1>5, <1>6, DataListeners

\* Used by one request at a time, a socket with an answer to come has one
\* listener, and the answer is to it.
LEMMA OneListener ==
    ASSUME IInv, ~overlapped, ~thrown,
           NEW s \in Commands, link[s] = "open", pending[s] # <<>>
    PROVE  /\ pending[s] = listeners[s] /\ Len(listeners[s]) = 1
           /\ buffer = <<>>
<1>1. pending[s] = listeners[s] /\ buffer = <<>>
  BY DEF IInv, Alone, OwnReplyAlone
<1>2. listeners[s] \in Seq(Request) /\ Len(listeners[s]) \in Nat \ {0}
  BY <1>1 DEF IInv, TypeOK
<1>3. ASSUME Len(listeners[s]) > 1 PROVE FALSE
  <2>1. 1 \in 1..Len(listeners[s]) /\ 2 \in 1..Len(listeners[s])
    BY <1>2, <1>3
  <2>2. /\ listeners[s][1].cmd \in Commands /\ listeners[s][2].cmd \in Commands
        /\ pc[listeners[s][1].cmd] \in Undecided
        /\ pc[listeners[s][2].cmd] \in Undecided
        /\ 1 \in DOMAIN listeners[s] /\ 2 \in DOMAIN listeners[s]
    BY <2>1, ListenersWait DEF Undecided
  <2>3. listeners[s][1].cmd = listeners[s][2].cmd
    BY <2>2 DEF IInv, Alone
  <2>4. \A i, j \in DOMAIN listeners[s] :
           listeners[s][i].cmd = listeners[s][j].cmd => i = j
    BY DEF IInv, Hearing
  <2> QED BY <2>2, <2>3, <2>4
<1>4. ~(Len(listeners[s]) > 1)
  BY <1>3
<1>5. Len(listeners[s]) = 1
  <2> DEFINE n == Len(listeners[s])
  <2>1. n \in Nat \ {0} /\ ~(n > 1)
    BY <1>2, <1>4
  <2> HIDE DEF n
  <2>2. n = 1
    BY <2>1
  <2> QED BY <2>2 DEF n
<1> QED BY <1>1, <1>5

LEMMA DataAlone ==
    ASSUME IInv, NEW s \in Commands, NEW k, NEW bad, Data(s, k, bad)
    PROVE  Alone' /\ OwnReplyAlone'
<1>1. /\ TypeOK /\ link[s] = "open" /\ k \in 1..Len(pending[s])
      /\ UNCHANGED <<socket, link, overlapped, silent>>
      /\ pending[s] # <<>>
  BY DEF IInv, TypeOK, Data
<1>2. ASSUME NEW c \in Commands, pc'[c] \in Undecided
      PROVE  pc[c] \in Undecided
  <2>1. CASE ~Listening(c, s)
    BY <1>2, <2>1, DataEffect
  <2>2. CASE Listening(c, s)
    <3>1. PICK i \in 1..Len(listeners[s]) : listeners[s][i].cmd = c
      BY <1>1, <2>2, Queues DEF Listening, TypeOK
    <3> QED BY <3>1, ListenersWait DEF Undecided
  <2> QED BY <2>1, <2>2
<1>3. ~overlapped' => \A c, d \in Commands :
         pc'[c] \in Undecided /\ pc'[d] \in Undecided => c = d
  BY <1>1, <1>2 DEF IInv, Alone
<1>4. ASSUME ~overlapped', ~thrown'
      PROVE  /\ ~overlapped /\ ~thrown
             /\ pending[s] = listeners[s] /\ Len(listeners[s]) = 1 /\ k = 1
             /\ buffer = <<>> /\ TheFirst(s, k, bad) = 2
  <2>1. ~overlapped /\ ~thrown /\ ~(TheFirst(s, k, bad) <= Len(listeners[s]))
    BY <1>1, <1>4, DataEffect DEF IInv, TypeOK
  <2>2. pending[s] = listeners[s] /\ Len(listeners[s]) = 1 /\ buffer = <<>>
    BY <1>1, <2>1, OneListener
  <2>3. TheFirst(s, k, bad) \in 1..(Len(listeners[s]) + 1)
    BY <1>1, ChunkType
  <2> QED BY <1>1, <2>1, <2>2, <2>3
<1>5. ASSUME ~overlapped', ~thrown', NEW t \in Commands, link'[t] = "open"
      PROVE  pending'[t] = listeners'[t]
  <2>1. CASE t # s
    <3>1. pending[t] = listeners[t]
      BY <1>1, <1>4, <1>5 DEF IInv, Alone
    <3>2. \E q : listeners'[t] = listeners[t] \o q /\ pending'[t] = pending[t] \o q
      BY <2>1, DataQueues
    <3> QED BY <3>1, <3>2
  <2>2. CASE t = s
    <3>1. k + 1 \in Int /\ Len(pending[s]) \in Int /\ Len(pending[s]) < k + 1
      <4>1. pending[s] = listeners[s] /\ Len(listeners[s]) = 1 /\ k = 1
        BY <1>4, <1>5
      <4>2. Len(pending[s]) = 1
        BY <4>1, Zenon
      <4> QED BY <4>1, <4>2
    <3>2. SubSeq(pending[s], k + 1, Len(pending[s])) = <<>>
      BY <3>1, SubSeqEmpty
    <3> DEFINE new == IF s = socket THEN TheNext(s, k, bad) ELSE <<>>
    <3>3. /\ listeners'[s] = <<>> \o new
          /\ pending'[s] = SubSeq(pending[s], k + 1, Len(pending[s])) \o new
      BY DataQueues
    <3> QED BY <2>2, <3>2, <3>3
  <2> QED BY <2>1, <2>2
<1>6. ASSUME ~overlapped', ~thrown'
      PROVE  buffer' = <<>>
  <2>1. Len(TheStream(s, k, bad)) = Len(buffer) + Len(listeners[s]) * k
    BY <1>1, ChunkType
  <2>2. Len(TheStream(s, k, bad)) = 1
    <3>1. Len(buffer) = 0 /\ Len(listeners[s]) = 1 /\ k = 1
      BY <1>4, <1>6
    <3>2. Len(TheStream(s, k, bad)) = 0 + 1 * 1
      BY <2>1, <3>1, Zenon
    <3> QED BY <3>2
  <2>3. buffer' = SubSeq(TheStream(s, k, bad), 2, 1)
    BY <1>4, <1>6, <2>2, DataEffect
  <2>4. SubSeq(TheStream(s, k, bad), 2, 1) = <<>>
    BY SubSeqEmpty
  <2> QED BY <2>3, <2>4
<1>7. ASSUME ~overlapped', ~thrown', NEW c \in Commands, pc'[c] = "decided"
      PROVE  reply'[c] = Eval(c)
  <2>1. CASE ~Listening(c, s)
    BY <1>4, <1>7, <2>1, DataEffect DEF IInv, OwnReplyAlone
  <2>2. CASE Listening(c, s)
    <3>1. PICK i \in 1..Len(listeners[s]) : listeners[s][i].cmd = c
      BY <1>1, <2>2, Queues DEF Listening, TypeOK
    <3>2. i = 1
      BY <1>4, <1>7, <3>1
    <3>3. Outcome(s, k, bad, 1) = "decided"
      BY <1>7, <3>1, <3>2, DataEffect
    <3>4. listeners[s][1].kind = "EVAL" /\ listeners[s][1] \in Request
      BY <3>1, <3>2, <3>3, ListenersWait DEF Outcome
    <3>5. listeners[s][1] = Eval(c)
      BY <3>1, <3>2, <3>4 DEF Eval, Request
    <3>6. reply'[c] = TheStream(s, k, bad)[1].to
      BY <3>1, <3>2, <3>3, DataEffect
    <3>7. TheStream(s, k, bad)[1].to = pending[s][1]
      <4>1. buffer = <<>> /\ Len(listeners[s]) > 0
        BY <1>4, <1>7
      <4>2. TheStream(s, k, bad)[1] = Answers(s, k, bad)[1]
        BY <1>1, <4>1, ChunkType
      <4> QED BY <1>1, <4>2, ChunkType
    <3> QED BY <1>4, <1>7, <3>5, <3>6, <3>7
  <2> QED BY <2>1, <2>2
<1> QED BY <1>3, <1>5, <1>6, <1>7 DEF Alone, OwnReplyAlone

\* After an error the first listener already fails, and nobody advances the
\* buffer.
LEMMA ErrorStays ==
    ASSUME IInv, NEW s \in Commands, NEW k, NEW bad, Data(s, k, bad)
    PROVE  /\ Stuck'
           /\ thrown => \A c \in Commands : pc'[c] = "decided" => pc[c] = "decided"
<1> DEFINE stream == TheStream(s, k, bad)
           first == TheFirst(s, k, bad)
<1>1. k \in 1..Len(pending[s]) /\ TypeOK /\ thrown \in BOOLEAN /\ Len(buffer) \in Nat
  BY DEF IInv, TypeOK, Data
<1>2. /\ stream \in Seq(Reply) /\ Len(stream) \in Nat /\ Len(listeners[s]) \in Nat
      /\ Len(stream) >= Len(listeners[s]) /\ Len(stream) >= Len(buffer)
      /\ \A i \in 1..Len(buffer) : stream[i] = buffer[i]
      /\ first \in 1..(Len(listeners[s]) + 1)
      /\ first = Len(listeners[s]) + 1 \/ stream[first].error
      /\ \A j \in 1..(first - 1) : ~stream[j].error
  BY <1>1, ChunkType DEF TypeOK
<1>3. /\ buffer' = SubSeq(stream, first, Len(stream))
      /\ thrown' = (thrown \/ first <= Len(listeners[s]))
  BY DataEffect
<1> HIDE DEF stream, first
<1>4. ASSUME thrown
      PROVE  first = 1 /\ Len(buffer) > 0 /\ stream[1].error
  <2>1. Len(buffer) > 0 /\ buffer[1].error
    BY <1>1, <1>4 DEF IInv, TypeOK, Stuck
  <2>2. stream[1].error
    BY <1>1, <1>2, <2>1
  <2> QED BY <1>2, <2>1, <2>2
<1>5. ASSUME thrown'
      PROVE  first <= Len(stream) /\ stream[first].error
  <2>1. CASE first <= Len(listeners[s])
    BY <1>2, <2>1
  <2>2. CASE thrown
    BY <1>1, <1>2, <1>4, <2>2
  <2> QED BY <1>3, <1>5, <2>1, <2>2
<1>6. Stuck'
  <2> SUFFICES ASSUME thrown' PROVE buffer' # <<>> /\ buffer'[1].error
    BY DEF Stuck
  <2>1. first <= Len(stream) /\ stream[first].error
    BY <1>5
  <2>2. /\ Len(SubSeq(stream, first, Len(stream))) = Len(stream) - first + 1
        /\ SubSeq(stream, first, Len(stream))[1] = stream[first]
    BY <1>2, <2>1
  <2>3. Len(buffer') > 0 /\ buffer'[1] = stream[first]
    BY <1>2, <1>3, <2>1, <2>2
  <2>4. Len(<<>>) = 0
    OBVIOUS
  <2> QED BY <2>1, <2>3, <2>4
<1>7. ASSUME thrown, NEW c \in Commands, pc'[c] = "decided"
      PROVE  pc[c] = "decided"
  <2>1. CASE ~Listening(c, s)
    BY <1>7, <2>1, DataEffect
  <2>2. CASE Listening(c, s)
    <3>1. PICK i \in 1..Len(listeners[s]) : listeners[s][i].cmd = c
      BY <1>1, <2>2, Queues DEF Listening, TypeOK
    <3>2. pc'[c] = Outcome(s, k, bad, i)
      BY <3>1, DataEffect
    <3>3. Outcome(s, k, bad, i) = "failedOpen"
      BY <1>4, <1>7, <3>1 DEF Outcome, first
    <3> QED BY <1>7, <3>2, <3>3
  <2> QED BY <2>1, <2>2
<1> QED BY <1>6, <1>7

-----------------------------------------------------------------------------
LEMMA NextInv == IInv /\ [Next]_vars => IInv'
<1> SUFFICES ASSUME IInv, [Next]_vars PROVE IInv'
  OBVIOUS
<1>1. ASSUME NEW s \in Commands, Increment(s) PROVE IInv'
  BY <1>1, IncrementStep
<1>2. ASSUME NEW s \in Commands, Connect(s) PROVE IInv'
  BY <1>2, ConnectedStep, RefusedStep DEF Connect
<1>3. ASSUME NEW s \in Commands, NEW k, NEW bad, Data(s, k, bad) PROVE IInv'
  BY <1>3, DataTypes, DataHearing, DataOutstanding, DataAlone, ErrorStays DEF IInv
<1>4. ASSUME NEW s \in Commands, Reset(s) \/ End(s) PROVE IInv'
  BY <1>4, CloseStep
<1>5. CASE UNCHANGED vars
  BY <1>5 DEF vars, sockets, commands, IInv, TypeOK, Connecting, Hearing, Alone,
              OwnReplyAlone, Stuck, AnswerOutstanding, Listening
<1> QED BY <1>1, <1>2, <1>3, <1>4, <1>5 DEF Next, Receive

LEMMA Invariance == Spec => []IInv
BY InitInv, NextInv, PTL DEF Spec

\* Every reachable state of the connection is well typed; this.socket is a
\* socket that has been connected.
THEOREM TypeCorrect == Spec => []TypeOK
BY Invariance, PTL DEF IInv

\* OwnReplyAlone: used by one request at a time and without an error reply,
\* the connection gives every command the answer to its own evaluation.
THEOREM OwnRepliesWhenAlone == Spec => []OwnReplyAlone
BY Invariance, PTL DEF IInv

\* AnswerOutstanding: no command listens to an open socket in vain, however
\* replies were mixed up before.
THEOREM AnswersAreOutstanding == Spec => []AnswerOutstanding
BY Invariance, PTL DEF IInv

\* NothingPassesAnError: the first error reply is the last thing the limiter
\* has from Redis, on any socket.
THEOREM NothingAfterAnError == Spec => NothingPassesAnError
<1> DEFINE Step == thrown => \A c \in Commands :
                      pc'[c] = "decided" => pc[c] = "decided"
<1>1. ASSUME IInv, [Next]_vars PROVE Step
  <2>1. ASSUME NEW s \in Commands, Increment(s) PROVE Step
    BY <1>1, <2>1 DEF IInv, TypeOK, Increment, Send, Eval
  <2>2. ASSUME NEW s \in Commands, Connect(s) PROVE Step
    BY <1>1, <2>2 DEF IInv, TypeOK, Connect, Connected, Refused, Send,
                      Authenticate, Eval
  <2>3. ASSUME NEW s \in Commands, NEW k, NEW bad, Data(s, k, bad) PROVE Step
    BY <1>1, <2>3, ErrorStays
  <2>4. ASSUME NEW s \in Commands, Reset(s) \/ End(s) PROVE Step
    BY <1>1, <2>4 DEF IInv, TypeOK, Reset, End, commands
  <2>5. CASE UNCHANGED vars
    BY <2>5 DEF vars, commands
  <2> QED BY <1>1, <2>1, <2>2, <2>3, <2>4, <2>5 DEF Next, Receive
<1>2. Spec => [][Step]_vars
  BY <1>1, Invariance, PTL DEF Spec
<1> QED BY <1>2 DEF NothingPassesAnError
=============================================================================
