---------------------------- MODULE SessionsProofs ----------------------------
(***************************************************************************)
(* Proofs about Sessions, for every number of handlers, tokens and users.  *)
(***************************************************************************)
EXTENDS Sessions, TLAPS

\* What a handler holds while it is suspended in each call.
HoldsAt(p) ==
    /\ pc[p] \in {"login?", "walletLogin?"} =>
          user[p] \in Users /\ token[p] = Null
    /\ pc[p] = "refresh?" => token[p] \in Rows
    /\ pc[p] = "revoke" => token[p] \in Rows
    /\ pc[p] \in {"revoke", "create", "answer"} =>
          /\ user[p] \in Users
          /\ token[p] # Null => token[p] \in Rows /\ user[p] = owner[token[p]]
    /\ pc[p] \in {"create", "answer"} /\ token[p] # Null => token[p] \in revoked
    /\ pc[p] = "answer" => fresh[p] \in Rows /\ parent[fresh[p]] = token[p]
    /\ pc[p] = "idle" => token[p] = Null

Holds == \A p \in Handlers : HoldsAt(p)

\* Every token a client or another token refers to has a row.
Grounded ==
    /\ known \subseteq Rows
    /\ revoked \subseteq Rows
    /\ \A t \in TokenIds :
          parent[t] # Null =>
             t \in Rows /\ parent[t] \in Rows /\ maker[t] \in Handlers

\* A handler that is about to exchange a token has not exchanged it before.
FirstExchange ==
    \A p \in Handlers, t \in TokenIds :
        pc[p] \in {"revoke", "create"} /\ token[p] # Null
           /\ parent[t] = token[p] => maker[t] # p

IInv ==
    /\ TypeOK
    /\ Holds
    /\ Grounded
    /\ FirstExchange
    /\ ExchangedIsRevoked
    /\ OverlapOnly
    /\ ReplacedOrDropped

-----------------------------------------------------------------------------
(* Steps that insert no token and leave every locals but one alone.        *)

LEMMA InitIInv == Init => IInv
BY SessionsAssumption
   DEF Init, IInv, TypeOK, Holds, HoldsAt, Grounded, FirstExchange,
       ExchangedIsRevoked, OverlapOnly, ReplacedOrDropped, Rows, Label

LEMMA LeaveIInv ==
    ASSUME IInv, NEW p \in Handlers, Leave(p),
           UNCHANGED <<table, active, known, parent, maker, purged>>,
           \/ UNCHANGED dropped /\ pc[p] \notin {"create", "answer"}
           \/ UNCHANGED dropped /\ token[p] = Null
           \/ dropped' = dropped \cup {token[p]} /\ token[p] \in TokenIds
    PROVE  IInv'
<1> USE DEF IInv, Leave, table
<1>1. TypeOK'
  BY DEF TypeOK, Label
<1>2. Holds'
  BY DEF TypeOK, Holds, HoldsAt, Rows
<1>3. Grounded' /\ ExchangedIsRevoked' /\ OverlapOnly'
  BY DEF Grounded, ExchangedIsRevoked, OverlapOnly, Rows
<1>4. FirstExchange'
  BY DEF TypeOK, FirstExchange
<1>5. ReplacedOrDropped'
  BY SessionsAssumption DEF TypeOK, ReplacedOrDropped
<1> QED BY <1>1, <1>2, <1>3, <1>4, <1>5

LEMMA RejectIInv ==
    ASSUME IInv, NEW p \in Handlers, Reject(p),
           pc[p] \notin {"create", "answer"}
    PROVE  IInv'
BY LeaveIInv DEF Reject, history

LEMMA StartIInv ==
    ASSUME IInv, NEW p \in Handlers,
           \/ \E u \in Users, label \in {"login?", "walletLogin?"} :
                 StartLogin(p, u, label)
           \/ \E t \in TokenIds : StartRefresh(p, t)
    PROVE  IInv'
<1> USE DEF IInv, StartLogin, StartRefresh, Goto, table, history
<1>1. TypeOK'
  BY DEF TypeOK, Label
<1>2. Holds'
  BY DEF TypeOK, Holds, HoldsAt, Grounded, Rows
<1>3. Grounded' /\ ExchangedIsRevoked' /\ OverlapOnly'
  BY DEF Grounded, ExchangedIsRevoked, OverlapOnly, Rows
<1>4. FirstExchange'
  BY DEF TypeOK, FirstExchange
<1>5. ReplacedOrDropped'
  BY DEF TypeOK, ReplacedOrDropped
<1> QED BY <1>1, <1>2, <1>3, <1>4, <1>5

LEMMA LoginFindIInv ==
    ASSUME IInv, NEW p \in Handlers, LoginFind(p)
    PROVE  IInv'
<1>1. CASE Reject(p)
  BY <1>1, RejectIInv DEF LoginFind
<1>2. CASE Proceed(p, user[p], "create")
  <2> USE <1>2 DEF IInv, LoginFind, Proceed, Goto, table, history
  <2>1. TypeOK'
    BY DEF TypeOK, Label
  <2>2. Holds'
    BY DEF TypeOK, Holds, HoldsAt, Rows
  <2>3. Grounded' /\ ExchangedIsRevoked' /\ OverlapOnly'
    BY DEF Grounded, ExchangedIsRevoked, OverlapOnly, Rows
  <2>4. FirstExchange'
    BY DEF TypeOK, FirstExchange, Holds, HoldsAt
  <2>5. ReplacedOrDropped'
    BY DEF TypeOK, ReplacedOrDropped
  <2> QED BY <2>1, <2>2, <2>3, <2>4, <2>5
<1> QED BY <1>1, <1>2 DEF LoginFind

\* A token that is not revoked has never been exchanged.
LEMMA RefreshFindIInv ==
    ASSUME IInv, NEW p \in Handlers, RefreshFind(p)
    PROVE  IInv'
<1>1. CASE Reject(p)
  BY <1>1, RejectIInv DEF RefreshFind
<1>2. CASE /\ Proceed(p, owner[token[p]], "revoke")
           /\ token[p] \notin revoked
  <2> USE <1>2 DEF IInv, RefreshFind, Proceed, Goto, table, history
  <2>1. TypeOK'
    BY DEF TypeOK, Label, Holds, HoldsAt, Rows
  <2>2. Holds'
    BY DEF TypeOK, Holds, HoldsAt, Rows
  <2>3. Grounded' /\ ExchangedIsRevoked' /\ OverlapOnly'
    BY DEF Grounded, ExchangedIsRevoked, OverlapOnly, Rows
  <2>4. FirstExchange'
    BY DEF TypeOK, FirstExchange, ExchangedIsRevoked
  <2>5. ReplacedOrDropped'
    BY DEF TypeOK, ReplacedOrDropped
  <2> QED BY <2>1, <2>2, <2>3, <2>4, <2>5
<1> QED BY <1>1, <1>2 DEF RefreshFind

LEMMA RefreshRevokeIInv ==
    ASSUME IInv, NEW p \in Handlers, RefreshRevoke(p)
    PROVE  IInv'
<1> USE DEF IInv, RefreshRevoke, Goto, history
<1>1. token[p] \in Rows /\ token[p] \in TokenIds
  BY DEF Holds, HoldsAt, Rows
<1>2. TypeOK'
  BY <1>1 DEF TypeOK, Label
<1>3. Holds'
  BY <1>1 DEF TypeOK, Holds, HoldsAt, Rows
<1>4. Grounded' /\ ExchangedIsRevoked' /\ OverlapOnly'
  BY <1>1 DEF Grounded, ExchangedIsRevoked, OverlapOnly, Rows
<1>5. FirstExchange'
  BY DEF TypeOK, FirstExchange
<1>6. ReplacedOrDropped'
  BY DEF TypeOK, ReplacedOrDropped
<1> QED BY <1>2, <1>3, <1>4, <1>5, <1>6

-----------------------------------------------------------------------------
(* The insert, the answer and a failure.                                   *)

LEMMA CreateIInv ==
    ASSUME IInv, NEW p \in Handlers, CreateRefreshToken(p)
    PROVE  IInv'
<1> USE DEF IInv
<1>1. PICK t \in TokenIds \ Rows :
         /\ owner' = [owner EXCEPT ![t] = user[p]]
         /\ parent' = [parent EXCEPT ![t] = token[p]]
         /\ maker' = [maker EXCEPT ![t] = p]
         /\ fresh' = [fresh EXCEPT ![p] = t]
  BY DEF CreateRefreshToken
<1>2. /\ pc[p] = "create" /\ pc' = [pc EXCEPT ![p] = "answer"]
      /\ UNCHANGED <<token, user, revoked, expired, active, known, dropped,
                      purged>>
  BY DEF CreateRefreshToken, Goto
<1>3. user[p] \in Users /\ user[p] # Null
  BY <1>2, SessionsAssumption DEF Holds, HoldsAt
<1>4. Rows' = Rows \cup {t}
  BY <1>1, <1>3 DEF TypeOK, Rows
<1>5. /\ parent[t] = Null
      /\ \A u \in TokenIds : parent[u] # t
  BY <1>1, SessionsAssumption DEF Grounded, Rows
<1>6. \A q \in Handlers : pc[q] \in {"refresh?", "revoke", "create", "answer"} =>
         token[q] # t
  BY <1>1, SessionsAssumption DEF Holds, HoldsAt
<1>7. \A u \in Rows : u # t /\ owner'[u] = owner[u] /\ parent'[u] = parent[u]
  BY <1>1 DEF TypeOK, Rows
<1>8. token[p] # Null => /\ token[p] \in Rows /\ token[p] \in revoked
                         /\ user[p] = owner[token[p]]
  BY <1>2 DEF Holds, HoldsAt
<1>9. TypeOK'
  BY <1>1, <1>2, <1>3 DEF TypeOK, Label
<1>10. HoldsAt(p)'
  BY <1>1, <1>2, <1>3, <1>4, <1>7, <1>8 DEF HoldsAt, TypeOK
<1>11. ASSUME NEW q \in Handlers, q # p
       PROVE  HoldsAt(q)'
  <2>1. pc'[q] = pc[q] /\ fresh'[q] = fresh[q] /\ HoldsAt(q)
    BY <1>1, <1>2, <1>11 DEF TypeOK, Holds
  <2> QED BY <1>2, <1>4, <1>7, <2>1 DEF HoldsAt
<1>12. Holds'
  BY <1>10, <1>11 DEF Holds
<1>13. Grounded'
  BY <1>1, <1>2, <1>4, <1>7, <1>8 DEF Grounded, TypeOK
<1>14. FirstExchange'
  BY <1>1, <1>2, <1>6 DEF FirstExchange, TypeOK
<1>15. ExchangedIsRevoked'
  <2>1. ASSUME NEW u \in TokenIds, u # t, parent[u] # Null
        PROVE  parent[u] \in revoked /\ owner'[u] = owner'[parent[u]]
    BY <1>7, <2>1 DEF ExchangedIsRevoked, Grounded
  <2>2. token[p] # Null => token[p] \in revoked /\ owner'[t] = owner'[token[p]]
    BY <1>1, <1>7, <1>8 DEF TypeOK
  <2> QED BY <1>1, <1>2, <2>1, <2>2 DEF ExchangedIsRevoked, TypeOK
<1>16. OverlapOnly'
  <2>1. ASSUME NEW u \in TokenIds, u # t, token[p] # Null, parent[u] = token[p]
        PROVE  maker[u] # p
    BY <1>2, <2>1 DEF FirstExchange
  <2> QED BY <1>1, <2>1 DEF OverlapOnly, TypeOK
<1>17. ReplacedOrDropped'
  <2>1. \A u \in known : parent'[u] = parent[u]
    BY <1>7 DEF Grounded
  <2> QED BY <1>2, <2>1 DEF ReplacedOrDropped, TypeOK
<1> QED BY <1>9, <1>12, <1>13, <1>14, <1>15, <1>16, <1>17

LEMMA AnswerIInv ==
    ASSUME IInv, NEW p \in Handlers, Answer(p)
    PROVE  IInv'
<1> USE DEF IInv, Answer, Leave, table, history
<1>1. fresh[p] \in Rows /\ parent[fresh[p]] = token[p] /\ fresh[p] \in TokenIds
  BY DEF Holds, HoldsAt, Rows
<1>2. TypeOK'
  BY <1>1 DEF TypeOK, Label
<1>3. Holds'
  BY DEF TypeOK, Holds, HoldsAt, Rows
<1>4. Grounded' /\ ExchangedIsRevoked' /\ OverlapOnly'
  BY <1>1 DEF Grounded, ExchangedIsRevoked, OverlapOnly, Rows
<1>5. FirstExchange'
  BY DEF TypeOK, FirstExchange
<1>6. ReplacedOrDropped'
  BY <1>1 DEF TypeOK, ReplacedOrDropped
<1> QED BY <1>2, <1>3, <1>4, <1>5, <1>6

LEMMA FailIInv ==
    ASSUME IInv, NEW p \in Handlers, Fail(p)
    PROVE  IInv'
<1>1. token[p] # Null => token[p] \in TokenIds
  BY DEF IInv, TypeOK
<1> QED BY <1>1, LeaveIInv DEF Fail

LEMMA EnvironmentIInv ==
    ASSUME IInv, Environment
    PROVE  IInv'
<1> USE DEF IInv, locals
<1>1. ASSUME NEW u \in Users, RevokeUserRefreshTokens(u)
      PROVE  IInv'
  <2> USE <1>1 DEF RevokeUserRefreshTokens
  <2>1. TypeOK'
    BY DEF TypeOK
  <2>2. Holds'
    BY DEF TypeOK, Holds, HoldsAt, Rows
  <2>3. Grounded' /\ ExchangedIsRevoked' /\ OverlapOnly'
    BY SessionsAssumption DEF Grounded, ExchangedIsRevoked, OverlapOnly, Rows
  <2>4. FirstExchange'
    BY DEF FirstExchange
  <2>5. ReplacedOrDropped'
    BY DEF ReplacedOrDropped
  <2> QED BY <2>1, <2>2, <2>3, <2>4, <2>5
<1>2. CASE (\E t \in TokenIds : Expire(t)) \/ (\E u \in Users : SetActive(u))
  BY <1>2 DEF Expire, SetActive, table, history, TypeOK, Holds, HoldsAt, Rows,
     Grounded, FirstExchange, ExchangedIsRevoked, OverlapOnly,
     ReplacedOrDropped
<1> QED BY <1>1, <1>2 DEF Environment

LEMMA NextIInv == IInv /\ [Next]_vars => IInv'
<1> SUFFICES ASSUME IInv, [Next]_vars PROVE IInv'
  OBVIOUS
<1>1. CASE Environment
  BY <1>1, EnvironmentIInv
<1>2. ASSUME NEW p \in Handlers, Handle(p)
      PROVE  IInv'
  BY <1>2, StartIInv, LoginFindIInv, RefreshFindIInv, RefreshRevokeIInv,
     CreateIInv, AnswerIInv, FailIInv DEF Handle
<1>3. CASE UNCHANGED vars
  BY <1>3 DEF vars, table, locals, history, IInv, TypeOK, Holds, HoldsAt,
     Rows, Grounded, FirstExchange, ExchangedIsRevoked, OverlapOnly,
     ReplacedOrDropped
<1> QED BY <1>1, <1>2, <1>3 DEF Next

LEMMA Invariance == Spec => []IInv
BY InitIInv, NextIInv, PTL DEF Spec

\* Every variable keeps its type; a client is only ever given stored tokens.
THEOREM TypeCorrect == Spec => []TypeOK
<1>1. IInv => TypeOK
  BY DEF IInv
<1> QED BY <1>1, Invariance, PTL

\* The revocation always comes before the successor.
THEOREM RevokedBeforeReplaced == Spec => []ExchangedIsRevoked
<1>1. IInv => ExchangedIsRevoked
  BY DEF IInv
<1> QED BY <1>1, Invariance, PTL

\* One request slot never exchanges a token twice.
THEOREM ExchangedTwiceOnlyByOverlap == Spec => []OverlapOnly
<1>1. IInv => OverlapOnly
  BY DEF IInv
<1> QED BY <1>1, Invariance, PTL

\* A session ends only by a revoke-all or by a rotation that failed half way.
THEOREM SessionsAreNotLost == Spec => []ReplacedOrDropped
<1>1. IInv => ReplacedOrDropped
  BY DEF IInv
<1> QED BY <1>1, Invariance, PTL

-----------------------------------------------------------------------------
\* A purged token is revoked, nobody is past its check, and it has no child.
Purges ==
    /\ purged \subseteq revoked
    /\ \A p \in Handlers :
          pc[p] \in {"revoke", "create", "answer"} => token[p] \notin purged
    /\ RevocationEndsSessions

LEMMA PurgesNext ==
    ASSUME IInv, Purges, [Next]_vars
    PROVE  Purges'
<1> USE DEF Purges, RevocationEndsSessions
<1>1. ASSUME NEW u \in Users, RevokeUserRefreshTokens(u) PROVE Purges'
  <2> DEFINE live == {t \in TokenIds : owner[t] = u} \ revoked
             held == {token[p] : p \in {q \in Handlers : pc[q] = "revoke"}}
  <2>1. /\ revoked' = revoked \cup live
        /\ purged' = purged \cup (live \ held)
        /\ UNCHANGED <<pc, token, parent>>
    BY <1>1 DEF RevokeUserRefreshTokens, locals
  <2>2. \A p \in Handlers :
           pc[p] \in {"revoke", "create", "answer"} => token[p] \notin live \ held
    BY SessionsAssumption DEF IInv, TypeOK, Holds, HoldsAt
  <2>3. \A t \in TokenIds : parent[t] \notin live
    BY SessionsAssumption DEF IInv, ExchangedIsRevoked
  <2> QED BY <2>1, <2>2, <2>3
<1>2. CASE (\E t \in TokenIds : Expire(t)) \/ (\E u \in Users : SetActive(u))
  BY <1>2 DEF Expire, SetActive, locals, table, history
<1>3. ASSUME NEW p \in Handlers, Handle(p) PROVE Purges'
  <2> USE DEF IInv, TypeOK, Goto, Leave, history, table
  <2>1. CASE \E u \in Users, label \in {"login?", "walletLogin?"} :
                StartLogin(p, u, label)
    BY <2>1 DEF StartLogin
  <2>2. CASE LoginFind(p)
    BY <2>2, SessionsAssumption DEF LoginFind, Proceed, Reject, Holds, HoldsAt
  <2>3. CASE \E t \in TokenIds : StartRefresh(p, t)
    BY <2>3 DEF StartRefresh
  <2>4. CASE RefreshFind(p)
    BY <2>4 DEF RefreshFind, Proceed, Reject
  <2>5. CASE RefreshRevoke(p)
    BY <2>5 DEF RefreshRevoke
  <2>6. CASE CreateRefreshToken(p)
    BY <2>6 DEF CreateRefreshToken
  <2>7. CASE Answer(p) \/ Fail(p)
    BY <2>7 DEF Answer, Fail
  <2> QED BY <1>3, <2>1, <2>2, <2>3, <2>4, <2>5, <2>6, <2>7 DEF Handle
<1>4. CASE UNCHANGED vars
  BY <1>4 DEF vars, locals, table, history
<1> QED BY <1>1, <1>2, <1>3, <1>4 DEF Next, Environment

\* No token that a sign-out everywhere revoked is ever exchanged again,
\* unless a request was past its check at that moment.
THEOREM SignedOutEverywhere == Spec => []RevocationEndsSessions
<1>1. Init => Purges
  BY SessionsAssumption DEF Init, Purges, RevocationEndsSessions
<1>2. IInv /\ Purges /\ [Next]_vars => Purges'
  BY PurgesNext
<1>3. Purges => RevocationEndsSessions
  BY DEF Purges
<1> QED BY <1>1, <1>2, <1>3, Invariance, PTL DEF Spec
-----------------------------------------------------------------------------
(* What an exchange needs to be single: no two requests past the check of  *)
(* one token before either has revoked it.                                 *)

\* No two requests have found the same token and not revoked it yet, as a lock
\* on its row from the query to the update would ensure.
OneCheck ==
    \A p, q \in Handlers :
        p # q /\ pc[p] = "revoke" /\ pc[q] = "revoke" => token[p] # token[q]

\* A request is past its check of a token and has not exchanged it.
Rotating(p) == pc[p] \in {"revoke", "create"} /\ token[p] # Null

\* A token that is about to be exchanged has not been, and is about to be by
\* one request only.
OnceAt(p) ==
    Rotating(p) =>
       /\ \A t \in TokenIds : parent[t] # token[p]
       /\ \A q \in Handlers \ {p} : Rotating(q) => token[q] # token[p]

Once == SingleUse /\ \A p \in Handlers : OnceAt(p)

LEMMA InitOnce == Init => Once
BY DEF Init, Once, OnceAt, Rotating, SingleUse

\* Steps that insert no token and bring no request past its check.
LEMMA StillOnce ==
    ASSUME Once, UNCHANGED parent,
           \A p \in Handlers : Rotating(p)' => Rotating(p) /\ UNCHANGED token[p]
    PROVE  Once'
BY DEF Once, OnceAt, SingleUse

\* The check is refused once another request has revoked the token; one that
\* has not is excluded.
LEMMA RefreshFindOnce ==
    ASSUME IInv, Once, OneCheck', NEW p \in Handlers, RefreshFind(p)
    PROVE  Once'
<1>1. CASE Reject(p)
  BY <1>1, StillOnce
     DEF Reject, Leave, Rotating, table, history, IInv, TypeOK
<1>2. CASE ~Reject(p)
  <2> DEFINE t == token[p]
  <2>1. /\ t \notin revoked /\ Proceed(p, owner[t], "revoke")
    BY <1>2 DEF RefreshFind
  <2>2. /\ pc' = [pc EXCEPT ![p] = "revoke"] /\ pc[p] = "refresh?"
        /\ UNCHANGED <<token, parent, revoked>>
    BY <1>2, <2>1 DEF RefreshFind, Proceed, Goto, table, history
  <2>3. \A u \in TokenIds : parent[u] # Null => parent[u] # t
    BY <2>1 DEF IInv, ExchangedIsRevoked
  <2>4. t # Null
    BY <2>2, SessionsAssumption DEF IInv, Holds, HoldsAt, Rows
  <2>5. \A q \in Handlers \ {p} : Rotating(q) => token[q] # t
    <3> SUFFICES ASSUME NEW q \in Handlers \ {p}, Rotating(q), token[q] = t
                 PROVE  FALSE
      OBVIOUS
    <3>1. pc[q] # "create"
      BY <2>1, <2>4 DEF IInv, Holds, HoldsAt
    <3>2. pc'[q] = "revoke" /\ pc'[p] = "revoke" /\ token'[q] = token'[p]
      BY <2>2, <3>1 DEF Rotating, IInv, TypeOK
    <3> QED BY <3>2 DEF OneCheck
  <2>6. \A q \in Handlers \ {p} : Rotating(q)' <=> Rotating(q)
    BY <2>2 DEF Rotating, IInv, TypeOK
  <2>7. OnceAt(p)'
    BY <2>2, <2>3, <2>4, <2>5, <2>6 DEF OnceAt
  <2>8. \A q \in Handlers \ {p} : OnceAt(q)'
    BY <2>2, <2>5, <2>6 DEF OnceAt, Once
  <2>9. SingleUse'
    BY <2>2 DEF Once, SingleUse
  <2> QED BY <2>7, <2>8, <2>9 DEF Once
<1> QED BY <1>1, <1>2

LEMMA CreateOnce ==
    ASSUME IInv, Once, NEW p \in Handlers, CreateRefreshToken(p)
    PROVE  Once'
<1>1. PICK t \in TokenIds \ Rows :
         /\ parent' = [parent EXCEPT ![t] = token[p]]
         /\ pc' = [pc EXCEPT ![p] = "answer"] /\ pc[p] = "create"
         /\ UNCHANGED token
  BY DEF CreateRefreshToken, Goto
<1>2. /\ \A u \in TokenIds \ {t} : UNCHANGED parent[u]
      /\ parent'[t] = token[p]
  BY <1>1 DEF IInv, TypeOK
<1>3. ~Rotating(p)' /\ \A q \in Handlers \ {p} : Rotating(q)' <=> Rotating(q)
  BY <1>1 DEF Rotating, IInv, TypeOK
<1>4. SingleUse'
  <2>1. Rotating(p) => \A u \in TokenIds : parent[u] # token[p]
    BY DEF Once, OnceAt
  <2> QED BY <1>1, <1>2, <2>1 DEF Rotating, Once, SingleUse
<1>5. ASSUME NEW q \in Handlers \ {p}, Rotating(q)
      PROVE  token[q] # token[p]
  BY <1>1, <1>5 DEF Rotating, Once, OnceAt
<1>6. ASSUME NEW q \in Handlers PROVE OnceAt(q)'
  BY <1>1, <1>2, <1>3, <1>5 DEF Once, OnceAt
<1> QED BY <1>4, <1>6 DEF Once

LEMMA NextOnce == IInv /\ Once /\ OneCheck' /\ [Next]_vars => Once'
<1> SUFFICES ASSUME IInv, Once, OneCheck', [Next]_vars PROVE Once'
  OBVIOUS
<1> USE DEF Rotating, IInv, TypeOK
<1>1. CASE Environment
  BY <1>1, StillOnce DEF Environment, RevokeUserRefreshTokens, Expire,
     SetActive, locals, history
<1>2. ASSUME NEW p \in Handlers, Handle(p)
      PROVE  Once'
  <2>1. ASSUME NEW u \in Users, NEW label \in {"login?", "walletLogin?"},
               StartLogin(p, u, label)
        PROVE  Once'
    BY <2>1, StillOnce DEF StartLogin, Goto, history
  <2>2. CASE LoginFind(p)
    BY <2>2, StillOnce DEF LoginFind, Proceed, Reject, Leave, Goto, history,
       Holds, HoldsAt
  <2>3. ASSUME NEW t \in TokenIds, StartRefresh(p, t)
        PROVE  Once'
    BY <2>3, StillOnce DEF StartRefresh, history
  <2>4. CASE RefreshFind(p)
    BY <2>4, RefreshFindOnce
  <2>5. CASE RefreshRevoke(p)
    BY <2>5, StillOnce DEF RefreshRevoke, Goto, history
  <2>6. CASE CreateRefreshToken(p)
    BY <2>6, CreateOnce
  <2>7. CASE Answer(p)
    BY <2>7, StillOnce DEF Answer, Leave, history
  <2>8. CASE Fail(p)
    BY <2>8, StillOnce DEF Fail, Leave
  <2> QED BY <1>2, <2>1, <2>2, <2>3, <2>4, <2>5, <2>6, <2>7, <2>8 DEF Handle
<1>3. CASE UNCHANGED vars
  BY <1>3, StillOnce DEF vars, locals, history
<1> QED BY <1>1, <1>2, <1>3 DEF Next

\* The comment in refreshToken, 'Rotate the refresh token (single-use)',
\* becomes true for any number of requests once no two of them are between
\* the check of one token and its revocation.
THEOREM SingleUseIfChecked == Spec /\ []OneCheck => []SingleUse
<1>1. Once => SingleUse
  BY DEF Once
<1> QED BY <1>1, Invariance, InitOnce, NextOnce, PTL DEF Spec

\* Served one at a time, refreshes do make tokens single-use: the promise
\* the code breaks under concurrency holds without it.
THEOREM SequentialSingleUse ==
    ASSUME \A p, q \in Handlers : p = q
    PROVE  Spec => []SingleUse
<1>1. OneCheck
  BY DEF OneCheck
<1> QED BY <1>1, SingleUseIfChecked, PTL
=============================================================================
