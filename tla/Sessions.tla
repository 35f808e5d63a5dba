------------------------------- MODULE Sessions -------------------------------
(***************************************************************************)
(* Refresh tokens: the `refresh_tokens` table and the requests that write  *)
(* it.                                                                     *)
(*                                                                         *)
(*   POST /auth/login, /auth/signup    loginWithEmail, signup              *)
(*   POST /auth/stellar/login          validateStellarUser, login          *)
(*   POST /auth/refresh                refreshToken                        *)
(*                                                                         *)
(* refreshToken reads the token, revokes it and inserts its successor in   *)
(* three awaited calls without a transaction; the revocation is an update  *)
(* by primary key that does not look at isRevoked again.                   *)
(***************************************************************************)
EXTENDS Naturals

CONSTANTS
    Handlers,   \* request slots: how many requests may be in flight at once
    TokenIds,   \* rows of refresh_tokens; their number bounds the table
    Users,      \* accounts
    Null

ASSUME SessionsAssumption ==
    /\ Null \notin Users
    /\ Null \notin TokenIds

VARIABLES
    owner,      \* the table: TokenIds -> Users, Null where there is no row
    revoked,    \* rows whose isRevoked is true
    expired,    \* rows whose expiresAt has passed
    active,     \* accounts whose isActive is true
    pc,         \* per handler: the awaited call it is suspended in
    token,      \* per handler: the refresh token presented to it
    user,       \* per handler: the account it read
    fresh,      \* per handler: the refresh token it created
    known,      \* tokens that have reached a client
    parent,     \* history: the token a token was exchanged for
    maker,      \* history: the handler that inserted a token
    dropped,    \* history: tokens revoked without a successor for the client
    purged      \* history: tokens revokeUserRefreshTokens revoked while no
                \* request was past its check of them

table == <<owner, revoked, expired>>
locals == <<pc, token, user, fresh>>
history == <<parent, maker, dropped, purged>>
vars == <<table, active, locals, known, history>>

Label == {"idle", "login?", "walletLogin?", "refresh?", "revoke", "create",
          "answer"}

Rows == {t \in TokenIds : owner[t] # Null}

-----------------------------------------------------------------------------
Goto(p, label) ==
    /\ pc' = [pc EXCEPT ![p] = label]
    /\ UNCHANGED token

Leave(p) ==
    /\ pc' = [pc EXCEPT ![p] = "idle"]
    /\ token' = [token EXCEPT ![p] = Null]
    /\ user' = [user EXCEPT ![p] = Null]
    /\ fresh' = [fresh EXCEPT ![p] = Null]

\* The request is answered with an exception; no table has changed.
Reject(p) ==
    /\ Leave(p)
    /\ UNCHANGED <<table, active, known, history>>

\* The handler has read account u, and goes on to its next call.
Proceed(p, u, label) ==
    /\ user' = [user EXCEPT ![p] = u]
    /\ Goto(p, label)
    /\ UNCHANGED <<fresh, table, active, known, history>>

-----------------------------------------------------------------------------
(* Logging in.                                                             *)

\* loginWithEmail with the right password, and login after a wallet sign-in.
\* A request with wrong credentials changes nothing.
StartLogin(p, u, label) ==
    /\ pc[p] = "idle"
    /\ user' = [user EXCEPT ![p] = u]
    /\ Goto(p, label)
    /\ UNCHANGED <<fresh, table, active, known, history>>

\* The account is read.  Only the email login looks at isActive.
LoginFind(p) ==
    \/ /\ pc[p] = "login?"
       /\ IF user[p] \in active
          THEN Proceed(p, user[p], "create")
          ELSE Reject(p)
    \/ /\ pc[p] = "walletLogin?"
       /\ Proceed(p, user[p], "create")

-----------------------------------------------------------------------------
(* Refreshing.                                                             *)

\* A client presents a token it has been given.  (An unknown token finds no
\* row.)
StartRefresh(p, t) ==
    /\ pc[p] = "idle"
    /\ t \in known
    /\ pc' = [pc EXCEPT ![p] = "refresh?"]
    /\ token' = [token EXCEPT ![p] = t]
    /\ UNCHANGED <<user, fresh, table, active, known, history>>

\* Mutant of RefreshFind: the query does not ask for isRevoked: false.
RefreshFindAny(p) ==
    /\ pc[p] = "refresh?"
    /\ LET t == token[p] IN
       IF t \notin expired /\ owner[t] \in active
       THEN Proceed(p, owner[t], "revoke")
       ELSE Reject(p)

\* One query reads the token, if it is not revoked, and its user.
RefreshFind(p) ==
    /\ pc[p] = "refresh?"
    /\ LET t == token[p] IN
       IF t \notin revoked \cup expired /\ owner[t] \in active
       THEN Proceed(p, owner[t], "revoke")
       ELSE Reject(p)

\* Mutant of RefreshRevoke: the presented token stays valid.
RefreshWithoutRotation(p) ==
    /\ pc[p] = "revoke"
    /\ Goto(p, "create")
    /\ UNCHANGED <<user, fresh, table, active, known, history>>

\* Mutant of RefreshRevoke: the account is checked after the revocation.
RefreshRevokeThenCheck(p) ==
    /\ pc[p] = "revoke"
    /\ revoked' = revoked \cup {token[p]}
    /\ IF user[p] \in active
       THEN Goto(p, "create") /\ UNCHANGED <<user, fresh>>
       ELSE Leave(p)
    /\ UNCHANGED <<owner, expired, active, known, history>>

\* update(id, {isRevoked: true})
RefreshRevoke(p) ==
    /\ pc[p] = "revoke"
    /\ revoked' = revoked \cup {token[p]}
    /\ Goto(p, "create")
    /\ UNCHANGED <<user, fresh, owner, expired, active, known, history>>

-----------------------------------------------------------------------------
(* createRefreshToken, and the end of a request.                           *)

CreateRefreshToken(p) ==
    /\ pc[p] = "create"
    /\ \E t \in TokenIds \ Rows :
          /\ owner' = [owner EXCEPT ![t] = user[p]]
          /\ parent' = [parent EXCEPT ![t] = token[p]]
          /\ maker' = [maker EXCEPT ![t] = p]
          /\ fresh' = [fresh EXCEPT ![p] = t]
    /\ Goto(p, "answer")
    /\ UNCHANGED <<user, revoked, expired, active, known, dropped, purged>>

\* Mutant of Answer: the presented token is returned.
AnswerPresented(p) ==
    /\ pc[p] = "answer"
    /\ known' = known \cup {token[p]}
    /\ Leave(p)
    /\ UNCHANGED <<table, active, history>>

\* The client receives its tokens.
Answer(p) ==
    /\ pc[p] = "answer"
    /\ known' = known \cup {fresh[p]}
    /\ Leave(p)
    /\ UNCHANGED <<table, active, history>>

\* The awaited call throws, the answer is lost or the process stops.  A
\* rotation that fails after the revocation is not undone.
Fail(p) ==
    /\ pc[p] # "idle"
    /\ dropped' = IF pc[p] \in {"create", "answer"} /\ token[p] # Null
                  THEN dropped \cup {token[p]} ELSE dropped
    /\ Leave(p)
    /\ UNCHANGED <<table, active, known, parent, maker, purged>>

-----------------------------------------------------------------------------
(* The surroundings.                                                       *)

\* One UPDATE over the live tokens of an account.  The service offers it;
\* no controller calls it yet.
RevokeUserRefreshTokens(u) ==
    LET live == {t \in TokenIds : owner[t] = u} \ revoked
        held == {token[p] : p \in {q \in Handlers : pc[q] = "revoke"}}
    IN
    /\ live # {}
    /\ revoked' = revoked \cup live
    /\ dropped' = dropped \cup live
    /\ purged' = purged \cup (live \ held)
    /\ UNCHANGED <<owner, expired, active, locals, known, parent, maker>>

\* The clock passes expiresAt.
Expire(t) ==
    /\ t \in Rows \ expired
    /\ expired' = expired \cup {t}
    /\ UNCHANGED <<owner, revoked, active, locals, known, history>>

\* An operator switches an account off or on; no code of the service does.
SetActive(u) ==
    /\ active' = IF u \in active THEN active \ {u} ELSE active \cup {u}
    /\ UNCHANGED <<table, locals, known, history>>

-----------------------------------------------------------------------------
Init ==
    /\ owner = [t \in TokenIds |-> Null]
    /\ revoked = {}
    /\ expired = {}
    /\ active = Users
    /\ pc = [p \in Handlers |-> "idle"]
    /\ token = [p \in Handlers |-> Null]
    /\ user = [p \in Handlers |-> Null]
    /\ fresh = [p \in Handlers |-> Null]
    /\ known = {}
    /\ parent = [t \in TokenIds |-> Null]
    /\ maker = [t \in TokenIds |-> Null]
    /\ dropped = {}
    /\ purged = {}

Environment ==
    \/ \E u \in Users : RevokeUserRefreshTokens(u)
    \/ \E t \in TokenIds : Expire(t)
    \/ \E u \in Users : SetActive(u)

Handle(p) ==
    \/ \E u \in Users, label \in {"login?", "walletLogin?"} :
          StartLogin(p, u, label)
    \/ LoginFind(p)
    \/ \E t \in TokenIds : StartRefresh(p, t)
    \/ RefreshFind(p)
    \/ RefreshRevoke(p)
    \/ CreateRefreshToken(p)
    \/ Answer(p)
    \/ Fail(p)

Next == Environment \/ \E p \in Handlers : Handle(p)

Spec == Init /\ [][Next]_vars

-----------------------------------------------------------------------------
TypeOK ==
    /\ owner \in [TokenIds -> Users \cup {Null}]
    /\ revoked \subseteq TokenIds
    /\ expired \subseteq TokenIds
    /\ active \subseteq Users
    /\ pc \in [Handlers -> Label]
    /\ token \in [Handlers -> TokenIds \cup {Null}]
    /\ user \in [Handlers -> Users \cup {Null}]
    /\ fresh \in [Handlers -> TokenIds \cup {Null}]
    /\ known \subseteq TokenIds
    /\ parent \in [TokenIds -> TokenIds \cup {Null}]
    /\ maker \in [TokenIds -> Handlers \cup {Null}]
    /\ dropped \subseteq TokenIds
    /\ purged \subseteq TokenIds

\* A token that has been exchanged can no longer be: whatever interleaving
\* led to the exchange, its revocation came before the successor, and the
\* successor belongs to the same account.
ExchangedIsRevoked ==
    \A t \in TokenIds :
        parent[t] # Null =>
            parent[t] \in revoked /\ owner[t] = owner[parent[t]]

\* One request slot exchanges a token at most once: only refreshes that
\* overlap can turn one token into several.
OverlapOnly ==
    \A t, u \in TokenIds :
        t # u /\ parent[t] # Null /\ parent[t] = parent[u] =>
            maker[t] # maker[u]

\* No client loses its session silently: a revoked token has a successor the
\* client was given, or a request that will give it one is under way, or the
\* rotation failed between its steps, or the account's tokens were revoked.
ReplacedOrDropped ==
    \A t \in revoked :
        \/ t \in dropped
        \/ \E u \in known : parent[u] = t
        \/ \E p \in Handlers : pc[p] \in {"create", "answer"} /\ token[p] = t

\* Signing an account out everywhere holds: none of the tokens it revokes is
\* exchanged later, unless a request had already passed its check of that
\* token when the table was updated.
RevocationEndsSessions == \A t \in TokenIds : parent[t] \notin purged

\* The comment in refreshToken, 'Rotate the refresh token (single-use)': a
\* token is exchanged for one other token.
SingleUse ==
    \A t, u \in TokenIds :
        t # u /\ parent[t] # Null => parent[t] # parent[u]
=============================================================================
