---------------------------- MODULE AnalyticsCache ----------------------------
(***************************************************************************)
(* GET /profiles/me/analytics: the access token's account is read          *)
(* (JwtStrategy), then CacheInterceptor looks for a cached response, and   *)
(* only if there is none the analytics are computed.                       *)
(*                                                                         *)
(* The cache is the memory of one API instance.  An entry is found by the  *)
(* URL of the request, which holds the period and the asset; the account   *)
(* is in a header.  What the figures are is TipReads' subject: here a      *)
(* response is only known by the account it is about.                      *)
(***************************************************************************)
CONSTANTS
    Handlers,   \* requests in flight at once
    Users,
    Urls,       \* one for every query string
    Null        \* no account

VARIABLES
    cache,      \* per URL: whose analytics are cached; Null for no entry
    storing,    \* entries on their way to the cache, as <<url, account>>
    active,     \* accounts whose isActive is true
    pc,         \* per handler: the awaited call it is suspended in
    user,       \* per handler: the account of its access token
    url,        \* per handler: its URL
    response    \* per handler: whose analytics it has to answer with

locals == <<pc, user, url, response>>
vars == <<cache, storing, active, locals>>

Goto(p, label) == pc' = [pc EXCEPT ![p] = label]

Leave(p) ==
    /\ Goto(p, "idle")
    /\ user' = [user EXCEPT ![p] = Null]
    /\ url' = [url EXCEPT ![p] = Null]
    /\ response' = [response EXCEPT ![p] = Null]

\* A request arrives with a valid access token of account u.
Arrive(p, u, q) ==
    /\ pc[p] = "idle"
    /\ Goto(p, "validate")
    /\ user' = [user EXCEPT ![p] = u]
    /\ url' = [url EXCEPT ![p] = q]
    /\ UNCHANGED <<cache, storing, active, response>>

\* JwtStrategy.validate: 401 unless the account is active.
Validate(p) ==
    /\ pc[p] = "validate"
    /\ IF user[p] \in active
       THEN Goto(p, "lookup") /\ UNCHANGED <<user, url, response>>
       ELSE Leave(p)
    /\ UNCHANGED <<cache, storing, active>>

\* CacheInterceptor.
Lookup(p) ==
    /\ pc[p] = "lookup"
    /\ IF cache[url[p]] # Null
       THEN /\ response' = [response EXCEPT ![p] = cache[url[p]]]
            /\ Goto(p, "answer")
       ELSE Goto(p, "compute") /\ UNCHANGED response
    /\ UNCHANGED <<cache, storing, active, user, url>>

\* getAnalytics of the account.  The interceptor begins to store the response
\* and does not wait for that.
GetAnalytics(p) ==
    /\ pc[p] = "compute"
    /\ response' = [response EXCEPT ![p] = user[p]]
    /\ storing' = storing \cup {<<url[p], user[p]>>}
    /\ Goto(p, "answer")
    /\ UNCHANGED <<cache, active, user, url>>

\* An entry is stored; storing it may fail.
Store(entry) ==
    /\ storing' = storing \ {entry}
    /\ \/ cache' = [cache EXCEPT ![entry[1]] = entry[2]]
       \/ UNCHANGED cache
    /\ UNCHANGED <<active, locals>>

Answer(p) ==
    /\ pc[p] = "answer"
    /\ Leave(p)
    /\ UNCHANGED <<cache, storing, active>>

\* A call throws, or the client is gone.
Fail(p) ==
    /\ pc[p] # "idle"
    /\ Leave(p)
    /\ UNCHANGED <<cache, storing, active>>

\* Five minutes have passed, or the instance has restarted.
Expire(q) ==
    /\ cache[q] # Null
    /\ cache' = [cache EXCEPT ![q] = Null]
    /\ UNCHANGED <<storing, active, locals>>

\* An operator switches an account off or on; no code of the service does.
SetActive(u) ==
    /\ active' = IF u \in active THEN active \ {u} ELSE active \cup {u}
    /\ UNCHANGED <<cache, storing, locals>>

Init ==
    /\ cache = [q \in Urls |-> Null]
    /\ storing = {}
    /\ active = Users
    /\ pc = [p \in Handlers |-> "idle"]
    /\ user = [p \in Handlers |-> Null]
    /\ url = [p \in Handlers |-> Null]
    /\ response = [p \in Handlers |-> Null]

Handle(p) ==
    \/ \E u \in Users, q \in Urls : Arrive(p, u, q)
    \/ Validate(p) \/ Lookup(p) \/ GetAnalytics(p)
    \/ Answer(p) \/ Fail(p)

Next ==
    \/ \E p \in Handlers : Handle(p)
    \/ \E entry \in storing : Store(entry)
    \/ \E q \in Urls : Expire(q)
    \/ \E u \in Users : SetActive(u)

Spec == Init /\ [][Next]_vars

\* docs/issues.md:241, 'Creators need a rich analytics endpoint ... to
\* understand their tipping activity': an answer is about the account that
\* asks.
OwnAnalytics ==
    \A p \in Handlers : pc[p] = "answer" => response[p] = user[p]
=============================================================================
