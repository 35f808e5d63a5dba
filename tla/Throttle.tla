------------------------------- MODULE Throttle -------------------------------
(***************************************************************************)
(* The rate limit of one key: the script Redis evaluates for it, and the   *)
(* requests whose guard asks for it through RedisThrottlerStorage.         *)
(*                                                                         *)
(* Two keys hold the state, `<key>:hits` and `<key>:blocked`; each is      *)
(* known by its PTTL, the ticks it has left.  Redis keeps a key while the  *)
(* clock has not passed its expiry, so PTTL answers 0 for one last tick,   *)
(* and -2 once the key is gone.  All API instances evaluate the script on  *)
(* the same two keys, and an evaluation is atomic.  Replies reach the      *)
(* request they are for: RedisLink says when that can be relied on.        *)
(***************************************************************************)
EXTENDS Integers

CONSTANTS
    Requests,   \* request slots, over all API instances
    Limit,      \* hits a window may hold
    Ttl,        \* length of a window, in ticks (milliseconds)
    Second,     \* ticks in the unit of Retry-After
    Slack,      \* how much of the history `excused` is kept
    Null

ASSUME ThrottleAssumption ==
    /\ Limit \in Nat \ {0}
    /\ Ttl \in Nat \ {0}
    /\ Second \in Nat \ {0}
    /\ Slack \in Nat
    /\ Null \notin Int

VARIABLES
    hits,       \* the counter; 0 where `<key>:hits` is gone
    hitTtl,     \* PTTL of `<key>:hits`
    blockTtl,   \* PTTL of `<key>:blocked`
    pc,         \* per request: where its guard is
    refused,    \* per request: isBlocked, while its guard has the answer
    passed,     \* history: ages of the latest requests let through, by an
                \* evaluation or by failing open
    excused,    \* history: ages of the latest ones Redis does not answer for:
                \* one for a request that failed open, Limit for a restart
    asked,      \* history: ages of the latest evaluations, while kept
    kept,       \* history: the client has stayed within the limit so far
    promise     \* history: ticks left of the shortest Retry-After told
                \* since the key was last blocked

redis == <<hits, hitTtl, blockTtl>>
guards == <<pc, refused>>
history == <<passed, excused, asked, kept, promise>>
vars == <<redis, guards, history>>

Gone == -2

\* Ages are counted up to Ttl + 1, which stands for everything older.
Old == Ttl + 1
Older(ages) == [i \in DOMAIN ages |-> IF ages[i] = Old THEN Old ELSE ages[i] + 1]
Never(n) == [i \in 1 .. n |-> Old]
WithLatest(n, ages) ==
    [i \in DOMAIN ages |-> IF i <= n THEN 0 ELSE ages[i - n]]

\* No throttler of the service sets blockDuration; it defaults to the ttl.
BlockDuration == Ttl

\* Mutant of RetryAfter: rounded to the nearest second below.
RetryAfterFloor(ttl) == (ttl \div Second) * Second

\* millisecondsToSeconds, told to the client as Retry-After.
RetryAfter(ttl) == ((ttl + Second - 1) \div Second) * Second

-----------------------------------------------------------------------------
(* The script.                                                             *)

\* The guard of request p is told to refuse, for `ttl` more ticks.
Tell(p, ttl) ==
    LET wait == RetryAfter(ttl) IN
    /\ refused' = [refused EXCEPT ![p] = pc[p] = "sent"]
    /\ promise' = IF promise = Null \/ wait < promise THEN wait ELSE promise

\* Mutant of Refuse: every refusal starts the block again.
RefuseAndExtend(p) ==
    /\ blockTtl > 0
    /\ blockTtl' = BlockDuration
    /\ Tell(p, BlockDuration)
    /\ UNCHANGED <<hits, hitTtl, passed>>

\* The key is blocked: nothing is counted, and the block is not extended.
Refuse(p) ==
    /\ blockTtl > 0
    /\ Tell(p, blockTtl)
    /\ UNCHANGED <<redis, passed>>

\* The hit is counted, the counter has `ttl` left; if the hit is over the
\* limit, the key is blocked and the request refused.
Hit(p, ttl, over) ==
    /\ hits' = hits + 1
    /\ hitTtl' = ttl
    /\ refused' = [refused EXCEPT ![p] = over /\ pc[p] = "sent"]
    /\ IF over
       THEN /\ blockTtl' = BlockDuration
            /\ promise' = RetryAfter(BlockDuration)
            /\ UNCHANGED passed
       ELSE /\ passed' = WithLatest(1, passed)
            /\ UNCHANGED <<blockTtl, promise>>

\* Mutant of Count: the counter never expires, and PTTL answers -1.
CountForever(p) ==
    /\ blockTtl <= 0
    /\ Hit(p, -1, hits + 1 > Limit)

\* Mutant of Count: the expiry of the counter is set by every hit.
CountAndRenew(p) ==
    /\ blockTtl <= 0
    /\ Hit(p, Ttl, hits + 1 > Limit)

\* Mutant of Count: the limit is compared before the hit is counted.
CountBefore(p) ==
    /\ blockTtl <= 0
    /\ Hit(p, IF hits = 0 THEN Ttl ELSE hitTtl, hits > Limit)

\* Only the first hit of a window sets its expiry.
Count(p) ==
    /\ blockTtl <= 0
    /\ Hit(p, IF hits = 0 THEN Ttl ELSE hitTtl, hits + 1 > Limit)

\* Redis evaluates the command of p.  Nobody waits for the answer to a
\* command whose request has failed open.
Evaluate(p) ==
    /\ pc[p] \in {"sent", "abandoned"}
    /\ pc' = [pc EXCEPT ![p] = IF pc[p] = "sent" THEN "answered" ELSE "idle"]
    /\ Refuse(p) \/ Count(p)
    /\ LET latest == WithLatest(1, asked) IN
       /\ kept' = (kept /\ latest[Limit + 1] = Old)
       /\ asked' = IF kept' THEN latest ELSE Never(Limit + 1)
    /\ UNCHANGED excused

-----------------------------------------------------------------------------
(* The guard of a request, around increment.                               *)

\* A request for the key enters the guard, which sends the command.
CanActivate(p) ==
    /\ pc[p] = "idle"
    /\ pc' = [pc EXCEPT ![p] = "sent"]
    /\ UNCHANGED <<redis, refused, history>>

\* The answer arrives: the request goes on, or is answered with 429.
Decide(p) ==
    /\ pc[p] = "answered"
    /\ pc' = [pc EXCEPT ![p] = "idle"]
    /\ refused' = [refused EXCEPT ![p] = FALSE]
    /\ UNCHANGED <<redis, history>>

\* The command rejects and the request is let through, whatever the count
\* is.  The command may have been evaluated, be lost, or reach Redis still.
FailOpen(p) ==
    /\ pc[p] \in {"sent", "answered"}
    /\ \E next \in {"idle", "abandoned"} :
          /\ next = "abandoned" => pc[p] = "sent"
          /\ pc' = [pc EXCEPT ![p] = next]
    /\ passed' = WithLatest(1, passed)
    /\ excused' = WithLatest(1, excused)
    /\ refused' = [refused EXCEPT ![p] = FALSE]
    /\ UNCHANGED <<redis, asked, kept, promise>>

\* A command on its way is lost with its connection.
LoseCommand(p) ==
    /\ pc[p] = "abandoned"
    /\ pc' = [pc EXCEPT ![p] = "idle"]
    /\ UNCHANGED <<redis, refused, history>>

-----------------------------------------------------------------------------
(* Redis and the clock.                                                    *)

Elapsed(ttl) == IF ttl > 0 THEN ttl - 1 ELSE Gone

Tick ==
    /\ hitTtl' = Elapsed(hitTtl)
    /\ hits' = IF hitTtl' = Gone THEN 0 ELSE hits
    /\ blockTtl' = Elapsed(blockTtl)
    /\ passed' = Older(passed)
    /\ excused' = Older(excused)
    /\ asked' = Older(asked)
    /\ promise' = IF promise \in {Null, 0} THEN promise ELSE promise - 1
    /\ UNCHANGED <<guards, kept>>

\* Redis restarts without its keys and counts again from nothing; what it let
\* through before was let through.
Restart ==
    /\ hits' = 0
    /\ hitTtl' = Gone
    /\ blockTtl' = Gone
    /\ excused' = WithLatest(Limit, excused)
    /\ UNCHANGED <<guards, passed, asked, kept, promise>>

-----------------------------------------------------------------------------
Init ==
    /\ hits = 0
    /\ hitTtl = Gone
    /\ blockTtl = Gone
    /\ pc = [p \in Requests |-> "idle"]
    /\ refused = [p \in Requests |-> FALSE]
    /\ passed = Never(2 * Limit + Slack)
    /\ excused = Never(Slack + 1)
    /\ asked = Never(Limit + 1)
    /\ kept = TRUE
    /\ promise = Null

Guard(p) ==
    \/ CanActivate(p)
    \/ Evaluate(p)
    \/ Decide(p)
    \/ FailOpen(p)
    \/ LoseCommand(p)

Next == Tick \/ Restart \/ \E p \in Requests : Guard(p)

Spec == Init /\ [][Next]_vars

\* Time passes; requests need not come.
FairSpec == Spec /\ WF_vars(Tick)

-----------------------------------------------------------------------------
\* The counter exists exactly while it has time left, so every window comes
\* to its end.  One hit more than the first refused one is possible, at the
\* tick in which the block answers 0 and the counter is not gone.
TypeOK ==
    /\ hits \in 0 .. Limit + 2
    /\ hitTtl \in {Gone} \cup 0 .. Ttl
    /\ blockTtl \in {Gone} \cup 0 .. BlockDuration
    /\ hits = 0 <=> hitTtl = Gone
    /\ pc \in [Requests -> {"idle", "sent", "answered", "abandoned"}]
    /\ refused \in [Requests -> BOOLEAN]
    /\ passed \in [1 .. 2 * Limit + Slack -> 0 .. Old]
    /\ excused \in [1 .. Slack + 1 -> 0 .. Old]
    /\ asked \in [1 .. Limit + 1 -> 0 .. Old]
    /\ kept \in BOOLEAN
    /\ promise \in Nat \cup {Null}

\* The windows are fixed, not sliding: one may end just before the next is
\* filled.  Still no stretch of time as long as a window lets twice the limit
\* through, if nothing fails in it; each request that fails open in it, and
\* Limit times each restart of Redis, raises that bound by one.
TwoWindowLimit ==
    \A n \in 0 .. Slack :
        excused[n + 1] = Old => passed[2 * Limit + n] = Old

\* A client that never asks more than Limit times within a window's length,
\* wherever its requests fall on the windows of the counter, is not refused.
KeepersAreServed ==
    kept => \A p \in Requests : pc[p] = "answered" => ~refused[p]

\* Who waits for as long as a refusal told is not refused for the same hits:
\* the block is over, and the counter that led to it is gone or, when the
\* whole window fell on one tick, in the tick in which it goes.
RetryAfterSuffices ==
    promise = 0 => blockTtl <= 0 /\ (hits > Limit => hitTtl = 0)

\* A block ends, however often the client asks meanwhile.
BlockEnds == (blockTtl > 0) ~> (blockTtl <= 0)
=============================================================================
