# StellarTip API: a formal model

TLA+ modules for the StellarTip API (NestJS, TypeORM on PostgreSQL, Redis),
the TLC configurations that check them on small instances, and TLAPS proofs
for instances of any size. Every definition is translated from the code in
`src/`; `PROJECT.json` maps each one to its lines. Code that the repository
only uses (TypeORM, Node's sockets, Redis, the operating system) is modelled by
its documented behaviour as the code relies on it, and marked external there.

## 1. The system

The API is a set of stateless request handlers over one PostgreSQL database.
Several instances may run at once. A handler is an async function: it runs
without interruption up to an `await`, and any other handler, of this instance
or of another, may run while it waits. No handler opens a transaction, so the
unit of atomicity is one SQL statement. State outside the database: the rate
limiter's Redis connection, a verification cache (Redis or a map in memory),
avatar files.

| Part | State | Operations that change it | Meets the others by |
|---|---|---|---|
| Tip ledger (`tips.service`, `stellar.service` webhook) | table `tips` | createTip, confirmTip, handleContractWebhook | reads `users`; inserts `notifications` |
| Sessions (`auth.service`) | table `refresh_tokens` | login, refresh, revoke | reads `users` |
| Rate limiter connection (`redis-throttler.storage`) | one socket, one buffer, promises in flight | increment | called by the guard of every route |
| Rate limiter script (Lua, same file) | two Redis keys per client and URL | EVAL | reply decides the request; all instances share the keys |
| On-chain verification (`verifyTipOnChain`) | a 60 s cache; discrepancy notifications | verify | reads `tips`, Horizon, Soroban |
| Accounts (`signup`, `validateStellarUser`, `updateWalletAddress`) | table `users` | sign up, sign in, link a wallet | unique columns |
| Profiles and avatars | `users`, files | update, upload | the same rows |
| Analytics, statistics, tip queries | none | none | several reads of `tips` without a snapshot |
| Response cache (`CacheInterceptor` in front of the analytics) | a map in memory, per instance | store, expire | keyed by the URL; reads `users` in the guard before it |
| Notifications | table `notifications` | insert, mark as read, list | called by ledger and verification |
| Guards, health, HTTP shell, schema | none | none | |

What is hard in it: check-then-write pairs without a transaction; copies of a
row that are saved after the row has changed; webhook deliveries that are
repeated, late or fail half way; two steps of which the second may not happen;
one connection shared by all requests; events of a socket that the code does
not listen for. `PROJECT.json` lists these hazards at their lines, each with
the properties that watch it; where the code really has the defect and nothing
forbids it, with a note that says which property describes or exempts it.

What makes each part correct:

* *Tip ledger*: one tip per transaction hash; an acknowledged event has been
  recorded and announced, once; a settled tip stays settled; columns agree.
* *Sessions*: a token is exchanged once; no client loses its session silently.
* *Rate limiter connection*: the reply that decides a request is the one to its
  own command; every request is decided or let through.
* *Rate limiter script*: a window lets the limit through and no block outlives
  what it told the client; who keeps to the limit is served.
* *Verification*: a tip is compared with its own entry on the contract; one
  notification per discrepancy; a cached answer is never older than the tip.
* *Accounts*: one account per wallet, email and user name, and the loser of a
  race gets a conflict and not a failure.
* *Profiles*: a row never names a missing file; an update changes what it was
  asked to change.
* *Analytics*: the parts of one answer add up, and are about who asked.
* *Public page*: its messages are of tips to the creator whose page it is.
* *Notifications*: who walks the list and marks it has nothing unread left.
* *Lists*: a walk over the pages misses no row and is never sent to an empty
  page.

## 2. The plan

Modules in order of importance; all are written.

| Module | Models | Abstract specification | Checks |
|---|---|---|---|
| `TipLedger` | the ledger and the webhook | `TipBook` | runs `ledger*`, proofs |
| `Sessions` | refresh tokens | none: its history variables say it | run `sessions`, proofs |
| `RedisLink` | the shared Redis connection | none: `OwnReplyAlone` says what a connection of one's own would do | run `redis_link`, proofs |
| `Throttle` | the Lua script on one key, with time, and the guard around it | none: ages of past requests say it | run `throttle`, proofs |
| `Verification` | verifyTipOnChain with cache and index, next to a growing ledger and contract | none: its invariants compare a result with the chain | run `verification`, proofs |
| `Accounts` | the table `users`: look-ups before inserts and links, saves of stale objects, avatar files | none: `ChangesAsAsked` says what an update promises | run `accounts`, proofs |
| `TipReads` | walks over pages, figures without a snapshot, next to a table that changes | none: its invariants relate the parts of an answer to each other | runs `tip_reads`, `public_page`, proofs |
| `Inbox` | notifications: inserts, paged list, marking | none | run `inbox`, proofs |
| `AnalyticsCache` | the access token's check and the response cache | none | run `analytics_own` |

Left for later: the composition of `Throttle` with `RedisLink` (a request that is
decided by the reply to another one's command, on another key), and the search
and profile reads, which are single statements. Modules meant for proofs use no
RECURSIVE operator.

## 3. Modules and their correspondence with the code

### TipLedger, TipBook

`tips` is the table, a function from primary keys to rows with `Null` where
there is no row. A row keeps the four columns that change after the insert.
`users` is the set of wallets that have an account, `notifications` counts the
TIP_RECEIVED rows of each tip, `fresh` the events that are inside the five
minutes of `assertEventIsFresh`. Each handler slot has a program counter, named
after the awaited call it is suspended in, and its local variables: the request
(`arg`), the tip's id (`tip`), the object it modified (`entity`) and the row
that `save()` read (`base`). `origin`, `acked`, `dupAcked`, `late`, `stale` and
`overwritten` are history: no guard reads them. `stale` holds the handlers whose
tip was saved by another one after they read it, `overwritten` the tips such a
handler has saved.

One action is one awaited call with the synchronous code behind it. The label a
handler waits at names the call: `duplicate?` is the query of
`isDuplicateTransaction`, `creator?` and `receiver?` the look-ups of the
receiver, `insertEvent` and `insertCreate` the two inserts, `notify` the
notification, `linked?` the query of `persistWithdrawalEvent`, `confirm?` the
one of `confirmTip`, `load` and `update` the SELECT and the UPDATE inside
`Repository.save` of a loaded object.

Two points carry most of the behaviour:

* *Repository.save of a loaded object* selects the row again and updates the
  columns in which the object in memory differs from it. A property that is
  `undefined` is skipped. So a handler overwrites a column with its stale value
  exactly when somebody changed it between the handler's read and the SELECT of
  `save` (`Column`, `Merge`, `SaveLoad`, `SaveUpdate`). The SELECT and the
  UPDATE are two steps: TypeORM opens its transaction after the SELECT, and
  READ COMMITTED would not order them anyway.
* *Unique columns* are the only protection against duplicates; a violation is an
  exception of the insert or update (`Conflict`).

`Fail` may hit a handler at any await: the database call throws, the client
goes away, or the process stops. Nothing is undone and nothing is repaired at a
restart, so one action stands for all three. A delivery is repeated as often as
the sender likes while the event is fresh; a delivery with a bad signature or
outside the window is refused before the first await and changes nothing.
Abstracted: amounts, assets, messages and wallets of tips (one `valid` flag
stands for their checks, which do not depend on the database), creator
columns, which are written once.

`TipBook` is what the ledger promises: entries are written once, entries from
the chain are announced at most once, an acknowledgement comes after both. The
mapping takes `origin` and `acked` as they are and announced entries as those
with a notification.

### Sessions

`owner`, `revoked` and `expired` are the columns of `refresh_tokens`, `active`
the accounts with `isActive`. A refresh goes through `refresh?` (one query, with
the user joined), `revoke` (the update by id) and `create` (the insert). A
login goes through `login?` or `walletLogin?` and `create`; sign-up issues its
token as the wallet login does. `known` is the set of tokens a client has
received: only such a token can be presented, any other finds no row. `parent`,
`maker` and `dropped` are history. `RevokeUserRefreshTokens` is an exported
operation of the service that no controller calls yet; `purged` is the history
of the tokens it revoked that no request was past the check of.

### RedisLink

One instance's `RedisCommandConnection`. A command opens at most one socket, so
sockets are named after commands. `listeners[s]` are the requests with a data
listener on socket `s`, in order of registration; `pending[s]` those Redis has
still to answer; `buffer` the replies that were received and not consumed: one
buffer for all sockets, never cleared. `Data` delivers a chunk of `k` whole
replies to every listener: each appends the chunk to the buffer and parses one
reply off its head, so the i-th of n listeners sees the i-th reply of the buffer
followed by n copies of the chunk (`Stream`). That closed form replaces the loop
over the listeners. An error reply is thrown before the buffer is advanced
(`FirstError`, `Unread`). A command that opened a socket has its AUTH
first on it, and evaluates once that is answered (`Evaluations`).

`Connected`, `Refused`, `Reset` (the 'error' event) and `End` (closed without
one) are what the operating system reports. Left out: the SELECT of a URL with a
database, which repeats the pattern of AUTH; replies cut by a chunk boundary;
the contents of the replies, which are `Throttle`'s.

What this means for the code. `OwnReplyAlone` ends where two commands overlap:
from then on the first reply to arrive settles every command in flight
(`src/src/config/redis-throttler.storage.ts:33`), and the replies left over answer
later ones, so that the limit of one client and URL is applied to another.
`SettledUnlessSilent` has an exception because no code listens for 'end' or
'close': a socket that Redis closes in good order (an idle timeout, a shutdown)
leaves its commands, and their HTTP requests, waiting.

### Throttle

One key of the limiter. `hits` is the counter at `<key>:hits`; `hitTtl` and
`blockTtl` are what PTTL answers for `<key>:hits` and `<key>:blocked`: a key lives
until the clock has passed its expiry, so the answer is 0 in its last tick and
-2 (`Gone`) after it. `Evaluate` is one evaluation of the script: `Refuse` where
PTTL of the block is positive, otherwise `Count`, which sets the expiry of the
counter with its first hit only and blocks the key when the hit is over the
limit. `RetryAfter` is `millisecondsToSeconds`, in ticks. A request sends its
command (`CanActivate`) and is decided by the answer (`Decide`), or fails open
(`FailOpen`), after which its command may still be evaluated, or be lost
(`LoseCommand`). `Tick` is a millisecond, `Restart` a Redis that comes back
without its keys.

`passed` holds the ages of the latest requests that were let through, by an
evaluation or by failing open, across every restart of Redis; ages stop at one
more than a window. `excused` holds the ages of what Redis cannot answer for: one
entry for a request that failed open, `Limit` entries for a restart, after which
it counts from nothing. `Slack` says how many of these are kept. `asked` holds
the ages of the latest evaluations; `kept` says that the client never had more
than `Limit` of them within a window's length, and `asked` is not kept up beyond
that; `promise` is how long a client that was refused still has to wait. These
are history.

The key is the tracker, the method and `request.url` with its query string
(`src/src/app.module.ts:44`), so requests with different queries are counted
apart: that is one key here. No throttler sets `blockDuration`, which is then the
ttl. The limits that single routes set (`src/src/config/throttle.config.ts`) are
values of `Limit` and `Ttl`. Without REDIS_URL the library's storage in memory is
used, which is not modelled. That the answer is the one to the request's own
command is an assumption here; `RedisLink` says when it holds.

### Verification

A payment is a transaction, known by its hash. `made` are the payments Horizon
knows, `entries` the contract's list of those made through it, which only grows;
`Pay` makes one either way. What each side tells of a payment is constant:
`Recorded` are its parties and amount, its terms, in the contract's list,
`Operations` what each operation of Horizon's reply states, `Closed` and
`Stamped` the times of the two. Two payments may have the same terms, the same
times or both, and nothing obliges the two sides to agree.

`order` lists the creator's rows of `tips` by `createdAt`; `claim` is, per tip,
its terms, `hash` the payment whose transaction hash the row holds. A
verification waits at one label per awaited call: `cache?`, `find`, `index`,
`horizon`, `contract`, `notify`, `store`. `GetCreatorTipIndex` is the place the
code finds in the list of the creator's tips. `Stated` is what `verifyPayment` makes
of a reply: the source account with the recipient and amount of the *first*
operation, whatever the others are. `SameTime` is `timestampMatch`: a time that is
absent on either side matches any. `Unreadable` is `toISOString` of a time that
is no date, which throws a RangeError and ends the request; as
`normalizeTimestamp` passes on a text it cannot read, the contract's time can be
one too (a number of seconds, as ledgers keep time, is such a text). `Matches`
compares as the code does: terms on both sides, and times; the asset and whether
the transaction succeeded are not compared there, and so not here.

`ReadVerificationCache` and `WriteVerificationCache` stand for both caches of the
code, Redis and the map in memory: `CacheOf` says which one a handler uses, a
shared one or one of its own process. `Expire` is the 60 s limit. `drifted`,
`failed` and `rehashed` (the tips whose hash a confirmation replaced by another)
are history.

A failed call to Horizon or to the contract is a default answer and not an
error, as in the `catch` blocks of `stellar.service`; a Horizon that lags behind
the contract looks the same. The contract's three reads are one step, since its
list only grows; the operations of a transaction are an array, as the code
states. No tip has an empty recipient and the amount 0, which is what the code
makes of a reply without operations.

### Accounts

`users` is the table, a row a function from columns to values with `Null` for
NULL; the seven columns are those the operations set. `files` is the directory of
avatars, shared by all instances. A request names an operation and the columns it
asks for; `Given` is what the code makes of that: a display name is set when it is
truthy (`src/src/profiles/profiles.service.ts:160`), any other column when it is
there. `Basename` is the file name an avatar's address ends in, any address a
client stores included: `Replace` deletes the file of that name, whoever it
belongs to.
The labels are the awaited calls: `email?` and `username?` of `signup`,
`wallet?` of `validateStellarUser`, `free?` of `updateWalletAddress`, `find` of
every update, `load` and `update` the SELECT and UPDATE of `Repository.save`,
`insert` that of a new row. `Note` keeps, per handler, the cells others wrote
after the handler had seen them (`Seen`); `apart` the accounts whose file and row
were let go apart, and `uploader` the account a file name was given to. These
three are history.

Left out: requests refused before the first await or for a body that changes
nothing (mime type, size, a link without https); hashing the password, which is
part of the wait before the insert; the tokens issued afterwards, which are in
`Sessions`. The files are named by random UUIDs, so `UploadAvatar` takes a name
never used before. `updateWalletAddress` is an operation of the service that no controller calls
yet.

### TipReads

Endpoints that only read `tips`, next to a table that changes. `list[w]` holds
the rows a walk of creator `w` may return, in the order it asks for:
`buildFilterQuery` filters and sorts by columns that are written once, so an
update moves no row, and an insert may put one anywhere (`CreateTip(t, i)`).
TypeORM tells rows that are equal in the order apart by id. The three lists of the
code (received, sent, by wallet) differ in the filter only. `StartWalk` is the
check of the page size; `SelectPage` and `CountRows` are the two statements of
`findAndCount`; the client asks for the next page when `hasNextPage` says so,
and may ask for the same page again (`AskAgain`).

`GetAnalytics` goes through `summary`, `byAsset`, `series` and `supporters`,
`GetTippingInfo` through `stats`, `top` and `recent`: the aggregates in the order
of the code, each one statement. A creator of `Walletless` has an account and no
wallet, as after a sign-up by e-mail: the aggregates compare a column with NULL
and find nothing, while `find()` leaves a null out of its condition, so that
`Shown` is then every completed tip there is. Only completed tips are counted, so what matters
about the ledger is when a tip becomes completed, and when a withdrawal that
saves a stale copy takes that back (`TakeBack`, the case of
`UnconfirmedOnlyByStaleWithdrawal` in `TipLedger`). `aim` and `shift` are
history.

Abstracted: the period is part of the filter; the days of the series are added
up; averages and the largest tip are left out; a message is the tip it came with.
Page sizes
are integers, and one that is absent, 0 or not a number is the default. Left out:
`getTipStats` (one statement); the response cache is `AnalyticsCache`.

### Inbox

The notifications of one user. PostgreSQL stamps a row when its transaction
begins and shows it when it commits, so an insert is two steps
(`CreateNotification`, `Commit`) and a row may appear below younger ones. The
list asks for `createdAt` descending and nothing else: `Pages` is the set of
pages the database may return for a skip, any order of equal stamps included.
`SelectPage` and `CountRows` are the two statements of `findAndCount`; `markAsRead`
is a read and a save (`FindNote`, `SaveNote`), asked for by the walk or by another
client of the user. `aim` is history.

`page` and `limit` are not validated by the controller: the model takes a page
size of at least 1. With 0 TypeORM sends no LIMIT and `hasNextPage` stays true,
with a negative one PostgreSQL refuses the query. `docs/issues.md:185` speaks of
unread notifications; the code returns all of them. The unread count is one
statement.

### AnalyticsCache

`JwtStrategy.validate` reads the account (`Validate`), `CacheInterceptor` looks
for the URL (`Lookup`), and where it finds nothing the analytics are computed
(`GetAnalytics`) and stored without waiting (`Store`). A response is known by the
account it is about; `cache` is the memory of one instance.

## 4. Runs

| Run | Instance | Question | Result |
|---|---|---|---|
| `ledger` | 2 handlers, 2 tips, 2 hashes, a tip event, a withdrawal event, a creation without hash and one that is refused, confirmations with a hash and without | what can interleaving, redelivery and failure not break? | holds; 1.2 million states |
| `ledger_replay` | 1 handler, one event, one confirmation | is a replayed event never processed again? | violated |
| `ledger_crash` | the same | is the creator notified before a sender gets its 200? | violated |
| `sessions` | 2 handlers, 3 tokens, 2 accounts | which promises survive overlap and failure? | holds; 3.8 million states |
| `redis_link` | 3 commands, with a password | what can a command rely on, and when does it end? | holds; 180 thousand states |
| `throttle` | 2 requests, a limit of 2 in a window of 3 ticks, seconds of 2 ticks, 2 excuses | what does the limit promise the service and the client? | holds; 690 thousand states |
| `verification` | 2 handlers, 2 tips of one creator, 3 payments of which 2 are made, one shared cache | what may a result claim, and whom does it alarm? | holds; 2.2 million states |
| `accounts` | 2 handlers, 2 accounts, one wallet, 2 sign-ups of one person, 2 files, 3 edits | which promises about rows, unique columns and files survive? | holds; 1.7 million states |
| `tip_reads` | 1 client, 4 tips of 2 creators and a creator without a wallet, 2 assets, 2 senders and an unnamed one, pages of 1 and 2 rows | what do the pages of a walk and the parts of an answer promise? | holds; 536 thousand states |
| `public_page` | the same | are the messages of a page of tips to its creator? | violated |
| `inbox` | 4 notifications, pages of 2, a clock of 4 stamps | has who marked every page read everything? | holds; 1.7 million states |
| `analytics_own` | 2 requests, 2 accounts, 2 URLs | is an answer about the account that asks? | violated |

Why these bounds are enough to be interesting. Two handlers are what every race
of the ledger takes: a check, a write of the other, a stale write; the events
may be delivered any number of times, so histories are not bounded by the
number of handlers. Two tips and two hashes let a hash be free, used once or
wanted twice. Three tokens allow a token to be exchanged twice. Three Redis
commands allow two in flight and a third that meets what they left behind; the
bound on the tables is `TipIds`, `TokenIds` and `Ids` (an insert needs a free
key), uploads are bounded by the names in `Files`, and commands are made once each, which is why only `redis_link` has
`CHECK_DEADLOCK FALSE`: there the system stops when all are done. One of the
sign-ups of `accounts` asks for the name that a wallet account would get, so that
every unique column is contended; two files let an upload replace an upload, and
the one address a profile may be given ends in the name of one of them; the
profile update asks for an empty display name as well. In `ledger` the requests
are those that race; register events, unknown topics, tip events that do not
parse, withdrawals that name their tip by hash and unknown statuses add states
and no interleaving, and are covered by the proofs only.

Two tips of one creator are what a rank that drifts takes. Of the three payments
of `verification` two have the same terms at different times, so that only the
time tells them apart; the third has another operation first, a time in Horizon's
reply that cannot be read and none in the contract's. Its constraint `Bounds`
keeps the instance within reach: at most two of the three payments are made, one
tip's hash is replaced, and two requests are in flight at once only when they
verify the same tip and the contract has both of the equal payments. In
`accounts` the constraint `OverlapByKind` does the same: sign-ups, sign-ins and
wallet links, whose races are about unique columns, overlap other requests before
the first upload only; after it they come one at a time, while profile updates,
links and uploads go on to overlap. The proofs have none of these bounds. In `tip_reads` one client is
enough, since reads do not affect one another; three tips of one wallet give a
walk three pages of one row, or a full page and one that is not, or a total that
is a multiple of the page size, each
with insertions before, between and behind the pages; the sizes asked for
include one below and one above the bounds. In `throttle` a window is longer than
the limit and not a multiple of a second, so that rounding, a window that is
full before its end and a counter that outlives a block's last tick all occur.
The history of six requests is twice the limit and two excuses: with none, one or
two of them in a window, failures and a restart (which is two) on either side of
full windows are all told apart; more than two excuses in a window are covered by
the proof, for any `Slack`. In `inbox` four notifications
make two full pages, or one and a half with an arrival in between; `MaxTime`
bounds the clock, and four stamps let all rows be distinct or some be equal. No
other bound is used. What is found for the small instance is proved for any (section 6),
where a proof exists.

Symmetry is used where sets of model values are interchangeable: handlers in
`ledger`, handlers, tokens and users in `sessions`, handlers, accounts and files
in `accounts`, handlers and tips in `verification`, notifications in `inbox`,
everything in `analytics_own`.
Runs with liveness properties use none.

### What is stated, and what is deliberately not

`SettledStays` says that a tip *inserted* with a hash stays completed. It is not
true that every completed tip stays completed: a withdrawal event may save a
stale copy over a confirmation. `UnconfirmedOnlyByStaleWithdrawal` says that
this is the only way: the step that takes a confirmation back is the UPDATE of a
withdrawal whose copy another handler had saved over. Also not true, and found by
TLC while the model was written: that a completed tip has a hash (a confirmation
may carry none). `RowsAgree`, that a tip with a hash is completed and that
withdrawal status and withdrawal hash come together, exempts the tips in
`overwritten`: two saves that interleave do tear a row, and it shows that
nothing else does. No text of the repository says which of two such requests
should win.

`NotifiedOnce` forbids a second announcement of a tip, not a missing one. A tip
that is completed by POST /tips or by a confirmation is never announced, and no
property asks for it: neither function has a call that could. This disagrees with
`docs/issues.md:184` and is reported with finding 2.

`OwnReplyAlone` is what is left of correct replies in the Redis connection: it
holds until two commands overlap or Redis answers with an error.
`NothingPassesAnError` states what follows the first error reply: nothing is
decided by Redis any more, on any socket, until the process restarts. It is a
statement of fact about the code, kept because nobody would expect it. A
connection that gives every command its own reply, and a call of increment that
always ends, are more than the code provides (section 3, RedisLink).

The comment in `auth.service.ts`, that the rotation makes a token single-use, is
not true of requests that overlap: both find the token, both revoke it, and each
creates a successor. `OverlapOnly` and the theorem `SingleUseIfChecked` say that
nothing else breaks it. `RevocationEndsSessions` excepts, in the same way, a
refresh that is past its check when an account is signed out everywhere.

`TwoWindowLimit` is what a fixed window promises: not `Limit` in any stretch of a
window's length, but less than twice as much, late commands included. What Redis
does not know of comes on top, and the property says by how much: one for each
request in that stretch that failed open, `Limit` for each restart of Redis in it.
`KeepersAreServed` is the other side: the counter is never renewed or left
without an expiry, so a client within the limit is never refused.
`RetryAfterSuffices` mentions the one tick in which the counter may outlast the
block it caused.

`InboxCleared` excepts notifications with equal `createdAt`: nothing orders them,
and one may stand on the other side of a page's edge in every statement, so that
a walk never shows it.

`MatchIsOnChain` holds for cached results too, because the contract and Horizon
never forget. It does not say that Horizon and the contract speak of the same
payment: two with the same terms are told apart by their times, and by nothing
where a time is absent. It exempts the hash of a tip that was confirmed again with
another one (`rehashed`): the cached result then speaks of the old one for up to a
minute. The converse does not hold: a look-up that fails for a moment, a tip the
contract does not have yet, a rank that drifted, a transaction whose first
operation is not the payment, or a time the two sides tell differently makes a
true tip a mismatch, which is announced to the creator and cached;
`NoFalseAlarm` says that nothing else does.

`ConflictIsForeseen` says that the look-ups before an insert or a link are
complete, so that only requests that overlap meet a constraint and its 500. Its
one exception is a defect of its own: the name of a wallet account is made of
the last eight characters of the address, so that the second wallet with an
ending cannot sign in at all. `AvatarsMatchFiles` names its five exceptions; the
last two need no overlap: an address put in place of an uploaded picture leaves
the file behind for good, and one that ends in the name of another account's
file makes the next upload delete that file. `ChangesAsAsked` speaks of what the
code takes a request to ask for (`Given`): an empty display name asks for nothing,
so that this column alone cannot be cleared. It is as much as `Repository.save` of a
stale object can promise: a column that somebody else writes meanwhile may be
taken back by a request that was never asked to change it.

A walk may show a tip twice, since an insertion in front moves a row to the next
page. It never misses one (`WalkSeesAll`), because no tip is deleted and no column
of an order is updated. `FiguresAddUp` is what the analytics and the public page
promise while the ledger rests, `LaterPartsShowMore` what is left of it while tips
arrive. The messages of a creator without a wallet are exempt from `FiguresAddUp`:
they are those of `public_page`, where `OwnMessages` is violated.

### Findings

1. `ledger_replay`: confirming a completed tip rewrites its hash, and the
   replayed event is processed again (`src/src/tips/tips.service.ts:490`).
2. `ledger_crash`: a failure between tip and notification is final, because the
   retry is answered as a duplicate (`src/src/stellar/stellar.service.ts:525`).
   `docs/issues.md:184` promises a notification on tip completion. Two more ways of
   completing a tip do not keep it, with no failure at all: POST /tips with a hash
   (`src/src/tips/tips.service.ts:350`) and POST /tips/:id/confirm
   (`src/src/tips/tips.service.ts:492`) return without notifying anybody.
3. `analytics_own`: a creator is answered with the analytics of another who asked
   with the same query within five minutes
   (`src/src/profiles/profiles.controller.ts:59`).
4. `public_page`: the public page of a creator without a wallet shows the latest
   completed tips of all creators, next to statistics that count none
   (`src/src/profiles/profiles.service.ts:115`).

## 5. Fairness

Safety runs assume none. `RedisLink` assumes weak fairness, per socket, of the
end of a connection attempt (the operating system reports a connection or an
error) and of the arrival of replies while the socket is open (Redis answers
what it is sent). Nothing obliges a client to call, Redis to be fast, or a
connection to break or not to break. Under these, a command ends unless its
socket was closed silently (`SettledUnlessSilent`), and that exception is real:
no timeout is set on the socket.

`Throttle` assumes weak fairness of `Tick`: time passes. No request need ever
come, and `BlockEnds` holds however many do.

## 6. Proofs

The modules `...Proofs` prove, for any sets of handlers, keys, hashes, accounts,
commands and notifications, any page size, and any limit and window:

* `TypeCorrect` of every module but `AnalyticsCache`;
* the ledger: `HashesUnique`, `AckedIsNotified`, `AnnouncedOnce`,
  `SettledForGood`, `UnconfirmedByWithdrawal`, `AgreeUnlessOverwritten`,
  `LedgerImplementsBook`, and through the book `AcknowledgedForGood`;
* sessions: `RevokedBeforeReplaced`, `ExchangedTwiceOnlyByOverlap`,
  `SessionsAreNotLost`, `SignedOutEverywhere`, and `SingleUseIfChecked`: tokens
  *are* single-use as long as no two requests are between the check of one token
  and its revocation; from it `SequentialSingleUse`, for one handler;
* the Redis connection: `OwnRepliesWhenAlone`, `AnswersAreOutstanding`,
  `NothingAfterAnError`;
* the rate limit: `WindowsAddUp`, `KeepersServed`, `WaitingSuffices`;
* verification: `VerifiedIsOnChain`, `DiscrepancyIsNotified`,
  `NoAlarmWithoutCause`, and `NoAlarmWhileCached`: verifications of one tip that
  do not overlap notify nothing while a result is kept;
* accounts: `KeysAreUnique`, `LookUpsSuffice`, `AvatarsAreKept`,
  `UpdatesAsAsked`;
* reads: `WalksMissNothing`, `NoPromisedPageIsEmpty`, `PartsInOrder`,
  `AnswersAddUp`;
* notifications: `WalkClearsInbox`.

The assumptions are those of the modules (`LedgerAssumption`,
`SessionsAssumption`, `VerificationAssumption`, `AccountsAssumption`,
`ReadsAssumption`, `RedisAssumption`, `ThrottleAssumption`, `InboxAssumption`):
requests have the shape the code gives them, limits and page sizes are at least
1, the table of notifications and the set of assets are finite, and `Null` and
`Undefined` are not ordinary values (`Undefined` is not a status, `Null` is not
an asset), the profile requests name only the columns their bodies may have, a
client's avatar is never a *path* to an uploaded file (the check of
`updateProfile` wants https; its last segment may be any name), and an upload's
path ends in the name of its file. TLC evaluates them in every run.

Two theorems have a temporal hypothesis, `[]OneCheck` (`SingleUseIfChecked`) or
`[]OneVerifier` (`NoAlarmWhileCached`). These are not assumptions about the code:
it does not ensure them, and the models reach states without them. The theorems
say what each missing exclusion costs, and that it costs nothing else: a lock on
the token from its check to its revocation, one verification of a tip at a time
would ensure them. A single handler does too; `SequentialSingleUse` is that case.

The argument for the ledger. Neither `AckImpliesNotified` nor `NotifiedOnce` is
inductive: both depend on what a handler in flight is about to do. The
inductive invariant ties the program counter to the table: a handler at
`notify` works on a tip that was inserted for its event, has not been announced,
and is no other handler's; one at `answer` with a tip event has announced it;
the history of an unused key is empty. Hash uniqueness needs the type invariant
and the conflict test only. `SettledStays` needs that an object in a handler's
hands has status "completed" whenever the row it came from was inserted with a
hash; the status can then never differ in the other direction.
For `RowsAgree` the object in the hands of a handler that is not in `stale` is the
row but for what its own request set (`Current`), so that what `save` writes over
it is what was asked (`MergeTouched`); `Agreed` carries the two together. A step
of `UnconfirmedOnlyByStaleWithdrawal` sets "pending" over "completed", which only a
stale object holds, and only a withdrawal leaves the status as it read it.
`AcknowledgedForGood` uses nothing of the ledger but that it implements the book,
whose own steps keep the promise: what the abstract specification promises is
what its clients need.

The argument for the sessions: a token presented to a handler past `revoke` is
in `revoked`; revocation is never undone; the successor is inserted past that
point, for the account that was read. `SignedOutEverywhere` needs that a token of
`purged` is revoked and in no handler's hands past its check. For `OverlapOnly`: a token that was
exchanged, or that is held past `revoke`, is revoked, and a handler that reads
it afterwards is refused. For `SingleUseIfChecked`, a token that some request is
about to exchange has not been exchanged and is in no other's hands (`Once`): only
a second check before the first revocation could break it.

The argument for the verification. What a handler carries from one call to the
next is tied to the database and the chain, which only grow (`Holds`): its rank
is the tip's, the payment Horizon knows was made and is the tip's by its hash
unless that was replaced since, an entry it was given is at that place of the
contract's list, and a result that says otherwise is past its notification before
it can be stored. For `NoFalseAlarm` the invariant (`Faithful`) follows the history
of drift and failed look-ups: as long as there was neither, the database and the
contract agree rank by rank and hash by hash; what Horizon and the contract are
asked is then one payment, and if they tell it alike no handler reaches the
notification. `NoAlarmWhileCached`
needs only that a request that found no result is the only one that can store one
(`Uncached`).

The argument for the accounts. The unique columns follow from the type
invariant and the constraint test. For `LookUpsSuffice` the invariant keeps what
each look-up has established until another request writes a unique column
(`Looked`), and what a save is about to write (`Faithful`): in a column nobody
has crossed, the stale object and the row agree, so the UPDATE sets it to what
was asked or not at all. `ChangesAsAsked` is the last step of the same argument.
For the files, a name belongs to the account it was given to wherever it occurs
(`Owned`), and the name of an upload under way occurs nowhere else (`Carries`); an
account whose file is deleted through an address that only ends in its name is in
`apart` from that step on.

The argument for the walks. A tip that was there at the first page is in a page
already given or at a place behind it: insertions only move it back, and what
was given stays given (`InsertGrows`). At the last page there is no place behind
(`MorePages`), so nothing is missed. A page that was promised begins at or
before the last row there was, and the list never shrinks.

The argument for the figures. `FInv` says, at each statement of an answer, that
the parts counted so far are in order among themselves and at most what the table
would give now, unless a confirmation was taken back, and equal to it as long as
nothing was completed either (`Rises`); amounts, assets and senders never change, so
the figures of the classes of a set of tips are those of the set (`TallyByClass`).
The figures are sums, folds over finite sets. What is used of them (`SumRemove`,
`SumUnion`, `SumMonotonic`, `SumByClass`) is proved from the definition of
the fold. The induction it takes is stated without an operator parameter: a set of
subsets that contains a subset whenever it contains all its proper parts contains
the whole (`SubsetInduction`, from the least number principle for cardinalities).

The argument for the Redis connection. The listeners of a chunk see the replies
at their own place of one stream (`StreamType`), and the first error among them
is where the buffer stops (`FirstErrorFound`). A command listens in one place, for
what it waits for (`Hearing`), which makes the outcome of a chunk a matter of each
listener alone (`DataEffect`). With one command at a time an open socket is asked
for exactly what is listened for (`Alone`), so a chunk holds one reply and the
buffer is empty before and after. `Stuck` is that after an error its reply is the
head of the buffer: every later listener sees an error first.

The argument for the rate limit. Counter and block tick together, so a counter
over the limit never outlives its block by more than the tick in which it goes
(`Bounds`); with it, what the client was told is at least what the block has left.
But for what is excused, what the current window has let through is the newest
part of `passed`, no older than the window, and `Limit` places further back the
window before has ended; n places further back either the same holds or more than
n were excused since (`Windows`). The hits of a window are the newest part of `asked` (`Keeping`), so a
client that asked no more than `Limit` times cannot have filled it.

The argument for the notifications. A note of `aim` that the walk has not listed
has the younger ones in front of it, and at least as many of them as were skipped
(`Ahead`): arrivals only add to them. A page therefore lists it or leaves a whole
page in front of it (`PageHolds`), and behind the last page there is nothing
(`LastPage`).

The inductive invariants were model-checked on the instances above before they
were proved.

Only model-checked: `SettledUnlessSilent` and `BlockEnds`, since liveness under
fairness and ENABLED are out of the prover's reach. Every safety property of a
passing run is a theorem, without a hypothesis beyond the specification and the
assumptions above. The induction theorems of the library take an operator
as a parameter, which the provers cannot instantiate; where induction over data was
needed, for sums, it is over the elements of a set, as above. No model needs
induction over a recursive definition.

## 7. Not modelled

Health probes and the HTTP shell (headers, logging, envelopes, text clean-up)
have no state of the program. Guards that check one request and keep nothing
(roles, signatures of webhooks) are conditions of the actions they stand in front
of. Schema and migrations are declarations; two facts about them that a reader of
the models should know: the schema the migrations build has no columns for
withdrawals (`src/src/migrations/1740000000000-InitialSchema.ts:22`), which
`TipLedger` takes from the entity; and `src/src/stellar/stellar.service.ts:290` reads
the operations of a transaction as an array of its response, which
`Verification` takes as the code states it. Getting a profile, the balance of an
account, the statistics of `getTipStats` and the unread count are single reads.
The library's throttler in memory, which serves where there is no REDIS_URL, is
not code of the repository. External services appear as nondeterministic
outcomes.
