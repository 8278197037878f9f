# Formal models of the malaka backend

TLA+ models of the parts of this Go backend whose correctness depends on the
order in which requests, transactions, background loops and failures meet:
idempotent requests, the transactional outbox with its relay, the event bus and
the process around it, the task transactions with the audit chain, the paged
task list, accounts with their bearer tokens, and the rate limiter. TLC checks
the models on small instances; TLAPS proves their safety properties for every
value of the constants.

    tlc -config IdempotencyLeases.cfg MCIdempotency     one check
    tlapm IdempotencyProofs.tla                         one proof module

## 1. The system

One process serves HTTP, runs an outbox relay, and shares one database (SQLite
or PostgreSQL) with other processes like it. Everything durable is in that
database; the processes hold only the event bus and the rate limiter's buckets.

| Part | State | Operations | Interacts with |
|---|---|---|---|
| Idempotency middleware (`platform/mid/idempotency.go`) | rows of `idempotency_keys` | Claim, Get, ReclaimExpired, ReclaimFailed, Finalize | wraps the task routes; its rows are purged by the janitor |
| Janitor (`platform/janitor`) | none | three purges, RunAll | deletes rows of sessions, outbox, idempotency keys |
| Outbox and relay (`platform/event/outbox.go`) | rows of `outbox_events`, the batch in memory | Add, Run, processBatch | Add runs inside task transactions; the relay hands events to the bus |
| Event bus (`platform/event/bus.go`) | channel of 1024 jobs, handlers, closed flag | Publish, PublishAndWait, worker, Close | called by the relay; closed at shutdown |
| Audit writer (`platform/audit/writer.go`) | rows of `audit_logs`, linked by hashes | LogTx | runs inside task transactions |
| Task service and stores (`modules/tasks`) | rows of `tasks`, `task_logs` | Create, Update, Assign, Delete, Get, List | one `ExecTx` per write: change, log, event, audit row |
| Database layer (`platform/db`) | pool | ExecTx, Open | SQLite: one connection, `BEGIN IMMEDIATE`; PostgreSQL: READ COMMITTED |
| IAM (`modules/iam`, `platform/mid/auth.go`) | rows of `users`, `sessions` | Register, Login, Logout, Authenticate | authenticates every task route |
| Rate limiter (`platform/mid/ratelimit.go`) | a map of token buckets | allow, cleanup | in front of every route |
| Application (`app/app.go`) | process lifetime | New, Run, close | starts and stops all of the above |

The rest is stateless: handlers, response mapping, the other middleware,
redaction, logging, configuration, the SQL splitter and the commands. Of the
stateless parts only the list handler is modelled, because a client that pages
through a list depends on several of its queries agreeing. README.md
line 78 of the repository says that the janitor runs in process; nothing in
`app.go` starts it, so the models let a purge happen at any time and never
rely on one.

What is hard about it, and what makes each part correct:

* **Idempotency.** Five statements per request, none in a common transaction,
  with decisions made on rows that were read earlier; retries race each other,
  the janitor, expiry, and crashes on either side of the handler's commit. It is
  correct when at most one request per key is in the handler, a replay belongs
  to the payload it answers, a stored response stays what it was, and a committed
  effect is not repeated while its window is open.
* **Outbox.** Claims are leases of five minutes held by whoever is slow, dead or
  shutting down; verdicts are written without a guard. It is correct when an
  event is in one pair of hands, attempts and deliveries add up, settled events
  stay settled, and every committed event is settled in the end.
* **Task transactions.** Old values are read without a lock, and the chain's head
  is picked before it is locked. Correct when the audit rows form one chain and
  tell, per task, one gapless story that ends in the present or with the task's
  deletion; when the task log agrees with it; and when no lock order stops everyone.
* **Sessions.** No transaction at all: a registration looks, hashes and then
  inserts; a login signs a token before its session is stored; the middleware
  checks the token's claims, then the session, then the handler runs. Correct when
  an email has one account, reached only with its passwords; when a token that
  was logged out or has ended stays refused; and when nothing else ends it early.
* **Event bus.** Publishers, four workers and `Close` share one channel. Correct
  when nobody sends on the closed channel, an accepted job is run once and before
  a drain is called complete, and a waiting publisher is told what became of its
  own job.
* **Application.** Four waits one after the other, while handlers and requests may
  hang. Correct when every part outlives those that use it, and the process ends.
* **Task list.** Each page is its own query; between two the list changes. Correct
  when a client that reads on sees what was there all the time, and nothing twice.
* **Rate limiter.** The time is read before the bucket is locked, and the cleanup
  removes a bucket it has unlocked. Correct when no interval grants more than
  burst and rate, and an overtaken request costs its client nothing lasting.

## 2. The modules

| Module | What it is |
|---|---|
| `Idempotency` | the middleware over one claim scope, with janitor, two clocks and faults |
| `IdempotentSlot` | what the middleware promises: requests pass one by one through a slot that keeps the last response |
| `OutboxRelay` | outbox rows, relays, bus outcomes, janitor, crashes and shutdown |
| `EventDelivery` | what the outbox promises for each event by itself |
| `TaskTx` | the write transactions of the task service on either driver |
| `AtomicTasks` | what those transactions promise: each call in one step or not at all |
| `EventBus` | channel, publishers, workers, Close; a component without an environment |
| `Application` | App.Run with server, relay, database, composed with `EventBus` |
| `TaskPages` | the list handler, its query, and a client that pages while tasks change |
| `Sessions` | registration, login, the auth middleware, logout, purge, seed |
| `RateLimiter` | allow and the cleanup, with delays and an observer |
| `MC...` | the symmetry sets and definitions of constants for TLC |
| `...Proofs` | the theorems about the module of that name and their proofs |

### Idempotency

The unique index makes scopes (key, user, path, method) independent, so the
table is one `row` or none. A request moves through `pc`; each action is one SQL
statement or one stretch of the middleware between two of them: `Arrive` (hash
and expiry are fixed), `Claim`, `Get`, `Resolve` (`resolveConflict` on the row
read into `seen`), `ReclaimExpired`, `ReclaimFailed`, `ClaimAgain` (the row had
vanished), `RunHandler`, `Finalize`. `ExpiredMatches`, `FailedMatches` and
`FinalizeMatches` are the WHERE clauses, `...Reclaimed` and `Finalized` the SET
lists. `StoreError` is a failed store call, executed or not; `Crash` the death of
the process; both keep what the database has. A handler ends in `ok` (committed,
below 500), `rejected` (below 500, nothing committed), `error` (500 or a panic,
rolled back) or `unknown` (500, though the database had committed). A response is
represented by the request that produced it, and `answer`, `replayed` and
`effects` only record what happened.

`LeasesHold` says that a request is over before its own claim expires. The
default TTL is 24 hours and the server's write timeout 30 seconds, but the code
neither checks this nor stops a slow handler, so the assumption is a constant
and `IdempotencyOutlived` shows what happens without it.

There are two clocks. `expiresAt` and the middleware's own look at the row go by Go's
`clock`; the WHERE clauses and the janitor go by the database's `now`, which is up to
`Skew` ahead or behind. On SQLite the statements are handed `time.Now()` and `Skew`
is 0; of other values only `Skew < TTL` is assumed. A row the middleware takes for
live may therefore already be free for the database to reclaim, and the other way
about.

`IdempotentSlot` is the middleware as its clients see it, without a table:
requests are admitted one by one, a successful response may be kept, and nobody
else is admitted in the window of an effect or of a kept response; a replay is of the
kept response, of a request with the same payload, and any request may be refused.
`Idempotency` implements it with `inside` the requests that hold the row and
`kept` the response of a completed row (`OneSlot`). A replay is sent from a row read
one statement earlier, and the slot allows one that is no longer kept when the
database's clock is ahead and has closed its window.

### OutboxRelay

`status`, `attempts` and `due` are the rows; `batch`, `read` and `outcome` are what a
relay holds between the claim and its updates. `ClaimBatch` is the claiming
transaction of `processBatch`, on both drivers, placed where its SELECT is. With
`SKIP LOCKED` a competing claim takes the rows that are left: those that the first
claim locked are processing once it commits, and if it fails they have been passed
over, which is the choice of `locked`. A second branch is for a commit that was
executed but reported as failed. `Publish` is `PublishAndWait`: delivered, refused
(handler error, panic, saturated or closed bus) or, once the relay is stopping,
cancelled with the job dropped, finished unseen or left on the bus (`late`), where
`DrainLate` finds it. `Record` and `RecordFails` are the unguarded updates. `Stop`,
`Restart` and `Crash` are the process; `PurgeProcessedOutboxEvents` the janitor.
Times are abstracted: an event that is not `due` falls due at some point, so backoffs
and the five-minute claim may end in any order.

Events are numbered by `created_at` and may be added in any order: on PostgreSQL
`created_at` is the start of the adding transaction, and on SQLite the clock of the
process (outbox.go:42), which may be set back. Of events with one `created_at` the
number says which the claim takes first.

`LeasesHold` says that a claim does not fall due under a live batch. A batch has
up to 50 events with up to five seconds per handler, so with one handler per
event it holds, with two it need not: the runs assume it, and the proofs either it
or a single relay. Without it a second relay takes over the events of a batch that
is still being published and settles them first, and the first relay, which does
not look at their rows again, delivers a settled event: `NoDeliveryAfterSettled`
needs the assumption. No run covers that case; `OncePerClaimCorrect` says what is
left in it.
`handled`, `refused` and `lost` count what happened to the attempts.

`EventDelivery` is the life of one event without relays, batches and claims: it
waits, is delivered and done, is delivered again only when every delivery so far
was written off by a fault, and is buried only with its attempts used up.
`OutboxRelay` implements it (`DeliveredAsPromised`): an event is "delivered" there while
the relay that delivered it has yet to record that.

### TaskTx

`Begin`, `Find`, `Write`, `PickHead`, `LockHead`, `InsertAudit`, `Commit` and `Abort`
are the statements of one `ExecTx`. `Serialized` chooses the driver. On SQLite (one
connection, `BEGIN IMMEDIATE`) a transaction begins when no other is open. On
PostgreSQL a statement sees what is committed when it starts; an UPDATE waits for the
row's lock and then works on the current row (`Changed`); `SELECT ... ORDER BY id
DESC LIMIT 1 FOR UPDATE` chooses its row (`PickHead`) and then waits for that row's
lock (`LockHead`), without choosing again, since audit rows are never updated. The
inserts into `task_logs` and `outbox_events` are seen by nobody before the commit and
are ordered by the task's row lock, so they are part of `Commit`. An outbox event is
only counted (`queued`): its `created_at` is a wall clock's (SQLite) or the start of
the transaction (PostgreSQL), either may disagree with the order of the changes, and
a retry is overtaken besides. The code promises no order of delivery, and nothing
here states one. A task is its `text` (title, description and status, named by the
call that wrote them) and its `assignee`. A hash stands for the row it was computed
for: two rows have one `prev_hash` exactly when they link to one row.

`Abort` covers every failing statement, an assignee who is not active, a
correlation id longer than PostgreSQL's column, a panic and a crash. A delete
cascades to `task_logs` but not to `audit_logs` or `outbox_events`.

`AtomicTasks` states what the four operations promise: `Do` changes the task as it
is, logs the assignment, queues an event and appends an audit row, all in one
step; `Fail` does nothing. `TaskTx` keeps its names, and maps `done` to the calls
that are over; the step that implements
`Do` is `Commit`, and `CallsAtomic` is the abstract specification. It holds on both
drivers. What the drivers differ in is `Fresh`, which is `Serialized`: on SQLite the
old values in the log and in the audit row are those of the row that was changed,
and the audit row links to the newest; on PostgreSQL the old values are those
of some earlier row of the task (`Past`), because they are read before the lock, and the
link is to any committed row. `TrailCurrent` and `LogCurrent` say besides that the
newest rows agree with the present.

### EventBus and Application

In `EventBus` a job is one call of `Publish` or `PublishAndWait`. `Enter` takes the
read lock and reads `closed`, `Select` is the select of `enqueue` (`Send`, the
cancelled context, the default), `Receive` and `GiveUp` are the select of
`PublishAndWait`. A worker goes through `Take`, `Run` (all handlers, each under
`recover`), `Reply`, and `Exit` when the closed channel is empty. `BeginClose`,
`CloseChannel`, `Drained` and `DrainTimesOut` are `Close`. `publishMu` is no
variable: its readers are the jobs at "select", its writer is `Close` at "lock",
and Go's rule that a waiting writer keeps new readers out is the guard of `Enter`.

`Application` EXTENDS `EventBus` and adds who uses it: the relay publishes the jobs
of a batch one by one (`ClaimBatch`, `PublishNext`, `Record`), others publish
whenever they like, requests are in flight, and `App.Run` goes through `phase`:
`Signal` or `ListenerFails`, `BeginShutdown`, `ShutdownReturns` (with all requests
answered or not), `CloseBus` once the relay has returned, `Close`,
`CloseDatabase`, `ExitProcess`. Every action of it is one of the bus or leaves the
bus alone, which is the refinement `Spec => BusSpec` and lets the bus's invariant
be proved once, without its environment. `OutboxRelay` in turn models a delivery as
one step with the outcomes that `AnswersTrue` and `JobsAccounted` allow:
delivered, refused, cancelled and dropped, or cancelled and run late.

### TaskPages

The list is that of one user and one filter; a row is in it or not. `parseListQuery`
has the checks in their order and the integers in their widths (`Wrapped`), with
small machine integers standing for 32 and 64 bits; `Clamped` is what the stores'
`List` does again; `Orders` are the orders the database may return, given
`Precedes`: SQLite sorts by `created_at DESC, id DESC`, PostgreSQL by
`created_at DESC` alone, so that tasks of one instant come in any order, which may
differ from one query to the next. `TieBroken` chooses. A client asks for page
after page, with the parameter `page` or with `offset`, until one is not full;
between two pages tasks are created (at any `created_at`, because clocks are set
back and transactions overtake each other), changed and deleted.

### RateLimiter

`allow` is three steps, `ReadTime`, `LoadOrStore` and `Decide` (under the bucket's
lock), the cleanup three, `StartSweep`, `Visit` and `Delete`. A bucket is named by the
request that stored it, so that a request may hold one that is no longer in the
map. Tokens are integers, counted in what a tick adds. `Late` bounds for how long a
goroutine is held up between two of its steps; `CleanupAssumption` says that
`CleanupTL` (ten minutes) is long enough to fill a bucket (two seconds) despite
that. `Observe` begins a new observation at any time, so that `WithinRate` is about
every interval.

### Sessions

The unique index on `lower(email)` makes emails independent, so all calls are about
one email. `users` holds its rows, `sessions[c]` the row of the token that call `c`
got: a token has a random id and is named by that call. Every statement commits
by itself, and each is an action: `Register` (the look), `CreateUser` (the insert;
losing the race against another registration is a 500, not the "taken" of the
look), `Login`, `GenerateToken` (the expiry is fixed), `CreateSession`, `Present`
(the middleware verifies the token), `LookUp` (`GetSessionByTokenHash`), `Me` (which
stands for every handler behind the middleware), `Logout`. The middleware answers
401 both when no live session is found and when the store fails; the model keeps
them apart as `unauthorized` and `unavailable`. `StoreError` is a statement that
did not execute, `ResultLost` one that did, with its answer lost; a crash is
either. `PurgeExpiredSessions` deletes every ended session and, their retention
being left open, any of the revoked ones. `Seed` is the seed command;
`Administer` writes `is_active` and `deleted_at`, which the code reads and never
writes.

A password stands for its hash. The clock counts fractions of a second, because
`expires_at` does and the token's `exp` claim counts whole seconds: the two
tests of a token's age disagree within its last second. There is one clock. On SQLite
the statements are handed the time of the process; on PostgreSQL the session lookup
and the purge compare Go's `expires_at` with the database's `now()`, so that skew
moves a session's last moment by as much, and `BarredStaysOut` and `LiveIsAccepted`
hold up to that. `barred` records that a
token was logged out or over when its request came, `seeded` the seeded
passwords.

## 3. What the checks show

| Configuration | Instance | Result |
|---|---|---|
| `IdempotencyLeases` | 3 requests, 2 payloads, TTL 2, skew 1, clocks to 4, 1 fault; leases hold | 1.0 million states, all properties hold, `IdempotentSlot` is implemented |
| `IdempotencyOutlived` | the same without faults and skew, clock to 5, leases not assumed | `CompletedIsFinal` violated |
| `OutboxSafety` | 3 events, 2 relays, batches of 2, 2 attempts, 1 fault; leases hold | 281 thousand states, all hold, `EventDelivery` is implemented |
| `OutboxLiveness` | 2 events, 2 relays, batches of 1, 2 attempts, 2 faults; fair | 44 thousand states, `EventuallySettled` and the three accounts hold |
| `Application` | 3 jobs (2 of the relay, 1 of `Publish`), 2 workers, room for 1, 1 request; fair | 313 thousand states, all hold |
| `TaskSerialized` | 3 calls, 2 tasks, 2 users on SQLite | 150 thousand states, all hold, `AtomicTasks` is implemented |
| `TaskReadCommitted` | 3 calls, 2 tasks, 2 users on PostgreSQL; fair | 131 thousand states, all hold, `AtomicTasks` is implemented |
| `TaskFork` | 2 calls, 2 tasks on PostgreSQL | `AuditLinked` violated |
| `TaskPages` | 4 tasks at 2 instants, limits to 3, offsets to 2, ids break ties | 478 thousand states, both hold |
| `ListQuery` | every page of a 5-bit integer, 2 tasks | `PageAsAsked` violated |
| `Sessions` | 4 calls, 2 passwords, TTL 1 at 2 ticks a second, clock to 2, 1 fault, 1 edit, someone presents a token | 1.2 million states, all hold |
| `RateLimiter` | 4 requests of 1 client, burst 1, a token in 2 ticks, cleanup every 4, delays of 1, clock to 7 | 879 thousand states, all hold |

**The three violations** are disagreements between the code and what the
repository says of it.

* *A late finalize replaces a stored response.* `Finalize` names the row by id
  alone (idempotency.go:447). Request A outlives its claim; B reclaims the
  expired row, runs, and stores its response; A finalizes and overwrites it.
  README.md:34 promises byte-for-byte replays within the TTL. Needs a handler
  slower than the TTL.
* *The audit chain forks on PostgreSQL.* Two transactions on different tasks
  pick the same newest audit row. The second waits for the first, gets the lock
  on the row it picked, and links to it too; on an empty table both link to the
  genesis hash without any lock. `writer_postgres_test.go:77` requires a linked
  chain, with sequential calls only. `AuditRooted` is what remains: a tree; and
  `TrailLinked`: rows that pass over each other are of different tasks. A later row
  of a task can still be on another branch than an earlier one, when it links to a
  row of some third call that had picked its head before.
* *A page that does not exist is served.* `(v - 1) * int64(q.Limit)`
  (handler.go:170) wraps for a page near 2^63 / limit, so that the check for "page
  is too deep" lets it through; cut to 32 bits and clamped, it is answered 200 with
  an earlier page. README.md:32 promises 422 for invalid values. By
  `PageAsAskedCorrect` the first page asked for has to be that far; reading on from
  a page whose offset fits 64 bits never gets there.

On PostgreSQL `TrailConsecutive`, `LogConsecutive` and `AuditInOrder` (no row is
passed over) fail too: old values and the head are read before they are locked. On
SQLite they hold because transactions wait for each other, and their mutant is a
transaction that does not. No document promises them for PostgreSQL, so they are
stated for SQLite only; `LogConsecutive` is a theorem and checked in no run.
`NothingTwice` fails there for tasks of one instant: its mutant is
PostgreSQL's order.
`tasks_e2e_test.go:470` fails on a "duplicate task across pages", with tasks
created one after the other.

**Bounds.** Three requests are the fewest in which one holds the key, one has a
stale view of it and one is let in; the TTL of 2 with a clock to 4 allows a second
claim after the first has expired, and its whole window; a skew of 1 lets each
clock run ahead of the other within it. Three events with
batches of two make a batch, a rest, and an order among them; two attempts
are the fewest with a retry before the dead letter; two relays, because every
conflict is between the holder of a batch and one other. One fault in that
instance, and two in `OutboxLiveness`, where they can meet on one event: there
the attempts and deliveries are counted. Three calls are the
fewest with a holder, a waiter and a latecomer on one lock; two tasks, because
the chain is shared by all and the trail is not. Four calls are two
registrations or logins, a logout and a request, or one token with three
requests; a TTL of half a second makes every comparison, in fractions and in
whole seconds, go both ways by clock 2; at least one of them presents a token,
since calls need not come and three show what registrations do to each other. On the
bus, room for one job makes saturation, a waiting job and a job in hand happen at
once; two workers let one hang while the other drains; the third job is published
at any time, also after the bus is closed. With four tasks and a limit of 1 to 3
there are up to four pages, ties and rows that join before and after the cursor.
Four requests are one that holds a bucket being removed, one that stores its
successor, and two that overtake each other. In `TaskReadCommitted` the calls and
tasks are numbered and `UpToRenaming` keeps one of each set of cases that differ
by their names only, in place of symmetry: calls about one task come in the order of
what they do, a task no call is about is absent, and the second assignment is to the
first user or another: two that race must be told apart by what they set.
`MaxFaults`, `MaxClock`, `MaxEdits`, `MaxId`, `Horizon` are
bounds on exploration; the proofs hold for any values of them. The sizes of
integers in `ListQuery` are small because the product wraps in the same way in 5
bits as in 64.

**Types.** The type invariants are theorems and no run repeats them.

**Symmetry** is used where the set's members are interchangeable and no liveness is
checked: requests, payloads, relays, calls, tasks, users, passwords. Events and tasks in
a list are ordered and are not permuted.

**Fairness.** `OutboxRelay`: a relay's own steps and the passing of
`next_attempt_at` happen in the end. The code justifies it by its ticker (500 ms),
the five-second timeout of every handler (handlers are assumed to honour their
context), the five-second timeout of updates, and processes being restarted;
faults are bounded in number, as a relay that is killed for ever delivers
nothing. `TaskTx`: statements return, and a lock is granted once its holder has
ended. `Application`: goroutines that can run do, and the timers of `Shutdown` and
`Close` fire; neither handlers nor requests need ever return (a handler may ignore
its context), so that `ShutdownEnds` rests on the time-outs alone. `AcceptedRuns`
adds in its own statement that handlers return, without which no job behind a
hanging one runs. Nothing else is assumed to happen.

**Deadlock** is checked in every run: a state in which nothing can happen must be
`Terminated`, `Idle`, `Ended` or `Over`. The exceptions are `RateLimiter`, `TaskPages`
and `ListQuery`, whose instances stop where their bounds on clock, requests and ids
do, and whose clients stop after the last page.

**Mutants.** Each property has a variant of the code that breaks it, written
next to the definition it replaces and marked as a mutant: a WHERE clause
without its guard, a missing ORDER BY, an off-by-one in the attempts, a value
read after the change, a transaction that does not wait. They are not used by the
specifications.

## 4. What is proved

`IdempotencyProofs`, for any sets of requests and payloads, any TTL and fault
bound. `TypeCorrect` and `ReplayedInWindowCorrect` need no assumption, the others
assume `LeasesHold`.
`IInv` strengthens the properties in two steps. `Exclusive` adds that no
request in flight has outlived its claim and that the row of a holder carries the
holder's expiry; then a reclaim of an expired row or a purge cannot concern a
row with a holder, which is what `OneHolder` and `HolderOwnsRow` need. On top
of it, `StoredSound` says that a completed row, and every row still held in some
request's `seen`, names a finished successful request with that payload (hence
`ReplayMatchesPayload`), and `WindowGuarded` that the row of a committed effect
stays, processing or completed, until its window closes (hence
`RerunOnlyAfterWindow`). `CompletedIsFinal` follows from `IInv` step by step.
`OneSlotCorrect` maps each step to one of `IdempotentSlot` or to a stutter, for any
skew. A decision on `seen` is not one on `row`, so the invariant has to say what an
old look is still worth: `SeenStands` says that a completed row, once read, is the
row for as long as its window is open by the database's clock, and that its expiry is
that of the request which filled it (`Told`). `Ahead` says that a request before its
handler has no result, which makes `Admit`, `Replay` and `Refuse` concern requests
that are `Waiting`. `IdempotencyOutlived` shows why `LeasesHold` is assumed.

What is left when requests outlive their claims is `ReplayedInWindow`: they run side
by side and finalize each other's rows, but a response that is replayed was below
500, is that of a request that is over, and its own window has not closed. The
invariant is `StoredHonest`: a completed row, or a copy of one in `seen`, has the
response of a finished request and expires when that request's claim does,
since `Finalize` writes the request's own expiry. That the replay also has the
payload of its request is lost: TLC finds it with four requests (A outlives its claim, B
takes over with another payload, A finalizes the row with an expiry that has passed, C
reclaims it, B finalizes C's row, and D, with C's payload, is given B's response).

`OutboxRelayProofs`, for any events, relays, batch size and attempt limit. Apart
from `TypeCorrect`, `FirstInFirstTriedCorrect` and `OncePerClaimCorrect` the theorems
assume `Undisturbed`: claims do not fall due under
a live batch, or there is only one relay. `IInv` needs `Leased` (a batch is not
due), so that a claim takes only what nobody holds; `DeliveryPending` and
the accounting of attempts relate `handled`, `refused` and `lost` to the rows
while an outcome is still to be recorded.

`FirstInFirstTriedCorrect` needs no assumption: a pending event is due
(`PendingDue`), hence claimable, and a batch leaves nothing older than its own
events behind (lemma `OldestFirst`, on the ORDER BY and the LIMIT). That nothing
fails is a hypothesis of the property itself: a claim that fails on PostgreSQL lets
others pass the rows it had locked. `DeliveredAsPromisedCorrect` is a refinement,
proved under `Undisturbed`, one lemma or step per action: a claim is a stutter or,
when its commit is lost, a `WriteOff`; `Record` is `Done` or `Refuse`; `RecordFails`
writes off one event and `Crash` a whole batch; `Publish` is `Deliver`, `LoseSight`
or a stutter, and `DeliveryPending` is what gives it the guard `Owed`.

`OncePerClaimCorrect` says what is left when claims do fall due under live batches,
and relays settle events over each other's heads: what is done was delivered, what is
dead was claimed often enough, and no claim delivers twice. Its invariant `LInv` is
one of its own. `Owing(e)` are the relays that have yet to publish `e`; `Paid` says
that each of them, and each delivery, has an attempt of the row for itself, which
holds because `Record` and `RecordFails` never write `attempts` back; `HonestRelay`
that a relay which reports a delivery has made it. TLC found it to hold with the
leases off, where `DeliveryAccounted` does not (2 events, 2 relays, 1 fault, 1.4
million states).

`TaskTxProofs`, for any calls, tasks and users. `IInv` is inductive on both
drivers; it holds that audit ids grow and links go back (`LinkedBack`), that a task
has one writer whose audit row will be the newest (`OneWriter`), that a task not
yet created has no history (`Unborn`), and, when `Serialized`, that an open
transaction is alone and what it has read is current (`Alone`). `AuditRooted` and
`TrailCurrent` are proved for both drivers, `AuditLinked` and `TrailConsecutive`
under `Serialized`. `TrailLinked` holds on both because a transaction picks the head
with its task locked: none of the task's rows is newer than that head (`HeadBeyond`,
lemma `PassStep`). `AuditInOrder` needs `Serialized`: the head that
an open transaction picked is then the newest row until it commits.

`SessionsProofs`, for any calls, passwords, TTL and length of a second, without
further assumptions. `IInv` adds to the three properties that only an answered
token is presented (`Presented`), that a stored row has its token's expiry and is
revoked or gone only after a logout with it or its end (`Kept`, for
`LiveIsAccepted`), that what was dead when a request came stays dead
(`StaysDead`, for `BarredStaysOut`), and that an account's password is one it had
(`Accounts`, for `OneOwner`). The lemma `WholeSeconds` says that a token refused by
its claim has ended in fractions too.

`LogCurrent` (both drivers) and `LogConsecutive` (serialized) follow the same way:
`Computed` says what a transaction has prepared from the row it read.
`DeletedForGood` (both drivers) needs `Computed`, by which a writer has a row to
change unless it creates one, and `Unborn`, by which nobody creates a task that has a
history. `AtomicCorrect` proves on either driver that `Commit` is `Do` of
`AtomicTasks`, and that every other step is `Fail` or a stutter. Where transactions
overlap this needs `Drawn` (the id of an audit row that is about to be committed is
nobody else's) and `ReadCommitted` (a row that a transaction has read is one its task
had, as the trail tells); `OneWriter` makes the row that is changed the row as it is.
That no lock order stops everyone is left to `CallsEnd` and TLC.

`EventBusProofs` proves `BusIInv` for the bus with any environment: `Locked` (Close
shuts the channel while nobody is between the flag and the send, hence `NoPanic`),
`Employed` and `Told` (who has a job, and who knows of it, hence `JobsAccounted` and
`AnswersTrue`), `Emptied` (a drained bus). `ApplicationProofs` shows first that every
step of the application is a step of the bus, and takes over its invariant;
`Aligned` and `InBatch` add where `App.Run` is and whose jobs are in flight, which
is what `StoppedInOrder` needs.

`RateLimiterProofs`, for any clients, requests, burst, cost and delay, under
`CleanupAssumption`. `Balanced` says that what a client was granted and what its bucket
has left came from one full bucket and the time since, even if `lastFill` goes back,
and that without a bucket the grants have been paid for by time alone, which is why
the next bucket may be full; `Exhausted` says the same of a bucket after it was found
stale, for `OneMoreBurst`. `Mapped` and `Timely` tell who holds which bucket and how
late everybody is.

`TaskPagesProofs`. `Exact` (since page 1 the offsets are exact) needs no order of
ties. The others need one only for tasks that share a `created_at`: `Sorted` says
that ids break ties or that no two listed tasks do. While it holds, the position of a
row is the number of rows before it (lemma `PositionIsRank`), so that a row that has
been shown keeps its place before the next page unless one joins (`Shown`), and one
that has not keeps it after unless one leaves (`ToCome`). A client that starts at
page 1 then misses nothing unless a task leaves the list, and sees nothing twice
unless one joins: `NothingMissedSorted` and `NothingTwiceSorted` on either driver, of
the behaviours in which `Sorted` always holds, and `NothingMissedCorrect` and
`NothingTwiceCorrect` of all behaviours where ids break ties. `PageAsAskedCorrect`
takes as its hypothesis that the offset of every first page fits 64 bits; each later
offset is that of the page before plus a limit (`AsAsked`), and a page past the
largest offset is refused, so that none of them comes near.

Model-checked only: `EventuallySettled`, `CallsEnd`, `ShutdownEnds` and `AcceptedRuns`:
liveness under fairness is beyond the prover.

## 5. What is not modelled

* The exact durations of backoffs.
* The order in which the events of a task are delivered: see `TaskTx`.
* In `Sessions`, skew between the process and the database; `Idempotency` has it.
* What a deactivated or deleted account may still do: the middleware
  looks at the session only, so its tokens pass until they end (`/auth/me` of a
  deleted account is "missing"); nothing in the repository promises otherwise.
* Which handlers of the bus an event's type selects; nothing subscribes in this
  application.
* The text of titles and search patterns. On PostgreSQL the list query compares
  `title ILIKE title` when there is no search (query.sql.go:169), which is false
  for a title with a backslash; the models only know whether a row is in the list.
* Floating-point rounding of tokens; more than `Late` ticks between two steps of a
  request that is being limited.
* The SQL splitter: a scanner over the characters of one embedded file, whose
  whole content is text.
* Password hashing, token signatures, SQL text, redaction, logging, the mapping of
  errors to responses, configuration, health, CORS, headers, and the migrate
  command: stateless or input and output.

## 6. Plan

Done: the modules above with their proofs, and four refinements: of
`IdempotentSlot` by `Idempotency`, of `EventDelivery` by `OutboxRelay`, of
`AtomicTasks` by `TaskTx` on either driver, and of the bus by the application. Worth
doing next:

1. `Application` with the whole of `OutboxRelay` in place of its batches.
2. What a login promises as an abstract specification, refined by `Sessions`.
3. The SQL splitter as a function on sequences of tokens.
