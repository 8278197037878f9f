----------------------------- MODULE RateLimiter -----------------------------
(***************************************************************************)
(* internal/platform/mid/ratelimit.go: a token bucket for each client in a *)
(* sync.Map, and a goroutine that removes buckets nobody has used lately.  *)
(*                                                                         *)
(* A bucket bears the name of the request whose LoadOrStore stored it.     *)
(* Time is counted in ticks and tokens in what one tick adds, so that a    *)
(* token of the code is worth Cost: cfg.Rate is one token in Cost ticks.   *)
(* Requests that skipPaths lets through do not come here.                  *)
(***************************************************************************)
EXTENDS Integers, FiniteSets

CONSTANTS
    Client,     \* the keys of the map
    Request,
    clientIP,   \* clientIP[r]: the client that sends r
    NoBucket,   \* the map has none, a request holds none
    NoClient,   \* the cleanup is about to remove nobody's
    Burst,      \* cfg.Burst, 40 in the application
    Cost,       \* ticks in which a token is added
    CleanupTL,  \* cfg.CleanupTL, ten minutes
    Late,       \* no goroutine is held up for more ticks than this between two
                \* of its steps that belong together
    Horizon     \* bound on the clock

ASSUME ClientAssumption ==
    /\ clientIP \in [Request -> Client]
    /\ NoBucket \notin Request
    /\ NoClient \notin Client

ASSUME NumberAssumption ==
    /\ Burst \in Nat \ {0}
    /\ Cost \in Nat \ {0}
    /\ Late \in Nat
    /\ Horizon \in Nat
    /\ CleanupTL \in Nat

Full == Burst * Cost

\* A bucket that was not used for so long is full again.
ASSUME CleanupAssumption == CleanupTL >= Burst * Cost + 2 * Late

VARIABLES
    clock,
    stage,      \* stage[r]: where the call of allow for r is
    now,        \* now[r], of that call
    held,       \* b of that call
    buckets,    \* the map
    tokens,     \* tokens[b]
    lastFill,   \* lastFill[b]
    ticked,     \* a tick is waiting in ticker.C, which has room for one
    cutoff,     \* of the cleanup
    todo,       \* the clients that its Range has still to visit
    doomed,     \* the client whose bucket it found stale, until Delete
    since,      \* history: when the present observation began
    count,      \* count[c], history: what c was granted since
    condemned,  \* history: the buckets that were found stale
    foundAt,    \* foundAt[b], history: when
    extra       \* extra[b], history: what b granted after that

callVars == <<stage, now, held>>
bucketVars == <<buckets, tokens, lastFill>>
sweepVars == <<ticked, cutoff, todo, doomed>>
history == <<since, count, condemned, foundAt, extra>>
vars == <<clock, callVars, bucketVars, sweepVars, history>>

TypeOK ==
    /\ clock \in Nat
    /\ stage \in [Request -> {"idle", "timed", "held", "passed", "limited"}]
    /\ now \in [Request -> Nat]
    /\ held \in [Request -> Request \cup {NoBucket}]
    /\ buckets \in [Client -> Request \cup {NoBucket}]
    /\ tokens \in [Request -> Int]
    /\ lastFill \in [Request -> Nat]
    /\ \A b \in Request : tokens[b] <= Full
    /\ ticked \in BOOLEAN
    /\ cutoff \in Int
    /\ todo \subseteq Client
    /\ doomed \in Client \cup {NoClient}
    /\ since \in Nat
    /\ count \in [Client -> Nat]
    /\ condemned \subseteq Request
    /\ foundAt \in [Request -> Nat]
    /\ extra \in [Request -> Nat]

Init ==
    /\ clock = 0
    /\ stage = [r \in Request |-> "idle"]
    /\ now = [r \in Request |-> 0]
    /\ held = [r \in Request |-> NoBucket]
    /\ buckets = [c \in Client |-> NoBucket]
    /\ tokens = [r \in Request |-> 0]
    /\ lastFill = [r \in Request |-> 0]
    /\ ticked = FALSE
    /\ cutoff = 0
    /\ todo = {}
    /\ doomed = NoClient
    /\ since = 0
    /\ count = [c \in Client |-> 0]
    /\ condemned = {}
    /\ foundAt = [r \in Request |-> 0]
    /\ extra = [r \in Request |-> 0]

-----------------------------------------------------------------------------
(* allow.                                                                   *)

\* now := time.Now()
ReadTime(r) ==
    /\ stage[r] = "idle"
    /\ stage' = [stage EXCEPT ![r] = "timed"]
    /\ now' = [now EXCEPT ![r] = clock]
    /\ UNCHANGED <<clock, held, bucketVars, sweepVars, history>>

\* LoadOrStore: the client's bucket, or a full one as of now.
LoadOrStore(r) ==
    LET c == clientIP[r] IN
    /\ stage[r] = "timed"
    /\ stage' = [stage EXCEPT ![r] = "held"]
    /\ IF buckets[c] # NoBucket
         THEN /\ held' = [held EXCEPT ![r] = buckets[c]]
              /\ UNCHANGED bucketVars
         ELSE /\ held' = [held EXCEPT ![r] = r]
              /\ buckets' = [buckets EXCEPT ![c] = r]
              /\ tokens' = [tokens EXCEPT ![r] = Full]
              /\ lastFill' = [lastFill EXCEPT ![r] = now[r]]
    /\ UNCHANGED <<clock, now, sweepVars, history>>

Least(m, n) == IF m <= n THEN m ELSE n

RefilledForward(r) ==        \* mutant: elapsed is not allowed to be negative
    LET elapsed == now[r] - lastFill[held[r]] IN
    Least(Full, tokens[held[r]] + IF elapsed > 0 THEN elapsed ELSE 0)

RefilledBeyond(r) ==         \* mutant: no min with the burst
    tokens[held[r]] + (now[r] - lastFill[held[r]])

\* The tokens at now; elapsed is negative when another request, which read the
\* time later, had the lock first.
Refilled(r) == Least(Full, tokens[held[r]] + (now[r] - lastFill[held[r]]))

NeverBack(r) ==              \* mutant: lastFill is not allowed to go back
    IF now[r] > lastFill[held[r]] THEN now[r] ELSE lastFill[held[r]]

FilledAt(r) == now[r]

\* What the observer notes of a request that is let through.
Granted(r) ==
    IF held[r] \in condemned
      THEN /\ extra' = [extra EXCEPT ![held[r]] = @ + 1]
           /\ UNCHANGED count
      ELSE /\ count' = [count EXCEPT ![clientIP[r]] = @ + 1]
           /\ UNCHANGED extra

\* The rest, under the bucket's lock.
Decide(r) ==
    /\ stage[r] = "held"
    /\ lastFill' = [lastFill EXCEPT ![held[r]] = FilledAt(r)]
    /\ IF Refilled(r) < Cost
         THEN /\ tokens' = [tokens EXCEPT ![held[r]] = Refilled(r)]
              /\ stage' = [stage EXCEPT ![r] = "limited"]
              /\ UNCHANGED <<count, extra>>
         ELSE /\ tokens' = [tokens EXCEPT ![held[r]] = Refilled(r) - Cost]
              /\ stage' = [stage EXCEPT ![r] = "passed"]
              /\ Granted(r)
    /\ UNCHANGED <<clock, now, held, buckets, sweepVars, since, condemned, foundAt>>

-----------------------------------------------------------------------------
(* The cleanup.                                                             *)

\* A tick is received and the cutoff computed.  A bucket that is stored during
\* the Range is too young for it, visited or not.
StartSweep ==
    /\ ticked /\ todo = {} /\ doomed = NoClient
    /\ ticked' = FALSE
    /\ cutoff' = clock - CleanupTL
    /\ todo' = {c \in Client : buckets[c] # NoBucket}
    /\ UNCHANGED <<clock, callVars, bucketVars, doomed, history>>

Stale(b) == lastFill[b] < cutoff

\* The bucket's lock is held for the comparison only.
Visit(c) ==
    /\ doomed = NoClient
    /\ c \in todo
    /\ todo' = todo \ {c}
    /\ IF Stale(buckets[c])
         THEN /\ doomed' = c
              /\ condemned' = condemned \cup {buckets[c]}
              /\ foundAt' = [foundAt EXCEPT ![buckets[c]] = clock]
         ELSE UNCHANGED <<doomed, condemned, foundAt>>
    /\ UNCHANGED <<clock, callVars, bucketVars, ticked, cutoff, since, count, extra>>

\* Requests that have the bucket go on with it.
Delete ==
    /\ doomed # NoClient
    /\ buckets' = [buckets EXCEPT ![doomed] = NoBucket]
    /\ doomed' = NoClient
    /\ UNCHANGED <<clock, callVars, tokens, lastFill, ticked, cutoff, todo, history>>

-----------------------------------------------------------------------------
(* Time, and the observer.                                                  *)

\* Time passes, but not so that a request or the cleanup would be held up for
\* more than Late ticks.
Tick ==
    /\ clock < Horizon
    /\ \A r \in Request : stage[r] \in {"timed", "held"} => clock - now[r] < Late
    /\ doomed # NoClient => clock - foundAt[buckets[doomed]] < Late
    /\ clock' = clock + 1
    /\ ticked' = (ticked \/ (clock' % CleanupTL = 0))
    /\ UNCHANGED <<callVars, bucketVars, cutoff, todo, doomed, history>>

\* The observation begins anew: the properties are about any interval.
Observe ==
    /\ since # clock
    /\ since' = clock
    /\ count' = [c \in Client |-> 0]
    /\ UNCHANGED <<clock, callVars, bucketVars, sweepVars, condemned, foundAt, extra>>

Next ==
    \/ \E r \in Request : ReadTime(r) \/ LoadOrStore(r) \/ Decide(r)
    \/ StartSweep \/ Delete
    \/ \E c \in Client : Visit(c)
    \/ Tick
    \/ Observe

Spec == Init /\ [][Next]_vars

-----------------------------------------------------------------------------
(* Properties.                                                              *)

\* In any interval a client is granted at most its burst and what the interval
\* adds, however its requests overtake each other between reading the time and
\* locking the bucket; the delays themselves add what they are worth.  The removal
\* of a bucket gives nothing away, but for what OneMoreBurst speaks of.
WithinRate ==
    \A c \in Client : count[c] * Cost <= Full + (clock - since) + Late

\* A bucket that is used between being found stale and being removed, or by a
\* request that had it before, grants at most one more burst than it should.
OneMoreBurst ==
    \A b \in Request : extra[b] * Cost <= Full + 2 * Late

\* A request that comes late with an early time takes nothing from its client that
\* the next request does not give back: a bucket owes no more ticks than the
\* request was late, nor than have passed since it was filled.
TokensKept ==
    \A b \in Request : tokens[b] >= -Late /\ tokens[b] >= lastFill[b] - clock

-----------------------------------------------------------------------------
(* The inductive invariant behind these properties.                         *)

Waiting(r) == stage[r] \in {"idle", "timed"}

\* The map, the requests and the cleanup agree on the buckets: one that was never
\* found stale is its client's, whoever holds it.
Mapped ==
    /\ \A c \in Client : buckets[c] # NoBucket =>
          /\ clientIP[buckets[c]] = c
          /\ buckets[c] \in condemned <=> doomed = c
    /\ \A r \in Request :
          /\ Waiting(r) <=> held[r] = NoBucket
          /\ Waiting(r) =>
                /\ r \notin condemned
                /\ \A c \in Client : buckets[c] # r
                /\ \A q \in Request : held[q] # r
          /\ ~Waiting(r) /\ held[r] \notin condemned => buckets[clientIP[r]] = held[r]
          /\ ~Waiting(r) => clientIP[held[r]] = clientIP[r]
    /\ \A c \in todo : buckets[c] # NoBucket /\ doomed # c
    /\ doomed # NoClient => buckets[doomed] # NoBucket

\* Who is late is late by at most Late.
Timely ==
    /\ \A r \in Request : stage[r] \in {"timed", "held"} =>
          now[r] <= clock /\ clock <= now[r] + Late
    /\ \A b \in Request : lastFill[b] <= clock /\ foundAt[b] <= clock
    /\ todo # {} => cutoff <= clock - CleanupTL
    /\ doomed # NoClient => clock <= foundAt[buckets[doomed]] + Late
    /\ \A r \in Request : stage[r] = "held" /\ held[r] \in condemned =>
          now[r] <= foundAt[held[r]] + Late
    /\ since <= clock

Current(c) == buckets[c] # NoBucket /\ buckets[c] \notin condemned

\* What a client was granted and what its bucket has left came from one full
\* bucket and the time since; without a bucket it has been paid for by time alone.
Balanced ==
    \A c \in Client :
        /\ Current(c) /\ count[c] # 0 =>
              count[c] * Cost + tokens[buckets[c]] <=
                  Full + (lastFill[buckets[c]] - since) + Late
        /\ ~Current(c) => count[c] * Cost <= clock - since

\* The same of a bucket after it was found stale.
Exhausted ==
    \A b \in Request :
        /\ b \notin condemned => extra[b] = 0
        /\ b \in condemned => lastFill[b] <= foundAt[b] + Late
        /\ extra[b] # 0 =>
              extra[b] * Cost + tokens[b] <= Full + (lastFill[b] - foundAt[b]) + Late

IInv ==
    /\ TypeOK
    /\ Mapped
    /\ Timely
    /\ TokensKept
    /\ Balanced
    /\ Exhausted
    /\ OneMoreBurst
=============================================================================
