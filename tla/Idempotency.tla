---------------------------- MODULE Idempotency ----------------------------
(***************************************************************************)
(* The Idempotency-Key middleware of internal/platform/mid/idempotency.go  *)
(* over its claim store, together with the janitor's purge of expired keys.*)
(*                                                                         *)
(* One claim scope (key, user, path, method) is modelled: the unique index *)
(* on idempotency_keys makes scopes independent of each other, so the      *)
(* table is one row or none.  Requests are the HTTP requests that carry    *)
(* that scope, retries of one another included.  Every SQL statement is    *)
(* one atomic step; everything between two statements may interleave.      *)
(*                                                                         *)
(* A response body is identified by the request whose handler produced it. *)
(***************************************************************************)
EXTENDS Naturals, FiniteSets

CONSTANTS
    Request,       \* requests that carry the modelled key
    NoRequest,     \* "no request": a NULL response column
    Payload,       \* what request_hash distinguishes: query and body
    NoPayload,     \* payload of a request that has not arrived
    NoRow,         \* the scope has no row in idempotency_keys
    TTL,           \* lifetime of a claim, in clock units
    Skew,          \* how far the database's clock may be from Go's: 0 on SQLite,
                   \* whose statements are handed time.Now()
    LeasesHold,    \* TRUE: a request is over before its own claim expires
    MaxClock,      \* bound: the clock stops here
    MaxFaults      \* bound: crashes and failed store calls in a behaviour

Status == {"processing", "completed", "failed"}

Row == [id: Nat, status: Status, hash: Payload,
        response: Request \cup {NoRequest}, expires: Nat]

ASSUME RequestAssumption == NoRequest \notin Request
ASSUME PayloadAssumption == NoPayload \notin Payload
ASSUME RowAssumption == NoRow \notin Row
ASSUME BoundAssumption ==
    /\ TTL \in Nat \ {0}
    /\ Skew \in Nat /\ Skew < TTL
    /\ MaxClock \in Nat
    /\ MaxFaults \in Nat
    /\ LeasesHold \in BOOLEAN

VARIABLES
    row,       \* the row of the scope, or NoRow
    nextId,    \* the id the next inserted row gets; ids are never reused
    clock,     \* time.Now()
    now,       \* the database's now()
    pc,        \* pc[r]: the statement request r executes next
    payload,   \* payload[r]: what r carries
    lease,     \* lease[r]: expiresAt, computed when r entered the middleware
    seen,      \* seen[r]: the row r read in resolveConflict
    claimed,   \* claimed[r]: claimedID, the row r means to finalize
    result,    \* result[r]: what r's handler did
    answer,    \* answer[r]: what r's client was sent
    replayed,  \* replayed[r]: whose response r was sent, when replayed
    effects,   \* the requests whose handler committed its transaction
    faults     \* crashes and failed store calls so far

time  == <<clock, now>>
store == <<row, nextId>>
local == <<payload, lease, seen, claimed>>
ghost == <<answer, replayed>>
vars  == <<row, nextId, clock, now, pc, payload, lease, seen, claimed,
           result, answer, replayed, effects, faults>>

-----------------------------------------------------------------------------

\* What a handler did: "ok" and "rejected" answer below 500, with and without
\* a committed transaction; "error" answers 500 or panics after a rollback;
\* "unknown" answers 500 although the database had committed.
Result == {"none", "ok", "rejected", "error", "unknown"}

Stage == {"idle", "claim", "get", "resolve", "reclaim_expired",
          "reclaim_failed", "claim_again", "run", "finalize", "done",
          "crashed"}

InFlight(r) == pc[r] \notin {"idle", "done", "crashed"}

\* r is executing the handler, or has run it and not yet finalized the row.
Holds(r) == pc[r] \in {"run", "finalize"}

TypeOK ==
    /\ row \in Row \cup {NoRow}
    /\ nextId \in Nat
    /\ clock \in Nat
    /\ now \in Nat
    /\ pc \in [Request -> Stage]
    /\ payload \in [Request -> Payload \cup {NoPayload}]
    /\ lease \in [Request -> Nat]
    /\ seen \in [Request -> Row \cup {NoRow}]
    /\ claimed \in [Request -> Nat]
    /\ result \in [Request -> Result]
    /\ answer \in [Request -> {"none", "own", "replay", "concurrent",
                               "mismatch", "internal"}]
    /\ replayed \in [Request -> Request \cup {NoRequest}]
    /\ effects \subseteq Request
    /\ faults \in Nat
    /\ \A r \in Request :
          /\ InFlight(r) => payload[r] \in Payload
          /\ pc[r] \in {"resolve", "reclaim_expired", "reclaim_failed"}
                => seen[r] \in Row

Init ==
    /\ row = NoRow
    /\ nextId = 1
    /\ clock = 0
    /\ now \in 0 .. Skew
    /\ pc = [r \in Request |-> "idle"]
    /\ payload = [r \in Request |-> NoPayload]
    /\ lease = [r \in Request |-> 0]
    /\ seen = [r \in Request |-> NoRow]
    /\ claimed = [r \in Request |-> 0]
    /\ result = [r \in Request |-> "none"]
    /\ answer = [r \in Request |-> "none"]
    /\ replayed = [r \in Request |-> NoRequest]
    /\ effects = {}
    /\ faults = 0

Goto(r, stage) == pc' = [pc EXCEPT ![r] = stage]

\* r's client is answered and r leaves the middleware.
Leave(r, a) == /\ Goto(r, "done")
               /\ answer' = [answer EXCEPT ![r] = a]

-----------------------------------------------------------------------------
(* The statements of the claim store: whether one matches the row, and the  *)
(* row it leaves.                                                           *)

\* INSERT ... ON CONFLICT DO NOTHING
InsertsRow == row = NoRow

InsertedRow(r) == [id |-> nextId, status |-> "processing", hash |-> payload[r],
                   response |-> NoRequest, expires |-> lease[r]]

ExpiredMatchesById(r) ==     \* mutant: expires_at is not checked again
    row # NoRow /\ row.id = seen[r].id

\* UPDATE ... WHERE id = ? AND expires_at <= now
ExpiredMatches(r) == /\ row # NoRow
                     /\ row.id = seen[r].id
                     /\ row.expires <= now

ExpiredReclaimed(r) == [row EXCEPT !.status = "processing",
                                   !.hash = payload[r],
                                   !.expires = lease[r],
                                   !.response = NoRequest]

FailedMatchesById(r) ==      \* mutant: status is not checked again
    row # NoRow /\ row.id = seen[r].id /\ row.hash = payload[r]

\* UPDATE ... WHERE id = ? AND status = 'failed' AND request_hash = ?
FailedMatches(r) == /\ row # NoRow
                    /\ row.id = seen[r].id
                    /\ row.status = "failed"
                    /\ row.hash = payload[r]

FailedReclaimed(r) == [row EXCEPT !.status = "processing",
                                  !.expires = lease[r]]

\* UPDATE ... WHERE id = ?: the row is named by id alone.
FinalizeMatches(r) == /\ row # NoRow
                      /\ row.id = claimed[r]

Failed(r) == result[r] \in {"error", "unknown"}

FinalizedAlways(r) ==        \* mutant: a 5xx is stored for replay as well
    [row EXCEPT !.status = "completed", !.response = r, !.expires = lease[r]]

FinalizedNow(r) ==           \* mutant: the finalize record lacks ExpiresAt
    IF Failed(r)
    THEN [row EXCEPT !.status = "failed"]
    ELSE [row EXCEPT !.status = "completed", !.response = r,
                     !.expires = clock]

Finalized(r) ==
    IF Failed(r)
    THEN [row EXCEPT !.status = "failed"]
    ELSE [row EXCEPT !.status = "completed", !.response = r,
                     !.expires = lease[r]]

-----------------------------------------------------------------------------
(* The middleware.                                                          *)

\* A request with a valid key and a known user enters: the payload is hashed
\* and expiresAt is fixed before the first statement.
Arrive(r) ==
    /\ pc[r] = "idle"
    /\ clock + TTL <= MaxClock
    /\ \E p \in Payload : payload' = [payload EXCEPT ![r] = p]
    /\ lease' = [lease EXCEPT ![r] = clock + TTL]
    /\ Goto(r, "claim")
    /\ UNCHANGED <<store, time, seen, claimed, result, ghost, effects, faults>>

Claim(r) ==
    /\ pc[r] = "claim"
    /\ \/ /\ InsertsRow
          /\ row' = InsertedRow(r)
          /\ nextId' = nextId + 1
          /\ claimed' = [claimed EXCEPT ![r] = nextId]
          /\ Goto(r, "run")
       \/ /\ ~InsertsRow
          /\ Goto(r, "get")
          /\ UNCHANGED <<store, claimed>>
    /\ UNCHANGED <<time, payload, lease, seen, result, ghost, effects, faults>>

\* resolveConflict reads the row; it may have vanished since the claim.
Get(r) ==
    /\ pc[r] = "get"
    /\ seen' = [seen EXCEPT ![r] = row]
    /\ Goto(r, IF row = NoRow THEN "claim_again" ELSE "resolve")
    /\ UNCHANGED <<store, time, payload, lease, claimed, result, ghost,
                   effects, faults>>

SamePayloadAlways(r) ==      \* mutant: the hashes are not compared
    TRUE

\* The row that r read was claimed for what r carries.
SamePayload(r) == seen[r].hash = payload[r]

\* resolveConflict decides on the row it read, not on the row of now.
Resolve(r) ==
    LET rec == seen[r]
        live == rec.expires > clock
        mine == live /\ SamePayload(r)
    IN  /\ pc[r] = "resolve"
        /\ \/ /\ ~live
              /\ Goto(r, "reclaim_expired")
              /\ UNCHANGED ghost
           \/ /\ live /\ ~SamePayload(r)
              /\ Leave(r, "mismatch")
              /\ UNCHANGED replayed
           \/ /\ mine /\ rec.status = "processing"
              /\ Leave(r, "concurrent")
              /\ UNCHANGED replayed
           \/ /\ mine /\ rec.status = "completed"
              /\ Leave(r, "replay")
              /\ replayed' = [replayed EXCEPT ![r] = rec.response]
           \/ /\ mine /\ rec.status = "failed"
              /\ Goto(r, "reclaim_failed")
              /\ UNCHANGED ghost
        /\ UNCHANGED <<store, time, local, result, effects, faults>>

\* Either reclaim takes the row over when its WHERE clause still matches, and
\* answers 409 when it does not.
TakeOver(r, matches, reclaimed) ==
    /\ \/ /\ matches
          /\ row' = reclaimed
          /\ claimed' = [claimed EXCEPT ![r] = seen[r].id]
          /\ Goto(r, "run")
          /\ UNCHANGED answer
       \/ /\ ~matches
          /\ Leave(r, "concurrent")
          /\ UNCHANGED <<row, claimed>>
    /\ UNCHANGED <<nextId, time, payload, lease, seen, result, replayed,
                   effects, faults>>

ReclaimExpired(r) ==
    /\ pc[r] = "reclaim_expired"
    /\ TakeOver(r, ExpiredMatches(r), ExpiredReclaimed(r))

ReclaimFailed(r) ==
    /\ pc[r] = "reclaim_failed"
    /\ TakeOver(r, FailedMatches(r), FailedReclaimed(r))

\* The row had vanished: claim once more, and give up when it is back.
ClaimAgain(r) ==
    /\ pc[r] = "claim_again"
    /\ \/ /\ InsertsRow
          /\ row' = InsertedRow(r)
          /\ nextId' = nextId + 1
          /\ claimed' = [claimed EXCEPT ![r] = nextId]
          /\ Goto(r, "run")
          /\ UNCHANGED answer
       \/ /\ ~InsertsRow
          /\ Leave(r, "concurrent")
          /\ UNCHANGED <<store, claimed>>
    /\ UNCHANGED <<time, payload, lease, seen, result, replayed, effects,
                   faults>>

\* The wrapped handler: one transaction, and a response written straight
\* through to the client.  A commit whose acknowledgement is lost is a fault.
RunHandler(r) ==
    /\ pc[r] = "run"
    /\ \E res \in Result \ {"none"} :
          /\ res = "unknown" => faults < MaxFaults
          /\ faults' = IF res = "unknown" THEN faults + 1 ELSE faults
          /\ result' = [result EXCEPT ![r] = res]
          /\ effects' = IF res \in {"ok", "unknown"} THEN effects \cup {r}
                                                     ELSE effects
    /\ answer' = [answer EXCEPT ![r] = "own"]
    /\ Goto(r, "finalize")
    /\ UNCHANGED <<store, time, local, replayed>>

Finalize(r) ==
    /\ pc[r] = "finalize"
    /\ row' = IF FinalizeMatches(r) THEN Finalized(r) ELSE row
    /\ Goto(r, "done")
    /\ UNCHANGED <<nextId, time, local, result, ghost, effects, faults>>

-----------------------------------------------------------------------------
(* Faults.                                                                  *)

\* The row that r's pending statement leaves when the database executes it.
Executed(r) ==
    CASE pc[r] \in {"claim", "claim_again"} /\ InsertsRow -> InsertedRow(r)
      [] pc[r] = "reclaim_expired" /\ ExpiredMatches(r) -> ExpiredReclaimed(r)
      [] pc[r] = "reclaim_failed" /\ FailedMatches(r) -> FailedReclaimed(r)
      [] pc[r] = "finalize" /\ FinalizeMatches(r) -> Finalized(r)
      [] OTHER -> row

\* A store call returns an error, with or without having been executed.  The
\* claim phase answers 500; a finalize error is only logged.
StoreError(r) ==
    /\ pc[r] \in {"claim", "get", "reclaim_expired", "reclaim_failed",
                  "claim_again", "finalize"}
    /\ faults < MaxFaults
    /\ faults' = faults + 1
    /\ row' \in {row, Executed(r)}
    /\ nextId' = IF row = NoRow /\ row' # NoRow THEN nextId + 1 ELSE nextId
    /\ Goto(r, "done")
    /\ answer' = IF pc[r] = "finalize" THEN answer
                                       ELSE [answer EXCEPT ![r] = "internal"]
    /\ UNCHANGED <<time, local, result, replayed, effects>>

\* The process that serves r dies.  The database keeps what was committed.
Crash(r) ==
    /\ InFlight(r)
    /\ faults < MaxFaults
    /\ faults' = faults + 1
    /\ Goto(r, "crashed")
    /\ UNCHANGED <<store, time, local, result, ghost, effects>>

-----------------------------------------------------------------------------
(* The janitor and the clock.                                               *)

PurgeIdempotencyKeys ==      \* mutant: the purge spares no live row
    /\ row # NoRow
    /\ row.status \in {"completed", "failed"}
    /\ row' = NoRow
    /\ UNCHANGED <<nextId, time, pc, local, result, ghost, effects, faults>>

PurgeExpiredIdempotencyKeys ==
    /\ row # NoRow
    /\ row.expires <= now
    /\ row.status \in {"completed", "failed"}
    /\ row' = NoRow
    /\ UNCHANGED <<nextId, time, pc, local, result, ghost, effects, faults>>

\* Either clock may run ahead of the other, by no more than Skew.
Tick ==
    /\ \E c \in {clock, clock + 1}, d \in {now, now + 1} :
          /\ <<c, d>> # time
          /\ c <= MaxClock /\ d <= MaxClock
          /\ c <= d + Skew /\ d <= c + Skew
          /\ LeasesHold => \A r \in Request : InFlight(r) => d < lease[r]
          /\ clock' = c
          /\ now' = d
    /\ UNCHANGED <<store, pc, local, result, ghost, effects, faults>>

\* Every request is over and the modelled time has run out.
Terminated ==
    /\ clock + TTL > MaxClock
    /\ \A r \in Request : ~InFlight(r)
    /\ UNCHANGED vars

Step(r) == \/ Claim(r) \/ Get(r) \/ Resolve(r) \/ ReclaimExpired(r)
           \/ ReclaimFailed(r) \/ ClaimAgain(r) \/ RunHandler(r) \/ Finalize(r)

Next ==
    \/ \E r \in Request : Arrive(r) \/ Step(r) \/ StoreError(r) \/ Crash(r)
    \/ PurgeExpiredIdempotencyKeys
    \/ Tick
    \/ Terminated

Spec == Init /\ [][Next]_vars

-----------------------------------------------------------------------------
(* Properties.                                                              *)

Live == row # NoRow /\ row.expires > now

\* While a request runs its handler, or has yet to store the outcome, the row
\* is the one it claimed, still processing and still carrying its payload: no
\* retry, reclaim, late finalize or purge has touched it.
HolderOwnsRow ==
    \A r \in Request : Holds(r) =>
        /\ row # NoRow
        /\ row.id = claimed[r]
        /\ row.status = "processing"
        /\ row.hash = payload[r]

\* Two requests with one key never run the handler at the same time, whichever
\* of claim, reclaim-expired and reclaim-failed let them in.
OneHolder == \A r, s \in Request : Holds(r) /\ Holds(s) => r = s

\* A replayed response was produced for the very payload it answers, by a
\* handler that did not fail: a key reused with another payload never gets the
\* first payload's response, and a 5xx is never replayed.
ReplayMatchesPayload ==
    \A r \in Request : answer[r] = "replay" =>
        /\ replayed[r] \in Request
        /\ payload[replayed[r]] = payload[r]
        /\ result[replayed[r]] \in {"ok", "rejected"}

\* Even if requests outlive their claims, so that they run side by side and
\* finalize each other's rows: what is replayed is the response of a handler that
\* did not fail, while the window of that very response lasts by the clock of
\* the process.
ReplayedInWindow ==
    [][\A r \in Request : answer[r] # "replay" /\ answer'[r] = "replay" =>
          /\ replayed'[r] \in Request
          /\ pc[replayed'[r]] = "done"
          /\ result[replayed'[r]] \in {"ok", "rejected"}
          /\ clock < lease[replayed'[r]]]_vars

\* A stored response does not change while its TTL runs, by the database's
\* clock, so all replays within the TTL are the same bytes.
CompletedIsFinal ==
    [][Live /\ row.status = "completed" => row' = row]_vars

\* The handler is let in again after a committed effect only when the window
\* of that effect has passed, and by the database's clock, whatever the clock of
\* the process says; or when the first client was told 500 because the
\* acknowledgement of its commit was lost.
RerunOnlyAfterWindow ==
    [][\A r \in Request : ~Holds(r) /\ Holds(r)' =>
          \A e \in effects : lease[e] <= now \/ result[e] = "unknown"]_vars

\* The promise of IdempotentSlot: a completed row is the response that is kept.
Slot == INSTANCE IdempotentSlot
          WITH inside <- {r \in Request : Holds(r)},
               kept   <- IF row # NoRow /\ row.status = "completed"
                         THEN row.response ELSE NoRequest

\* To its clients the middleware is that slot, although each of its decisions is
\* taken on a row that was read one statement earlier.
OneSlot == Slot!Spec

-----------------------------------------------------------------------------
(* The inductive invariant behind these properties, when leases hold.       *)

\* The clocks are no further apart than Skew.
Skewed == clock <= now + Skew /\ now <= clock + Skew

\* No request in flight has outlived its claim.
Unexpired == \A r \in Request : InFlight(r) => now < lease[r]

HolderLease == \A r \in Request : Holds(r) => row.expires = lease[r]

\* rec, if completed, stores the response of a finished, successful request
\* that carried rec's payload.
Sound(rec) ==
    rec # NoRow /\ rec.status = "completed" =>
        /\ rec.response \in Request
        /\ pc[rec.response] = "done"
        /\ payload[rec.response] = rec.hash
        /\ result[rec.response] \in {"ok", "rejected"}

StoredSound ==
    /\ Sound(row)
    /\ \A r \in Request : Sound(seen[r])
    /\ \A r \in Request : pc[r] = "finalize" => result[r] # "none"
    /\ \A r \in Request : answer[r] = "replay" =>
          pc[r] = "done" /\ pc[replayed[r]] = "done"

\* While the window of a committed effect is open the row keeps everyone else
\* out, be the row finalized or orphaned by a crash.
WindowGuarded ==
    \A e \in effects :
        /\ pc[e] \in {"finalize", "done", "crashed"}
        /\ now < lease[e] /\ result[e] # "unknown" =>
              /\ result[e] = "ok"
              /\ row # NoRow
              /\ row.expires = lease[e]
              /\ row.status \in {"processing", "completed"}
              /\ \A s \in Request : Holds(s) => s = e

Exclusive == Skewed /\ Unexpired /\ HolderOwnsRow /\ HolderLease /\ OneHolder

\* What r has not done yet.
Ahead ==
    \A r \in Request :
        /\ pc[r] = "idle" => payload[r] = NoPayload
        /\ pc[r] \notin {"finalize", "done", "crashed"} =>
               result[r] = "none" /\ answer[r] = "none"

\* A row tells the payload of some request, and when a completed one is over.
Told(rec) == rec # NoRow =>
    /\ \E s \in Request : payload[s] = rec.hash
    /\ rec.status = "completed" => rec.expires = lease[rec.response]

\* A completed row that was read is still the row, until its window is over by
\* the database's clock.
SeenStands ==
    /\ Told(row)
    /\ \A r \in Request :
          /\ Told(seen[r])
          /\ seen[r] # NoRow /\ seen[r].status = "completed"
                /\ now < seen[r].expires => row = seen[r]

\* The claim protocol as a whole: who may run, what is stored, and what stays
\* shut after a committed effect.
IInv == /\ TypeOK
        /\ Exclusive
        /\ StoredSound
        /\ ReplayMatchesPayload
        /\ WindowGuarded
        /\ Ahead
        /\ SeenStands

-----------------------------------------------------------------------------
(* The inductive invariant behind ReplayedInWindow, leases or not.          *)

\* rec, if completed, stores what some request answered, for that one's window.
Honest(rec) ==
    rec # NoRow /\ rec.status = "completed" =>
        /\ rec.response \in Request
        /\ pc[rec.response] = "done"
        /\ result[rec.response] \in {"ok", "rejected"}
        /\ rec.expires = lease[rec.response]

StoredHonest ==
    /\ Honest(row)
    /\ \A r \in Request : Honest(seen[r])
    /\ \A r \in Request : pc[r] = "finalize" => result[r] # "none"
=============================================================================
