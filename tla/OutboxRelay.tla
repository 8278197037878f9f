---------------------------- MODULE OutboxRelay ----------------------------
(***************************************************************************)
(* The transactional outbox of internal/platform/event/outbox.go: events   *)
(* that task transactions add, the relays that claim them in batches and   *)
(* hand them to the in-process bus, and the janitor that purges the ones   *)
(* that are done.                                                          *)
(*                                                                         *)
(* A relay belongs to one process; several processes may share the         *)
(* database.  Events are numbered in the order of created_at, which on     *)
(* PostgreSQL is the start of the adding transaction: they may be added in *)
(* any order.  next_attempt_at is abstracted to whether it has passed      *)
(* ("due"), so a claim's five minutes and a retry's backoff may each run   *)
(* out as soon or as late as they like.                                    *)
(***************************************************************************)
EXTENDS Naturals, FiniteSets

CONSTANTS
    Event,        \* events, numbered in the order of created_at
    Relay,        \* relays, one per process
    BatchSize,    \* events claimed at a time (50 in the code)
    MaxAttempts,  \* maxOutboxAttempts (10 in the code)
    LeasesHold,   \* TRUE: a batch is over before its claim falls due again
    MaxFaults     \* bound: crashes, shutdowns and failed database calls

ASSUME EventAssumption == Event \subseteq Nat
ASSUME BoundAssumption ==
    /\ BatchSize \in Nat \ {0}
    /\ MaxAttempts \in Nat \ {0}
    /\ MaxFaults \in Nat
    /\ LeasesHold \in BOOLEAN

VARIABLES
    status,    \* status[e]: the status column, "none" before the event exists
    attempts,  \* attempts[e]: the attempts column
    due,       \* the events whose next_attempt_at has passed
    batch,     \* batch[r]: the events r has claimed and not yet settled
    read,      \* read[r][e]: the attempts r read when it claimed e
    outcome,   \* outcome[r]: what publishing the head of the batch returned
    stopping,  \* stopping[r]: r's context is cancelled
    late,      \* late[e]: jobs for e left on a bus by relays that stopped waiting
    handled,   \* handled[e]: times the bus's handlers all succeeded for e
    refused,   \* refused[e]: recorded attempts that a handler or the bus refused
    lost,      \* lost[e]: attempts whose verdict was never recorded
    faults     \* crashes, shutdowns and failed database calls so far

table == <<status, attempts, due>>
relay == <<batch, read, outcome, stopping>>
count == <<handled, refused, lost>>
vars  == <<status, attempts, due, batch, read, outcome, stopping, late,
           handled, refused, lost, faults>>

Status == {"none", "pending", "processing", "failed", "done", "dead", "purged"}

Outcome == {"none", "delivered", "refused", "cancelled"}

TypeOK ==
    /\ status \in [Event -> Status]
    /\ attempts \in [Event -> Nat]
    /\ due \subseteq Event
    /\ batch \in [Relay -> SUBSET Event]
    /\ read \in [Relay -> [Event -> Nat]]
    /\ outcome \in [Relay -> Outcome]
    /\ stopping \in [Relay -> BOOLEAN]
    /\ late \in [Event -> Nat]
    /\ handled \in [Event -> Nat]
    /\ refused \in [Event -> Nat]
    /\ lost \in [Event -> Nat]
    /\ faults \in Nat

Init ==
    /\ status = [e \in Event |-> "none"]
    /\ attempts = [e \in Event |-> 0]
    /\ due = {}
    /\ batch = [r \in Relay |-> {}]
    /\ read = [r \in Relay |-> [e \in Event |-> 0]]
    /\ outcome = [r \in Relay |-> "none"]
    /\ stopping = [r \in Relay |-> FALSE]
    /\ late = [e \in Event |-> 0]
    /\ handled = [e \in Event |-> 0]
    /\ refused = [e \in Event |-> 0]
    /\ lost = [e \in Event |-> 0]
    /\ faults = 0

Fault == faults < MaxFaults /\ faults' = faults + 1

Held(e) == \E r \in Relay : e \in batch[r]

\* lost, with one more attempt of every event of es.
LostToo(es) == [e \in Event |-> IF e \in es THEN lost[e] + 1 ELSE lost[e]]

-----------------------------------------------------------------------------

\* A task transaction that added e commits: the row is pending and due.
Add(e) ==
    /\ status[e] = "none"
    /\ status' = [status EXCEPT ![e] = "pending"]
    /\ due' = due \cup {e}
    /\ UNCHANGED <<attempts, relay, late, count, faults>>

\* next_attempt_at passes: the end of a backoff, or of a claim's five minutes,
\* which stay in the row when it is done.  A dead row's is NULL.
FallsDue(e) ==
    /\ status[e] \in {"failed", "processing", "done"}
    /\ e \notin due
    /\ LeasesHold => ~Held(e)
    /\ due' = due \cup {e}
    /\ UNCHANGED <<status, attempts, relay, late, count, faults>>

-----------------------------------------------------------------------------
(* The relay loop.                                                          *)

ClaimableEarly ==            \* mutant: next_attempt_at is not looked at
    {e \in Event : status[e] \in {"pending", "failed", "processing"}}

ClaimableDone ==             \* mutant: done events are not left out
    {e \in due : status[e] \in {"pending", "failed", "processing", "done"}}

ClaimableUnclaimed ==        \* mutant: abandoned claims are not taken up
    {e \in due : status[e] \in {"pending", "failed"}}

Claimable == {e \in due : status[e] \in {"pending", "failed", "processing"}}

Newest(es) ==                \* mutant: ORDER BY created_at DESC
    {e \in es : Cardinality({f \in es : f > e}) < BatchSize}

\* ORDER BY created_at ASC LIMIT batchSize
Oldest(es) == {e \in es : Cardinality({f \in es : f < e}) < BatchSize}

CountedAll(items) ==         \* mutant: the UPDATE is not restricted to the batch
    [e \in Event |-> IF e \in Claimable THEN attempts[e] + 1 ELSE attempts[e]]

\* attempts = attempts + 1 for the items claimed.
Counted(items) ==
    [e \in Event |-> IF e \in items THEN attempts[e] + 1 ELSE attempts[e]]

\* One transaction selects the oldest due events and marks them processing.  It
\* comes after the claims whose rows it skips, so that only those rows make a
\* difference that are locked by a claim which fails.
\* When its commit is executed but reported as an error, nothing is published.
ClaimBatch(r) ==
    /\ batch[r] = {}
    /\ ~stopping[r]
    /\ \E locked \in SUBSET Claimable :
         LET items == Oldest(Claimable \ locked)
         IN  /\ items # {}
             /\ status' = [e \in Event |->
                              IF e \in items THEN "processing" ELSE status[e]]
             /\ attempts' = Counted(items)
             /\ due' = due \ items
             /\ \/ /\ batch' = [batch EXCEPT ![r] = items]
                   /\ read' = [read EXCEPT ![r] =
                          [e \in Event |-> IF e \in items THEN attempts[e] ELSE 0]]
                   /\ IF locked = {} THEN UNCHANGED faults ELSE Fault
                   /\ UNCHANGED lost
                \/ /\ Fault
                   /\ lost' = LostToo(items)
                   /\ UNCHANGED <<batch, read>>
    /\ UNCHANGED <<outcome, stopping, late, handled, refused>>

\* The items are published one after the other, oldest first.
Current(r, e) == /\ e \in batch[r]
                 /\ \A f \in batch[r] : e <= f

\* PublishAndWait(e): the handlers succeed; one of them fails or panics, or
\* the bus is saturated or closed; or the relay's context is cancelled, and
\* then e was never enqueued, or its handlers ended unseen, or the job is
\* still on the bus.
Publish(r, e) ==
    /\ Current(r, e)
    /\ outcome[r] = "none"
    /\ \/ /\ outcome' = [outcome EXCEPT ![r] = "delivered"]
          /\ handled' = [handled EXCEPT ![e] = @ + 1]
          /\ UNCHANGED late
       \/ /\ outcome' = [outcome EXCEPT ![r] = "refused"]
          /\ UNCHANGED <<handled, late>>
       \/ /\ stopping[r]
          /\ outcome' = [outcome EXCEPT ![r] = "cancelled"]
          /\ \/ /\ handled' \in {handled, [handled EXCEPT ![e] = @ + 1]}
                /\ UNCHANGED late
             \/ /\ late' = [late EXCEPT ![e] = @ + 1]
                /\ UNCHANGED handled
    /\ UNCHANGED <<table, batch, read, stopping, refused, lost, faults>>

\* A worker takes a job whose relay waits no longer, in the drain of a process
\* that is shutting down; a new process may have started meanwhile.
DrainLate(e) ==
    /\ late[e] > 0
    /\ late' = [late EXCEPT ![e] = @ - 1]
    /\ handled' \in {handled, [handled EXCEPT ![e] = @ + 1]}
    /\ UNCHANGED <<table, relay, refused, lost, faults>>

VerdictDone(r, e) ==         \* mutant: the delivery error is swallowed
    "done"

VerdictEarly(r, e) ==        \* mutant: the attempt is counted twice
    IF outcome[r] = "delivered" THEN "done"
    ELSE IF read[r][e] + 2 >= MaxAttempts THEN "dead" ELSE "failed"

\* The row after its outcome is recorded, named by id alone: done, dead when
\* the attempts read at the claim are used up, else failed and retried later.
Verdict(r, e) == IF outcome[r] = "delivered" THEN "done"
                 ELSE IF read[r][e] + 1 >= MaxAttempts THEN "dead"
                 ELSE "failed"

SettleStale(r, e) ==         \* mutant: the last event's outcome is kept
    /\ batch' = [batch EXCEPT ![r] = @ \ {e}]
    /\ read' = [read EXCEPT ![r][e] = 0]
    /\ UNCHANGED outcome

\* e leaves the batch, settled or not.
Settle(r, e) ==
    /\ batch' = [batch EXCEPT ![r] = @ \ {e}]
    /\ read' = [read EXCEPT ![r][e] = 0]
    /\ outcome' = [outcome EXCEPT ![r] = "none"]

Record(r, e) ==
    /\ Current(r, e)
    /\ outcome[r] # "none"
    /\ Settle(r, e)
    /\ IF status[e] = "purged"
       THEN UNCHANGED <<status, due>>
       ELSE /\ status' = [status EXCEPT ![e] = Verdict(r, e)]
            /\ due' = IF outcome[r] = "delivered" THEN due ELSE due \ {e}
    /\ refused' = IF outcome[r] = "refused" THEN [refused EXCEPT ![e] = @ + 1]
                                            ELSE refused
    /\ lost' = IF outcome[r] = "cancelled" THEN LostToo({e}) ELSE lost
    /\ UNCHANGED <<attempts, stopping, late, handled, faults>>

\* The update fails; the error is logged and the loop goes on.
RecordFails(r, e) ==
    /\ Current(r, e)
    /\ outcome[r] # "none"
    /\ Fault
    /\ Settle(r, e)
    /\ lost' = LostToo({e})
    /\ UNCHANGED <<table, stopping, late, handled, refused>>

\* Shutdown cancels the relay's context; the batch at hand is still settled,
\* then the process ends and a new one may start.
Stop(r) ==
    /\ ~stopping[r]
    /\ Fault
    /\ stopping' = [stopping EXCEPT ![r] = TRUE]
    /\ UNCHANGED <<table, batch, read, outcome, late, count>>

Restart(r) ==
    /\ stopping[r]
    /\ batch[r] = {}
    /\ stopping' = [stopping EXCEPT ![r] = FALSE]
    /\ UNCHANGED <<table, batch, read, outcome, late, count, faults>>

\* The process dies and is started again: its claims stay processing.
Crash(r) ==
    /\ Fault
    /\ batch' = [batch EXCEPT ![r] = {}]
    /\ read' = [read EXCEPT ![r] = [e \in Event |-> 0]]
    /\ outcome' = [outcome EXCEPT ![r] = "none"]
    /\ stopping' = [stopping EXCEPT ![r] = FALSE]
    /\ lost' = LostToo(batch[r])
    /\ UNCHANGED <<table, late, handled, refused>>

\* The janitor deletes a done event once its retention is over.
PurgeProcessedOutboxEvents(e) ==
    /\ status[e] = "done"
    /\ status' = [status EXCEPT ![e] = "purged"]
    /\ UNCHANGED <<attempts, due, relay, late, count, faults>>

Step(r) == \/ ClaimBatch(r)
           \/ \E e \in Event : Publish(r, e) \/ Record(r, e)
           \/ Restart(r)

\* Every event is settled: the relays poll an empty queue.
Idle == /\ \A e \in Event : status[e] \in {"done", "dead", "purged"}
        /\ UNCHANGED vars

Next ==
    \/ \E e \in Event : \/ Add(e)
                        \/ FallsDue(e)
                        \/ DrainLate(e)
                        \/ PurgeProcessedOutboxEvents(e)
    \/ \E r \in Relay : Step(r) \/ Stop(r) \/ Crash(r)
    \/ \E r \in Relay, e \in Event : RecordFails(r, e)
    \/ Idle

Spec == Init /\ [][Next]_vars

\* Tickers fire, handlers are bounded by their timeout, and time passes.
FairSpec == /\ Spec
            /\ \A r \in Relay : WF_vars(Step(r))
            /\ \A e \in Event : WF_vars(FallsDue(e))

-----------------------------------------------------------------------------
(* Properties.                                                              *)

\* An event is in the hands of at most one relay, and while it is, its row is
\* processing and counts the attempt under way.
OneClaim ==
    \A r \in Relay : \A e \in batch[r] :
        /\ status[e] = "processing"
        /\ attempts[e] = read[r][e] + 1
        /\ \A s \in Relay : e \in batch[s] => s = r

\* Done and dead are final: neither a late update nor a new claim brings a
\* settled event back, only the janitor removes a done one.
SettledIsFinal ==
    [][\A e \in Event :
          /\ status[e] = "done" => status'[e] \in {"done", "purged"}
          /\ status[e] = "dead" => status'[e] = "dead"]_vars

\* Handlers succeed only for an event that is processing, never again for one
\* that is done, dead or purged, except in the drain of a process that was shut
\* down while it waited for them.
NoDeliveryAfterSettled ==
    [][\A e \in Event : handled'[e] > handled[e] =>
          status[e] = "processing" \/ late'[e] < late[e]]_vars

\* An event is not marked done unless its handlers succeeded, and they succeed
\* at most once more than attempts were cut off by a crash, a shutdown or a
\* failed update: at least once always, exactly once when nothing fails.
DeliveryAccounted ==
    \A e \in Event :
        /\ status[e] \in {"done", "purged"} => handled[e] >= 1
        /\ handled[e] <= lost[e] + 1

\* Every claim is accounted for: it was refused, or cut off, or is under way
\* or ended in success.
AttemptsAccounted ==
    \A e \in Event :
        attempts[e] = refused[e] + lost[e]
                      + (IF Held(e) \/ status[e] \in {"done", "purged"}
                         THEN 1 ELSE 0)

\* An event is buried only after MaxAttempts attempts, and is not tried more
\* often than that unless attempts were cut off.
DeadMeansExhausted ==
    \A e \in Event :
        /\ status[e] = "dead" => refused[e] + lost[e] >= MaxAttempts
        /\ attempts[e] <= MaxAttempts + lost[e]

\* Even if claims fall due under a live batch, so that relays share events and
\* settle them over each other's heads: what is done was delivered, what is dead was
\* claimed MaxAttempts times, and a claim delivers once at most.
OncePerClaim ==
    \A e \in Event :
        /\ status[e] \in {"done", "purged"} => handled[e] >= 1
        /\ status[e] = "dead" => attempts[e] >= MaxAttempts
        /\ handled[e] + late[e] <= attempts[e]

\* While nothing fails, an event is claimed only when every older event has been
\* attempted: it is overtaken only after a failure, by which its retry comes later,
\* or when a slower transaction adds it behind the claim.  (Later is by created_at,
\* which need not be the order of the changes.)
FirstInFirstTried ==
    [][\A e, f \in Event :
          e < f /\ attempts'[f] > attempts[f] /\ faults' = faults
              => status'[e] # "pending"]_vars

\* What a relay is about to record is about the head of its batch.
Published(e, outcomes) ==
    \E r \in Relay : outcome[r] \in outcomes /\ Current(r, e)

\* The promise of EventDelivery: an event whose delivery is yet to be recorded
\* is "delivered", every other one that is not settled is "waiting".
Delivery == INSTANCE EventDelivery
              WITH place <- [e \in Event |->
                       IF status[e] \notin {"pending", "processing", "failed"}
                       THEN status[e]
                       ELSE IF Published(e, {"delivered"}) THEN "delivered"
                       ELSE "waiting"]

\* The relays, whose claims overlap and whose processes die, deliver each event
\* as if it were alone: once, and again only for a delivery written off.
DeliveredAsPromised == Delivery!Spec

\* Every event that was committed is delivered or dead-lettered in the end,
\* through any crashes, shutdowns and refusals.
EventuallySettled ==
    \A e \in Event :
        status[e] = "pending" ~> status[e] \in {"done", "dead", "purged"}

-----------------------------------------------------------------------------
(* The inductive invariant behind these properties.                         *)

\* What keeps two relays from holding one event: claims that do not fall due
\* under a live batch, or there being only one relay.
Undisturbed == LeasesHold \/ \A r, s \in Relay : r = s

Leased == LeasesHold => \A r \in Relay : batch[r] \cap due = {}

\* DeliveryAccounted, counting the delivery that is still to be recorded.
DeliveryPending ==
    /\ \A r \in Relay : batch[r] = {} => outcome[r] = "none"
    /\ \A e \in Event :
           /\ status[e] \in {"done", "purged"} \/ Published(e, {"delivered"})
                 => handled[e] >= 1
           /\ \/ handled[e] + late[e] <= lost[e]
              \/ /\ handled[e] + late[e] = lost[e] + 1
                 /\ \/ status[e] \in {"done", "purged"}
                    \/ Published(e, {"delivered", "cancelled"})

\* An event that was never claimed is due from the moment it was added.
PendingDue == \A e \in Event : status[e] = "pending" => e \in due

\* An event nobody holds has an attempt left, or has been cut off.
Rested ==
    \A e \in Event :
        ~Held(e) /\ status[e] \notin {"done", "dead", "purged"}
            => attempts[e] < MaxAttempts + lost[e]

IInv == /\ TypeOK
        /\ OneClaim
        /\ Leased
        /\ PendingDue
        /\ AttemptsAccounted
        /\ DeadMeansExhausted
        /\ Rested
        /\ DeliveryPending

-----------------------------------------------------------------------------
(* The inductive invariant behind OncePerClaim, whatever becomes of leases. *)

\* The relays that hold e and are yet to publish it.
Owing(e) == {r \in Relay : e \in batch[r] /\ ~(Current(r, e) /\ outcome[r] # "none")}

\* A relay knows an attempt that was counted, and delivered what it says it did.
HonestRelay ==
    \A r \in Relay :
        /\ batch[r] = {} => outcome[r] = "none"
        /\ \A e \in batch[r] :
              /\ read[r][e] < attempts[e]
              /\ outcome[r] = "delivered" /\ Current(r, e) => handled[e] >= 1

\* Every claim that is yet to be published has an attempt of its own.
Paid ==
    \A e \in Event :
        /\ IsFiniteSet(Owing(e))
        /\ handled[e] + late[e] + Cardinality(Owing(e)) <= attempts[e]

LInv == /\ TypeOK
        /\ HonestRelay
        /\ Paid
        /\ OncePerClaim
=============================================================================
