----------------------------- MODULE Application -----------------------------
(***************************************************************************)
(* The life of the process, internal/app/app.go: the HTTP server, the      *)
(* outbox relay and the event bus run until a signal comes or the listener *)
(* fails, and are stopped in an order that ends with closing the database. *)
(*                                                                         *)
(* Of the relay (event/outbox.go) this module keeps that it publishes a    *)
(* batch job by job and writes a verdict after each; OutboxRelay has the   *)
(* rest.  Of a request it keeps that it is in flight and uses the database *)
(* until it is answered.                                                   *)
(***************************************************************************)
EXTENDS EventBus

CONSTANTS
    RelayJob,  \* what the relay publishes; others publish at any time and stay
    Request    \* HTTP requests

ASSUME RelayAssumption == RelayJob \subseteq Waited

VARIABLES
    phase,     \* where App.Run is
    stopping,  \* runCtx is cancelled
    failed,    \* ListenAndServe has returned an error
    overrun,   \* srv.Shutdown gave up on requests in flight
    serving,   \* requests in flight
    served,    \* requests that have come
    batch,     \* the jobs of the relay's batch that are not settled
    relayDone, \* the relay's Run has returned
    dbOpen     \* the database is not closed

appVars == <<phase, stopping, failed, overrun, serving, served, batch, relayDone,
             dbOpen>>
vars == <<busVars, appVars>>

Phase == {"running", "shutdown", "relay", "bus", "database", "over"}

AppTypeOK ==
    /\ TypeOK
    /\ phase \in Phase
    /\ {stopping, failed, overrun, relayDone, dbOpen} \subseteq BOOLEAN
    /\ serving \subseteq served /\ served \subseteq Request
    /\ batch \subseteq RelayJob

Init ==
    /\ BusInit
    /\ phase = "running"
    /\ stopping = FALSE
    /\ failed = FALSE
    /\ overrun = FALSE
    /\ serving = {}
    /\ served = {}
    /\ batch = {}
    /\ relayDone = FALSE
    /\ dbOpen = TRUE

Alive == phase # "over"

-----------------------------------------------------------------------------
(* The relay.                                                               *)

\* A batch is claimed, unless the context is cancelled: then the transaction
\* does not begin.
ClaimBatch ==
    /\ Alive /\ ~relayDone /\ ~stopping /\ batch = {}
    /\ \E jobs \in SUBSET {j \in RelayJob : stage[j] = "idle"} :
          jobs # {} /\ batch' = jobs
    /\ UNCHANGED <<busVars, phase, stopping, failed, overrun, serving, served,
                   relayDone, dbOpen>>

\* The items of a batch are published one at a time.
PublishNext(j) ==
    /\ Alive
    /\ j \in batch
    /\ \A k \in batch : stage[k] = "idle"
    /\ Enter(j)
    /\ UNCHANGED appVars

\* The update of the row, under a context of its own.
Record(j) ==
    /\ Alive
    /\ j \in batch /\ stage[j] = "done"
    /\ batch' = batch \ {j}
    /\ UNCHANGED <<busVars, phase, stopping, failed, overrun, serving, served,
                   relayDone, dbOpen>>

\* Between two batches Run sees that its context is cancelled.
RelayReturns ==
    /\ Alive /\ stopping /\ ~relayDone /\ batch = {}
    /\ relayDone' = TRUE
    /\ UNCHANGED <<busVars, phase, stopping, failed, overrun, serving, served,
                   batch, dbOpen>>

\* The rest of PublishAndWait, and jobs that are not the relay's.
Publisher(j) ==
    /\ Alive
    /\ \/ j \notin RelayJob /\ Enter(j)
       \/ Select(j) \/ Receive(j) \/ GiveUp(j)
    /\ UNCHANGED appVars

Loop(w) ==
    /\ Alive
    /\ Take(w) \/ Reply(w) \/ Exit(w)
    /\ UNCHANGED appVars

Handlers(w) ==
    /\ Alive
    /\ Run(w)
    /\ UNCHANGED appVars

-----------------------------------------------------------------------------
(* The server.                                                              *)

Arrive(q) ==
    /\ phase = "running" /\ ~failed
    /\ q \notin served
    /\ served' = served \cup {q}
    /\ serving' = serving \cup {q}
    /\ UNCHANGED <<busVars, phase, stopping, failed, overrun, batch, relayDone,
                   dbOpen>>

Answer(q) ==
    /\ Alive
    /\ q \in serving
    /\ serving' = serving \ {q}
    /\ UNCHANGED <<busVars, phase, stopping, failed, overrun, served, batch,
                   relayDone, dbOpen>>

ListenerFails ==
    /\ phase = "running" /\ ~failed
    /\ failed' = TRUE
    /\ UNCHANGED <<busVars, phase, stopping, overrun, serving, served, batch,
                   relayDone, dbOpen>>

-----------------------------------------------------------------------------
(* App.Run.                                                                 *)

\* The context of main is cancelled, and with it runCtx and the contexts the
\* relay publishes under.
Signal ==
    /\ phase = "running" /\ ~stopping
    /\ stopping' = TRUE
    /\ Cancel(RelayJob)
    /\ UNCHANGED <<phase, failed, overrun, serving, served, batch, relayDone,
                   dbOpen>>

\* case <-ctx.Done(): Shutdown closes the listener and waits for the requests.
BeginShutdown ==
    /\ phase = "running" /\ stopping
    /\ phase' = "shutdown"
    /\ UNCHANGED <<busVars, stopping, failed, overrun, serving, served, batch,
                   relayDone, dbOpen>>

\* It returns when they are answered or after 30 seconds.
ShutdownReturns ==
    /\ phase = "shutdown"
    /\ phase' = "relay"
    /\ overrun' = (serving # {})
    /\ UNCHANGED <<busVars, stopping, failed, serving, served, batch, relayDone,
                   dbOpen>>

\* case err := <-errCh: the server is not shut down.
ServerFailed ==
    /\ phase = "running" /\ failed
    /\ phase' = "relay"
    /\ stopping' = TRUE
    /\ Cancel(RelayJob)
    /\ UNCHANGED <<failed, overrun, serving, served, batch, relayDone, dbOpen>>

CloseBusAtOnce ==            \* mutant: relayDone is not waited for
    /\ phase = "relay"
    /\ phase' = "bus"
    /\ BeginClose
    /\ UNCHANGED <<stopping, failed, overrun, serving, served, batch, relayDone,
                   dbOpen>>

\* <-relayDone, then a.close().
CloseBus ==
    /\ phase = "relay" /\ relayDone
    /\ phase' = "bus"
    /\ BeginClose
    /\ UNCHANGED <<stopping, failed, overrun, serving, served, batch, relayDone,
                   dbOpen>>

Close ==
    /\ Alive
    /\ CloseChannel \/ Drained \/ DrainTimesOut
    /\ UNCHANGED appVars

CloseDatabase ==
    /\ phase = "bus" /\ drain \in {"drained", "timeout"}
    /\ phase' = "database"
    /\ dbOpen' = FALSE
    /\ UNCHANGED <<busVars, stopping, failed, overrun, serving, served, batch,
                   relayDone>>

\* main returns and takes every goroutine with it.
ExitProcess ==
    /\ phase = "database"
    /\ phase' = "over"
    /\ UNCHANGED <<busVars, stopping, failed, overrun, serving, served, batch,
                   relayDone, dbOpen>>

Over == phase = "over" /\ UNCHANGED vars

Relay == ClaimBatch \/ RelayReturns \/ \E j \in Job : PublishNext(j) \/ Record(j)

Main == BeginShutdown \/ ShutdownReturns \/ ServerFailed \/ CloseBus \/ Close
        \/ CloseDatabase \/ ExitProcess

Next ==
    \/ Relay
    \/ \E j \in Job : Publisher(j)
    \/ \E w \in Worker : Loop(w) \/ Handlers(w)
    \/ \E q \in Request : Arrive(q) \/ Answer(q)
    \/ ListenerFails
    \/ Signal
    \/ Main
    \/ Over

Spec == Init /\ [][Next]_vars

\* Goroutines that can run do, and timers fire; neither handlers nor requests
\* need end, nobody need send a signal.
FairSpec ==
    /\ Spec
    /\ WF_vars(Relay) /\ WF_vars(Main)
    /\ \A j \in Job : WF_vars(Publisher(j))
    /\ \A w \in Worker : WF_vars(Loop(w))

-----------------------------------------------------------------------------
(* Properties.                                                              *)

RelayHeard == \A j \in RelayJob : answer[j] # "closed"

\* Each part outlives those that use it: the relay never publishes to a closed
\* bus, which would cost its events an attempt, and has settled its batch before
\* the database is closed; a handler runs after that only if the drain timed out,
\* a request only if Shutdown gave up on it or was skipped for a failed listener.
StoppedInOrder ==
    /\ RelayHeard
    /\ closed => relayDone /\ batch = {}
    /\ ~dbOpen =>
          /\ closed
          /\ \A w \in Worker : work[w] # "gone" => drain = "timeout"
          /\ serving # {} => overrun \/ failed

\* However many handlers and requests hang, a signal or a failed listener ends
\* the process: every wait of App.Run has a timeout or a cancelled context.  (The
\* two flags are never reset and "over" is final, so this form says what
\* stopping \/ failed ~> phase = "over" says, at less cost to the checker.)
ShutdownEnds == <>[](stopping \/ failed => phase = "over")

\* As long as handlers return, the jobs that were accepted run, unless the process
\* ends.  (Neither accepted nor HaveRun ever loses a job.)
AcceptedRuns ==
    (\A w \in Worker : WF_vars(Handlers(w))) =>
        <>[](accepted \subseteq HaveRun \/ phase = "over")

-----------------------------------------------------------------------------
(* The inductive invariant behind StoppedInOrder.                           *)

\* How far Close is follows from where App.Run is; the last phases begin when the
\* relay has returned.
Aligned ==
    /\ phase \in {"running", "shutdown", "relay"} => drain = "no"
    /\ phase \in {"database", "over"} => drain \in {"drained", "timeout"}
    /\ ~dbOpen <=> phase \in {"database", "over"}
    /\ phase \in {"bus", "database", "over"} => relayDone
    /\ phase \notin {"running", "shutdown"} /\ serving # {} => overrun \/ failed

\* The relay's jobs in flight are of its batch, which is empty when it is done.
InBatch ==
    /\ relayDone => batch = {}
    /\ \A j \in RelayJob : stage[j] \in {"select", "wait"} => j \in batch

AppIInv ==
    /\ AppTypeOK
    /\ BusIInv
    /\ Aligned
    /\ InBatch
    /\ StoppedInOrder
=============================================================================
