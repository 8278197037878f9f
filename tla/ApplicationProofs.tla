-------------------------- MODULE ApplicationProofs --------------------------
(***************************************************************************)
(* The application drives the bus as the bus demands, and stops its parts  *)
(* in order, for any jobs, workers and requests.                           *)
(***************************************************************************)
EXTENDS Application, EventBusProofs

\* What the relay, the publishers, the workers, a signal and the main goroutine
\* do to the bus are steps of the bus.
LEMMA AppBusStep == AppTypeOK /\ [Next]_vars => [BusNext]_busVars
<1> SUFFICES ASSUME AppTypeOK, [Next]_vars PROVE [BusNext]_busVars
  OBVIOUS
<1>0. RelayJob \in SUBSET Job
  BY RelayAssumption, JobAssumption
<1>1. CASE Relay
  BY <1>1 DEF Relay, ClaimBatch, RelayReturns, PublishNext, Record, BusNext
<1>2. ASSUME NEW j \in Job, Publisher(j) PROVE [BusNext]_busVars
  BY <1>2 DEF Publisher, BusNext
<1>3. ASSUME NEW w \in Worker, Loop(w) \/ Handlers(w) PROVE [BusNext]_busVars
  BY <1>3 DEF Loop, Handlers, BusNext
<1>4. ASSUME NEW q \in Request, Arrive(q) \/ Answer(q) PROVE [BusNext]_busVars
  BY <1>4 DEF Arrive, Answer
<1>5. CASE ListenerFails
  BY <1>5 DEF ListenerFails
<1>6. CASE Signal \/ ServerFailed
  BY <1>0, <1>6 DEF Signal, ServerFailed, BusNext
<1>7. CASE BeginShutdown \/ ShutdownReturns \/ CloseDatabase \/ ExitProcess
  BY <1>7 DEF BeginShutdown, ShutdownReturns, CloseDatabase, ExitProcess
<1>8. CASE CloseBus \/ Close
  BY <1>8 DEF CloseBus, Close, BusNext
<1>9. CASE Over \/ UNCHANGED vars
  BY <1>9 DEF Over, vars
<1>10. QED
  BY <1>1, <1>2, <1>3, <1>4, <1>5, <1>6, <1>7, <1>8, <1>9 DEF Next, Main

-----------------------------------------------------------------------------
(* Type correctness.                                                        *)

LEMMA AppTypeStep == AppTypeOK /\ TypeOK' /\ [Next]_vars => AppTypeOK'
<1> SUFFICES ASSUME AppTypeOK, TypeOK', [Next]_vars PROVE AppTypeOK'
  OBVIOUS
<1> USE DEF AppTypeOK, Phase
<1>1. CASE Relay
  BY <1>1 DEF Relay, ClaimBatch, RelayReturns, PublishNext, Record, appVars
<1>2. ASSUME NEW j \in Job, Publisher(j) PROVE AppTypeOK'
  BY <1>2 DEF Publisher, appVars
<1>3. ASSUME NEW w \in Worker, Loop(w) \/ Handlers(w) PROVE AppTypeOK'
  BY <1>3 DEF Loop, Handlers, appVars
<1>4. ASSUME NEW q \in Request, Arrive(q) \/ Answer(q) PROVE AppTypeOK'
  BY <1>4 DEF Arrive, Answer
<1>5. CASE ListenerFails
  BY <1>5 DEF ListenerFails
<1>6. CASE Signal \/ ServerFailed
  BY <1>6 DEF Signal, ServerFailed
<1>7. CASE BeginShutdown \/ ShutdownReturns \/ CloseDatabase \/ ExitProcess
  BY <1>7 DEF BeginShutdown, ShutdownReturns, CloseDatabase, ExitProcess
<1>8. CASE CloseBus \/ Close
  BY <1>8 DEF CloseBus, Close, appVars
<1>9. CASE Over \/ UNCHANGED vars
  BY <1>9 DEF Over, vars, appVars
<1>10. QED
  BY <1>1, <1>2, <1>3, <1>4, <1>5, <1>6, <1>7, <1>8, <1>9 DEF Next, Main

-----------------------------------------------------------------------------
(* The order of shutdown.                                                   *)

LEMMA AlignedStep == AppIInv /\ [Next]_vars => Aligned'
<1> SUFFICES ASSUME AppIInv, [Next]_vars PROVE Aligned'
  OBVIOUS
<1>0. /\ Aligned /\ phase \in Phase /\ serving \subseteq Request
      /\ drain \in {"no", "lock", "wait", "drained", "timeout"}
  BY DEF AppIInv, AppTypeOK, TypeOK
<1>1. CASE Relay
  <2>1. /\ UNCHANGED <<phase, drain, dbOpen, serving, overrun, failed>>
        /\ relayDone => relayDone'
    BY <1>1 DEF Relay, ClaimBatch, RelayReturns, PublishNext, Record, Enter, busVars,
                appVars
  <2>2. QED
    BY <1>0, <2>1 DEF Aligned
<1>2. ASSUME NEW j \in Job, Publisher(j) PROVE Aligned'
  <2>1. UNCHANGED drain
    BY <1>2 DEF Publisher, Enter, Select, Receive, GiveUp
  <2>2. QED
    BY <1>0, <1>2, <2>1 DEF Publisher, appVars, Aligned
<1>3. ASSUME NEW w \in Worker, Loop(w) \/ Handlers(w) PROVE Aligned'
  <2>1. UNCHANGED drain
    BY <1>3 DEF Loop, Handlers, Take, Run, Reply, Exit
  <2>2. QED
    BY <1>0, <1>3, <2>1 DEF Loop, Handlers, appVars, Aligned
<1>4. ASSUME NEW q \in Request, Arrive(q) \/ Answer(q) PROVE Aligned'
  BY <1>0, <1>4 DEF Arrive, Answer, busVars, Aligned
<1>5. CASE ListenerFails
  BY <1>0, <1>5 DEF ListenerFails, busVars, Aligned
<1>6. CASE Signal \/ ServerFailed
  BY <1>0, <1>6 DEF Signal, ServerFailed, Cancel, Aligned
<1>7. CASE BeginShutdown \/ ShutdownReturns \/ CloseDatabase \/ ExitProcess
  <2>1. UNCHANGED <<drain, relayDone, serving, failed>>
    BY <1>7 DEF BeginShutdown, ShutdownReturns, CloseDatabase, ExitProcess, busVars
  <2>2. CASE BeginShutdown
    BY <1>0, <2>1, <2>2 DEF BeginShutdown, Aligned
  <2>3. CASE ShutdownReturns
    BY <1>0, <2>1, <2>3 DEF ShutdownReturns, Aligned
  <2>4. CASE CloseDatabase
    BY <1>0, <2>1, <2>4 DEF CloseDatabase, Aligned
  <2>5. CASE ExitProcess
    BY <1>0, <2>1, <2>5 DEF ExitProcess, Aligned
  <2>6. QED
    BY <1>7, <2>2, <2>3, <2>4, <2>5
<1>8. CASE CloseBus
  BY <1>0, <1>8 DEF CloseBus, BeginClose, Aligned
<1>9. CASE Close
  BY <1>0, <1>9 DEF Close, CloseChannel, Drained, DrainTimesOut, appVars, Phase, Aligned
<1>10. CASE Over \/ UNCHANGED vars
  BY <1>0, <1>10 DEF Over, vars, busVars, appVars, Aligned
<1>11. QED
  BY <1>1, <1>2, <1>3, <1>4, <1>5, <1>6, <1>7, <1>8, <1>9, <1>10 DEF Next, Main

\* A call that goes on or returns is one that had begun.
LEMMA PublisherStep ==
    ASSUME TypeOK, Locked, NEW j \in Job, Publisher(j)
    PROVE  /\ \A k \in RelayJob : /\ stage'[k] \in {"select", "wait"} =>
                                        stage[k] \in {"select", "wait"}
                                  /\ answer'[k] = "closed" => answer[k] = "closed"
           /\ UNCHANGED appVars
<1>1. CASE j \notin RelayJob /\ Enter(j)
  <2>1. /\ stage' = [stage EXCEPT ![j] = stage'[j]]
        /\ answer' = [answer EXCEPT ![j] = answer'[j]]
    BY <1>1 DEF Enter, Return, TypeOK
  <2>2. \A k \in RelayJob : stage'[k] = stage[k] /\ answer'[k] = answer[k]
    BY <1>1, <2>1, RelayAssumption, JobAssumption DEF TypeOK
  <2>3. QED
    BY <2>2 DEF Publisher
<1>2. CASE Select(j)
  <2>1. stage[j] = "select" /\ ~closed
    BY <1>2 DEF Select, Locked
  <2>2. \/ stage' = [stage EXCEPT ![j] = "wait"] /\ UNCHANGED answer
        \/ \E what \in {"accepted", "cancelled", "saturated"} : Return(j, what)
    BY <1>2, <2>1 DEF Select, Send
  <2>3. QED
    BY <2>1, <2>2, RelayAssumption, JobAssumption DEF Return, TypeOK, Publisher
<1>3. CASE Receive(j) \/ GiveUp(j)
  <2>1. \E what \in {"ok", "err", "cancelled"} : Return(j, what)
    BY <1>3 DEF Receive, GiveUp, TypeOK, Outcome
  <2>2. QED
    BY <2>1, RelayAssumption, JobAssumption DEF Return, TypeOK, Publisher
<1>4. QED
  BY <1>1, <1>2, <1>3 DEF Publisher

LEMMA InBatchStep == AppIInv /\ [Next]_vars => InBatch' /\ RelayHeard'
<1> SUFFICES ASSUME AppIInv, [Next]_vars PROVE InBatch' /\ RelayHeard'
  OBVIOUS
<1>0. /\ TypeOK /\ Locked /\ Aligned /\ InBatch /\ RelayHeard
      /\ phase \in Phase /\ batch \subseteq RelayJob /\ RelayJob \subseteq Job
  BY RelayAssumption, JobAssumption
  DEF AppIInv, BusIInv, AppTypeOK, StoppedInOrder
<1>1. CASE ClaimBatch \/ RelayReturns
  BY <1>0, <1>1 DEF ClaimBatch, RelayReturns, busVars, InBatch, RelayHeard
<1>2. ASSUME NEW j \in Job, PublishNext(j) PROVE InBatch' /\ RelayHeard'
  <2>1. j \in batch /\ Enter(j) /\ UNCHANGED appVars
    BY <1>2 DEF PublishNext
  <2>2. ~closed
    BY <1>0, <2>1 DEF InBatch, Aligned, Locked, Phase
  <2>3. stage' = [stage EXCEPT ![j] = "select"] /\ UNCHANGED answer
    BY <2>1, <2>2 DEF Enter
  <2>4. QED
    BY <1>0, <2>1, <2>3 DEF appVars, TypeOK, InBatch, RelayHeard
<1>3. ASSUME NEW j \in Job, Record(j) PROVE InBatch' /\ RelayHeard'
  <2>1. /\ stage[j] = "done" /\ batch' = batch \ {j}
        /\ UNCHANGED <<stage, answer, relayDone>>
    BY <1>3 DEF Record, busVars
  <2>2. QED
    BY <1>0, <2>1 DEF InBatch, RelayHeard
<1>4. ASSUME NEW j \in Job, Publisher(j) PROVE InBatch' /\ RelayHeard'
  <2>1. /\ \A k \in RelayJob : /\ stage'[k] \in {"select", "wait"} =>
                                     stage[k] \in {"select", "wait"}
                               /\ answer'[k] = "closed" => answer[k] = "closed"
        /\ UNCHANGED appVars
    BY <1>0, <1>4, PublisherStep
  <2>2. QED
    BY <1>0, <2>1 DEF appVars, InBatch, RelayHeard
<1>5. ASSUME UNCHANGED <<stage, answer, batch, relayDone>>
      PROVE  InBatch' /\ RelayHeard'
  BY <1>0, <1>5 DEF InBatch, RelayHeard
<1>6. ASSUME NEW w \in Worker, Loop(w) \/ Handlers(w) PROVE InBatch' /\ RelayHeard'
  BY <1>5, <1>6 DEF Loop, Handlers, Take, Run, Reply, Exit, appVars
<1>7. ASSUME NEW q \in Request, Arrive(q) \/ Answer(q) PROVE InBatch' /\ RelayHeard'
  BY <1>5, <1>7 DEF Arrive, Answer, busVars
<1>8. CASE ListenerFails \/ Signal \/ ServerFailed
  BY <1>5, <1>8 DEF ListenerFails, Signal, ServerFailed, Cancel, busVars
<1>9. CASE BeginShutdown \/ ShutdownReturns \/ CloseDatabase \/ ExitProcess
  BY <1>5, <1>9
  DEF BeginShutdown, ShutdownReturns, CloseDatabase, ExitProcess, busVars
<1>10. CASE CloseBus \/ Close
  BY <1>5, <1>10 DEF CloseBus, BeginClose, Close, CloseChannel, Drained,
                     DrainTimesOut, rest, appVars
<1>11. CASE Over \/ UNCHANGED vars
  BY <1>5, <1>11 DEF Over, vars, busVars, appVars
<1>12. QED
  BY <1>1, <1>2, <1>3, <1>4, <1>6, <1>7, <1>8, <1>9, <1>10, <1>11 DEF Next, Main, Relay

\* The order of shutdown follows from how far each part is.
LEMMA InOrder ==
    AppTypeOK /\ BusIInv /\ Aligned /\ InBatch /\ RelayHeard => StoppedInOrder
<1> SUFFICES ASSUME AppTypeOK, BusIInv, Aligned, InBatch, RelayHeard
             PROVE  StoppedInOrder
  OBVIOUS
<1>1. /\ TypeOK /\ Locked /\ Emptied /\ phase \in Phase
  BY DEF AppTypeOK, BusIInv
<1>2. closed => phase \in {"bus", "database", "over"}
  BY <1>1 DEF Locked, Aligned, Phase
<1>3. closed => relayDone /\ batch = {}
  BY <1>2 DEF Aligned, InBatch
<1>4. ~dbOpen => phase \in {"database", "over"} /\ drain \in {"drained", "timeout"}
  BY DEF Aligned
<1>5. ~dbOpen => closed
  BY <1>1, <1>4 DEF Locked
<1>6. ~dbOpen => \A w \in Worker : work[w] # "gone" => drain = "timeout"
  BY <1>1, <1>4 DEF Emptied
<1>7. ~dbOpen => (serving # {} => overrun \/ failed)
  BY <1>4 DEF Aligned
<1>8. QED
  BY <1>3, <1>5, <1>6, <1>7 DEF StoppedInOrder

LEMMA AppInitial == Init => AppIInv
<1> SUFFICES ASSUME Init PROVE AppIInv
  OBVIOUS
<1>1. BusIInv /\ BusInit
  BY BusInitial DEF Init
<1>2. AppTypeOK
  BY <1>1 DEF Init, AppTypeOK, BusIInv, Phase
<1>3. Aligned /\ InBatch /\ RelayHeard
  BY RelayAssumption, JobAssumption DEF Init, BusInit, Aligned, InBatch, RelayHeard
<1>4. QED
  BY <1>1, <1>2, <1>3, InOrder DEF AppIInv

LEMMA AppStep == AppIInv /\ [Next]_vars => AppIInv'
<1> SUFFICES ASSUME AppIInv, [Next]_vars PROVE AppIInv'
  OBVIOUS
<1>1. BusIInv'
  BY AppBusStep, BusStep DEF AppIInv
<1>2. AppTypeOK'
  BY <1>1, AppTypeStep DEF AppIInv, BusIInv
<1>3. Aligned' /\ InBatch' /\ RelayHeard'
  BY AlignedStep, InBatchStep
<1>4. StoppedInOrder'
  BY <1>1, <1>2, <1>3, InOrder, PTL
<1>5. QED
  BY <1>1, <1>2, <1>3, <1>4 DEF AppIInv

LEMMA AppInvariant == Spec => []AppIInv
BY AppInitial, AppStep, PTL DEF Spec

-----------------------------------------------------------------------------
(* Theorems.                                                                *)

\* Every variable always has its type: the channel never holds more than its
\* capacity.
THEOREM AppTypeCorrect == Spec => []AppTypeOK
<1>1. AppIInv => AppTypeOK
  BY DEF AppIInv
<1>2. QED
  BY AppInvariant, <1>1, PTL

\* The application is a user of the bus: what it does to the bus are steps of
\* the bus.
THEOREM AppRefinesBus == Spec => BusSpec
<1>1. Init => BusInit
  BY DEF Init
<1>2. QED
  BY <1>1, AppTypeCorrect, AppBusStep, PTL DEF Spec, BusSpec

\* No step of shutdown sends on the closed channel.
THEOREM NoPanicCorrect == Spec => []NoPanic
BY AppRefinesBus, BusCorrect, PTL

\* No job that the bus accepted is lost or run twice, whatever the order of
\* publishing, taking, giving up and closing.
THEOREM JobsAccountedCorrect == Spec => []JobsAccounted
BY AppRefinesBus, BusCorrect, PTL

\* What a publisher is told is what became of its job.
THEOREM AnswersTrueCorrect == Spec => []AnswersTrue
BY AppRefinesBus, BusCorrect, PTL

\* The relay, the bus and the database are stopped in the order that each needs.
THEOREM StoppedInOrderCorrect == Spec => []StoppedInOrder
<1>1. AppIInv => StoppedInOrder
  BY DEF AppIInv
<1>2. QED
  BY AppInvariant, <1>1, PTL
=============================================================================
