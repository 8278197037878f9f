------------------------------ MODULE EventBus ------------------------------
(***************************************************************************)
(* The in-process bus of internal/platform/event/bus.go: a bounded channel *)
(* of jobs, workers that run the handlers, publishers that may wait for    *)
(* the outcome of theirs, and Close, which drains.                         *)
(*                                                                         *)
(* A job is one call of Publish or PublishAndWait.  publishMu is not a     *)
(* variable: its readers are the jobs at "select", its writer is Close, at *)
(* "lock" until it gets it.  What Close does under the lock (closed = true *)
(* and close(ch)) nobody sees half done, so it is one step.                *)
(***************************************************************************)
EXTENDS Naturals, Sequences

CONSTANTS
    Job,       \* calls of Publish and PublishAndWait
    Waited,    \* those of PublishAndWait
    Worker,    \* worker goroutines (4 in the application)
    NoJob,     \* a worker has none
    Capacity   \* of the channel (1024 in the code)

ASSUME JobAssumption == NoJob \notin Job /\ Waited \subseteq Job
ASSUME CapacityAssumption == Capacity \in Nat \ {0}
ASSUME WorkerAssumption == Worker # {}

VARIABLES
    queue,      \* b.ch
    closed,     \* b.closed, and b.ch is closed
    dropped,    \* b.dropped
    drain,      \* how far Close is
    stage,      \* stage[j]: where the call of job j is
    cancelled,  \* the jobs whose context is cancelled
    result,     \* result[j]: what is in the result channel of j, or ""
    answer,     \* answer[j]: what the call returned, or ""
    work,       \* work[w]: what worker w does
    job,        \* job[w]: the job w has taken, or NoJob
    accepted,   \* history: the jobs that were put on the channel
    ran         \* ran[j], history: how the handlers of j ended, or ""

busVars == <<queue, closed, dropped, drain, stage, cancelled, result, answer,
             work, job, accepted, ran>>

Outcome == {"", "ok", "err"}
Stage == {"idle", "select", "wait", "done", "panic"}
Verdict == {"", "accepted", "ok", "err", "closed", "saturated", "cancelled"}

ChannelOK == queue \in Seq(Job) /\ Len(queue) <= Capacity

TypeOK ==
    /\ ChannelOK
    /\ closed \in BOOLEAN
    /\ dropped \in Nat
    /\ drain \in {"no", "lock", "wait", "drained", "timeout"}
    /\ stage \in [Job -> Stage]
    /\ cancelled \subseteq Job
    /\ result \in [Job -> Outcome]
    /\ answer \in [Job -> Verdict]
    /\ work \in [Worker -> {"idle", "busy", "reply", "gone"}]
    /\ job \in [Worker -> Job \cup {NoJob}]
    /\ accepted \subseteq Job
    /\ ran \in [Job -> Outcome]

BusInit ==
    /\ queue = <<>>
    /\ closed = FALSE
    /\ dropped = 0
    /\ drain = "no"
    /\ stage = [j \in Job |-> "idle"]
    /\ cancelled = {}
    /\ result = [j \in Job |-> ""]
    /\ answer = [j \in Job |-> ""]
    /\ work = [w \in Worker |-> "idle"]
    /\ job = [w \in Worker |-> NoJob]
    /\ accepted = {}
    /\ ran = [j \in Job |-> ""]

Return(j, what) ==
    /\ answer' = [answer EXCEPT ![j] = what]
    /\ stage' = [stage EXCEPT ![j] = "done"]

-----------------------------------------------------------------------------
(* Publishers.                                                              *)

\* enqueue takes the read lock, for which it waits behind a waiting writer, and
\* reads closed.
Enter(j) ==
    /\ stage[j] = "idle"
    /\ drain # "lock"
    /\ IF closed
         THEN Return(j, "closed")
         ELSE stage' = [stage EXCEPT ![j] = "select"] /\ UNCHANGED answer
    /\ UNCHANGED <<queue, closed, dropped, drain, cancelled, result, work, job,
                   accepted, ran>>

Room == Len(queue) < Capacity

\* A send; on a closed channel it panics.
Send(j) ==
    /\ Room
    /\ IF closed
         THEN /\ stage' = [stage EXCEPT ![j] = "panic"]
              /\ UNCHANGED <<queue, answer, accepted>>
         ELSE /\ queue' = Append(queue, j)
              /\ accepted' = accepted \cup {j}
              /\ IF j \in Waited
                   THEN stage' = [stage EXCEPT ![j] = "wait"] /\ UNCHANGED answer
                   ELSE Return(j, "accepted")
    /\ UNCHANGED dropped

\* The select of enqueue: any case that is ready, the default when none is.
Select(j) ==
    /\ stage[j] = "select"
    /\ \/ Send(j)
       \/ /\ j \in cancelled
          /\ Return(j, "cancelled")
          /\ UNCHANGED <<queue, dropped, accepted>>
       \/ /\ ~Room /\ j \notin cancelled
          /\ dropped' = dropped + 1
          /\ Return(j, "saturated")
          /\ UNCHANGED <<queue, accepted>>
    /\ UNCHANGED <<closed, drain, cancelled, result, work, job, ran>>

\* PublishAndWait gets the result ...
Receive(j) ==
    /\ stage[j] = "wait"
    /\ result[j] # ""
    /\ Return(j, result[j])
    /\ result' = [result EXCEPT ![j] = ""]
    /\ UNCHANGED <<queue, closed, dropped, drain, cancelled, work, job, accepted,
                   ran>>

GiveUpTooLate(j) ==          \* mutant: the context is not in the select
    /\ stage[j] = "wait"
    /\ j \in cancelled /\ ran[j] # ""
    /\ Return(j, "cancelled")
    /\ UNCHANGED <<queue, closed, dropped, drain, cancelled, result, work, job,
                   accepted, ran>>

\* ... or its context is cancelled, and the job stays where it is.
GiveUp(j) ==
    /\ stage[j] = "wait"
    /\ j \in cancelled
    /\ Return(j, "cancelled")
    /\ UNCHANGED <<queue, closed, dropped, drain, cancelled, result, work, job,
                   accepted, ran>>

-----------------------------------------------------------------------------
(* Workers.                                                                 *)

Take(w) ==
    /\ work[w] = "idle"
    /\ queue # <<>>
    /\ job' = [job EXCEPT ![w] = Head(queue)]
    /\ queue' = Tail(queue)
    /\ work' = [work EXCEPT ![w] = "busy"]
    /\ UNCHANGED <<closed, dropped, drain, stage, cancelled, result, answer,
                   accepted, ran>>

\* All handlers that match have run: none failed, or one returned an error or
\* panicked.
Run(w) ==
    /\ work[w] = "busy"
    /\ \E how \in {"ok", "err"} : ran' = [ran EXCEPT ![job[w]] = how]
    /\ work' = [work EXCEPT ![w] = "reply"]
    /\ UNCHANGED <<queue, closed, dropped, drain, stage, cancelled, result, answer,
                   job, accepted>>

ReportedOk(j) == "ok"        \* mutant: the error is lost on its way

\* firstErr, for the job whose handlers have run.
Reported(j) == ran[j]

ReplyAndReturn(w) ==         \* mutant: the worker ends with its first failed job
    /\ work[w] = "reply"
    /\ result' = IF job[w] \in Waited
                    THEN [result EXCEPT ![job[w]] = Reported(job[w])]
                    ELSE result
    /\ work' = [work EXCEPT ![w] = IF ran[job[w]] = "err" THEN "gone" ELSE "idle"]
    /\ job' = [job EXCEPT ![w] = NoJob]
    /\ UNCHANGED <<queue, closed, dropped, drain, stage, cancelled, answer,
                   accepted, ran>>

\* A result channel has room for one: the worker never waits for the publisher.
Reply(w) ==
    /\ work[w] = "reply"
    /\ IF job[w] \in Waited
         THEN /\ result[job[w]] = ""
              /\ result' = [result EXCEPT ![job[w]] = Reported(job[w])]
         ELSE UNCHANGED result
    /\ work' = [work EXCEPT ![w] = "idle"]
    /\ job' = [job EXCEPT ![w] = NoJob]
    /\ UNCHANGED <<queue, closed, dropped, drain, stage, cancelled, answer,
                   accepted, ran>>

ExitAtOnce(w) ==             \* mutant: what is left on the channel is dropped
    /\ work[w] = "idle"
    /\ closed
    /\ work' = [work EXCEPT ![w] = "gone"]
    /\ UNCHANGED <<queue, closed, dropped, drain, stage, cancelled, result, answer,
                   job, accepted, ran>>

\* The range over a closed channel ends when it is empty.
Exit(w) ==
    /\ work[w] = "idle"
    /\ closed /\ queue = <<>>
    /\ work' = [work EXCEPT ![w] = "gone"]
    /\ UNCHANGED <<queue, closed, dropped, drain, stage, cancelled, result, answer,
                   job, accepted, ran>>

-----------------------------------------------------------------------------
(* Close.                                                                   *)

rest == <<queue, dropped, stage, cancelled, result, answer, work, job, accepted,
          ran>>

BeginClose ==
    /\ drain = "no"
    /\ drain' = "lock"
    /\ UNCHANGED <<closed, rest>>

CloseChannelUnlocked ==      \* mutant: publishMu is not taken
    /\ drain = "lock"
    /\ drain' = "wait"
    /\ closed' = TRUE
    /\ UNCHANGED rest

\* The write lock is granted once no publisher has the read lock.
CloseChannel ==
    /\ drain = "lock"
    /\ \A j \in Job : stage[j] # "select"
    /\ drain' = "wait"
    /\ closed' = TRUE
    /\ UNCHANGED rest

\* The workers are waited for, for 30 seconds.
Drained ==
    /\ drain = "wait"
    /\ \A w \in Worker : work[w] = "gone"
    /\ drain' = "drained"
    /\ UNCHANGED <<closed, rest>>

DrainTimesOut ==
    /\ drain = "wait"
    /\ drain' = "timeout"
    /\ UNCHANGED <<closed, rest>>

Cancel(jobs) ==
    /\ cancelled' = cancelled \cup jobs
    /\ UNCHANGED <<queue, closed, dropped, drain, stage, result, answer, work, job,
                   accepted, ran>>

BusNext ==
    \/ \E j \in Job : Enter(j) \/ Select(j) \/ Receive(j) \/ GiveUp(j)
    \/ \E w \in Worker : Take(w) \/ Run(w) \/ Reply(w) \/ Exit(w)
    \/ BeginClose \/ CloseChannel \/ Drained \/ DrainTimesOut
    \/ \E jobs \in SUBSET Job : Cancel(jobs)

BusSpec == BusInit /\ [][BusNext]_busVars

-----------------------------------------------------------------------------
(* Properties.                                                              *)

\* Nobody sends on the closed channel: the flag is read and the send done under
\* one read lock, and Close writes both under the write lock.
NoPanic == \A j \in Job : stage[j] # "panic"

OnChannel == {queue[i] : i \in DOMAIN queue}

SentOnce == \A i, k \in DOMAIN queue : queue[i] = queue[k] => i = k

InHand == {job[w] : w \in {v \in Worker : work[v] = "busy"}}

HaveRun == {j \in Job : ran[j] # ""}

\* A job that was accepted is in one place, once: on the channel, or in the hands
\* of one worker, or its handlers have run; no other job ever runs; and when
\* Close reports a drained bus, all accepted jobs have run.
JobsAccounted ==
    /\ accepted = OnChannel \cup InHand \cup HaveRun
    /\ OnChannel \cap InHand = {}
    /\ (OnChannel \cup InHand) \cap HaveRun = {}
    /\ SentOnce
    /\ \A v, w \in Worker : job[v] = job[w] /\ job[v] # NoJob => v = w
    /\ drain = "drained" => accepted \subseteq HaveRun

\* What a publisher is told is what became of its own job: a verdict is that of
\* its handlers, and a job refused for lack of room or a closed bus never runs.
AnswersTrue ==
    \A j \in Job :
        /\ answer[j] \in {"ok", "err"} => ran[j] = answer[j]
        /\ answer[j] \in {"closed", "saturated"} => j \notin accepted

-----------------------------------------------------------------------------
(* The inductive invariant behind these properties.                         *)

\* Close shuts the channel while nobody is between the flag and the send.
Locked ==
    /\ closed <=> drain \in {"wait", "drained", "timeout"}
    /\ closed => \A j \in Job : stage[j] # "select"

\* A worker has a job from taking it to reporting it, and goes when nothing is
\* left for it.
Employed ==
    \A w \in Worker :
        /\ work[w] \in {"busy", "reply"} <=> job[w] # NoJob
        /\ work[w] = "reply" => ran[job[w]] # ""
        /\ work[w] = "gone" => closed /\ queue = <<>>

\* The calls know whether their job was accepted; its verdict is on its way, in
\* the result channel, or returned.
Told ==
    \A j \in Job :
        /\ stage[j] \in {"idle", "select"} => j \notin accepted
        /\ answer[j] # "" => stage[j] = "done"
        /\ result[j] # "" => result[j] = ran[j]

Emptied == drain = "drained" => \A w \in Worker : work[w] = "gone"

BusIInv ==
    /\ TypeOK
    /\ NoPanic
    /\ Locked
    /\ Employed
    /\ JobsAccounted
    /\ Told
    /\ AnswersTrue
    /\ Emptied
=============================================================================
