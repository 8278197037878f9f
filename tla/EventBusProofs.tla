--------------------------- MODULE EventBusProofs ---------------------------
(***************************************************************************)
(* What the bus promises whoever uses it, for any jobs, workers and        *)
(* capacity.                                                               *)
(***************************************************************************)
EXTENDS EventBus, SequenceTheorems, TLAPS

-----------------------------------------------------------------------------
(* The channel.                                                             *)

\* A job sent is on the channel with those that were, once.
LEMMA Sent ==
    ASSUME ChannelOK, SentOnce, Room, NEW j \in Job, j \notin OnChannel,
           queue' = Append(queue, j)
    PROVE  ChannelOK' /\ SentOnce' /\ OnChannel' = OnChannel \cup {j}
<1> DEFINE n == Len(queue)
<1>1. queue \in Seq(Job) /\ n \in Nat /\ DOMAIN queue = 1 .. n
  BY LenProperties DEF ChannelOK
<1>2. /\ queue' \in Seq(Job)
      /\ Len(queue') = n + 1
      /\ \A i \in 1 .. n : queue'[i] = queue[i]
      /\ queue'[n + 1] = j
  BY <1>1, AppendProperties
<1>3. DOMAIN queue' = 1 .. n + 1
  BY <1>2, LenProperties
<1>4. DOMAIN queue' = DOMAIN queue \cup {n + 1} /\ n + 1 \notin DOMAIN queue
  BY <1>1, <1>3
<1>5. ChannelOK'
  BY <1>1, <1>2, CapacityAssumption DEF ChannelOK, Room
<1>6. OnChannel' = OnChannel \cup {j}
  BY <1>1, <1>2, <1>4 DEF OnChannel
<1>7. ASSUME NEW i \in DOMAIN queue', NEW k \in DOMAIN queue', queue'[i] = queue'[k]
      PROVE  i = k
  <2>1. \A m \in DOMAIN queue : queue'[m] \in OnChannel /\ queue'[m] = queue[m]
    BY <1>1, <1>2 DEF OnChannel
  <2>2. QED
    BY <2>1, <1>2, <1>4, <1>7 DEF SentOnce
<1>8. QED
  BY <1>5, <1>6, <1>7 DEF SentOnce

\* A job taken was on the channel and no longer is.
LEMMA Taken ==
    ASSUME ChannelOK, SentOnce, queue # <<>>, queue' = Tail(queue)
    PROVE  /\ ChannelOK' /\ SentOnce'
           /\ Head(queue) \in OnChannel
           /\ OnChannel' = OnChannel \ {Head(queue)}
<1> DEFINE n == Len(queue)
<1>1. queue \in Seq(Job) /\ n \in Nat \ {0} /\ DOMAIN queue = 1 .. n
  BY LenProperties, EmptySeq DEF ChannelOK
<1>2. /\ queue' \in Seq(Job)
      /\ Len(queue') = n - 1
      /\ \A i \in 1 .. n - 1 : queue'[i] = queue[i + 1]
  BY <1>1, HeadTailProperties
<1>3. DOMAIN queue' = 1 .. n - 1
  BY <1>2, LenProperties
<1>4. Head(queue) = queue[1] /\ 1 \in DOMAIN queue
  BY <1>1
<1>5. ChannelOK'
  BY <1>1, <1>2, CapacityAssumption DEF ChannelOK
<1>6. \A i \in DOMAIN queue' : i + 1 \in DOMAIN queue /\ i + 1 # 1
                               /\ queue'[i] = queue[i + 1] /\ i \in Nat
  BY <1>1, <1>2, <1>3
<1>7. \A i \in DOMAIN queue : i = 1 \/ (i - 1 \in DOMAIN queue'
                                        /\ queue'[i - 1] = queue[i])
  BY <1>1, <1>2, <1>3
<1>8. OnChannel' \subseteq OnChannel \ {Head(queue)}
  BY <1>4, <1>6 DEF OnChannel, SentOnce
<1>9. OnChannel \ {Head(queue)} \subseteq OnChannel'
  BY <1>4, <1>7 DEF OnChannel
<1>10. SentOnce'
  <2> SUFFICES ASSUME NEW i \in DOMAIN queue', NEW k \in DOMAIN queue',
                      queue'[i] = queue'[k]
               PROVE  i = k
    BY DEF SentOnce
  <2>1. i + 1 = k + 1
    BY <1>6 DEF SentOnce
  <2>2. QED
    BY <2>1, <1>6
<1>11. Head(queue) \in OnChannel
  BY <1>4 DEF OnChannel
<1>12. QED
  BY <1>5, <1>8, <1>9, <1>10, <1>11

\* What is on the channel is a job; nothing is on an empty one.
LEMMA Channel == ChannelOK => OnChannel \subseteq Job /\ (queue = <<>> => OnChannel = {})
<1>1. ChannelOK => \A i \in DOMAIN queue : queue[i] \in Job
  BY ElementOfSeq, LenProperties DEF ChannelOK
<1>2. queue = <<>> => DOMAIN queue = {}
  OBVIOUS
<1>3. QED
  BY <1>1, <1>2 DEF OnChannel

-----------------------------------------------------------------------------
(* Type correctness.                                                        *)

LEMMA BusInitial == BusInit => BusIInv
<1> SUFFICES ASSUME BusInit PROVE BusIInv
  OBVIOUS
<1>1. queue = <<>> /\ queue \in Seq(Job) /\ Len(queue) = 0 /\ DOMAIN queue = {}
  <2>1. <<>> \in Seq(Job) /\ Len(<<>>) = 0 /\ DOMAIN <<>> = {}
    OBVIOUS
  <2>2. QED
    BY <2>1 DEF BusInit
<1>2. ChannelOK /\ OnChannel = {} /\ SentOnce
  BY <1>1, CapacityAssumption DEF ChannelOK, OnChannel, SentOnce
<1>3. TypeOK
  <2>1. /\ stage \in [Job -> Stage] /\ answer \in [Job -> Verdict]
        /\ result \in [Job -> Outcome] /\ ran \in [Job -> Outcome]
    BY DEF BusInit, Stage, Verdict, Outcome
  <2>2. /\ work \in [Worker -> {"idle", "busy", "reply", "gone"}]
        /\ job \in [Worker -> Job \cup {NoJob}]
    BY DEF BusInit
  <2>3. QED
    BY <1>2, <2>1, <2>2 DEF BusInit, TypeOK
<1>4. JobsAccounted
  BY <1>2, JobAssumption DEF BusInit, JobsAccounted, InHand, HaveRun
<1>5. NoPanic /\ Locked /\ Employed /\ Told /\ AnswersTrue /\ Emptied
  BY DEF BusInit, NoPanic, Locked, Employed, Told, AnswersTrue, Emptied
<1>6. QED
  BY <1>3, <1>4, <1>5 DEF BusIInv

\* A job that is about to be sent was never on the channel.
LEMMA Fresh ==
    BusIInv => \A j \in Job : stage[j] = "select" => j \notin accepted /\ j \notin OnChannel
BY DEF BusIInv, Told, JobsAccounted

\* The channel: only a send and a taking change it.
LEMMA ChannelSteps ==
    ASSUME BusIInv, [BusNext]_busVars
    PROVE  \/ UNCHANGED queue
           \/ \E j \in Job : stage[j] = "select" /\ Room /\ ~closed
                              /\ queue' = Append(queue, j)
           \/ \E w \in Worker : Take(w)
<1> USE DEF BusIInv
<1>1. ASSUME NEW j \in Job, Enter(j) \/ Select(j) \/ Receive(j) \/ GiveUp(j)
      PROVE  UNCHANGED queue \/ (stage[j] = "select" /\ Room /\ ~closed
                                 /\ queue' = Append(queue, j))
  BY <1>1 DEF Enter, Select, Send, Receive, GiveUp
<1>2. ASSUME NEW w \in Worker, Run(w) \/ Reply(w) \/ Exit(w) PROVE UNCHANGED queue
  BY <1>2 DEF Run, Reply, Exit
<1>3. CASE BeginClose \/ CloseChannel \/ Drained \/ DrainTimesOut
  BY <1>3 DEF BeginClose, CloseChannel, Drained, DrainTimesOut, rest
<1>4. ASSUME NEW jobs \in SUBSET Job, Cancel(jobs) PROVE UNCHANGED queue
  BY <1>4 DEF Cancel
<1>5. CASE UNCHANGED busVars
  BY <1>5 DEF busVars
<1>6. QED
  BY <1>1, <1>2, <1>3, <1>4, <1>5 DEF BusNext

LEMMA ChannelStep == BusIInv /\ [BusNext]_busVars => ChannelOK' /\ SentOnce'
<1> SUFFICES ASSUME BusIInv, [BusNext]_busVars PROVE ChannelOK' /\ SentOnce'
  OBVIOUS
<1>1. ChannelOK /\ SentOnce
  BY DEF BusIInv, TypeOK, JobsAccounted
<1>2. CASE UNCHANGED queue
  BY <1>1, <1>2 DEF ChannelOK, SentOnce
<1>3. ASSUME NEW j \in Job, stage[j] = "select" /\ Room, queue' = Append(queue, j)
      PROVE  ChannelOK' /\ SentOnce'
  BY <1>1, <1>3, Fresh, Sent
<1>4. ASSUME NEW w \in Worker, Take(w) PROVE ChannelOK' /\ SentOnce'
  BY <1>1, <1>4, Taken DEF Take
<1>5. QED
  BY <1>2, <1>3, <1>4, ChannelSteps

\* A call that returns.
LEMMA Returned ==
    ASSUME TypeOK, NEW j \in Job, NEW what \in Verdict, Return(j, what)
    PROVE  stage' \in [Job -> Stage] /\ answer' \in [Job -> Verdict]
BY DEF TypeOK, Return, Stage

LEMMA BusTypeStep == BusIInv /\ [BusNext]_busVars => TypeOK'
<1> SUFFICES ASSUME BusIInv, [BusNext]_busVars PROVE TypeOK'
  OBVIOUS
<1>0. TypeOK /\ ChannelOK'
  BY ChannelStep DEF BusIInv
<1>1. ASSUME NEW j \in Job, Enter(j) PROVE TypeOK'
  <2>1. stage' \in [Job -> Stage] /\ answer' \in [Job -> Verdict]
    BY <1>0, <1>1, Returned DEF Enter, TypeOK, Stage, Verdict
  <2>2. QED
    BY <1>0, <1>1, <2>1 DEF Enter, TypeOK
<1>2. ASSUME NEW j \in Job, Select(j) PROVE TypeOK'
  <2>1. CASE Send(j)
    <3>1. stage' \in [Job -> Stage] /\ answer' \in [Job -> Verdict]
      BY <1>0, <2>1, Returned DEF Send, TypeOK, Stage, Verdict
    <3>2. accepted' \subseteq Job /\ dropped' \in Nat
      BY <1>0, <2>1 DEF Send, TypeOK
    <3>3. QED
      BY <1>0, <1>2, <3>1, <3>2 DEF Select, TypeOK
  <2>2. CASE ~Send(j)
    <3>1. /\ Return(j, "cancelled") \/ Return(j, "saturated")
          /\ accepted' = accepted /\ dropped' \in Nat
      BY <1>0, <1>2, <2>2 DEF Select, TypeOK
    <3>2. stage' \in [Job -> Stage] /\ answer' \in [Job -> Verdict]
      BY <1>0, <3>1, Returned DEF Verdict
    <3>3. QED
      BY <1>0, <1>2, <3>1, <3>2 DEF Select, TypeOK
  <2>3. QED
    BY <2>1, <2>2
<1>3. ASSUME NEW j \in Job, Receive(j) \/ GiveUp(j) PROVE TypeOK'
  <2>1. Return(j, result[j]) \/ Return(j, "cancelled")
    BY <1>3 DEF Receive, GiveUp
  <2>2. result[j] \in Verdict /\ "cancelled" \in Verdict
    BY <1>0 DEF TypeOK, Outcome, Verdict
  <2>3. stage' \in [Job -> Stage] /\ answer' \in [Job -> Verdict]
    BY <1>0, <2>1, <2>2, Returned
  <2>4. result' \in [Job -> Outcome]
    BY <1>0, <1>3 DEF Receive, GiveUp, TypeOK, Outcome
  <2>5. QED
    BY <1>0, <1>3, <2>3, <2>4 DEF Receive, GiveUp, TypeOK
<1>4. ASSUME NEW w \in Worker, Take(w) PROVE TypeOK'
  <2>1. Head(queue) \in Job
    BY <1>0, <1>4, Taken, Channel DEF Take, BusIInv, JobsAccounted, TypeOK
  <2>2. QED
    BY <1>0, <1>4, <2>1 DEF Take, TypeOK
<1>5. ASSUME NEW w \in Worker, Run(w) PROVE TypeOK'
  <2>1. PICK how \in {"ok", "err"} : ran' = [ran EXCEPT ![job[w]] = how]
    BY <1>5 DEF Run
  <2>2. ran' \in [Job -> Outcome]
    BY <1>0, <2>1 DEF TypeOK, Outcome
  <2>3. QED
    BY <1>0, <1>5, <2>2 DEF Run, TypeOK
<1>6. ASSUME NEW w \in Worker, Reply(w) PROVE TypeOK'
  <2>1. result' \in [Job -> Outcome]
    <3>1. CASE job[w] \in Waited
      <4>1. job[w] \in Job /\ ran[job[w]] \in Outcome
        BY <1>0, <3>1, JobAssumption DEF TypeOK
      <4>2. result' = [result EXCEPT ![job[w]] = ran[job[w]]]
        BY <1>6, <3>1 DEF Reply, Reported
      <4>3. QED
        BY <1>0, <4>1, <4>2 DEF TypeOK
    <3>2. CASE job[w] \notin Waited
      BY <1>0, <1>6, <3>2 DEF Reply, TypeOK
    <3>3. QED
      BY <3>1, <3>2
  <2>2. QED
    BY <1>0, <1>6, <2>1 DEF Reply, TypeOK
<1>7. ASSUME NEW w \in Worker, Exit(w) PROVE TypeOK'
  BY <1>0, <1>7 DEF Exit, TypeOK
<1>8. CASE BeginClose \/ CloseChannel \/ Drained \/ DrainTimesOut
  BY <1>0, <1>8 DEF BeginClose, CloseChannel, Drained, DrainTimesOut, rest, TypeOK
<1>9. ASSUME NEW jobs \in SUBSET Job, Cancel(jobs) PROVE TypeOK'
  BY <1>0, <1>9 DEF Cancel, TypeOK
<1>10. CASE UNCHANGED busVars
  BY <1>0, <1>10 DEF busVars, TypeOK
<1>11. QED
  BY <1>1, <1>2, <1>3, <1>4, <1>5, <1>6, <1>7, <1>8, <1>9, <1>10 DEF BusNext

-----------------------------------------------------------------------------
(* The lock, the workers, the calls.                                        *)

LEMMA LockStep == BusIInv /\ [BusNext]_busVars => Locked' /\ NoPanic'
<1> SUFFICES ASSUME BusIInv, [BusNext]_busVars PROVE Locked' /\ NoPanic'
  OBVIOUS
<1>0. TypeOK /\ Locked /\ NoPanic
  BY DEF BusIInv
<1>1. ASSUME NEW j \in Job, Enter(j) PROVE Locked' /\ NoPanic'
  BY <1>0, <1>1 DEF Enter, Return, TypeOK, Locked, NoPanic
<1>2. ASSUME NEW j \in Job, Select(j) PROVE Locked' /\ NoPanic'
  <2>1. ~closed
    BY <1>0, <1>2 DEF Select, Locked
  <2>2. /\ closed' = closed /\ drain' = drain
        /\ \/ stage' = [stage EXCEPT ![j] = "wait"]
           \/ stage' = [stage EXCEPT ![j] = "done"]
    BY <1>2, <2>1 DEF Select, Send, Return
  <2>3. QED
    BY <1>0, <2>1, <2>2 DEF TypeOK, Locked, NoPanic
<1>3. ASSUME NEW j \in Job, Receive(j) \/ GiveUp(j) PROVE Locked' /\ NoPanic'
  <2>1. UNCHANGED <<closed, drain>> /\ stage' = [stage EXCEPT ![j] = "done"]
    BY <1>3 DEF Receive, GiveUp, Return
  <2>2. QED
    BY <1>0, <2>1 DEF TypeOK, Locked, NoPanic
<1>4. ASSUME NEW w \in Worker, Take(w) \/ Run(w) \/ Reply(w) \/ Exit(w)
      PROVE  Locked' /\ NoPanic'
  <2>1. UNCHANGED <<closed, drain, stage>>
    BY <1>4 DEF Take, Run, Reply, Exit
  <2>2. QED
    BY <1>0, <2>1 DEF Locked, NoPanic
<1>5. CASE BeginClose \/ CloseChannel \/ Drained \/ DrainTimesOut
  BY <1>0, <1>5
  DEF BeginClose, CloseChannel, Drained, DrainTimesOut, rest, TypeOK, Locked, NoPanic
<1>6. ASSUME NEW jobs \in SUBSET Job, Cancel(jobs) PROVE Locked' /\ NoPanic'
  BY <1>0, <1>6 DEF Cancel, Locked, NoPanic
<1>7. CASE UNCHANGED busVars
  BY <1>0, <1>7 DEF busVars, Locked, NoPanic
<1>8. QED
  BY <1>1, <1>2, <1>3, <1>4, <1>5, <1>6, <1>7 DEF BusNext

\* A worker that has gone left an empty channel, and nothing is sent on a closed
\* one: so it stays empty.
LEMMA WorkStep == BusIInv /\ [BusNext]_busVars => Employed' /\ Emptied'
<1> SUFFICES ASSUME BusIInv, [BusNext]_busVars PROVE Employed' /\ Emptied'
  OBVIOUS
<1>0. TypeOK /\ Locked /\ Employed /\ Emptied /\ NoJob \notin Job
  BY JobAssumption DEF BusIInv
<1>1. ASSUME NEW j \in Job, Enter(j) \/ Receive(j) \/ GiveUp(j)
      PROVE  Employed' /\ Emptied'
  <2>1. UNCHANGED <<closed, queue, drain, work, job, ran>>
    BY <1>1 DEF Enter, Receive, GiveUp
  <2>2. QED
    BY <1>0, <2>1 DEF Employed, Emptied
<1>2. ASSUME NEW j \in Job, Select(j) PROVE Employed' /\ Emptied'
  <2>1. ~closed /\ drain # "drained"
    BY <1>0, <1>2 DEF Select, Locked
  <2>2. UNCHANGED <<closed, drain, work, job, ran>>
    BY <1>2 DEF Select
  <2>3. QED
    BY <1>0, <2>1, <2>2 DEF Employed, Emptied
<1>3. ASSUME NEW w \in Worker, Take(w) PROVE Employed' /\ Emptied'
  <2>1. Head(queue) \in Job
    BY <1>0, <1>3, Taken, Channel DEF Take, BusIInv, JobsAccounted, TypeOK
  <2>2. \A v \in Worker : work[v] # "gone"
    BY <1>0, <1>3 DEF Take, Employed
  <2>3. /\ closed' = closed /\ drain' = drain /\ ran' = ran
        /\ \A v \in Worker \ {w} : work'[v] = work[v] /\ job'[v] = job[v]
        /\ work'[w] = "busy" /\ job'[w] = Head(queue)
    BY <1>0, <1>3 DEF Take, TypeOK
  <2>4. QED
    BY <1>0, <2>1, <2>2, <2>3 DEF Employed, Emptied
<1>4. ASSUME NEW w \in Worker, Run(w) PROVE Employed' /\ Emptied'
  <2>1. PICK how \in {"ok", "err"} : ran' = [ran EXCEPT ![job[w]] = how]
    BY <1>4 DEF Run
  <2>2. job[w] \in Job
    BY <1>0, <1>4 DEF Run, Employed, TypeOK
  <2>3. /\ UNCHANGED <<closed, drain, queue, job>>
        /\ \A v \in Worker \ {w} : work'[v] = work[v]
        /\ work[w] = "busy" /\ work'[w] = "reply"
    BY <1>0, <1>4 DEF Run, TypeOK
  <2>4. /\ ran'[job[w]] # ""
        /\ \A j \in Job : ran[j] # "" => ran'[j] # ""
    BY <1>0, <2>1, <2>2 DEF TypeOK
  <2>5. \A v \in Worker : job[v] # NoJob => job[v] \in Job
    BY <1>0 DEF TypeOK
  <2>6. QED
    BY <1>0, <2>3, <2>4, <2>5 DEF Employed, Emptied
<1>5. ASSUME NEW w \in Worker, Reply(w) \/ Exit(w) PROVE Employed' /\ Emptied'
  <2>1. /\ UNCHANGED <<closed, drain, queue, ran>>
        /\ \A v \in Worker \ {w} : work'[v] = work[v] /\ job'[v] = job[v]
        /\ work[w] # "gone" /\ job'[w] = NoJob
        /\ work'[w] = "idle" \/ (work'[w] = "gone" /\ closed /\ queue = <<>>)
    BY <1>0, <1>5 DEF Reply, Exit, TypeOK, Employed
  <2>2. QED
    BY <1>0, <2>1 DEF Employed, Emptied
<1>6. CASE BeginClose \/ CloseChannel \/ Drained \/ DrainTimesOut
  <2>1. /\ UNCHANGED <<queue, work, job, ran>>
        /\ closed => closed'
        /\ drain' = "drained" => \A w \in Worker : work[w] = "gone"
    BY <1>0, <1>6 DEF BeginClose, CloseChannel, Drained, DrainTimesOut, rest
  <2>2. QED
    BY <1>0, <2>1 DEF Employed, Emptied
<1>7. ASSUME NEW jobs \in SUBSET Job, Cancel(jobs) PROVE Employed' /\ Emptied'
  BY <1>0, <1>7 DEF Cancel, Employed, Emptied
<1>8. CASE UNCHANGED busVars
  BY <1>0, <1>8 DEF busVars, Employed, Emptied
<1>9. QED
  BY <1>1, <1>2, <1>3, <1>4, <1>5, <1>6, <1>7, <1>8 DEF BusNext

\* The calls.
LEMMA ToldStep == BusIInv /\ [BusNext]_busVars => Told' /\ AnswersTrue'
<1> SUFFICES ASSUME BusIInv, [BusNext]_busVars PROVE Told' /\ AnswersTrue'
  OBVIOUS
<1>0. TypeOK /\ Locked /\ Employed /\ Told /\ AnswersTrue
  BY DEF BusIInv
<1>1. ASSUME NEW j \in Job, NEW what \in Verdict, Return(j, what),
             stage[j] # "done",
             UNCHANGED <<accepted, ran>>,
             what \in {"ok", "err"} => ran[j] = what,
             what \in {"closed", "saturated"} => j \notin accepted,
             \A k \in Job : result'[k] = result[k] \/ result'[k] = ""
      PROVE  Told' /\ AnswersTrue'
  <2>1. /\ stage'[j] = "done" /\ answer'[j] = what
        /\ \A k \in Job \ {j} : stage'[k] = stage[k] /\ answer'[k] = answer[k]
    BY <1>0, <1>1 DEF Return, TypeOK
  <2>2. Told'
    BY <1>0, <1>1, <2>1 DEF Told
  <2>3. AnswersTrue'
    BY <1>0, <1>1, <2>1 DEF AnswersTrue
  <2>4. QED
    BY <2>2, <2>3
<1>2. ASSUME NEW j \in Job, Enter(j) PROVE Told' /\ AnswersTrue'
  <2>1. CASE closed
    <3>1. "closed" \in Verdict /\ Return(j, "closed") /\ stage[j] = "idle"
      BY <1>2, <2>1 DEF Enter, Verdict
    <3>2. UNCHANGED <<accepted, ran, result>>
      BY <1>2 DEF Enter
    <3>3. QED
      BY <1>0, <1>1, <3>1, <3>2 DEF Told
  <2>2. CASE ~closed
    <3>1. /\ UNCHANGED <<answer, accepted, ran, result>>
          /\ stage[j] = "idle" /\ stage' = [stage EXCEPT ![j] = "select"]
      BY <1>2, <2>2 DEF Enter
    <3>2. QED
      BY <1>0, <3>1 DEF TypeOK, Told, AnswersTrue
  <2>3. QED
    BY <2>1, <2>2
<1>3. ASSUME NEW j \in Job, Select(j) PROVE Told' /\ AnswersTrue'
  <2>0. stage[j] = "select" /\ ~closed /\ UNCHANGED <<ran, result>>
    BY <1>0, <1>3 DEF Select, Locked
  <2>1. CASE Send(j) /\ j \in Waited
    <3>1. /\ UNCHANGED answer /\ accepted' = accepted \cup {j}
          /\ stage' = [stage EXCEPT ![j] = "wait"]
      BY <2>0, <2>1 DEF Send
    <3>2. answer[j] = ""
      BY <1>0, <2>0 DEF Told
    <3>3. QED
      BY <1>0, <2>0, <3>1, <3>2 DEF TypeOK, Told, AnswersTrue
  <2>2. CASE Send(j) /\ j \notin Waited
    <3>1. /\ stage' = [stage EXCEPT ![j] = "done"]
          /\ answer' = [answer EXCEPT ![j] = "accepted"]
          /\ accepted' = accepted \cup {j}
      BY <2>0, <2>2 DEF Send, Return
    <3>2. /\ stage'[j] = "done" /\ answer'[j] = "accepted"
          /\ \A k \in Job \ {j} : /\ stage'[k] = stage[k] /\ answer'[k] = answer[k]
                                  /\ k \in accepted' <=> k \in accepted
      BY <1>0, <3>1 DEF TypeOK
    <3>3. QED
      BY <1>0, <2>0, <3>2 DEF Told, AnswersTrue
  <2>3. CASE ~Send(j)
    <3>1. /\ Return(j, "cancelled") \/ Return(j, "saturated")
          /\ UNCHANGED accepted
          /\ "cancelled" \in Verdict /\ "saturated" \in Verdict
      BY <1>3, <2>3 DEF Select, Verdict
    <3>2. j \notin accepted
      BY <1>0, <2>0 DEF Told
    <3>3. QED
      BY <1>1, <2>0, <3>1, <3>2
  <2>4. QED
    BY <2>1, <2>2, <2>3
<1>4. ASSUME NEW j \in Job, Receive(j) PROVE Told' /\ AnswersTrue'
  <2>1. /\ Return(j, result[j]) /\ stage[j] = "wait"
        /\ UNCHANGED <<accepted, ran>>
    BY <1>4 DEF Receive
  <2>2. result[j] \in {"ok", "err"} /\ result[j] = ran[j]
    BY <1>0, <1>4 DEF Receive, TypeOK, Outcome, Told
  <2>3. \A k \in Job : result'[k] = result[k] \/ result'[k] = ""
    BY <1>0, <1>4 DEF Receive, TypeOK
  <2>4. result[j] \in Verdict /\ result[j] \notin {"closed", "saturated"}
    BY <2>2 DEF Verdict
  <2>5. QED
    BY <1>1, <2>1, <2>2, <2>3, <2>4
<1>5. ASSUME NEW j \in Job, GiveUp(j) PROVE Told' /\ AnswersTrue'
  <2>1. /\ Return(j, "cancelled") /\ stage[j] = "wait" /\ "cancelled" \in Verdict
        /\ UNCHANGED <<accepted, ran, result>>
    BY <1>5 DEF GiveUp, Verdict
  <2>2. QED
    BY <1>1, <2>1
<1>6. ASSUME NEW w \in Worker, Run(w) PROVE Told' /\ AnswersTrue'
  <2>1. PICK how \in {"ok", "err"} : ran' = [ran EXCEPT ![job[w]] = how]
    BY <1>6 DEF Run
  <2>2. job[w] \in InHand /\ job[w] \in Job
    BY <1>0, <1>6 DEF Run, Employed, TypeOK, InHand
  <2>3. ran[job[w]] = ""
    BY <2>2 DEF BusIInv, JobsAccounted, HaveRun
  <2>4. UNCHANGED <<stage, answer, accepted, result>>
    BY <1>6 DEF Run
  <2>5. \A k \in Job : ran'[k] = ran[k] \/ (k = job[w] /\ ran[k] = "")
    BY <1>0, <2>1, <2>3 DEF TypeOK
  <2>6. Told'
    BY <1>0, <2>4, <2>5 DEF Told
  <2>7. AnswersTrue'
    BY <1>0, <2>4, <2>5 DEF AnswersTrue
  <2>8. QED
    BY <2>6, <2>7
<1>7. ASSUME NEW w \in Worker, Reply(w) PROVE Told' /\ AnswersTrue'
  <2>1. UNCHANGED <<stage, answer, accepted, ran>>
    BY <1>7 DEF Reply
  <2>2. \A k \in Job : result'[k] = result[k] \/ result'[k] = ran[k]
    BY <1>0, <1>7 DEF Reply, Reported, TypeOK
  <2>3. QED
    BY <1>0, <2>1, <2>2 DEF Told, AnswersTrue
<1>8. ASSUME NEW w \in Worker, Take(w) \/ Exit(w) PROVE Told' /\ AnswersTrue'
  <2>1. UNCHANGED <<stage, answer, accepted, ran, result>>
    BY <1>8 DEF Take, Exit
  <2>2. QED
    BY <1>0, <2>1 DEF Told, AnswersTrue
<1>9. ASSUME NEW jobs \in SUBSET Job,
             BeginClose \/ CloseChannel \/ Drained \/ DrainTimesOut \/ Cancel(jobs)
      PROVE  Told' /\ AnswersTrue'
  <2>1. UNCHANGED <<stage, answer, accepted, ran, result>>
    BY <1>9 DEF BeginClose, CloseChannel, Drained, DrainTimesOut, rest, Cancel
  <2>2. QED
    BY <1>0, <2>1 DEF Told, AnswersTrue
<1>10. CASE UNCHANGED busVars
  BY <1>0, <1>10 DEF busVars, Told, AnswersTrue
<1>11. QED
  BY <1>2, <1>3, <1>4, <1>5, <1>6, <1>7, <1>8, <1>9, <1>10 DEF BusNext

-----------------------------------------------------------------------------
(* Where the jobs are.                                                      *)

OneEach == \A v, w \in Worker : job[v] = job[w] /\ job[v] # NoJob => v = w

\* A step that moves no job and finishes no drain.
LEMMA NothingMoved ==
    ASSUME BusIInv, SentOnce', UNCHANGED <<queue, accepted, ran>>,
           InHand' = InHand, OneEach',
           drain' = "drained" => drain = "drained"
    PROVE  JobsAccounted'
<1>1. OnChannel' = OnChannel /\ HaveRun' = HaveRun
  BY DEF OnChannel, HaveRun
<1>2. QED
  BY <1>1 DEF BusIInv, JobsAccounted, OneEach

LEMMA JobsStep == BusIInv /\ [BusNext]_busVars => JobsAccounted'
<1> SUFFICES ASSUME BusIInv, [BusNext]_busVars PROVE JobsAccounted'
  OBVIOUS
<1>0. /\ TypeOK /\ Locked /\ Employed /\ JobsAccounted /\ Told /\ Emptied
      /\ OneEach /\ SentOnce' /\ NoJob \notin Job
  BY ChannelStep, JobAssumption DEF BusIInv, JobsAccounted, OneEach
<1>1. ASSUME NEW j \in Job, Select(j), queue' = Append(queue, j), Room, ~closed
      PROVE  JobsAccounted'
  <2>1. accepted' = accepted \cup {j} /\ UNCHANGED <<drain, work, job, ran>>
    <3>1. Len(queue') = Len(queue) + 1 /\ Len(queue) \in Nat
      <4>1. queue \in Seq(Job)
        BY <1>0 DEF TypeOK, ChannelOK
      <4>2. QED
        BY <1>1, <4>1, AppendProperties, LenProperties
    <3>2. queue' # queue
      BY <3>1
    <3>3. Send(j)
      BY <1>1, <3>2 DEF Select
    <3>4. QED
      BY <1>1, <3>3 DEF Select, Send
  <2>2. j \notin accepted /\ j \notin OnChannel
    BY <1>1, Fresh DEF Select
  <2>3. OnChannel' = OnChannel \cup {j}
    BY <1>0, <1>1, <2>2, Sent DEF TypeOK, JobsAccounted
  <2>4. InHand' = InHand /\ HaveRun' = HaveRun
    BY <2>1 DEF InHand, HaveRun
  <2>5. drain' # "drained"
    BY <1>0, <1>1, <2>1 DEF Locked
  <2>6. OneEach'
    BY <1>0, <2>1 DEF OneEach
  <2>7. QED
    BY <1>0, <2>1, <2>2, <2>3, <2>4, <2>5, <2>6 DEF JobsAccounted, OneEach
<1>2. ASSUME NEW w \in Worker, Take(w) PROVE JobsAccounted'
  <2> DEFINE j == Head(queue)
  <2>1. /\ work[w] = "idle" /\ UNCHANGED <<drain, accepted, ran>>
        /\ work' = [work EXCEPT ![w] = "busy"] /\ job' = [job EXCEPT ![w] = j]
    BY <1>2 DEF Take
  <2>2. j \in OnChannel /\ OnChannel' = OnChannel \ {j}
    BY <1>0, <1>2, Taken DEF Take, TypeOK, JobsAccounted
  <2>3. j \in Job /\ HaveRun' = HaveRun
    BY <1>0, <2>1, <2>2, Channel DEF TypeOK, HaveRun
  <2>4. InHand' = InHand \cup {j}
    BY <1>0, <2>1 DEF InHand, TypeOK
  <2>5. \A v \in Worker : job[v] # j
    <3> SUFFICES ASSUME NEW v \in Worker, job[v] = j PROVE FALSE
      OBVIOUS
    <3>1. work[v] \in {"busy", "reply"}
      BY <1>0, <2>3 DEF Employed
    <3>2. j \in InHand \cup HaveRun
      BY <1>0, <2>3, <3>1 DEF Employed, InHand, HaveRun
    <3>3. QED
      BY <1>0, <2>2, <3>2 DEF JobsAccounted
  <2>6. OneEach'
    BY <1>0, <2>1, <2>5 DEF OneEach, TypeOK
  <2>7. drain' # "drained"
    BY <1>0, <2>1 DEF Emptied
  <2>8. QED
    BY <1>0, <2>1, <2>2, <2>3, <2>4, <2>6, <2>7 DEF JobsAccounted, OneEach
<1>3. ASSUME NEW w \in Worker, Run(w) PROVE JobsAccounted'
  <2> DEFINE j == job[w]
  <2>1. /\ work[w] = "busy" /\ UNCHANGED <<queue, drain, accepted, job>>
        /\ work' = [work EXCEPT ![w] = "reply"]
    BY <1>3 DEF Run
  <2>2. PICK how \in {"ok", "err"} : ran' = [ran EXCEPT ![j] = how]
    BY <1>3 DEF Run
  <2>3. j \in Job /\ j # NoJob /\ j \in InHand
    BY <1>0, <2>1 DEF Employed, TypeOK, InHand
  <2>4. HaveRun' = HaveRun \cup {j}
    BY <1>0, <2>2, <2>3 DEF TypeOK, HaveRun
  <2>5. InHand' = InHand \ {j}
    BY <1>0, <2>1, <2>3 DEF TypeOK, InHand, OneEach
  <2>6. OnChannel' = OnChannel /\ OneEach'
    BY <1>0, <2>1 DEF OnChannel, OneEach
  <2>7. drain' # "drained"
    BY <1>0, <2>1 DEF Emptied
  <2>8. QED
    BY <1>0, <2>1, <2>3, <2>4, <2>5, <2>6, <2>7 DEF JobsAccounted, OneEach
<1>4. ASSUME NEW w \in Worker, Reply(w) \/ Exit(w) PROVE JobsAccounted'
  <2>1. /\ UNCHANGED <<queue, drain, accepted, ran>>
        /\ work[w] # "busy" /\ work'[w] # "busy" /\ job'[w] = NoJob
        /\ \A v \in Worker \ {w} : work'[v] = work[v] /\ job'[v] = job[v]
    BY <1>0, <1>4 DEF Reply, Exit, TypeOK, Employed
  <2>2. InHand' = InHand
    BY <1>0, <2>1 DEF InHand
  <2>3. OneEach'
    BY <1>0, <2>1 DEF OneEach
  <2>4. QED
    BY <1>0, <2>1, <2>2, <2>3, NothingMoved
<1>5. CASE Drained
  <2>1. UNCHANGED <<queue, accepted, ran, work, job>>
    BY <1>5 DEF Drained, rest
  <2>2. OnChannel = {} /\ InHand = {}
    <3>1. \A w \in Worker : work[w] = "gone"
      BY <1>5 DEF Drained
    <3>2. queue = <<>>
      BY <1>0, <3>1, WorkerAssumption DEF Employed
    <3>3. QED
      BY <1>0, <3>1, <3>2, Channel DEF TypeOK, InHand
  <2>3. OnChannel' = OnChannel /\ InHand' = InHand /\ HaveRun' = HaveRun
    BY <2>1 DEF OnChannel, InHand, HaveRun
  <2>4. QED
    BY <1>0, <2>1, <2>2, <2>3 DEF JobsAccounted, SentOnce
<1>6. ASSUME UNCHANGED <<queue, accepted, ran, work, job>>,
             drain' = "drained" => drain = "drained"
      PROVE  JobsAccounted'
  <2>1. InHand' = InHand /\ OneEach'
    BY <1>0, <1>6 DEF InHand, OneEach
  <2>2. QED
    BY <1>0, <1>6, <2>1, NothingMoved
<1>7. ASSUME NEW j \in Job, Select(j) PROVE JobsAccounted'
  <2>1. CASE Send(j)
    BY <1>0, <1>1, <1>7, <2>1 DEF Select, Locked, Send
  <2>2. CASE ~Send(j)
    BY <1>6, <1>7, <2>2 DEF Select
  <2>3. QED
    BY <2>1, <2>2
<1>8. ASSUME NEW j \in Job, Enter(j) \/ Receive(j) \/ GiveUp(j) PROVE JobsAccounted'
  <2>1. UNCHANGED <<queue, accepted, ran, work, job, drain>>
    BY <1>8 DEF Enter, Receive, GiveUp
  <2>2. QED
    BY <1>6, <2>1
<1>9. ASSUME NEW jobs \in SUBSET Job, Cancel(jobs) PROVE JobsAccounted'
  BY <1>6, <1>9 DEF Cancel
<1>10. CASE BeginClose \/ CloseChannel \/ DrainTimesOut \/ UNCHANGED busVars
  BY <1>6, <1>10 DEF BeginClose, CloseChannel, DrainTimesOut, rest, busVars
<1>11. QED
  BY <1>2, <1>3, <1>4, <1>5, <1>7, <1>8, <1>9, <1>10 DEF BusNext

LEMMA BusStep == BusIInv /\ [BusNext]_busVars => BusIInv'
BY BusTypeStep, LockStep, WorkStep, ToldStep, JobsStep DEF BusIInv

\* What holds of the bus whoever uses it: no send panics, accepted jobs are in one
\* place, and the answers are true.
THEOREM BusCorrect == BusSpec => [](NoPanic /\ JobsAccounted /\ AnswersTrue)
<1>1. BusIInv => NoPanic /\ JobsAccounted /\ AnswersTrue
  BY DEF BusIInv
<1>2. QED
  BY BusInitial, BusStep, <1>1, PTL DEF BusSpec
=============================================================================
