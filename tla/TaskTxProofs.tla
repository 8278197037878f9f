---------------------------- MODULE TaskTxProofs ----------------------------
(***************************************************************************)
(* Proofs about TaskTx, for any number of calls, tasks and users: that     *)
(* every call is atomic and a deletion final, the audit log and the task   *)
(* log on either driver; on SQLite the chain of the audit log.             *)
(***************************************************************************)
EXTENDS TaskTx, TLAPS

-----------------------------------------------------------------------------
(* Type correctness.                                                        *)

\* What a statement makes of the task's row is a row again, or none.
LEMMA ChangedType ==
    ASSUME TypeOK, NEW c \in Call,
           op[c] = "create" \/ tasks[task[c]] # Absent
    PROVE  Changed(c) \in Maybe
<1> DEFINE row == tasks[task[c]]
<1>1. /\ to[c] \in User /\ c \in Call
      /\ op[c] \in Op /\ row \in Maybe
      /\ op[c] # "create" => row # Absent
  BY DEF TypeOK
<1>2. op[c] # "create" => row \in State
  BY <1>1 DEF Maybe
<1>3. /\ [text |-> c, assignee |-> Nobody] \in State
      /\ row \in State => /\ [row EXCEPT !.text = c] \in State
                           /\ [row EXCEPT !.assignee = to[c]] \in State
  BY <1>1 DEF State
<1>4. QED
  BY <1>1, <1>2, <1>3 DEF Changed, Maybe, Op

\* The log of a task stays a sequence of assignments.
LEMMA LoggedType ==
    ASSUME TypeOK, NEW c \in Call, pc[c] = "commit"
    PROVE  Logged(c) \in Seq([old: User \cup {Nobody}, new: User])
<1> DEFINE S == [old: User \cup {Nobody}, new: User]
           e == [old |-> old[c].assignee, new |-> to[c]]
<1>1. logs[task[c]] \in Seq(S)
  BY DEF TypeOK
<1>2. CASE op[c] = "assign"
  <2>1. old[c] \in State
    BY <1>2 DEF TypeOK, OldRead, Writing, Maybe
  <2>2. e \in S
    BY <2>1 DEF TypeOK, State
  <2>3. Logged(c) = Append(logs[task[c]], e)
    BY <1>2 DEF Logged
  <2> HIDE DEF S, e
  <2>4. Logged(c) \in Seq(S)
    BY <1>1, <2>2, <2>3
  <2>5. QED
    BY <2>4 DEF S
<1>3. CASE op[c] # "assign"
  <2>1. Logged(c) \in {<<>>, logs[task[c]]}
    BY <1>3 DEF Logged, TypeOK, Op
  <2> HIDE DEF S
  <2>2. <<>> \in Seq(S) /\ logs[task[c]] \in Seq(S)
    BY <1>1
  <2>3. Logged(c) \in Seq(S)
    BY <2>1, <2>2
  <2>4. QED
    BY <2>3 DEF S
<1>4. QED
  BY <1>2, <1>3

\* Every action keeps the types.
LEMMA TypeStep == TypeOK /\ [Next]_vars => TypeOK'
<1> SUFFICES ASSUME TypeOK, [Next]_vars PROVE TypeOK'
  OBVIOUS
<1> USE DEF store, input, local, Goto, Stage
<1>1. ASSUME NEW c \in Call, Begin(c) PROVE TypeOK'
  <2>1. OldRead'
    BY <1>1 DEF Begin, TypeOK, OldRead, Writing
  <2>2. pc' \in [Call -> Stage]
    BY <1>1 DEF Begin, TypeOK
  <2>3. QED
    BY <1>1, <2>1, <2>2 DEF Begin, TypeOK
<1>2. ASSUME NEW c \in Call, Find(c) PROVE TypeOK'
  <2>1. OldRead'
    BY <1>2 DEF Find, TypeOK, OldRead, Writing
  <2>2. QED
    BY <1>2, <2>1 DEF Find, TypeOK
<1>3. ASSUME NEW c \in Call, Write(c) PROVE TypeOK'
  <2>1. new' \in [Call -> Maybe]
    <3>1. CASE op[c] = "create" \/ tasks[task[c]] # Absent
      <4>1. Changed(c) \in Maybe
        BY <3>1, ChangedType
      <4>2. new' \in {new, [new EXCEPT ![c] = Changed(c)]}
        BY <1>3 DEF Write
      <4>3. QED
        BY <4>1, <4>2 DEF TypeOK
    <3>2. CASE ~(op[c] = "create" \/ tasks[task[c]] # Absent)
      <4>1. new' = new
        BY <1>3, <3>2 DEF Write
      <4>2. QED
        BY <4>1 DEF TypeOK
    <3>3. QED
      BY <3>1, <3>2
  <2>2. OldRead'
    BY <1>3 DEF Write, TypeOK, OldRead, Writing
  <2>3. QED
    BY <1>3, <2>1, <2>2 DEF Write, TypeOK
<1>4. ASSUME NEW c \in Call, PickHead(c) PROVE TypeOK'
  <2>1. head' \in [Call -> Nat]
    BY <1>4 DEF PickHead, Link, TypeOK, Row
  <2>2. OldRead'
    BY <1>4 DEF PickHead, TypeOK, OldRead, Writing
  <2>3. QED
    BY <1>4, <2>1, <2>2 DEF PickHead, TypeOK
<1>5. ASSUME NEW c \in Call, LockHead(c) PROVE TypeOK'
  <2>1. OldRead'
    BY <1>5 DEF LockHead, TypeOK, OldRead, Writing
  <2>2. QED
    BY <1>5, <2>1 DEF LockHead, TypeOK
<1>6. ASSUME NEW c \in Call, InsertAudit(c) PROVE TypeOK'
  <2>1. OldRead'
    BY <1>6 DEF InsertAudit, TypeOK, OldRead, Writing
  <2>2. /\ nextId' \in Nat \ {0} /\ entry' \in [Call -> Nat]
        /\ pc' \in [Call -> Stage]
    BY <1>6 DEF InsertAudit, TypeOK
  <2>3. QED
    BY <1>6, <2>1, <2>2 DEF InsertAudit, TypeOK
<1>7. ASSUME NEW c \in Call, Commit(c) PROVE TypeOK'
  <2>1. AuditRow(c) \in Row
    BY DEF AuditRow, Row, TypeOK
  <2>2. /\ tasks' \in [Task -> Maybe]
        /\ logs' \in [Task -> Seq([old: User \cup {Nobody}, new: User])]
    BY <1>7, LoggedType DEF Commit, TypeOK
  <2>3. queued' \in [Task -> Nat]
    BY <1>7 DEF Commit, TypeOK
  <2>4. OldRead'
    BY <1>7 DEF Commit, TypeOK, OldRead, Writing
  <2>5. QED
    BY <1>7, <2>1, <2>2, <2>3, <2>4 DEF Commit, TypeOK
<1>8. ASSUME NEW c \in Call, Abort(c) PROVE TypeOK'
  <2>1. OldRead'
    BY <1>8 DEF Abort, TypeOK, OldRead, Writing
  <2>2. QED
    BY <1>8, <2>1 DEF Abort, TypeOK
<1>9. CASE UNCHANGED vars
  BY <1>9 DEF vars, TypeOK, OldRead, Writing
<1>10. QED
  BY <1>1, <1>2, <1>3, <1>4, <1>5, <1>6, <1>7, <1>8, <1>9
  DEF Next, Step, Ended

\* Types at the start: every existing task is untouched.
LEMMA TypeInit == Init => TypeOK
<1> SUFFICES ASSUME Init PROVE TypeOK
  OBVIOUS
<1>1. tasks \in [Task -> Maybe]
  BY DEF Init, Untouched, Maybe, State
<1>2. OldRead
  BY DEF Init, OldRead, Writing
<1>3. QED
  BY <1>1, <1>2 DEF Init, TypeOK, Maybe, Stage

\* The tables and the transactions only ever hold values of their types.
THEOREM TypeCorrect == Spec => []TypeOK
<1> QED
  BY TypeInit, TypeStep, PTL DEF Spec

-----------------------------------------------------------------------------
(* The audit log on either driver.                                          *)

\* Links are to committed rows with smaller ids.
LEMMA LinkStep ==
    ASSUME TypeOK, LinkedBack, AuditRooted, [Next]_vars
    PROVE  LinkedBack' /\ AuditRooted'
<1> USE DEF store, input, local, Goto, TypeOK, Row, Link
<1>1. ASSUME NEW c \in Call,
             Begin(c) \/ Find(c) \/ Write(c) \/ LockHead(c) \/ Abort(c)
      PROVE  LinkedBack' /\ AuditRooted'
  <2>1. /\ UNCHANGED <<audit, nextId, head, entry>>
        /\ \A d \in Call : d # c => pc'[d] = pc[d]
        /\ \/ pc'[c] \in {"find", "write", "head", "done"}
           \/ pc[c] = "lock" /\ pc'[c] = "append"
    BY <1>1 DEF Begin, Find, Write, LockHead, Abort
  <2>2. QED
    BY <2>1 DEF LinkedBack, AuditRooted
<1>2. ASSUME NEW c \in Call, PickHead(c) PROVE LinkedBack' /\ AuditRooted'
  BY <1>2 DEF PickHead, LinkedBack, AuditRooted
<1>3. ASSUME NEW c \in Call, InsertAudit(c) PROVE LinkedBack' /\ AuditRooted'
  <2>1. /\ head[c] < nextId /\ head[c] \in Link
        /\ nextId \in Nat \ {0} /\ nextId' = nextId + 1
        /\ audit' = audit /\ head' = head
        /\ entry' = [entry EXCEPT ![c] = nextId]
        /\ pc' = [pc EXCEPT ![c] = "commit"] /\ pc[c] = "append"
    BY <1>3 DEF InsertAudit, LinkedBack
  <2>2. LinkedBack'
    <3>1. \A a \in audit' : a.id \in 1 .. nextId' - 1
      BY <2>1 DEF LinkedBack
    <3>2. \A d \in Call : pc'[d] \in {"lock", "append", "commit"} => head'[d] \in Link'
      BY <2>1 DEF LinkedBack
    <3>3. \A d \in Call : pc'[d] = "commit" => /\ entry'[d] \in 1 .. nextId' - 1
                                              /\ head'[d] < entry'[d]
      BY <2>1 DEF LinkedBack
    <3>4. QED
      BY <3>1, <3>2, <3>3 DEF LinkedBack
  <2>3. QED
    BY <1>3, <2>2 DEF InsertAudit, AuditRooted
<1>4. ASSUME NEW c \in Call, Commit(c) PROVE LinkedBack' /\ AuditRooted'
  <2>1. /\ audit' = audit \cup {AuditRow(c)}
        /\ AuditRow(c).id = entry[c] /\ AuditRow(c).prev = head[c]
        /\ UNCHANGED <<nextId, head, entry>>
        /\ pc' = [pc EXCEPT ![c] = "done"] /\ pc[c] = "commit"
    BY <1>4 DEF Commit, AuditRow
  <2>2. LinkedBack'
    BY <2>1 DEF LinkedBack
  <2>3. AuditRooted'
    BY <2>1 DEF LinkedBack, AuditRooted
  <2>4. QED
    BY <2>2, <2>3
<1>5. CASE UNCHANGED vars
  BY <1>5 DEF vars, LinkedBack, AuditRooted
<1>6. QED
  BY <1>1, <1>2, <1>3, <1>4, <1>5 DEF Next, Step, Ended

\* The writer of a task is alone, and so its audit row becomes the newest and
\* shows the row it commits.
LEMMA TrailStep ==
    ASSUME TypeOK, LinkedBack, OneWriter, TrailCurrent, [Next]_vars
    PROVE  OneWriter' /\ TrailCurrent'
<1> USE DEF store, input, local, Goto, TypeOK, Row, Writing, Trail
<1>1. ASSUME NEW c \in Call, Begin(c) \/ Find(c) \/ PickHead(c)
                             \/ LockHead(c) \/ Abort(c)
      PROVE  OneWriter' /\ TrailCurrent'
  <2>1. /\ UNCHANGED <<tasks, audit, task, entry>>
        /\ \A d \in Call : d # c => pc'[d] = pc[d]
        /\ Writing(c)' => Writing(c) /\ pc'[c] # "commit"
    BY <1>1 DEF Begin, Find, PickHead, LockHead, Abort
  <2>2. QED
    BY <2>1 DEF OneWriter, TrailCurrent
<1>2. ASSUME NEW c \in Call, Write(c) PROVE OneWriter' /\ TrailCurrent'
  <2>1. /\ UNCHANGED <<tasks, audit, task, entry>>
        /\ \A d \in Call : d # c => pc'[d] = pc[d]
        /\ pc'[c] \in {"head", "done"}
        /\ \A d \in Call : Writing(d) => task[d] # task[c]
    BY <1>2 DEF Write
  <2>2. OneWriter'
    <3>1. \A d \in Call : Writing(d)' => d = c \/ Writing(d)
      BY <2>1
    <3>2. ASSUME NEW d \in Call, Writing(d)', NEW e \in Call, Writing(e)',
                 task[e] = task[d]
          PROVE  e = d
      BY <2>1, <3>1, <3>2 DEF OneWriter
    <3>3. ASSUME NEW d \in Call, pc'[d] = "commit"
          PROVE  \A a \in Trail(task[d]) : a.id < entry[d]
      BY <2>1, <3>3 DEF OneWriter
    <3>4. QED
      BY <2>1, <3>2, <3>3 DEF OneWriter
  <2>3. TrailCurrent'
    BY <2>1 DEF TrailCurrent
  <2>4. QED
    BY <2>2, <2>3
<1>3. ASSUME NEW c \in Call, InsertAudit(c)
      PROVE  OneWriter' /\ TrailCurrent'
  <2>1. /\ UNCHANGED <<tasks, audit, task>>
        /\ pc[c] = "append" /\ pc' = [pc EXCEPT ![c] = "commit"]
        /\ entry' = [entry EXCEPT ![c] = nextId]
        /\ \A a \in audit : a.id < nextId
    BY <1>3 DEF InsertAudit, LinkedBack
  <2>2. QED
    BY <2>1 DEF OneWriter, TrailCurrent
<1>4. ASSUME NEW c \in Call, Commit(c) PROVE OneWriter' /\ TrailCurrent'
  <2>1. /\ audit' = audit \cup {AuditRow(c)}
        /\ AuditRow(c).id = entry[c] /\ AuditRow(c).task = task[c]
        /\ AuditRow(c).new = new[c]
        /\ tasks' = [tasks EXCEPT ![task[c]] = new[c]]
        /\ UNCHANGED <<task, entry>>
        /\ pc' = [pc EXCEPT ![c] = "done"] /\ pc[c] = "commit"
    BY <1>4 DEF Commit, AuditRow
  <2>2. \A a \in Trail(task[c]) : a.id < entry[c]
    BY <2>1 DEF OneWriter
  <2>3. OneWriter'
    <3>1. ASSUME NEW d \in Call, Writing(d)' PROVE task[d] # task[c]
      BY <2>1, <3>1 DEF OneWriter
    <3>2. QED
      BY <2>1, <3>1 DEF OneWriter
  <2>4. TrailCurrent'
    <3>1. ASSUME NEW k \in Task, NEW a \in Trail(k)',
                 \A b \in Trail(k)' : b.id <= a.id
          PROVE  a.new = tasks'[k]
      <4>1. CASE k = task[c]
        <5>1. AuditRow(c) \in Trail(k)' /\ a.id \in Nat /\ entry[c] \in Nat
          BY <2>1, <3>1, <4>1, TypeStep
        <5>2. a = AuditRow(c)
          BY <2>1, <2>2, <3>1, <4>1, <5>1
        <5>3. QED
          BY <2>1, <4>1, <5>2
      <4>2. CASE k # task[c]
        <5>1. Trail(k)' = Trail(k) /\ tasks'[k] = tasks[k]
          BY <2>1, <4>2
        <5>2. QED
          BY <3>1, <5>1 DEF TrailCurrent
      <4>3. QED
        BY <4>1, <4>2
    <3>2. QED
      BY <3>1 DEF TrailCurrent
  <2>5. QED
    BY <2>3, <2>4
<1>5. CASE UNCHANGED vars
  BY <1>5 DEF vars, OneWriter, TrailCurrent
<1>6. QED
  BY <1>1, <1>2, <1>3, <1>4, <1>5 DEF Next, Step, Ended

\* The head is picked among the committed rows while the task is locked, so that
\* it is not behind the task's own rows and stays so until the commit.
LEMMA PassStep ==
    ASSUME TypeOK, OneWriter, HeadBeyond, TrailLinked, [Next]_vars
    PROVE  HeadBeyond' /\ TrailLinked'
<1> USE DEF store, input, local, Goto, TypeOK, Row, Trail
<1>1. ASSUME NEW c \in Call, Begin(c) \/ Find(c) \/ Write(c) \/ LockHead(c)
                             \/ InsertAudit(c) \/ Abort(c)
      PROVE  HeadBeyond' /\ TrailLinked'
  <2>1. /\ UNCHANGED <<audit, task, head>>
        /\ \A d \in Call : pc'[d] \in {"lock", "append", "commit"}
                              => pc[d] \in {"lock", "append", "commit"}
    BY <1>1 DEF Begin, Find, Write, LockHead, InsertAudit, Abort
  <2>2. QED
    BY <2>1 DEF HeadBeyond, TrailLinked
<1>2. ASSUME NEW c \in Call, PickHead(c) PROVE HeadBeyond' /\ TrailLinked'
  <2>1. /\ UNCHANGED <<audit, task>>
        /\ \A a \in audit : a.id <= head'[c]
        /\ \A d \in Call : d # c => pc'[d] = pc[d] /\ head'[d] = head[d]
    BY <1>2 DEF PickHead
  <2>2. QED
    BY <2>1 DEF HeadBeyond, TrailLinked
<1>3. ASSUME NEW c \in Call, Commit(c) PROVE HeadBeyond' /\ TrailLinked'
  <2>1. /\ audit' = audit \cup {AuditRow(c)}
        /\ AuditRow(c).id = entry[c] /\ AuditRow(c).task = task[c]
        /\ AuditRow(c).prev = head[c] /\ entry[c] \in Nat
        /\ UNCHANGED <<task, head>>
        /\ pc' = [pc EXCEPT ![c] = "done"] /\ pc[c] = "commit"
    BY <1>3 DEF Commit, AuditRow
  <2>2. \A a \in Trail(task[c]) :
            a.id \in Nat /\ a.id < entry[c] /\ a.id <= head[c]
    BY <2>1 DEF OneWriter, Writing, HeadBeyond
  <2>3. HeadBeyond'
    <3>1. ASSUME NEW d \in Call, pc'[d] \in {"lock", "append", "commit"}
          PROVE  Trail(task[d])' = Trail(task[d]) /\ pc[d] = pc'[d]
      BY <2>1, <3>1 DEF OneWriter, Writing
    <3>2. QED
      BY <2>1, <3>1 DEF HeadBeyond
  <2>4. ASSUME NEW k \in Task, NEW a \in Trail(k)', NEW b \in Trail(k)',
               a.id < b.id
        PROVE  a.id <= b.prev
    <3>1. CASE a \in Trail(k) /\ b \in Trail(k)
      BY <2>4, <3>1 DEF TrailLinked
    <3>2. CASE a \in Trail(k) /\ b = AuditRow(c)
      BY <2>1, <2>2, <3>2
    <3>3. CASE a = AuditRow(c)
      BY <2>1, <2>2, <2>4, <3>3
    <3>4. QED
      BY <2>1, <3>1, <3>2, <3>3
  <2>5. QED
    BY <2>3, <2>4 DEF TrailLinked
<1>4. CASE UNCHANGED vars
  BY <1>4 DEF vars, HeadBeyond, TrailLinked
<1>5. QED
  BY <1>1, <1>2, <1>3, <1>4 DEF Next, Step, Ended

\* Nobody gets hold of a task before the call that creates it has committed.
LEMMA UnbornStep ==
    ASSUME TypeOK, Unborn, [Next]_vars
    PROVE  Unborn'
<1> USE DEF store, input, local, Goto, TypeOK, Trail, Op
<1>1. ASSUME NEW c \in Call, Begin(c) \/ PickHead(c) \/ LockHead(c)
                             \/ InsertAudit(c) \/ Abort(c)
      PROVE  Unborn'
  <2>1. /\ UNCHANGED <<tasks, audit, task, op>>
        /\ \A d \in Call : d # c => pc'[d] = pc[d]
        /\ \/ pc'[c] = "done"
           \/ pc[c] = "idle" /\ (op[c] = "create" \/ pc'[c] = "find")
           \/ pc[c] \in {"head", "lock", "append"}
    BY <1>1 DEF Begin, PickHead, LockHead, InsertAudit, Abort
  <2>2. ASSUME NEW d \in Call, op[d] = "create", pc'[d] # "done",
               NEW e \in Call, task[e] = task[d], e # d
        PROVE  op[e] # "create" /\ pc'[e] \in {"idle", "find", "done"}
    <3>1. op[e] # "create" /\ pc[e] \in {"idle", "find", "done"}
      BY <2>1, <2>2 DEF Unborn
    <3>2. QED
      BY <2>1, <3>1
  <2>3. ASSUME NEW d \in Call, op[d] = "create", pc'[d] # "done"
        PROVE  tasks'[task'[d]] = Absent /\ Trail(task[d])' = {}
    <3>1. tasks[task[d]] = Absent /\ Trail(task[d]) = {}
      BY <2>1, <2>3 DEF Unborn
    <3>2. tasks'[task'[d]] = Absent
      BY <2>1, <3>1
    <3>3. QED
      BY <2>1, <3>1, <3>2
  <2>4. QED
    BY <2>1, <2>2, <2>3 DEF Unborn
<1>2. ASSUME NEW c \in Call, Find(c) PROVE Unborn'
  BY <1>2 DEF Find, Unborn
<1>3. ASSUME NEW c \in Call, Write(c) PROVE Unborn'
  <2>1. /\ UNCHANGED <<tasks, audit, task, op>>
        /\ \A d \in Call : d # c => pc'[d] = pc[d]
        /\ pc[c] = "write" /\ pc'[c] \in {"head", "done"}
    BY <1>3 DEF Write
  <2> HIDE DEF TypeOK, Trail
  <2>2. ASSUME NEW d \in Call, op[d] = "create", pc'[d] # "done"
        PROVE  /\ pc[d] # "done"
               /\ c # d => task[c] # task[d]
               /\ tasks[task[d]] = Absent /\ Trail(task[d]) = {}
    BY <2>1, <2>2 DEF Unborn
  <2>3. ASSUME NEW d \in Call, op[d] = "create", pc'[d] # "done",
               NEW e \in Call, task[e] = task[d], e # d
        PROVE  op[e] # "create" /\ pc'[e] \in {"idle", "find", "done"}
    <3>1. e # c
      BY <2>2, <2>3
    <3>2. pc[d] # "done"
      BY <2>2, <2>3
    <3>3. op[e] # "create" /\ pc[e] \in {"idle", "find", "done"}
      BY <2>3, <3>2 DEF Unborn
    <3>4. QED
      BY <2>1, <3>1, <3>3
  <2>4. \A k : Trail(k)' = Trail(k)
    BY <2>1 DEF Trail
  <2>5. QED
    BY <2>1, <2>2, <2>3, <2>4 DEF Unborn
<1>4. ASSUME NEW c \in Call, Commit(c) PROVE Unborn'
  <2>1. /\ audit' = audit \cup {AuditRow(c)}
        /\ AuditRow(c).task = task[c]
        /\ \A k \in Task : k # task[c] => tasks'[k] = tasks[k]
        /\ UNCHANGED <<task, op>>
        /\ pc' = [pc EXCEPT ![c] = "done"] /\ pc[c] = "commit"
    BY <1>4 DEF Commit, AuditRow
  <2>2. ASSUME NEW d \in Call, op[d] = "create", pc'[d] # "done"
        PROVE  task[d] # task[c]
    BY <2>1, <2>2 DEF Unborn
  <2>3. QED
    BY <2>1, <2>2 DEF Unborn
<1>5. CASE UNCHANGED vars
  BY <1>5 DEF vars, Unborn
<1>6. QED
  BY <1>1, <1>2, <1>3, <1>4, <1>5 DEF Next, Step, Ended

-----------------------------------------------------------------------------
(* The audit log on SQLite.                                                 *)

\* A transaction that is alone keeps what it read.
LEMMA AloneStep ==
    ASSUME TypeOK, Unborn, Alone, [Next]_vars
    PROVE  Alone'
<1> SUFFICES ASSUME Serialized PROVE Alone'
  BY DEF Alone
<1> USE DEF store, input, local, Goto, TypeOK, Open
<1>1. ASSUME NEW c \in Call, Begin(c) PROVE Alone'
  <2>1. /\ \A d \in Call : ~Open(d)
        /\ pc' = [pc EXCEPT ![c] = IF op[c] = "create" THEN "write" ELSE "find"]
        /\ UNCHANGED <<tasks, task, old, audit, head>>
        /\ old[c] = Absent /\ pc[c] = "idle"
    BY <1>1 DEF Begin, OldRead
  <2>2. op[c] = "create" => tasks[task[c]] = Absent
    BY <2>1 DEF Unborn
  <2>3. QED
    BY <2>1, <2>2 DEF Alone
<1>2. ASSUME NEW c \in Call, Find(c) PROVE Alone'
  BY <1>2 DEF Find, Alone
<1>3. ASSUME NEW c \in Call, Write(c) \/ LockHead(c) \/ InsertAudit(c)
                             \/ Abort(c)
      PROVE  Alone'
  <2>1. /\ UNCHANGED <<tasks, task, old, audit, head>>
        /\ \A d \in Call : d # c => pc'[d] = pc[d]
        /\ Open(c) /\ (pc[c] # "find" \/ pc'[c] = "done")
        /\ pc'[c] \in {"lock", "append", "commit"}
              => pc[c] \in {"lock", "append", "commit"}
    BY <1>3 DEF Write, LockHead, InsertAudit, Abort
  <2>2. QED
    BY <2>1 DEF Alone
<1>4. ASSUME NEW c \in Call, PickHead(c) PROVE Alone'
  BY <1>4 DEF PickHead, Alone
<1>5. ASSUME NEW c \in Call, Commit(c) PROVE Alone'
  <2>1. pc' = [pc EXCEPT ![c] = "done"] /\ Open(c)
    BY <1>5 DEF Commit
  <2>2. \A d \in Call : ~Open(d)'
    BY <2>1 DEF Alone
  <2>3. QED
    BY <2>2 DEF Alone
<1>6. CASE UNCHANGED vars
  BY <1>6 DEF vars, Alone
<1>7. QED
  BY <1>1, <1>2, <1>3, <1>4, <1>5, <1>6 DEF Next, Step, Ended

\* The new audit row extends the chain at its end, and the story of its task.
LEMMA ChainStep ==
    ASSUME IInv, Serialized, [Next]_vars
    PROVE  AuditLinked' /\ TrailConsecutive'
<1> USE DEF IInv, TypeOK, Row, Trail
<1>1. CASE audit' = audit
  BY <1>1 DEF AuditLinked, TrailConsecutive
<1>2. ASSUME NEW c \in Call, Commit(c)
      PROVE  AuditLinked' /\ TrailConsecutive'
  <2> DEFINE r == AuditRow(c)
  <2>1. /\ audit' = audit \cup {r}
        /\ r.id = entry[c] /\ r.prev = head[c] /\ r.task = task[c]
        /\ r.old = old[c] /\ pc[c] = "commit"
    BY <1>2 DEF Commit, AuditRow
  <2>2. /\ \A a \in audit : a.id <= head[c]
        /\ old[c] = tasks[task[c]]
        /\ \A a \in Trail(task[c]) : a.id < entry[c]
    BY <2>1 DEF Alone, Open, OneWriter, Writing
  <2>3. \A a \in audit : a.id >= 1 /\ (a.prev = 0 \/ a.prev < a.id)
    BY DEF LinkedBack, AuditRooted
  <2> HIDE DEF r
  <2>4. AuditLinked'
    <3>1. \A a \in audit : a.prev # head[c]
      <4> TAKE a \in audit
      <4>1. /\ a.id \in Nat /\ a.prev \in Nat /\ head[c] \in Nat
            /\ a.id <= head[c] /\ a.id >= 1 /\ (a.prev = 0 \/ a.prev < a.id)
        BY <2>2, <2>3
      <4>2. QED
        BY <4>1
    <3>2. \A a, b \in audit : a.prev = b.prev => a = b
      BY DEF AuditLinked
    <3>3. QED
      BY <2>1, <3>1, <3>2 DEF AuditLinked
  <2>5. ASSUME NEW k \in Task, NEW a \in Trail(k)', NEW b \in Trail(k)',
               a.id < b.id, \A d \in Trail(k)' : d.id <= a.id \/ b.id <= d.id
        PROVE  b.old = a.new
    <3>1. CASE a \in audit /\ b \in audit
      <4>1. a \in Trail(k) /\ b \in Trail(k) /\ Trail(k) \subseteq Trail(k)'
        BY <2>1, <2>5, <3>1
      <4>2. QED
        BY <2>5, <4>1 DEF TrailConsecutive
    <3>2. CASE a = r
      <4>1. b \in Trail(k) /\ k = task[c] /\ b.id \in Nat /\ entry[c] \in Nat
        BY <2>1, <2>5, <3>2
      <4>2. QED
        BY <2>1, <2>2, <2>5, <3>2, <4>1
    <3>3. CASE a \in audit /\ b = r
      <4>1. k = task[c] /\ a \in Trail(k) /\ Trail(k) \subseteq Trail(k)'
        BY <2>1, <2>5, <3>3
      <4>2. ASSUME NEW d \in Trail(k) PROVE d.id <= a.id
        <5>1. d.id < entry[c] /\ d.id \in Nat /\ entry[c] \in Nat
          BY <2>2, <4>1, <4>2
        <5>2. d.id <= a.id \/ entry[c] <= d.id
          BY <2>1, <2>5, <3>3, <4>1, <4>2
        <5>3. QED
          BY <5>1, <5>2
      <4>3. a.new = tasks[k]
        BY <4>1, <4>2 DEF TrailCurrent
      <4>4. QED
        BY <2>1, <2>2, <3>3, <4>1, <4>3
    <3>4. QED
      BY <2>1, <2>5, <3>1, <3>2, <3>3
  <2>6. TrailConsecutive'
    BY <2>5 DEF TrailConsecutive
  <2>7. QED
    BY <2>4, <2>6
<1>3. audit' = audit \/ \E c \in Call : Commit(c)
  BY DEF Next, Step, Ended, vars, store, Begin, Find, Write, PickHead,
         LockHead, InsertAudit, Abort
<1>4. QED
  BY <1>1, <1>2, <1>3

-----------------------------------------------------------------------------
(* The task and its log.                                                    *)

\* Only a commit changes the tables, and every action keeps what was asked.
LEMMA OnlyCommit ==
    ASSUME [Next]_vars
    PROVE  /\ UNCHANGED <<op, task, to>>
           /\ UNCHANGED store \/ \E c \in Call : Commit(c)
BY DEF Next, Step, Ended, vars, store, input, local, Begin, Find, Write,
       PickHead, LockHead, InsertAudit, Commit, Abort

\* What a writer makes of a row depends on nothing but that row and the call.
LEMMA ChangedSame ==
    ASSUME NEW c \in Call, tasks[task[c]]' = tasks[task[c]],
           UNCHANGED <<op, task, to>>
    PROVE  Changed(c)' = Changed(c)
BY DEF Changed

\* A row that is being written stays what its writer saw.
LEMMA ComputedStep ==
    ASSUME TypeOK, OneWriter, Computed, [Next]_vars
    PROVE  Computed'
<1> USE DEF store, input, local, Goto, TypeOK, Writing
<1>1. UNCHANGED <<op, task, to>>
  BY OnlyCommit
<1>2. ASSUME NEW c \in Call, Begin(c) \/ Find(c) \/ PickHead(c) \/ LockHead(c)
                             \/ InsertAudit(c) \/ Abort(c)
      PROVE  Computed'
  <2>1. /\ UNCHANGED <<tasks, new>>
        /\ \A d \in Call : Writing(d)' => Writing(d)
    BY <1>2 DEF Begin, Find, PickHead, LockHead, InsertAudit, Abort
  <2>2. ASSUME NEW d \in Call PROVE Changed(d)' = Changed(d)
    BY <1>1, <2>1, ChangedSame
  <2>3. QED
    BY <1>1, <2>1, <2>2 DEF Computed
<1>3. ASSUME NEW c \in Call, Write(c) PROVE Computed'
  <2>1. /\ UNCHANGED tasks
        /\ \A d \in Call : d # c => pc'[d] = pc[d] /\ new'[d] = new[d]
        /\ Writing(c)' => /\ new'[c] = Changed(c)
                          /\ op[c] # "create" => tasks[task[c]] # Absent
    BY <1>3 DEF Write
  <2>2. ASSUME NEW d \in Call PROVE Changed(d)' = Changed(d)
    BY <1>1, <2>1, ChangedSame
  <2>3. ASSUME NEW d \in Call, Writing(d)'
        PROVE  /\ new'[d] = Changed(d)
               /\ op[d] # "create" => tasks[task[d]] # Absent
    BY <2>1, <2>3 DEF Computed
  <2>4. QED
    BY <1>1, <2>1, <2>2, <2>3 DEF Computed
<1>4. ASSUME NEW c \in Call, Commit(c) PROVE Computed'
  <2>1. /\ pc' = [pc EXCEPT ![c] = "done"] /\ Writing(c) /\ new' = new
        /\ \A k \in Task : k # task[c] => tasks'[k] = tasks[k]
    BY <1>4 DEF Commit
  <2>2. ASSUME NEW d \in Call, Writing(d)'
        PROVE  /\ Writing(d)
               /\ Changed(d)' = Changed(d)
               /\ tasks[task[d]]' = tasks[task[d]]
    <3>1. Writing(d) /\ d # c
      BY <2>1, <2>2
    <3>2. task[d] # task[c]
      BY <2>1, <3>1 DEF OneWriter
    <3>3. tasks[task[d]]' = tasks[task[d]]
      BY <1>1, <2>1, <3>2
    <3>4. QED
      BY <1>1, <3>1, <3>3, ChangedSame
  <2>3. QED
    BY <1>1, <2>1, <2>2 DEF Computed
<1>5. CASE UNCHANGED vars
  <2>1. UNCHANGED <<tasks, new, pc>>
    BY <1>5 DEF vars
  <2>2. ASSUME NEW d \in Call PROVE Changed(d)' = Changed(d)
    BY <1>1, <2>1, ChangedSame
  <2>3. QED
    BY <1>1, <2>1, <2>2 DEF Computed
<1>6. QED
  BY <1>2, <1>3, <1>4, <1>5 DEF Next, Step, Ended

\* What a commit makes of the log: nothing, its end, or a longer one.
LEMMA LoggedCases ==
    ASSUME TypeOK, NEW c \in Call, pc[c] = "commit"
    PROVE  \/ op[c] = "delete" /\ Logged(c) = <<>>
           \/ op[c] \in {"create", "update"} /\ Logged(c) = logs[task[c]]
           \/ /\ op[c] = "assign"
              /\ Len(Logged(c)) = Len(logs[task[c]]) + 1
              /\ Logged(c)[Len(logs[task[c]]) + 1].old = old[c].assignee
              /\ Logged(c)[Len(logs[task[c]]) + 1].new = to[c]
              /\ \A i \in 1 .. Len(logs[task[c]]) :
                    Logged(c)[i] = logs[task[c]][i]
<1> DEFINE S == [old: User \cup {Nobody}, new: User]
           e == [old |-> old[c].assignee, new |-> to[c]]
           l == logs[task[c]]
<1>1. l \in Seq(S)
  BY DEF TypeOK
<1>2. CASE op[c] = "assign"
  <2>1. e.old = old[c].assignee /\ e.new = to[c]
    OBVIOUS
  <2>2. e \in S
    <3>1. old[c] \in State
      BY <1>2 DEF TypeOK, OldRead, Writing, Maybe
    <3>2. QED
      BY <3>1 DEF TypeOK, State
  <2>3. Logged(c) = Append(l, e)
    BY <1>2 DEF Logged
  <2> HIDE DEF S, e, l
  <2>4. /\ Len(Append(l, e)) = Len(l) + 1
        /\ Append(l, e)[Len(l) + 1] = e
        /\ \A i \in 1 .. Len(l) : Append(l, e)[i] = l[i]
    BY <1>1, <2>2
  <2>5. QED
    BY <1>2, <2>1, <2>3, <2>4 DEF l
<1>3. CASE op[c] # "assign"
  BY <1>3 DEF Logged, TypeOK, Op
<1>4. QED
  BY <1>2, <1>3

\* A commit logs the assignment that it makes.
LEMMA LogStep ==
    ASSUME TypeOK, Unborn, Computed, LogCurrent, [Next]_vars
    PROVE  LogCurrent'
<1> USE DEF TypeOK
<1>1. CASE UNCHANGED store
  BY <1>1 DEF store, LogCurrent
<1>2. ASSUME NEW c \in Call, Commit(c) PROVE LogCurrent'
  <2> DEFINE k == task[c]
             l == logs[k]
  <2>1. /\ pc[c] = "commit" /\ k \in Task
        /\ tasks' = [tasks EXCEPT ![k] = new[c]]
        /\ logs' = [logs EXCEPT ![k] = Logged(c)]
        /\ new[c] = Changed(c)
        /\ op[c] # "create" => tasks[k] # Absent
        /\ op[c] = "create" => tasks[k] = Absent
    BY <1>2 DEF Commit, Computed, Writing, Unborn
  <2>2. l \in Seq([old: User \cup {Nobody}, new: User])
    OBVIOUS
  <2>3. l # <<>> => tasks[k] # Absent /\ tasks[k].assignee = l[Len(l)].new
    BY <2>1 DEF LogCurrent
  <2>4. Logged(c) # <<>> =>
            /\ new[c] # Absent
            /\ new[c].assignee = Logged(c)[Len(Logged(c))].new
    <3>1. tasks[k] \in Maybe
      BY <2>1
    <3>2. CASE op[c] = "delete"
      BY <2>1, <3>2, LoggedCases
    <3>3. CASE op[c] = "create"
      BY <2>1, <2>3, <3>3, LoggedCases
    <3>4. CASE op[c] = "update"
      <4>1. tasks[k] \in State
        BY <2>1, <3>1, <3>4 DEF Maybe
      <4>2. Logged(c) = l
        BY <2>1, <3>4, LoggedCases
      <4>3. new[c] = [tasks[k] EXCEPT !.text = c]
        BY <2>1, <3>4 DEF Changed
      <4>4. new[c] \in State /\ new[c].assignee = tasks[k].assignee
        BY <4>1, <4>3 DEF State
      <4>5. QED
        BY <2>3, <4>2, <4>4, AbsentAssumption
    <3>5. CASE op[c] = "assign"
      <4>1. tasks[k] \in State
        BY <2>1, <3>1, <3>5 DEF Maybe
      <4>2. new[c] = [tasks[k] EXCEPT !.assignee = to[c]]
        BY <2>1, <3>5 DEF Changed
      <4>3. new[c] \in State /\ new[c].assignee = to[c]
        BY <4>1, <4>2 DEF State
      <4>4. Len(Logged(c)) = Len(l) + 1 /\ Logged(c)[Len(l) + 1].new = to[c]
        BY <2>1, <3>5, LoggedCases
      <4>5. QED
        BY <4>3, <4>4, AbsentAssumption
    <3>6. QED
      BY <3>2, <3>3, <3>4, <3>5 DEF Op
  <2>5. ASSUME NEW j \in Task, logs'[j] # <<>>
        PROVE  tasks'[j] # Absent /\ tasks'[j].assignee = logs'[j][Len(logs'[j])].new
    <3>1. CASE j = k
      BY <2>1, <2>4, <2>5, <3>1
    <3>2. CASE j # k
      <4>1. logs'[j] = logs[j] /\ tasks'[j] = tasks[j]
        BY <2>1, <3>2
      <4>2. QED
        BY <2>5, <4>1 DEF LogCurrent
    <3>3. QED
      BY <3>1, <3>2
  <2>6. QED
    BY <2>5 DEF LogCurrent
<1>3. QED
  BY <1>1, <1>2, OnlyCommit

\* A transaction that is alone logs the assignee that was in force.
LEMMA LogChainStep ==
    ASSUME IInv, Serialized, [Next]_vars
    PROVE  LogConsecutive'
<1> USE DEF IInv, TypeOK
<1>1. CASE UNCHANGED store
  BY <1>1 DEF store, LogConsecutive
<1>2. ASSUME NEW c \in Call, Commit(c) PROVE LogConsecutive'
  <2> DEFINE k == task[c]
             l == logs[k]
  <2>1. /\ pc[c] = "commit" /\ k \in Task
        /\ logs' = [logs EXCEPT ![k] = Logged(c)]
        /\ old[c] = tasks[k]
    BY <1>2 DEF Commit, Alone, Open
  <2>2. l \in Seq([old: User \cup {Nobody}, new: User])
    OBVIOUS
  <2>3. /\ l # <<>> => tasks[k].assignee = l[Len(l)].new
        /\ \A i \in 1 .. Len(l) - 1 : l[i + 1].old = l[i].new
    BY <2>1 DEF LogCurrent, LogConsecutive
  <2>4. ASSUME NEW i \in 1 .. Len(Logged(c)) - 1
        PROVE  Logged(c)[i + 1].old = Logged(c)[i].new
    <3>1. CASE op[c] = "assign"
      <4> HIDE DEF l
      <4>1. /\ Len(Logged(c)) = Len(l) + 1
            /\ Logged(c)[Len(l) + 1].old = old[c].assignee
            /\ \A n \in 1 .. Len(l) : Logged(c)[n] = l[n]
        BY <2>1, <3>1, LoggedCases DEF l
      <4>2. Len(l) \in Nat /\ i \in 1 .. Len(l) /\ Logged(c)[i] = l[i]
        BY <2>2, <4>1
      <4>3. CASE i = Len(l)
        <5>1. l # <<>>
          BY <2>2, <4>2
        <5>2. QED
          BY <2>1, <2>3, <4>1, <4>2, <4>3, <5>1
      <4>4. CASE i # Len(l)
        <5>1. i \in 1 .. Len(l) - 1 /\ i + 1 \in 1 .. Len(l)
          BY <4>2, <4>4
        <5>2. QED
          BY <2>3, <4>1, <4>2, <5>1
      <4>5. QED
        BY <4>3, <4>4
    <3>2. CASE op[c] = "delete"
      <4>1. Logged(c) = <<>>
        BY <2>1, <3>2, LoggedCases
      <4>2. Len(Logged(c)) = 0
        BY <4>1
      <4>3. QED
        BY <2>4, <4>2
    <3>3. CASE op[c] \in {"create", "update"}
      <4>1. Logged(c) = l
        BY <2>1, <3>3, LoggedCases
      <4>2. QED
        BY <2>3, <2>4, <4>1
    <3>4. QED
      BY <3>1, <3>2, <3>3 DEF Op
  <2>5. QED
    BY <2>1, <2>4 DEF LogConsecutive
<1>3. QED
  BY <1>1, <1>2, OnlyCommit

\* Of a task that is deleted nothing is left to change, so that no commit about it
\* follows; a commit that deletes is the newest of its task.
LEMMA DeletedStep ==
    ASSUME IInv, [Next]_vars
    PROVE  DeletedForGood'
<1> USE DEF IInv, TypeOK
<1>1. CASE UNCHANGED store
  BY <1>1 DEF store, DeletedForGood, Trail
<1>2. ASSUME NEW c \in Call, Commit(c) PROVE DeletedForGood'
  <2> DEFINE k == task[c]
  <2>1. /\ k \in Task /\ pc[c] = "commit"
        /\ tasks' = [tasks EXCEPT ![k] = new[c]]
        /\ logs' = [logs EXCEPT ![k] = Logged(c)]
        /\ audit' = audit \cup {AuditRow(c)}
        /\ AuditRow(c).task = k /\ AuditRow(c).id = entry[c]
        /\ AuditRow(c).new = new[c] /\ entry[c] \in Nat
    BY <1>2 DEF Commit, AuditRow
  <2>2. ASSUME NEW a \in Trail(k), a.new = Absent PROVE FALSE
    <3>1. tasks[k] = Absent
      BY <2>1, <2>2 DEF DeletedForGood
    <3>2. op[c] = "create"
      BY <2>1, <3>1 DEF Computed, Writing
    <3>3. QED
      BY <2>1, <2>2, <3>2 DEF Unborn
  <2>3. new[c] = Absent => op[c] = "delete"
    <3>1. op[c] \in {"create", "update", "assign"} => Changed(c) \in State
      <4>1. op[c] # "create" => tasks[k] \in State
        BY <2>1 DEF Computed, Writing, Maybe
      <4>2. QED
        BY <2>1, <4>1 DEF Changed, State
    <3>2. QED
      BY <2>1, <3>1, AbsentAssumption DEF Computed, Writing, Op
  <2>4. op[c] = "delete" => Logged(c) = <<>>
    BY DEF Logged
  <2>5. \A a \in Trail(k) : a.id < entry[c] /\ a.id \in Nat
    BY <2>1 DEF OneWriter, Writing, Trail, Row
  <2> HIDE DEF IInv, TypeOK, k
  <2>6. ASSUME NEW j \in Task, NEW a \in Trail(j)', a.new = Absent
        PROVE  /\ tasks'[j] = Absent
               /\ logs'[j] = <<>>
               /\ \A b \in Trail(j)' : b.id <= a.id
    <3>0. tasks \in [Task -> Maybe] /\ DOMAIN logs = Task /\ DeletedForGood
      BY DEF IInv, TypeOK
    <3>1. CASE j # k
      <4>1. Trail(j)' = Trail(j) /\ tasks'[j] = tasks[j] /\ logs'[j] = logs[j]
        BY <2>1, <3>0, <3>1 DEF Trail
      <4>2. QED
        BY <2>6, <3>0, <4>1 DEF DeletedForGood
    <3>2. CASE j = k
      <4>1. Trail(j)' = Trail(k) \cup {AuditRow(c)}
        BY <2>1, <3>2 DEF Trail
      <4>2. a = AuditRow(c) /\ new[c] = Absent
        BY <2>1, <2>2, <2>6, <4>1
      <4>3. tasks'[j] = Absent /\ logs'[j] = <<>>
        BY <2>1, <2>3, <2>4, <3>0, <3>2, <4>2
      <4>4. \A b \in Trail(j)' : b.id <= a.id
        BY <2>1, <2>5, <4>1, <4>2
      <4>5. QED
        BY <4>3, <4>4
    <3>3. QED
      BY <3>1, <3>2
  <2>7. QED
    BY <2>6 DEF DeletedForGood
<1>3. QED
  BY <1>1, <1>2, OnlyCommit

\* Every audit id is drawn once.
LEMMA DrawnStep ==
    ASSUME TypeOK, LinkedBack, Drawn, [Next]_vars
    PROVE  Drawn'
<1> USE DEF store, input, local, Goto, TypeOK, Row
<1>1. ASSUME NEW c \in Call, Begin(c) \/ Find(c) \/ Write(c) \/ PickHead(c)
                             \/ LockHead(c) \/ Abort(c)
      PROVE  Drawn'
  <2>1. /\ UNCHANGED <<audit, entry>>
        /\ \A d \in Call : pc'[d] = "commit" => pc[d] = "commit"
    BY <1>1 DEF Begin, Find, Write, PickHead, LockHead, Abort
  <2>2. QED
    BY <2>1 DEF Drawn
<1>2. ASSUME NEW c \in Call, InsertAudit(c) PROVE Drawn'
  <2>1. /\ audit' = audit /\ entry' = [entry EXCEPT ![c] = nextId]
        /\ pc' = [pc EXCEPT ![c] = "commit"]
        /\ \A a \in audit : a.id # nextId
        /\ \A d \in Call : pc[d] = "commit" => entry[d] # nextId
    BY <1>2 DEF InsertAudit, LinkedBack
  <2>2. QED
    BY <2>1 DEF Drawn
<1>3. ASSUME NEW c \in Call, Commit(c) PROVE Drawn'
  <2>1. /\ audit' = audit \cup {AuditRow(c)} /\ AuditRow(c).id = entry[c]
        /\ entry' = entry /\ pc[c] = "commit"
        /\ pc' = [pc EXCEPT ![c] = "done"]
    BY <1>3 DEF Commit, AuditRow
  <2>2. \A d \in Call : pc'[d] = "commit" => pc[d] = "commit" /\ d # c
    BY <2>1
  <2>3. QED
    BY <2>1, <2>2 DEF Drawn
<1>4. CASE UNCHANGED vars
  BY <1>4 DEF vars, Drawn
<1>5. QED
  BY <1>1, <1>2, <1>3, <1>4 DEF Next, Step, Ended

\* The rows of a task's past, one by one.
LEMMA PastCases ==
    ASSUME NEW k, NEW v
    PROVE  v \in Atomic!Past(k) <=>
               \/ v = tasks[k]
               \/ \E a \in audit : a.task = k /\ (v = a.old \/ v = a.new)
BY DEF Atomic!Past

\* A commit adds to its task's past and takes nothing from it.
LEMMA PastGrows ==
    ASSUME TypeOK, ReadCommitted, NEW c \in Call, Commit(c), NEW k \in Task
    PROVE  Atomic!Past(k) \subseteq Atomic!Past(k)'
<1> USE DEF TypeOK
<1>1. /\ audit' = audit \cup {AuditRow(c)} /\ AuditRow(c).task = task[c]
      /\ AuditRow(c).old = old[c] /\ AuditRow(c).new = new[c]
      /\ tasks' = [tasks EXCEPT ![task[c]] = new[c]]
      /\ old[c] \in Atomic!Past(task[c])
  BY DEF Commit, AuditRow, ReadCommitted, Writing
<1>2. \A v : v \in Atomic!Past(k)' <=>
                 \/ v = tasks'[k]
                 \/ \E a \in audit' : a.task = k /\ (v = a.old \/ v = a.new)
  BY DEF Atomic!Past
<1>3. tasks[k] \in Atomic!Past(k)'
  <2>1. CASE k # task[c]
    BY <1>1, <1>2, <2>1
  <2>2. CASE k = task[c] /\ Trail(k) = {}
    <3>1. old[c] = tasks[k]
      <4>1. old[c] \in Atomic!Past(k)
        BY <1>1, <2>2
      <4>2. \A a \in audit : a.task # k
        BY <2>2 DEF Trail
      <4>3. QED
        BY <4>1, <4>2, PastCases
    <3>2. QED
      BY <1>1, <1>2, <2>2, <3>1
  <2>3. CASE k = task[c] /\ Trail(k) # {}
    <3>1. PICK a \in Trail(k) : a.new = tasks[k]
      BY <2>3 DEF ReadCommitted
    <3>2. QED
      BY <1>1, <1>2, <3>1 DEF Trail
  <2>4. QED
    BY <2>1, <2>2, <2>3
<1>4. ASSUME NEW v \in Atomic!Past(k) PROVE v \in Atomic!Past(k)'
  <2>1. CASE v = tasks[k]
    BY <1>3, <2>1
  <2>2. CASE \E a \in audit : a.task = k /\ (v = a.old \/ v = a.new)
    BY <1>1, <1>2, <2>2
  <2>3. QED
    BY <2>1, <2>2, PastCases
<1>5. QED
  BY <1>4

\* On either driver a transaction reads what its task has been.
LEMMA ReadStep ==
    ASSUME TypeOK, Unborn, ReadCommitted, [Next]_vars
    PROVE  ReadCommitted'
<1> USE DEF store, input, local, Goto, TypeOK, Writing
<1>1. ASSUME NEW c \in Call, Begin(c) \/ Find(c) \/ Write(c) \/ PickHead(c)
                             \/ LockHead(c) \/ InsertAudit(c) \/ Abort(c)
      PROVE  ReadCommitted'
  <2>1. /\ UNCHANGED <<tasks, audit, task>>
        /\ \A d \in Call : d # c => pc'[d] = pc[d] /\ old'[d] = old[d]
    BY <1>1 DEF Begin, Find, Write, PickHead, LockHead, InsertAudit, Abort
  <2>2. \A k \in Task : Trail(k)' = Trail(k) /\ Atomic!Past(k)' = Atomic!Past(k)
    BY <2>1 DEF Trail, Atomic!Past
  <2>3. Writing(c)' \/ pc'[c] = "write" =>
            old'[c] = tasks[task[c]] \/ old'[c] \in Atomic!Past(task[c])
    <3>1. CASE Begin(c)
      <4>1. old'[c] = Absent /\ (pc'[c] = "write" => op[c] = "create")
        BY <3>1 DEF Begin, OldRead
      <4>2. op[c] = "create" => tasks[task[c]] = Absent
        BY <3>1 DEF Begin, Unborn
      <4>3. pc'[c] \in {"find", "write"}
        BY <3>1 DEF Begin
      <4>4. QED
        BY <4>1, <4>2, <4>3
    <3>2. CASE Find(c)
      BY <3>2 DEF Find
    <3>3. CASE Write(c) \/ PickHead(c) \/ LockHead(c) \/ InsertAudit(c)
      BY <3>3 DEF Write, PickHead, LockHead, InsertAudit, ReadCommitted
    <3>4. CASE Abort(c)
      BY <3>4 DEF Abort
    <3>5. QED
      BY <1>1, <3>1, <3>2, <3>3, <3>4
  <2>4. tasks[task[c]] \in Atomic!Past(task[c])
    BY PastCases
  <2>5. ASSUME NEW d \in Call, Writing(d)' \/ pc'[d] = "write"
        PROVE  old'[d] \in Atomic!Past(task[d])
    BY <2>1, <2>3, <2>4, <2>5 DEF ReadCommitted
  <2>6. \A k \in Task : Trail(k)' # {} => \E a \in Trail(k)' : a.new = tasks'[k]
    BY <2>1, <2>2 DEF ReadCommitted
  <2>7. \A d \in Call : Writing(d)' \/ pc'[d] = "write" =>
            old'[d] \in Atomic!Past(task[d])'
    BY <2>1, <2>2, <2>5
  <2>8. QED
    BY <2>6, <2>7, <2>1 DEF ReadCommitted
<1>2. ASSUME NEW c \in Call, Commit(c) PROVE ReadCommitted'
  <2>1. /\ audit' = audit \cup {AuditRow(c)} /\ AuditRow(c).task = task[c]
        /\ AuditRow(c).new = new[c]
        /\ tasks' = [tasks EXCEPT ![task[c]] = new[c]]
        /\ UNCHANGED <<old, task>>
        /\ pc' = [pc EXCEPT ![c] = "done"]
    BY <1>2 DEF Commit, AuditRow
  <2>2. ASSUME NEW k \in Task, Trail(k)' # {}
        PROVE  \E a \in Trail(k)' : a.new = tasks'[k]
    BY <2>1, <2>2 DEF Trail, ReadCommitted
  <2>3. \A d \in Call : Writing(d)' \/ pc'[d] = "write" =>
            old'[d] \in Atomic!Past(task[d])
    BY <2>1 DEF ReadCommitted
  <2>4. \A d \in Call : Writing(d)' \/ pc'[d] = "write" =>
            old'[d] \in Atomic!Past(task[d])'
    BY <1>2, <2>1, <2>3, PastGrows
  <2>5. QED
    BY <2>1, <2>2, <2>4 DEF ReadCommitted
<1>3. CASE UNCHANGED vars
  <2>1. /\ UNCHANGED <<tasks, audit, task, pc, old>>
    BY <1>3 DEF vars
  <2>2. \A k \in Task : Trail(k)' = Trail(k) /\ Atomic!Past(k)' = Atomic!Past(k)
    BY <2>1 DEF Trail, Atomic!Past
  <2>3. QED
    BY <2>1, <2>2 DEF ReadCommitted
<1>4. QED
  BY <1>1, <1>2, <1>3 DEF Next, Step, Ended

\* On SQLite the head that was picked is the newest row when its successor is
\* committed.
LEMMA OrderStep ==
    ASSUME Serialized, TypeOK, LinkedBack, Alone, AuditInOrder, [Next]_vars
    PROVE  AuditInOrder'
<1>1. CASE \E c \in Call : Commit(c)
  <2>1. PICK c \in Call : Commit(c)
    BY <1>1
  <2>2. /\ audit' = audit \cup {AuditRow(c)}
        /\ AuditRow(c).id = entry[c] /\ AuditRow(c).prev = head[c]
        /\ pc[c] = "commit"
    BY <2>1 DEF Commit, AuditRow
  <2>3. /\ entry[c] \in Nat /\ head[c] \in Nat /\ head[c] < entry[c]
        /\ \A a \in audit : a.id \in Nat /\ a.id <= head[c]
    BY <2>2 DEF LinkedBack, Alone, Open, TypeOK, Row
  <2>4. QED
    BY <2>2, <2>3 DEF AuditInOrder
<1>2. CASE ~\E c \in Call : Commit(c)
  <2>1. audit' = audit
    BY <1>2, OnlyCommit DEF store
  <2>2. QED
    BY <2>1 DEF AuditInOrder
<1>3. QED
  BY <1>1, <1>2

-----------------------------------------------------------------------------
(* The theorems.                                                            *)

\* The inductive invariant of the task transactions.
THEOREM IInvCorrect == Spec => []IInv
<1>1. Init => IInv
  <2> SUFFICES ASSUME Init PROVE IInv
    OBVIOUS
  <2>1. LinkedBack /\ AuditRooted /\ AuditLinked
    BY DEF Init, LinkedBack, AuditRooted, AuditLinked
  <2>0. HeadBeyond /\ TrailLinked /\ AuditInOrder
    BY DEF Init, HeadBeyond, TrailLinked, AuditInOrder, Trail
  <2>2. OneWriter /\ TrailCurrent /\ TrailConsecutive
    BY DEF Init, OneWriter, Writing, TrailCurrent, TrailConsecutive, Trail
  <2>3. Unborn /\ Alone
    BY DEF Init, Unborn, Alone, Open, Trail
  <2>4. <<>> = <<>> /\ Len(<<>>) = 0 /\ DOMAIN <<>> = {}
    OBVIOUS
  <2>5. \A k \in Task : logs[k] = <<>>
    BY DEF Init
  <2>6. LogCurrent /\ LogConsecutive
    BY <2>4, <2>5 DEF LogCurrent, LogConsecutive
  <2>7. Computed /\ DeletedForGood
    BY DEF Init, Computed, Writing, DeletedForGood, Trail
  <2>8. Drawn /\ ReadCommitted
    BY DEF Init, Drawn, ReadCommitted, Trail, Writing
  <2>9. QED
    BY TypeInit, <2>0, <2>1, <2>2, <2>3, <2>6, <2>7, <2>8 DEF IInv
<1>2. IInv /\ [Next]_vars => IInv'
  <2> SUFFICES ASSUME IInv, [Next]_vars PROVE IInv'
    OBVIOUS
  <2>1. TypeOK' /\ LinkedBack' /\ AuditRooted' /\ OneWriter' /\ TrailCurrent'
    BY TypeStep, LinkStep, TrailStep DEF IInv
  <2>0. HeadBeyond' /\ TrailLinked'
    BY PassStep DEF IInv
  <2>2. Unborn' /\ Alone' /\ Computed' /\ LogCurrent'
    BY UnbornStep, AloneStep, ComputedStep, LogStep DEF IInv
  <2>3. Serialized => /\ AuditLinked' /\ TrailConsecutive'
                      /\ LogConsecutive'
    BY ChainStep, LogChainStep
  <2>7. Serialized => AuditInOrder'
    BY OrderStep DEF IInv
  <2>4. DeletedForGood'
    BY DeletedStep
  <2>5. Drawn' /\ ReadCommitted'
    BY DrawnStep, ReadStep DEF IInv
  <2>6. QED
    BY <2>0, <2>1, <2>2, <2>3, <2>4, <2>5, <2>7 DEF IInv
<1>3. QED
  BY <1>1, <1>2, PTL DEF Spec

\* On either driver an audit row links to genesis or to an earlier row.
THEOREM AuditRootedCorrect == Spec => []AuditRooted
<1>1. IInv => AuditRooted
  BY DEF IInv
<1>2. QED
  BY <1>1, IInvCorrect, PTL

\* On either driver the newest audit row of a task shows the task as it is.
THEOREM TrailCurrentCorrect == Spec => []TrailCurrent
<1>1. IInv => TrailCurrent
  BY DEF IInv
<1>2. QED
  BY <1>1, IInvCorrect, PTL

\* On either driver no row of a task links behind an earlier row of the same task:
\* rows that pass over each other in the audit chain are of different tasks.
THEOREM TrailLinkedCorrect == Spec => []TrailLinked
<1>1. IInv => TrailLinked
  BY DEF IInv
<1>2. QED
  BY <1>1, IInvCorrect, PTL

\* On SQLite the links pass over no audit row.
THEOREM AuditInOrderCorrect == ASSUME Serialized PROVE Spec => []AuditInOrder
<1>1. IInv => AuditInOrder
  BY DEF IInv
<1>2. QED
  BY <1>1, IInvCorrect, PTL

\* On SQLite the audit log is one chain.
THEOREM AuditLinkedCorrect == ASSUME Serialized PROVE Spec => []AuditLinked
<1>1. IInv => AuditLinked
  BY DEF IInv
<1>2. QED
  BY <1>1, IInvCorrect, PTL

\* On SQLite the audit rows of a task start each where the last one ended.
THEOREM TrailConsecutiveCorrect ==
    ASSUME Serialized PROVE Spec => []TrailConsecutive
<1>1. IInv => TrailConsecutive
  BY DEF IInv
<1>2. QED
  BY <1>1, IInvCorrect, PTL

\* On either driver the last assignment logged for a task is the one in force.
THEOREM LogCurrentCorrect == Spec => []LogCurrent
<1>1. IInv => LogCurrent
  BY DEF IInv
<1>2. QED
  BY <1>1, IInvCorrect, PTL

\* On SQLite the logged assignments of a task start each where the last ended.
THEOREM LogConsecutiveCorrect ==
    ASSUME Serialized PROVE Spec => []LogConsecutive
<1>1. IInv => LogConsecutive
  BY DEF IInv
<1>2. QED
  BY <1>1, IInvCorrect, PTL

\* On either driver nothing happens to a task after its deletion, and nobody
\* deletes it a second time.
THEOREM DeletedForGoodCorrect == Spec => []DeletedForGood
<1>1. IInv => DeletedForGood
  BY DEF IInv
<1>2. QED
  BY <1>1, IInvCorrect, PTL

-----------------------------------------------------------------------------
(* The promise of AtomicTasks.                                              *)

\* The last statement of a transaction is the whole call.
LEMMA CommitIsDo ==
    ASSUME IInv, NEW c \in Call, Commit(c)
    PROVE  Atomic!Do(c)
<1> USE DEF IInv, TypeOK
<1> DEFINE k == task[c]
           r == AuditRow(c)
<1>1. /\ pc[c] = "commit" /\ k \in Task
      /\ tasks' = [tasks EXCEPT ![k] = new[c]]
      /\ logs' = [logs EXCEPT ![k] = Logged(c)]
      /\ queued' = [queued EXCEPT ![k] = @ + 1]
      /\ audit' = audit \cup {r}
      /\ pc' = [pc EXCEPT ![c] = "done"]
      /\ UNCHANGED <<op, task, to>>
  BY DEF Commit, Goto, input
<1>2. /\ r.id = entry[c] /\ r.prev = head[c] /\ r.task = k
      /\ r.old = old[c] /\ r.new = new[c]
  BY DEF AuditRow
<1>3. /\ old[c] \in Atomic!Past(k)
      /\ old[c] = Absent <=> op[c] = "create"
      /\ Serialized => old[c] = tasks[k]
      /\ tasks[k] = Absent <=> op[c] = "create"
  BY <1>1 DEF ReadCommitted, Alone, Open, OldRead, Writing, Computed, Unborn
<1>4. new[c] = Atomic!Result(c, tasks[k])
  BY <1>1 DEF Computed, Writing, Changed, Atomic!Result
<1>5. Logged(c) = Atomic!Log(c, old[c])
  BY DEF Logged, Atomic!Log
<1>6. /\ \A b \in audit : b.id # r.id /\ (b.task = k => b.id < r.id)
      /\ r.prev \in {0} \cup {b.id : b \in audit}
      /\ r.prev < r.id
      /\ Serialized => \A b \in audit : b.id <= r.prev
  <2>1. /\ head[c] < entry[c] /\ head[c] \in Link
        /\ \A b \in audit : b.id # entry[c]
        /\ \A b \in Trail(k) : b.id < entry[c]
        /\ Serialized => \A b \in audit : b.id <= head[c]
    BY <1>1 DEF LinkedBack, Drawn, OneWriter, Writing, Alone, Open
  <2> HIDE DEF r
  <2>2. QED
    BY <1>2, <2>1 DEF Link, Trail
<1>7. r \in audit' \ audit
  <2> HIDE DEF r
  <2>1. QED
    BY <1>1, <1>6
<1>8. /\ c \notin {d \in Call : pc[d] = "done"}
      /\ {d \in Call : pc'[d] = "done"}
            = {d \in Call : pc[d] = "done"} \cup {c}
  BY <1>1
<1>9. Atomic!Appended(r)
  BY <1>1, <1>2, <1>6 DEF Atomic!Appended
<1> HIDE DEF r, IInv, TypeOK
<1>10. \E was \in Atomic!Past(k), a \in audit' \ audit :
          /\ was = Absent <=> op[c] = "create"
          /\ Serialized => was = tasks[k]
          /\ logs' = [logs EXCEPT ![k] = Atomic!Log(c, was)]
          /\ Atomic!Appended(a)
          /\ a.task = k
          /\ a.old = was
          /\ a.new = Atomic!Result(c, tasks[k])
  BY <1>1, <1>2, <1>3, <1>4, <1>5, <1>7, <1>9
<1>11. QED
  BY <1>1, <1>3, <1>4, <1>8, <1>10 DEF Atomic!Do

\* Every other step is a failing call, or nothing at all.
LEMMA OthersStutter ==
    ASSUME TypeOK, [Next]_vars, UNCHANGED store
    PROVE  [Atomic!Next]_(Atomic!vars)
<1> USE DEF TypeOK
<1>1. UNCHANGED <<tasks, logs, queued, audit, op, task, to>>
  BY OnlyCommit DEF store
<1>2. UNCHANGED pc \/ \E c \in Call : \E s \in Stage :
                        pc' = [pc EXCEPT ![c] = s] /\ pc[c] # "done"
  BY DEF Next, Step, Ended, vars, Begin, Find, Write, PickHead, LockHead,
         InsertAudit, Commit, Abort, Goto, Stage, Open
<1>3. CASE UNCHANGED pc
  BY <1>1, <1>3 DEF Atomic!vars
<1>4. ASSUME NEW c \in Call, NEW s \in Stage, pc' = [pc EXCEPT ![c] = s],
             pc[c] # "done"
      PROVE  [Atomic!Next]_(Atomic!vars)
  <2>1. CASE s = "done"
    <3>1. {d \in Call : pc'[d] = "done"} = {d \in Call : pc[d] = "done"} \cup {c}
      BY <1>4, <2>1
    <3>2. Atomic!Fail(c)
      BY <1>1, <1>4, <3>1 DEF Atomic!Fail
    <3>3. QED
      BY <3>2 DEF Atomic!Next
  <2>2. CASE s # "done"
    <3>1. {d \in Call : pc'[d] = "done"} = {d \in Call : pc[d] = "done"}
      BY <1>4, <2>2
    <3>2. QED
      BY <1>1, <3>1 DEF Atomic!vars
  <2>3. QED
    BY <2>1, <2>2
<1>5. QED
  BY <1>2, <1>3, <1>4

\* On either driver the calls of the service are atomic; on SQLite they read
\* what they change, on PostgreSQL what it has been.
THEOREM AtomicCorrect == Spec => CallsAtomic
<1>1. Init => Atomic!Init
  <2> SUFFICES ASSUME Init PROVE Atomic!Init
    OBVIOUS
  <2>1. {c \in Call : pc[c] = "done"} = {}
    BY DEF Init
  <2>2. QED
    BY <2>1 DEF Init, Op, Untouched, Atomic!Init, Atomic!Untouched
<1>2. IInv /\ [Next]_vars => [Atomic!Next]_(Atomic!vars)
  <2> SUFFICES ASSUME IInv, [Next]_vars PROVE [Atomic!Next]_(Atomic!vars)
    OBVIOUS
  <2>1. CASE UNCHANGED store
    BY <2>1, OthersStutter DEF IInv
  <2>2. ASSUME NEW c \in Call, Commit(c) PROVE Atomic!Next
    BY <2>2, CommitIsDo DEF Atomic!Next
  <2>3. QED
    BY <2>1, <2>2, OnlyCommit
<1>3. QED
  BY <1>1, <1>2, IInvCorrect, PTL DEF Spec, CallsAtomic, Atomic!Spec
=============================================================================
