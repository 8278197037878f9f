------------------------------- MODULE TaskTx -------------------------------
(***************************************************************************)
(* The write transactions of modules/tasks/service.go: a change of a task, *)
(* its row in task_logs, its outbox event and its link in the audit chain  *)
(* of platform/audit/writer.go, all in one ExecTx.                         *)
(*                                                                         *)
(* Serialized is what the driver makes of concurrent transactions.  SQLite *)
(* has a single connection and begins IMMEDIATE: TRUE.  PostgreSQL runs    *)
(* them READ COMMITTED, where a statement sees what is committed when it   *)
(* starts, an UPDATE waits for the row's lock, and SELECT ... FOR UPDATE   *)
(* picks its row first and then waits for the lock on it: FALSE.           *)
(*                                                                         *)
(* What a transaction inserts is seen by nobody else before it commits, so *)
(* the inserts into task_logs and outbox_events are part of the step whose *)
(* row lock orders them.  A hash stands for the row it was computed for.   *)
(*                                                                         *)
(* An outbox event is only counted: its created_at is a wall clock's, and  *)
(* says nothing of the order of the changes.  On SQLite the clock of the   *)
(* process may tie or be set back between two transactions, on PostgreSQL  *)
(* it is the start of the transaction.  OutboxRelay lets events come in    *)
(* any order.                                                              *)
(***************************************************************************)
EXTENDS Integers, Sequences

CONSTANTS
    Call,        \* calls of the service
    NoCall,      \* author of the text of a task that exists from the start
    Task,        \* tasks of one user, existing or to be created
    User,        \* possible assignees
    Nobody,      \* assignee_id IS NULL
    Absent,      \* the task has no row
    Serialized   \* TRUE: SQLite; FALSE: PostgreSQL

\* The columns of a task: its text, named by the call that wrote it, and its
\* assignee.
State == [text: Call \cup {NoCall}, assignee: User \cup {Nobody}]

ASSUME NoCallAssumption == NoCall \notin Call
ASSUME AbsentAssumption == Absent \notin State
ASSUME SerializedAssumption == Serialized \in BOOLEAN

Maybe == State \cup {Absent}

Row == [id: Nat, prev: Nat, task: Task, old: Maybe, new: Maybe]

VARIABLES
    tasks,   \* tasks[k]: the committed row of task k, or Absent
    logs,    \* logs[k]: the rows of task_logs about k, in the order of id
    queued,  \* queued[k]: how many outbox events about k there are
    audit,   \* the committed rows of audit_logs
    nextId,  \* the id the next inserted audit row gets
    pc,      \* pc[c]: the statement c executes next
    op,      \* op[c]: what c does
    task,    \* task[c]: the task c is about
    to,      \* to[c]: the assignee c assigns
    old,     \* old[c]: the row c read
    new,     \* new[c]: the row c wrote
    head,    \* head[c]: id of the audit row c links to, 0 for GenesisHash
    entry    \* entry[c]: id of c's audit row

store == <<tasks, logs, queued, audit>>
input == <<op, task, to>>
local == <<old, new, head, entry>>
vars  == <<tasks, logs, queued, audit, nextId, pc, op, task, to, old, new, head,
           entry>>

Op == {"create", "update", "assign", "delete"}

Stage == {"idle", "find", "write", "head", "lock", "append", "commit", "done"}

Goto(c, stage) == pc' = [pc EXCEPT ![c] = stage]

Open(c) == pc[c] \notin {"idle", "done"}

\* c has written its task and keeps the row locked until it ends.
Writing(c) == pc[c] \in {"head", "lock", "append", "commit"}

\* c keeps the audit row it links to locked until it ends; the genesis hash is
\* no row and cannot be locked.
LinkingOrWaiting(c) ==       \* mutant: those who wait are counted as holders
    pc[c] \in {"lock", "append", "commit"} /\ head[c] # 0

Linking(c) == pc[c] \in {"append", "commit"} /\ head[c] # 0

\* Only a created task has no row before.
OldRead ==
    \A c \in Call :
        /\ pc[c] \in {"idle", "find"} => old[c] = Absent
        /\ pc[c] = "find" => op[c] # "create"
        /\ Writing(c) \/ pc[c] = "write" => (old[c] = Absent <=> op[c] = "create")

TypeOK ==
    /\ tasks \in [Task -> Maybe]
    /\ logs \in [Task -> Seq([old: User \cup {Nobody}, new: User])]
    /\ queued \in [Task -> Nat]
    /\ audit \subseteq Row
    /\ nextId \in Nat \ {0}
    /\ pc \in [Call -> Stage]
    /\ op \in [Call -> Op]
    /\ task \in [Call -> Task]
    /\ to \in [Call -> User]
    /\ old \in [Call -> Maybe]
    /\ new \in [Call -> Maybe]
    /\ head \in [Call -> Nat]
    /\ entry \in [Call -> Nat]
    /\ OldRead

Untouched == [text |-> NoCall, assignee |-> Nobody]

Init ==
    /\ tasks \in [Task -> {Absent, Untouched}]
    /\ logs = [k \in Task |-> <<>>]
    /\ queued = [k \in Task |-> 0]
    /\ audit = {}
    /\ nextId = 1
    /\ pc = [c \in Call |-> "idle"]
    /\ op \in [Call -> Op]
    /\ task \in [Call -> Task]
    /\ to \in [Call -> User]
    /\ old = [c \in Call |-> Absent]
    /\ new = [c \in Call |-> Absent]
    /\ head = [c \in Call |-> 0]
    /\ entry = [c \in Call |-> 0]
    /\ \A c, d \in Call :
          op[c] = "create" => /\ tasks[task[c]] = Absent
                              /\ op[d] = "create" /\ task[c] = task[d] => c = d

-----------------------------------------------------------------------------
(* ExecTx and the statements inside it.                                     *)

BeginDeferred(c) ==          \* mutant: transactions do not wait for each other
    /\ pc[c] = "idle"
    /\ Goto(c, IF op[c] = "create" THEN "write" ELSE "find")
    /\ UNCHANGED <<store, nextId, input, local>>

\* BeginTx: on SQLite it waits until no transaction is open.
Begin(c) ==
    /\ pc[c] = "idle"
    /\ Serialized => \A d \in Call : ~Open(d)
    /\ Goto(c, IF op[c] = "create" THEN "write" ELSE "find")
    /\ UNCHANGED <<store, nextId, input, local>>

FindDirty(c) ==              \* mutant: READ UNCOMMITTED
    /\ pc[c] = "find"
    /\ \E row \in {tasks[task[c]]} \cup
                  {new[d] : d \in {e \in Call : Writing(e) /\ task[e] = task[c]}} :
          /\ old' = [old EXCEPT ![c] = row]
          /\ Goto(c, IF row = Absent THEN "done" ELSE "write")
    /\ UNCHANGED <<store, nextId, input, new, head, entry>>

\* FindTx reads the task without locking it.
Find(c) ==
    /\ pc[c] = "find"
    /\ old' = [old EXCEPT ![c] = tasks[task[c]]]
    /\ Goto(c, IF tasks[task[c]] = Absent THEN "done" ELSE "write")
    /\ UNCHANGED <<store, nextId, input, new, head, entry>>

ChangedStale(c) ==           \* mutant: the row as read is written back whole
    CASE op[c] = "create" -> [text |-> c, assignee |-> Nobody]
      [] op[c] = "update" -> [old[c] EXCEPT !.text = c]
      [] op[c] = "assign" -> [old[c] EXCEPT !.assignee = to[c]]
      [] op[c] = "delete" -> Absent

\* What INSERT, UPDATE and DELETE make of the row as it is now.
Changed(c) ==
    LET row == tasks[task[c]]
    IN  CASE op[c] = "create" -> [text |-> c, assignee |-> Nobody]
          [] op[c] = "update" -> [row EXCEPT !.text = c]
          [] op[c] = "assign" -> [row EXCEPT !.assignee = to[c]]
          [] op[c] = "delete" -> Absent

WriteUnlocked(c) ==          \* mutant: writers of a task do not wait
    /\ pc[c] = "write"
    /\ \/ /\ op[c] = "create" \/ tasks[task[c]] # Absent
          /\ new' = [new EXCEPT ![c] = Changed(c)]
          /\ Goto(c, "head")
       \/ /\ op[c] # "create" /\ tasks[task[c]] = Absent
          /\ Goto(c, "done")
          /\ UNCHANGED new
    /\ UNCHANGED <<store, nextId, input, old, head, entry>>

WriteBlind(c) ==             \* mutant: nobody looks whether a row was deleted
    /\ pc[c] = "write"
    /\ \A d \in Call : Writing(d) => task[d] # task[c]
    /\ \/ /\ op[c] \in {"create", "delete"} \/ tasks[task[c]] # Absent
          /\ new' = [new EXCEPT ![c] = Changed(c)]
          /\ Goto(c, "head")
       \/ /\ op[c] \in {"update", "assign"} /\ tasks[task[c]] = Absent
          /\ Goto(c, "done")
          /\ UNCHANGED new
    /\ UNCHANGED <<store, nextId, input, old, head, entry>>

\* The change of the task.  It waits for another writer of the task to end,
\* and finds nothing to change when that one deleted it.
Write(c) ==
    /\ pc[c] = "write"
    /\ \A d \in Call : Writing(d) => task[d] # task[c]
    /\ \/ /\ op[c] = "create" \/ tasks[task[c]] # Absent
          /\ new' = [new EXCEPT ![c] = Changed(c)]
          /\ Goto(c, "head")
       \/ /\ op[c] # "create" /\ tasks[task[c]] = Absent
          /\ Goto(c, "done")
          /\ UNCHANGED new
    /\ UNCHANGED <<store, nextId, input, old, head, entry>>

\* The ids an audit row can link to, 0 being the genesis hash.
Link == {0} \cup {a.id : a \in audit}

PickHeadById(c) ==           \* mutant: the id before the next is taken for the head
    /\ pc[c] = "head"
    /\ head' = [head EXCEPT ![c] = nextId - 1]
    /\ Goto(c, "lock")
    /\ UNCHANGED <<store, nextId, input, old, new, entry>>

PickHeadUnordered(c) ==      \* mutant: no ORDER BY
    /\ pc[c] = "head"
    /\ \E h \in Link : head' = [head EXCEPT ![c] = h]
    /\ Goto(c, "lock")
    /\ UNCHANGED <<store, nextId, input, old, new, entry>>

\* LogTx picks the newest committed row, or genesis when there is none ...
PickHead(c) ==
    /\ pc[c] = "head"
    /\ \E h \in Link : /\ \A a \in audit : a.id <= h
                       /\ head' = [head EXCEPT ![c] = h]
    /\ Goto(c, "lock")
    /\ UNCHANGED <<store, nextId, input, old, new, entry>>

\* ... and gets it once nobody else holds its lock, still the same row.
LockHead(c) ==
    /\ pc[c] = "lock"
    /\ \A d \in Call : Linking(d) => head[d] # head[c]
    /\ Goto(c, "append")
    /\ UNCHANGED <<store, nextId, input, local>>

\* The INSERT into audit_logs draws its id at once; nobody sees the row yet.
InsertAudit(c) ==
    /\ pc[c] = "append"
    /\ entry' = [entry EXCEPT ![c] = nextId]
    /\ nextId' = nextId + 1
    /\ Goto(c, "commit")
    /\ UNCHANGED <<store, input, old, new, head>>

\* The rows that c's commit adds.
AuditRow(c) == [id |-> entry[c], prev |-> head[c], task |-> task[c],
                old |-> old[c], new |-> new[c]]

\* Deleting a task cascades to its log.
Logged(c) == CASE op[c] = "delete" -> <<>>
               [] op[c] = "assign" ->
                    Append(logs[task[c]], [old |-> old[c].assignee, new |-> to[c]])
               [] OTHER -> logs[task[c]]

Commit(c) ==
    /\ pc[c] = "commit"
    /\ tasks' = [tasks EXCEPT ![task[c]] = new[c]]
    /\ logs' = [logs EXCEPT ![task[c]] = Logged(c)]
    /\ queued' = [queued EXCEPT ![task[c]] = @ + 1]
    /\ audit' = audit \cup {AuditRow(c)}
    /\ Goto(c, "done")
    /\ UNCHANGED <<nextId, input, local>>

AbortKept(c) ==              \* mutant: the task was written outside of the transaction
    /\ Open(c)
    /\ tasks' = IF Writing(c) THEN [tasks EXCEPT ![task[c]] = new[c]] ELSE tasks
    /\ Goto(c, "done")
    /\ UNCHANGED <<logs, queued, audit, nextId, input, local>>

\* A statement fails (an invalid assignee and a correlation id too long for its
\* column included), the handler panics or the process dies: a rollback.
Abort(c) ==
    /\ Open(c)
    /\ Goto(c, "done")
    /\ UNCHANGED <<store, nextId, input, local>>

Ended == /\ \A c \in Call : pc[c] = "done"
         /\ UNCHANGED vars

Step(c) == \/ Begin(c) \/ Find(c) \/ Write(c) \/ PickHead(c) \/ LockHead(c)
           \/ InsertAudit(c) \/ Commit(c)

Next == \/ \E c \in Call : Step(c) \/ Abort(c)
        \/ Ended

Spec == Init /\ [][Next]_vars

\* Statements return; a lock is granted once its holder has ended.
FairSpec == Spec /\ \A c \in Call : WF_vars(Step(c))

-----------------------------------------------------------------------------
(* Properties.                                                              *)

\* Every audit row links to the genesis hash or to a row that was committed
\* before it, whatever was rolled back in between.
AuditRooted ==
    \A a \in audit : \/ a.prev = 0
                     \/ a.prev < a.id /\ \E b \in audit : b.id = a.prev

\* No two audit rows link to the same predecessor: with AuditRooted, the rows
\* form one chain in the order of their ids.
AuditLinked == \A a, b \in audit : a.prev = b.prev => a = b

\* No row is passed over: each links to the one right before it, so that whoever
\* follows the links from the newest row sees every row there is.
AuditInOrder == \A a, b \in audit : b.id < a.id => b.id <= a.prev

\* The audit rows of task k.
Trail(k) == {a \in audit : a.task = k}

\* No row of a task links behind an earlier row of that task: where the log forks,
\* the rows that pass over each other are of different tasks.
TrailLinked ==
    \A k \in Task : \A a, b \in Trail(k) : a.id < b.id => a.id <= b.prev

\* The newest audit row of a task shows the task as it is.
TrailCurrent ==
    \A k \in Task : \A a \in Trail(k) :
        (\A b \in Trail(k) : b.id <= a.id) => a.new = tasks[k]

\* The audit rows of a task tell one story: each starts from the row that the
\* one before it left.
TrailConsecutive ==
    \A k \in Task : \A a, b \in Trail(k) :
        a.id < b.id /\ (\A c \in Trail(k) : c.id <= a.id \/ b.id <= c.id)
            => b.old = a.new

\* The last assignment logged for a task is the one in force.
LogCurrent ==
    \A k \in Task :
        logs[k] # <<>> => /\ tasks[k] # Absent
                          /\ tasks[k].assignee = logs[k][Len(logs[k])].new

\* Each logged assignment starts from the assignee the one before it left.
LogConsecutive ==
    \A k \in Task : \A i \in 1 .. Len(logs[k]) - 1 :
        logs[k][i + 1].old = logs[k][i].new

\* A deletion is the last word on a task: of calls that race for it one deletes,
\* none of the others changes or audits the task after that, and its log is gone.
DeletedForGood ==
    \A k \in Task : \A a \in Trail(k) :
        a.new = Absent => /\ tasks[k] = Absent
                          /\ logs[k] = <<>>
                          /\ \A b \in Trail(k) : b.id <= a.id

\* The promise of AtomicTasks.
Atomic == INSTANCE AtomicTasks
            WITH Fresh  <- Serialized,
                 done   <- {c \in Call : pc[c] = "done"}

\* The statements of a call are one step to everybody else, and a call that
\* fails leaves nothing behind.  The change is of the row as it is; the log and
\* the audit row tell of that row on SQLite, and on PostgreSQL of one that the
\* task was when it was read.
CallsAtomic == Atomic!Spec

\* No call waits for ever: writers of a task and appenders to the chain never
\* wait for each other in a circle, and all calls end (once for good).
CallsEnd == <>(\A c \in Call : pc[c] = "done")

-----------------------------------------------------------------------------
(* The inductive invariant behind the safety properties.                    *)

\* Audit ids are drawn once and only ever grow, and a link is to a row that
\* stays.
LinkedBack ==
    /\ \A a \in audit : a.id \in 1 .. nextId - 1
    /\ \A c \in Call : pc[c] \in {"lock", "append", "commit"} => head[c] \in Link
    /\ \A c \in Call : pc[c] = "commit" => /\ entry[c] \in 1 .. nextId - 1
                                           /\ head[c] < entry[c]

\* A task has one writer at a time, and its audit row will be the newest.
OneWriter ==
    \A c \in Call : Writing(c) =>
        /\ \A d \in Call : Writing(d) /\ task[d] = task[c] => d = c
        /\ pc[c] = "commit" => \A a \in Trail(task[c]) : a.id < entry[c]

\* The head that the writer of a task has picked is not behind the task's rows.
HeadBeyond ==
    \A c \in Call : pc[c] \in {"lock", "append", "commit"} =>
        \A a \in Trail(task[c]) : a.id <= head[c]

\* A task that is yet to be created has no history.
Unborn ==
    \A c \in Call : op[c] = "create" /\ pc[c] # "done" =>
        /\ tasks[task[c]] = Absent
        /\ Trail(task[c]) = {}
        /\ \A d \in Call : task[d] = task[c] =>
              \/ d = c
              \/ op[d] # "create" /\ pc[d] \in {"idle", "find", "done"}

\* On SQLite a transaction is alone, so nothing that it read goes stale.
Alone ==
    Serialized => \A c \in Call : Open(c) =>
        /\ \A d \in Call : Open(d) => d = c
        /\ pc[c] \in {"lock", "append", "commit"} =>
               \A a \in audit : a.id <= head[c]
        /\ pc[c] # "find" => old[c] = tasks[task[c]]

\* Until it ends, the writer of a task has written what the task is to become.
Computed ==
    \A c \in Call : Writing(c) =>
        /\ new[c] = Changed(c)
        /\ op[c] # "create" => tasks[task[c]] # Absent

\* No two audit rows get one id.
Drawn ==
    \A c \in Call : pc[c] = "commit" =>
        /\ \A a \in audit : a.id # entry[c]
        /\ \A d \in Call : pc[d] = "commit" /\ entry[d] = entry[c] => d = c

\* What a task is, its newest audit row tells, and what a transaction has read,
\* the task has been.
ReadCommitted ==
    /\ \A k \in Task : Trail(k) # {} => \E a \in Trail(k) : a.new = tasks[k]
    /\ \A c \in Call : Writing(c) \/ pc[c] = "write" => old[c] \in Atomic!Past(task[c])

IInv == /\ TypeOK
        /\ LinkedBack
        /\ Drawn
        /\ ReadCommitted
        /\ AuditRooted
        /\ OneWriter
        /\ HeadBeyond
        /\ TrailLinked
        /\ TrailCurrent
        /\ Unborn
        /\ Alone
        /\ Computed
        /\ LogCurrent
        /\ DeletedForGood
        /\ Serialized => /\ AuditLinked
                         /\ AuditInOrder
                         /\ TrailConsecutive
                         /\ LogConsecutive
=============================================================================
