----------------------------- MODULE AtomicTasks -----------------------------
(***************************************************************************)
(* What the write operations of modules/tasks/service.go promise: a call   *)
(* either does nothing or, in one step, changes its task, logs the         *)
(* assignment, queues one event and appends one row to the audit log that  *)
(* tells what the task was and became.  On either driver the change is     *)
(* made to the task as it is; what the log and the audit row say it was is *)
(* that very row when Fresh, and else a row it was at some earlier time.   *)
(***************************************************************************)
EXTENDS Integers, Sequences

CONSTANTS
    Call, NoCall, Task, User, Nobody, Absent,   \* as in TaskTx
    Fresh   \* TRUE: old values are current and the audit log is one chain

VARIABLES
    tasks,   \* tasks[k]: the row of task k, or Absent
    logs,    \* logs[k]: the assignments logged for k
    queued,  \* queued[k]: how many events about k were queued
    audit,   \* the audit log
    op,      \* op[c]: what c does
    task,    \* task[c]: the task c is about
    to,      \* to[c]: the assignee c assigns
    done     \* the calls that have returned

vars == <<tasks, logs, queued, audit, op, task, to, done>>

Untouched == [text |-> NoCall, assignee |-> Nobody]

Init ==
    /\ tasks \in [Task -> {Absent, Untouched}]
    /\ logs = [k \in Task |-> <<>>]
    /\ queued = [k \in Task |-> 0]
    /\ audit = {}
    /\ op \in [Call -> {"create", "update", "assign", "delete"}]
    /\ task \in [Call -> Task]
    /\ to \in [Call -> User]
    /\ done = {}

\* What c makes of the row it finds.
Result(c, row) == CASE op[c] = "create" -> [text |-> c, assignee |-> Nobody]
                    [] op[c] = "update" -> [row EXCEPT !.text = c]
                    [] op[c] = "assign" -> [row EXCEPT !.assignee = to[c]]
                    [] op[c] = "delete" -> Absent

\* The log of c's task after c.
Log(c, row) == CASE op[c] = "delete" -> <<>>
                 [] op[c] = "assign" ->
                      Append(logs[task[c]], [old |-> row.assignee, new |-> to[c]])
                 [] OTHER -> logs[task[c]]

\* What task k is and has been, as its audit rows tell.
Past(k) == {tasks[k]} \cup UNION {{a.old, a.new} : a \in {b \in audit : b.task = k}}

\* a is the next row of its task's trail and links to an earlier row; when
\* Fresh, to the newest one.
Appended(a) == /\ \A b \in audit : b.id # a.id /\ (b.task = a.task => b.id < a.id)
               /\ a.prev \in {0} \cup {b.id : b \in audit}
               /\ a.prev < a.id
               /\ Fresh => \A b \in audit : b.id <= a.prev
               /\ audit' = audit \cup {a}

Do(c) ==
    LET k   == task[c]
        row == tasks[k]
    IN  /\ c \notin done
        /\ row = Absent <=> op[c] = "create"
        /\ tasks' = [tasks EXCEPT ![k] = Result(c, row)]
        /\ queued' = [queued EXCEPT ![k] = @ + 1]
        /\ \E was \in Past(k), a \in audit' \ audit :
              /\ was = Absent <=> op[c] = "create"
              /\ Fresh => was = row
              /\ logs' = [logs EXCEPT ![k] = Log(c, was)]
              /\ Appended(a)
              /\ a.task = k
              /\ a.old = was
              /\ a.new = Result(c, row)
        /\ done' = done \cup {c}
        /\ UNCHANGED <<op, task, to>>

Fail(c) ==
    /\ c \notin done
    /\ done' = done \cup {c}
    /\ UNCHANGED <<tasks, logs, queued, audit, op, task, to>>

Next == \E c \in Call : Do(c) \/ Fail(c)

Spec == Init /\ [][Next]_vars
=============================================================================
