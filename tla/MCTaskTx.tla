------------------------------ MODULE MCTaskTx ------------------------------
(* Small instances of TaskTx for TLC.                                       *)
EXTENDS TaskTx, TLC

Interchangeable ==
    Permutations(Call) \cup Permutations(Task) \cup Permutations(User)

\* Of three calls about two tasks, two are about the same one, and calls about
\* one task can be told apart by what they do: up to renaming the calls 1, 2, 3,
\* the tasks 1, 2 and the users 1, 2, these are all the cases there are.  A task
\* that no call is about has no row, and a call that assigns nobody names user 1.
\* It stands for symmetry, which TLC cannot use for a liveness property.
Rank == [create |-> 1, update |-> 2, assign |-> 3, delete |-> 4]

UpToRenaming ==
    /\ \A c \in Call \ {3} : task[c] = 1
    /\ \A c, d \in Call :
          c < d /\ task[c] = task[d] => Rank[op[c]] <= Rank[op[d]]
    /\ \A k \in Task : (\A c \in Call : task[c] # k) => tasks[k] = Absent
    /\ \A c \in Call :
          to[c] # 1 => op[c] = "assign" /\ \E d \in Call : d < c /\ op[d] = "assign"

EndingInit == Init /\ UpToRenaming

EndingSpec == /\ EndingInit
              /\ [][Next]_vars
              /\ \A c \in Call : WF_vars(Step(c))
=============================================================================
