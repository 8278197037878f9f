----------------------------- MODULE MCSessions -----------------------------
(* A small instance of Sessions for TLC.                                    *)
EXTENDS Sessions, TLC

Interchangeable == Permutations(Call) \cup Permutations(Password)

\* At least one of the calls presents a token: what registrations and logins do
\* to each other without one, three of them and the seed command show as well.
SomeonePresents == \E c \in Call : op[c] \in {"me", "logout"}

PresentingInit == Init /\ SomeonePresents

PresentingSpec == PresentingInit /\ [][Next]_vars
=============================================================================
