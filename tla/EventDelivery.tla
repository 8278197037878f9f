---------------------------- MODULE EventDelivery ----------------------------
(***************************************************************************)
(* What the outbox promises for the events of committed transactions,      *)
(* without its relays, batches, claims and attempt counters.  An event     *)
(* waits, is delivered, and is done; it is delivered again only when the   *)
(* delivery that was under way has been written off, and it is buried only *)
(* after MaxAttempts attempts were refused or written off.                 *)
(***************************************************************************)
EXTENDS Naturals

CONSTANTS Event, MaxAttempts    \* as in OutboxRelay

VARIABLES
    place,     \* place[e]: where e is in its life
    handled,   \* handled[e]: times all the handlers of e succeeded
    late,      \* late[e]: deliveries of e that may still be made unseen
    refused,   \* refused[e]: attempts that were refused
    lost       \* lost[e]: attempts that were written off

vars == <<place, handled, late, refused, lost>>

Init ==
    /\ place = [e \in Event |-> "none"]
    /\ handled = [e \in Event |-> 0]
    /\ late = [e \in Event |-> 0]
    /\ refused = [e \in Event |-> 0]
    /\ lost = [e \in Event |-> 0]

Move(e, from, to) == /\ place[e] = from
                     /\ place' = [place EXCEPT ![e] = to]

\* Every delivery of e so far, made or still to be made, is written off.
Owed(e) == handled[e] + late[e] <= lost[e]

\* The attempts of e are used up, counting the one that has just ended.
Exhausted(e) == refused[e] + lost[e] + 1 >= MaxAttempts

Add(e) == /\ UNCHANGED <<handled, late, refused, lost>>
          /\ Move(e, "none", "waiting")

Deliver(e) == /\ Owed(e)
              /\ handled' = [handled EXCEPT ![e] = @ + 1]
              /\ UNCHANGED <<late, refused, lost>>
              /\ Move(e, "waiting", "delivered")

\* The relay is told to stop while e is being handled, and will not know.
LoseSight(e) == /\ Owed(e)
                /\ place[e] = "waiting"
                /\ \/ /\ handled' = [handled EXCEPT ![e] = @ + 1]
                      /\ late' = late
                   \/ /\ late' = [late EXCEPT ![e] = @ + 1]
                      /\ handled' = handled
                /\ UNCHANGED <<place, refused, lost>>

DrainLate(e) == /\ late[e] > 0
                /\ late' = [late EXCEPT ![e] = @ - 1]
                /\ handled' \in {handled, [handled EXCEPT ![e] = @ + 1]}
                /\ UNCHANGED <<place, refused, lost>>

Done(e) == /\ UNCHANGED <<handled, late, refused, lost>>
           /\ Move(e, "delivered", "done")

Refuse(e) == /\ refused' = [refused EXCEPT ![e] = @ + 1]
             /\ UNCHANGED <<handled, late, lost>>
             /\ \/ Move(e, "waiting", "waiting")
                \/ Exhausted(e) /\ Move(e, "waiting", "dead")

\* A fault cuts off the attempts under way for es.  Only one that had not been
\* delivered can bury its event.
WriteOff(es) ==
    /\ lost' = [e \in Event |-> IF e \in es THEN lost[e] + 1 ELSE lost[e]]
    /\ \A e \in es : place[e] \in {"waiting", "delivered"}
    /\ \E buried \in SUBSET {e \in es : place[e] = "waiting" /\ Exhausted(e)} :
          place' = [e \in Event |-> IF e \in buried THEN "dead"
                                    ELSE IF e \in es THEN "waiting"
                                    ELSE place[e]]
    /\ UNCHANGED <<handled, late, refused>>

Purge(e) == /\ UNCHANGED <<handled, late, refused, lost>>
            /\ Move(e, "done", "purged")

Next ==
    \/ \E e \in Event : \/ Add(e) \/ Deliver(e) \/ LoseSight(e) \/ DrainLate(e)
                        \/ Done(e) \/ Refuse(e) \/ Purge(e)
    \/ \E es \in SUBSET Event : WriteOff(es)

Spec == Init /\ [][Next]_vars
=============================================================================
