--------------------------- MODULE IdempotentSlot ---------------------------
(***************************************************************************)
(* What the Idempotency-Key middleware promises to the clients of one      *)
(* scope, without its table: the requests pass one by one through a slot   *)
(* that keeps the response of the last one that succeeded.  Until the      *)
(* window of an effect or of a kept response is over by the database's     *)
(* clock nobody else gets in.  Whoever carries the same payload may be     *)
(* sent a response whose window is open by Go's clock; it is the kept one  *)
(* unless the database's clock is ahead and has closed its window.  A      *)
(* request may be refused at any time.                                     *)
(***************************************************************************)
EXTENDS Naturals

CONSTANTS Request, NoRequest, Payload, NoPayload, TTL, Skew   \* as in Idempotency

VARIABLES
    clock,     \* Go's clock
    now,       \* the database's clock
    payload,   \* payload[r]: what r carries
    lease,     \* lease[r]: the end of r's window
    inside,    \* the request that is let in, if any, as a set
    kept,      \* the request whose response is kept, or NoRequest
    result,    \* result[r]: what r's handler did
    answer,    \* answer[r]: what r's client was sent
    replayed,  \* replayed[r]: whose response r was sent, when replayed
    effects    \* the requests whose handler committed

time  == <<clock, now>>
asked == <<payload, lease>>
told  == <<answer, replayed>>
vars  == <<clock, now, payload, lease, inside, kept, result, answer, replayed,
           effects>>

Init ==
    /\ clock = 0
    /\ now \in 0 .. Skew
    /\ payload = [r \in Request |-> NoPayload]
    /\ lease = [r \in Request |-> 0]
    /\ inside = {}
    /\ kept = NoRequest
    /\ result = [r \in Request |-> "none"]
    /\ answer = [r \in Request |-> "none"]
    /\ replayed = [r \in Request |-> NoRequest]
    /\ effects = {}

InWindow(r) == now < lease[r]

\* A kept response is given up only after its window.
Outlived == kept # NoRequest => ~InWindow(kept)

\* r has arrived and is neither inside nor answered.
Waiting(r) == /\ payload[r] # NoPayload
              /\ r \notin inside
              /\ result[r] = "none"
              /\ answer[r] = "none"

Arrive(r) ==
    /\ payload[r] = NoPayload
    /\ \E p \in Payload : payload' = [payload EXCEPT ![r] = p]
    /\ lease' = [lease EXCEPT ![r] = clock + TTL]
    /\ UNCHANGED <<time, inside, kept, result, told, effects>>

\* Only an effect whose client was told 500 does not shut the slot.
Admit(r) ==
    /\ Waiting(r)
    /\ InWindow(r)
    /\ inside = {}
    /\ \A e \in effects : InWindow(e) => result[e] = "unknown"
    /\ Outlived
    /\ inside' = {r}
    /\ kept' = NoRequest
    /\ UNCHANGED <<time, asked, result, told, effects>>

Run(r) ==
    /\ r \in inside
    /\ result[r] = "none"
    /\ \E res \in {"ok", "rejected", "error", "unknown"} :
          /\ result' = [result EXCEPT ![r] = res]
          /\ effects' = IF res \in {"ok", "unknown"} THEN effects \cup {r}
                                                     ELSE effects
    /\ answer' = [answer EXCEPT ![r] = "own"]
    /\ UNCHANGED <<time, asked, inside, kept, replayed>>

\* r leaves, with its response kept if it succeeded, or without: a crash, an
\* error of the store.
Finish(r) ==
    /\ r \in inside
    /\ inside' = {}
    /\ \/ kept' = kept
       \/ result[r] \in {"ok", "rejected"} /\ kept' = r
    /\ UNCHANGED <<time, asked, result, told, effects>>

Replay(r) ==
    /\ Waiting(r)
    /\ \E w \in Request :
          /\ result[w] \in {"ok", "rejected"}
          /\ w \notin inside
          /\ payload[w] = payload[r]
          /\ clock < lease[w]
          /\ InWindow(w) => kept = w
          /\ replayed' = [replayed EXCEPT ![r] = w]
    /\ answer' = [answer EXCEPT ![r] = "replay"]
    /\ UNCHANGED <<time, asked, inside, kept, result, effects>>

\* "mismatch" tells the truth: somebody has come with another payload.
Refuse(r) ==
    /\ Waiting(r)
    /\ \E why \in {"concurrent", "mismatch", "internal"} :
          /\ answer' = [answer EXCEPT ![r] = why]
          /\ why = "mismatch" =>
                \E s \in Request : payload[s] \notin {NoPayload, payload[r]}
    /\ \/ kept' = kept
       \/ Outlived /\ kept' = NoRequest
    /\ UNCHANGED <<time, asked, inside, result, replayed, effects>>

Forget ==
    /\ Outlived
    /\ kept' = NoRequest
    /\ UNCHANGED <<time, asked, inside, result, told, effects>>

\* Time passes, and does not outrun the request that is inside.
Tick ==
    /\ clock' \in {clock, clock + 1}
    /\ now' \in {now, now + 1}
    /\ clock' <= now' + Skew /\ now' <= clock' + Skew
    /\ \A r \in inside : now' < lease[r]
    /\ UNCHANGED <<asked, inside, kept, result, told, effects>>

Next ==
    \/ \E r \in Request : \/ Arrive(r) \/ Admit(r) \/ Run(r) \/ Finish(r)
                          \/ Replay(r) \/ Refuse(r)
    \/ Forget
    \/ Tick

Spec == Init /\ [][Next]_vars
=============================================================================
