------------------------- MODULE OutboxRelayProofs -------------------------
(***************************************************************************)
(* Proofs about OutboxRelay, for any set of events and relays, any batch   *)
(* size, any number of attempts and any number of faults.                  *)
(***************************************************************************)
EXTENDS OutboxRelay, FiniteSetTheorems, TLAPS

-----------------------------------------------------------------------------
(* Type correctness.                                                        *)

\* The counter of cut-off attempts stays a counter.
LEMMA LostTooType ==
    ASSUME TypeOK, NEW es
    PROVE  LostToo(es) \in [Event -> Nat]
BY DEF TypeOK, LostToo

\* What a claim of items by r changes.
Claims(r, items) ==
    /\ batch[r] = {}
    /\ status' = [e \in Event |->
                     IF e \in items THEN "processing" ELSE status[e]]
    /\ attempts' = Counted(items)
    /\ due' = due \ items
    /\ \/ /\ batch' = [batch EXCEPT ![r] = items]
          /\ read' = [read EXCEPT ![r] =
                 [e \in Event |-> IF e \in items THEN attempts[e] ELSE 0]]
          /\ UNCHANGED lost
       \/ /\ lost' = LostToo(items)
          /\ UNCHANGED <<batch, read>>
    /\ UNCHANGED <<outcome, stopping, late, handled, refused>>

\* A claim takes the oldest of the claimable events, but for those a failing
\* claim has locked.
LEMMA ClaimTakes ==
    ASSUME faults \in Nat, NEW r \in Relay, ClaimBatch(r)
    PROVE  \E locked \in SUBSET Claimable :
              /\ Claims(r, Oldest(Claimable \ locked))
              /\ locked = {} \/ faults' # faults
<1>1. PICK locked \in SUBSET Claimable :
         LET items == Oldest(Claimable \ locked)
         IN  /\ items # {}
             /\ status' = [e \in Event |->
                              IF e \in items THEN "processing" ELSE status[e]]
             /\ attempts' = Counted(items)
             /\ due' = due \ items
             /\ \/ /\ batch' = [batch EXCEPT ![r] = items]
                   /\ read' = [read EXCEPT ![r] =
                          [e \in Event |-> IF e \in items THEN attempts[e] ELSE 0]]
                   /\ IF locked = {} THEN UNCHANGED faults ELSE Fault
                   /\ UNCHANGED lost
                \/ /\ Fault
                   /\ lost' = LostToo(items)
                   /\ UNCHANGED <<batch, read>>
  BY Zenon DEF ClaimBatch
<1>2. Fault => faults' # faults
  BY DEF Fault
<1>3. Claims(r, Oldest(Claimable \ locked))
  BY <1>1 DEF ClaimBatch, Claims
<1>4. locked = {} \/ faults' # faults
  BY <1>1, <1>2
<1>5. QED
  BY <1>3, <1>4

\* A batch consists of claimable events.
LEMMA ClaimTakesDue ==
    ASSUME TypeOK, NEW r \in Relay, ClaimBatch(r)
    PROVE  \E items \in SUBSET Event :
              /\ Claims(r, items)
              /\ items \subseteq due
              /\ \A e \in items :
                    status[e] \in {"pending", "failed", "processing"}
<1>1. PICK locked \in SUBSET Claimable : Claims(r, Oldest(Claimable \ locked))
  BY ClaimTakes DEF TypeOK
<1>2. Oldest(Claimable \ locked) \subseteq Claimable
  BY DEF Oldest
<1>3. Claimable \subseteq Event /\ Claimable \subseteq due
  BY DEF Claimable, TypeOK
<1>4. \A e \in Claimable : status[e] \in {"pending", "failed", "processing"}
  BY DEF Claimable
<1>5. QED
  BY <1>1, <1>2, <1>3, <1>4

\* Every action keeps the types.
LEMMA TypeStep == TypeOK /\ [Next]_vars => TypeOK'
<1> SUFFICES ASSUME TypeOK, [Next]_vars PROVE TypeOK'
  OBVIOUS
<1> USE LostTooType DEF table, relay, count, Fault, Settle
<1>1. ASSUME NEW e \in Event, Add(e) \/ FallsDue(e)
      PROVE  TypeOK'
  BY <1>1 DEF Add, FallsDue, TypeOK, Status
<1>2. ASSUME NEW e \in Event, PurgeProcessedOutboxEvents(e) \/ DrainLate(e)
      PROVE  TypeOK'
  <2>1. CASE PurgeProcessedOutboxEvents(e)
    BY <2>1 DEF PurgeProcessedOutboxEvents, TypeOK, Status
  <2>2. CASE DrainLate(e)
    <3>1. [handled EXCEPT ![e] = @ + 1] \in [Event -> Nat]
      BY DEF TypeOK
    <3>2. QED
      BY <2>2, <3>1 DEF DrainLate, TypeOK
  <2>3. QED
    BY <1>2, <2>1, <2>2
<1>3. ASSUME NEW r \in Relay, ClaimBatch(r) PROVE TypeOK'
  <2>1. PICK items \in SUBSET Event : Claims(r, items)
    BY <1>3, ClaimTakesDue
  <2>2. /\ status' \in [Event -> Status]
        /\ attempts' \in [Event -> Nat]
        /\ due' \subseteq Event
    BY <2>1 DEF Claims, Counted, TypeOK, Status
  <2>3. batch' \in [Relay -> SUBSET Event] /\ read' \in [Relay -> [Event -> Nat]]
    <3>1. [e \in Event |-> IF e \in items THEN attempts[e] ELSE 0]
             \in [Event -> Nat]
      BY DEF TypeOK
    <3>2. QED
      BY <2>1, <3>1 DEF Claims, TypeOK
  <2>4. lost' \in [Event -> Nat]
    BY <2>1 DEF Claims, TypeOK
  <2>5. faults' \in Nat
    BY <1>3 DEF ClaimBatch, Fault, TypeOK
  <2>6. QED
    BY <2>1, <2>2, <2>3, <2>4, <2>5 DEF Claims, TypeOK
<1>4. ASSUME NEW r \in Relay, NEW e \in Event, Publish(r, e) PROVE TypeOK'
  <2>1. /\ [handled EXCEPT ![e] = @ + 1] \in [Event -> Nat]
        /\ [late EXCEPT ![e] = @ + 1] \in [Event -> Nat]
    BY DEF TypeOK
  <2>2. /\ handled' \in [Event -> Nat]
        /\ late' \in [Event -> Nat]
        /\ outcome' \in [Relay -> Outcome]
    BY <1>4, <2>1 DEF Publish, TypeOK, Outcome
  <2>3. QED
    BY <1>4, <2>2 DEF Publish, TypeOK
<1>5. ASSUME NEW r \in Relay, NEW e \in Event, Record(r, e) PROVE TypeOK'
  <2>1. Verdict(r, e) \in Status
    BY DEF Verdict, Status
  <2>2. status' \in [Event -> Status] /\ due' \subseteq Event
    BY <1>5, <2>1 DEF Record, TypeOK
  <2>3. QED
    BY <1>5, <2>2 DEF Record, TypeOK, Outcome
<1>6. ASSUME NEW r \in Relay, NEW e \in Event, RecordFails(r, e)
      PROVE  TypeOK'
  BY <1>6 DEF RecordFails, TypeOK, Outcome
<1>7. ASSUME NEW r \in Relay, Stop(r) \/ Restart(r) PROVE TypeOK'
  <2>1. CASE Stop(r)
    BY <2>1 DEF Stop, TypeOK
  <2>2. CASE Restart(r)
    BY <2>2 DEF Restart, TypeOK
  <2>3. QED
    BY <1>7, <2>1, <2>2
<1>8. ASSUME NEW r \in Relay, Crash(r) PROVE TypeOK'
  <2>1. [e \in Event |-> 0] \in [Event -> Nat]
    OBVIOUS
  <2>2. QED
    BY <1>8, <2>1 DEF Crash, TypeOK, Outcome
<1>9. CASE UNCHANGED vars
  BY <1>9 DEF vars, TypeOK
<1>10. QED
  BY <1>1, <1>2, <1>3, <1>4, <1>5, <1>6, <1>7, <1>8, <1>9
  DEF Next, Step, Idle

\* The table and the relays only ever hold values of their types.
THEOREM TypeCorrect == Spec => []TypeOK
<1>1. Init => TypeOK
  BY DEF Init, TypeOK, Status, Outcome
<1>2. QED
  BY <1>1, TypeStep, PTL DEF Spec

-----------------------------------------------------------------------------
(* One claim at a time.                                                     *)

\* What is claimed is held by nobody.
LEMMA ClaimsFree ==
    ASSUME TypeOK, Undisturbed, Leased, NEW r \in Relay, batch[r] = {},
           NEW e \in due
    PROVE  ~Held(e)
<1>1. CASE LeasesHold
  BY <1>1 DEF Leased, Held
<1>2. CASE \A s \in Relay : s = r
  BY <1>2 DEF Held
<1>3. QED
  BY <1>1, <1>2 DEF Undisturbed

\* Every step leaves each event with at most one relay.
LEMMA OneClaimStep ==
    ASSUME TypeOK, Undisturbed, OneClaim, Leased, [Next]_vars
    PROVE  OneClaim' /\ Leased'
<1> USE DEF table, relay, count, Settle, TypeOK, OneClaim, Leased
<1>1. ASSUME NEW e \in Event, Add(e) PROVE OneClaim' /\ Leased'
  BY <1>1 DEF Add
<1>2. ASSUME NEW e \in Event, FallsDue(e) PROVE OneClaim' /\ Leased'
  BY <1>2 DEF FallsDue, Held
<1>3. ASSUME NEW e \in Event, PurgeProcessedOutboxEvents(e) \/ DrainLate(e)
      PROVE  OneClaim' /\ Leased'
  BY <1>3 DEF PurgeProcessedOutboxEvents, DrainLate
<1>4. ASSUME NEW r \in Relay, ClaimBatch(r) PROVE OneClaim' /\ Leased'
  <2>0. PICK items \in SUBSET Event : Claims(r, items) /\ items \subseteq due
    BY <1>4, ClaimTakesDue
  <2>1. /\ \A e \in items : e \in Event /\ ~Held(e)
        /\ batch[r] = {}
    BY <2>0, ClaimsFree DEF Claims
  <2>2. /\ status' = [e \in Event |->
                         IF e \in items THEN "processing" ELSE status[e]]
        /\ attempts' = [e \in Event |->
                         IF e \in items THEN attempts[e] + 1 ELSE attempts[e]]
        /\ due' = due \ items
        /\ \/ /\ batch' = [batch EXCEPT ![r] = items]
              /\ read' = [read EXCEPT ![r] =
                     [e \in Event |-> IF e \in items THEN attempts[e] ELSE 0]]
           \/ batch' = batch /\ read' = read
    BY <2>0 DEF Claims, Counted
  <2>3. CASE batch' = batch /\ read' = read
    BY <2>1, <2>2, <2>3 DEF Held
  <2>4. CASE /\ batch' = [batch EXCEPT ![r] = items]
             /\ read' = [read EXCEPT ![r] =
                    [e \in Event |-> IF e \in items THEN attempts[e] ELSE 0]]
    <3>1. ASSUME NEW s \in Relay, NEW e \in batch'[s]
          PROVE  /\ status'[e] = "processing"
                 /\ attempts'[e] = read'[s][e] + 1
                 /\ \A t \in Relay : e \in batch'[t] => t = s
                 /\ LeasesHold => e \notin due'
      <4>1. CASE s = r
        BY <2>1, <2>2, <2>4, <3>1, <4>1 DEF Held
      <4>2. CASE s # r
        BY <2>1, <2>2, <2>4, <3>1, <4>2 DEF Held
      <4>3. QED
        BY <4>1, <4>2
    <3>2. QED
      BY <3>1
  <2>5. QED
    BY <2>2, <2>3, <2>4
<1>5. ASSUME NEW r \in Relay, NEW e \in Event, Publish(r, e)
      PROVE  OneClaim' /\ Leased'
  BY <1>5 DEF Publish
<1>6. ASSUME NEW r \in Relay, NEW e \in Event, Record(r, e)
      PROVE  OneClaim' /\ Leased'
  <2>1. /\ e \in batch[r]
        /\ batch' = [batch EXCEPT ![r] = @ \ {e}]
        /\ read' = [read EXCEPT ![r][e] = 0]
        /\ \A f \in Event : f # e => status'[f] = status[f]
        /\ due' \subseteq due
        /\ attempts' = attempts
    BY <1>6 DEF Record, Current
  <2>2. QED
    BY <2>1
<1>7. ASSUME NEW r \in Relay, NEW e \in Event, RecordFails(r, e)
      PROVE  OneClaim' /\ Leased'
  BY <1>7 DEF RecordFails, Current
<1>8. ASSUME NEW r \in Relay, Stop(r) \/ Restart(r)
      PROVE  OneClaim' /\ Leased'
  BY <1>8 DEF Stop, Restart
<1>9. ASSUME NEW r \in Relay, Crash(r) PROVE OneClaim' /\ Leased'
  BY <1>9 DEF Crash
<1>10. CASE UNCHANGED vars
  BY <1>10 DEF vars
<1>11. QED
  BY <1>1, <1>2, <1>3, <1>4, <1>5, <1>6, <1>7, <1>8, <1>9, <1>10
  DEF Next, Step, Idle

-----------------------------------------------------------------------------
(* The accounts of one event e, as seen by one step: who holds it changes   *)
(* only with its row or its counters.                                       *)

\* What a step does to the row, the counters and the holder of e: nothing,
\* or one of the moves of e's life.
Account(e) ==
    \/ /\ Held(e)' <=> Held(e)
       /\ UNCHANGED <<attempts[e], refused[e], lost[e]>>
       /\ \/ status'[e] = status[e]
          \/ status[e] = "none" /\ status'[e] = "pending"
          \/ status[e] = "done" /\ status'[e] = "purged"
    \/ /\ ~Held(e) /\ status[e] \in {"pending", "failed", "processing"}
       /\ status'[e] = "processing" /\ attempts'[e] = attempts[e] + 1
       /\ refused'[e] = refused[e]
       /\ \/ Held(e)' /\ lost'[e] = lost[e]
          \/ ~Held(e)' /\ lost'[e] = lost[e] + 1
    \/ /\ Held(e) /\ ~Held(e)' /\ status[e] = "processing"
       /\ attempts'[e] = attempts[e]
       /\ \/ /\ status'[e] = "processing"
             /\ refused'[e] = refused[e] /\ lost'[e] = lost[e] + 1
          \/ /\ status'[e] = "done"
             /\ refused'[e] = refused[e] /\ lost'[e] = lost[e]
          \/ /\ \/ status'[e] = "dead" /\ attempts[e] >= MaxAttempts
                \/ status'[e] = "failed" /\ attempts[e] < MaxAttempts
             /\ \/ refused'[e] = refused[e] + 1 /\ lost'[e] = lost[e]
                \/ refused'[e] = refused[e] /\ lost'[e] = lost[e] + 1

\* When the head of r's batch leaves it, nobody holds it any more, and the
\* holders of other events are the same.
LEMMA SettleHeld ==
    ASSUME TypeOK, OneClaim, NEW r \in Relay, NEW f \in batch[r], Settle(r, f),
           NEW e \in Event
    PROVE  /\ Held(f) /\ ~Held(f)'
           /\ e # f => (Held(e)' <=> Held(e))
BY DEF TypeOK, OneClaim, Settle, Held

\* Every step makes one of those moves on every event.
LEMMA AccountStep ==
    ASSUME TypeOK, Undisturbed, OneClaim, Leased, [Next]_vars, NEW e \in Event
    PROVE  Account(e)
<1> USE DEF table, relay, count, TypeOK
<1>1. ASSUME NEW f \in Event, Add(f) \/ FallsDue(f) \/ DrainLate(f)
                              \/ PurgeProcessedOutboxEvents(f)
      PROVE  Account(e)
  BY <1>1
  DEF Add, FallsDue, DrainLate, PurgeProcessedOutboxEvents, Account, Held
<1>2. ASSUME NEW r \in Relay, ClaimBatch(r) PROVE Account(e)
  <2>1. PICK items \in SUBSET Event :
              /\ Claims(r, items)
              /\ items \subseteq due
              /\ \A f \in items :
                    status[f] \in {"pending", "failed", "processing"}
    BY <1>2, ClaimTakesDue
  <2>2. CASE e \in items
    <3>1. ~Held(e) /\ status[e] \in {"pending", "failed", "processing"}
      BY <2>1, <2>2, ClaimsFree DEF Claims
    <3>2. /\ status'[e] = "processing" /\ attempts'[e] = attempts[e] + 1
          /\ refused' = refused
          /\ \/ batch' = [batch EXCEPT ![r] = items] /\ lost' = lost
             \/ batch' = batch /\ lost'[e] = lost[e] + 1
      BY <2>1, <2>2 DEF Claims, Counted, LostToo
    <3>3. QED
      BY <2>2, <3>1, <3>2 DEF Account, Held
  <2>3. CASE e \notin items
    <3>1. /\ status'[e] = status[e] /\ attempts'[e] = attempts[e]
          /\ refused' = refused /\ lost'[e] = lost[e]
          /\ \/ batch' = [batch EXCEPT ![r] = items]
             \/ batch' = batch
      BY <2>1, <2>3 DEF Claims, Counted, LostToo
    <3>2. Held(e)' <=> Held(e)
      BY <2>1, <2>3, <3>1 DEF Held, Claims
    <3>3. QED
      BY <3>1, <3>2 DEF Account
  <2>4. QED
    BY <2>2, <2>3
<1>3. ASSUME NEW r \in Relay, NEW f \in Event, Publish(r, f)
      PROVE  Account(e)
  BY <1>3 DEF Publish, Account, Held
<1>4. ASSUME NEW r \in Relay, NEW f \in Event, Record(r, f)
      PROVE  Account(e)
  <2>1. /\ f \in batch[r] /\ Settle(r, f) /\ status[f] = "processing"
        /\ attempts[f] = read[r][f] + 1 /\ attempts' = attempts
        /\ status' = [status EXCEPT ![f] = Verdict(r, f)]
        /\ outcome[r] \in {"delivered", "refused", "cancelled"}
    BY <1>4 DEF Record, Current, OneClaim, Outcome
  <2>2. CASE e # f
    <3>1. refused'[e] = refused[e] /\ lost'[e] = lost[e]
      BY <1>4, <2>2 DEF Record, LostToo
    <3>2. QED
      BY <2>1, <2>2, <3>1, SettleHeld DEF Account
  <2>3. CASE e = f
    <3>1. Held(e) /\ ~Held(e)'
      BY <2>1, <2>3, SettleHeld
    <3>2. \/ outcome[r] = "delivered" /\ status'[e] = "done"
          \/ /\ outcome[r] # "delivered"
             /\ \/ status'[e] = "dead" /\ attempts[e] >= MaxAttempts
                \/ status'[e] = "failed" /\ attempts[e] < MaxAttempts
      BY <2>1, <2>3, BoundAssumption DEF Verdict
    <3>3. /\ refused'[e] = IF outcome[r] = "refused" THEN refused[e] + 1
                                                     ELSE refused[e]
          /\ lost'[e] = IF outcome[r] = "cancelled" THEN lost[e] + 1
                                                    ELSE lost[e]
      BY <1>4, <2>3 DEF Record, LostToo
    <3>4. QED
      BY <2>1, <2>3, <3>1, <3>2, <3>3 DEF Account
  <2>4. QED
    BY <2>2, <2>3
<1>5. ASSUME NEW r \in Relay, NEW f \in Event, RecordFails(r, f)
      PROVE  Account(e)
  <2>1. /\ f \in batch[r] /\ Settle(r, f) /\ status[f] = "processing"
        /\ UNCHANGED <<status, attempts, refused>>
        /\ lost' = LostToo({f})
    BY <1>5 DEF RecordFails, Current, OneClaim
  <2>2. QED
    BY <2>1, SettleHeld DEF Account, LostToo
<1>6. ASSUME NEW r \in Relay, Stop(r) \/ Restart(r) PROVE Account(e)
  BY <1>6 DEF Stop, Restart, Account, Held
<1>7. ASSUME NEW r \in Relay, Crash(r) PROVE Account(e)
  <2>1. /\ batch' = [batch EXCEPT ![r] = {}]
        /\ UNCHANGED <<status, attempts, refused>>
        /\ lost'[e] = IF e \in batch[r] THEN lost[e] + 1 ELSE lost[e]
    BY <1>7 DEF Crash, LostToo
  <2>2. CASE e \in batch[r]
    <3>1. Held(e) /\ ~Held(e)' /\ status[e] = "processing"
      BY <2>1, <2>2 DEF OneClaim, Held
    <3>2. QED
      BY <2>1, <2>2, <3>1 DEF Account
  <2>3. CASE e \notin batch[r]
    <3>1. Held(e)' <=> Held(e)
      BY <2>1, <2>3 DEF Held
    <3>2. QED
      BY <2>1, <2>3, <3>1 DEF Account
  <2>4. QED
    BY <2>2, <2>3
<1>8. CASE UNCHANGED vars
  BY <1>8 DEF vars, Account, Held
<1>9. QED
  BY <1>1, <1>2, <1>3, <1>4, <1>5, <1>6, <1>7, <1>8 DEF Next, Step, Idle

\* The accounts stay balanced.
LEMMA AccountsBalance ==
    ASSUME TypeOK, Undisturbed, OneClaim, Leased, [Next]_vars,
           AttemptsAccounted, DeadMeansExhausted, Rested
    PROVE  AttemptsAccounted' /\ DeadMeansExhausted' /\ Rested'
<1> SUFFICES ASSUME NEW e \in Event
             PROVE  /\ attempts'[e] = refused'[e] + lost'[e]
                          + (IF Held(e)' \/ status'[e] \in {"done", "purged"}
                             THEN 1 ELSE 0)
                    /\ status'[e] = "dead" => refused'[e] + lost'[e] >= MaxAttempts
                    /\ attempts'[e] <= MaxAttempts + lost'[e]
                    /\ ~Held(e)' /\ status'[e] \notin {"done", "dead", "purged"}
                          => attempts'[e] < MaxAttempts + lost'[e]
  BY DEF AttemptsAccounted, DeadMeansExhausted, Rested
<1>1. /\ attempts[e] \in Nat /\ refused[e] \in Nat /\ lost[e] \in Nat
      /\ MaxAttempts \in Nat
  BY BoundAssumption DEF TypeOK
<1>2. /\ attempts[e] = refused[e] + lost[e]
            + (IF Held(e) \/ status[e] \in {"done", "purged"} THEN 1 ELSE 0)
      /\ status[e] = "dead" => refused[e] + lost[e] >= MaxAttempts
      /\ attempts[e] <= MaxAttempts + lost[e]
      /\ ~Held(e) /\ status[e] \notin {"done", "dead", "purged"}
            => attempts[e] < MaxAttempts + lost[e]
  BY DEF AttemptsAccounted, DeadMeansExhausted, Rested
<1>3. Held(e) => status[e] = "processing"
  BY DEF Held, OneClaim
<1>4. Account(e)
  BY AccountStep
<1> HIDE DEF Held
<1>5. QED
  BY <1>1, <1>2, <1>3, <1>4 DEF Account


-----------------------------------------------------------------------------
(* Deliveries.                                                              *)

\* A relay that publishes or records e is the only one that holds it, and
\* e is the only event it is about to record.
LEMMA CurrentAlone ==
    ASSUME TypeOK, OneClaim, NEW r \in Relay, NEW f \in Event, Current(r, f),
           NEW e \in Event, NEW s \in Relay, Current(s, e)
    PROVE  e = f <=> s = r
<1>1. e = f => s = r
  BY DEF OneClaim, Current
<1>2. s = r => e = f
  BY EventAssumption DEF Current
<1>3. QED
  BY <1>1, <1>2

\* No relay has an outcome for an empty batch.
LEMMA OutcomeStep ==
    ASSUME TypeOK, [Next]_vars, NEW r \in Relay,
           batch[r] = {} => outcome[r] = "none", batch'[r] = {}
    PROVE  outcome'[r] = "none"
<1> USE DEF table, relay, count, Settle, TypeOK
<1>1. ASSUME NEW s \in Relay, NEW f \in Event,
             Publish(s, f) \/ Record(s, f) \/ RecordFails(s, f)
      PROVE  outcome'[r] = "none"
  BY <1>1 DEF Publish, Record, RecordFails, Current
<1>2. ASSUME NEW s \in Relay,
             ClaimBatch(s) \/ Stop(s) \/ Restart(s) \/ Crash(s)
      PROVE  outcome'[r] = "none"
  BY <1>2 DEF ClaimBatch, Stop, Restart, Crash
<1>3. QED
  BY <1>1, <1>2
  DEF Next, Step, Idle, vars, Add, FallsDue, DrainLate,
      PurgeProcessedOutboxEvents

\* The delivery of an event is counted when it is made, and the account is
\* closed when it is recorded or cut off.
LEMMA DeliveryStep ==
    ASSUME TypeOK, Undisturbed, OneClaim, Leased, [Next]_vars, DeliveryPending
    PROVE  DeliveryPending'
<1> DEFINE P(e) == Published(e, {"delivered"})
           Q(e) == Published(e, {"delivered", "cancelled"})
           D(e) == /\ status[e] \in {"done", "purged"} \/ P(e)
                         => handled[e] >= 1
                   /\ \/ handled[e] + late[e] <= lost[e]
                      \/ /\ handled[e] + late[e] = lost[e] + 1
                         /\ status[e] \in {"done", "purged"} \/ Q(e)
<1> USE DEF table, relay, count
<1>1. ASSUME NEW r \in Relay, batch'[r] = {} PROVE outcome'[r] = "none"
  BY <1>1, OutcomeStep DEF DeliveryPending
<1>2. ASSUME NEW e \in Event PROVE D(e)'
  <2>1. D(e) /\ handled[e] \in Nat /\ late[e] \in Nat /\ lost[e] \in Nat
    BY DEF DeliveryPending, TypeOK
  <2>2. ASSUME NEW f \in Event, Add(f) \/ FallsDue(f)
                                \/ PurgeProcessedOutboxEvents(f)
        PROVE  D(e)'
    <3>1. /\ UNCHANGED <<batch, outcome, late, handled, lost>>
          /\ \/ status'[e] = status[e]
             \/ status[e] = "none" /\ status'[e] = "pending"
             \/ status[e] = "done" /\ status'[e] = "purged"
      BY <2>2 DEF Add, FallsDue, PurgeProcessedOutboxEvents, TypeOK
    <3>2. (P(e)' <=> P(e)) /\ (Q(e)' <=> Q(e))
      BY <3>1 DEF Published, Current
    <3>3. QED
      BY <2>1, <3>1, <3>2
  <2>3. ASSUME NEW r \in Relay, ClaimBatch(r) PROVE D(e)'
    <3>0. PICK items \in SUBSET Event :
              /\ Claims(r, items)
              /\ \A f \in items :
                    status[f] \in {"pending", "failed", "processing"}
      BY <2>3, ClaimTakesDue
    <3>1. /\ outcome' = outcome /\ outcome[r] = "none"
          /\ handled' = handled /\ late' = late
          /\ lost'[e] \in {lost[e], lost[e] + 1}
          /\ \A s \in Relay : s # r => batch'[s] = batch[s]
          /\ status'[e] \in {status[e], "processing"}
          /\ status[e] \in {"done", "purged"} => status'[e] = status[e]
          /\ batch[r] = {}
      BY <3>0 DEF Claims, DeliveryPending, TypeOK, LostToo
    <3>2. (P(e)' <=> P(e)) /\ (Q(e)' <=> Q(e))
      BY <3>1 DEF Published, Current
    <3>3. QED
      BY <2>1, <3>1, <3>2
  <2>4. ASSUME NEW r \in Relay, NEW f \in Event, Publish(r, f) PROVE D(e)'
    <3>0. /\ Current(r, f) /\ outcome[r] = "none"
          /\ UNCHANGED <<batch, status, lost>>
          /\ handled \in [Event -> Nat] /\ late \in [Event -> Nat]
          /\ \A s \in Relay : s # r => outcome'[s] = outcome[s]
      BY <2>4 DEF Publish, TypeOK
    <3>1. /\ \/ /\ outcome'[r] = "delivered"
                /\ handled'[f] = handled[f] + 1 /\ late'[f] = late[f]
             \/ /\ outcome'[r] = "refused"
                /\ handled'[f] = handled[f] /\ late'[f] = late[f]
             \/ /\ outcome'[r] = "cancelled"
                /\ \/ handled'[f] = handled[f] /\ late'[f] = late[f]
                   \/ handled'[f] = handled[f] + 1 /\ late'[f] = late[f]
                   \/ handled'[f] = handled[f] /\ late'[f] = late[f] + 1
          /\ e # f => handled'[e] = handled[e] /\ late'[e] = late[e]
      BY <2>4, <3>0 DEF Publish, TypeOK
    <3> handled'[e] \in Nat /\ late'[e] \in Nat
      BY TypeStep DEF TypeOK
    <3>2. CASE e = f
      <4>1. ~P(e) /\ ~Q(e)
        BY <3>0, <3>1, <3>2, CurrentAlone DEF Published
      <4>2. status[e] = "processing"
        BY <3>0, <3>1, <3>2 DEF OneClaim, Current
      <4>3. /\ outcome'[r] = "delivered" => P(e)' /\ Q(e)'
            /\ outcome'[r] = "cancelled" => Q(e)'
        BY <3>0, <3>1, <3>2 DEF Published, Current
      <4>4. outcome'[r] # "delivered" => ~P(e)'
        <5>1. \A s \in Relay : Current(s, e)' => s = r
          BY <3>0, <3>1, <3>2, CurrentAlone DEF Current
        <5>2. QED
          BY <5>1 DEF Published
      <4>5. QED
        BY <2>1, <3>0, <3>1, <3>2, <4>1, <4>2, <4>3, <4>4
    <3>3. CASE e # f
      <4>1. \A s \in Relay : Current(s, e) => s # r
        BY <3>0, <3>1, <3>3, CurrentAlone
      <4>2. (P(e)' <=> P(e)) /\ (Q(e)' <=> Q(e))
        BY <3>0, <3>1, <4>1 DEF Published, Current
      <4>3. QED
        BY <2>1, <3>0, <3>1, <3>3, <4>2
    <3>4. QED
      BY <3>2, <3>3
  <2>5. ASSUME NEW r \in Relay, NEW f \in Event,
               Record(r, f) \/ RecordFails(r, f)
        PROVE  D(e)'
    <3>1. /\ Current(r, f) /\ f \in batch[r] /\ status[f] = "processing"
          /\ handled' = handled /\ late' = late /\ Settle(r, f)
          /\ e # f => status'[e] = status[e] /\ lost'[e] = lost[e]
          /\ outcome[r] \in {"delivered", "refused", "cancelled"}
          /\ \/ outcome[r] = "delivered" /\ status'[f] = "done"
                                         /\ lost'[f] = lost[f]
             \/ outcome[r] = "refused" /\ status'[f] \in {"dead", "failed"}
                                       /\ lost'[f] = lost[f]
             \/ outcome[r] = "cancelled" /\ status'[f] \in {"dead", "failed"}
                                         /\ lost'[f] = lost[f] + 1
             \/ status'[f] = "processing" /\ lost'[f] = lost[f] + 1
      BY <2>5 DEF Record, RecordFails, Current, OneClaim, Verdict, LostToo,
                  TypeOK, Outcome
    <3>2. CASE e = f
      <4>1. /\ P(e) <=> outcome[r] = "delivered"
            /\ Q(e) <=> outcome[r] \in {"delivered", "cancelled"}
        BY <3>1, <3>2, CurrentAlone DEF Published
      <4>2. ~P(e)'
        <5>1. ~Held(e)'
          BY <3>1, <3>2, SettleHeld
        <5>2. QED
          BY <5>1 DEF Published, Current, Held
      <4>3. QED
        BY <2>1, <3>1, <3>2, <4>1, <4>2
    <3>3. CASE e # f
      <4>1. \A s \in Relay : Current(s, e) => s # r
        BY <3>1, <3>3, CurrentAlone
      <4>2. /\ \A s \in Relay : s # r => batch'[s] = batch[s]
                                         /\ outcome'[s] = outcome[s]
            /\ outcome'[r] = "none"
        BY <3>1 DEF Settle, TypeOK
      <4>3. (P(e)' <=> P(e)) /\ (Q(e)' <=> Q(e))
        BY <4>1, <4>2 DEF Published, Current
      <4>4. QED
        BY <2>1, <3>1, <3>3, <4>3
    <3>4. QED
      BY <3>2, <3>3
  <2>6. ASSUME NEW r \in Relay, Stop(r) \/ Restart(r) PROVE D(e)'
    BY <2>1, <2>6 DEF Stop, Restart, Published, Current
  <2>7. ASSUME NEW r \in Relay, Crash(r) PROVE D(e)'
    <3>1. /\ \A s \in Relay : s # r => batch'[s] = batch[s]
                                       /\ outcome'[s] = outcome[s]
          /\ batch'[r] = {} /\ UNCHANGED <<status, late, handled>>
          /\ lost'[e] = IF e \in batch[r] THEN lost[e] + 1 ELSE lost[e]
      BY <2>7 DEF Crash, LostToo, TypeOK
    <3>2. CASE e \in batch[r]
      <4>1. status[e] = "processing" /\ ~Held(e)'
        BY <3>1, <3>2 DEF OneClaim, Held
      <4>2. ~P(e)'
        BY <4>1 DEF Published, Current, Held
      <4>3. QED
        BY <2>1, <3>1, <3>2, <4>1, <4>2
    <3>3. CASE e \notin batch[r]
      <4>1. (P(e)' <=> P(e)) /\ (Q(e)' <=> Q(e))
        BY <3>1, <3>3 DEF Published, Current
      <4>2. QED
        BY <2>1, <3>1, <3>3, <4>1
    <3>4. QED
      BY <3>2, <3>3
  <2>8. CASE UNCHANGED vars
    BY <2>1, <2>8 DEF vars, Published, Current
  <2>9. ASSUME NEW f \in Event, DrainLate(f) PROVE D(e)'
    <3>1. /\ UNCHANGED <<batch, outcome, status, lost>>
          /\ handled'[e] >= handled[e]
          /\ handled'[e] + late'[e] <= handled[e] + late[e]
          /\ handled'[e] \in Nat /\ late'[e] \in Nat
      BY <2>9, TypeStep DEF DrainLate, TypeOK
    <3>2. (P(e)' <=> P(e)) /\ (Q(e)' <=> Q(e))
      BY <3>1 DEF Published, Current
    <3>3. QED
      BY <2>1, <3>1, <3>2
  <2>10. QED
    BY <2>2, <2>3, <2>4, <2>5, <2>6, <2>7, <2>8, <2>9 DEF Next, Step, Idle
<1>3. QED
  BY <1>1, <1>2 DEF DeliveryPending

-----------------------------------------------------------------------------
(* The order of first attempts.                                             *)

\* An event that waits for its first attempt is due.
LEMMA PendingStep ==
    ASSUME TypeOK, PendingDue, [Next]_vars
    PROVE  PendingDue'
<1> SUFFICES ASSUME NEW e \in Event, status'[e] = "pending" PROVE e \in due'
  BY DEF PendingDue
<1> USE DEF table, relay, TypeOK, PendingDue
<1>1. ASSUME NEW r \in Relay, ClaimBatch(r) PROVE e \in due'
  BY <1>1 DEF ClaimBatch
<1>2. ASSUME NEW r \in Relay, NEW f \in Event, Record(r, f)
      PROVE  e \in due'
  <2>1. Verdict(r, f) # "pending"
    BY DEF Verdict
  <2>2. QED
    BY <1>2, <2>1 DEF Record
<1>3. QED
  BY <1>1, <1>2
  DEF Next, Step, Idle, vars, Add, FallsDue, DrainLate,
      PurgeProcessedOutboxEvents, Publish, RecordFails, Stop, Restart, Crash

\* The events before a given one are finitely many.
LEMMA OlderFinite ==
    ASSUME NEW f \in Event, NEW es \in SUBSET Event
    PROVE  IsFiniteSet({g \in es : g < f})
<1>1. f \in Nat /\ es \subseteq Nat
  BY EventAssumption
<1>2. {g \in es : g < f} \subseteq 0 .. f
  <2>1. ASSUME NEW g \in es, g < f PROVE g \in 0 .. f
    BY <1>1, <2>1
  <2>2. QED
    BY <2>1
<1>3. IsFiniteSet(0 .. f)
  BY <1>1, FS_Interval
<1>4. QED
  BY <1>2, <1>3, FS_Subset

\* A batch leaves no claimable event behind that is older than one of its own.
LEMMA OldestFirst ==
    ASSUME NEW es \in SUBSET Event, NEW f \in Oldest(es), NEW e \in es, e < f
    PROVE  e \in Oldest(es)
<1> DEFINE Older(g) == {h \in es : h < g}
<1>1. f \in Event /\ e \in Event
  BY DEF Oldest
<1>2. Older(e) \subseteq Older(f)
  <2>1. ASSUME NEW h \in es, h < e PROVE h < f
    <3>1. h \in Nat /\ e \in Nat /\ f \in Nat
      BY <1>1, EventAssumption
    <3>2. QED
      BY <2>1, <3>1
  <2>2. QED
    BY <2>1
<1>3. IsFiniteSet(Older(f)) /\ IsFiniteSet(Older(e))
  BY <1>1, OlderFinite
<1>4. Cardinality(Older(e)) <= Cardinality(Older(f))
  BY <1>2, <1>3, FS_Subset
<1>5. Cardinality(Older(e)) \in Nat /\ Cardinality(Older(f)) \in Nat
  BY <1>3, FS_CardinalityType
<1>6. Cardinality(Older(f)) < BatchSize
  BY DEF Oldest
<1> HIDE DEF Older
<1>7. Cardinality(Older(e)) < BatchSize
  BY <1>4, <1>5, <1>6, BoundAssumption
<1>8. QED
  BY <1>7 DEF Oldest, Older

-----------------------------------------------------------------------------
(* The theorems.  Undisturbed is their one assumption: either batches are   *)
(* over before their claims fall due again, or there is only one relay.     *)

\* The inductive invariant of the outbox.
THEOREM IInvCorrect == ASSUME Undisturbed PROVE Spec => []IInv
<1>1. Init => IInv
  <2> SUFFICES ASSUME Init PROVE IInv
    OBVIOUS
  <2>1. TypeOK
    BY DEF Init, TypeOK, Status, Outcome
  <2>2. OneClaim /\ Leased /\ PendingDue
    BY DEF Init, OneClaim, Leased, PendingDue
  <2>3. AttemptsAccounted /\ DeadMeansExhausted /\ Rested
    BY BoundAssumption
    DEF Init, AttemptsAccounted, DeadMeansExhausted, Rested, Held
  <2>4. DeliveryPending
    BY DEF Init, DeliveryPending, Published, Current
  <2>5. QED
    BY <2>1, <2>2, <2>3, <2>4 DEF IInv
<1>2. IInv /\ [Next]_vars => IInv'
  BY TypeStep, OneClaimStep, PendingStep, AccountsBalance, DeliveryStep
  DEF IInv
<1>3. QED
  BY <1>1, <1>2, PTL DEF Spec

\* No two relays hold one event, and a held event is processing.
THEOREM OneClaimCorrect == ASSUME Undisturbed PROVE Spec => []OneClaim
<1>1. IInv => OneClaim
  BY DEF IInv
<1>2. QED
  BY <1>1, IInvCorrect, PTL

\* The attempts column adds up.
THEOREM AttemptsAccountedCorrect ==
    ASSUME Undisturbed PROVE Spec => []AttemptsAccounted
<1>1. IInv => AttemptsAccounted
  BY DEF IInv
<1>2. QED
  BY <1>1, IInvCorrect, PTL

\* Nothing is buried early.
THEOREM DeadMeansExhaustedCorrect ==
    ASSUME Undisturbed PROVE Spec => []DeadMeansExhausted
<1>1. IInv => DeadMeansExhausted
  BY DEF IInv
<1>2. QED
  BY <1>1, IInvCorrect, PTL

\* Delivered at least once when done, and repeated only for a fault.
THEOREM DeliveryAccountedCorrect ==
    ASSUME Undisturbed PROVE Spec => []DeliveryAccounted
<1>1. IInv => DeliveryAccounted
  BY DEF IInv, DeliveryPending, DeliveryAccounted, TypeOK
<1>2. QED
  BY <1>1, IInvCorrect, PTL

\* Done and dead are final.
THEOREM SettledIsFinalCorrect ==
    ASSUME Undisturbed PROVE Spec => SettledIsFinal
<1>1. ASSUME IInv, [Next]_vars, NEW e \in Event
      PROVE  /\ status[e] = "done" => status'[e] \in {"done", "purged"}
             /\ status[e] = "dead" => status'[e] = "dead"
  BY <1>1, AccountStep DEF IInv, Account
<1>2. IInv /\ [Next]_vars =>
         [\A e \in Event :
             /\ status[e] = "done" => status'[e] \in {"done", "purged"}
             /\ status[e] = "dead" => status'[e] = "dead"]_vars
  BY <1>1
<1>3. QED
  BY <1>2, IInvCorrect, PTL DEF Spec, SettledIsFinal

\* A settled event is not handed to the handlers again.
THEOREM NoDeliveryAfterSettledCorrect ==
    ASSUME Undisturbed PROVE Spec => NoDeliveryAfterSettled
<1>1. ASSUME IInv, NEW e \in Event, handled'[e] > handled[e],
             NEW r \in Relay, NEW f \in Event, Publish(r, f)
      PROVE  status[e] = "processing"
  <2>1. handled[e] \in Nat /\ handled \in [Event -> Nat] /\ OneClaim
    BY <1>1 DEF IInv, TypeOK
  <2>2. f \in batch[r] /\ (e # f => handled'[e] = handled[e])
    BY <1>1, <2>1 DEF Publish, Current
  <2>3. e = f
    BY <1>1, <2>1, <2>2
  <2>4. QED
    BY <2>1, <2>2, <2>3 DEF OneClaim
<1>2. ASSUME IInv, NEW e \in Event, handled'[e] > handled[e],
             NEW f \in Event, DrainLate(f)
      PROVE  late'[e] < late[e]
  <2>1. /\ handled[e] \in Nat /\ late[e] \in Nat
        /\ handled \in [Event -> Nat] /\ late \in [Event -> Nat]
    BY <1>2 DEF IInv, TypeOK
  <2>2. e # f => handled'[e] = handled[e]
    BY <1>2, <2>1 DEF DrainLate
  <2>3. e = f
    BY <1>2, <2>1, <2>2
  <2>4. QED
    BY <1>2, <2>1, <2>3 DEF DrainLate
<1>3. ASSUME IInv, [Next]_vars, NEW e \in Event, handled'[e] > handled[e]
      PROVE  status[e] = "processing" \/ late'[e] < late[e]
  <2>1. handled[e] \in Nat
    BY <1>3 DEF IInv, TypeOK
  <2>2. handled' # handled
    BY <1>3, <2>1
  <2>3. \/ \E r \in Relay, f \in Event : Publish(r, f)
        \/ \E f \in Event : DrainLate(f)
    BY <1>3, <2>2
    DEF Next, Step, Idle, vars, count, Add, FallsDue, ClaimBatch, Record,
        RecordFails, Stop, Restart, Crash, PurgeProcessedOutboxEvents
  <2>4. QED
    BY <1>1, <1>2, <1>3, <2>3
<1>4. IInv /\ [Next]_vars =>
         [\A e \in Event : handled'[e] > handled[e] =>
             status[e] = "processing" \/ late'[e] < late[e]]_vars
  BY <1>3
<1>5. QED
  BY <1>4, IInvCorrect, PTL DEF Spec, NoDeliveryAfterSettled

\* While nothing fails, events are tried for the first time in the order of
\* created_at, whatever the relays do and however their claims overlap.
THEOREM FirstInFirstTriedCorrect == Spec => FirstInFirstTried
<1>1. ASSUME TypeOK, PendingDue, [Next]_vars, NEW e \in Event,
             NEW f \in Event, e < f, attempts'[f] > attempts[f],
             faults' = faults
      PROVE  status'[e] # "pending"
  <2>1. attempts' # attempts
    BY <1>1 DEF TypeOK
  <2>2. PICK r \in Relay : ClaimBatch(r)
    BY <1>1, <2>1
    DEF Next, Step, Idle, vars, table, Add, FallsDue, DrainLate,
        PurgeProcessedOutboxEvents, Publish, Record, RecordFails, Stop,
        Restart, Crash
  <2> DEFINE items == Oldest(Claimable)
  <2>3. Claims(r, items)
    BY <1>1, <2>2, ClaimTakes DEF TypeOK
  <2>4. f \in items
    BY <1>1, <2>3 DEF Claims, Counted, TypeOK
  <2>5. /\ \A g \in Event : status'[g] = IF g \in items THEN "processing"
                                                      ELSE status[g]
    BY <2>3 DEF Claims
  <2>6. status[e] = "pending" => e \in Claimable
    BY <1>1 DEF PendingDue, Claimable
  <2>7. Claimable \in SUBSET Event
    BY <1>1 DEF Claimable, TypeOK
  <2>8. status[e] = "pending" => e \in items
    BY <1>1, <2>4, <2>6, <2>7, OldestFirst
  <2>9. QED
    BY <2>5, <2>8
<1>2. Init => PendingDue
  BY DEF Init, PendingDue
<1>3. TypeOK /\ PendingDue /\ [Next]_vars =>
         [\A e, f \in Event :
             e < f /\ attempts'[f] > attempts[f] /\ faults' = faults
                 => status'[e] # "pending"]_vars
  BY <1>1
<1>4. TypeOK /\ PendingDue /\ [Next]_vars => PendingDue'
  BY PendingStep
<1>5. QED
  BY <1>2, <1>3, <1>4, TypeCorrect, PTL DEF Spec, FirstInFirstTried

-----------------------------------------------------------------------------
(* The relays implement EventDelivery.                                      *)

\* Where an event is in its life, as EventDelivery sees it.
P(e)  == Published(e, {"delivered"})
Place == [e \in Event |->
             IF status[e] \notin {"pending", "processing", "failed"}
             THEN status[e]
             ELSE IF P(e) THEN "delivered" ELSE "waiting"]

\* One event moves, the others stay where they are.
LEMMA PlaceMoves ==
    ASSUME NEW f \in Event, NEW to,
           \A e \in Event : e # f => Place'[e] = Place[e],
           Place'[f] = to
    PROVE  Place' = [Place EXCEPT ![f] = to]
BY DEF Place

\* An event whose delivery is to be recorded is held and processing.
LEMMA DeliveredHeld ==
    ASSUME OneClaim, NEW e \in Event, P(e)
    PROVE  status[e] = "processing" /\ Held(e)
BY DEF P, Published, Current, OneClaim, Held

\* Publishing the head of a batch says nothing about other events.
LEMMA PublishPlaces ==
    ASSUME TypeOK, OneClaim, NEW r \in Relay, NEW f \in Event, Publish(r, f),
           NEW e \in Event
    PROVE  /\ e # f => (P(e)' <=> P(e))
           /\ ~P(f)
           /\ P(f)' <=> outcome'[r] = "delivered"
           /\ status[f] = "processing"
<1>1. /\ Current(r, f) /\ outcome[r] = "none"
      /\ UNCHANGED <<batch, status>>
      /\ outcome' = [outcome EXCEPT ![r] = outcome'[r]]
  BY DEF Publish, table, TypeOK
<1>2. \A s \in Relay : s # r => outcome'[s] = outcome[s]
  BY <1>1 DEF TypeOK
<1>3. \A s \in Relay, g \in Event : Current(s, g)' <=> Current(s, g)
  BY <1>1 DEF Current
<1>4. \A s \in Relay : Current(s, f) => s = r
  BY <1>1, CurrentAlone
<1>5. e # f => \A s \in Relay : Current(s, e) => s # r
  BY <1>1, CurrentAlone
<1>6. status[f] = "processing"
  BY <1>1 DEF Current, OneClaim
<1> HIDE DEF Current
<1>7. QED
  BY <1>1, <1>2, <1>3, <1>4, <1>5, <1>6 DEF P, Published

\* Nor does recording its outcome, or failing to.
LEMMA SettlePlaces ==
    ASSUME TypeOK, OneClaim, NEW r \in Relay, NEW f \in Event, Current(r, f),
           Settle(r, f), NEW e \in Event
    PROVE  /\ e # f => (P(e)' <=> P(e))
           /\ P(f) <=> outcome[r] = "delivered"
           /\ ~P(f)'
           /\ status[f] = "processing" /\ Held(f)
           /\ attempts[f] = read[r][f] + 1
<1>1. f \in batch[r]
  BY DEF Current
<1>2. ~P(f)'
  BY <1>1, SettleHeld DEF P, Published, Current, Held
<1>3. P(f) <=> outcome[r] = "delivered"
  BY CurrentAlone DEF P, Published
<1>4. ASSUME e # f PROVE P(e)' <=> P(e)
  <2>1. \A s \in Relay : Current(s, e) => s # r
    BY <1>4, CurrentAlone
  <2>2. /\ \A s \in Relay : s # r => batch'[s] = batch[s]
                                     /\ outcome'[s] = outcome[s]
        /\ outcome'[r] = "none"
    BY DEF Settle, TypeOK
  <2>3. QED
    BY <2>1, <2>2 DEF P, Published, Current
<1>5. QED
  BY <1>1, <1>2, <1>3, <1>4 DEF OneClaim, Held

\* An event may be published only when all deliveries of it so far are
\* written off.
LEMMA PublishOwed ==
    ASSUME IInv, NEW r \in Relay, NEW f \in Event, Current(r, f),
           outcome[r] = "none"
    PROVE  Delivery!Owed(f)
<1>1. ~Published(f, {"delivered", "cancelled"})
  BY CurrentAlone DEF Published, IInv
<1>2. status[f] = "processing"
  BY DEF Current, IInv, OneClaim
<1>3. QED
  BY <1>1, <1>2 DEF Delivery!Owed, IInv, DeliveryPending

\* When the attempts read at the claim are used up, EventDelivery's are too.
LEMMA LastAttempt ==
    ASSUME IInv, NEW r \in Relay, NEW f \in batch[r],
           read[r][f] + 1 >= MaxAttempts
    PROVE  Delivery!Exhausted(f)
<1>1. f \in Event /\ Held(f) /\ attempts[f] = read[r][f] + 1
  BY DEF IInv, TypeOK, OneClaim, Held
<1>2. attempts[f] = refused[f] + lost[f] + 1
  BY <1>1 DEF IInv, AttemptsAccounted
<1>3. QED
  BY <1>1, <1>2, BoundAssumption DEF Delivery!Exhausted, IInv, TypeOK

\* A step that leaves every event in its place, and counts nothing, is none of
\* EventDelivery.
LEMMA DeliveryStutter ==
    ASSUME UNCHANGED <<late, count>>, \A e \in Event : Place'[e] = Place[e]
    PROVE  UNCHANGED Delivery!vars
<1>1. Place' = Place
  BY DEF Place
<1>2. QED
  BY <1>1 DEF Delivery!vars, Place, P, count

\* A fault that cuts off the attempts of es writes them off, and buries nobody.
LEMMA FaultWritesOff ==
    ASSUME TypeOK, NEW es \in SUBSET Event,
           \A e \in es : Place[e] \in {"waiting", "delivered"},
           \A e \in Event : Place'[e] = IF e \in es THEN "waiting"
                                                   ELSE Place[e],
           lost' = LostToo(es), UNCHANGED <<handled, late, refused>>
    PROVE  Delivery!WriteOff(es)
<1> DEFINE moved(b) == [e \in Event |-> IF e \in b THEN "dead"
                                       ELSE IF e \in es THEN "waiting"
                                       ELSE Place[e]]
<1>1. Place' = moved({})
  BY DEF Place
<1>2. {} \in SUBSET {e \in es : Place[e] = "waiting" /\ Delivery!Exhausted(e)}
  OBVIOUS
<1>3. \E b \in SUBSET {e \in es : Place[e] = "waiting"
                                   /\ Delivery!Exhausted(e)} :
          Place' = moved(b)
  BY <1>1, <1>2
<1>4. QED
  BY <1>3 DEF Delivery!WriteOff, LostToo, Place, P

\* Recording the outcome of an attempt settles it, counts a refusal, or writes
\* it off.
LEMMA RecordDelivers ==
    ASSUME IInv, NEW r \in Relay, NEW f \in Event, Record(r, f)
    PROVE  \/ Delivery!Done(f)
           \/ Delivery!Refuse(f)
           \/ Delivery!WriteOff({f})
<1>0. TypeOK /\ OneClaim
  BY DEF IInv
<1>1. /\ Current(r, f) /\ f \in batch[r] /\ Settle(r, f)
      /\ outcome[r] \in {"delivered", "refused", "cancelled"}
  BY <1>0 DEF Record, Current, TypeOK, Outcome
<1>2. /\ status[f] = "processing" /\ ~P(f)'
      /\ P(f) <=> outcome[r] = "delivered"
      /\ \A e \in Event : e # f => (P(e)' <=> P(e))
  BY <1>0, <1>1, SettlePlaces
<1>3. /\ status' = [status EXCEPT ![f] = Verdict(r, f)]
      /\ UNCHANGED <<late, handled>>
  BY <1>2 DEF Record
<1>4. \A e \in Event : e # f => Place'[e] = Place[e]
  BY <1>0, <1>2, <1>3 DEF Place, TypeOK
<1>5. status'[f] = Verdict(r, f)
  BY <1>0, <1>3 DEF TypeOK
<1>6. CASE outcome[r] = "delivered"
  <2>1. Place[f] = "delivered" /\ Place'[f] = "done"
    BY <1>2, <1>5, <1>6 DEF Place, Verdict
  <2>2. Place' = [Place EXCEPT ![f] = "done"]
    BY <1>4, <2>1, PlaceMoves
  <2>3. UNCHANGED <<handled, late, refused, lost>>
    BY <1>3, <1>6 DEF Record
  <2>4. QED
    BY <2>1, <2>2, <2>3 DEF Delivery!Done, Delivery!Move, Place, P
<1>7. CASE outcome[r] # "delivered"
  <2>1. Place[f] = "waiting"
    BY <1>2, <1>7 DEF Place
  <2>2. \/ Place'[f] = "dead" /\ Delivery!Exhausted(f)
        \/ Place'[f] = "waiting"
    BY <1>1, <1>2, <1>5, <1>7, LastAttempt DEF Place, Verdict
  <2>3. \/ /\ Place' = [Place EXCEPT ![f] = "dead"]
           /\ Delivery!Exhausted(f)
        \/ Place' = [Place EXCEPT ![f] = "waiting"]
    BY <1>4, <2>2, PlaceMoves
  <2>4. CASE outcome[r] = "refused"
    <3>1. /\ refused' = [refused EXCEPT ![f] = @ + 1]
          /\ UNCHANGED <<handled, late, lost>>
      BY <1>3, <2>4 DEF Record
    <3>2. QED
      BY <2>1, <2>3, <3>1 DEF Delivery!Refuse, Delivery!Move, Place, P
  <2>5. CASE outcome[r] = "cancelled"
    <3>1. lost' = LostToo({f}) /\ UNCHANGED <<handled, late, refused>>
      BY <1>3, <2>5 DEF Record
    <3>2. CASE Place'[f] = "waiting"
      <4>1. \A e \in {f} : Place[e] \in {"waiting", "delivered"}
        BY <2>1
      <4>2. \A e \in Event : Place'[e] = IF e \in {f} THEN "waiting"
                                                      ELSE Place[e]
        BY <1>4, <3>2
      <4>3. QED
        BY <1>0, <3>1, <4>1, <4>2, FaultWritesOff
    <3>3. CASE Place'[f] = "dead" /\ Delivery!Exhausted(f)
      <4> DEFINE moved(b) == [e \in Event |-> IF e \in b THEN "dead"
                                             ELSE IF e \in {f} THEN "waiting"
                                             ELSE Place[e]]
      <4>1. Place' = moved({f})
        BY <1>4, <3>3 DEF Place
      <4>2. {f} \in SUBSET {e \in {f} : Place[e] = "waiting"
                                        /\ Delivery!Exhausted(e)}
        BY <2>1, <3>3
      <4>3. \E b \in SUBSET {e \in {f} : Place[e] = "waiting"
                                         /\ Delivery!Exhausted(e)} :
                Place' = moved(b)
        BY <4>1, <4>2
      <4>4. QED
        BY <2>1, <3>1, <4>3 DEF Delivery!WriteOff, LostToo, Place, P
    <3>4. QED
      BY <2>2, <3>2, <3>3
  <2>6. QED
    BY <1>1, <1>7, <2>4, <2>5
<1>8. QED
  BY <1>6, <1>7

\* Publishing delivers, or loses sight of the delivery, or changes nothing yet.
LEMMA PublishDelivers ==
    ASSUME IInv, NEW r \in Relay, NEW f \in Event, Publish(r, f)
    PROVE  \/ Delivery!Deliver(f)
           \/ Delivery!LoseSight(f)
           \/ UNCHANGED Delivery!vars
<1>0. TypeOK /\ OneClaim
  BY DEF IInv
<1>1. /\ Current(r, f) /\ outcome[r] = "none" /\ outcome \in [Relay -> Outcome]
      /\ UNCHANGED <<status, refused, lost>>
  BY <1>0 DEF Publish, table, TypeOK
<1>2. /\ ~P(f) /\ status[f] = "processing"
      /\ P(f)' <=> outcome'[r] = "delivered"
      /\ \A e \in Event : e # f => (P(e)' <=> P(e))
  BY <1>0, PublishPlaces
<1>3. Delivery!Owed(f)
  BY <1>1, PublishOwed
<1>4. Place[f] = "waiting" /\ \A e \in Event : e # f => Place'[e] = Place[e]
  BY <1>1, <1>2 DEF Place
<1>5. CASE /\ outcome' = [outcome EXCEPT ![r] = "delivered"]
           /\ handled' = [handled EXCEPT ![f] = @ + 1]
           /\ UNCHANGED late
  <2>1. Place'[f] = "delivered"
    BY <1>1, <1>2, <1>5 DEF Place
  <2>2. Place' = [Place EXCEPT ![f] = "delivered"]
    BY <1>4, <2>1, PlaceMoves
  <2>3. QED
    BY <1>1, <1>3, <1>4, <1>5, <2>2
    DEF Delivery!Deliver, Delivery!Move, Place, P
<1>6. CASE outcome' = [outcome EXCEPT ![r] = "refused"]
           /\ UNCHANGED <<handled, late>>
  <2>1. Place'[f] = Place[f]
    BY <1>1, <1>2, <1>6 DEF Place
  <2>2. QED
    BY <1>1, <1>4, <1>6, <2>1, DeliveryStutter DEF count
<1>7. CASE /\ outcome' = [outcome EXCEPT ![r] = "cancelled"]
           /\ \/ /\ handled' \in {handled, [handled EXCEPT ![f] = @ + 1]}
                 /\ UNCHANGED late
              \/ /\ late' = [late EXCEPT ![f] = @ + 1]
                 /\ UNCHANGED handled
  <2>1. \A e \in Event : Place'[e] = Place[e]
    BY <1>1, <1>2, <1>4, <1>7 DEF Place
  <2>2. Place' = Place
    BY <2>1 DEF Place
  <2>3. CASE UNCHANGED <<handled, late>>
    BY <1>1, <2>1, <2>3, DeliveryStutter DEF count
  <2>4. CASE \/ handled' = [handled EXCEPT ![f] = @ + 1] /\ UNCHANGED late
             \/ late' = [late EXCEPT ![f] = @ + 1] /\ UNCHANGED handled
    BY <1>1, <1>3, <1>4, <2>2, <2>4 DEF Delivery!LoseSight, Place, P
  <2>5. QED
    BY <1>7, <2>3, <2>4
<1>8. QED
  BY <1>5, <1>6, <1>7 DEF Publish

\* Every step of the relays, of the transactions, of the janitor and of the
\* faults is a step of EventDelivery, or none.
LEMMA DeliveryRefined ==
    ASSUME Undisturbed, IInv, [Next]_vars
    PROVE  [Delivery!Next]_(Delivery!vars)
<1>0. TypeOK /\ OneClaim /\ Leased /\ status \in [Event -> Status]
  BY DEF IInv, TypeOK
<1> USE DEF table, relay
<1>1. ASSUME NEW f \in Event, Add(f) PROVE Delivery!Add(f)
  <2>1. UNCHANGED <<batch, outcome, late, count>>
    BY <1>1 DEF Add
  <2>2. \A e \in Event : P(e)' <=> P(e)
    BY <2>1 DEF P, Published, Current
  <2>3. ~P(f) /\ Place[f] = "none"
    BY <1>0, <1>1, DeliveredHeld DEF Add, Place
  <2>4. /\ \A e \in Event : e # f => Place'[e] = Place[e]
        /\ Place'[f] = "waiting"
    BY <1>0, <1>1, <2>2, <2>3 DEF Add, Place
  <2>5. Place' = [Place EXCEPT ![f] = "waiting"]
    BY <2>4, PlaceMoves
  <2>6. QED
    BY <2>1, <2>3, <2>5 DEF Delivery!Add, Delivery!Move, Place, P, count
<1>2. ASSUME NEW f \in Event, FallsDue(f) PROVE UNCHANGED Delivery!vars
  <2>1. UNCHANGED <<status, batch, outcome, late, count>>
    BY <1>2 DEF FallsDue
  <2>2. QED
    BY <2>1, DeliveryStutter DEF Place, P, Published, Current
<1>3. ASSUME NEW f \in Event, DrainLate(f) PROVE Delivery!DrainLate(f)
  <2>1. UNCHANGED <<status, batch, outcome, refused, lost>>
    BY <1>3 DEF DrainLate
  <2>2. Place' = Place
    BY <2>1 DEF Place, P, Published, Current
  <2>3. QED
    BY <1>3, <2>1, <2>2 DEF DrainLate, Delivery!DrainLate, Place, P
<1>4. ASSUME NEW f \in Event, PurgeProcessedOutboxEvents(f)
      PROVE  Delivery!Purge(f)
  <2>1. UNCHANGED <<batch, outcome, late, count>>
    BY <1>4 DEF PurgeProcessedOutboxEvents
  <2>2. \A e \in Event : P(e)' <=> P(e)
    BY <2>1 DEF P, Published, Current
  <2>3. /\ Place[f] = "done" /\ Place'[f] = "purged"
        /\ \A e \in Event : e # f => Place'[e] = Place[e]
    BY <1>0, <1>4, <2>2 DEF PurgeProcessedOutboxEvents, Place
  <2>4. Place' = [Place EXCEPT ![f] = "purged"]
    BY <2>3, PlaceMoves
  <2>5. QED
    BY <2>1, <2>3, <2>4 DEF Delivery!Purge, Delivery!Move, Place, P, count
<1>5. ASSUME NEW r \in Relay, ClaimBatch(r)
      PROVE  UNCHANGED Delivery!vars \/ \E es \in SUBSET Event :
                                            Delivery!WriteOff(es)
  <2>1. PICK items \in SUBSET Event :
              /\ Claims(r, items)
              /\ items \subseteq due
              /\ \A f \in items :
                    status[f] \in {"pending", "failed", "processing"}
    BY <1>0, <1>5, ClaimTakesDue DEF IInv
  <2>2. /\ batch[r] = {} /\ outcome[r] = "none" /\ outcome' = outcome
        /\ \A s \in Relay : s # r => batch'[s] = batch[s]
    BY <1>0, <2>1 DEF Claims, IInv, DeliveryPending, TypeOK
  <2>3. \A e \in Event : P(e)' <=> P(e)
    BY <2>2 DEF P, Published, Current
  <2>4. \A e \in items : ~P(e)
    BY <1>0, <2>1, <2>2, ClaimsFree, DeliveredHeld DEF IInv
  <2>5. \A e \in Event : status'[e] = IF e \in items THEN "processing"
                                                   ELSE status[e]
    BY <2>1 DEF Claims
  <2>6. /\ \A e \in Event : Place'[e] = Place[e]
        /\ \A e \in items : Place[e] = "waiting"
    BY <2>1, <2>3, <2>4, <2>5 DEF Place
  <2>7. CASE UNCHANGED lost
    BY <2>1, <2>6, <2>7, DeliveryStutter DEF Claims, count
  <2>8. CASE lost' = LostToo(items)
    <3>1. UNCHANGED <<handled, late, refused>>
      BY <2>1 DEF Claims
    <3>2. /\ \A e \in items : Place[e] \in {"waiting", "delivered"}
          /\ \A e \in Event : Place'[e] = IF e \in items THEN "waiting"
                                                        ELSE Place[e]
      BY <2>6
    <3>3. Delivery!WriteOff(items)
      BY <1>0, <2>8, <3>1, <3>2, FaultWritesOff
    <3>4. QED
      BY <3>3
  <2>9. QED
    BY <2>1, <2>7, <2>8 DEF Claims
<1>6. ASSUME NEW r \in Relay, NEW f \in Event, RecordFails(r, f)
      PROVE  Delivery!WriteOff({f})
  <2>1. /\ Current(r, f) /\ Settle(r, f) /\ lost' = LostToo({f})
        /\ UNCHANGED <<status, handled, late, refused>>
    BY <1>6 DEF RecordFails
  <2>2. /\ status[f] = "processing" /\ ~P(f)'
        /\ \A e \in Event : e # f => (P(e)' <=> P(e))
    BY <1>0, <2>1, SettlePlaces
  <2>3. /\ \A e \in {f} : Place[e] \in {"waiting", "delivered"}
        /\ \A e \in Event : Place'[e] = IF e \in {f} THEN "waiting"
                                                     ELSE Place[e]
    BY <2>1, <2>2 DEF Place
  <2>4. QED
    BY <1>0, <2>1, <2>3, FaultWritesOff
<1>7. ASSUME NEW r \in Relay, Stop(r) \/ Restart(r)
      PROVE  UNCHANGED Delivery!vars
  <2>1. UNCHANGED <<status, batch, outcome, late, count>>
    BY <1>7 DEF Stop, Restart
  <2>2. QED
    BY <2>1, DeliveryStutter DEF Place, P, Published, Current
<1>8. ASSUME NEW r \in Relay, Crash(r)
      PROVE  \E es \in SUBSET Event : Delivery!WriteOff(es)
  <2>1. /\ batch' = [batch EXCEPT ![r] = {}]
        /\ outcome' = [outcome EXCEPT ![r] = "none"]
        /\ UNCHANGED <<status, handled, late, refused>>
        /\ lost' = LostToo(batch[r])
        /\ batch[r] \in SUBSET Event
    BY <1>0, <1>8 DEF Crash, TypeOK
  <2>2. /\ batch'[r] = {}
        /\ \A s \in Relay : s # r => batch'[s] = batch[s]
                                   /\ outcome'[s] = outcome[s]
    BY <1>0, <2>1 DEF TypeOK
  <2>3. ASSUME NEW e \in Event PROVE e \notin batch[r] => (P(e)' <=> P(e))
    BY <2>2 DEF P, Published, Current
  <2>4. ASSUME NEW e \in batch[r]
        PROVE  ~P(e)' /\ status[e] = "processing"
    <3>1. ~Held(e)'
      BY <1>0, <2>2, <2>4 DEF OneClaim, Held
    <3>2. QED
      BY <1>0, <2>4, <3>1 DEF P, Published, Current, Held, OneClaim
  <2>5. /\ \A e \in batch[r] : Place[e] \in {"waiting", "delivered"}
        /\ \A e \in Event : Place'[e] = IF e \in batch[r] THEN "waiting"
                                                         ELSE Place[e]
    BY <2>1, <2>3, <2>4 DEF Place
  <2>6. PICK es \in SUBSET Event : es = batch[r]
    BY <2>1
  <2>7. /\ \A e \in es : Place[e] \in {"waiting", "delivered"}
        /\ \A e \in Event : Place'[e] = IF e \in es THEN "waiting"
                                                   ELSE Place[e]
        /\ lost' = LostToo(es)
    BY <2>1, <2>5, <2>6
  <2>8. Delivery!WriteOff(es)
    BY <1>0, <2>1, <2>7, FaultWritesOff
  <2>9. QED
    BY <2>8
<1>9. CASE UNCHANGED vars
  <2>1. UNCHANGED <<status, batch, outcome, late, count>>
    BY <1>9 DEF vars, count
  <2>2. QED
    BY <2>1, DeliveryStutter DEF Place, P, Published, Current
<1>10. ASSUME NEW r \in Relay, NEW f \in Event, Publish(r, f)
       PROVE  \/ Delivery!Deliver(f)
              \/ Delivery!LoseSight(f)
              \/ UNCHANGED Delivery!vars
  BY <1>10, PublishDelivers
<1>11. ASSUME NEW r \in Relay, NEW f \in Event, Record(r, f)
       PROVE  \/ Delivery!Done(f)
              \/ Delivery!Refuse(f)
              \/ \E es \in SUBSET Event : Delivery!WriteOff(es)
  <2>1. {f} \in SUBSET Event
    OBVIOUS
  <2>2. QED
    BY <1>11, <2>1, RecordDelivers
<1>12. ASSUME NEW r \in Relay, NEW f \in Event, RecordFails(r, f)
       PROVE  \E es \in SUBSET Event : Delivery!WriteOff(es)
  <2>1. {f} \in SUBSET Event
    OBVIOUS
  <2>2. QED
    BY <1>6, <1>12, <2>1
<1>13. QED
  BY <1>1, <1>2, <1>3, <1>4, <1>5, <1>7, <1>8, <1>9, <1>10, <1>11, <1>12
  DEF Next, Step, Idle, Delivery!Next

\* Each event is delivered as if it were alone with a relay that never dies,
\* except that a delivery that was written off is made again.
THEOREM DeliveredAsPromisedCorrect ==
    ASSUME Undisturbed PROVE Spec => DeliveredAsPromised
<1>1. Init => Delivery!Init
  <2>1. ASSUME Init PROVE Place = [e \in Event |-> "none"]
    BY <2>1 DEF Init, Place
  <2>2. QED
    BY <2>1 DEF Init, Delivery!Init, Place, P
<1>2. IInv /\ [Next]_vars => [Delivery!Next]_(Delivery!vars)
  BY DeliveryRefined
<1>3. QED
  BY <1>1, <1>2, IInvCorrect, PTL
  DEF Spec, DeliveredAsPromised, Delivery!Spec

-----------------------------------------------------------------------------
(* What holds of deliveries even when claims fall due under live batches,   *)
(* so that relays hold the same event: no Undisturbed from here on.         *)

\* A batch has one head.
LEMMA OneCurrent ==
    ASSUME TypeOK, NEW r \in Relay, NEW e, NEW f, Current(r, e), Current(r, f)
    PROVE  e = f
BY EventAssumption DEF TypeOK, Current

\* What a step does to the deliveries of e that relays still owe: it forgives
\* some, makes one of them, or takes on one with an attempt of its own.
Owes(e) ==
    \/ /\ Owing(e)' \subseteq Owing(e)
       /\ handled'[e] + late'[e] <= handled[e] + late[e]
       /\ attempts'[e] = attempts[e]
    \/ /\ \E r \in Owing(e) : Owing(e)' \subseteq Owing(e) \ {r}
       /\ handled'[e] + late'[e] <= handled[e] + late[e] + 1
       /\ attempts'[e] = attempts[e]
    \/ /\ \E r \in Relay : Owing(e)' \subseteq Owing(e) \cup {r}
       /\ handled'[e] + late'[e] = handled[e] + late[e]
       /\ attempts'[e] = attempts[e] + 1

\* The head of r's batch leaves it: nobody owes more than before.
LEMMA SettleOwes ==
    ASSUME TypeOK, NEW r \in Relay, NEW f \in Event, Current(r, f),
           Settle(r, f), NEW e \in Event
    PROVE  Owing(e)' \subseteq Owing(e)
<1>1. /\ batch'[r] = batch[r] \ {f}
      /\ \A s \in Relay : s # r => /\ batch'[s] = batch[s]
                                   /\ outcome'[s] = outcome[s]
  BY DEF Settle, TypeOK
<1>2. ASSUME NEW s \in Relay, s \in Owing(e)' PROVE s \in Owing(e)
  <2>1. CASE s # r
    BY <1>1, <1>2, <2>1 DEF Owing, Current
  <2>2. CASE s = r
    <3>1. e \in batch[r] /\ e # f
      BY <1>1, <1>2, <2>2 DEF Owing
    <3>2. ~Current(r, e)
      BY <3>1, OneCurrent
    <3>3. QED
      BY <2>2, <3>1, <3>2 DEF Owing
  <2>3. QED
    BY <2>1, <2>2
<1>3. QED
  BY <1>2 DEF Owing

\* Publishing the head of a batch makes one delivery at most, which was owed.
LEMMA PublishOwes ==
    ASSUME TypeOK, NEW r \in Relay, NEW f \in Event, Publish(r, f),
           NEW e \in Event
    PROVE  Owes(e)
<1>1. /\ Current(r, f) /\ f \in batch[r] /\ outcome[r] = "none"
      /\ outcome'[r] # "none"
      /\ \A s \in Relay : s # r => outcome'[s] = outcome[s]
      /\ UNCHANGED <<attempts, batch>>
  BY DEF Publish, Current, TypeOK, table
<1>2. \A s \in Relay : s # r /\ s \in Owing(e)' => s \in Owing(e)
  BY <1>1 DEF Owing, Current
<1>3. CASE e = f
  <2>1. r \in Owing(e)
    BY <1>1, <1>3 DEF Owing
  <2>2. Current(r, e)'
    BY <1>1, <1>3 DEF Current
  <2>3. r \notin Owing(e)'
    BY <1>1, <2>2 DEF Owing
  <2>4. Owing(e)' \subseteq Owing(e) \ {r}
    BY <1>2, <2>3 DEF Owing
  <2>5. \/ handled'[e] = handled[e] + 1 /\ late'[e] = late[e]
        \/ handled'[e] = handled[e] /\ late'[e] = late[e]
        \/ handled'[e] = handled[e] /\ late'[e] = late[e] + 1
    BY <1>3 DEF Publish, TypeOK
  <2>6. handled'[e] + late'[e] <= handled[e] + late[e] + 1
    BY <2>5 DEF TypeOK
  <2>7. QED
    BY <1>1, <2>1, <2>4, <2>6 DEF Owes
<1>4. CASE e # f
  <2>1. ~Current(r, e)
    BY <1>1, <1>4, OneCurrent
  <2>2. Owing(e)' \subseteq Owing(e)
    BY <1>1, <1>2, <2>1 DEF Owing
  <2>3. handled'[e] = handled[e] /\ late'[e] = late[e]
    BY <1>4 DEF Publish, TypeOK
  <2>4. QED
    BY <1>1, <2>2, <2>3 DEF Owes, TypeOK
<1>5. QED
  BY <1>3, <1>4

\* Every step does one of those things to every event.
LEMMA OwesStep ==
    ASSUME TypeOK, [Next]_vars, NEW e \in Event
    PROVE  Owes(e)
<1> USE DEF table, relay, count
<1>0. /\ handled[e] \in Nat /\ late[e] \in Nat /\ attempts[e] \in Nat
      /\ handled[e] + late[e] <= handled[e] + late[e]
  BY DEF TypeOK
<1>1. ASSUME UNCHANGED <<batch, outcome, attempts, late, handled>>
      PROVE  Owes(e)
  <2>1. Owing(e)' = Owing(e)
    BY <1>1 DEF Owing, Current
  <2>2. QED
    BY <1>0, <1>1, <2>1 DEF Owes
<1>2. ASSUME NEW f \in Event, DrainLate(f) PROVE Owes(e)
  <2>1. Owing(e)' = Owing(e)
    BY <1>2 DEF DrainLate, Owing, Current
  <2>2. /\ late'[e] = IF e = f THEN late[e] - 1 ELSE late[e]
        /\ \/ handled'[e] = handled[e]
           \/ e = f /\ handled'[e] = handled[e] + 1
        /\ attempts' = attempts
    BY <1>2 DEF DrainLate, TypeOK
  <2>3. handled'[e] + late'[e] <= handled[e] + late[e]
    BY <1>0, <2>2
  <2>4. QED
    BY <2>1, <2>2, <2>3 DEF Owes
<1>3. ASSUME NEW r \in Relay, ClaimBatch(r) PROVE Owes(e)
  <2>1. PICK items \in SUBSET Event : Claims(r, items)
    BY <1>3, ClaimTakesDue
  <2>2. /\ UNCHANGED <<outcome, handled, late>>
        /\ \A s \in Relay : s # r => batch'[s] = batch[s]
        /\ batch'[r] \subseteq items
        /\ attempts'[e] = IF e \in items THEN attempts[e] + 1 ELSE attempts[e]
    BY <2>1 DEF Claims, Counted, TypeOK
  <2>3. \A s \in Relay : s # r /\ s \in Owing(e)' => s \in Owing(e)
    BY <2>2 DEF Owing, Current
  <2>4. CASE e \in items
    <3>1. Owing(e)' \subseteq Owing(e) \cup {r}
      BY <2>3 DEF Owing
    <3>2. QED
      BY <2>2, <2>4, <3>1 DEF Owes
  <2>5. CASE e \notin items
    <3>1. r \notin Owing(e)'
      BY <2>2, <2>5 DEF Owing
    <3>2. Owing(e)' \subseteq Owing(e)
      BY <2>3, <3>1 DEF Owing
    <3>3. QED
      BY <1>0, <2>2, <2>5, <3>2 DEF Owes
  <2>6. QED
    BY <2>4, <2>5
<1>4. ASSUME NEW r \in Relay, NEW f \in Event, Record(r, f) \/ RecordFails(r, f)
      PROVE  Owes(e)
  <2>1. /\ Current(r, f) /\ Settle(r, f)
        /\ UNCHANGED <<attempts, late, handled>>
    BY <1>4 DEF Record, RecordFails
  <2>2. Owing(e)' \subseteq Owing(e)
    BY <2>1, SettleOwes
  <2>3. QED
    BY <1>0, <2>1, <2>2 DEF Owes
<1>5. ASSUME NEW r \in Relay, Crash(r) PROVE Owes(e)
  <2>1. /\ batch'[r] = {}
        /\ \A s \in Relay : s # r => /\ batch'[s] = batch[s]
                                     /\ outcome'[s] = outcome[s]
        /\ UNCHANGED <<attempts, late, handled>>
    BY <1>5 DEF Crash, TypeOK
  <2>2. Owing(e)' \subseteq Owing(e)
    BY <2>1 DEF Owing, Current
  <2>3. QED
    BY <1>0, <2>1, <2>2 DEF Owes
<1>6. ASSUME NEW f \in Event, Add(f) \/ FallsDue(f)
                              \/ PurgeProcessedOutboxEvents(f)
      PROVE  Owes(e)
  BY <1>1, <1>6 DEF Add, FallsDue, PurgeProcessedOutboxEvents
<1>7. ASSUME NEW r \in Relay, Stop(r) \/ Restart(r) PROVE Owes(e)
  BY <1>1, <1>7 DEF Stop, Restart
<1>8. CASE UNCHANGED vars
  BY <1>1, <1>8 DEF vars
<1>9. QED
  BY <1>2, <1>3, <1>4, <1>5, <1>6, <1>7, <1>8, PublishOwes
  DEF Next, Step, Idle

\* So every delivery owed keeps an attempt of its own.
LEMMA PaidStep ==
    ASSUME TypeOK, TypeOK', Paid, [Next]_vars
    PROVE  Paid'
<1> SUFFICES ASSUME NEW e \in Event
             PROVE  /\ IsFiniteSet(Owing(e)')
                    /\ handled'[e] + late'[e] + Cardinality(Owing(e)')
                          <= attempts'[e]
  BY DEF Paid
<1> DEFINE H == handled[e] + late[e]
           G == handled'[e] + late'[e]
<1>1. /\ IsFiniteSet(Owing(e)) /\ Cardinality(Owing(e)) \in Nat
      /\ H + Cardinality(Owing(e)) <= attempts[e]
  BY FS_CardinalityType DEF Paid
<1>2. H \in Nat /\ G \in Nat /\ attempts[e] \in Nat /\ attempts'[e] \in Nat
  BY DEF TypeOK
<1>3. ASSUME NEW S, IsFiniteSet(S), Owing(e)' \subseteq S,
             G + Cardinality(S) <= attempts'[e]
      PROVE  /\ IsFiniteSet(Owing(e)')
             /\ G + Cardinality(Owing(e)') <= attempts'[e]
  <2>1. /\ IsFiniteSet(Owing(e)')
        /\ Cardinality(Owing(e)') <= Cardinality(S)
    BY <1>3, FS_Subset
  <2>2. Cardinality(Owing(e)') \in Nat /\ Cardinality(S) \in Nat
    BY <1>3, <2>1, FS_CardinalityType
  <2>3. QED
    BY <1>2, <1>3, <2>1, <2>2
<1> HIDE DEF H, G
<1>4. CASE /\ Owing(e)' \subseteq Owing(e)
           /\ G <= H /\ attempts'[e] = attempts[e]
  <2>1. G + Cardinality(Owing(e)) <= attempts'[e]
    BY <1>1, <1>2, <1>4
  <2>2. QED
    BY <1>1, <1>3, <1>4, <2>1 DEF G
<1>5. CASE /\ \E r \in Owing(e) : Owing(e)' \subseteq Owing(e) \ {r}
           /\ G <= H + 1 /\ attempts'[e] = attempts[e]
  <2>1. PICK r \in Owing(e) : Owing(e)' \subseteq Owing(e) \ {r}
    BY <1>5
  <2>2. /\ IsFiniteSet(Owing(e) \ {r})
        /\ Cardinality(Owing(e) \ {r}) = Cardinality(Owing(e)) - 1
    BY <1>1, FS_RemoveElement
  <2>3. G + Cardinality(Owing(e) \ {r}) <= attempts'[e]
    BY <1>1, <1>2, <1>5, <2>2
  <2>4. QED
    BY <1>3, <2>1, <2>2, <2>3 DEF G
<1>6. CASE /\ \E r \in Relay : Owing(e)' \subseteq Owing(e) \cup {r}
           /\ G = H /\ attempts'[e] = attempts[e] + 1
  <2>1. PICK r \in Relay : Owing(e)' \subseteq Owing(e) \cup {r}
    BY <1>6
  <2>2. /\ IsFiniteSet(Owing(e) \cup {r})
        /\ \/ Cardinality(Owing(e) \cup {r}) = Cardinality(Owing(e))
           \/ Cardinality(Owing(e) \cup {r}) = Cardinality(Owing(e)) + 1
    BY <1>1, FS_AddElement
  <2>3. G + Cardinality(Owing(e) \cup {r}) <= attempts'[e]
    BY <1>1, <1>2, <1>6, <2>2
  <2>4. QED
    BY <1>3, <2>1, <2>2, <2>3 DEF G
<1>7. QED
  BY <1>4, <1>5, <1>6, OwesStep DEF Owes, G, H

\* What is counted stays counted.
LEMMA CountsGrow ==
    ASSUME TypeOK, [Next]_vars, NEW e \in Event
    PROVE  handled'[e] >= handled[e] /\ attempts'[e] >= attempts[e]
<1> USE DEF table, relay, count
<1>0. /\ handled[e] \in Nat /\ attempts[e] \in Nat
      /\ handled[e] >= handled[e] /\ attempts[e] >= attempts[e]
      /\ handled[e] + 1 >= handled[e] /\ attempts[e] + 1 >= attempts[e]
  BY DEF TypeOK
<1>1. CASE UNCHANGED <<attempts, handled>>
  BY <1>0, <1>1
<1>2. ASSUME NEW f \in Event, DrainLate(f) \/ \E r \in Relay : Publish(r, f)
      PROVE  handled'[e] >= handled[e] /\ attempts'[e] >= attempts[e]
  <2>1. \/ handled' = handled
        \/ handled' = [handled EXCEPT ![f] = @ + 1]
    BY <1>2 DEF DrainLate, Publish
  <2>2. attempts' = attempts
    BY <1>2 DEF DrainLate, Publish
  <2>3. handled'[e] = handled[e] \/ handled'[e] = handled[e] + 1
    BY <2>1 DEF TypeOK
  <2>4. QED
    BY <1>0, <2>2, <2>3
<1>3. ASSUME NEW r \in Relay, ClaimBatch(r)
      PROVE  handled'[e] >= handled[e] /\ attempts'[e] >= attempts[e]
  <2>1. /\ handled' = handled
        /\ attempts'[e] = attempts[e] \/ attempts'[e] = attempts[e] + 1
    BY <1>3, ClaimTakesDue DEF Claims, Counted
  <2>2. QED
    BY <1>0, <2>1
<1>4. QED
  BY <1>1, <1>2, <1>3
  DEF Next, Step, Idle, vars, Add, FallsDue, PurgeProcessedOutboxEvents,
      Record, RecordFails, Stop, Restart, Crash

\* A relay keeps knowing an attempt that was counted, and keeps its word.
LEMMA HonestStep ==
    ASSUME TypeOK, HonestRelay, [Next]_vars
    PROVE  HonestRelay'
<1> DEFINE Honest(r) == /\ batch[r] = {} => outcome[r] = "none"
                        /\ \A e \in batch[r] :
                              /\ read[r][e] < attempts[e]
                              /\ outcome[r] = "delivered" /\ Current(r, e)
                                    => handled[e] >= 1
<1> USE DEF table, relay, count
<1>0. /\ \A e \in Event : /\ handled[e] \in Nat /\ handled'[e] >= handled[e]
                          /\ attempts[e] \in Nat
                          /\ attempts'[e] >= attempts[e]
      /\ \A r \in Relay : batch[r] \subseteq Event
      /\ \A r \in Relay, e \in Event : read[r][e] \in Nat
      /\ TypeOK'
  BY CountsGrow, TypeStep DEF TypeOK
<1>00. \A e \in Event : handled'[e] \in Nat /\ attempts'[e] \in Nat
  BY <1>0 DEF TypeOK
<1>1. ASSUME NEW r \in Relay,
             batch'[r] = batch[r], read'[r] = read[r], outcome'[r] = outcome[r]
      PROVE  Honest(r)'
  <2>1. ASSUME NEW e \in batch[r]
        PROVE  /\ read[r][e] < attempts'[e]
               /\ outcome[r] = "delivered" /\ Current(r, e) => handled'[e] >= 1
    BY <1>0, <1>00 DEF HonestRelay
  <2>2. \A e : Current(r, e)' <=> Current(r, e)
    BY <1>1 DEF Current
  <2>3. QED
    BY <1>1, <2>1, <2>2 DEF HonestRelay
<1>2. CASE UNCHANGED <<batch, read, outcome>>
  BY <1>1, <1>2 DEF HonestRelay
<1>3. ASSUME NEW r \in Relay, ClaimBatch(r) PROVE HonestRelay'
  <2>1. PICK items \in SUBSET Event : Claims(r, items)
    BY <1>3, ClaimTakesDue
  <2>2. CASE UNCHANGED <<batch, read>>
    BY <1>2, <2>1, <2>2 DEF Claims
  <2>3. CASE /\ batch' = [batch EXCEPT ![r] = items]
             /\ read' = [read EXCEPT ![r] =
                    [e \in Event |-> IF e \in items THEN attempts[e] ELSE 0]]
    <3>1. /\ batch'[r] = items /\ outcome' = outcome /\ outcome[r] = "none"
          /\ \A s \in Relay : s # r => /\ batch'[s] = batch[s]
                                       /\ read'[s] = read[s]
      BY <2>1, <2>3 DEF Claims, HonestRelay, TypeOK
    <3>2. ASSUME NEW e \in items PROVE read'[r][e] < attempts'[e]
      <4>1. read'[r][e] = attempts[e] /\ attempts'[e] = attempts[e] + 1
        BY <2>1, <2>3 DEF Claims, Counted, TypeOK
      <4>2. QED
        BY <1>0, <4>1
    <3>3. Honest(r)'
      BY <3>1, <3>2
    <3>4. \A s \in Relay : s # r => Honest(s)'
      BY <1>1, <3>1
    <3>5. QED
      BY <3>3, <3>4 DEF HonestRelay
  <2>4. QED
    BY <2>1, <2>2, <2>3 DEF Claims
<1>4. ASSUME NEW r \in Relay, NEW f \in Event, Publish(r, f)
      PROVE  HonestRelay'
  <2>1. /\ Current(r, f) /\ f \in batch[r] /\ UNCHANGED <<batch, read>>
        /\ \A s \in Relay : s # r => outcome'[s] = outcome[s]
        /\ outcome'[r] = "delivered" => handled'[f] = handled[f] + 1
    BY <1>4 DEF Publish, Current, TypeOK
  <2>2. ASSUME NEW e \in batch[r]
        PROVE  /\ read[r][e] < attempts'[e]
               /\ outcome'[r] = "delivered" /\ Current(r, e)' => handled'[e] >= 1
    <3>1. read[r][e] < attempts'[e]
      BY <1>0, <1>00 DEF HonestRelay
    <3>2. Current(r, e)' => e = f
      BY <2>1, OneCurrent DEF Current
    <3>3. QED
      BY <1>0, <2>1, <3>1, <3>2
  <2>3. Honest(r)'
    BY <2>1, <2>2
  <2>4. \A s \in Relay : s # r => Honest(s)'
    BY <1>1, <2>1
  <2>5. QED
    BY <2>3, <2>4 DEF HonestRelay
<1>5. ASSUME NEW r \in Relay, NEW f \in Event, Settle(r, f)
      PROVE  HonestRelay'
  <2>1. /\ batch'[r] = batch[r] \ {f} /\ outcome'[r] = "none"
        /\ \A e \in Event : e # f => read'[r][e] = read[r][e]
        /\ \A s \in Relay : s # r => /\ batch'[s] = batch[s]
                                     /\ read'[s] = read[s]
                                     /\ outcome'[s] = outcome[s]
    BY <1>5 DEF Settle, TypeOK
  <2>2. ASSUME NEW e \in batch'[r] PROVE read'[r][e] < attempts'[e]
    <3>1. e \in batch[r] /\ read'[r][e] = read[r][e]
      BY <1>0, <2>1
    <3>2. QED
      BY <1>0, <1>00, <3>1 DEF HonestRelay
  <2>3. Honest(r)'
    BY <2>1, <2>2
  <2>4. \A s \in Relay : s # r => Honest(s)'
    BY <1>1, <2>1
  <2>5. QED
    BY <2>3, <2>4 DEF HonestRelay
<1>6. ASSUME NEW r \in Relay, Crash(r) PROVE HonestRelay'
  <2>1. /\ batch'[r] = {} /\ outcome'[r] = "none"
        /\ \A s \in Relay : s # r => /\ batch'[s] = batch[s]
                                     /\ read'[s] = read[s]
                                     /\ outcome'[s] = outcome[s]
    BY <1>6 DEF Crash, TypeOK
  <2>2. \A s \in Relay : Honest(s)'
    BY <1>1, <2>1
  <2>3. QED
    BY <2>2 DEF HonestRelay
<1>7. QED
  BY <1>2, <1>3, <1>4, <1>5, <1>6
  DEF Next, Step, Idle, vars, Add, FallsDue, DrainLate,
      PurgeProcessedOutboxEvents, Record, RecordFails, Stop, Restart

\* A row becomes done or dead only on the word of a relay that holds it.
LEMMA OncePerClaimStep ==
    ASSUME TypeOK, HonestRelay, OncePerClaim, Paid', [Next]_vars
    PROVE  OncePerClaim'
<1> USE DEF table, relay, count
<1>0. TypeOK'
  BY TypeStep
<1> SUFFICES ASSUME NEW e \in Event
             PROVE  /\ status'[e] \in {"done", "purged"} => handled'[e] >= 1
                    /\ status'[e] = "dead" => attempts'[e] >= MaxAttempts
                    /\ handled'[e] + late'[e] <= attempts'[e]
  BY DEF OncePerClaim
<1>1. handled'[e] + late'[e] <= attempts'[e]
  <2>1. /\ handled'[e] \in Nat /\ late'[e] \in Nat /\ attempts'[e] \in Nat
    BY <1>0 DEF TypeOK
  <2>2. /\ Cardinality(Owing(e)') \in Nat
        /\ handled'[e] + late'[e] + Cardinality(Owing(e)') <= attempts'[e]
    BY FS_CardinalityType DEF Paid
  <2>3. QED
    BY <2>1, <2>2
<1>2. /\ handled[e] \in Nat /\ handled'[e] \in Nat /\ handled'[e] >= handled[e]
      /\ attempts[e] \in Nat /\ attempts'[e] \in Nat
      /\ attempts'[e] >= attempts[e] /\ MaxAttempts \in Nat
  BY <1>0, CountsGrow, BoundAssumption DEF TypeOK
<1>3. CASE /\ status'[e] \in {"done", "purged"} => status[e] \in {"done", "purged"}
           /\ status'[e] = "dead" => status[e] = "dead"
  BY <1>1, <1>2, <1>3 DEF OncePerClaim
<1>4. ASSUME NEW f \in Event, Add(f) \/ FallsDue(f) \/ DrainLate(f)
                              \/ PurgeProcessedOutboxEvents(f)
      PROVE  /\ status'[e] \in {"done", "purged"}
                   => status[e] \in {"done", "purged"}
             /\ status'[e] = "dead" => status[e] = "dead"
  BY <1>4 DEF Add, FallsDue, DrainLate, PurgeProcessedOutboxEvents, TypeOK
<1>5. ASSUME NEW r \in Relay, ClaimBatch(r)
      PROVE  status'[e] = "processing" \/ status'[e] = status[e]
  BY <1>5, ClaimTakesDue DEF Claims
<1>6. ASSUME NEW r \in Relay, NEW f \in Event, Record(r, f)
      PROVE  /\ status'[e] \in {"done", "purged"} => handled'[e] >= 1
             /\ status'[e] = "dead" => attempts'[e] >= MaxAttempts
  <2>1. /\ Current(r, f) /\ f \in batch[r] /\ outcome[r] # "none"
        /\ \/ status'[e] = status[e]
           \/ e = f /\ status'[e] = Verdict(r, f)
    BY <1>6 DEF Record, Current, TypeOK
  <2>2. CASE status'[e] = status[e]
    BY <1>3, <2>2
  <2>3. CASE e = f /\ status'[e] = Verdict(r, f)
    <3>1. /\ read[r][e] < attempts[e] /\ read[r][e] \in Nat
          /\ outcome[r] = "delivered" => handled[e] >= 1
      BY <2>1, <2>3 DEF HonestRelay, TypeOK
    <3>2. CASE outcome[r] = "delivered"
      BY <1>2, <2>3, <3>1, <3>2 DEF Verdict
    <3>3. CASE outcome[r] # "delivered"
      <4>1. /\ status'[e] \in {"dead", "failed"}
            /\ status'[e] = "dead" => read[r][e] + 1 >= MaxAttempts
        BY <2>3, <3>3 DEF Verdict
      <4>2. QED
        BY <1>2, <3>1, <4>1
    <3>4. QED
      BY <3>2, <3>3
  <2>4. QED
    BY <2>1, <2>2, <2>3
<1>7. CASE status' = status
  BY <1>3, <1>7
<1>8. QED
  BY <1>1, <1>3, <1>4, <1>5, <1>6, <1>7
  DEF Next, Step, Idle, vars, Publish, RecordFails, Stop, Restart, Crash

\* Before anything was claimed, nothing is owed.
LEMMA LInit == Init => LInv
<1> SUFFICES ASSUME Init PROVE LInv
  OBVIOUS
<1>1. TypeOK
  BY DEF Init, TypeOK, Status, Outcome
<1>2. HonestRelay
  BY DEF Init, HonestRelay
<1>3. OncePerClaim
  BY BoundAssumption DEF Init, OncePerClaim
<1>4. ASSUME NEW e \in Event
      PROVE  /\ IsFiniteSet(Owing(e))
             /\ handled[e] + late[e] + Cardinality(Owing(e)) <= attempts[e]
  <2>1. Owing(e) = {}
    BY DEF Init, Owing
  <2>2. IsFiniteSet(Owing(e)) /\ Cardinality(Owing(e)) = 0
    BY <2>1, FS_EmptySet
  <2>3. QED
    BY <2>2 DEF Init
<1>5. QED
  BY <1>1, <1>2, <1>3, <1>4 DEF LInv, Paid

\* Whatever becomes of leases - claims that fall due under a live batch, two
\* relays delivering one event, one recording over the other - an event is done
\* only if it was delivered, dead only after MaxAttempts claims, and delivered
\* at most once for every claim.
THEOREM OncePerClaimCorrect == Spec => []OncePerClaim
<1>1. LInv /\ [Next]_vars => LInv'
  BY TypeStep, HonestStep, PaidStep, OncePerClaimStep DEF LInv
<1>2. LInv => OncePerClaim
  BY DEF LInv
<1>3. QED
  BY LInit, <1>1, <1>2, PTL DEF Spec
=============================================================================
