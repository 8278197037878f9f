------------------------- MODULE IdempotencyProofs -------------------------
(***************************************************************************)
(* Proofs about Idempotency, for any sets of requests and payloads, any    *)
(* TTL and any number of faults.                                           *)
(***************************************************************************)
EXTENDS Idempotency, TLAPS

-----------------------------------------------------------------------------
(* Type correctness.                                                        *)

\* The statement pending at r, executed by the database, leaves a typed row.
LEMMA ExecutedType ==
    ASSUME TypeOK, NEW r \in Request, InFlight(r)
    PROVE  Executed(r) \in Row \cup {NoRow}
<1>1. payload[r] \in Payload /\ lease[r] \in Nat /\ nextId \in Nat
  BY DEF TypeOK
<1>2. InsertedRow(r) \in Row
  BY <1>1 DEF InsertedRow, Row, Status
<1>3. row # NoRow => ExpiredReclaimed(r) \in Row
  BY <1>1 DEF TypeOK, ExpiredReclaimed, Row, Status
<1>4. row # NoRow => FailedReclaimed(r) \in Row
  BY <1>1 DEF TypeOK, FailedReclaimed, Row, Status
<1>5. row # NoRow => Finalized(r) \in Row
  BY <1>1 DEF TypeOK, Finalized, Row, Status
<1>6. QED
  BY <1>2, <1>3, <1>4, <1>5
  DEF TypeOK, Executed, ExpiredMatches, FailedMatches, FinalizeMatches

\* Every action keeps the types.
LEMMA TypeStep == TypeOK /\ [Next]_vars => TypeOK'
<1> SUFFICES ASSUME TypeOK, [Next]_vars PROVE TypeOK'
  OBVIOUS
<1> USE DEF Goto, Leave, InFlight, Stage, store, time, local, ghost
<1>1. ASSUME NEW r \in Request, Arrive(r) PROVE TypeOK'
  BY <1>1, BoundAssumption DEF Arrive, TypeOK
<1>2. ASSUME NEW r \in Request, Claim(r) PROVE TypeOK'
  <2>1. InsertedRow(r) \in Row
    BY <1>2 DEF Claim, TypeOK, InsertedRow, Row, Status
  <2>2. QED
    BY <1>2, <2>1 DEF Claim, TypeOK
<1>3. ASSUME NEW r \in Request, Get(r) PROVE TypeOK'
  BY <1>3 DEF Get, TypeOK
<1>4. ASSUME NEW r \in Request, Resolve(r) PROVE TypeOK'
  <2>1. seen[r].response \in Request \cup {NoRequest}
    BY <1>4 DEF Resolve, TypeOK, Row
  <2>2. QED
    BY <1>4, <2>1 DEF Resolve, TypeOK
<1>5. ASSUME NEW r \in Request, ReclaimExpired(r) PROVE TypeOK'
  <2>1. ExpiredMatches(r) => ExpiredReclaimed(r) \in Row
    BY <1>5 DEF ReclaimExpired, TypeOK, ExpiredMatches, ExpiredReclaimed,
                Row, Status
  <2>2. seen[r].id \in Nat
    BY <1>5 DEF ReclaimExpired, TypeOK, Row
  <2>3. QED
    BY <1>5, <2>1, <2>2 DEF ReclaimExpired, TakeOver, TypeOK
<1>6. ASSUME NEW r \in Request, ReclaimFailed(r) PROVE TypeOK'
  <2>1. FailedMatches(r) => FailedReclaimed(r) \in Row
    BY <1>6 DEF ReclaimFailed, TypeOK, FailedMatches, FailedReclaimed,
                Row, Status
  <2>2. seen[r].id \in Nat
    BY <1>6 DEF ReclaimFailed, TypeOK, Row
  <2>3. QED
    BY <1>6, <2>1, <2>2 DEF ReclaimFailed, TakeOver, TypeOK
<1>7. ASSUME NEW r \in Request, ClaimAgain(r) PROVE TypeOK'
  <2>1. InsertedRow(r) \in Row
    BY <1>7 DEF ClaimAgain, TypeOK, InsertedRow, Row, Status
  <2>2. QED
    BY <1>7, <2>1 DEF ClaimAgain, TypeOK
<1>8. ASSUME NEW r \in Request, RunHandler(r) PROVE TypeOK'
  BY <1>8 DEF RunHandler, TypeOK, Result
<1>9. ASSUME NEW r \in Request, Finalize(r) PROVE TypeOK'
  <2>1. FinalizeMatches(r) => Finalized(r) \in Row
    BY <1>9 DEF Finalize, TypeOK, FinalizeMatches, Finalized, Row, Status
  <2>2. QED
    BY <1>9, <2>1 DEF Finalize, TypeOK
<1>10. ASSUME NEW r \in Request, StoreError(r) PROVE TypeOK'
  <2>1. row' \in Row \cup {NoRow}
    BY <1>10, ExecutedType DEF StoreError, TypeOK
  <2>2. QED
    BY <1>10, <2>1 DEF StoreError, TypeOK
<1>11. ASSUME NEW r \in Request, Crash(r) PROVE TypeOK'
  BY <1>11 DEF Crash, TypeOK
<1>12. CASE PurgeExpiredIdempotencyKeys
  BY <1>12 DEF PurgeExpiredIdempotencyKeys, TypeOK
<1>13. CASE Tick
  BY <1>13 DEF Tick, TypeOK
<1>14. CASE UNCHANGED vars
  BY <1>14 DEF vars, TypeOK
<1>15. QED
  BY <1>1, <1>2, <1>3, <1>4, <1>5, <1>6, <1>7, <1>8, <1>9, <1>10, <1>11,
     <1>12, <1>13, <1>14 DEF Next, Step, Terminated

\* The middleware, the store and the janitor only ever hold values of their
\* types; in particular a request that reclaims has read a row to reclaim.
THEOREM TypeCorrect == Spec => []TypeOK
<1>1. Init => TypeOK
  BY DEF Init, TypeOK, Stage, Result, InFlight
<1>2. QED
  BY <1>1, TypeStep, PTL DEF Spec

-----------------------------------------------------------------------------
(* Mutual exclusion.                                                        *)

\* r is let in when nobody holds the claim and its statement leaves the row
\* processing, with r's payload and r's lease.
LEMMA Admit ==
    ASSUME LeasesHold, TypeOK, Exclusive,
           NEW r \in Request, InFlight(r),
           \A s \in Request : ~Holds(s),
           row' \in Row, row'.status = "processing",
           row'.hash = payload[r], row'.expires = lease[r],
           claimed' = [claimed EXCEPT ![r] = row'.id],
           Goto(r, "run"), UNCHANGED <<time, payload, lease>>
    PROVE  Exclusive'
<1> USE DEF Goto, InFlight, Holds, TypeOK
<1>1. \A s \in Request : Holds(s)' => s = r
  OBVIOUS
<1>2. Unexpired' /\ Skewed'
  BY DEF Exclusive, Unexpired, Skewed, time
<1>3. HolderOwnsRow' /\ HolderLease'
  BY <1>1, RowAssumption DEF HolderOwnsRow, HolderLease
<1>4. OneHolder'
  BY <1>1 DEF OneHolder
<1>5. QED
  BY <1>2, <1>3, <1>4 DEF Exclusive

\* As long as requests end before their claims expire, every step leaves at
\* most one holder, and the row in its hands.
LEMMA ExclusiveStep ==
    ASSUME LeasesHold, TypeOK, Exclusive, [Next]_vars
    PROVE  Exclusive'
<1> USE DEF Goto, Leave, InFlight, Holds, store, time, local, ghost, TypeOK, Row,
            Exclusive, Skewed, Unexpired, HolderOwnsRow, HolderLease, OneHolder
<1>1. ASSUME NEW r \in Request, Arrive(r) PROVE Exclusive'
  BY <1>1, BoundAssumption, RowAssumption DEF Arrive
<1>2. ASSUME NEW r \in Request, Claim(r) PROVE Exclusive'
  <2>1. CASE InsertsRow
    <3>1. /\ row' = InsertedRow(r)
          /\ claimed' = [claimed EXCEPT ![r] = nextId]
          /\ Goto(r, "run")
          /\ UNCHANGED <<time, payload, lease>>
      BY <1>2, <2>1 DEF Claim
    <3>2. /\ row' \in Row /\ row'.status = "processing" /\ row'.id = nextId
          /\ row'.hash = payload[r] /\ row'.expires = lease[r]
      BY <1>2, <3>1 DEF Claim, InsertedRow, Status
    <3>3. InFlight(r) /\ \A s \in Request : ~Holds(s)
      BY <1>2, <2>1 DEF Claim, InsertsRow
    <3>4. QED
      BY <3>1, <3>2, <3>3, Admit
  <2>2. CASE ~InsertsRow
    BY <1>2, <2>2 DEF Claim
  <2>3. QED
    BY <2>1, <2>2
<1>3. ASSUME NEW r \in Request, Get(r) PROVE Exclusive'
  BY <1>3, BoundAssumption, RowAssumption DEF Get
<1>4. ASSUME NEW r \in Request, Resolve(r) PROVE Exclusive'
  BY <1>4, BoundAssumption, RowAssumption DEF Resolve
<1>5. ASSUME NEW r \in Request, ReclaimExpired(r) PROVE Exclusive'
  <2>1. CASE ExpiredMatches(r)
    <3>1. /\ row' = ExpiredReclaimed(r)
          /\ claimed' = [claimed EXCEPT ![r] = seen[r].id]
          /\ Goto(r, "run")
          /\ UNCHANGED <<time, payload, lease>>
      BY <1>5, <2>1 DEF ReclaimExpired, TakeOver
    <3>2. /\ row' \in Row /\ row'.status = "processing"
          /\ row'.id = seen[r].id
          /\ row'.hash = payload[r] /\ row'.expires = lease[r]
      BY <1>5, <2>1, <3>1 DEF ReclaimExpired, ExpiredMatches,
                              ExpiredReclaimed, Status
    <3>3. InFlight(r) /\ \A s \in Request : ~Holds(s)
      BY <1>5, <2>1 DEF ReclaimExpired, ExpiredMatches
    <3>4. QED
      BY <3>1, <3>2, <3>3, Admit
  <2>2. CASE ~ExpiredMatches(r)
    BY <1>5, <2>2 DEF ReclaimExpired, TakeOver
  <2>3. QED
    BY <2>1, <2>2
<1>6. ASSUME NEW r \in Request, ReclaimFailed(r) PROVE Exclusive'
  <2>1. CASE FailedMatches(r)
    <3>1. /\ row' = FailedReclaimed(r)
          /\ claimed' = [claimed EXCEPT ![r] = seen[r].id]
          /\ Goto(r, "run")
          /\ UNCHANGED <<time, payload, lease>>
      BY <1>6, <2>1 DEF ReclaimFailed, TakeOver
    <3>2. /\ row' \in Row /\ row'.status = "processing"
          /\ row'.id = seen[r].id
          /\ row'.hash = payload[r] /\ row'.expires = lease[r]
      BY <1>6, <2>1, <3>1 DEF ReclaimFailed, FailedMatches, FailedReclaimed,
                              Status
    <3>3. InFlight(r) /\ \A s \in Request : ~Holds(s)
      BY <1>6, <2>1 DEF ReclaimFailed, FailedMatches
    <3>4. QED
      BY <3>1, <3>2, <3>3, Admit
  <2>2. CASE ~FailedMatches(r)
    BY <1>6, <2>2 DEF ReclaimFailed, TakeOver
  <2>3. QED
    BY <2>1, <2>2
<1>7. ASSUME NEW r \in Request, ClaimAgain(r) PROVE Exclusive'
  <2>1. CASE InsertsRow
    <3>1. /\ row' = InsertedRow(r)
          /\ claimed' = [claimed EXCEPT ![r] = nextId]
          /\ Goto(r, "run")
          /\ UNCHANGED <<time, payload, lease>>
      BY <1>7, <2>1 DEF ClaimAgain
    <3>2. /\ row' \in Row /\ row'.status = "processing" /\ row'.id = nextId
          /\ row'.hash = payload[r] /\ row'.expires = lease[r]
      BY <1>7, <3>1 DEF ClaimAgain, InsertedRow, Status
    <3>3. InFlight(r) /\ \A s \in Request : ~Holds(s)
      BY <1>7, <2>1 DEF ClaimAgain, InsertsRow
    <3>4. QED
      BY <3>1, <3>2, <3>3, Admit
  <2>2. CASE ~InsertsRow
    BY <1>7, <2>2 DEF ClaimAgain
  <2>3. QED
    BY <2>1, <2>2
<1>8. ASSUME NEW r \in Request, RunHandler(r) PROVE Exclusive'
  <2>1. Goto(r, "finalize") /\ UNCHANGED <<row, time, payload, lease, claimed>>
    BY <1>8 DEF RunHandler
  <2>2. pc[r] = "run"
    BY <1>8 DEF RunHandler
  <2>3. \A s \in Request : Holds(s)' => Holds(s)
    BY <2>1, <2>2
  <2>4. QED
    BY <2>1, <2>2, <2>3
<1>9. ASSUME NEW r \in Request, Finalize(r) PROVE Exclusive'
  BY <1>9, BoundAssumption, RowAssumption DEF Finalize, FinalizeMatches, Finalized
<1>10. ASSUME NEW r \in Request, StoreError(r) PROVE Exclusive'
  BY <1>10, BoundAssumption, RowAssumption DEF StoreError, Executed, InsertsRow, InsertedRow, ExpiredMatches, ExpiredReclaimed, FailedMatches, FailedReclaimed, FinalizeMatches, Finalized
<1>11. ASSUME NEW r \in Request, Crash(r) PROVE Exclusive'
  BY <1>11, BoundAssumption, RowAssumption DEF Crash
<1>12. CASE PurgeExpiredIdempotencyKeys
  BY <1>12, BoundAssumption, RowAssumption DEF PurgeExpiredIdempotencyKeys
<1>13. CASE Tick
  BY <1>13, BoundAssumption, RowAssumption DEF Tick
<1>14. CASE UNCHANGED vars
  BY <1>14, BoundAssumption, RowAssumption DEF vars
<1>15. QED
  BY <1>1, <1>2, <1>3, <1>4, <1>5, <1>6, <1>7, <1>8, <1>9, <1>10, <1>11, <1>12, <1>13, <1>14
  DEF Next, Step, Terminated

\* The same for behaviours.
THEOREM ExclusiveCorrect == ASSUME LeasesHold PROVE Spec => [](TypeOK /\ Exclusive)
<1>1. Init => Exclusive
  BY BoundAssumption
  DEF Init, Exclusive, Skewed, Unexpired, HolderOwnsRow, HolderLease, OneHolder,
      InFlight, Holds
<1>2. TypeOK /\ Exclusive /\ [Next]_vars => Exclusive'
  BY ExclusiveStep
<1>3. QED
  BY <1>1, <1>2, TypeCorrect, PTL DEF Spec

\* Two requests with one key never run the handler at the same time: for any
\* number of requests, payloads and faults, if requests end before their
\* claims expire.
THEOREM OneHolderCorrect == ASSUME LeasesHold PROVE Spec => []OneHolder
<1>1. Exclusive => OneHolder
  BY DEF Exclusive
<1>2. QED
  BY <1>1, ExclusiveCorrect, PTL

\* The row of a request that runs its handler is touched by nobody else.
THEOREM HolderOwnsRowCorrect == ASSUME LeasesHold PROVE Spec => []HolderOwnsRow
<1>1. Exclusive => HolderOwnsRow
  BY DEF Exclusive
<1>2. QED
  BY <1>1, ExclusiveCorrect, PTL

-----------------------------------------------------------------------------
(* What is stored and replayed.                                             *)

\* A request that is done keeps its payload, its result and its answer.
LEMMA DoneStays ==
    ASSUME TypeOK, [Next]_vars, NEW q \in Request, pc[q] = "done"
    PROVE  /\ pc'[q] = "done"
           /\ payload'[q] = payload[q]
           /\ lease'[q] = lease[q]
           /\ result'[q] = result[q]
           /\ answer'[q] = answer[q]
           /\ replayed'[q] = replayed[q]
BY DEF TypeOK, Next, Step, vars, store, time, local, ghost, Goto, Leave,
       InFlight, Arrive, Claim, Get, Resolve, ReclaimExpired, ReclaimFailed, TakeOver,
       ClaimAgain, RunHandler, Finalize, StoreError, Crash,
       PurgeExpiredIdempotencyKeys, Tick, Terminated

\* So a sound row, or a sound copy of one, stays sound.
LEMMA SoundStays ==
    ASSUME TypeOK, [Next]_vars, NEW rec, Sound(rec)
    PROVE  rec # NoRow /\ rec.status = "completed" =>
               /\ rec.response \in Request
               /\ pc'[rec.response] = "done"
               /\ payload'[rec.response] = rec.hash
               /\ result'[rec.response] \in {"ok", "rejected"}
BY DoneStays DEF Sound

\* The row that a pending statement leaves is not completed, is the row it
\* found, or stores the response of the holder that carries the row's payload.
LEMMA ExecutedCompleted ==
    ASSUME TypeOK, Exclusive, NEW r \in Request, InFlight(r),
           Executed(r) # NoRow, Executed(r).status = "completed"
    PROVE  \/ Executed(r) = row
           \/ /\ pc[r] = "finalize"
              /\ Executed(r).response = r
              /\ Executed(r).hash = payload[r]
              /\ Executed(r).expires = lease[r]
              /\ ~Failed(r)
<1>1. InsertedRow(r).status = "processing"
  BY DEF InsertedRow
<1>2. row # NoRow => /\ ExpiredReclaimed(r).status = "processing"
                     /\ FailedReclaimed(r).status = "processing"
  BY DEF TypeOK, Row, ExpiredReclaimed, FailedReclaimed
<1>3. ASSUME pc[r] = "finalize", FinalizeMatches(r),
             Finalized(r).status = "completed"
      PROVE  /\ Finalized(r).response = r
             /\ Finalized(r).hash = payload[r]
             /\ Finalized(r).expires = lease[r]
             /\ ~Failed(r)
  BY <1>3 DEF Finalized, FinalizeMatches, TypeOK, Row, Exclusive,
              HolderOwnsRow, Holds
<1>4. QED
  BY <1>1, <1>2, <1>3
  DEF Executed, ExpiredMatches, FailedMatches, FinalizeMatches

\* Every step leaves the row as it was, deletes it, or executes the statement
\* pending at some request, which is done afterwards if it was finalizing.
LEMMA RowStep ==
    ASSUME TypeOK, [Next]_vars
    PROVE  \/ row' = row
           \/ row' = NoRow
           \/ \E r \in Request :
                 /\ InFlight(r)
                 /\ row' = Executed(r)
                 /\ pc[r] = "finalize" => pc'[r] = "done"
                 /\ pc[r] = "finalize" => /\ payload'[r] = payload[r]
                                          /\ result'[r] = result[r]
<1> USE DEF Goto, InFlight, store, time, local, ghost
<1>1. ASSUME NEW r \in Request, Claim(r) \/ ClaimAgain(r)
      PROVE  row' = row \/ row' = Executed(r)
  BY <1>1 DEF Claim, ClaimAgain, Executed
<1>2. ASSUME NEW r \in Request, ReclaimExpired(r) \/ ReclaimFailed(r)
      PROVE  row' = row \/ row' = Executed(r)
  BY <1>2 DEF ReclaimExpired, ReclaimFailed, TakeOver, Executed
<1>3. ASSUME NEW r \in Request, Finalize(r)
      PROVE  row' = row \/ row' = Executed(r)
  BY <1>3 DEF Finalize, Executed
<1>4. QED
  BY <1>1, <1>2, <1>3
  DEF TypeOK, Next, Step, vars, Leave, Arrive, Claim, Get, Resolve,
      ReclaimExpired, ReclaimFailed, TakeOver, ClaimAgain, RunHandler,
      Finalize, StoreError, Crash, PurgeExpiredIdempotencyKeys, Tick,
      Terminated

\* The stored response, and every copy of it a request has read, stays sound.
LEMMA StoredStep ==
    ASSUME TypeOK, Exclusive, StoredSound, ReplayMatchesPayload, [Next]_vars
    PROVE  StoredSound' /\ ReplayMatchesPayload'
<1>1. Sound(row)'
  <2>1. CASE row' = row \/ row' = NoRow
    BY <2>1, SoundStays DEF StoredSound, Sound
  <2>2. ASSUME NEW r \in Request, InFlight(r), row' = Executed(r),
               row' # NoRow, row'.status = "completed", row' # row,
               pc[r] = "finalize" => pc'[r] = "done",
               pc[r] = "finalize" => /\ payload'[r] = payload[r]
                                     /\ result'[r] = result[r]
        PROVE  Sound(row)'
    <3>1. /\ pc[r] = "finalize" /\ row'.response = r
          /\ row'.hash = payload[r] /\ ~Failed(r)
      BY <2>2, ExecutedCompleted
    <3>2. result[r] \in {"ok", "rejected"}
      BY <3>1 DEF StoredSound, Failed, TypeOK, Result
    <3>3. QED
      BY <2>2, <3>1, <3>2 DEF Sound
  <2>3. QED
    BY <2>1, <2>2, RowStep DEF Sound
<1>2. ASSUME NEW r \in Request PROVE Sound(seen[r])'
  <2>1. seen'[r] = seen[r] \/ seen'[r] = row
    BY DEF TypeOK, Next, Step, vars, store, time, local, ghost, Arrive, Claim, Get,
           Resolve, ReclaimExpired, ReclaimFailed, TakeOver, ClaimAgain,
           RunHandler, Finalize, StoreError, Crash,
           PurgeExpiredIdempotencyKeys, Tick, Terminated
  <2>2. QED
    BY <2>1, SoundStays DEF StoredSound, Sound
<1>3. ASSUME NEW r \in Request, answer'[r] = "replay"
      PROVE  /\ pc'[r] = "done" /\ pc'[replayed'[r]] = "done"
             /\ replayed'[r] \in Request
             /\ payload'[replayed'[r]] = payload'[r]
             /\ result'[replayed'[r]] \in {"ok", "rejected"}
  <2>1. CASE answer[r] = "replay"
    <3>1. /\ pc[r] = "done" /\ pc[replayed[r]] = "done"
          /\ replayed[r] \in Request
          /\ payload[replayed[r]] = payload[r]
          /\ result[replayed[r]] \in {"ok", "rejected"}
      BY <2>1 DEF StoredSound, ReplayMatchesPayload
    <3>2. QED
      BY <3>1, DoneStays
  <2>2. CASE answer[r] # "replay"
    <3>1. Resolve(r) /\ seen[r].status = "completed"
          /\ seen[r].hash = payload[r] /\ replayed'[r] = seen[r].response
          /\ pc'[r] = "done" /\ payload' = payload /\ seen[r] \in Row
      BY <1>3, <2>2
      DEF TypeOK, Next, Step, vars, store, time, local, ghost, Goto, Leave, Arrive,
          Claim, Get, Resolve, SamePayload, ReclaimExpired, ReclaimFailed,
          TakeOver,
          ClaimAgain, RunHandler, Finalize, StoreError, Crash,
          PurgeExpiredIdempotencyKeys, Tick, Terminated
    <3>2. Sound(seen[r]) /\ seen[r] # NoRow
      BY <3>1, RowAssumption DEF StoredSound
    <3>3. QED
      BY <3>1, <3>2 , SoundStays
  <2>3. QED
    BY <2>1, <2>2
<1>4. ASSUME NEW r \in Request, pc'[r] = "finalize"
      PROVE  result'[r] # "none"
  BY <1>4
  DEF StoredSound, TypeOK, Next, Step, vars, store, time, local, ghost, Goto, Leave,
      Arrive, Claim, Get, Resolve, ReclaimExpired, ReclaimFailed, TakeOver,
      ClaimAgain, RunHandler, Finalize, StoreError, Crash,
      PurgeExpiredIdempotencyKeys, Tick, Terminated
<1>5. QED
  BY <1>1, <1>2, <1>3, <1>4 DEF StoredSound, ReplayMatchesPayload

-----------------------------------------------------------------------------
(* The window of a committed effect.                                        *)

\* A committed effect keeps its lease and its result, and its request never
\* returns to the handler.
LEMMA EffectStays ==
    ASSUME TypeOK, WindowGuarded, [Next]_vars, NEW e \in effects
    PROVE  /\ e \in effects'
           /\ pc'[e] \in {"finalize", "done", "crashed"}
           /\ lease'[e] = lease[e]
           /\ result'[e] = result[e]
           /\ now <= now'
BY DEF WindowGuarded, TypeOK, Next, Step, vars, store, time, local, ghost, Goto,
       Leave, InFlight, Arrive, Claim, Get, Resolve, ReclaimExpired,
       ReclaimFailed, TakeOver, ClaimAgain, RunHandler, Finalize, StoreError,
       Crash, PurgeExpiredIdempotencyKeys, Tick, Terminated

\* The effect e is committed, its window is open, and its client was not told
\* that it failed.
Shut(e) == e \in effects /\ now < lease[e] /\ result[e] # "unknown"

\* While it is, no statement of another request matches the row.
LEMMA ShutOut ==
    ASSUME TypeOK, WindowGuarded, NEW e \in effects, Shut(e),
           NEW r \in Request
    PROVE  /\ ~InsertsRow
           /\ ~ExpiredMatches(r)
           /\ ~FailedMatches(r)
           /\ Holds(r) => r = e
BY DEF Shut, WindowGuarded, TypeOK, Row, InsertsRow, ExpiredMatches,
       FailedMatches

\* The row keeps e's lease, and is processing or completed: e's own finalize
\* is the only statement that still applies to it.
LEMMA ShutRow ==
    ASSUME TypeOK, Exclusive, WindowGuarded, [Next]_vars,
           NEW e \in effects, Shut(e)
    PROVE  /\ row' # NoRow
           /\ row'.expires = lease[e]
           /\ row'.status \in {"processing", "completed"}
<1>1. /\ row # NoRow /\ row \in Row
      /\ row.expires = lease[e] /\ row.expires > now
      /\ row.status \in {"processing", "completed"}
      /\ result[e] = "ok"
  BY DEF Shut, WindowGuarded, TypeOK, Row
<1>2. ASSUME NEW r \in Request, InFlight(r), row' = Executed(r)
      PROVE  \/ row' = row
             \/ r = e /\ FinalizeMatches(e) /\ row' = Finalized(e)
  BY <1>2, ShutOut DEF Executed, Holds
<1>3. Finalized(e) = [row EXCEPT !.status = "completed", !.response = e,
                                 !.expires = lease[e]]
  BY <1>1 DEF Finalized, Failed
<1>4. Finalized(e) # NoRow /\ Finalized(e).status = "completed"
      /\ Finalized(e).expires = lease[e]
  <2>1. Finalized(e) \in Row
    BY <1>1, <1>3 DEF Row, Status, TypeOK
  <2>2. QED
    BY <1>1, <1>3, <2>1, RowAssumption DEF Row
<1>5. row' # NoRow
  <2>1. ~PurgeExpiredIdempotencyKeys
    BY <1>1 DEF PurgeExpiredIdempotencyKeys, TypeOK, Row
  <2>2. ASSUME NEW r \in Request, StoreError(r) PROVE row' # NoRow
    BY <1>1, <1>2, <1>4, <2>2 DEF StoreError, InFlight
  <2>3. QED
    BY <1>1, <1>4, <2>1, <2>2, RowAssumption, ShutOut
    DEF Next, Step, vars, store, time, local, Arrive, Claim, Get, Resolve,
        ReclaimExpired, ReclaimFailed, TakeOver, ClaimAgain, RunHandler,
        Finalize, Crash, Tick, Terminated, Holds
<1>6. QED
  BY <1>1, <1>2, <1>4, <1>5, RowStep

\* And nobody but e is let in.
LEMMA ShutHolder ==
    ASSUME TypeOK, Exclusive, WindowGuarded, [Next]_vars,
           NEW e \in effects, Shut(e), NEW s \in Request, Holds(s)'
    PROVE  s = e
<1>1. Holds(s)
  BY ShutOut
  DEF Holds, TypeOK, Next, Step, vars, store, time, local, ghost, Goto, Leave,
      Arrive, Claim, Get, Resolve, ReclaimExpired, ReclaimFailed, TakeOver,
      ClaimAgain, RunHandler, Finalize, StoreError, Crash,
      PurgeExpiredIdempotencyKeys, Tick, Terminated
<1>2. QED
  BY <1>1, ShutOut

\* The window of every effect stays guarded, that of a new one included.
LEMMA WindowStep ==
    ASSUME TypeOK, Exclusive, WindowGuarded, [Next]_vars
    PROVE  WindowGuarded'
<1>1. ASSUME NEW e \in effects
      PROVE  /\ pc'[e] \in {"finalize", "done", "crashed"}
             /\ now' < lease'[e] /\ result'[e] # "unknown" =>
                   /\ result'[e] = "ok"
                   /\ row' # NoRow
                   /\ row'.expires = lease'[e]
                   /\ row'.status \in {"processing", "completed"}
                   /\ \A s \in Request : Holds(s)' => s = e
  <2>1. SUFFICES ASSUME now' < lease'[e], result'[e] # "unknown"
                 PROVE  Shut(e) /\ result[e] = "ok"
    BY EffectStays, ShutRow, ShutHolder
  <2>2. now \in Nat /\ now' \in Nat /\ lease[e] \in Nat
    BY TypeStep DEF TypeOK
  <2>3. QED
    BY <2>1, <2>2, EffectStays DEF Shut, WindowGuarded
<1>2. ASSUME NEW e \in effects', e \notin effects
      PROVE  /\ pc'[e] \in {"finalize", "done", "crashed"}
             /\ result'[e] # "unknown" => result'[e] = "ok"
             /\ row' # NoRow
             /\ row'.expires = lease'[e]
             /\ row'.status \in {"processing", "completed"}
             /\ \A s \in Request : Holds(s)' => s = e
  <2>1. e \in Request /\ RunHandler(e)
    BY <1>2
    DEF TypeOK, Next, Step, vars, store, time, local, ghost, Arrive, Claim, Get,
        Resolve, ReclaimExpired, ReclaimFailed, TakeOver, ClaimAgain,
        RunHandler, Finalize, StoreError, Crash, PurgeExpiredIdempotencyKeys,
        Tick, Terminated
  <2>2. /\ pc' = [pc EXCEPT ![e] = "finalize"] /\ Holds(e)
        /\ row' = row /\ lease' = lease
        /\ result'[e] \in {"ok", "unknown"}
    BY <1>2, <2>1 DEF RunHandler, Goto, store, time, local, Holds, TypeOK
  <2>3. \A s \in Request : Holds(s)' => s = e
    BY <2>1, <2>2 DEF Holds, TypeOK, Exclusive, OneHolder
  <2>4. QED
    BY <2>1, <2>2, <2>3
    DEF TypeOK, Exclusive, HolderOwnsRow, HolderLease
<1>3. QED
  BY <1>1, <1>2 DEF WindowGuarded

-----------------------------------------------------------------------------
(* What was read stands.                                                    *)

\* No statement that is pending anywhere, nor the janitor, changes a completed
\* row whose window is open.
LEMMA FinalStays ==
    ASSUME TypeOK, Exclusive, [Next]_vars, Live, row.status = "completed"
    PROVE  row' = row
<1>1. \A r \in Request : ~Holds(r)
  BY DEF Exclusive, HolderOwnsRow
<1>2. row.expires > now /\ row \in Row
  BY DEF Live, TypeOK
<1>3. \A r \in Request : ~InsertsRow /\ ~ExpiredMatches(r)
                                     /\ ~FailedMatches(r)
  BY <1>2
  DEF Live, TypeOK, Row, InsertsRow, ExpiredMatches, FailedMatches
<1>4. \A r \in Request : Executed(r) = row
  BY <1>1, <1>3 DEF Executed, Holds
<1>5. ~PurgeExpiredIdempotencyKeys
  BY <1>2 DEF PurgeExpiredIdempotencyKeys, TypeOK, Row
<1>6. QED
  BY <1>1, <1>3, <1>4, <1>5
  DEF Next, Step, vars, store, time, local, Arrive, Claim, Get, Resolve,
      ReclaimExpired, ReclaimFailed, TakeOver, ClaimAgain, RunHandler,
      Finalize, StoreError, Crash, Tick, Terminated, Holds

\* What a request has not done yet stays undone until it does it.
LEMMA AheadStep ==
    ASSUME TypeOK, Ahead, [Next]_vars
    PROVE  Ahead'
<1> SUFFICES ASSUME NEW r \in Request
             PROVE  /\ pc'[r] = "idle" => payload'[r] = NoPayload
                    /\ pc'[r] \notin {"finalize", "done", "crashed"} =>
                           result'[r] = "none" /\ answer'[r] = "none"
  BY DEF Ahead
<1> QED
  BY DEF Ahead, TypeOK, Next, Step, vars, store, time, local, ghost, Goto,
         Leave, InFlight, Arrive, Claim, Get, Resolve, ReclaimExpired,
         ReclaimFailed, TakeOver, ClaimAgain, RunHandler, Finalize, StoreError,
         Crash, PurgeExpiredIdempotencyKeys, Tick, Terminated

\* A request that has arrived keeps its payload.
LEMMA PayloadStays ==
    ASSUME TypeOK, Ahead, [Next]_vars,
           NEW s \in Request, payload[s] # NoPayload
    PROVE  payload'[s] = payload[s]
BY DEF Ahead, TypeOK, Next, Step, vars, store, time, local, ghost, Arrive,
       Claim, Get, Resolve, ReclaimExpired, ReclaimFailed, TakeOver,
       ClaimAgain, RunHandler, Finalize, StoreError, Crash,
       PurgeExpiredIdempotencyKeys, Tick, Terminated

\* So what a row tells, or a copy of one, it tells for good.
LEMMA ToldStays ==
    ASSUME TypeOK, Ahead, [Next]_vars, NEW rec, rec \in Row \cup {NoRow},
           Told(rec), Sound(rec)
    PROVE  rec # NoRow =>
               /\ \E s \in Request : payload'[s] = rec.hash
               /\ rec.status = "completed" =>
                      rec.expires = lease'[rec.response]
<1> SUFFICES ASSUME rec # NoRow
             PROVE  /\ \E s \in Request : payload'[s] = rec.hash
                    /\ rec.status = "completed" =>
                           rec.expires = lease'[rec.response]
  OBVIOUS
<1>1. PICK s \in Request : payload[s] = rec.hash
  BY DEF Told
<1>2. payload[s] # NoPayload
  BY <1>1, PayloadAssumption DEF Row
<1>3. payload'[s] = rec.hash
  BY <1>1, <1>2, PayloadStays
<1>4. ASSUME rec.status = "completed" PROVE rec.expires = lease'[rec.response]
  <2>1. rec.response \in Request /\ pc[rec.response] = "done"
    BY <1>4 DEF Sound
  <2>2. QED
    BY <1>4, <2>1, DoneStays DEF Told
<1>5. QED
  BY <1>3, <1>4

\* A statement that writes the row gives it the hash of its request, or leaves
\* the one that was there.
LEMMA ExecutedHash ==
    ASSUME TypeOK, NEW r \in Request, InFlight(r), Executed(r) # NoRow
    PROVE  \/ Executed(r).hash = payload[r]
           \/ row # NoRow /\ Executed(r).hash = row.hash
<1>1. InsertedRow(r).hash = payload[r]
  BY DEF InsertedRow
<1>2. row # NoRow => /\ ExpiredReclaimed(r).hash = payload[r]
                     /\ FailedReclaimed(r).hash = row.hash
                     /\ Finalized(r).hash = row.hash
  BY DEF TypeOK, Row, ExpiredReclaimed, FailedReclaimed, Finalized
<1>3. QED
  BY <1>1, <1>2
  DEF Executed, ExpiredMatches, FailedMatches, FinalizeMatches

\* The row tells the truth after every statement.
LEMMA ToldRow ==
    ASSUME TypeOK, Exclusive, StoredSound, Ahead, Told(row), [Next]_vars
    PROVE  Told(row)'
<1>1. CASE row' = row \/ row' = NoRow
  BY <1>1, ToldStays DEF Told, StoredSound, TypeOK
<1>2. ASSUME NEW r \in Request, InFlight(r), row' = Executed(r),
             row' # row, row' # NoRow
      PROVE  Told(row)'
  <2>1. \E s \in Request : payload'[s] = row'.hash
    <3>1. payload[r] \in Payload /\ payload'[r] = payload[r]
      BY <1>2, PayloadStays, PayloadAssumption DEF TypeOK
    <3>2. row # NoRow => \E s \in Request : payload'[s] = row.hash
      BY ToldStays DEF StoredSound, TypeOK
    <3>3. QED
      BY <1>2, <3>1, <3>2, ExecutedHash
  <2>2. ASSUME row'.status = "completed"
        PROVE  row'.expires = lease'[row'.response]
    <3>1. row'.response = r /\ row'.expires = lease[r]
      BY <1>2, <2>2, ExecutedCompleted
    <3>2. lease'[r] = lease[r]
      BY <1>2
      DEF InFlight, TypeOK, Next, Step, vars, store, time, local, ghost,
          Arrive, Claim, Get, Resolve, ReclaimExpired, ReclaimFailed, TakeOver,
          ClaimAgain, RunHandler, Finalize, StoreError, Crash,
          PurgeExpiredIdempotencyKeys, Tick, Terminated
    <3>3. QED
      BY <3>1, <3>2
  <2>3. QED
    BY <2>1, <2>2 DEF Told
<1>3. QED
  BY <1>1, <1>2, RowStep

\* The database's clock does not go back.
LEMMA NowStep ==
    ASSUME TypeOK, [Next]_vars
    PROVE  now <= now'
BY DEF TypeOK, Next, Step, vars, time, Arrive, Claim, Get, Resolve,
       ReclaimExpired, ReclaimFailed, TakeOver, ClaimAgain, RunHandler,
       Finalize, StoreError, Crash, PurgeExpiredIdempotencyKeys, Tick,
       Terminated

\* A completed row that was read stands until its window is over.
LEMMA SeenStandsStep ==
    ASSUME TypeOK, Exclusive, StoredSound, Ahead, SeenStands, [Next]_vars
    PROVE  SeenStands'
<1>1. Told(row)'
  BY ToldRow DEF SeenStands
<1>2. ASSUME NEW r \in Request
      PROVE  \/ seen'[r] = seen[r]
             \/ seen'[r] = row /\ row' = row
  BY DEF TypeOK, Next, Step, vars, store, time, local, ghost, Arrive, Claim,
         Get, Resolve, ReclaimExpired, ReclaimFailed, TakeOver, ClaimAgain,
         RunHandler, Finalize, StoreError, Crash, PurgeExpiredIdempotencyKeys,
         Tick, Terminated
<1>3. ASSUME NEW r \in Request PROVE Told(seen[r])'
  <2>1. CASE seen'[r] = seen[r]
    <3>1. Told(seen[r]) /\ Sound(seen[r]) /\ seen[r] \in Row \cup {NoRow}
      BY DEF SeenStands, StoredSound, TypeOK
    <3>2. QED
      BY <2>1, <3>1, ToldStays DEF Told
  <2>2. CASE seen'[r] = row /\ row' = row
    BY <1>1, <2>2 DEF Told
  <2>3. QED
    BY <1>2, <2>1, <2>2
<1>4. ASSUME NEW r \in Request, seen'[r] # NoRow,
             seen'[r].status = "completed", now' < seen'[r].expires
      PROVE  row' = seen'[r]
  <2>1. CASE seen'[r] = row /\ row' = row
    BY <2>1
  <2>2. CASE seen'[r] = seen[r]
    <3>1. seen[r].expires \in Nat /\ now \in Nat /\ now' \in Nat
      BY <1>4, <2>2, TypeStep DEF TypeOK, Row
    <3>2. now < seen[r].expires
      BY <1>4, <2>2, <3>1, NowStep
    <3>3. row = seen[r]
      BY <1>4, <2>2, <3>2 DEF SeenStands
    <3>4. Live /\ row.status = "completed"
      BY <1>4, <2>2, <3>1, <3>2, <3>3 DEF Live
    <3>5. QED
      BY <2>2, <3>3, <3>4, FinalStays
  <2>3. QED
    BY <1>2, <2>1, <2>2
<1>5. QED
  BY <1>1, <1>3, <1>4 DEF SeenStands

-----------------------------------------------------------------------------
(* The theorems.                                                            *)

\* The claim protocol keeps its inductive invariant.
THEOREM IInvCorrect == ASSUME LeasesHold PROVE Spec => []IInv
<1>1. Init => IInv
  BY BoundAssumption
  DEF Init, IInv, TypeOK, Exclusive, Skewed, Unexpired, HolderOwnsRow,
      HolderLease, OneHolder, StoredSound, Sound, ReplayMatchesPayload,
      WindowGuarded, Ahead, SeenStands, Told, InFlight, Holds, Stage, Result
<1>2. IInv /\ [Next]_vars => IInv'
  BY TypeStep, ExclusiveStep, StoredStep, WindowStep, AheadStep,
     SeenStandsStep
  DEF IInv
<1>3. QED
  BY <1>1, <1>2, PTL DEF Spec

\* A replay always answers the payload it was produced for, and is never the
\* response of a failed handler: a key reused with another payload cannot be
\* answered from the first payload's row.
THEOREM ReplayCorrect == ASSUME LeasesHold PROVE Spec => []ReplayMatchesPayload
<1>1. IInv => ReplayMatchesPayload
  BY DEF IInv
<1>2. QED
  BY <1>1, IInvCorrect, PTL

\* A completed row does not change while its TTL runs: no reclaim, finalize
\* or purge reaches it.
THEOREM CompletedIsFinalCorrect ==
    ASSUME LeasesHold PROVE Spec => CompletedIsFinal
<1>1. ASSUME IInv, [Next]_vars, Live, row.status = "completed"
      PROVE  row' = row
  BY <1>1, FinalStays DEF IInv
<1>2. IInv /\ [Next]_vars => [Live /\ row.status = "completed" => row' = row]_vars
  BY <1>1
<1>3. QED
  BY <1>2, IInvCorrect, PTL DEF Spec, CompletedIsFinal

\* A committed effect is followed by a second run of the handler only after
\* its window, or after its client was told 500: crashes between the commit
\* and the finalize, failed finalizes and racing retries included.
THEOREM RerunOnlyAfterWindowCorrect ==
    ASSUME LeasesHold PROVE Spec => RerunOnlyAfterWindow
<1> DEFINE A == \A r \in Request : ~Holds(r) /\ Holds(r)' =>
                   \A e \in effects : lease[e] <= now \/ result[e] = "unknown"
<1>1. ASSUME IInv, [Next]_vars PROVE A
  <2>1. SUFFICES ASSUME NEW r \in Request, ~Holds(r), Holds(r)',
                        NEW e \in effects, Shut(e)
                 PROVE  FALSE
    <3>1. \A e \in effects : now \in Nat /\ lease[e] \in Nat
      BY <1>1 DEF IInv, TypeOK
    <3>2. QED
      BY <3>1 DEF Shut
  <2>2. r = e
    BY <1>1, <2>1, ShutHolder DEF IInv
  <2>3. pc[e] \in {"done", "crashed", "finalize"}
    BY <1>1, <2>1 DEF IInv, WindowGuarded
  <2>4. pc'[e] = pc[e]
    BY <1>1, <2>1, <2>2, <2>3
    DEF Holds, IInv, TypeOK, Next, Step, vars, store, time, local, ghost, Goto,
        Leave, InFlight, Arrive, Claim, Get, Resolve, ReclaimExpired,
        ReclaimFailed, TakeOver, ClaimAgain, RunHandler, Finalize, StoreError,
        Crash, PurgeExpiredIdempotencyKeys, Tick, Terminated
  <2>5. QED
    BY <2>1, <2>2, <2>4 DEF Holds
<1>2. IInv /\ [Next]_vars => [A]_vars
  BY <1>1
<1>3. QED
  BY <1>2, IInvCorrect, PTL DEF Spec, RerunOnlyAfterWindow

-----------------------------------------------------------------------------
(* The middleware implements the slot.                                      *)

\* The slot's view of the table.
Inside == {r \in Request : Holds(r)}
Kept   == IF row # NoRow /\ row.status = "completed"
          THEN row.response ELSE NoRequest

\* A kept response is the one of a request that is done, and is given up only
\* when the row has expired.
LEMMA KeptLease ==
    ASSUME IInv, Kept # NoRequest
    PROVE  /\ row # NoRow /\ row.status = "completed"
           /\ Kept = row.response /\ row.expires = lease[Kept]
<1>1. row # NoRow /\ row.status = "completed" /\ Kept = row.response
  BY DEF Kept
<1>2. QED
  BY <1>1 DEF IInv, SeenStands, Told

\* Whoever is let in was let in by the slot too.
LEMMA SlotAdmit ==
    ASSUME LeasesHold, IInv, NEW r \in Request,
           pc[r] \in {"claim", "reclaim_expired", "reclaim_failed",
                      "claim_again"},
           InsertsRow \/ ExpiredMatches(r) \/ FailedMatches(r),
           row' # NoRow => row'.status = "processing",
           Goto(r, "run"), UNCHANGED <<time, payload, lease, result, ghost,
                                       effects>>
    PROVE  Slot!Admit(r)
<1>1. Slot!Waiting(r)
  <2>1. payload[r] # NoPayload
    BY PayloadAssumption DEF IInv, TypeOK, InFlight
  <2>2. result[r] = "none" /\ answer[r] = "none"
    BY DEF IInv, Ahead
  <2>3. r \notin Inside
    BY DEF Inside, Holds
  <2>4. QED
    BY <2>1, <2>2, <2>3 DEF Slot!Waiting, Inside
<1>2. Slot!InWindow(r)
  BY DEF Slot!InWindow, IInv, Exclusive, Unexpired, InFlight
<1>3. \A s \in Request : ~Holds(s)
  <2>1. SUFFICES ASSUME NEW s \in Request, Holds(s) PROVE FALSE
    OBVIOUS
  <2>2. /\ row # NoRow /\ row.status = "processing"
        /\ row.expires = lease[s] /\ now < lease[s]
        /\ now \in Nat /\ lease[s] \in Nat
    BY <2>1 DEF IInv, Exclusive, HolderOwnsRow, HolderLease, Unexpired,
                Holds, InFlight, TypeOK
  <2>3. QED
    BY <2>2 DEF InsertsRow, ExpiredMatches, FailedMatches
<1>4. \A e \in effects : Slot!InWindow(e) => result[e] = "unknown"
  BY ShutOut DEF Slot!InWindow, Shut, IInv
<1>5. Slot!Outlived
  <2>1. ASSUME Kept # NoRequest PROVE ~(now < lease[Kept])
    <3>1. ExpiredMatches(r)
      BY <2>1, KeptLease DEF InsertsRow, FailedMatches
    <3>2. row.expires <= now /\ row.expires \in Nat /\ now \in Nat
      BY <3>1 DEF ExpiredMatches, IInv, TypeOK, Row
    <3>3. QED
      BY <2>1, <3>2, KeptLease
  <2>2. QED
    BY <2>1 DEF Slot!Outlived, Slot!InWindow, Kept
<1>6. Inside = {} /\ Inside' = {r}
  BY <1>3 DEF Inside, Holds, Goto, IInv, TypeOK
<1>7. Kept' = NoRequest
  BY DEF Kept
<1>8. QED
  BY <1>1, <1>2, <1>4, <1>5, <1>6, <1>7
  DEF Slot!Admit, Slot!time, Slot!asked, Slot!told, Inside, Kept, time, ghost

\* Whoever is answered without having been let in is refused by the slot too,
\* although a statement of its own may have been executed.
LEMMA SlotRefuse ==
    ASSUME LeasesHold, IInv, NEW r \in Request,
           pc[r] \in {"claim", "get", "resolve", "reclaim_expired",
                      "reclaim_failed", "claim_again"},
           row' \in {row, Executed(r)}, Goto(r, "done"),
           NEW why \in {"concurrent", "mismatch", "internal"},
           answer' = [answer EXCEPT ![r] = why],
           why = "mismatch" => \E s \in Request :
                                  payload[s] \notin {NoPayload, payload[r]},
           UNCHANGED <<time, payload, lease, result, replayed, effects>>
    PROVE  Slot!Refuse(r)
<1>1. Slot!Waiting(r)
  <2>1. payload[r] # NoPayload
    BY PayloadAssumption DEF IInv, TypeOK, InFlight
  <2>2. result[r] = "none" /\ answer[r] = "none"
    BY DEF IInv, Ahead
  <2>3. r \notin Inside
    BY DEF Inside, Holds
  <2>4. QED
    BY <2>1, <2>2, <2>3 DEF Slot!Waiting, Inside
<1>2. Inside' = Inside
  BY DEF Inside, Holds, Goto, IInv, TypeOK
<1>3. Kept' = Kept \/ (Slot!Outlived /\ Kept' = NoRequest)
  <2>1. CASE row' = row
    BY <2>1 DEF Kept
  <2>2. CASE row' # row
    <3>1. row' = Executed(r) /\ Executed(r) # row
      BY <2>2
    <3>2. row' # NoRow => row'.status = "processing"
      <4>1. InsertedRow(r).status = "processing"
        BY DEF InsertedRow
      <4>2. row # NoRow => /\ ExpiredReclaimed(r).status = "processing"
                           /\ FailedReclaimed(r).status = "processing"
        BY DEF IInv, TypeOK, Row, ExpiredReclaimed, FailedReclaimed
      <4>3. QED
        BY <3>1, <4>1, <4>2 DEF Executed, ExpiredMatches, FailedMatches
    <3>3. Kept' = NoRequest
      BY <3>2 DEF Kept
    <3>4. ASSUME Kept # NoRequest PROVE ~(now < lease[Kept])
      <4>1. ExpiredMatches(r)
        BY <3>1, <3>4, KeptLease DEF Executed, InsertsRow, FailedMatches
      <4>2. row.expires <= now /\ row.expires \in Nat /\ now \in Nat
        BY <4>1 DEF ExpiredMatches, IInv, TypeOK, Row
      <4>3. QED
        BY <3>4, <4>2, KeptLease
    <3>5. Slot!Outlived
      BY <3>4 DEF Slot!Outlived, Slot!InWindow, Kept
    <3>6. QED
      BY <3>3, <3>5
  <2>3. QED
    BY <2>1, <2>2
<1>4. QED
  BY <1>1, <1>2, <1>3
  DEF Slot!Refuse, Slot!time, Slot!asked, Inside, Kept, time

\* What happens to nobody's answer and to no row is no step of the slot.
LEMMA SlotStutter ==
    ASSUME IInv, row' = row, \A r \in Request : Holds(r)' <=> Holds(r),
           UNCHANGED <<time, payload, lease, result, ghost, effects>>
    PROVE  UNCHANGED Slot!vars
<1>1. Inside' = Inside /\ Kept' = Kept
  BY DEF Inside, Kept
<1>2. QED
  BY <1>1 DEF Slot!vars, Inside, Kept, time, ghost

\* The holder leaves: with its response stored, or without.
LEMMA SlotFinish ==
    ASSUME LeasesHold, IInv, NEW r \in Request, Holds(r),
           pc'[r] \in {"done", "crashed"},
           pc' = [pc EXCEPT ![r] = pc'[r]],
           row' = row \/ (pc[r] = "finalize" /\ row' = Finalized(r)),
           UNCHANGED <<time, payload, lease, result, ghost, effects>>
    PROVE  Slot!Finish(r)
<1>1. Inside = {r} /\ Inside' = {}
  BY DEF Inside, Holds, IInv, TypeOK, Exclusive, OneHolder
<1>2. /\ row # NoRow /\ row \in Row /\ row.status = "processing"
      /\ lease[r] \in Nat
  BY DEF IInv, TypeOK, Exclusive, HolderOwnsRow
<1>3. Kept = NoRequest
  BY <1>2 DEF Kept
<1>4. \/ Kept' = Kept
      \/ result[r] \in {"ok", "rejected"} /\ Kept' = r
  <2>1. CASE row' = row
    BY <2>1 DEF Kept
  <2>2. CASE pc[r] = "finalize" /\ row' = Finalized(r) /\ Failed(r)
    <3>1. row'.status = "failed"
      BY <1>2, <2>2 DEF Finalized, Row
    <3>2. QED
      BY <1>3, <3>1 DEF Kept
  <2>3. CASE pc[r] = "finalize" /\ row' = Finalized(r) /\ ~Failed(r)
    <3>1. row' = [row EXCEPT !.status = "completed", !.response = r,
                             !.expires = lease[r]]
      BY <2>3 DEF Finalized
    <3>2. row' \in Row /\ row'.status = "completed" /\ row'.response = r
      BY <1>2, <3>1 DEF Row, Status
    <3>3. Kept' = r
      BY <3>2, RowAssumption DEF Kept
    <3>4. result[r] \in {"ok", "rejected"}
      BY <2>3 DEF IInv, StoredSound, Failed, TypeOK, Result
    <3>5. QED
      BY <3>3, <3>4
  <2>4. QED
    BY <2>1, <2>2, <2>3
<1>5. QED
  BY <1>1, <1>4
  DEF Slot!Finish, Slot!time, Slot!asked, Slot!told, Inside, Kept, time, ghost

\* A replay sends what the slot keeps, or what only Go's clock still keeps.
LEMMA SlotReplay ==
    ASSUME IInv, NEW r \in Request, pc[r] = "resolve",
           seen[r].expires > clock, SamePayload(r),
           seen[r].status = "completed",
           Leave(r, "replay"),
           replayed' = [replayed EXCEPT ![r] = seen[r].response],
           UNCHANGED <<store, time, local, result, effects>>
    PROVE  Slot!Replay(r)
<1> DEFINE w == seen[r].response
<1>1. Slot!Waiting(r)
  <2>1. payload[r] # NoPayload
    BY PayloadAssumption DEF IInv, TypeOK, InFlight
  <2>2. result[r] = "none" /\ answer[r] = "none"
    BY DEF IInv, Ahead
  <2>3. r \notin Inside
    BY DEF Inside, Holds
  <2>4. QED
    BY <2>1, <2>2, <2>3 DEF Slot!Waiting, Inside
<1>2. seen[r] \in Row /\ seen[r] # NoRow /\ clock \in Nat
  BY RowAssumption DEF IInv, TypeOK
<1>3. /\ w \in Request /\ pc[w] = "done" /\ payload[w] = seen[r].hash
      /\ result[w] \in {"ok", "rejected"}
  BY <1>2 DEF IInv, StoredSound, Sound
<1>4. seen[r].expires = lease[w]
  BY <1>2 DEF IInv, SeenStands, Told
<1>5. clock < lease[w]
  BY <1>2, <1>4 DEF Row
<1>6. w \notin Inside
  BY <1>3 DEF Inside, Holds
<1>7. Slot!InWindow(w) => Kept = w
  BY <1>2, <1>4 DEF Slot!InWindow, IInv, SeenStands, Kept
<1>8. payload[w] = payload[r]
  BY <1>3 DEF SamePayload
<1>9. Inside' = Inside /\ Kept' = Kept
  BY DEF Inside, Kept, Holds, Leave, Goto, IInv, TypeOK, store
<1>10. answer' = [answer EXCEPT ![r] = "replay"]
  BY DEF Leave
<1>11. replayed' = [replayed EXCEPT ![r] = w]
  OBVIOUS
<1>12. \E v \in Request :
          /\ result[v] \in {"ok", "rejected"}
          /\ v \notin Inside
          /\ payload[v] = payload[r]
          /\ clock < lease[v]
          /\ Slot!InWindow(v) => Kept = v
          /\ replayed' = [replayed EXCEPT ![r] = v]
  BY <1>3, <1>5, <1>6, <1>7, <1>8, <1>11
<1> HIDE DEF w
<1>13. QED
  BY <1>1, <1>9, <1>10, <1>12
  DEF Slot!Replay, Slot!time, Slot!asked, Inside, Kept, time, local

\* Every step of the middleware, of the janitor and of the clocks is a step of
\* the slot, or none.
LEMMA SlotStep ==
    ASSUME LeasesHold, IInv, [Next]_vars
    PROVE  [Slot!Next]_(Slot!vars)
<1> USE DEF IInv
<1>1. ASSUME NEW r \in Request, Arrive(r) PROVE Slot!Arrive(r)
  <2>1. Inside' = Inside /\ Kept' = Kept
    BY <1>1 DEF Arrive, Inside, Kept, Holds, Goto, TypeOK, store
  <2>2. payload[r] = NoPayload
    BY <1>1 DEF Arrive, Ahead
  <2>3. QED
    BY <1>1, <2>1, <2>2
    DEF Arrive, Slot!Arrive, Slot!time, Slot!told, time, ghost, Inside, Kept
<1>2. ASSUME NEW r \in Request, Claim(r)
      PROVE  Slot!Admit(r) \/ UNCHANGED Slot!vars
  <2>1. CASE InsertsRow
    <3>1. row' = InsertedRow(r) /\ row'.status = "processing"
      BY <1>2, <2>1 DEF Claim, InsertedRow
    <3>2. QED
      BY <1>2, <2>1, <3>1, SlotAdmit DEF Claim
  <2>2. CASE ~InsertsRow
    <3>1. \A s \in Request : Holds(s)' <=> Holds(s)
      BY <1>2, <2>2 DEF Claim, Goto, Holds, TypeOK
    <3>2. QED
      BY <1>2, <2>2, <3>1, SlotStutter DEF Claim, store
  <2>3. QED
    BY <2>1, <2>2
<1>3. ASSUME NEW r \in Request, Get(r) PROVE UNCHANGED Slot!vars
  <2>1. \A s \in Request : Holds(s)' <=> Holds(s)
    BY <1>3 DEF Get, Goto, Holds, TypeOK
  <2>2. QED
    BY <1>3, <2>1, SlotStutter DEF Get, store
<1>4. ASSUME NEW r \in Request, Resolve(r)
      PROVE  Slot!Replay(r) \/ Slot!Refuse(r) \/ UNCHANGED Slot!vars
  <2>1. CASE Goto(r, "reclaim_expired") \/ Goto(r, "reclaim_failed")
    <3>1. /\ \A s \in Request : Holds(s)' <=> Holds(s)
          /\ pc'[r] # "done"
      BY <1>4, <2>1 DEF Resolve, Goto, Holds, TypeOK
    <3>2. UNCHANGED ghost
      BY <1>4, <3>1 DEF Resolve, Goto, Leave, TypeOK
    <3>3. QED
      BY <1>4, <3>1, <3>2, SlotStutter DEF Resolve, store, local
  <2>2. CASE Leave(r, "mismatch") /\ UNCHANGED replayed /\ ~SamePayload(r)
    <3>1. PICK s \in Request : payload[s] = seen[r].hash
      BY <1>4, RowAssumption DEF Resolve, SeenStands, Told, TypeOK
    <3>2. seen[r].hash \in Payload
      BY <1>4 DEF Resolve, TypeOK, Row
    <3>3. payload[s] \notin {NoPayload, payload[r]}
      BY <2>2, <3>1, <3>2, PayloadAssumption DEF SamePayload
    <3>4. QED
      BY <1>4, <2>2, <3>3, SlotRefuse DEF Resolve, Leave, store, local
  <2>3. CASE Leave(r, "concurrent") /\ UNCHANGED replayed
    BY <1>4, <2>3, SlotRefuse DEF Resolve, Leave, store, local
  <2>4. CASE /\ seen[r].expires > clock /\ SamePayload(r)
             /\ seen[r].status = "completed" /\ Leave(r, "replay")
             /\ replayed' = [replayed EXCEPT ![r] = seen[r].response]
    BY <1>4, <2>4, SlotReplay DEF Resolve
  <2>5. QED
    BY <1>4, <2>1, <2>2, <2>3, <2>4 DEF Resolve
<1>5. ASSUME NEW r \in Request, ReclaimExpired(r)
      PROVE  Slot!Admit(r) \/ Slot!Refuse(r)
  <2>1. CASE ExpiredMatches(r)
    <3>1. row' = ExpiredReclaimed(r) /\ row \in Row
      BY <1>5, <2>1 DEF ReclaimExpired, TakeOver, ExpiredMatches, TypeOK
    <3>2. row'.status = "processing"
      BY <3>1 DEF ExpiredReclaimed, Row
    <3>3. QED
      BY <1>5, <2>1, <3>2, SlotAdmit DEF ReclaimExpired, TakeOver, ghost
  <2>2. CASE ~ExpiredMatches(r)
    BY <1>5, <2>2, SlotRefuse DEF ReclaimExpired, TakeOver, Leave
  <2>3. QED
    BY <2>1, <2>2
<1>6. ASSUME NEW r \in Request, ReclaimFailed(r)
      PROVE  Slot!Admit(r) \/ Slot!Refuse(r)
  <2>1. CASE FailedMatches(r)
    <3>1. row' = FailedReclaimed(r) /\ row \in Row
      BY <1>6, <2>1 DEF ReclaimFailed, TakeOver, FailedMatches, TypeOK
    <3>2. row'.status = "processing"
      BY <3>1 DEF FailedReclaimed, Row
    <3>3. QED
      BY <1>6, <2>1, <3>2, SlotAdmit DEF ReclaimFailed, TakeOver, ghost
  <2>2. CASE ~FailedMatches(r)
    BY <1>6, <2>2, SlotRefuse DEF ReclaimFailed, TakeOver, Leave
  <2>3. QED
    BY <2>1, <2>2
<1>7. ASSUME NEW r \in Request, ClaimAgain(r)
      PROVE  Slot!Admit(r) \/ Slot!Refuse(r)
  <2>1. CASE InsertsRow
    <3>1. row' = InsertedRow(r) /\ row'.status = "processing"
      BY <1>7, <2>1 DEF ClaimAgain, InsertedRow
    <3>2. QED
      BY <1>7, <2>1, <3>1, SlotAdmit DEF ClaimAgain, ghost
  <2>2. CASE ~InsertsRow
    BY <1>7, <2>2, SlotRefuse DEF ClaimAgain, Leave, store
  <2>3. QED
    BY <2>1, <2>2
<1>8. ASSUME NEW r \in Request, RunHandler(r) PROVE Slot!Run(r)
  <2>1. Inside' = Inside /\ Kept' = Kept /\ r \in Inside
    BY <1>8 DEF RunHandler, Inside, Kept, Holds, Goto, TypeOK, store
  <2>2. result[r] = "none"
    BY <1>8 DEF RunHandler, Ahead
  <2>3. QED
    BY <1>8, <2>1, <2>2
    DEF RunHandler, Slot!Run, Slot!time, Slot!asked, time, local, Inside,
        Kept, Result
<1>9. ASSUME NEW r \in Request, Finalize(r) PROVE Slot!Finish(r)
  <2>1. pc'[r] = "done" /\ pc' = [pc EXCEPT ![r] = pc'[r]]
    BY <1>9 DEF Finalize, Goto, TypeOK
  <2>2. QED
    BY <1>9, <2>1, SlotFinish DEF Finalize, Holds, local
<1>10. ASSUME NEW r \in Request, StoreError(r)
       PROVE  Slot!Finish(r) \/ Slot!Refuse(r)
  <2>1. CASE pc[r] = "finalize"
    <3>1. pc'[r] = "done" /\ pc' = [pc EXCEPT ![r] = pc'[r]]
      BY <1>10 DEF StoreError, Goto, TypeOK
    <3>2. row' = row \/ row' = Finalized(r)
      BY <1>10, <2>1 DEF StoreError, Executed
    <3>3. QED
      BY <1>10, <2>1, <3>1, <3>2, SlotFinish
      DEF StoreError, Holds, local, ghost
  <2>2. CASE pc[r] # "finalize"
    BY <1>10, <2>2, SlotRefuse DEF StoreError, local
  <2>3. QED
    BY <2>1, <2>2
<1>11. ASSUME NEW r \in Request, Crash(r)
       PROVE  Slot!Finish(r) \/ UNCHANGED Slot!vars
  <2>1. pc'[r] = "crashed" /\ pc' = [pc EXCEPT ![r] = pc'[r]]
    BY <1>11 DEF Crash, Goto, TypeOK
  <2>2. CASE Holds(r)
    BY <1>11, <2>1, <2>2, SlotFinish DEF Crash, store, local
  <2>3. CASE ~Holds(r)
    <3>1. \A s \in Request : Holds(s)' <=> Holds(s)
      BY <2>1, <2>3 DEF Holds, TypeOK
    <3>2. QED
      BY <1>11, <3>1, SlotStutter DEF Crash, store, local
  <2>4. QED
    BY <2>2, <2>3
<1>12. CASE PurgeExpiredIdempotencyKeys
  <2>1. Inside' = Inside /\ Kept' = NoRequest
    BY <1>12 DEF PurgeExpiredIdempotencyKeys, Inside, Kept, Holds
  <2>2. ASSUME Kept # NoRequest PROVE ~(now < lease[Kept])
    <3>1. row.expires <= now /\ row.expires \in Nat /\ now \in Nat
      BY <1>12 DEF PurgeExpiredIdempotencyKeys, TypeOK, Row
    <3>2. QED
      BY <2>2, <3>1, KeptLease
  <2>3. Slot!Outlived
    BY <2>2 DEF Slot!Outlived, Slot!InWindow, Kept
  <2>4. Slot!Forget
    BY <1>12, <2>1, <2>3
    DEF PurgeExpiredIdempotencyKeys, Slot!Forget, Slot!time, Slot!asked,
        Slot!told, time, local, ghost, Inside, Kept
  <2>5. QED
    BY <2>4 DEF Slot!Next
<1>13. CASE Tick
  <2>1. Inside' = Inside /\ Kept' = Kept
    BY <1>13 DEF Tick, Inside, Kept, Holds, store
  <2>2. \A r \in Inside : now' < lease[r]
    BY <1>13 DEF Tick, Inside, Holds, InFlight
  <2>3. Slot!Tick
    BY <1>13, <2>1, <2>2
    DEF Tick, Slot!Tick, Slot!asked, Slot!told, local, ghost, Inside, Kept
  <2>4. QED
    BY <2>3 DEF Slot!Next
<1>14. CASE UNCHANGED vars
  BY <1>14, SlotStutter DEF vars, Holds, time, ghost
<1>15. QED
  BY <1>1, <1>2, <1>3, <1>4, <1>5, <1>6, <1>7, <1>8, <1>9, <1>10, <1>11,
     <1>12, <1>13, <1>14 DEF Next, Step, Terminated, Slot!Next

\* To its clients the middleware is one slot that keeps one response: whatever
\* the interleaving of statements, the crashes, the calls whose outcome is
\* unknown, and the difference of the two clocks.
THEOREM OneSlotCorrect == ASSUME LeasesHold PROVE Spec => OneSlot
<1>1. Init => Slot!Init
  <2>1. ASSUME Init PROVE Inside = {} /\ Kept = NoRequest
    BY <2>1 DEF Init, Inside, Kept, Holds
  <2>2. QED
    BY <2>1 DEF Init, Slot!Init, Inside, Kept
<1>2. IInv /\ [Next]_vars => [Slot!Next]_(Slot!vars)
  BY SlotStep
<1>3. QED
  BY <1>1, <1>2, IInvCorrect, PTL DEF Spec, OneSlot, Slot!Spec

-----------------------------------------------------------------------------
(* What holds of replays even when requests outlive their claims: no        *)
(* LeasesHold from here on.                                                 *)

\* A request that is over keeps what it did and how long it may be replayed;
\* one that has yet to finalize is not over.
LEMMA OverStays ==
    ASSUME TypeOK, [Next]_vars, NEW s \in Request, pc[s] = "done"
    PROVE  pc'[s] = "done" /\ result'[s] = result[s] /\ lease'[s] = lease[s]
<1> USE DEF Goto, Leave, InFlight, store, time, local, ghost, TypeOK
<1>1. ASSUME NEW r \in Request, Arrive(r) \/ Claim(r) \/ Get(r)
      PROVE  pc'[s] = "done" /\ result'[s] = result[s] /\ lease'[s] = lease[s]
  BY <1>1 DEF Arrive, Claim, Get
<1>2. ASSUME NEW r \in Request, Resolve(r) \/ ReclaimExpired(r)
                                \/ ReclaimFailed(r) \/ ClaimAgain(r)
      PROVE  pc'[s] = "done" /\ result'[s] = result[s] /\ lease'[s] = lease[s]
  BY <1>2 DEF Resolve, ReclaimExpired, ReclaimFailed, TakeOver, ClaimAgain
<1>3. ASSUME NEW r \in Request, RunHandler(r) \/ Finalize(r) \/ StoreError(r)
                                \/ Crash(r)
      PROVE  pc'[s] = "done" /\ result'[s] = result[s] /\ lease'[s] = lease[s]
  BY <1>3 DEF RunHandler, Finalize, StoreError, Crash
<1>4. CASE PurgeExpiredIdempotencyKeys \/ Tick \/ UNCHANGED vars
  BY <1>4 DEF PurgeExpiredIdempotencyKeys, Tick, vars
<1>5. QED
  BY <1>1, <1>2, <1>3, <1>4 DEF Next, Step, Terminated

\* So a row that is honest stays so, for the middleware that has read it too.
LEMMA HonestStays ==
    ASSUME TypeOK, [Next]_vars, NEW rec, Honest(rec)
    PROVE  rec # NoRow /\ rec.status = "completed" =>
              /\ rec.response \in Request
              /\ pc'[rec.response] = "done"
              /\ result'[rec.response] \in {"ok", "rejected"}
              /\ rec.expires = lease'[rec.response]
BY OverStays DEF Honest

\* What a step may leave in the row: nothing, the row of before, one that is
\* not completed, or what r finalizes it with when it is done.
LEMMA RowAfter ==
    ASSUME TypeOK, [Next]_vars, row' # NoRow
    PROVE  \/ row' = row
           \/ row'.status # "completed"
           \/ \E r \in Request :
                 /\ pc[r] = "finalize" /\ pc'[r] = "done"
                 /\ row # NoRow /\ row' = Finalized(r)
                 /\ UNCHANGED <<result, lease>>
<1> USE DEF Goto, store, time, local
<1>1. ASSUME NEW r \in Request, row' = InsertedRow(r)
      PROVE  row'.status # "completed"
  BY <1>1 DEF InsertedRow
<1>2. ASSUME NEW r \in Request, row # NoRow,
             row' = ExpiredReclaimed(r) \/ row' = FailedReclaimed(r)
      PROVE  row'.status # "completed"
  <2>1. row \in Row
    BY <1>2 DEF TypeOK
  <2>2. row'.status = "processing"
    BY <1>2, <2>1 DEF ExpiredReclaimed, FailedReclaimed, Row
  <2>3. QED
    BY <2>2
<1>3. ASSUME NEW r \in Request, Arrive(r) \/ Get(r) \/ Resolve(r)
                                \/ RunHandler(r) \/ Crash(r)
      PROVE  row' = row
  BY <1>3 DEF Arrive, Get, Resolve, RunHandler, Crash
<1>4. ASSUME NEW r \in Request, Claim(r) \/ ClaimAgain(r)
      PROVE  row' = row \/ row' = InsertedRow(r)
  BY <1>4 DEF Claim, ClaimAgain
<1>5. ASSUME NEW r \in Request, ReclaimExpired(r) \/ ReclaimFailed(r)
      PROVE  \/ row' = row
             \/ row # NoRow /\ (row' = ExpiredReclaimed(r)
                                \/ row' = FailedReclaimed(r))
  BY <1>5 DEF ReclaimExpired, ReclaimFailed, TakeOver, ExpiredMatches,
              FailedMatches
<1>6. ASSUME NEW r \in Request, Finalize(r)
      PROVE  \/ row' = row
             \/ /\ pc[r] = "finalize" /\ pc'[r] = "done"
                /\ row # NoRow /\ row' = Finalized(r)
                /\ UNCHANGED <<result, lease>>
  BY <1>6 DEF Finalize, FinalizeMatches, TypeOK
<1>7. ASSUME NEW r \in Request, StoreError(r)
      PROVE  \/ row' = row
             \/ row' = InsertedRow(r)
             \/ row # NoRow /\ (row' = ExpiredReclaimed(r)
                                \/ row' = FailedReclaimed(r))
             \/ /\ pc[r] = "finalize" /\ pc'[r] = "done"
                /\ row # NoRow /\ row' = Finalized(r)
                /\ UNCHANGED <<result, lease>>
  <2>1. /\ pc'[r] = "done" /\ UNCHANGED <<result, lease>>
        /\ row' = row \/ row' = Executed(r)
    BY <1>7 DEF StoreError, TypeOK
  <2>2. \/ Executed(r) = row
        \/ Executed(r) = InsertedRow(r)
        \/ row # NoRow /\ (Executed(r) = ExpiredReclaimed(r)
                           \/ Executed(r) = FailedReclaimed(r))
        \/ pc[r] = "finalize" /\ row # NoRow /\ Executed(r) = Finalized(r)
    BY DEF Executed, ExpiredMatches, FailedMatches, FinalizeMatches
  <2>3. QED
    BY <2>1, <2>2
<1>8. CASE PurgeExpiredIdempotencyKeys \/ Tick \/ UNCHANGED vars
  BY <1>8 DEF PurgeExpiredIdempotencyKeys, Tick, vars
<1>9. QED
  BY <1>1, <1>2, <1>3, <1>4, <1>5, <1>6, <1>7, <1>8
  DEF Next, Step, Terminated

\* Every step leaves the row, and what was read of it, honest.
LEMMA HonestStep ==
    ASSUME TypeOK, StoredHonest, [Next]_vars
    PROVE  StoredHonest'
<1>0. row \in Row \cup {NoRow} /\ Honest(row) /\ \A r \in Request : Honest(seen[r])
  BY DEF TypeOK, StoredHonest
<1>1. Honest(row)'
  <2>1. SUFFICES ASSUME row' # NoRow, row'.status = "completed"
                 PROVE  /\ row'.response \in Request
                        /\ pc'[row'.response] = "done"
                        /\ result'[row'.response] \in {"ok", "rejected"}
                        /\ row'.expires = lease'[row'.response]
    BY DEF Honest
  <2>2. CASE row' = row
    BY <1>0, <2>1, <2>2, HonestStays
  <2>3. ASSUME NEW r \in Request, pc[r] = "finalize", pc'[r] = "done",
               row # NoRow, row' = Finalized(r), UNCHANGED <<result, lease>>
        PROVE  /\ row'.response \in Request
               /\ pc'[row'.response] = "done"
               /\ result'[row'.response] \in {"ok", "rejected"}
               /\ row'.expires = lease'[row'.response]
    <3>1. row \in Row
      BY <1>0, <2>3
    <3>2. ~Failed(r)
      BY <2>1, <2>3, <3>1 DEF Finalized, Row
    <3>3. /\ row'.response = r /\ row'.expires = lease[r]
      BY <2>3, <3>1, <3>2 DEF Finalized, Row
    <3>4. result[r] \in {"ok", "rejected"}
      BY <2>3, <3>2 DEF StoredHonest, TypeOK, Failed, Result
    <3>5. QED
      BY <2>3, <3>3, <3>4
  <2>4. QED
    BY <2>1, <2>2, <2>3, RowAfter
<1>2. ASSUME NEW r \in Request PROVE Honest(seen[r])'
  <2>1. seen'[r] = seen[r] \/ seen'[r] = row
    <3>1. ASSUME NEW s \in Request, Get(s)
          PROVE  seen'[r] = seen[r] \/ seen'[r] = row
      BY <3>1 DEF Get, TypeOK
    <3>2. CASE UNCHANGED seen
      BY <3>2
    <3>3. QED
      BY <3>1, <3>2
      DEF Next, Step, Terminated, Arrive, Claim, Resolve, ReclaimExpired,
          ReclaimFailed, TakeOver, ClaimAgain, RunHandler, Finalize, StoreError,
          Crash, PurgeExpiredIdempotencyKeys, Tick, vars, local
  <2>2. QED
    BY <1>0, <2>1, HonestStays DEF Honest
<1>3. ASSUME NEW r \in Request, pc'[r] = "finalize" PROVE result'[r] # "none"
  <2>1. ASSUME NEW s \in Request, RunHandler(s) PROVE result'[r] # "none"
    BY <1>3, <2>1 DEF RunHandler, Goto, StoredHonest, TypeOK
  <2>2. CASE UNCHANGED result /\ pc[r] = "finalize"
    BY <2>2 DEF StoredHonest
  <2>3. ASSUME NEW s \in Request,
               Arrive(s) \/ Claim(s) \/ Get(s) \/ Resolve(s)
        PROVE  UNCHANGED result /\ pc[r] = "finalize"
    BY <1>3, <2>3 DEF Arrive, Claim, Get, Resolve, Goto, Leave, TypeOK
  <2>4. ASSUME NEW s \in Request,
               ReclaimExpired(s) \/ ReclaimFailed(s) \/ ClaimAgain(s)
               \/ Finalize(s) \/ StoreError(s) \/ Crash(s)
        PROVE  UNCHANGED result /\ pc[r] = "finalize"
    BY <1>3, <2>4 DEF ReclaimExpired, ReclaimFailed, TakeOver, ClaimAgain,
                      Finalize, StoreError, Crash, Goto, Leave, TypeOK
  <2>5. CASE PurgeExpiredIdempotencyKeys \/ Tick \/ UNCHANGED vars
    BY <1>3, <2>5, <2>2 DEF PurgeExpiredIdempotencyKeys, Tick, vars, local
  <2>6. QED
    BY <2>1, <2>2, <2>3, <2>4, <2>5 DEF Next, Step, Terminated
<1>4. QED
  BY <1>1, <1>2, <1>3 DEF StoredHonest

\* A request is answered with a replay only in Resolve, of a row it has read.
LEMMA ReplayStep ==
    ASSUME TypeOK, StoredHonest, [Next]_vars, NEW r \in Request,
           answer[r] # "replay", answer'[r] = "replay"
    PROVE  /\ replayed'[r] \in Request
           /\ pc[replayed'[r]] = "done"
           /\ result[replayed'[r]] \in {"ok", "rejected"}
           /\ clock < lease[replayed'[r]]
<1> USE DEF Goto, Leave, time, local, ghost
<1>1. Resolve(r)
  <2>1. ASSUME NEW s \in Request, Resolve(s) PROVE s = r
    BY <2>1 DEF Resolve, TypeOK
  <2>2. ASSUME NEW s \in Request, ReclaimExpired(s) \/ ReclaimFailed(s)
                                  \/ ClaimAgain(s) \/ RunHandler(s)
        PROVE  FALSE
    BY <2>2 DEF ReclaimExpired, ReclaimFailed, TakeOver, ClaimAgain,
                RunHandler, TypeOK
  <2>3. ASSUME NEW s \in Request, StoreError(s) PROVE FALSE
    BY <2>3 DEF StoreError, TypeOK
  <2>4. CASE UNCHANGED answer
    BY <2>4
  <2>5. QED
    BY <2>1, <2>2, <2>3, <2>4
    DEF Next, Step, Terminated, Arrive, Claim, Get, Finalize, Crash,
        PurgeExpiredIdempotencyKeys, Tick, vars
<1>2. /\ pc[r] = "resolve"
      /\ seen[r].status = "completed" /\ seen[r].expires > clock
      /\ replayed'[r] = seen[r].response
  BY <1>1 DEF Resolve, TypeOK
<1>3. seen[r] \in Row /\ seen[r] # NoRow
  BY <1>2, RowAssumption DEF TypeOK
<1>4. Honest(seen[r])
  BY DEF StoredHonest
<1>5. /\ seen[r].response \in Request /\ pc[seen[r].response] = "done"
      /\ result[seen[r].response] \in {"ok", "rejected"}
      /\ seen[r].expires = lease[seen[r].response]
  BY <1>2, <1>3, <1>4 DEF Honest
<1>6. clock \in Nat /\ lease[seen[r].response] \in Nat
  BY <1>5 DEF TypeOK
<1>7. QED
  BY <1>2, <1>5, <1>6

\* Whatever becomes of leases, a client is sent no stored answer but one that a
\* handler below 500 gave, that is over, and whose own window is still open.
THEOREM ReplayedInWindowCorrect == Spec => ReplayedInWindow
<1>1. Init => StoredHonest
  BY DEF Init, StoredHonest, Honest
<1>2. TypeOK /\ StoredHonest /\ [Next]_vars => StoredHonest'
  BY HonestStep
<1>3. TypeOK /\ StoredHonest /\ [Next]_vars =>
         [\A r \in Request : answer[r] # "replay" /\ answer'[r] = "replay" =>
             /\ replayed'[r] \in Request
             /\ pc[replayed'[r]] = "done"
             /\ result[replayed'[r]] \in {"ok", "rejected"}
             /\ clock < lease[replayed'[r]]]_vars
  BY ReplayStep
<1>4. QED
  BY <1>1, <1>2, <1>3, TypeCorrect, PTL DEF Spec, ReplayedInWindow
=============================================================================
