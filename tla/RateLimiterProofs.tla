-------------------------- MODULE RateLimiterProofs --------------------------
(***************************************************************************)
(* The limits hold for any clients, requests, rate, burst and delays.      *)
(***************************************************************************)
EXTENDS RateLimiter, TLAPS

\* Granting one more costs Cost more.
LEMMA Numbers ==
    /\ Full \in Nat /\ Cost \in Nat \ {0} /\ Late \in Nat /\ CleanupTL \in Nat
    /\ Cost <= Full
    /\ CleanupTL >= Full + 2 * Late
    /\ \A n \in Nat : n * Cost \in Nat /\ (n + 1) * Cost = n * Cost + Cost
    /\ 0 * Cost = 0
<1>1. Burst \in Nat \ {0} /\ Cost \in Nat \ {0}
  BY NumberAssumption
<1>2. Full \in Nat /\ Cost <= Full
  <2>1. \A m, n \in Nat \ {0} : m * n \in Nat /\ n <= m * n
    OBVIOUS
  <2>2. QED
    BY <1>1, <2>1 DEF Full
<1>3. \A n \in Nat : n * Cost \in Nat /\ (n + 1) * Cost = n * Cost + Cost
  BY <1>1
<1>4. QED
  BY <1>1, <1>2, <1>3, NumberAssumption, CleanupAssumption DEF Full

\* Of these, what needs no multiplication.
LEMMA Limits ==
    /\ Full \in Nat /\ Cost \in Nat \ {0} /\ Late \in Nat /\ CleanupTL \in Nat
    /\ CleanupTL >= Full + 2 * Late
BY Numbers

\* The bucket of a request, as of the time it read.
LEMMA Refill ==
    ASSUME TypeOK, NEW r \in Request, held[r] \in Request
    PROVE  /\ Refilled(r) \in Int
           /\ Refilled(r) <= Full
           /\ Refilled(r) <= tokens[held[r]] + (now[r] - lastFill[held[r]])
           /\ \/ Refilled(r) = Full
              \/ Refilled(r) = tokens[held[r]] + (now[r] - lastFill[held[r]])
BY Numbers DEF TypeOK, Refilled, Least

\* A decision: what it leaves in the bucket, and whom it grants.
LEMMA Decision ==
    ASSUME TypeOK, NEW r \in Request, held[r] \in Request, Decide(r)
    PROVE  /\ stage[r] = "held"
           /\ stage' = [stage EXCEPT ![r] = stage'[r]]
           /\ stage'[r] \in {"passed", "limited"}
           /\ lastFill' = [lastFill EXCEPT ![held[r]] = now[r]]
           /\ \/ /\ tokens' = [tokens EXCEPT ![held[r]] = Refilled(r)]
                 /\ UNCHANGED <<count, extra>>
              \/ /\ tokens' = [tokens EXCEPT ![held[r]] = Refilled(r) - Cost]
                 /\ Refilled(r) - Cost >= 0
                 /\ held[r] \in condemned
                 /\ extra' = [extra EXCEPT ![held[r]] = extra[held[r]] + 1]
                 /\ UNCHANGED count
              \/ /\ tokens' = [tokens EXCEPT ![held[r]] = Refilled(r) - Cost]
                 /\ Refilled(r) - Cost >= 0
                 /\ held[r] \notin condemned
                 /\ count' = [count EXCEPT ![clientIP[r]] = count[clientIP[r]] + 1]
                 /\ UNCHANGED extra
           /\ UNCHANGED <<clock, now, held, buckets, sweepVars, since, condemned,
                          foundAt>>
<1>1. Refilled(r) \in Int /\ Cost \in Nat
  BY Refill, Numbers
<1>2. /\ stage[r] = "held"
      /\ stage' = [stage EXCEPT ![r] = stage'[r]]
      /\ stage'[r] \in {"passed", "limited"}
  BY DEF Decide, TypeOK
<1>3. CASE Refilled(r) < Cost
  BY <1>1, <1>2, <1>3 DEF Decide, FilledAt
<1>4. CASE ~(Refilled(r) < Cost)
  <2>1. Refilled(r) - Cost >= 0
    BY <1>1, <1>4
  <2>2. QED
    BY <1>2, <1>4, <2>1 DEF Decide, FilledAt, Granted
<1>5. QED
  BY <1>3, <1>4

-----------------------------------------------------------------------------
(* Type correctness.                                                        *)

\* A request that has got past the map holds a bucket.
LEMMA Holds ==
    ASSUME TypeOK, Mapped, NEW r \in Request, stage[r] = "held"
    PROVE  held[r] \in Request
BY DEF TypeOK, Mapped, Waiting

LEMMA TypeInit == Init => TypeOK
<1> SUFFICES ASSUME Init PROVE TypeOK
  OBVIOUS
<1>1. /\ stage \in [Request -> {"idle", "timed", "held", "passed", "limited"}]
      /\ now \in [Request -> Nat]
      /\ held \in [Request -> Request \cup {NoBucket}]
      /\ buckets \in [Client -> Request \cup {NoBucket}]
  BY DEF Init
<1>2. /\ tokens \in [Request -> Int]
      /\ lastFill \in [Request -> Nat]
      /\ \A b \in Request : tokens[b] <= Full
  BY Numbers DEF Init
<1>3. /\ count \in [Client -> Nat]
      /\ foundAt \in [Request -> Nat]
      /\ extra \in [Request -> Nat]
  BY DEF Init
<1>4. ticked \in BOOLEAN
  BY DEF Init
<1>5. /\ clock \in Nat /\ since \in Nat /\ cutoff \in Int
      /\ todo \subseteq Client /\ doomed \in Client \cup {NoClient}
      /\ condemned \subseteq Request
  BY DEF Init
<1>6. QED
  BY <1>1, <1>2, <1>3, <1>4, <1>5 DEF TypeOK

LEMMA TypeStep == TypeOK /\ Mapped /\ [Next]_vars => TypeOK'
<1> SUFFICES ASSUME TypeOK, Mapped, [Next]_vars PROVE TypeOK'
  OBVIOUS
<1> USE DEF callVars, bucketVars, sweepVars, history
<1>1. ASSUME NEW r \in Request, ReadTime(r) PROVE TypeOK'
  BY <1>1 DEF ReadTime, TypeOK
<1>2. ASSUME NEW r \in Request, LoadOrStore(r) PROVE TypeOK'
  <2>1. clientIP[r] \in Client
    BY ClientAssumption
  <2>2. CASE buckets[clientIP[r]] # NoBucket
    BY <1>2, <2>1, <2>2 DEF LoadOrStore, TypeOK
  <2>3. CASE buckets[clientIP[r]] = NoBucket
    <3>1. /\ tokens' = [tokens EXCEPT ![r] = Full]
          /\ tokens' \in [Request -> Int]
          /\ \A b \in Request : tokens'[b] <= Full
      BY <1>2, <2>3, Numbers DEF LoadOrStore, TypeOK
    <3>2. QED
      BY <1>2, <2>1, <2>3, <3>1 DEF LoadOrStore, TypeOK
  <2>4. QED
    BY <2>2, <2>3
<1>3. ASSUME NEW r \in Request, Decide(r) PROVE TypeOK'
  <2>1. held[r] \in Request /\ clientIP[r] \in Client
    BY <1>3, Holds, ClientAssumption DEF Decide
  <2>2. /\ tokens' \in [Request -> Int]
        /\ \A b \in Request : tokens'[b] <= Full
    BY <1>3, <2>1, Decision, Refill, Numbers DEF TypeOK
  <2>3. count' \in [Client -> Nat] /\ extra' \in [Request -> Nat]
    BY <1>3, <2>1, Decision DEF TypeOK
  <2>4. /\ stage' \in [Request -> {"idle", "timed", "held", "passed", "limited"}]
        /\ lastFill' \in [Request -> Nat]
    BY <1>3, <2>1, Decision DEF TypeOK
  <2>5. UNCHANGED <<clock, now, held, buckets, sweepVars, since, condemned, foundAt>>
    BY <1>3 DEF Decide
  <2>6. QED
    BY <2>2, <2>3, <2>4, <2>5 DEF TypeOK
<1>4. CASE StartSweep
  <2>1. cutoff' \in Int /\ todo' \subseteq Client
    BY <1>4, Numbers DEF StartSweep, TypeOK
  <2>2. ticked' \in BOOLEAN
    BY <1>4 DEF StartSweep
  <2>3. UNCHANGED <<clock, callVars, bucketVars, doomed, history>>
    BY <1>4 DEF StartSweep
  <2>4. QED
    BY <2>1, <2>2, <2>3 DEF TypeOK
<1>5. CASE Delete
  BY <1>5 DEF Delete, TypeOK
<1>6. ASSUME NEW c \in Client, Visit(c) PROVE TypeOK'
  <2>1. buckets[c] \in Request
    BY <1>6 DEF Visit, Mapped, TypeOK
  <2>2. QED
    BY <1>6, <2>1 DEF Visit, TypeOK
<1>7. CASE Tick
  BY <1>7 DEF Tick, TypeOK
<1>8. CASE Observe
  BY <1>8 DEF Observe, TypeOK
<1>9. CASE UNCHANGED vars
  BY <1>9 DEF vars, TypeOK
<1>10. QED
  BY <1>1, <1>2, <1>3, <1>4, <1>5, <1>6, <1>7, <1>8, <1>9 DEF Next

-----------------------------------------------------------------------------
(* The map.                                                                 *)

LEMMA MappedStep == TypeOK /\ Mapped /\ [Next]_vars => Mapped'
<1> SUFFICES ASSUME TypeOK, Mapped, [Next]_vars PROVE Mapped'
  OBVIOUS
<1>0. /\ clientIP \in [Request -> Client] /\ NoBucket \notin Request
      /\ NoClient \notin Client
  BY ClientAssumption
<1> USE DEF callVars, bucketVars, sweepVars, history
<1>1. ASSUME UNCHANGED <<held, buckets, condemned, doomed, todo>>,
             \A r \in Request : Waiting(r)' <=> Waiting(r)
      PROVE  Mapped'
  BY <1>1 DEF Mapped
<1>2. ASSUME NEW r \in Request, ReadTime(r) \/ Decide(r) PROVE Mapped'
  <2>1. \A q \in Request : Waiting(q)' <=> Waiting(q)
    BY <1>2 DEF ReadTime, Decide, Waiting, TypeOK
  <2>2. UNCHANGED <<held, buckets, condemned, doomed, todo>>
    BY <1>2 DEF ReadTime, Decide
  <2>3. QED
    BY <1>1, <2>1, <2>2
<1>3. ASSUME NEW r \in Request, LoadOrStore(r) PROVE Mapped'
  <2> DEFINE c == clientIP[r]
  <2>1. /\ Waiting(r) /\ ~Waiting(r)'
        /\ \A q \in Request \ {r} : Waiting(q)' <=> Waiting(q)
    BY <1>3 DEF LoadOrStore, Waiting, TypeOK
  <2>2. UNCHANGED <<condemned, doomed, todo>> /\ c \in Client
    BY <1>0, <1>3 DEF LoadOrStore
  <2>3. CASE buckets[c] # NoBucket
    <3>1. held' = [held EXCEPT ![r] = buckets[c]] /\ UNCHANGED buckets
      BY <1>3, <2>3 DEF LoadOrStore
    <3>2. buckets[c] \in Request /\ clientIP[buckets[c]] = c /\ ~Waiting(buckets[c])
          /\ buckets[c] # r
      BY <2>1, <2>2, <2>3 DEF TypeOK, Mapped
    <3>3. QED
      BY <1>0, <2>1, <2>2, <3>1, <3>2 DEF Mapped, TypeOK
  <2>4. CASE buckets[c] = NoBucket
    <3>1. held' = [held EXCEPT ![r] = r] /\ buckets' = [buckets EXCEPT ![c] = r]
      BY <1>3, <2>4 DEF LoadOrStore
    <3>2. doomed # c /\ c \notin todo /\ r \notin condemned
      BY <1>0, <2>1, <2>2, <2>4 DEF Mapped
    <3>3. \A q \in Request : ~Waiting(q) /\ held[q] \notin condemned => clientIP[q] # c
      BY <1>0, <2>4 DEF Mapped
    <3>4. /\ held'[r] = r /\ \A q \in Request \ {r} : held'[q] = held[q]
          /\ buckets'[c] = r /\ \A d \in Client \ {c} : buckets'[d] = buckets[d]
      BY <2>2, <3>1 DEF TypeOK
    <3>5. \A d \in Client : buckets'[d] # NoBucket =>
             /\ clientIP[buckets'[d]] = d
             /\ buckets'[d] \in condemned' <=> doomed' = d
      BY <2>2, <3>2, <3>4 DEF Mapped
    <3>6. \A q \in Request :
             /\ Waiting(q)' <=> held'[q] = NoBucket
             /\ Waiting(q)' =>
                   /\ q \notin condemned'
                   /\ \A d \in Client : buckets'[d] # q
                   /\ \A p \in Request : held'[p] # q
             /\ ~Waiting(q)' /\ held'[q] \notin condemned' =>
                   buckets'[clientIP[q]] = held'[q]
             /\ ~Waiting(q)' => clientIP[held'[q]] = clientIP[q]
      <4> SUFFICES ASSUME NEW q \in Request
                   PROVE  /\ Waiting(q)' <=> held'[q] = NoBucket
                          /\ Waiting(q)' =>
                                /\ q \notin condemned'
                                /\ \A d \in Client : buckets'[d] # q
                                /\ \A p \in Request : held'[p] # q
                          /\ ~Waiting(q)' /\ held'[q] \notin condemned' =>
                                buckets'[clientIP[q]] = held'[q]
                          /\ ~Waiting(q)' => clientIP[held'[q]] = clientIP[q]
        OBVIOUS
      <4>1. CASE q = r
        BY <1>0, <2>1, <2>2, <3>4, <4>1
      <4>2. CASE q # r
        BY <1>0, <2>1, <2>2, <3>3, <3>4, <4>2 DEF Mapped
      <4>3. QED
        BY <4>1, <4>2
    <3>7. /\ \A d \in todo' : buckets'[d] # NoBucket /\ doomed' # d
          /\ doomed' # NoClient => buckets'[doomed'] # NoBucket
      BY <1>0, <2>2, <3>2, <3>4 DEF Mapped, TypeOK
    <3>8. QED
      BY <3>5, <3>6, <3>7 DEF Mapped
  <2>5. QED
    BY <2>3, <2>4
<1>4. CASE StartSweep
  <2>1. /\ UNCHANGED <<held, buckets, condemned, doomed, stage>> /\ doomed = NoClient
        /\ todo' = {c \in Client : buckets[c] # NoBucket}
    BY <1>4 DEF StartSweep
  <2>2. QED
    BY <1>0, <2>1 DEF Mapped, Waiting
<1>5. CASE Delete
  <2>1. /\ doomed \in Client /\ doomed' = NoClient
        /\ buckets' = [buckets EXCEPT ![doomed] = NoBucket]
        /\ UNCHANGED <<held, condemned, stage, todo>>
    BY <1>5 DEF Delete, TypeOK
  <2>2. buckets[doomed] \in condemned
    BY <2>1, <1>0 DEF Mapped
  <2>3. \A q \in Request : ~Waiting(q) /\ held[q] \notin condemned =>
                              clientIP[q] # doomed
    BY <2>2 DEF Mapped
  <2>4. /\ buckets'[doomed] = NoBucket
        /\ \A d \in Client \ {doomed} : buckets'[d] = buckets[d]
    BY <2>1 DEF TypeOK
  <2>5. \A q \in Request : Waiting(q)' <=> Waiting(q)
    BY <2>1 DEF Waiting
  <2>6. \A d \in Client : buckets'[d] # NoBucket =>
           /\ clientIP[buckets'[d]] = d
           /\ buckets'[d] \in condemned' <=> doomed' = d
    BY <1>0, <2>1, <2>4 DEF Mapped
  <2>7. \A q \in Request :
           /\ Waiting(q)' <=> held'[q] = NoBucket
           /\ Waiting(q)' =>
                 /\ q \notin condemned'
                 /\ \A d \in Client : buckets'[d] # q
                 /\ \A p \in Request : held'[p] # q
           /\ ~Waiting(q)' /\ held'[q] \notin condemned' =>
                 buckets'[clientIP[q]] = held'[q]
           /\ ~Waiting(q)' => clientIP[held'[q]] = clientIP[q]
    BY <1>0, <2>1, <2>3, <2>4, <2>5 DEF Mapped
  <2>8. \A d \in todo' : buckets'[d] # NoBucket /\ doomed' # d
    BY <1>0, <2>1, <2>4, ClientAssumption DEF Mapped, TypeOK
  <2>9. QED
    BY <2>1, <2>6, <2>7, <2>8 DEF Mapped
<1>6. ASSUME NEW c \in Client, Visit(c) PROVE Mapped'
  <2>1. /\ doomed = NoClient /\ c \in todo /\ todo' = todo \ {c}
        /\ UNCHANGED <<held, buckets, stage>>
        /\ \/ doomed' = c /\ condemned' = condemned \cup {buckets[c]}
           \/ UNCHANGED <<doomed, condemned>>
    BY <1>6 DEF Visit
  <2>2. \A q \in Request : Waiting(q)' <=> Waiting(q)
    BY <2>1 DEF Waiting
  <2>3. CASE UNCHANGED <<doomed, condemned>>
    BY <2>1, <2>2, <2>3 DEF Mapped
  <2>4. CASE doomed' = c /\ condemned' = condemned \cup {buckets[c]}
    <3>1. buckets[c] \in Request /\ clientIP[buckets[c]] = c /\ ~Waiting(buckets[c])
      BY <2>1 DEF Mapped, TypeOK
    <3>2. \A d \in Client \ {c} : buckets[d] # buckets[c]
      BY <3>1, <1>0 DEF Mapped
    <3>3. QED
      BY <1>0, <2>1, <2>2, <2>4, <3>1, <3>2 DEF Mapped
  <2>5. QED
    BY <2>1, <2>3, <2>4
<1>7. CASE Tick \/ Observe \/ UNCHANGED vars
  <2>1. UNCHANGED <<held, buckets, condemned, doomed, todo, stage>>
    BY <1>7 DEF Tick, Observe, vars
  <2>2. QED
    BY <1>1, <2>1 DEF Waiting
<1>8. QED
  BY <1>2, <1>3, <1>4, <1>5, <1>6, <1>7 DEF Next

-----------------------------------------------------------------------------
(* The clock.                                                               *)

LEMMA TimelyStep == TypeOK /\ Mapped /\ Timely /\ [Next]_vars => Timely'
<1> SUFFICES ASSUME TypeOK, Mapped, Timely, [Next]_vars PROVE Timely'
  OBVIOUS
<1>0. /\ clientIP \in [Request -> Client] /\ NoBucket \notin Request
      /\ NoClient \notin Client /\ Late \in Nat /\ CleanupTL \in Nat
  BY ClientAssumption, Numbers
<1> USE DEF callVars, bucketVars, sweepVars, history
<1>1. ASSUME NEW r \in Request, ReadTime(r) PROVE Timely'
  <2>1. /\ now'[r] = clock /\ stage'[r] = "timed"
        /\ \A q \in Request \ {r} : now'[q] = now[q] /\ stage'[q] = stage[q]
        /\ UNCHANGED <<clock, held, buckets, lastFill, cutoff, todo, doomed, since,
                       condemned, foundAt>>
    BY <1>1 DEF ReadTime, TypeOK
  <2>2. clock \in Nat
    BY DEF TypeOK
  <2>3. QED
    BY <1>0, <2>1, <2>2 DEF Timely
<1>2. ASSUME NEW r \in Request, LoadOrStore(r) PROVE Timely'
  <2> DEFINE c == clientIP[r]
  <2>1. /\ stage[r] = "timed" /\ stage'[r] = "held"
        /\ \A q \in Request \ {r} : held'[q] = held[q] /\ stage'[q] = stage[q]
        /\ UNCHANGED <<clock, now, cutoff, todo, doomed, since, condemned, foundAt>>
    BY <1>2 DEF LoadOrStore, TypeOK
  <2>2. now[r] <= clock /\ clock <= now[r] + Late /\ now[r] \in Nat /\ clock \in Nat
    BY <2>1 DEF Timely, TypeOK
  <2>3. \A b \in Request : lastFill'[b] = lastFill[b] \/ lastFill'[b] = now[r]
    BY <1>2 DEF LoadOrStore, TypeOK
  <2>4. doomed # NoClient => buckets'[doomed] = buckets[doomed]
    BY <1>0, <1>2 DEF LoadOrStore, TypeOK, Mapped
  <2>5. held'[r] \in condemned => now[r] <= foundAt[held'[r]] + Late
    <3> SUFFICES ASSUME held'[r] \in condemned PROVE now[r] <= foundAt[held'[r]] + Late
      OBVIOUS
    <3>1. r \notin condemned
      BY <2>1 DEF Mapped, Waiting
    <3>2. held'[r] = buckets[c] /\ buckets[c] # NoBucket
      BY <1>2, <3>1 DEF LoadOrStore, TypeOK
    <3>3. doomed = c /\ c # NoClient
      BY <1>0, <3>2 DEF Mapped
    <3>4. clock <= foundAt[buckets[c]] + Late
      BY <3>3 DEF Timely
    <3>5. foundAt[buckets[c]] \in Nat
      BY <1>0, <3>2 DEF TypeOK
    <3>6. QED
      BY <1>0, <2>2, <3>2, <3>4, <3>5
  <2>6. \A q \in Request : stage'[q] \in {"timed", "held"} =>
                              now'[q] <= clock' /\ clock' <= now'[q] + Late
    BY <2>1, <2>2 DEF Timely
  <2>7. \A b \in Request : lastFill'[b] <= clock' /\ foundAt'[b] <= clock'
    BY <2>1, <2>2, <2>3 DEF Timely
  <2>8. \A q \in Request : stage'[q] = "held" /\ held'[q] \in condemned' =>
                              now'[q] <= foundAt'[held'[q]] + Late
    BY <2>1, <2>5 DEF Timely
  <2>9. QED
    BY <2>1, <2>4, <2>6, <2>7, <2>8 DEF Timely
<1>3. ASSUME NEW r \in Request, Decide(r) PROVE Timely'
  <2>1. stage[r] = "held" /\ held[r] \in Request
    BY <1>3, Holds DEF Decide
  <2>2. /\ UNCHANGED <<clock, now, held, buckets, sweepVars, since, condemned, foundAt>>
        /\ \A q \in Request : stage'[q] \in {"timed", "held"} => stage'[q] = stage[q]
        /\ \A b \in Request : lastFill'[b] = lastFill[b] \/ lastFill'[b] = now[r]
    BY <1>3, <2>1, Decision DEF TypeOK
  <2>3. now[r] <= clock
    BY <2>1 DEF Timely
  <2>4. QED
    BY <2>2, <2>3 DEF Timely
<1>4. CASE StartSweep
  <2>1. /\ cutoff' = clock - CleanupTL /\ doomed = NoClient
        /\ UNCHANGED <<clock, stage, now, held, buckets, lastFill, doomed, since,
                       condemned, foundAt>>
    BY <1>4 DEF StartSweep
  <2>2. cutoff' <= clock - CleanupTL
    BY <1>0, <2>1 DEF TypeOK
  <2>3. QED
    BY <2>1, <2>2 DEF Timely
<1>5. CASE Delete
  <2>1. /\ doomed' = NoClient
        /\ UNCHANGED <<clock, stage, now, held, lastFill, cutoff, todo, since,
                       condemned, foundAt>>
    BY <1>5 DEF Delete
  <2>2. QED
    BY <2>1 DEF Timely
<1>6. ASSUME NEW c \in Client, Visit(c) PROVE Timely'
  <2>1. /\ c \in todo /\ todo' = todo \ {c} /\ doomed = NoClient
        /\ UNCHANGED <<clock, stage, now, held, buckets, lastFill, cutoff, since>>
        /\ \/ UNCHANGED <<doomed, condemned, foundAt>>
           \/ /\ doomed' = c /\ condemned' = condemned \cup {buckets[c]}
              /\ foundAt' = [foundAt EXCEPT ![buckets[c]] = clock]
    BY <1>6 DEF Visit
  <2>2. CASE UNCHANGED <<doomed, condemned, foundAt>>
    BY <2>1, <2>2 DEF Timely
  <2>3. CASE /\ doomed' = c /\ condemned' = condemned \cup {buckets[c]}
             /\ foundAt' = [foundAt EXCEPT ![buckets[c]] = clock]
    <3>1. buckets[c] \in Request
      BY <2>1 DEF Mapped, TypeOK
    <3>2. clock \in Nat /\ clock <= clock + Late
      BY <1>0 DEF TypeOK
    <3>3. /\ foundAt'[buckets[c]] = clock
          /\ \A b \in Request \ {buckets[c]} : foundAt'[b] = foundAt[b]
      BY <2>3, <3>1 DEF TypeOK
    <3>4. \A q \in Request : stage[q] = "held" => now[q] <= clock /\ now[q] \in Nat
      BY DEF Timely, TypeOK
    <3>5. \A b \in Request : lastFill'[b] <= clock' /\ foundAt'[b] <= clock'
      BY <2>1, <3>2, <3>3 DEF Timely
    <3>6. \A q \in Request : stage'[q] = "held" /\ held'[q] \in condemned' =>
                                now'[q] <= foundAt'[held'[q]] + Late
      <4> SUFFICES ASSUME NEW q \in Request, stage[q] = "held", held[q] \in condemned'
                   PROVE  now[q] <= foundAt'[held[q]] + Late
        BY <2>1
      <4>1. CASE held[q] = buckets[c]
        BY <1>0, <3>2, <3>3, <3>4, <4>1
      <4>2. CASE held[q] # buckets[c]
        BY <2>3, <3>3, <4>2, Holds DEF Timely
      <4>3. QED
        BY <4>1, <4>2
    <3>7. QED
      BY <2>1, <2>3, <3>2, <3>3, <3>5, <3>6 DEF Timely
  <2>4. QED
    BY <2>1, <2>2, <2>3
<1>7. CASE Tick
  <2>1. /\ clock' = clock + 1
        /\ \A r \in Request : stage[r] \in {"timed", "held"} => clock - now[r] < Late
        /\ doomed # NoClient => clock - foundAt[buckets[doomed]] < Late
        /\ UNCHANGED <<stage, now, held, buckets, lastFill, cutoff, todo, doomed, since,
                       condemned, foundAt>>
    BY <1>7 DEF Tick
  <2>2. /\ clock \in Nat /\ since \in Nat /\ cutoff \in Int
        /\ \A b \in Request : lastFill[b] \in Nat /\ foundAt[b] \in Nat /\ now[b] \in Nat
        /\ doomed # NoClient => buckets[doomed] \in Request
    BY DEF TypeOK, Mapped
  <2>3. /\ \A r \in Request : stage[r] \in {"timed", "held"} =>
              now[r] <= clock' /\ clock' <= now[r] + Late
        /\ \A b \in Request : lastFill[b] <= clock' /\ foundAt[b] <= clock'
        /\ since <= clock'
    BY <1>0, <2>1, <2>2 DEF Timely
  <2>4. /\ todo # {} => cutoff <= clock' - CleanupTL
        /\ doomed # NoClient => clock' <= foundAt[buckets[doomed]] + Late
    BY <1>0, <2>1, <2>2 DEF Timely
  <2>5. QED
    BY <2>1, <2>3, <2>4 DEF Timely
<1>8. CASE Observe
  <2>1. /\ since' = clock
        /\ UNCHANGED <<clock, stage, now, held, buckets, lastFill, cutoff, todo, doomed,
                       condemned, foundAt>>
    BY <1>8 DEF Observe
  <2>2. since' <= clock
    BY <2>1 DEF TypeOK
  <2>3. QED
    BY <2>1, <2>2 DEF Timely
<1>9. CASE UNCHANGED vars
  BY <1>9 DEF vars, Timely
<1>10. QED
  BY <1>1, <1>2, <1>3, <1>4, <1>5, <1>6, <1>7, <1>8, <1>9 DEF Next

-----------------------------------------------------------------------------
(* The tokens.                                                              *)

\* The steps that touch a bucket: it is stored, or a request has its lock.
LEMMA BucketSteps ==
    ASSUME IInv, [Next]_vars
    PROVE  \/ UNCHANGED <<tokens, lastFill>>
           \/ \E r \in Request :
                 /\ LoadOrStore(r) /\ buckets[clientIP[r]] = NoBucket
                 /\ tokens' = [tokens EXCEPT ![r] = Full]
                 /\ lastFill' = [lastFill EXCEPT ![r] = now[r]]
           \/ \E r \in Request : Decide(r)
<1> USE DEF callVars, bucketVars, sweepVars, history
<1>1. ASSUME NEW r \in Request, ReadTime(r) PROVE UNCHANGED <<tokens, lastFill>>
  BY <1>1 DEF ReadTime
<1>2. ASSUME NEW r \in Request, LoadOrStore(r)
      PROVE  \/ UNCHANGED <<tokens, lastFill>>
             \/ /\ buckets[clientIP[r]] = NoBucket
                /\ tokens' = [tokens EXCEPT ![r] = Full]
                /\ lastFill' = [lastFill EXCEPT ![r] = now[r]]
  BY <1>2 DEF LoadOrStore
<1>3. CASE StartSweep \/ Delete \/ Tick \/ Observe \/ UNCHANGED vars
  BY <1>3 DEF StartSweep, Delete, Tick, Observe, vars
<1>4. ASSUME NEW c \in Client, Visit(c) PROVE UNCHANGED <<tokens, lastFill>>
  BY <1>4 DEF Visit
<1>5. QED
  BY <1>1, <1>2, <1>3, <1>4 DEF Next

LEMMA ClockStep == TypeOK /\ [Next]_vars => clock' = clock \/ clock' = clock + 1
BY DEF Next, ReadTime, LoadOrStore, Decide, StartSweep, Delete, Visit, Tick, Observe, vars

LEMMA TokensStep == IInv /\ [Next]_vars => TokensKept'
<1> SUFFICES ASSUME IInv, [Next]_vars PROVE TokensKept'
  OBVIOUS
<1>0. /\ TypeOK /\ Mapped /\ Timely /\ TokensKept
      /\ clock \in Nat /\ clock' \in Nat /\ clock <= clock'
  BY ClockStep DEF IInv, TypeOK
<1>1. CASE UNCHANGED <<tokens, lastFill>>
  BY <1>0, <1>1, Numbers DEF TypeOK, TokensKept
<1>2. ASSUME NEW r \in Request, LoadOrStore(r),
             tokens' = [tokens EXCEPT ![r] = Full],
             lastFill' = [lastFill EXCEPT ![r] = now[r]]
      PROVE  TokensKept'
  <2>1. now[r] <= clock /\ now[r] \in Nat
    BY <1>0, <1>2 DEF LoadOrStore, Timely, TypeOK
  <2>2. /\ tokens'[r] = Full /\ lastFill'[r] = now[r]
        /\ \A b \in Request \ {r} : tokens'[b] = tokens[b] /\ lastFill'[b] = lastFill[b]
    BY <1>0, <1>2 DEF TypeOK
  <2>3. \A b \in Request : tokens[b] \in Int /\ lastFill[b] \in Nat
    BY <1>0 DEF TypeOK
  <2>4. QED
    BY <1>0, <2>1, <2>2, <2>3, Numbers DEF TokensKept
<1>3. ASSUME NEW r \in Request, Decide(r) PROVE TokensKept'
  <2> DEFINE b == held[r]
  <2>1. b \in Request /\ now[r] <= clock /\ clock <= now[r] + Late
    BY <1>0, <1>3, Holds DEF Decide, Timely
  <2>2. /\ now[r] \in Nat /\ tokens[b] \in Int /\ lastFill[b] \in Nat
        /\ tokens[b] >= lastFill[b] - clock
        /\ clock' = clock
    BY <1>0, <1>3, <2>1 DEF TypeOK, TokensKept, Decide
  <2>3. Refilled(r) \in Int /\ Refilled(r) >= now[r] - clock /\ Refilled(r) >= -Late
    BY <1>0, <2>1, <2>2, Refill, Numbers
  <2>4. /\ lastFill' = [lastFill EXCEPT ![b] = now[r]]
        /\ \/ tokens' = [tokens EXCEPT ![b] = Refilled(r)]
           \/ tokens' = [tokens EXCEPT ![b] = Refilled(r) - Cost] /\ Refilled(r) - Cost >= 0
    BY <1>0, <1>3, <2>1, Decision
  <2>5. /\ lastFill'[b] = now[r] /\ tokens'[b] >= now[r] - clock /\ tokens'[b] >= -Late
        /\ \A a \in Request \ {b} : tokens'[a] = tokens[a] /\ lastFill'[a] = lastFill[a]
    BY <1>0, <2>1, <2>2, <2>3, <2>4, Numbers DEF TypeOK
  <2>6. QED
    BY <1>0, <2>2, <2>5 DEF TokensKept
<1>4. QED
  BY <1>1, <1>2, <1>3, BucketSteps

\* A decision about a bucket that the cleanup has not found stale.
LEMMA BalancedDecision ==
    ASSUME IInv, NEW r \in Request, Decide(r), held[r] \notin condemned
    PROVE  Balanced'
<1> DEFINE b == held[r]
           c == clientIP[r]
<1>0. TypeOK /\ Mapped /\ Timely /\ Balanced
  BY DEF IInv
<1>1. stage[r] = "held" /\ b \in Request /\ c \in Client
  BY <1>0, Holds, ClientAssumption DEF Decide
<1>2. buckets[c] = b /\ Current(c)
  BY <1>0, <1>1, ClientAssumption DEF Mapped, Waiting, Current
<1>3. \A d \in Client \ {c} : Current(d) => buckets[d] # b /\ buckets[d] \in Request
  BY <1>0, <1>2 DEF Mapped, Current, TypeOK
<1>4. /\ UNCHANGED <<clock, since, buckets, condemned>>
      /\ lastFill'[b] = now[r]
      /\ \A a \in Request \ {b} : lastFill'[a] = lastFill[a] /\ tokens'[a] = tokens[a]
      /\ \A d \in Client \ {c} : count'[d] = count[d]
      /\ \/ tokens'[b] = Refilled(r) /\ count'[c] = count[c]
         \/ tokens'[b] = Refilled(r) - Cost /\ count'[c] = count[c] + 1
  BY <1>0, <1>1, Decision DEF TypeOK
<1>5. /\ count[c] \in Nat /\ tokens[b] \in Int /\ lastFill[b] \in Nat /\ now[r] \in Nat
      /\ clock \in Nat /\ since \in Nat /\ Refilled(r) \in Int
      /\ now[r] + Late >= since
  BY <1>0, <1>1, Refill, Numbers DEF TypeOK, Timely
<1>6. count[c] * Cost + Refilled(r) <= Full + (now[r] - since) + Late
  <2>1. CASE count[c] = 0
    <3>1. Refilled(r) <= Full
      BY <1>0, <1>1, Refill
    <3>2. count[c] * Cost = 0
      BY <2>1, Numbers
    <3>3. QED
      BY <1>5, <3>1, <3>2, Limits
  <2>2. CASE count[c] # 0
    <3>1. count[c] * Cost + tokens[b] <= Full + (lastFill[b] - since) + Late
      BY <1>0, <1>1, <1>2, <2>2 DEF Balanced
    <3>2. Refilled(r) <= tokens[b] + (now[r] - lastFill[b])
      BY <1>0, <1>1, Refill
    <3>3. count[c] * Cost \in Nat
      BY <1>5, Numbers
    <3>4. QED
      BY <1>5, <3>1, <3>2, <3>3, Numbers
  <2>3. QED
    BY <2>1, <2>2
<1>7. count'[c] * Cost + tokens'[b] <= Full + (lastFill'[b] - since) + Late
  <2>1. /\ count[c] * Cost \in Nat
        /\ (count[c] + 1) * Cost = count[c] * Cost + Cost
    BY <1>5, Numbers
  <2>2. count'[c] * Cost + tokens'[b] = count[c] * Cost + Refilled(r)
    <3>1. CASE tokens'[b] = Refilled(r) /\ count'[c] = count[c]
      BY <3>1
    <3>2. CASE tokens'[b] = Refilled(r) - Cost /\ count'[c] = count[c] + 1
      BY <1>5, <2>1, <3>2, Numbers
    <3>3. QED
      BY <1>4, <3>1, <3>2
  <2>3. QED
    BY <1>4, <1>6, <2>2
<1>8. \A d \in Client : Current(d)' <=> Current(d)
  BY <1>4 DEF Current
<1>9. QED
  BY <1>0, <1>2, <1>3, <1>4, <1>7, <1>8 DEF Balanced

LEMMA BalancedStep == IInv /\ [Next]_vars => Balanced'
<1> SUFFICES ASSUME IInv, [Next]_vars PROVE Balanced'
  OBVIOUS
<1>0. TypeOK /\ Mapped /\ Timely /\ Balanced /\ TokensKept
  BY DEF IInv
<1> USE DEF callVars, bucketVars, sweepVars, history
<1>1. ASSUME UNCHANGED <<buckets, condemned, count, tokens, lastFill, since>>,
             clock' = clock \/ clock' = clock + 1
      PROVE  Balanced'
  <2>1. \A d \in Client : Current(d)' <=> Current(d)
    BY <1>1 DEF Current
  <2>2. clock \in Nat /\ since \in Nat /\ \A d \in Client : count[d] * Cost \in Nat
    BY <1>0, Numbers DEF TypeOK
  <2>3. QED
    BY <1>0, <1>1, <2>1, <2>2 DEF Balanced
<1>2. ASSUME NEW r \in Request, LoadOrStore(r) PROVE Balanced'
  <2> DEFINE c == clientIP[r]
  <2>1. CASE buckets[c] # NoBucket
    BY <1>1, <1>2, <2>1 DEF LoadOrStore
  <2>2. CASE buckets[c] = NoBucket
    <3>1. /\ c \in Client /\ r \notin condemned
          /\ \A d \in Client : buckets[d] # r
          /\ now[r] \in Nat /\ clock <= now[r] + Late
      <4>1. c \in Client /\ stage[r] = "timed" /\ now[r] \in Nat
        BY <1>0, <1>2, ClientAssumption DEF LoadOrStore, TypeOK
      <4>2. r \notin condemned /\ \A d \in Client : buckets[d] # r
        BY <1>0, <4>1 DEF Mapped, Waiting
      <4>3. clock <= now[r] + Late
        BY <1>0, <4>1 DEF Timely, Waiting
      <4>4. QED
        BY <4>1, <4>2, <4>3
    <3>2. /\ buckets'[c] = r /\ tokens'[r] = Full /\ lastFill'[r] = now[r]
          /\ \A d \in Client \ {c} : buckets'[d] = buckets[d]
          /\ \A b \in Request \ {r} : tokens'[b] = tokens[b] /\ lastFill'[b] = lastFill[b]
          /\ UNCHANGED <<clock, since, condemned, count>>
      BY <1>0, <1>2, <2>2, <3>1 DEF LoadOrStore, TypeOK
    <3>3. count[c] * Cost <= clock - since
      BY <1>0, <2>2, <3>1 DEF Balanced, Current
    <3>4. count[c] * Cost + Full <= Full + (now[r] - since) + Late
      <4>1. count[c] * Cost \in Nat /\ clock \in Nat /\ since \in Nat
        BY <1>0, <3>1, Numbers DEF TypeOK
      <4>2. QED
        BY <3>1, <3>3, <4>1, Numbers
    <3>5. Current(c)' /\ \A d \in Client \ {c} : Current(d)' <=> Current(d)
      BY <3>1, <3>2, ClientAssumption DEF Current
    <3>6. \A d \in Client \ {c} : Current(d) => buckets[d] \in Request \ {r}
      BY <1>0, <3>1 DEF Current, TypeOK
    <3>7. QED
      BY <1>0, <3>2, <3>4, <3>5, <3>6 DEF Balanced
  <2>3. QED
    BY <2>1, <2>2
<1>3. ASSUME NEW r \in Request, Decide(r) PROVE Balanced'
  <2>1. CASE held[r] \notin condemned
    BY <1>3, <2>1, BalancedDecision
  <2>2. CASE held[r] \in condemned
    <3>1. held[r] \in Request
      BY <1>0, <1>3, Holds DEF Decide
    <3>2. /\ UNCHANGED <<clock, since, buckets, condemned, count>>
          /\ \A a \in Request \ {held[r]} : lastFill'[a] = lastFill[a]
                                            /\ tokens'[a] = tokens[a]
      BY <1>0, <1>3, <2>2, <3>1, Decision DEF TypeOK
    <3>3. \A d \in Client : Current(d) => buckets[d] \in Request \ {held[r]}
      BY <1>0, <2>2 DEF Current, TypeOK
    <3>4. \A d \in Client : Current(d)' <=> Current(d)
      BY <3>2 DEF Current
    <3>5. QED
      BY <1>0, <3>2, <3>3, <3>4 DEF Balanced
  <2>3. QED
    BY <2>1, <2>2
<1>4. CASE Delete
  <2>1. PICK c \in Client : c = doomed
    BY <1>0, <1>4 DEF Delete, TypeOK
  <2>2. /\ buckets' = [buckets EXCEPT ![c] = NoBucket]
        /\ UNCHANGED <<clock, since, condemned, count, tokens, lastFill>>
    BY <1>4, <2>1 DEF Delete
  <2>3. buckets[c] \in condemned
    BY <1>0, <2>1, ClientAssumption DEF Mapped
  <2>4. /\ buckets'[c] = NoBucket
        /\ \A d \in Client \ {c} : buckets'[d] = buckets[d]
    BY <1>0, <2>2 DEF TypeOK
  <2>5. ~Current(c) /\ ~Current(c)'
    BY <2>3, <2>4 DEF Current
  <2>6. \A d \in Client \ {c} : Current(d)' <=> Current(d)
    BY <2>2, <2>4 DEF Current
  <2>7. QED
    BY <1>0, <2>2, <2>4, <2>5, <2>6 DEF Balanced
<1>5. ASSUME NEW c \in Client, Visit(c) PROVE Balanced'
  <2> DEFINE b == buckets[c]
  <2>1. /\ doomed = NoClient /\ c \in todo
        /\ UNCHANGED <<clock, since, buckets, count, tokens, lastFill>>
        /\ \/ UNCHANGED condemned
           \/ Stale(b) /\ condemned' = condemned \cup {b}
    BY <1>5 DEF Visit
  <2>2. CASE UNCHANGED condemned
    BY <1>1, <2>1, <2>2
  <2>3. CASE Stale(b) /\ condemned' = condemned \cup {b}
    <3>1. b \in Request /\ b \notin condemned /\ clientIP[b] = c /\ Current(c)
      BY <1>0, <2>1, ClientAssumption DEF Mapped, TypeOK, Current
    <3>2. \A d \in Client \ {c} : Current(d)' <=> Current(d)
      BY <1>0, <2>1, <2>3, <3>1 DEF Mapped, Current
    <3>3. count[c] * Cost <= clock - since
      <4>1. /\ lastFill[b] < cutoff /\ cutoff <= clock - CleanupTL
            /\ tokens[b] >= -Late /\ since <= clock
        BY <1>0, <2>1, <2>3, <3>1 DEF Stale, Timely, TokensKept
      <4>2. /\ count[c] \in Nat /\ count[c] * Cost \in Nat
            /\ clock \in Nat /\ since \in Nat /\ cutoff \in Int
            /\ tokens[b] \in Int /\ lastFill[b] \in Nat
        BY <1>0, <3>1, Numbers DEF TypeOK
      <4>3. CASE count[c] = 0
        BY <4>1, <4>2, <4>3, Numbers
      <4>4. CASE count[c] # 0
        <5>1. count[c] * Cost + tokens[b] <= Full + (lastFill[b] - since) + Late
          BY <1>0, <3>1, <4>4 DEF Balanced
        <5>2. QED
          BY <4>1, <4>2, <5>1, Limits
      <4>5. QED
        BY <4>3, <4>4
    <3>4. ~Current(c)'
      BY <2>1, <2>3 DEF Current
    <3>5. QED
      BY <1>0, <2>1, <3>2, <3>3, <3>4 DEF Balanced
  <2>4. QED
    BY <2>1, <2>2, <2>3
<1>6. CASE Observe
  <2>1. /\ since' = clock /\ count' = [d \in Client |-> 0]
        /\ UNCHANGED <<clock, buckets, condemned, tokens, lastFill>>
    BY <1>6 DEF Observe
  <2>2. \A d \in Client : count'[d] = 0 /\ count'[d] * Cost <= clock' - since'
    BY <1>0, <2>1, Numbers DEF TypeOK
  <2>3. QED
    BY <2>2 DEF Balanced
<1>7. ASSUME NEW r \in Request, ReadTime(r) PROVE Balanced'
  BY <1>1, <1>7 DEF ReadTime
<1>8. CASE StartSweep \/ Tick \/ UNCHANGED vars
  BY <1>1, <1>8 DEF StartSweep, Tick, vars
<1>9. QED
  BY <1>2, <1>3, <1>4, <1>5, <1>6, <1>7, <1>8 DEF Next

LEMMA ExhaustedStep == IInv /\ [Next]_vars => Exhausted' /\ OneMoreBurst'
<1> SUFFICES ASSUME IInv, [Next]_vars PROVE Exhausted' /\ OneMoreBurst'
  OBVIOUS
<1>0. TypeOK /\ Mapped /\ Timely /\ Exhausted /\ OneMoreBurst
  BY DEF IInv
<1> USE DEF callVars, bucketVars, sweepVars, history
<1>1. ASSUME UNCHANGED <<condemned, foundAt, extra, tokens, lastFill>>
      PROVE  Exhausted' /\ OneMoreBurst'
  BY <1>0, <1>1 DEF Exhausted, OneMoreBurst
<1>2. ASSUME NEW r \in Request, LoadOrStore(r) PROVE Exhausted' /\ OneMoreBurst'
  <2>1. CASE buckets[clientIP[r]] # NoBucket
    BY <1>1, <1>2, <2>1 DEF LoadOrStore
  <2>2. CASE buckets[clientIP[r]] = NoBucket
    <3>1. r \notin condemned
      BY <1>0, <1>2 DEF LoadOrStore, Mapped, Waiting
    <3>2. /\ \A b \in Request \ {r} : tokens'[b] = tokens[b] /\ lastFill'[b] = lastFill[b]
          /\ UNCHANGED <<condemned, foundAt, extra>>
      BY <1>0, <1>2, <2>2 DEF LoadOrStore, TypeOK
    <3>3. QED
      BY <1>0, <3>1, <3>2 DEF Exhausted, OneMoreBurst
  <2>3. QED
    BY <2>1, <2>2
<1>3. ASSUME NEW r \in Request, Decide(r) PROVE Exhausted' /\ OneMoreBurst'
  <2> DEFINE b == held[r]
  <2>1. stage[r] = "held" /\ b \in Request
    BY <1>0, <1>3, Holds DEF Decide
  <2>2. /\ UNCHANGED <<condemned, foundAt>>
        /\ lastFill'[b] = now[r]
        /\ \A a \in Request \ {b} : /\ lastFill'[a] = lastFill[a]
                                    /\ tokens'[a] = tokens[a] /\ extra'[a] = extra[a]
        /\ \/ tokens'[b] = Refilled(r) /\ extra'[b] = extra[b]
           \/ /\ b \in condemned
              /\ tokens'[b] = Refilled(r) - Cost /\ Refilled(r) - Cost >= 0
              /\ extra'[b] = extra[b] + 1
           \/ /\ b \notin condemned /\ extra'[b] = extra[b]
    BY <1>0, <2>1, <1>3, Decision DEF TypeOK
  <2>3. CASE b \notin condemned
    BY <1>0, <2>2, <2>3 DEF Exhausted, OneMoreBurst
  <2>4. CASE b \in condemned
    <3>1. /\ extra[b] \in Nat /\ extra[b] * Cost \in Nat
          /\ (extra[b] + 1) * Cost = extra[b] * Cost + Cost
          /\ tokens[b] \in Int /\ lastFill[b] \in Nat /\ foundAt[b] \in Nat
          /\ now[r] \in Nat /\ clock \in Nat /\ Refilled(r) \in Int
      BY <1>0, <2>1, Refill, Numbers DEF TypeOK
    <3>2. now[r] <= foundAt[b] + Late /\ foundAt[b] <= now[r] + Late
      <4>1. foundAt[b] <= clock /\ clock <= now[r] + Late
        BY <1>0, <2>1 DEF Timely
      <4>2. QED
        BY <1>0, <2>1, <2>4, <3>1, <4>1, Numbers DEF Timely
    <3>3. extra[b] * Cost + Refilled(r) <= Full + (now[r] - foundAt[b]) + Late
      <4>1. CASE extra[b] = 0
        <5>1. Refilled(r) <= Full
          BY <1>0, <2>1, Refill
        <5>2. QED
          BY <3>1, <3>2, <4>1, <5>1, Numbers
      <4>2. CASE extra[b] # 0
        <5>1. extra[b] * Cost + tokens[b] <= Full + (lastFill[b] - foundAt[b]) + Late
          BY <1>0, <2>1, <4>2 DEF Exhausted
        <5>2. Refilled(r) <= tokens[b] + (now[r] - lastFill[b])
          BY <1>0, <2>1, Refill
        <5>3. QED
          BY <3>1, <5>1, <5>2, Numbers
      <4>3. QED
        BY <4>1, <4>2
    <3>4. CASE tokens'[b] = Refilled(r) /\ extra'[b] = extra[b]
      BY <1>0, <2>2, <2>4, <3>2, <3>3, <3>4 DEF Exhausted, OneMoreBurst
    <3>5. CASE /\ tokens'[b] = Refilled(r) - Cost /\ Refilled(r) - Cost >= 0
               /\ extra'[b] = extra[b] + 1
      <4>1. extra'[b] * Cost = extra[b] * Cost + Cost
        BY <3>1, <3>5
      <4>2. extra'[b] * Cost + tokens'[b] <= Full + (now[r] - foundAt[b]) + Late
        BY <3>1, <3>3, <3>5, <4>1, Limits
      <4>3. extra'[b] * Cost <= Full + 2 * Late
        BY <3>1, <3>2, <3>5, <4>1, <4>2, Limits
      <4>4. QED
        BY <1>0, <2>2, <2>4, <3>2, <4>2, <4>3 DEF Exhausted, OneMoreBurst
    <3>6. QED
      BY <2>2, <2>4, <3>4, <3>5
  <2>5. QED
    BY <2>3, <2>4
<1>4. ASSUME NEW c \in Client, Visit(c) PROVE Exhausted' /\ OneMoreBurst'
  <2> DEFINE b == buckets[c]
  <2>1. /\ doomed = NoClient /\ c \in todo
        /\ UNCHANGED <<tokens, lastFill, extra>>
        /\ \/ UNCHANGED <<condemned, foundAt>>
           \/ /\ condemned' = condemned \cup {b}
              /\ foundAt' = [foundAt EXCEPT ![b] = clock]
    BY <1>4 DEF Visit
  <2>2. CASE UNCHANGED <<condemned, foundAt>>
    BY <1>1, <2>1, <2>2
  <2>3. CASE /\ condemned' = condemned \cup {b}
             /\ foundAt' = [foundAt EXCEPT ![b] = clock]
    <3>1. b \in Request /\ b \notin condemned
      BY <1>0, <2>1, ClientAssumption DEF Mapped, TypeOK
    <3>2. extra[b] = 0 /\ lastFill[b] <= clock + Late
      <4>1. lastFill[b] <= clock /\ lastFill[b] \in Nat /\ clock \in Nat
        BY <1>0, <3>1 DEF Timely, TypeOK
      <4>2. QED
        BY <1>0, <3>1, <4>1, Numbers DEF Exhausted
    <3>3. foundAt'[b] = clock /\ \A a \in Request \ {b} : foundAt'[a] = foundAt[a]
      BY <1>0, <2>3, <3>1 DEF TypeOK
    <3>4. Exhausted'
      BY <1>0, <2>1, <2>3, <3>1, <3>2, <3>3 DEF Exhausted
    <3>5. OneMoreBurst'
      BY <1>0, <2>1 DEF OneMoreBurst
    <3>6. QED
      BY <3>4, <3>5
  <2>4. QED
    BY <2>1, <2>2, <2>3
<1>5. ASSUME NEW r \in Request, ReadTime(r) PROVE Exhausted' /\ OneMoreBurst'
  BY <1>1, <1>5 DEF ReadTime
<1>6. CASE StartSweep \/ Delete \/ Tick \/ Observe \/ UNCHANGED vars
  BY <1>1, <1>6 DEF StartSweep, Delete, Tick, Observe, vars
<1>7. QED
  BY <1>2, <1>3, <1>4, <1>5, <1>6 DEF Next

-----------------------------------------------------------------------------
(* Theorems.                                                                *)

LEMMA Initial == Init => IInv
<1> SUFFICES ASSUME Init PROVE IInv
  OBVIOUS
<1>1. TypeOK
  BY TypeInit
<1>2. Mapped /\ Timely
  BY ClientAssumption, Numbers DEF Init, Mapped, Timely, Waiting
<1>3. TokensKept
  BY Numbers DEF Init, TokensKept
<1>4. Balanced
  BY Numbers DEF Init, Balanced, Current
<1>5. Exhausted /\ OneMoreBurst
  BY Numbers DEF Init, Exhausted, OneMoreBurst
<1>6. QED
  BY <1>1, <1>2, <1>3, <1>4, <1>5 DEF IInv

LEMMA Invariant == Spec => []IInv
<1>1. IInv /\ [Next]_vars => IInv'
  BY TypeStep, MappedStep, TimelyStep, TokensStep, BalancedStep, ExhaustedStep DEF IInv
<1>2. QED
  BY Initial, <1>1, PTL DEF Spec

\* Every variable always has its type; no bucket holds more than a burst.
THEOREM TypeCorrect == Spec => []TypeOK
<1>1. IInv => TypeOK
  BY DEF IInv
<1>2. QED
  BY Invariant, <1>1, PTL

\* Over any interval no client is granted more than its burst and its rate, up to
\* the lateness of requests, and up to what removed buckets grant.
THEOREM WithinRateCorrect == Spec => []WithinRate
<1>1. IInv => WithinRate
  <2> SUFFICES ASSUME IInv, NEW c \in Client
               PROVE  count[c] * Cost <= Full + (clock - since) + Late
    BY DEF WithinRate
  <2>1. /\ count[c] \in Nat /\ count[c] * Cost \in Nat
        /\ clock \in Nat /\ since \in Nat /\ since <= clock
    BY Numbers DEF IInv, TypeOK, Timely
  <2>2. CASE count[c] = 0
    BY <2>1, <2>2, Numbers
  <2>3. CASE ~Current(c)
    BY <2>1, <2>3, Numbers DEF IInv, Balanced
  <2>4. CASE Current(c) /\ count[c] # 0
    <3>1. buckets[c] \in Request
      BY <2>4 DEF IInv, TypeOK, Current
    <3>2. /\ count[c] * Cost + tokens[buckets[c]] <=
                Full + (lastFill[buckets[c]] - since) + Late
          /\ tokens[buckets[c]] >= lastFill[buckets[c]] - clock
          /\ tokens[buckets[c]] \in Int /\ lastFill[buckets[c]] \in Nat
      BY <2>4, <3>1 DEF IInv, TypeOK, Balanced, TokensKept
    <3>3. QED
      BY <2>1, <3>2, Numbers
  <2>5. QED
    BY <2>2, <2>3, <2>4
<1>2. QED
  BY Invariant, <1>1, PTL

\* What the race between a request and the removal of its bucket can grant is
\* bounded by one burst.
THEOREM OneMoreBurstCorrect == Spec => []OneMoreBurst
<1>1. IInv => OneMoreBurst
  BY DEF IInv
<1>2. QED
  BY Invariant, <1>1, PTL

\* Requests that overtake each other cost their client nothing for good.
THEOREM TokensKeptCorrect == Spec => []TokensKept
<1>1. IInv => TokensKept
  BY DEF IInv
<1>2. QED
  BY Invariant, <1>1, PTL
=============================================================================
