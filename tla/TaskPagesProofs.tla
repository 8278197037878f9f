--------------------------- MODULE TaskPagesProofs ---------------------------
(***************************************************************************)
(* Reading the list page after page, for any tasks, limits and widths.     *)
(***************************************************************************)
EXTENDS TaskPages, FiniteSetTheorems, TLAPS

-----------------------------------------------------------------------------
(* The query.                                                               *)

\* What fits is left alone, and what does not becomes some other number.
LEMMA Wrapping ==
    ASSUME NEW x \in Int, NEW max \in Nat
    PROVE  /\ Wrapped(x, max) \in Int
           /\ x \in -(max + 1) .. max => Wrapped(x, max) = x
<1>1. CASE x \in -(max + 1) .. max
  BY <1>1 DEF Wrapped
<1>2. CASE x \notin -(max + 1) .. max
  <2> DEFINE y == x + max + 1
             m == 2 * (max + 1)
  <2>1. y \in Int /\ m \in Nat \ {0}
    OBVIOUS
  <2> HIDE DEF y, m
  <2>2. y % m \in Int
    BY <2>1
  <2>3. Wrapped(x, max) = (y % m) - (max + 1)
    BY <1>2 DEF Wrapped, y, m
  <2>4. QED
    BY <1>2, <2>2, <2>3
<1>3. QED
  BY <1>1, <1>2

\* A query that is not refused has a good limit.
LEMMA GoodLimit ==
    ASSUME TypeOK, NEW page, NEW from, parseListQuery(page, from) # Refused
    PROVE  /\ limit \in {Missing} \cup 1 .. MaxListLimit
           /\ Limit \in 1 .. MaxListLimit
<1>1. limit # Missing => limit \in 1 .. MaxListLimit
  BY DEF parseListQuery
<1>2. QED
  BY <1>1, LimitAssumption DEF Limit

\* The offset of a page whose number is not absurd.
LEMMA Product ==
    ASSUME NEW n \in Nat \ {0}, NEW l \in Nat
    PROVE  /\ (n - 1) * l \in Nat
           /\ (n + 1 - 1) * l = (n - 1) * l + l
OBVIOUS

\* What is asked of the database: a good limit and offset, exactly the rows that
\* follow the pages before it unless their number is beyond 64 bits.
LEMMA Asked ==
    ASSUME TypeOK,
           \/ ListPage /\ stage' # "refused"
           \/ ListOffset /\ stage' # "refused"
    PROVE  \E q : /\ Serve(q)
                  /\ q.limit = Limit /\ q.offset \in 0 .. MaxListOffset
                  /\ limit \in {Missing} \cup 1 .. MaxListLimit
                  /\ Limit \in 1 .. MaxListLimit
                  /\ Skipped <= MaxInt64 => q.offset = Skipped
<1> DEFINE from == (next - 1) * Limit
           raw  == IF limit = Malformed THEN 0
                   ELSE IF from <= MaxInt32 THEN from ELSE Malformed
<1>2. CASE ListPage /\ stage' # "refused"
  <2> DEFINE p == parseListQuery(next, Missing)
  <2>1. p # Refused /\ Serve(Clamped(p))
    BY <1>2 DEF ListPage, List, Refuse
  <2>2. limit \in {Missing} \cup 1 .. MaxListLimit /\ Limit \in 1 .. MaxListLimit
    BY <2>1, GoodLimit
  <2>3. next # Missing
    BY ParameterAssumption DEF TypeOK
  <2>4. /\ PageOffset(next) <= MaxListOffset
        /\ p = [limit |-> Limit, offset |-> Wrapped(PageOffset(next), MaxInt32)]
    BY <2>1, <2>3 DEF parseListQuery
  <2>5. Skipped \in Nat
    BY <2>2, Product, LimitAssumption DEF TypeOK, Skipped
  <2>6. PageOffset(next) = Wrapped(Skipped, MaxInt64)
    BY DEF PageOffset, Skipped
  <2>7. PageOffset(next) \in Int /\ Wrapped(PageOffset(next), MaxInt32) \in Int
    BY <2>5, <2>6, Wrapping, LimitAssumption
  <2>8. /\ Clamped(p).limit = Limit
        /\ Clamped(p).offset \in 0 .. MaxListOffset
        /\ p.offset \in 0 .. MaxListOffset => Clamped(p).offset = p.offset
    BY <2>2, <2>4, <2>7, LimitAssumption DEF Clamped
  <2>9. ASSUME Skipped <= MaxInt64 PROVE Clamped(p).offset = Skipped
    <3>1. PageOffset(next) = Skipped
      BY <2>5, <2>6, <2>9, Wrapping, LimitAssumption
    <3>2. Skipped \in 0 .. MaxListOffset /\ MaxListOffset <= MaxInt32
      BY <2>4, <2>5, <3>1, LimitAssumption
    <3>3. Wrapped(PageOffset(next), MaxInt32) = Skipped
      BY <3>1, <3>2, Wrapping, LimitAssumption
    <3>4. QED
      BY <2>4, <2>8, <3>2, <3>3
  <2>10. QED
    BY <2>1, <2>2, <2>8, <2>9
<1>3. CASE ListOffset /\ stage' # "refused"
  <2> DEFINE p == parseListQuery(Missing, raw)
  <2>1. p # Refused /\ Serve(Clamped(p))
    BY <1>3 DEF ListOffset, List, Refuse
  <2>2. limit \in {Missing} \cup 1 .. MaxListLimit /\ Limit \in 1 .. MaxListLimit
    <3> HIDE DEF raw
    <3>1. QED
      BY <2>1, GoodLimit
  <2>3. Skipped \in Nat /\ from = Skipped
    BY <2>2, Product, LimitAssumption DEF TypeOK, Skipped
  <2>4. limit # Malformed
    BY <2>2, ParameterAssumption, LimitAssumption
  <2>5. raw = IF Skipped <= MaxInt32 THEN Skipped ELSE Malformed
    BY <2>3, <2>4
  <2>6. raw # Missing
    BY <2>3, <2>5, ParameterAssumption
  <2> HIDE DEF raw
  <2>7. /\ raw \in 0 .. MaxListOffset /\ raw # Malformed
        /\ p = [limit |-> Limit, offset |-> raw]
    BY <2>1, <2>6 DEF parseListQuery, Parsed
  <2>8. raw = Skipped
    BY <2>5, <2>7
  <2>9. Clamped(p).limit = Limit /\ Clamped(p).offset = Skipped
    BY <2>2, <2>7, <2>8, LimitAssumption DEF Clamped
  <2>10. QED
    BY <2>1, <2>2, <2>7, <2>8, <2>9
<1>4. QED
  BY <1>2, <1>3

\* From page 1 on the pages are never that far.
LEMMA ExactAsked ==
    ASSUME TypeOK, Exact, first = 1, Limit \in 1 .. MaxListLimit
    PROVE  Skipped <= MaxInt64
<1>1. CASE next > 1
  <2>1. Skipped <= MaxListOffset + MaxListLimit
    BY <1>1 DEF Exact
  <2>2. Skipped \in Nat
    BY Product, LimitAssumption DEF TypeOK, Skipped
  <2>3. QED
    BY <2>1, <2>2, LimitAssumption
<1>2. CASE next = 1
  <2>1. Skipped = 0
    BY <1>2, LimitAssumption DEF Skipped
  <2>2. QED
    BY <2>1, LimitAssumption
<1>3. QED
  BY <1>1, <1>2 DEF TypeOK

-----------------------------------------------------------------------------
(* Positions.                                                               *)

\* Where the order is one, of two rows one precedes.
LEMMA Total ==
    ASSUME TypeOK, Sorted, NEW r \in Listed, NEW s \in Listed, r # s
    PROVE  Precedes(r, s) \/ Precedes(s, r)
<1>1. /\ r.at \in Int /\ s.at \in Int /\ r.id \in Int /\ s.id \in Int
      /\ r.id # s.id
  <2>1. r \in rows /\ s \in rows
    BY DEF Listed
  <2>2. rows \subseteq [id: Id, at: Time, in: BOOLEAN]
    BY DEF TypeOK
  <2>3. \A x \in rows : x.id \in Int /\ x.at \in Int
    <3>1. \A x \in rows : x.id \in Id /\ x.at \in Time
      BY <2>2
    <3>2. Id \subseteq Int /\ Time \subseteq Int
      BY TimeAssumption DEF Id
    <3>3. QED
      BY <3>1, <3>2
  <2>4. r.id # s.id
    BY <2>1 DEF TypeOK
  <2>5. QED
    BY <2>1, <2>3, <2>4
<1>2. \/ r.at > s.at \/ s.at > r.at
      \/ r.at = s.at /\ (r.id > s.id \/ s.id > r.id)
  BY <1>1
<1>3. QED
  BY <1>1, <1>2 DEF Precedes, Sorted

\* The list and what comes before a row of it are finite.
LEMMA FiniteList ==
    ASSUME IsFiniteSet(rows)
    PROVE  /\ IsFiniteSet(Listed) /\ Cardinality(Listed) \in Nat
           /\ \A r : IsFiniteSet(Before(r)) /\ Rank(r) \in Nat
<1>1. IsFiniteSet(Listed)
  BY FS_Subset DEF Listed
<1>2. \A r : Before(r) \in SUBSET Listed
  BY DEF Before
<1>3. \A r : IsFiniteSet(Before(r))
  BY <1>1, <1>2, FS_Subset
<1>4. QED
  BY <1>1, <1>3, FS_CardinalityType DEF Rank

\* Every position is taken, and the database has no choice.
LEMMA PositionIsRank ==
    ASSUME TypeOK, IsFiniteSet(rows), Sorted, NEW pos \in Orders,
           NEW r \in Listed
    PROVE  /\ pos[r] \in Nat
           /\ pos[r] = Rank(r)
           /\ \A k \in 0 .. pos[r] : \E s \in Listed : pos[s] = k
<1> DEFINE n == Cardinality(Listed)
           f == [s \in Before(r) |-> pos[s]]
           T == 0 .. pos[r] - 1
<1>1. n \in Nat /\ IsFiniteSet(Before(r))
  BY FiniteList
<1>2. /\ pos \in [Listed -> 0 .. n - 1]
      /\ \A s, t \in Listed : /\ pos[s] = pos[t] => s = t
                              /\ Precedes(s, t) => pos[s] < pos[t]
  BY DEF Orders
<1> HIDE DEF n
<1>3. \A k \in 0 .. n - 1 : \E s \in Listed : pos[s] = k
  <2>1. IsFiniteSet(0 .. n - 1) /\ Cardinality(0 .. n - 1) = n
    BY <1>1, FS_Interval
  <2>2. pos \in Injection(Listed, 0 .. n - 1)
    BY <1>2 DEF Injection, IsInjective
  <2>3. pos \in Surjection(Listed, 0 .. n - 1)
    BY <2>1, <2>2, FS_Injection DEF n
  <2>4. QED
    BY <2>3 DEF Surjection
<1>4. pos[r] \in 0 .. n - 1
  BY <1>2
<1>5. \A k \in 0 .. pos[r] : \E s \in Listed : pos[s] = k
  BY <1>1, <1>3, <1>4
<1>6. f \in Bijection(Before(r), T)
  <2>1. ASSUME NEW s \in Before(r) PROVE s \in Listed /\ pos[s] \in T
    <3>1. s \in Listed /\ Precedes(s, r)
      BY DEF Before
    <3>2. pos[s] < pos[r] /\ pos[s] \in 0 .. n - 1
      BY <1>2, <3>1
    <3>3. QED
      BY <1>1, <1>4, <3>1, <3>2
  <2>2. ASSUME NEW k \in T PROVE \E s \in Before(r) : f[s] = k
    <3>1. PICK s \in Listed : pos[s] = k
      BY <1>1, <1>4, <1>5
    <3>2. s # r /\ ~(pos[r] < pos[s])
      BY <1>1, <1>4, <3>1
    <3>3. Precedes(s, r)
      BY <1>2, <3>2, Total
    <3>4. s \in Before(r)
      BY <3>3 DEF Before
    <3>5. QED
      BY <3>1, <3>4
  <2> HIDE DEF T
  <2>3. f \in [Before(r) -> T]
    BY <2>1
  <2>4. \A s, t \in Before(r) : f[s] = f[t] => s = t
    BY <1>2, <2>1
  <2>5. QED
    BY <2>2, <2>3, <2>4 DEF Bijection, Injection, Surjection, IsInjective
<1>7. Cardinality(T) = Rank(r)
  BY <1>1, <1>6, FS_Bijection DEF ExistsBijection, Rank
<1>8. Cardinality(T) = pos[r]
  <2> DEFINE b == pos[r] - 1
  <2>1. pos[r] \in Nat /\ b \in Int /\ 0 \in Int
    BY <1>1, <1>4
  <2>2. (IF 0 > b THEN 0 ELSE b - 0 + 1) = pos[r]
    BY <2>1
  <2> HIDE DEF b
  <2>3. Cardinality(0 .. b) = IF 0 > b THEN 0 ELSE b - 0 + 1
    BY <2>1, FS_Interval
  <2>4. QED
    BY <2>2, <2>3 DEF b
<1>9. pos[r] = Rank(r)
  BY ONLY <1>7, <1>8, Zenon
<1>10. pos[r] \in Nat
  BY <1>1, <1>4
<1>11. QED
  BY <1>5, <1>9, <1>10, Zenon

\* A page that a row of the list comes after is full.
LEMMA FullPage ==
    ASSUME TypeOK, IsFiniteSet(rows), Sorted, NEW pos \in Orders,
           NEW r \in Listed, NEW q, q.offset \in Nat, q.limit \in Nat,
           pos[r] >= q.offset + q.limit
    PROVE  Cardinality(Page(pos, q)) = q.limit
<1> DEFINE P == Page(pos, q)
           a == q.offset
           b == q.offset + q.limit - 1
           f == [s \in P |-> pos[s]]
<1>1. /\ pos[r] \in Nat
      /\ \A k \in 0 .. pos[r] : \E s \in Listed : pos[s] = k
  BY PositionIsRank
<1>2. \A s, t \in Listed : pos[s] = pos[t] => s = t
  BY DEF Orders
<1>3. P = {s \in Listed : pos[s] \in a .. b}
  BY DEF Page
<1> HIDE DEF P
<1>4. f \in Bijection(P, a .. b)
  <2>1. f \in [P -> a .. b]
    BY <1>3
  <2>2. \A s, t \in P : f[s] = f[t] => s = t
    BY <1>2, <1>3
  <2>3. ASSUME NEW k \in a .. b PROVE \E s \in P : f[s] = k
    <3>1. k \in 0 .. pos[r]
      BY <1>1
    <3>2. PICK s \in Listed : pos[s] = k
      BY <1>1, <3>1
    <3>3. QED
      BY <1>3, <3>2
  <2> HIDE DEF f
  <2>4. f \in [P -> a .. b] /\ DOMAIN f = P
    BY <2>1
  <2>5. QED
    BY <2>2, <2>3, <2>4 DEF Bijection, Injection, Surjection, IsInjective
<1>5. IsFiniteSet(P)
  <2>1. P \in SUBSET Listed
    BY <1>3
  <2>2. QED
    BY <2>1, FiniteList, FS_Subset
<1>6. Cardinality(a .. b) = Cardinality(P)
  BY <1>4, <1>5, FS_Bijection DEF ExistsBijection
<1>7. Cardinality(a .. b) = q.limit
  <2>1. a \in Int /\ b \in Int
    OBVIOUS
  <2>2. (IF a > b THEN 0 ELSE b - a + 1) = q.limit
    OBVIOUS
  <2> HIDE DEF a, b
  <2>3. Cardinality(a .. b) = IF a > b THEN 0 ELSE b - a + 1
    BY <2>1, FS_Interval
  <2>4. QED
    BY <2>2, <2>3
<1>8. QED
  BY <1>6, <1>7 DEF P

-----------------------------------------------------------------------------
(* The steps.                                                               *)

\* A query either is refused, which only ends the reading, or reads a page.
LEMMA Reads ==
    ASSUME TypeOK, Exact, ListPage \/ ListOffset
    PROVE  /\ UNCHANGED <<rows, nextId, filter, limit, first>>
           /\ stage = "reading"
           /\ \/ Refuse
              \/ \E q : /\ Serve(q)
                        /\ q.limit = Limit /\ q.offset \in 0 .. MaxListOffset
                        /\ limit \in {Missing} \cup 1 .. MaxListLimit
                        /\ Limit \in 1 .. MaxListLimit
                        /\ first = 1 => q.offset = Skipped
<1>1. UNCHANGED <<rows, nextId, filter, limit, first>> /\ stage = "reading"
  BY DEF ListPage, ListOffset, List, query
<1>2. CASE stage' = "refused"
  <2>1. ASSUME NEW q, Serve(q) PROVE FALSE
    BY <1>2, <2>1 DEF Serve
  <2>2. Refuse
    BY <2>1 DEF ListPage, ListOffset, List
  <2>3. QED
    BY <1>1, <2>2
<1>3. CASE stage' # "refused"
  BY <1>1, <1>3, Asked, ExactAsked
<1>4. QED
  BY <1>2, <1>3

\* A task that is created, changed or deleted: the list gets longer only when
\* one joins, and shorter only when one leaves.
LEMMA Changes ==
    ASSUME TypeOK, IsFiniteSet(rows),
           \/ \E at \in Time, in \in BOOLEAN : Create(at, in)
           \/ \E r \in rows : \/ \E in \in BOOLEAN : Update(r, in)
                              \/ Delete(r)
    PROVE  /\ UNCHANGED <<query, walk>>
           /\ IsFiniteSet(rows')
           /\ nextId' \in nextId .. MaxId + 1
           /\ left' \in BOOLEAN /\ joined' \in BOOLEAN
           /\ left => left'
           /\ joined => joined'
           /\ left' \/ Listed \subseteq Listed'
           /\ joined' \/ Listed' \subseteq Listed
           /\ rows' \subseteq [id: Id, at: Time, in: BOOLEAN]
           /\ \A r, s \in rows' : r.id = s.id => r = s
           /\ \A r \in rows' : r.id < nextId'
<1>1. /\ rows \subseteq [id: Id, at: Time, in: BOOLEAN]
      /\ \A r, s \in rows : r.id = s.id => r = s
      /\ nextId \in 1 .. MaxId + 1
      /\ \A r \in rows : r.id < nextId /\ r.id \in Int
      /\ left \in BOOLEAN /\ joined \in BOOLEAN
  BY DEF TypeOK, Id
<1>2. ASSUME NEW at \in Time, NEW in \in BOOLEAN, Create(at, in)
      PROVE  /\ UNCHANGED <<query, walk>>
             /\ IsFiniteSet(rows')
             /\ nextId' \in nextId .. MaxId + 1
             /\ left' = left /\ joined' \in BOOLEAN
             /\ joined => joined'
             /\ Listed \subseteq Listed'
             /\ joined' \/ Listed' \subseteq Listed
             /\ rows' \subseteq [id: Id, at: Time, in: BOOLEAN]
             /\ \A r, s \in rows' : r.id = s.id => r = s
             /\ \A r \in rows' : r.id < nextId'
  <2> DEFINE t == [id |-> nextId, at |-> at, in |-> in]
  <2>1. /\ rows' = rows \cup {t} /\ nextId' = nextId + 1 /\ nextId <= MaxId
        /\ UNCHANGED <<query, walk, left>>
        /\ joined' = (joined \/ in)
    BY <1>2 DEF Create
  <2>2. t \in [id: Id, at: Time, in: BOOLEAN] /\ t.id = nextId /\ t.in = in
    BY <1>1, <2>1, IdAssumption DEF Id
  <2> HIDE DEF t
  <2>3. IsFiniteSet(rows')
    BY <2>1, FS_AddElement
  <2>4. nextId' \in nextId .. MaxId + 1
    BY <1>1, <2>1, IdAssumption
  <2>5. /\ \A r, s \in rows' : r.id = s.id => r = s
        /\ \A r \in rows' : r.id < nextId'
    BY <1>1, <2>1, <2>2
  <2>6. Listed \subseteq Listed'
    BY <2>1 DEF Listed
  <2>7. in \/ Listed' \subseteq Listed
    BY <2>1, <2>2 DEF Listed
  <2>8. joined' \in BOOLEAN /\ (joined => joined') /\ (in => joined')
    BY <1>1, <2>1
  <2>9. rows' \subseteq [id: Id, at: Time, in: BOOLEAN]
    BY <1>1, <2>1, <2>2
  <2>10. QED
    BY <2>1, <2>3, <2>4, <2>5, <2>6, <2>7, <2>8, <2>9
<1>3. ASSUME NEW r \in rows, NEW in \in BOOLEAN, Update(r, in)
      PROVE  /\ UNCHANGED <<query, walk, nextId>>
             /\ IsFiniteSet(rows')
             /\ left' \in BOOLEAN /\ joined' \in BOOLEAN
             /\ (left => left') /\ (joined => joined')
             /\ left' \/ Listed \subseteq Listed'
             /\ joined' \/ Listed' \subseteq Listed
             /\ rows' \subseteq [id: Id, at: Time, in: BOOLEAN]
             /\ \A s, t \in rows' : s.id = t.id => s = t
             /\ \A s \in rows' : s.id < nextId
  <2> DEFINE u == [id |-> r.id, at |-> r.at, in |-> in]
  <2>1. /\ rows' = (rows \ {r}) \cup {u}
        /\ UNCHANGED <<query, walk, nextId>>
        /\ joined' = (joined \/ (in /\ ~r.in))
        /\ left' = (left \/ (r.in /\ ~in))
    BY <1>3 DEF Update
  <2>2. r.in \in BOOLEAN /\ r \in [id: Id, at: Time, in: BOOLEAN]
    BY <1>1
  <2>3. /\ u \in [id: Id, at: Time, in: BOOLEAN]
        /\ u.id = r.id /\ u.in = in
        /\ in = r.in => u = r
    BY <2>2
  <2> HIDE DEF u
  <2>4. IsFiniteSet(rows')
    BY <2>1, FS_AddElement, FS_RemoveElement
  <2>5. /\ rows' \subseteq [id: Id, at: Time, in: BOOLEAN]
        /\ \A s, t \in rows' : s.id = t.id => s = t
        /\ \A s \in rows' : s.id < nextId
    BY <1>1, <2>1, <2>3
  <2>6. (r.in /\ ~in) \/ Listed \subseteq Listed'
    <3>1. CASE r.in
      BY <2>1, <2>2, <2>3, <3>1 DEF Listed
    <3>2. CASE ~r.in
      BY <2>1, <2>2, <2>3, <3>2 DEF Listed
    <3>3. QED
      BY <3>1, <3>2
  <2>7. (in /\ ~r.in) \/ Listed' \subseteq Listed
    <3>1. CASE in
      BY <2>1, <2>2, <2>3, <3>1 DEF Listed
    <3>2. CASE ~in
      BY <2>1, <2>2, <2>3, <3>2 DEF Listed
    <3>3. QED
      BY <3>1, <3>2
  <2>8. /\ left' \in BOOLEAN /\ joined' \in BOOLEAN
        /\ (left => left') /\ (joined => joined')
        /\ (r.in /\ ~in => left') /\ (in /\ ~r.in => joined')
    BY <1>1, <2>1
  <2>9. QED
    BY <2>1, <2>4, <2>5, <2>6, <2>7, <2>8
<1>4. ASSUME NEW r \in rows, Delete(r)
      PROVE  /\ UNCHANGED <<query, walk, nextId, joined>>
             /\ IsFiniteSet(rows')
             /\ left' \in BOOLEAN /\ (left => left')
             /\ left' \/ Listed \subseteq Listed'
             /\ Listed' \subseteq Listed
             /\ rows' \subseteq rows
  <2>1. /\ rows' = rows \ {r} /\ UNCHANGED <<query, walk, nextId, joined>>
        /\ left' = (left \/ r.in)
    BY <1>4 DEF Delete
  <2>2. IsFiniteSet(rows')
    BY <2>1, FS_RemoveElement
  <2>3. r.in \in BOOLEAN
    BY <1>1
  <2>4. r.in \/ Listed \subseteq Listed'
    BY <2>1 DEF Listed
  <2>5. left' \in BOOLEAN /\ (left => left') /\ (r.in => left')
    BY <1>1, <2>1, <2>3
  <2>6. Listed' \subseteq Listed /\ rows' \subseteq rows
    BY <2>1 DEF Listed
  <2>7. QED
    BY <2>1, <2>2, <2>4, <2>5, <2>6
<1>5. nextId \in nextId .. MaxId + 1
  BY <1>1
<1>6. CASE \E at \in Time, in \in BOOLEAN : Create(at, in)
  BY <1>1, <1>2, <1>6
<1>7. CASE \E r \in rows : \E in \in BOOLEAN : Update(r, in)
  BY <1>1, <1>3, <1>5, <1>7
<1>8. CASE \E r \in rows : Delete(r)
  <2>1. PICK r \in rows : Delete(r)
    BY <1>8
  <2>2. /\ UNCHANGED <<query, walk, nextId, joined>>
        /\ IsFiniteSet(rows')
        /\ left' \in BOOLEAN /\ (left => left')
        /\ left' \/ Listed \subseteq Listed'
        /\ Listed' \subseteq Listed
        /\ rows' \subseteq rows
    BY <1>4, <2>1
  <2>3. joined' \in BOOLEAN /\ (joined => joined')
    BY <1>1, <2>2
  <2>4. QED
    BY <1>1, <1>5, <2>2, <2>3
<1>9. QED
  BY <1>6, <1>7, <1>8

\* Every action keeps the types.
LEMMA TypeStep ==
    ASSUME TypeOK, IsFiniteSet(rows), Exact, [Next]_vars
    PROVE  TypeOK'
<1>1. CASE ListPage \/ ListOffset
  <2>1. UNCHANGED <<rows, nextId, filter, limit, first>>
    BY <1>1, Reads
  <2>2. CASE Refuse
    BY <2>1, <2>2 DEF Refuse, TypeOK
  <2>3. ASSUME NEW q, Serve(q), q.offset \in 0 .. MaxListOffset
        PROVE  TypeOK'
    <3>1. PICK pos \in Orders :
            LET ids == {r.id : r \in Page(pos, q)}
            IN  /\ shown' = [i \in Id |-> shown[i] + IF i \in ids THEN 1 ELSE 0]
                /\ stage' = IF Cardinality(Page(pos, q)) < q.limit
                            THEN "ended" ELSE "reading"
      BY <2>3 DEF Serve
    <3>2. \A r \in Listed : r.id \in 1 .. nextId - 1
      BY DEF Listed, TypeOK, Id
    <3>3. \A i \in {r.id : r \in Page(pos, q)} : i \in 1 .. nextId - 1
      BY <3>2 DEF Page
    <3>4. /\ shown' \in [Id -> Nat]
          /\ \A i \in Id : i >= nextId => shown'[i] = 0
      <4> DEFINE ids == {r.id : r \in Page(pos, q)}
      <4>1. \A i \in ids : i < nextId
        BY <3>3 DEF TypeOK
      <4>2. shown' = [i \in Id |-> shown[i] + IF i \in ids THEN 1 ELSE 0]
        BY <3>1
      <4> HIDE DEF ids
      <4>3. nextId \in Nat /\ \A i \in Id : i \in Nat
        BY DEF TypeOK, Id
      <4>4. QED
        BY <4>1, <4>2, <4>3 DEF TypeOK
    <3>5. start' \subseteq 1 .. nextId - 1 /\ left' \in BOOLEAN /\ joined' \in BOOLEAN
      <4>1. \/ /\ start' = {r.id : r \in Listed}
               /\ left' = FALSE /\ joined' = FALSE
            \/ UNCHANGED <<start, left, joined>>
        BY <2>3 DEF Serve
      <4>2. {r.id : r \in Listed} \subseteq 1 .. nextId - 1
        BY <3>2
      <4>3. start \subseteq 1 .. nextId - 1 /\ left \in BOOLEAN /\ joined \in BOOLEAN
        BY DEF TypeOK
      <4>4. QED
        BY <4>1, <4>2, <4>3
    <3>6. /\ next' \in Nat \ {0} /\ offset' \in 0 .. MaxListOffset
          /\ stage' \in {"reading", "ended", "refused"}
      BY <2>3, <3>1 DEF Serve, TypeOK
    <3>7. QED
      BY <2>1, <3>4, <3>5, <3>6 DEF TypeOK
  <2>4. QED
    BY <1>1, <2>2, <2>3, Reads
<1>2. CASE \/ \E at \in Time, in \in BOOLEAN : Create(at, in)
           \/ \E r \in rows : \/ \E in \in BOOLEAN : Update(r, in)
                              \/ Delete(r)
  <2>1. /\ UNCHANGED <<query, walk>>
        /\ nextId' \in nextId .. MaxId + 1
        /\ left' \in BOOLEAN /\ joined' \in BOOLEAN
        /\ rows' \subseteq [id: Id, at: Time, in: BOOLEAN]
        /\ \A r, s \in rows' : r.id = s.id => r = s
        /\ \A r \in rows' : r.id < nextId'
    BY <1>2, Changes
  <2>2. /\ nextId \in 1 .. MaxId + 1 /\ nextId' \in Int /\ nextId <= nextId'
        /\ nextId' <= MaxId + 1
    <3>1. nextId \in 1 .. MaxId + 1
      BY DEF TypeOK
    <3>2. nextId' \in nextId .. MaxId + 1
      BY <2>1
    <3>3. QED
      BY <3>1, <3>2, IdAssumption
  <2>3. nextId' \in 1 .. MaxId + 1 /\ start \subseteq 1 .. nextId' - 1
    <3>1. nextId' \in 1 .. MaxId + 1
      BY <2>2
    <3>2. 1 .. nextId - 1 \subseteq 1 .. nextId' - 1
      <4>1. nextId \in Int /\ nextId' \in Int /\ nextId <= nextId'
        BY <2>2, IdAssumption
      <4>2. \A m, n \in Int : m <= n => 1 .. m - 1 \subseteq 1 .. n - 1
        OBVIOUS
      <4>3. QED
        BY <4>1, <4>2
    <3>3. QED
      BY <3>1, <3>2 DEF TypeOK
  <2>4. \A i \in Id : i >= nextId' => shown[i] = 0
    BY <2>2 DEF TypeOK, Id
  <2>5. QED
    BY <2>1, <2>3, <2>4 DEF TypeOK, query, walk
<1>3. CASE UNCHANGED vars
  BY <1>3 DEF vars, TypeOK
<1>4. QED
  BY <1>1, <1>2, <1>3 DEF Next

\* Reading a page, where the order is one: the rows at the positions that
\* come next are shown, and a row that comes after them is on a page to come.
LEMMA PageShown ==
    ASSUME IInv, Sorted, NEW q, Serve(q), UNCHANGED rows,
           q.limit = Limit, Limit \in 1 .. MaxListLimit,
           q.offset = Skipped, q.offset \in 0 .. MaxListOffset
    PROVE  /\ \A r \in Listed :
                 \/ /\ Rank(r) \in Skipped .. Skipped + Limit - 1
                    /\ shown'[r.id] = shown[r.id] + 1
                 \/ /\ Rank(r) \notin Skipped .. Skipped + Limit - 1
                    /\ shown'[r.id] = shown[r.id]
           /\ \A i \in Id : i \notin {r.id : r \in Listed} => shown'[i] = shown[i]
           /\ \A r \in Listed : Rank(r) >= Skipped + Limit => stage' # "ended"
<1> USE DEF IInv
<1>1. PICK pos \in Orders :
        LET ids == {r.id : r \in Page(pos, q)}
        IN  /\ shown' = [i \in Id |-> shown[i] + IF i \in ids THEN 1 ELSE 0]
            /\ stage' = IF Cardinality(Page(pos, q)) < q.limit
                        THEN "ended" ELSE "reading"
  BY DEF Serve
<1> DEFINE ids == {r.id : r \in Page(pos, q)}
<1>2. shown' = [i \in Id |-> shown[i] + IF i \in ids THEN 1 ELSE 0]
  BY <1>1
<1>3. \A r \in Listed : r \in Page(pos, q) <=> Rank(r) \in Skipped .. Skipped + Limit - 1
  <2>1. \A r \in Listed : pos[r] = Rank(r)
    BY PositionIsRank
  <2>2. QED
    BY <2>1 DEF Page
<1>4. \A r, s \in Listed : r.id = s.id => r = s
  BY DEF Listed, TypeOK
<1>5. \A r \in Listed : r.id \in Id /\ shown[r.id] \in Nat
  BY DEF Listed, TypeOK
<1>6. \A r \in Listed : r.id \in ids <=> r \in Page(pos, q)
  BY <1>4 DEF Page
<1>7. ids \subseteq {r.id : r \in Listed}
  BY DEF Page
<1> HIDE DEF ids
<1>8. ASSUME NEW r \in Listed, Rank(r) >= Skipped + Limit
      PROVE  stage' # "ended"
  <2>1. pos[r] >= q.offset + q.limit
    BY <1>8, PositionIsRank
  <2>2. q.offset \in Nat /\ q.limit \in Nat
    OBVIOUS
  <2>3. Cardinality(Page(pos, q)) = q.limit
    BY <2>1, <2>2, FullPage
  <2>4. ~(Cardinality(Page(pos, q)) < q.limit)
    BY <2>2, <2>3
  <2>5. QED
    BY <1>1, <2>4
<1>9. ASSUME NEW r \in Listed
      PROVE  \/ /\ Rank(r) \in Skipped .. Skipped + Limit - 1
                /\ shown'[r.id] = shown[r.id] + 1
             \/ /\ Rank(r) \notin Skipped .. Skipped + Limit - 1
                /\ shown'[r.id] = shown[r.id]
  BY <1>2, <1>3, <1>5, <1>6
<1>10. ASSUME NEW i \in Id, i \notin {r.id : r \in Listed}
       PROVE  shown'[i] = shown[i]
  <2>1. i \notin ids
    BY <1>7, <1>10
  <2>2. shown[i] \in Nat
    BY DEF TypeOK
  <2>3. QED
    BY <1>2, <2>1, <2>2
<1>11. QED
  BY <1>8, <1>9, <1>10

\* A page goes on where the one before it stopped.
LEMMA ServeStep ==
    ASSUME IInv, NEW q, Serve(q), TypeOK',
           UNCHANGED <<rows, nextId, filter, limit, first>>,
           stage = "reading",
           q.limit = Limit, q.offset \in 0 .. MaxListOffset,
           limit \in {Missing} \cup 1 .. MaxListLimit,
           Limit \in 1 .. MaxListLimit,
           first = 1 => q.offset = Skipped
    PROVE  IInv' /\ (Sorted /\ Ordered => Ordered')
<1> USE DEF IInv
<1>1. /\ next' = next + 1 /\ next \in Nat \ {0} /\ first \in Nat \ {0}
      /\ next >= first
      /\ Limit' = Limit
  BY PageAssumption DEF Serve, TypeOK, Limit
<1>2. Skipped \in Nat /\ Skipped' = Skipped + Limit
  <2>1. Limit \in Nat
    BY LimitAssumption
  <2>2. QED
    BY <1>1, <2>1, Product DEF Skipped
<1>3. IsFiniteSet(rows') /\ next' >= first' /\ Fresh'
  BY <1>1 DEF Fresh
<1>4. Exact'
  <2>1. first = 1 => Skipped <= MaxListOffset
    BY LimitAssumption
  <2>2. first = 1 => Skipped' <= MaxListOffset + MaxListLimit
    BY <1>2, <2>1, LimitAssumption
  <2>3. QED
    BY <2>2 DEF Exact
<1>5. ASSUME Sorted, Ordered PROVE Shown' /\ ToCome' /\ NothingTwice'
  <2>1. CASE first # 1
    BY <2>1 DEF Shown, ToCome, NothingTwice
  <2>2. CASE first = 1
    <3>1. /\ \A r \in Listed :
                \/ /\ Rank(r) \in Skipped .. Skipped + Limit - 1
                   /\ shown'[r.id] = shown[r.id] + 1
                \/ /\ Rank(r) \notin Skipped .. Skipped + Limit - 1
                   /\ shown'[r.id] = shown[r.id]
          /\ \A i \in Id : i \notin {r.id : r \in Listed} => shown'[i] = shown[i]
          /\ \A r \in Listed : Rank(r) >= Skipped + Limit => stage' # "ended"
      BY <1>5, <2>2, PageShown
    <3>2. Listed' = Listed /\ \A r : Rank(r)' = Rank(r)
      BY DEF Listed, Rank, Before
    <3>3. \A r \in Listed : /\ r.id \in Id /\ shown[r.id] \in Nat
                            /\ Rank(r) \in Nat
      BY FiniteList DEF Listed, TypeOK
    <3>4. Shown /\ ToCome /\ NothingTwice
      BY <1>5 DEF Ordered
    <3>5. CASE next = first
      <4>1. \A i \in Id : shown[i] = 0
        BY <3>5 DEF Fresh
      <4>2. Skipped = 0
        BY <1>2, <2>2, <3>5, LimitAssumption DEF Skipped
      <4>3. start' = {r.id : r \in Listed}
        BY <3>5 DEF Serve
      <4>4. ASSUME NEW r \in Listed
            PROVE  /\ shown'[r.id] > 0 => Rank(r) < Skipped'
                   /\ shown'[r.id] > 0 \/ (stage' # "ended" /\ Rank(r) >= Skipped')
        <5>1. r.id \in Id /\ shown[r.id] = 0 /\ Rank(r) \in Nat
          BY <3>3, <4>1
        <5>2. Limit \in Nat /\ Skipped' = Limit
          BY <1>2, <4>2, LimitAssumption
        <5>3. CASE Rank(r) < Limit
          <6>1. Rank(r) \in Skipped .. Skipped + Limit - 1
            BY <4>2, <5>1, <5>2, <5>3
          <6>2. shown'[r.id] = 1
            BY <3>1, <5>1, <6>1
          <6>3. Rank(r) < Skipped'
            BY <5>2, <5>3
          <6>4. shown'[r.id] > 0
            BY <6>2
          <6>5. QED
            BY <6>3, <6>4
        <5>4. CASE ~(Rank(r) < Limit)
          <6>1. Rank(r) \notin Skipped .. Skipped + Limit - 1
            BY <4>2, <5>1, <5>2, <5>4
          <6>2. shown'[r.id] = 0
            BY <3>1, <5>1, <6>1
          <6>3. Rank(r) >= Skipped + Limit /\ Rank(r) >= Skipped'
            BY <4>2, <5>1, <5>2, <5>4
          <6>4. stage' # "ended"
            BY <3>1, <6>3
          <6>5. QED
            BY <6>2, <6>3, <6>4
        <5>5. QED
          BY <5>3, <5>4
      <4>5. Shown'
        BY <3>2, <4>4 DEF Shown
      <4>6. ToCome'
        BY <3>2, <4>3, <4>4 DEF ToCome
      <4>7. ASSUME NEW i \in Id PROVE shown'[i] <= 1
        <5>1. CASE i \in {r.id : r \in Listed}
          BY <3>1, <4>1, <5>1
        <5>2. CASE i \notin {r.id : r \in Listed}
          BY <3>1, <4>1, <5>2
        <5>3. QED
          BY <5>1, <5>2
      <4>8. NothingTwice'
        BY <4>7 DEF NothingTwice
      <4>9. QED
        BY <4>5, <4>6, <4>8
    <3>6. CASE next # first
      <4>1. UNCHANGED <<start, left, joined>> /\ next > 1
        BY <1>1, <2>2, <3>6 DEF Serve
      <4>2. Shown'
        <5>1. ASSUME ~joined, NEW r \in Listed, shown'[r.id] > 0
              PROVE  Rank(r) < Skipped'
          <6>1. shown[r.id] > 0 => Rank(r) < Skipped
            BY <2>2, <3>4, <4>1, <5>1 DEF Shown
          <6>2. QED
            BY <1>2, <3>1, <3>3, <5>1, <6>1
        <5>2. QED
          BY <3>2, <4>1, <5>1 DEF Shown
      <4>3. ToCome'
        <5>1. ASSUME ~left, NEW i \in start
              PROVE  \E r \in Listed :
                        /\ r.id = i
                        /\ \/ shown'[i] > 0
                           \/ (stage' # "ended" /\ Rank(r) >= Skipped')
          <6>1. PICK r \in Listed : /\ r.id = i
                                    /\ shown[i] > 0 \/ Rank(r) >= Skipped
            BY <2>2, <3>4, <4>1, <5>1 DEF ToCome
          <6>2. r.id \in Id /\ shown[i] \in Nat /\ Rank(r) \in Nat
            BY <3>3, <6>1
          <6>3. Limit \in Nat
            BY LimitAssumption
          <6>4. CASE Rank(r) \in Skipped .. Skipped + Limit - 1
            <7>1. shown'[i] = shown[i] + 1
              BY <3>1, <6>1, <6>4
            <7>2. QED
              BY <6>1, <6>2, <7>1
          <6>5. CASE Rank(r) \notin Skipped .. Skipped + Limit - 1
            <7>1. shown'[i] = shown[i]
              BY <3>1, <6>1, <6>5
            <7>2. CASE shown[i] > 0
              BY <6>1, <7>1, <7>2
            <7>3. CASE ~(shown[i] > 0)
              <8>1. Rank(r) >= Skipped
                BY <6>1, <7>3
              <8>2. Rank(r) >= Skipped + Limit /\ Rank(r) >= Skipped'
                BY <1>2, <6>2, <6>3, <6>5, <8>1
              <8>3. stage' # "ended"
                BY <3>1, <8>2
              <8>4. QED
                BY <6>1, <8>2, <8>3
            <7>4. QED
              BY <7>2, <7>3
          <6>6. QED
            BY <6>4, <6>5
        <5>2. QED
          BY <3>2, <4>1, <5>1 DEF ToCome
      <4>4. ASSUME ~joined, NEW i \in Id PROVE shown'[i] <= 1
        <5>1. shown[i] <= 1 /\ shown[i] \in Nat
          BY <2>2, <3>4, <4>4 DEF NothingTwice, TypeOK
        <5>2. CASE i \in {r.id : r \in Listed}
          <6>1. PICK r \in Listed : r.id = i
            BY <5>2
          <6>2. shown[i] > 0 => Rank(r) < Skipped
            BY <2>2, <3>4, <4>1, <4>4, <6>1 DEF Shown
          <6>3. QED
            BY <1>2, <3>1, <3>3, <5>1, <6>1, <6>2
        <5>3. CASE i \notin {r.id : r \in Listed}
          BY <3>1, <5>1, <5>3
        <5>4. QED
          BY <5>2, <5>3
      <4>5. NothingTwice'
        BY <4>1, <4>4 DEF NothingTwice
      <4>6. QED
        BY <4>2, <4>3, <4>5
    <3>7. QED
      BY <3>5, <3>6
  <2>3. QED
    BY <2>1, <2>2
<1>6. QED
  BY <1>3, <1>4, <1>5 DEF Ordered

\* What a task that joins or leaves does to the positions of the others.
LEMMA ChangeStep ==
    ASSUME IInv, TypeOK',
           \/ \E at \in Time, in \in BOOLEAN : Create(at, in)
           \/ \E r \in rows : \/ \E in \in BOOLEAN : Update(r, in)
                              \/ Delete(r)
    PROVE  IInv' /\ (Ordered => Ordered')
<1> USE DEF IInv
<1>1. /\ UNCHANGED <<query, walk>>
      /\ IsFiniteSet(rows')
      /\ left => left'
      /\ joined => joined'
      /\ left' \/ Listed \subseteq Listed'
      /\ joined' \/ Listed' \subseteq Listed
  BY Changes
<1>2. UNCHANGED <<filter, limit, first, next, offset, stage, start, shown>>
  BY <1>1 DEF query, walk
<1>3. Skipped' = Skipped /\ Limit' = Limit
  BY <1>2 DEF Skipped, Limit
<1>4. next' >= first' /\ Fresh' /\ Exact'
  BY <1>2, <1>3 DEF Fresh, Exact
<1>5. \A r : /\ IsFiniteSet(Before(r)) /\ IsFiniteSet(Before(r)')
             /\ Rank(r) \in Nat /\ Rank(r)' \in Nat
  <2>1. \A r : IsFiniteSet(Before(r)) /\ Rank(r) \in Nat
    BY FiniteList
  <2>2. Listed' \in SUBSET rows'
    BY DEF Listed
  <2>3. IsFiniteSet(Listed')
    BY <1>1, <2>2, FS_Subset
  <2>4. \A r : Before(r)' \in SUBSET Listed'
    BY DEF Before
  <2>5. \A r : IsFiniteSet(Before(r)')
    BY <2>3, <2>4, FS_Subset
  <2>6. \A r : Rank(r)' \in Nat
    BY <2>5, FS_CardinalityType DEF Rank
  <2>7. QED
    BY <2>1, <2>5, <2>6
<1>6. ASSUME Ordered PROVE Shown'
  <2>1. ASSUME first = 1, ~joined', next > 1, NEW r \in Listed', shown[r.id] > 0
        PROVE  Rank(r)' < Skipped
    <3>1. Listed' \subseteq Listed /\ Shown /\ ~joined
      BY <1>1, <1>6, <2>1 DEF Ordered
    <3>2. Before(r)' \in SUBSET Before(r)
      BY <3>1 DEF Before
    <3>3. Rank(r)' <= Rank(r)
      BY <1>5, <3>2, FS_Subset DEF Rank
    <3>4. Rank(r) < Skipped
      BY <2>1, <3>1 DEF Shown
    <3>5. Skipped \in Int
      <4>1. limit \in {Missing} \cup 1 .. MaxListLimit
        BY <2>1 DEF Exact
      <4>2. Limit \in Nat
        BY <4>1, LimitAssumption DEF Limit
      <4>3. QED
        BY <4>2, Product DEF Skipped, TypeOK
    <3>6. QED
      BY <1>5, <3>3, <3>4, <3>5
  <2>2. QED
    BY <1>2, <1>3, <2>1 DEF Shown
<1>7. ASSUME Ordered PROVE ToCome'
  <2>1. ASSUME first = 1, ~left', next > 1, NEW i \in start
        PROVE  \E r \in Listed' :
                  /\ r.id = i
                  /\ shown[i] > 0 \/ (stage # "ended" /\ Rank(r)' >= Skipped)
    <3>1. Listed \subseteq Listed' /\ ToCome /\ ~left
      BY <1>1, <1>7, <2>1 DEF Ordered
    <3>2. PICK r \in Listed : /\ r.id = i
                              /\ shown[i] > 0 \/ (stage # "ended" /\ Rank(r) >= Skipped)
      <4>1. \A j \in start :
               \E r \in Listed :
                  /\ r.id = j
                  /\ shown[j] > 0 \/ (stage # "ended" /\ Rank(r) >= Skipped)
        BY <2>1, <3>1 DEF ToCome
      <4>2. QED
        BY <4>1
    <3>3. Before(r) \in SUBSET Before(r)'
      BY <3>1 DEF Before
    <3>4. Rank(r) <= Rank(r)'
      BY <1>5, <3>3, FS_Subset DEF Rank
    <3>5. Skipped \in Int
      <4>1. limit \in {Missing} \cup 1 .. MaxListLimit
        BY <2>1 DEF Exact
      <4>2. Limit \in Nat
        BY <4>1, LimitAssumption DEF Limit
      <4>3. QED
        BY <4>2, Product DEF Skipped, TypeOK
    <3>6. Rank(r) >= Skipped => Rank(r)' >= Skipped
      BY <1>5, <3>4, <3>5
    <3>7. r \in Listed'
      BY <3>1, <3>2
    <3>8. shown[i] > 0 \/ (stage # "ended" /\ Rank(r)' >= Skipped)
      BY <3>2, <3>6
    <3>9. QED
      BY <3>2, <3>7, <3>8
  <2>2. QED
    BY <1>2, <1>3, <2>1 DEF ToCome
<1>8. ASSUME Ordered PROVE NothingTwice'
  BY <1>1, <1>2, <1>8 DEF Ordered, NothingTwice
<1>9. QED
  BY <1>1, <1>4, <1>6, <1>7, <1>8 DEF Ordered

-----------------------------------------------------------------------------
(* The theorems.                                                            *)

\* Nothing has been read.
LEMMA ReadNothing == Init => IInv /\ Ordered
<1> SUFFICES ASSUME Init PROVE IInv /\ Ordered
  OBVIOUS
<1>1. first \in 1 .. MaxInt64
  BY PageAssumption DEF Init
<1>2. TypeOK
  <2>1. /\ rows \subseteq [id: Id, at: Time, in: BOOLEAN]
        /\ \A r, s \in rows : r.id = s.id => r = s
        /\ \A r \in rows : r.id < nextId
    BY DEF Init
  <2>2. nextId \in 1 .. MaxId + 1 /\ start \subseteq 1 .. nextId - 1
    BY IdAssumption DEF Init
  <2>3. next \in Nat \ {0} /\ offset \in 0 .. MaxListOffset
    BY <1>1, LimitAssumption DEF Init
  <2>4. shown \in [Id -> Nat] /\ \A i \in Id : i >= nextId => shown[i] = 0
    BY DEF Init
  <2>5. /\ filter \in BOOLEAN /\ limit \in Parameter
        /\ first \in FirstPage
        /\ stage \in {"reading", "ended", "refused"}
        /\ left \in BOOLEAN /\ joined \in BOOLEAN
    BY DEF Init
  <2>6. QED
    BY <2>1, <2>2, <2>3, <2>4, <2>5 DEF TypeOK
<1>3. IsFiniteSet(rows)
  BY FS_EmptySet DEF Init
<1>4. next >= first /\ Fresh /\ (first = 1 => ~(next > 1))
  BY <1>1 DEF Init, Fresh
<1>5. Exact /\ Shown /\ ToCome
  BY <1>4 DEF Exact, Shown, ToCome
<1>6. NothingTwice
  BY DEF Init, NothingTwice
<1>7. QED
  BY <1>2, <1>3, <1>4, <1>5, <1>6 DEF IInv, Ordered

\* Every step keeps the invariant, and the order of the reading if the list has
\* one order.
LEMMA ReadStep ==
    ASSUME IInv, [Next]_vars
    PROVE  IInv' /\ (Sorted /\ Ordered => Ordered')
<1>1. TypeOK'
  BY TypeStep DEF IInv
<1>2. ASSUME UNCHANGED <<rows, limit, first, next, start, shown, left, joined>>,
             stage' = stage \/ stage' = "refused"
      PROVE  IInv' /\ (Ordered => Ordered')
  <2>1. Skipped' = Skipped /\ Listed' = Listed
    BY <1>2 DEF Skipped, Limit, Listed
  <2>2. \A r : Rank(r)' = Rank(r)
    BY <2>1 DEF Rank, Before
  <2>3. Fresh' /\ Exact'
    BY <1>2, <2>1 DEF IInv, Fresh, Exact
  <2>4. IInv'
    BY <1>1, <1>2, <2>3 DEF IInv
  <2>5. Ordered => Shown' /\ NothingTwice'
    BY <1>2, <2>1, <2>2 DEF Ordered, Shown, NothingTwice
  <2>6. Ordered => ToCome'
    BY <1>2, <2>1, <2>2 DEF Ordered, ToCome
  <2>7. QED
    BY <2>4, <2>5, <2>6 DEF Ordered
<1>3. CASE ListPage \/ ListOffset
  <2>1. UNCHANGED <<rows, nextId, filter, limit, first>> /\ stage = "reading"
    BY <1>3, Reads DEF IInv
  <2>2. CASE Refuse
    <3>1. stage' = "refused" /\ UNCHANGED <<next, start, shown, left, joined>>
      BY <2>2 DEF Refuse
    <3>2. QED
      BY <1>2, <2>1, <3>1
  <2>3. QED
    BY <1>1, <1>3, <2>1, <2>2, Reads, ServeStep DEF IInv
<1>4. CASE \/ \E at \in Time, in \in BOOLEAN : Create(at, in)
           \/ \E r \in rows : \/ \E in \in BOOLEAN : Update(r, in)
                              \/ Delete(r)
  BY <1>1, <1>4, ChangeStep
<1>5. CASE UNCHANGED vars
  BY <1>2, <1>5 DEF vars
<1>6. QED
  BY <1>3, <1>4, <1>5 DEF Next

\* The inductive invariant of a reading of the list.
THEOREM IInvCorrect == Spec => []IInv
BY ReadNothing, ReadStep, PTL DEF Spec

\* The list and its readers keep to their types, and offsets to their bounds.
THEOREM TypeCorrect == Spec => []TypeOK
<1>1. IInv => TypeOK
  BY DEF IInv
<1>2. QED
  BY <1>1, IInvCorrect, PTL

\* What was shown stays before the next page and what was not stays after it, on
\* either driver, as long as the list has one order.
THEOREM OrderedCorrect == Spec /\ []Sorted => []Ordered
<1>1. IInv /\ Sorted /\ Ordered /\ [Next]_vars => Ordered'
  BY ReadStep
<1>2. QED
  BY <1>1, ReadNothing, IInvCorrect, PTL DEF Spec

\* A reader misses no task that was there all the time, whatever was created, as
\* long as none left the list: on PostgreSQL if no two tasks of the list have one
\* created_at.
THEOREM NothingMissedSorted == Spec /\ []Sorted => []NothingMissed
<1>1. IInv /\ Ordered => NothingMissed
  <2> SUFFICES ASSUME IInv, Ordered, first = 1, stage = "ended", ~left,
                      NEW i \in start
               PROVE  shown[i] > 0
    BY DEF NothingMissed
  <2>1. CASE next > 1
    BY <2>1 DEF Ordered, ToCome
  <2>2. CASE ~(next > 1)
    <3>1. next = first
      BY <2>2 DEF IInv, TypeOK
    <3>2. QED
      BY <3>1 DEF IInv, Fresh
  <2>3. QED
    BY <2>1, <2>2
<1>2. QED
  BY <1>1, IInvCorrect, OrderedCorrect, PTL

\* A reader sees no task twice, whatever was deleted, as long as none joined the
\* list: on PostgreSQL if no two tasks of the list have one created_at.
THEOREM NothingTwiceSorted == Spec /\ []Sorted => []NothingTwice
<1>1. Ordered => NothingTwice
  BY DEF Ordered
<1>2. QED
  BY <1>1, OrderedCorrect, PTL

\* On SQLite nothing is missed unless a task left the list, whatever the clock
\* says when tasks are created.
THEOREM NothingMissedCorrect == ASSUME TieBroken PROVE Spec => []NothingMissed
<1>1. Sorted
  BY DEF Sorted
<1>2. QED
  BY <1>1, NothingMissedSorted, PTL

\* On SQLite nothing is shown twice either, unless a task joined the list.
THEOREM NothingTwiceCorrect == ASSUME TieBroken PROVE Spec => []NothingTwice
<1>1. Sorted
  BY DEF Sorted
<1>2. QED
  BY <1>1, NothingTwiceSorted, PTL

-----------------------------------------------------------------------------
(* Page numbers.                                                            *)

\* What the page read last started at, however far the client started.
AsAsked ==
    /\ next >= first
    /\ next > first => Limit \in 1 .. MaxListLimit /\ offset = (next - 2) * Limit

\* After a page that was served, the next is not far.
LEMMA NextIsNear ==
    ASSUME TypeOK, AsAsked, next > first
    PROVE  Skipped <= MaxInt64
<1>1. /\ offset \in 0 .. MaxListOffset /\ Limit \in 1 .. MaxListLimit
      /\ next \in Nat /\ first \in Nat /\ first >= 1
  BY PageAssumption, LimitAssumption DEF TypeOK, AsAsked
<1>2. next - 1 \in Nat \ {0}
  BY <1>1
<1>3. (next - 1 + 1 - 1) * Limit = (next - 1 - 1) * Limit + Limit
  BY <1>1, <1>2, Product
<1>4. Skipped = offset + Limit
  BY <1>1, <1>3 DEF Skipped, AsAsked
<1>5. QED
  BY <1>1, <1>4, LimitAssumption

\* A larger limit reaches further.
LEMMA Monotone ==
    ASSUME NEW n \in Nat, NEW l \in Nat, NEW m \in Nat, l <= m
    PROVE  n * l <= n * m
<1>1. PICK d \in Nat : m = l + d
  <2>1. m - l \in Nat /\ m = l + (m - l)
    OBVIOUS
  <2>2. QED
    BY <2>1
<1>2. n * (l + d) = n * l + n * d /\ n * d \in Nat /\ n * l \in Nat
  OBVIOUS
<1>3. QED
  BY <1>1, <1>2

\* A client that starts at a page whose offset 64 bits hold gets the pages it asks
\* for: the offset that wraps is that of such a page alone, never that of a page
\* reached by reading on.
THEOREM PageAsAskedCorrect ==
    ASSUME \A n \in FirstPage : (n - 1) * MaxListLimit <= MaxInt64
    PROVE  Spec => []PageAsAsked
<1>1. Init => AsAsked
  <2> SUFFICES ASSUME Init PROVE AsAsked
    OBVIOUS
  <2>1. next = first /\ first \in Nat
    BY PageAssumption, LimitAssumption DEF Init
  <2>2. QED
    BY <2>1 DEF AsAsked
<1>2. IInv /\ AsAsked /\ [Next]_vars => AsAsked'
  <2> SUFFICES ASSUME IInv, AsAsked, [Next]_vars PROVE AsAsked'
    OBVIOUS
  <2>0. /\ TypeOK /\ IsFiniteSet(rows) /\ Exact
        /\ next \in Nat \ {0} /\ first \in Nat /\ first >= 1 /\ next >= first
    BY PageAssumption, LimitAssumption DEF IInv, TypeOK
  <2>1. CASE UNCHANGED <<next, first, limit, offset>>
    BY <2>1 DEF AsAsked, Limit
  <2>2. CASE Refuse /\ UNCHANGED <<limit, first>>
    BY <2>1, <2>2 DEF Refuse
  <2>3. ASSUME NEW q, Serve(q), UNCHANGED <<limit, first>>,
               Limit \in 1 .. MaxListLimit,
               Skipped <= MaxInt64 => q.offset = Skipped
        PROVE  AsAsked'
    <3>1. ASSUME next = first PROVE Skipped <= MaxInt64
      <4>1. /\ next - 1 \in Nat /\ MaxListLimit \in Nat /\ MaxInt64 \in Nat
            /\ Limit \in Nat /\ Limit <= MaxListLimit
        BY <2>0, <2>3, LimitAssumption
      <4>2. (next - 1) * Limit <= (next - 1) * MaxListLimit
        BY <4>1, Monotone
      <4>3. (next - 1) * MaxListLimit <= MaxInt64
        BY <3>1 DEF IInv, TypeOK
      <4>4. (next - 1) * Limit \in Int /\ (next - 1) * MaxListLimit \in Int
        BY <4>1
      <4> DEFINE x == (next - 1) * Limit
                 y == (next - 1) * MaxListLimit
      <4>5. Skipped = x
        BY DEF Skipped
      <4> HIDE DEF x, y
      <4>6. x <= y /\ y <= MaxInt64 /\ x \in Int /\ y \in Int
        BY <4>2, <4>3, <4>4 DEF x, y
      <4>7. QED
        BY <4>1, <4>5, <4>6
    <3>2. next = first \/ next > first
      BY <2>0
    <3>3. Skipped <= MaxInt64
      BY <2>0, <3>1, <3>2, NextIsNear
    <3>4. next' = next + 1 /\ offset' = Skipped /\ Limit' = Limit
      BY <2>3, <3>3 DEF Serve, Limit
    <3>5. next' - 2 = next - 1
      BY <2>0, <3>4
    <3>6. next' >= first' /\ offset' = (next' - 2) * Limit'
      BY <2>0, <2>3, <3>4, <3>5 DEF Skipped
    <3>7. QED
      BY <2>3, <3>4, <3>6 DEF AsAsked
  <2>4. CASE ListPage \/ ListOffset
    <3>1. UNCHANGED <<limit, first>>
      BY <2>0, <2>4, Reads
    <3>2. CASE stage' = "refused"
      <4>1. ASSUME NEW q, Serve(q) PROVE FALSE
        BY <3>2, <4>1 DEF Serve
      <4>2. Refuse
        BY <2>4, <4>1 DEF ListPage, ListOffset, List
      <4>3. QED
        BY <2>2, <3>1, <4>2
    <3>3. CASE stage' # "refused"
      <4>1. PICK q : /\ Serve(q) /\ Limit \in 1 .. MaxListLimit
                     /\ Skipped <= MaxInt64 => q.offset = Skipped
        BY <2>0, <2>4, <3>3, Asked
      <4>2. QED
        BY <2>3, <3>1, <4>1
    <3>4. QED
      BY <3>2, <3>3
  <2>5. CASE \/ \E at \in Time, in \in BOOLEAN : Create(at, in)
             \/ \E r \in rows : \/ \E in \in BOOLEAN : Update(r, in)
                                \/ Delete(r)
    <3>1. UNCHANGED <<query, walk>>
      BY <2>0, <2>5, Changes
    <3>2. QED
      BY <2>1, <3>1 DEF query, walk
  <2>6. CASE UNCHANGED vars
    BY <2>1, <2>6 DEF vars
  <2>7. QED
    BY <2>4, <2>5, <2>6 DEF Next
<1>3. AsAsked => PageAsAsked
  BY DEF AsAsked, PageAsAsked
<1>4. QED
  BY <1>1, <1>2, <1>3, IInvCorrect, PTL DEF Spec
=============================================================================
