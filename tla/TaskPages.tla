------------------------------ MODULE TaskPages ------------------------------
(***************************************************************************)
(* GET /api/v1/tasks of modules/tasks/handler.go: a client reads the list  *)
(* of its tasks page after page, with one filter and one limit, while the  *)
(* list changes under it.  Every page is a query of its own; nothing but   *)
(* the offset ties it to the page before.                                  *)
(*                                                                         *)
(* parseListQuery reads the parameters, the stores' List clamps what it    *)
(* got, and the database sorts the rows and cuts the page out of them.     *)
(* The list is that of one user and one filter: a row is in it or not.     *)
(* A query that fails is answered 500 and changes nothing.                 *)
(***************************************************************************)
EXTENDS Integers, FiniteSets

CONSTANTS
    MaxId,             \* tasks created (a bound of the instance)
    Time,              \* values of created_at
    FirstPage,         \* pages a client starts at
    DefaultListLimit, MaxListLimit, MaxListOffset,   \* of model.go
    MaxInt32, MaxInt64,   \* the largest values of the machine's integers
    Missing,           \* a parameter that is not in the URL
    Malformed,         \* a parameter that is no number, or too large a one
    TieBroken          \* rows with one created_at are sorted by id: TRUE on
                       \* SQLite, FALSE on PostgreSQL

ASSUME IdAssumption == MaxId \in Nat
ASSUME TimeAssumption == Time \subseteq Int
ASSUME PageAssumption == FirstPage \subseteq 1 .. MaxInt64
ASSUME LimitAssumption ==
    /\ MaxListLimit \in Nat /\ DefaultListLimit \in 1 .. MaxListLimit
    /\ MaxListOffset \in Nat
    /\ MaxInt32 \in Nat /\ MaxInt64 \in Nat /\ MaxInt32 <= MaxInt64
    /\ MaxListOffset + MaxListLimit <= MaxInt32
ASSUME ParameterAssumption == Missing \notin Int /\ Malformed \notin Int
                              /\ Missing # Malformed
ASSUME TieAssumption == TieBroken \in BOOLEAN

Id == 1 .. MaxId

VARIABLES
    rows,     \* the user's tasks; in: the filter matches
    nextId,   \* the id the next task gets
    filter,   \* status and search are acceptable
    limit,    \* the limit parameter of every query
    next,     \* the number of the page to ask for next
    first,    \* the number of the page asked for first
    offset,   \* OFFSET of the last query
    stage,    \* the client is "reading", or has "ended" or was "refused"
    start,    \* ids of the tasks in the list when the first page was read
    shown,    \* shown[i]: how many pages have shown task i
    left,     \* a task has left the list since the first page
    joined    \* a task has joined the list since the first page

query == <<filter, limit, first>>
walk  == <<next, offset, stage, start, shown>>
vars  == <<rows, nextId, filter, limit, next, first, offset, stage, start,
           shown, left, joined>>

Parameter == {Missing, Malformed} \cup 0 .. MaxListLimit + 1

TypeOK ==
    /\ rows \subseteq [id: Id, at: Time, in: BOOLEAN]
    /\ \A r, s \in rows : r.id = s.id => r = s
    /\ nextId \in 1 .. MaxId + 1
    /\ \A r \in rows : r.id < nextId
    /\ filter \in BOOLEAN
    /\ limit \in Parameter
    /\ first \in FirstPage
    /\ next \in Nat \ {0}
    /\ offset \in 0 .. MaxListOffset
    /\ stage \in {"reading", "ended", "refused"}
    /\ start \subseteq 1 .. nextId - 1
    /\ shown \in [Id -> Nat]
    /\ \A i \in Id : i >= nextId => shown[i] = 0
    /\ left \in BOOLEAN
    /\ joined \in BOOLEAN

Init ==
    /\ rows = {}
    /\ nextId = 1
    /\ filter \in BOOLEAN
    /\ limit \in Parameter
    /\ first \in FirstPage
    /\ next = first
    /\ offset = 0
    /\ stage = "reading"
    /\ start = {}
    /\ shown = [i \in Id |-> 0]
    /\ left = FALSE
    /\ joined = FALSE

Listed == {r \in rows : r.in}

-----------------------------------------------------------------------------
(* The query.                                                               *)

\* What a conversion or a product leaves of x: two's complement.
Wrapped(x, max) ==
    IF x \in -(max + 1) .. max
    THEN x
    ELSE ((x + max + 1) % (2 * (max + 1))) - (max + 1)

\* strconv.ParseInt with 32 or 64 bits succeeds.
Parsed(raw, max) == raw \notin {Missing, Malformed} /\ raw <= max

Limit == IF limit = Missing THEN DefaultListLimit ELSE limit

Refused == [limit |-> 0, offset |-> -1]

PageOffsetZeroBased(page) == \* mutant: the first page is page 0
    Wrapped(page * Limit, MaxInt64)

\* offset := (v - 1) * int64(q.Limit)
PageOffset(page) == Wrapped((page - 1) * Limit, MaxInt64)

\* The answer 422, or the filter's limit and offset; page goes before offset.
parseListQuery(page, from) ==
    CASE \/ ~filter
         \/ limit # Missing /\ ~(Parsed(limit, MaxInt32) /\ limit \in 1 .. MaxListLimit)
         \/ page # Missing /\ ~(Parsed(page, MaxInt64) /\ page >= 1
                                /\ PageOffset(page) <= MaxListOffset)
         \/ page = Missing /\ from # Missing
              /\ ~(Parsed(from, MaxInt32) /\ from \in 0 .. MaxListOffset)
           -> Refused
      [] OTHER
           -> [limit |-> Limit,
               offset |-> CASE page # Missing -> Wrapped(PageOffset(page), MaxInt32)
                            [] page = Missing /\ from # Missing -> from
                            [] OTHER -> 0]

\* What List of either store makes of the filter.
Clamped(q) ==
    [limit |-> IF q.limit \in 1 .. MaxListLimit THEN q.limit ELSE DefaultListLimit,
     offset |-> CASE q.offset < 0 -> 0
                  [] q.offset > MaxListOffset -> MaxListOffset
                  [] OTHER -> q.offset]

PrecedesByTime(r, s) ==      \* mutant: ORDER BY created_at DESC alone
    r.at > s.at

\* ORDER BY created_at DESC, id DESC; on PostgreSQL without the id.
Precedes(r, s) == \/ r.at > s.at
                  \/ TieBroken /\ r.at = s.at /\ r.id > s.id

\* The positions the database may give the rows of the list: it is free where
\* ORDER BY does not decide.
Orders ==
    {pos \in [Listed -> 0 .. Cardinality(Listed) - 1] :
        \A r, s \in Listed : /\ pos[r] = pos[s] => r = s
                             /\ Precedes(r, s) => pos[r] < pos[s]}

\* LIMIT and OFFSET
Page(pos, q) == {r \in Listed : pos[r] \in q.offset .. q.offset + q.limit - 1}

\* The answer 422.
Refuse == /\ stage' = "refused"
          /\ UNCHANGED <<next, offset, start, shown, left, joined>>

\* A page.  The client stops after one that is not full.
Serve(q) ==
    /\ \E pos \in Orders :
          LET ids == {r.id : r \in Page(pos, q)}
          IN  /\ shown' = [i \in Id |-> shown[i] + IF i \in ids THEN 1 ELSE 0]
              /\ stage' = IF Cardinality(Page(pos, q)) < q.limit
                          THEN "ended" ELSE "reading"
    /\ offset' = q.offset
    /\ next' = next + 1
    /\ IF next = first
       THEN /\ start' = {r.id : r \in Listed}
            /\ left' = FALSE
            /\ joined' = FALSE
       ELSE UNCHANGED <<start, left, joined>>

List(page, from) ==
    LET parsed == parseListQuery(page, from)
    IN  /\ stage = "reading"
        /\ \/ parsed = Refused /\ Refuse
           \/ parsed # Refused /\ Serve(Clamped(parsed))
        /\ UNCHANGED <<rows, nextId, query>>

\* The next page is asked for by its number, or by the offset it starts at.
ListPage == List(next, Missing)

ListOffset ==
    LET from == (next - 1) * Limit
    IN  List(Missing, IF limit = Malformed THEN 0
                      ELSE IF from <= MaxInt32 THEN from ELSE Malformed)

-----------------------------------------------------------------------------
(* The list changes.                                                        *)

\* A task is created.  created_at is a clock that may be set back (SQLite), or
\* the start of a transaction that others may overtake (PostgreSQL).
Create(at, in) ==
    /\ nextId <= MaxId
    /\ rows' = rows \cup {[id |-> nextId, at |-> at, in |-> in]}
    /\ nextId' = nextId + 1
    /\ joined' = (joined \/ in)
    /\ UNCHANGED <<query, walk, left>>

\* A task gets another title or status, and may begin or cease to match.
Update(r, in) ==
    /\ r \in rows
    /\ rows' = (rows \ {r}) \cup {[id |-> r.id, at |-> r.at, in |-> in]}
    /\ joined' = (joined \/ (in /\ ~r.in))
    /\ left' = (left \/ (r.in /\ ~in))
    /\ UNCHANGED <<nextId, query, walk>>

Delete(r) ==
    /\ r \in rows
    /\ rows' = rows \ {r}
    /\ left' = (left \/ r.in)
    /\ UNCHANGED <<nextId, query, walk, joined>>

Next == \/ ListPage \/ ListOffset
        \/ \E at \in Time, in \in BOOLEAN : Create(at, in)
        \/ \E r \in rows : \/ \E in \in BOOLEAN : Update(r, in)
                           \/ Delete(r)

Spec == Init /\ [][Next]_vars

-----------------------------------------------------------------------------
(* Properties.                                                              *)

\* A client that has read the list from its first page to its end has seen
\* every task that was in it all the time, though tasks joined it in between.  If
\* one left it, those behind move up and may be skipped: ~left exempts that.
NothingMissed ==
    first = 1 /\ stage = "ended" /\ ~left => \A i \in start : shown[i] > 0

\* No task is on two of the pages, though tasks left the list in between.  If one
\* joined it, those behind move down and may be shown again: ~joined exempts that.
NothingTwice == first = 1 /\ ~joined => \A i \in Id : shown[i] <= 1

\* The page numbered n starts after n - 1 whole pages, or is refused.
PageAsAsked == next > first => offset = (next - 2) * Limit

-----------------------------------------------------------------------------
(* The inductive invariant behind them, where the order of the list is one. *)

\* How many rows of the list come before r, which is r's position in it.
Before(r) == {s \in Listed : Precedes(s, r)}
Rank(r)   == Cardinality(Before(r))

\* The rows on the pages before the next.
Skipped == (next - 1) * Limit

\* Nothing was shown before the first page.
Fresh == next = first => start = {} /\ \A i \in Id : shown[i] = 0

\* Since page 1 the offsets are exact: nothing has wrapped or been clamped.
Exact == first = 1 /\ next > 1 => /\ limit \in {Missing} \cup 1 .. MaxListLimit
                                  /\ Skipped <= MaxListOffset + MaxListLimit

\* Unless a task joins, those that have been shown stay before the next page ...
Shown == first = 1 /\ ~joined /\ next > 1 =>
            \A r \in Listed : shown[r.id] > 0 => Rank(r) < Skipped

\* ... and unless one leaves, those that have not stay on it or after it.
ToCome == first = 1 /\ ~left /\ next > 1 =>
            \A i \in start : \E r \in Listed :
                /\ r.id = i
                /\ \/ shown[i] > 0
                   \/ stage # "ended" /\ Rank(r) >= Skipped

\* The order of the list is one: ids break the ties or there are none.
Sorted == TieBroken \/ \A r, s \in Listed : r.at = s.at => r = s

\* A reading so far, if the list was sorted at every query.
Ordered == Shown /\ ToCome /\ NothingTwice

IInv == /\ TypeOK
        /\ IsFiniteSet(rows)
        /\ next >= first
        /\ Fresh
        /\ Exact
=============================================================================
