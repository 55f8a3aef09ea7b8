------------------------------ MODULE LogsPage ------------------------------
(***************************************************************************)
(* GET /logs: a client walks the entry log page by page (LogsService.list  *)
(* and the keyset cursor of logs-cursor.ts) while workers insert rows.      *)
(* A row's recorded_at is the time the API accepted its event, so rows are *)
(* not inserted in the order of their keys.  The cursor carries a position *)
(* only: every request has its own filters and page size.                  *)
(***************************************************************************)
EXTENDS Naturals, FiniteSets

CONSTANTS
    LogRow,     \* the rows that may ever exist: [at, id, user, area]
                \*   at recorded_at in microseconds, id the uuid's rank
    Present,    \* the rows there before the walk
    Query,      \* the requests' [userId, areaId, from, to, limit]
    MaxLimit,   \* MAX_LOGS_PAGE_SIZE
    Absent      \* a filter that is not given

ASSUME PageAssumption ==
    /\ IsFiniteSet(LogRow)
    /\ \A r \in LogRow : r.at \in Nat /\ r.id \in Nat
    /\ \A r, s \in LogRow : r.id = s.id => r = s
    /\ Present \subseteq LogRow
    /\ MaxLimit \in Nat

VARIABLES
    table,      \* the rows of logs
    atStart,    \* the rows there when the walk began
    used,       \* the queries of its requests
    walk,       \* "idle" | "walking" | "over"
    position,   \* the decoded cursor: [at, id]
    got,        \* the rows returned so far
    repeated    \* the rows returned more than once

vars == <<table, atStart, used, walk, position, got, repeated>>

\* The position of a walk that has no cursor yet, before every row.
Newest == CHOOSE t \in {r.at : r \in LogRow} : \A r \in LogRow : r.at <= t
Start == [at |-> Newest + 1, id |-> 0]

\* The order of the pages: r comes after s in recorded_at DESC, id DESC.
Below(r, s) == r.at < s.at \/ (r.at = s.at /\ r.id < s.id)

\* Mutant of PastCursor: the comparison is not strict.
PastCursorOrAt(r, key) == ~Below(key, r)

\* ("recorded_at", "id") < (cursor.recordedAt, cursor.id)
PastCursor(r, key) == Below(r, key)

\* The conditions of the filters that are given; both bounds are inclusive.
Matches(r, q) ==
    /\ q.userId \in {Absent, r.user}
    /\ q.areaId \in {Absent, r.area}
    /\ q.from = Absent \/ r.at >= q.from
    /\ q.to = Absent \/ r.at <= q.to

\* The query DTO: @Min(1), @Max(MAX_LOGS_PAGE_SIZE).
Accepted(q) == q.limit \in 1..MaxLimit

\* ORDER BY recorded_at DESC, id DESC LIMIT n
Top(rows, n) == {r \in rows : Cardinality({s \in rows : Below(r, s)}) < n}

LastRow(page) == CHOOSE r \in page : \A s \in page : s = r \/ Below(r, s)

\* Mutant of Encoded: recorded_at through a JS Date, in coarser units.
EncodedAsDate(r) == [at |-> r.at - (r.at % 10), id |-> r.id]

\* encodeLogsCursor then decodeLogsCursor: the timestamp as Postgres prints it,
\* to the microsecond, and the id.
Encoded(r) == [at |-> r.at, id |-> r.id]

Init ==
    /\ table = Present
    /\ atStart = {} /\ used = {}
    /\ walk = "idle"
    /\ position = Start
    /\ got = {} /\ repeated = {}

\* A worker commits an entry.
InsertRow(r) ==
    /\ r \notin table
    /\ table' = table \union {r}
    /\ UNCHANGED <<atStart, used, walk, position, got, repeated>>

Open ==
    /\ walk = "idle"
    /\ walk' = "walking"
    /\ atStart' = table
    /\ UNCHANGED <<table, used, position, got, repeated>>

\* list(): one more row than the limit tells whether there is a next page.
\* A query the DTO refuses, or a cursor that does not decode, is answered 400.
List(q) ==
    /\ walk = "walking"
    /\ Accepted(q)
    /\ used' = used \union {q}
    /\ LET rows == Top({r \in table : Matches(r, q) /\ PastCursor(r, position)}, q.limit + 1)
           page == Top(rows, q.limit)
       IN /\ got' = got \union page
          /\ repeated' = repeated \union (got \intersect page)
          /\ \/ /\ Cardinality(rows) > q.limit
                /\ position' = Encoded(LastRow(page))
                /\ walk' = walk
             \/ /\ Cardinality(rows) <= q.limit
                /\ walk' = "over"
                /\ position' = position
    /\ UNCHANGED <<table, atStart>>

Next == Open \/ (\E q \in Query : List(q)) \/ \E r \in LogRow : InsertRow(r)

Spec == Init /\ [][Next]_vars

-----------------------------------------------------------------------------
(***************************************************************************)
(* Correctness properties.                                                 *)
(***************************************************************************)

\* The cursor predicate is strict: a walk never returns a row twice, however
\* rows come in and filters change between its pages.
NoRowTwice == repeated = {}

\* "changing a filter mid-pagination is legal and continues from the same
\* position": a walk that ends has returned every row there at its start that all
\* its queries match; no page boundary falls between two rows of one recorded_at
\* and loses some.
NothingMissed ==
    walk = "over" => {r \in atStart : \A q \in used : Matches(r, q)} \subseteq got
=============================================================================
