--------------------------- MODULE LogsPageProofs ---------------------------
(***************************************************************************)
(* Theorems about LogsPage, for every set of rows, every sequence of       *)
(* queries and any interleaving of inserts: a walk returns no row twice    *)
(* and, once it ends, has missed none.  The invariant is PageInv: what the *)
(* walk has returned lies at or above its cursor, and what it had to       *)
(* return from there up, it has returned.  Pages are cut by counting the   *)
(* rows above a row, so the argument is about counts: the row count above  *)
(* falls strictly along the order (FewerAbove).                            *)
(***************************************************************************)
EXTENDS LogsPage, SequenceLemmas, FiniteSetTheorems

-----------------------------------------------------------------------------
(***************************************************************************)
(* The order of the rows.                                                  *)
(***************************************************************************)

IsKey(k) == k.at \in Nat /\ k.id \in Nat
Above(S, r) == {s \in S : Below(r, s)}

\* Rows are keys, and (recorded_at, id) orders keys.
LEMMA RowsAreKeys == \A r \in LogRow : IsKey(r)
BY PageAssumption DEF PageAssumption, IsKey

\* A cursor's order is transitive.
LEMMA BelowTransitive ==
    ASSUME NEW r, NEW s, NEW t, IsKey(r), IsKey(s), IsKey(t), Below(r, s), Below(s, t)
    PROVE  Below(r, t)
BY DEF IsKey, Below

\* No key is below itself or below a key that is below it.
LEMMA BelowAsymmetric ==
    ASSUME NEW r, NEW s, IsKey(r), IsKey(s), Below(r, s)
    PROVE  ~Below(s, r) /\ r # s
BY DEF IsKey, Below

\* The id breaks every tie.
LEMMA BelowTotal ==
    ASSUME NEW r \in LogRow, NEW s \in LogRow
    PROVE  r = s \/ Below(r, s) \/ Below(s, r)
<1>1. r.id = s.id => r = s
  BY PageAssumption DEF PageAssumption
<1> QED BY <1>1, RowsAreKeys DEF IsKey, Below

\* Of two rows the upper one has fewer rows above it.
LEMMA FewerAbove ==
    ASSUME NEW S \in SUBSET LogRow, NEW r \in S, NEW s \in S, Below(r, s)
    PROVE  /\ Cardinality(Above(S, s)) \in Nat /\ Cardinality(Above(S, r)) \in Nat
           /\ Cardinality(Above(S, s)) < Cardinality(Above(S, r))
<1>1. IsFiniteSet(Above(S, r))
  <2>1. Above(S, r) \in SUBSET LogRow
    BY DEF Above
  <2> QED BY <2>1, PageAssumption, FS_Subset DEF PageAssumption
<1>2. Above(S, s) \in SUBSET Above(S, r)
  <2> SUFFICES ASSUME NEW t \in S, Below(s, t) PROVE Below(r, t)
    BY DEF Above
  <2> QED BY RowsAreKeys, BelowTransitive
<1>3. s \in Above(S, r) /\ s \notin Above(S, s)
  <2>1. ~Below(s, s)
    BY RowsAreKeys, BelowAsymmetric
  <2> QED BY <2>1 DEF Above
<1>4. IsFiniteSet(Above(S, s)) /\ Cardinality(Above(S, s)) <= Cardinality(Above(S, r))
      /\ (Cardinality(Above(S, r)) = Cardinality(Above(S, s)) => Above(S, r) = Above(S, s))
  BY <1>1, <1>2, FS_Subset
<1>5. Cardinality(Above(S, r)) \in Nat /\ Cardinality(Above(S, s)) \in Nat
  BY <1>1, <1>4, FS_CardinalityType
<1> QED BY <1>3, <1>4, <1>5

\* The number of rows above a row is a number.
LEMMA AboveCounts ==
    ASSUME NEW S \in SUBSET LogRow, NEW r
    PROVE  IsFiniteSet(Above(S, r)) /\ Cardinality(Above(S, r)) \in Nat
<1>1. Above(S, r) \in SUBSET LogRow
  BY DEF Above
<1> QED BY <1>1, PageAssumption, FS_Subset, FS_CardinalityType DEF PageAssumption

\* Some row of a set has none of the set above it.
LEMMA Uppermost ==
    ASSUME NEW S \in SUBSET LogRow, NEW T \in SUBSET S, T # {}
    PROVE  \E r \in T : \A s \in T : ~Below(r, s)
<1> DEFINE counts == {Cardinality(Above(S, r)) : r \in T}
<1>1. counts \subseteq Nat /\ counts # {}
  BY AboveCounts
<1>2. PICK n \in counts : \A k \in counts : n <= k
  BY <1>1, LeastNatural
<1>3. PICK r \in T : n = Cardinality(Above(S, r))
  BY <1>2
<1>4. ASSUME NEW s \in T, Below(r, s) PROVE FALSE
  <2>1. n <= Cardinality(Above(S, s))
    BY <1>2
  <2>2. /\ Cardinality(Above(S, s)) < n /\ n \in Nat /\ Cardinality(Above(S, s)) \in Nat
    BY <1>3, <1>4, FewerAbove
  <2> QED BY <2>1, <2>2
<1> QED BY <1>4

\* A page has a last row.
LEMMA LastOfPage ==
    ASSUME NEW page \in SUBSET LogRow, page # {}
    PROVE  LastRow(page) \in page /\ \A s \in page : s = LastRow(page) \/ Below(LastRow(page), s)
<1> DEFINE ats == {r.at : r \in page}
<1>1. ats \subseteq Nat /\ ats # {}
  BY RowsAreKeys DEF IsKey
<1>2. PICK t \in ats : \A x \in ats : t <= x
  BY <1>1, LeastNatural
<1> DEFINE ids == {r.id : r \in {s \in page : s.at = t}}
<1>3. ids \subseteq Nat /\ ids # {}
  BY <1>2, RowsAreKeys DEF IsKey
<1>4. PICK i \in ids : \A x \in ids : i <= x
  BY <1>3, LeastNatural
<1>5. PICK r \in page : r.at = t /\ r.id = i
  BY <1>4
<1>6. ASSUME NEW s \in page PROVE s = r \/ Below(r, s)
  <2>1. s.at \in ats /\ t <= s.at /\ t \in Nat /\ s.at \in Nat /\ i \in Nat /\ s.id \in Nat
    BY <1>1, <1>2, <1>3, RowsAreKeys DEF IsKey
  <2>2. s.at = t => i <= s.id
    BY <1>4
  <2>3. s.id = r.id => s = r
    BY PageAssumption DEF PageAssumption
  <2> QED BY <1>5, <2>1, <2>2, <2>3 DEF Below
<1> QED BY <1>6 DEF LastRow

\* A walk without a cursor is before every row.
LEMMA StartIsAbove == \A r \in LogRow : PastCursor(r, Start) /\ IsKey(Start)
<1> SUFFICES ASSUME NEW r \in LogRow PROVE PastCursor(r, Start) /\ IsKey(Start)
  OBVIOUS
<1>1. PICK m \in LogRow : \A s \in LogRow : ~Below(m, s)
  BY Uppermost
<1>2. \A s \in LogRow : s.at <= m.at
  BY <1>1, RowsAreKeys DEF IsKey, Below
<1>3. Newest \in {s.at : s \in LogRow} /\ \A s \in LogRow : s.at <= Newest
  BY <1>1, <1>2 DEF Newest
<1>4. Newest \in Nat /\ r.at \in Nat /\ r.at <= Newest
  BY <1>3, RowsAreKeys DEF IsKey
<1> QED BY <1>4 DEF PastCursor, Below, Start, IsKey

-----------------------------------------------------------------------------
(***************************************************************************)
(* What a page holds.                                                      *)
(***************************************************************************)

\* The page of a request: n of the n + 1 rows the query fetches.
Fetched(C, n) == Top(C, n + 1)
Page(C, n) == Top(Fetched(C, n), n)

\* A page is never empty when there are rows.
LEMMA PageNotEmpty ==
    ASSUME NEW C \in SUBSET LogRow, NEW n \in Nat \ {0}, Fetched(C, n) # {}
    PROVE  Page(C, n) # {}
<1> DEFINE rows == Fetched(C, n)
<1>1. rows \in SUBSET LogRow
  BY DEF Fetched, Top
<1>2. PICK r \in rows : \A s \in rows : ~Below(r, s)
  BY <1>1, Uppermost
<1>3. {s \in rows : Below(r, s)} = {}
  BY <1>2
<1>4. Cardinality({s \in rows : Below(r, s)}) = 0
  BY <1>3, FS_EmptySet
<1> HIDE DEF rows
<1>5. r \in Top(rows, n)
  BY <1>4 DEF Top
<1> QED BY <1>5 DEF Page, rows

\* A row above a row of the page is on the page.
LEMMA PageIsUpper ==
    ASSUME NEW C \in SUBSET LogRow, NEW n \in Nat \ {0},
           NEW l \in Page(C, n), NEW r \in C, Below(l, r)
    PROVE  r \in Page(C, n)
<1> DEFINE rows == Fetched(C, n)
<1>1. rows \in SUBSET C /\ l \in rows
  BY DEF Page, Fetched, Top
<1>2. Cardinality(Above(C, l)) < n + 1
  BY <1>1 DEF Fetched, Top, Above
<1>3. Cardinality(Above(C, r)) < n + 1
  BY <1>1, <1>2, FewerAbove
<1>4. r \in rows
  BY <1>3 DEF Fetched, Top, Above
<1>5. Cardinality(Above(rows, l)) < n
  BY DEF Page, Top, Above
<1>6. Cardinality(Above(rows, r)) < n
  BY <1>1, <1>4, <1>5, FewerAbove
<1> QED BY <1>4, <1>6 DEF Page, Top, Above

\* When no more than n rows were fetched, the page holds all candidates.
LEMMA LastPageIsAll ==
    ASSUME NEW C \in SUBSET LogRow, NEW n \in Nat \ {0}, Cardinality(Fetched(C, n)) <= n
    PROVE  C \subseteq Page(C, n)
<1> DEFINE rows == Fetched(C, n)
<1>1. rows \in SUBSET LogRow /\ rows \subseteq C
  BY DEF Fetched, Top
<1>2. IsFiniteSet(rows) /\ Cardinality(rows) \in Nat
  BY <1>1, PageAssumption, FS_Subset, FS_CardinalityType DEF PageAssumption
<1>3. C \subseteq rows
  <2> SUFFICES ASSUME C \ rows # {} PROVE FALSE
    OBVIOUS
  <2>1. PICK r \in C \ rows : \A s \in C \ rows : ~Below(r, s)
    BY Uppermost
  <2>2. Above(C, r) \in SUBSET rows
    BY <2>1 DEF Above
  <2>3. Cardinality(Above(C, r)) <= Cardinality(rows)
    BY <1>2, <2>2, FS_Subset
  <2>4. ~(Cardinality(Above(C, r)) < n + 1)
    BY <2>1 DEF Fetched, Top, Above
  <2>5. Cardinality(Above(C, r)) \in Nat
    BY AboveCounts
  <2> QED BY <1>2, <2>3, <2>4, <2>5
<1>4. ASSUME NEW r \in rows PROVE Cardinality(Above(rows, r)) < n
  <2>1. Above(rows, r) \in SUBSET rows /\ r \notin Above(rows, r)
    <3>1. ~Below(r, r)
      BY <1>1, RowsAreKeys, BelowAsymmetric
    <3> QED BY <3>1 DEF Above
  <2>2. /\ Cardinality(Above(rows, r)) <= Cardinality(rows)
        /\ Cardinality(rows) = Cardinality(Above(rows, r)) => rows = Above(rows, r)
    BY <1>2, <2>1, FS_Subset
  <2>3. Cardinality(Above(rows, r)) \in Nat
    BY <1>1, AboveCounts
  <2> QED BY <1>2, <1>4, <2>1, <2>2, <2>3
<1> HIDE DEF rows
<1>5. rows \subseteq Top(rows, n)
  BY <1>4 DEF Top, Above
<1> QED BY <1>3, <1>5 DEF Page, rows

-----------------------------------------------------------------------------
(***************************************************************************)
(* The walk.                                                               *)
(***************************************************************************)

PageTypeOK ==
    /\ table \subseteq LogRow /\ atStart \subseteq table /\ got \subseteq LogRow
    /\ LogRow # {} => IsKey(position)
    /\ walk \in {"idle", "walking", "over"}
    /\ walk = "idle" => position = Start /\ used = {}

\* What was returned lies at or above the cursor.
ReturnedAbove == walk # "over" => \A r \in got : ~PastCursor(r, position)
\* What every query so far matches and the cursor has passed, was returned.
PassedReturned ==
    walk # "over" =>
      \A r \in atStart : ((\A q \in used : Matches(r, q)) /\ ~PastCursor(r, position)) => r \in got

PageInv == PageTypeOK /\ ReturnedAbove /\ PassedReturned /\ NoRowTwice /\ NothingMissed

\* A request, whatever its filters and its limit.
LEMMA ListKeeps ==
    ASSUME PageInv, NEW q \in Query, List(q)
    PROVE  PageInv'
<1> DEFINE C == {r \in table : Matches(r, q) /\ PastCursor(r, position)}
           n == q.limit
           page == Page(C, n)
<1>1. /\ walk = "walking" /\ n \in Nat \ {0}
      /\ used' = used \union {q}
      /\ got' = got \union page
      /\ repeated' = repeated \union (got \intersect page)
      /\ \/ /\ Cardinality(Fetched(C, n)) > n
            /\ position' = Encoded(LastRow(page))
            /\ walk' = walk
         \/ /\ Cardinality(Fetched(C, n)) <= n
            /\ walk' = "over"
            /\ position' = position
      /\ UNCHANGED <<table, atStart>>
  BY PageAssumption DEF List, Accepted, Page, Fetched, PageAssumption
<1>2. C \in SUBSET LogRow /\ page \subseteq C
  BY DEF PageInv, PageTypeOK, Page, Fetched, Top
<1>3. \A r \in C : r \in table /\ Matches(r, q) /\ PastCursor(r, position)
  OBVIOUS
<1>4. \A r \in table : (Matches(r, q) /\ PastCursor(r, position)) => r \in C
  OBVIOUS
<1> HIDE DEF C, n, page
<1>5. NoRowTwice'
  BY <1>1, <1>2, <1>3 DEF PageInv, NoRowTwice, ReturnedAbove
<1>6. atStart \subseteq table /\ got \subseteq LogRow /\ table \subseteq LogRow
  BY DEF PageInv, PageTypeOK
<1>7. ASSUME NEW r \in atStart, \A p \in used' : Matches(r, p), r \notin got PROVE r \in C
  BY <1>1, <1>4, <1>6, <1>7 DEF PageInv, PassedReturned
<1>8. CASE /\ Cardinality(Fetched(C, n)) > n
           /\ position' = Encoded(LastRow(page))
           /\ walk' = walk
  <2>1. Fetched(C, n) # {}
    BY <1>1, <1>8, FS_EmptySet
  <2>2. page # {} /\ page \in SUBSET LogRow
    BY <1>1, <1>2, <2>1, PageNotEmpty DEF page
  <2>3. PICK l \in page : l = LastRow(page) /\ \A s \in page : s = l \/ Below(l, s)
    BY <2>2, LastOfPage
  <2>4. /\ position' = [at |-> l.at, id |-> l.id] /\ IsKey(l) /\ l \in LogRow
        /\ PastCursor(l, position) /\ l \in C
    BY <1>2, <1>3, <1>8, <2>2, <2>3, RowsAreKeys DEF Encoded
  <2>5. \A r : PastCursor(r, position') <=> Below(r, l)
    BY <2>4 DEF PastCursor, Below
  <2>6. IsKey(position) /\ IsKey(position')
    BY <2>4 DEF PageInv, PageTypeOK, IsKey
  <2>7. ASSUME NEW r \in got' PROVE ~Below(r, l)
    <3>1. CASE r \in page
      BY <2>2, <2>3, <2>4, <3>1, RowsAreKeys, BelowAsymmetric
    <3>2. CASE r \in got
      <4>1. ~Below(r, position) /\ IsKey(r) /\ Below(l, position)
        BY <1>1, <1>6, <2>4, <3>2, RowsAreKeys DEF PageInv, ReturnedAbove, PastCursor
      <4> QED BY <2>4, <2>6, <4>1, BelowTransitive
    <3> QED BY <1>1, <2>7, <3>1, <3>2
  <2>8. ASSUME NEW r \in atStart, \A p \in used' : Matches(r, p), ~Below(r, l) PROVE r \in got'
    <3>1. CASE r \in got
      BY <1>1, <3>1
    <3>2. CASE r \notin got
      <4>1. r \in C
        BY <1>7, <2>8, <3>2
      <4>2. r = l \/ Below(l, r)
        BY <1>6, <2>4, <2>8, BelowTotal
      <4>3. r \in page
        BY <1>1, <1>2, <2>3, <4>1, <4>2, PageIsUpper DEF page
      <4> QED BY <1>1, <4>3
    <3> QED BY <3>1, <3>2
  <2>9. PageTypeOK'
    BY <1>1, <1>2, <1>6, <1>8, <2>6 DEF PageTypeOK, IsKey
  <2>10. ReturnedAbove'
    BY <2>5, <2>7 DEF ReturnedAbove, PastCursor
  <2>11. PassedReturned'
    BY <1>1, <2>5, <2>8 DEF PassedReturned, PastCursor, Matches
  <2>12. NothingMissed'
    BY <1>1, <1>8 DEF NothingMissed
  <2> QED BY <1>5, <2>9, <2>10, <2>11, <2>12 DEF PageInv
<1>9. CASE /\ Cardinality(Fetched(C, n)) <= n
           /\ walk' = "over"
           /\ position' = position
  <2>1. C \subseteq page
    BY <1>1, <1>2, <1>9, LastPageIsAll DEF page
  <2>2. NothingMissed'
    BY <1>1, <1>7, <2>1 DEF NothingMissed, Matches
  <2>3. PageTypeOK'
    BY <1>1, <1>2, <1>6, <1>9 DEF PageInv, PageTypeOK, IsKey
  <2>4. ReturnedAbove' /\ PassedReturned'
    BY <1>9 DEF ReturnedAbove, PassedReturned
  <2> QED BY <1>5, <2>2, <2>3, <2>4 DEF PageInv
<1> QED BY <1>1, <1>8, <1>9

\* At the start nothing has been returned.
LEMMA InitPage == Init => PageInv
<1> SUFFICES ASSUME Init PROVE PageInv
  OBVIOUS
<1>1. LogRow # {} => IsKey(Start)
  BY StartIsAbove
<1> QED BY <1>1, PageAssumption
        DEF PageAssumption, Init, PageInv, PageTypeOK, ReturnedAbove, PassedReturned, NoRowTwice,
            NothingMissed

\* Every step keeps the invariant.
LEMMA NextPage == PageInv /\ [Next]_vars => PageInv'
<1> SUFFICES ASSUME PageInv, [Next]_vars PROVE PageInv'
  OBVIOUS
<1>1. CASE Open
  <2>1. /\ walk = "idle" /\ walk' = "walking" /\ atStart' = table /\ position = Start
        /\ UNCHANGED <<table, used, position, got, repeated>> /\ table \subseteq LogRow
    BY <1>1 DEF Open, PageInv, PageTypeOK
  <2>2. PassedReturned'
    BY <2>1, StartIsAbove DEF PassedReturned, PastCursor, Below, Start, Newest
  <2> QED BY <2>1, <2>2 DEF PageInv, PageTypeOK, ReturnedAbove, NoRowTwice, NothingMissed,
                            PastCursor, Below, IsKey
<1>2. ASSUME NEW q \in Query, List(q) PROVE PageInv'
  BY <1>2, ListKeeps
<1>3. ASSUME NEW r \in LogRow, InsertRow(r) PROVE PageInv'
  BY <1>3 DEF InsertRow, PageInv, PageTypeOK, ReturnedAbove, PassedReturned, NoRowTwice,
              NothingMissed, PastCursor, Below, IsKey, Start, Newest, Matches
<1>4. CASE UNCHANGED vars
  BY <1>4 DEF vars, PageInv, PageTypeOK, ReturnedAbove, PassedReturned, NoRowTwice,
              NothingMissed, PastCursor, Below, IsKey, Start, Newest, Matches
<1> QED BY <1>1, <1>2, <1>3, <1>4 DEF Next

\* The cursor predicate is strict: a walk never returns a row twice, for every
\* set of rows, and however rows come in and filters change between its pages.
THEOREM WalkNeverRepeats == Spec => []NoRowTwice
<1>1. PageInv => NoRowTwice
  BY DEF PageInv
<1> QED BY <1>1, InitPage, NextPage, PTL DEF Spec

\* A walk that ends has returned every row there at its start that all its
\* queries match, for every set of rows, limits and filters: the keyset cursor
\* loses none at a page boundary.
THEOREM WalkMissesNothing == Spec => []NothingMissed
<1>1. PageInv => NothingMissed
  BY DEF PageInv
<1> QED BY <1>1, InitPage, NextPage, PTL DEF Spec
=============================================================================
