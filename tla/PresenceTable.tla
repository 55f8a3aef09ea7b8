---------------------------- MODULE PresenceTable ----------------------------
(***************************************************************************)
(* The tables the transition path writes: areas, presence and logs, and the *)
(* body of the transaction of LocationsService.report.  The transaction    *)
(* holds the user's advisory lock from its first statement to COMMIT, so   *)
(* for one user it is a single step; whoever composes this module says     *)
(* when it runs and what its caller does with the outcome.                 *)
(***************************************************************************)
EXTENDS FiniteSets

CONSTANTS
    User,
    Area,           \* every area id that ever exists; ids are never reused
    InitialAreas,   \* the areas that exist at the start
    Doomed          \* the areas an operator may delete

ASSUME AreaAssumption ==
    /\ IsFiniteSet(Area)
    /\ InitialAreas \subseteq Area
    /\ Doomed \subseteq Area

VARIABLES
    areaState,  \* area -> "future" | "live" | "gone"
    presence,   \* user -> areas with a presence row
    logs        \* entry rows

tableVars == <<areaState, presence, logs>>

Live == {a \in Area : areaState[a] = "live"}

TablesInit ==
    /\ areaState = [a \in Area |-> IF a \in InitialAreas THEN "live" ELSE "future"]
    /\ presence = [u \in User |-> {}]
    /\ logs = {}

\* Mutant of Differs: the length comparison is dropped.
DiffersByMember(current, previous) == \E a \in current : a \notin previous

\* differs(): unequal lengths, or a current area that is not a previous one.
\* The id lists have no repetitions, so a list's length is its set's size.
Differs(current, previous) ==
    \/ Cardinality(current) # Cardinality(previous)
    \/ \E a \in current : a \notin previous

Entered(u, current) == current \ presence[u]
Departed(u, current) == presence[u] \ current

\* The foreign keys to areas hold for every row the transaction inserts.
ForeignKeysHold(u, current) == Entered(u, current) \subseteq Live

\* Mutants of Transition: exits are logged too; the departed rows are left in
\* place.
TransitionLogsExits(u, current, stamp) ==
    /\ presence' = [presence EXCEPT ![u] = current]
    /\ logs' = logs \union {[user |-> u, area |-> a, stamp |-> stamp] :
                             a \in Entered(u, current) \union Departed(u, current)}
    /\ UNCHANGED areaState

TransitionKeepsDeparted(u, current, stamp) ==
    /\ presence' = [presence EXCEPT ![u] = @ \union current]
    /\ logs' = logs \union
          {[user |-> u, area |-> a, stamp |-> stamp] : a \in Entered(u, current)}
    /\ UNCHANGED areaState

\* The transaction body: one presence row and one log row for each entered
\* area (the insert returns a row, as nobody else writes under the lock), and
\* the departed rows deleted.  The stamp identifies the attempt that wrote.
Transition(u, current, stamp) ==
    /\ presence' = [presence EXCEPT
                      ![u] = (@ \union Entered(u, current)) \ Departed(u, current)]
    /\ logs' = logs \union
          {[user |-> u, area |-> a, stamp |-> stamp] : a \in Entered(u, current)}
    /\ UNCHANGED areaState

CreateArea(a) ==
    /\ areaState[a] = "future"
    /\ areaState' = [areaState EXCEPT ![a] = "live"]
    /\ UNCHANGED <<presence, logs>>

\* No endpoint deletes an area; an operator may, and both foreign keys cascade.
DeleteArea(a) ==
    /\ a \in Doomed
    /\ areaState[a] = "live"
    /\ areaState' = [areaState EXCEPT ![a] = "gone"]
    /\ presence' = [u \in User |-> presence[u] \ {a}]
    /\ logs' = {r \in logs : r.area # a}
=============================================================================
