------------------------------ MODULE EntryLog ------------------------------
(***************************************************************************)
(* What the transition model promises about the two tables it owns: a row  *)
(* is appended to `logs` exactly when a user goes from outside an area to  *)
(* inside it, in the same atomic step that moves the presence row; staying *)
(* and leaving append nothing, and nothing is ever rewritten.  Removing an *)
(* area takes its presence and log rows with it (ON DELETE CASCADE).       *)
(***************************************************************************)
CONSTANTS User, Area, Stamp

VARIABLES
    presence,   \* user -> areas the user is inside
    logs        \* the entry rows

vars == <<presence, logs>>

Row == [user : User, area : Area, stamp : Stamp]

Init ==
    /\ presence = [u \in User |-> {}]
    /\ logs = {}

\* User u is now inside exactly the areas `current`.  The rows are new: no
\* row of u carries the stamp yet.
Move(u, current, stamp) ==
    LET entered == current \ presence[u] IN
    /\ entered # {} => \A r \in logs : r.user = u => r.stamp # stamp
    /\ presence' = [presence EXCEPT ![u] = current]
    /\ logs' = logs \union {[user |-> u, area |-> a, stamp |-> stamp] : a \in entered}

\* Area a is deleted.
Drop(a) ==
    /\ presence' = [u \in User |-> presence[u] \ {a}]
    /\ logs' = {r \in logs : r.area # a}

Next ==
    \/ \E u \in User, current \in SUBSET Area, stamp \in Stamp : Move(u, current, stamp)
    \/ \E a \in Area : Drop(a)

Spec == Init /\ [][Next]_vars
=============================================================================
