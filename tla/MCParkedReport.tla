--------------------------- MODULE MCParkedReport ---------------------------
(***************************************************************************)
(* User u enters A (c1), the same event is resent (c2), u is reported       *)
(* outside (c3) and inside again (c4); n is over the accuracy limit.  The   *)
(* calls start in any order and overlap.                                    *)
(***************************************************************************)
EXTENDS ParkedReport

Owner == [m \in Call |-> "u"]
Devices == [m \in Call |-> "d"]
Numbers == [m \in Call |-> CASE m = "c3" -> 2 [] m = "c4" -> 3 [] OTHER -> 1]
Inside == [m \in Call |-> IF m = "c3" THEN {} ELSE {"A"}]
=============================================================================
