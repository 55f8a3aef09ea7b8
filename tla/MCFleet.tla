------------------------------ MODULE MCFleet -------------------------------
(***************************************************************************)
(* Two workers, deployments with one or two partitions (one worker for both *)
(* or one for each, and a range the wrong way round), and a user who        *)
(* prefers the partition only the larger one has.  The user enters an area *)
(* and leaves it: the second event has nothing to write until the first is *)
(* in the table.                                                           *)
(***************************************************************************)
EXTENDS Fleet

MCAreas == [u |-> <<{"A"}, {}>>]
MCPrefer == [u |-> <<1, 0>>]
MCSpecs == {<<<<0>>>>, <<<<1>>>>, <<<<0, 1>>>>, <<<<1, 0>>>>}
=============================================================================
