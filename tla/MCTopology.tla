----------------------------- MODULE MCTopology -----------------------------
(***************************************************************************)
(* The same deployment again and again, some of its jobs cut short.        *)
(***************************************************************************)
EXTENDS Topology
=============================================================================
