--------------------------- MODULE MCAreaSnapshot ---------------------------
(***************************************************************************)
(* One process with two overlapping polls; the local areas are one with a  *)
(* hole that touches its outer ring, a self-crossing one, and bodies that  *)
(* are no polygon; the area stored elsewhere has a boundary finer than     *)
(* nine decimals.  Positions are asked for on and off edges.               *)
(***************************************************************************)
EXTENDS AreaSnapshot

CONSTANT NotANumber

Polygon(rings) == [type |-> "Polygon", coordinates |-> rings]

Square == <<<<0, 0>>, <<3, 0>>, <<3, 3>>, <<0, 3>>, <<0, 0>>>>

MCBoundary == [
    l1 |-> Polygon(<<
        <<<<-6, -3>>, <<6, -3>>, <<6, 0>>, <<3, 3>>, <<-6, 3>>, <<-6, -3>>>>,
        <<<<-3, 0>>, <<3, 0>>, <<0, -3>>, <<-3, 0>>>>>>),
    bad |-> Polygon(<<<<<<-3, -3>>, <<3, 3>>, <<3, -3>>, <<-3, 3>>, <<-3, -3>>>>>>),
    r |-> Polygon(<<<<<<-5, -2>>, <<4, -1>>, <<1, 2>>, <<-5, -2>>>>>>),
    multi |-> [type |-> "MultiPolygon", coordinates |-> <<Square>>],
    empty |-> Polygon(<<>>),
    short |-> Polygon(<<<<<<0, 0>>, <<3, 0>>, <<0, 0>>>>>>),
    open |-> Polygon(<<<<<<0, 0>>, <<3, 0>>, <<3, 3>>, <<0, 3>>>>>>),
    triple |-> Polygon(<<<<<<0, 0, 1>>, <<3, 0>>, <<3, 3>>, <<0, 0, 1>>>>>>),
    text |-> Polygon(<<<<<<NotANumber, 0>>, <<3, 0>>, <<3, 3>>, <<NotANumber, 0>>>>>>),
    swapped |-> Polygon(<<<<<<0, 0>>, <<0, 6>>, <<3, 6>>, <<0, 0>>>>>>),
    big |-> Polygon(<<Square, Square, Square>>)]

MCPoint == {-6, -3, 0, 2, 5} \X {-3, -1, 0, 3}
=============================================================================
