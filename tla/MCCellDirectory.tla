--------------------------- MODULE MCCellDirectory ---------------------------
(* Four cells, three layers, up to three points and three segments.        *)
EXTENDS CellDirectory

Point(fine, coarse, layer) == [fine |-> fine, coarse |-> coarse, layer |-> layer]
Segment(cells, layer) == [cells |-> cells, layer |-> layer]

(* Points in one cell and in several, addresses and places mixed, one list  *)
(* too long for the ids.                                                    *)
MCPoints ==
  {<<>>,
   <<Point(2, 1, "address"), Point(0, 1, "place")>>,
   <<Point(1, 3, "place"), Point(1, 0, "address"), Point(1, 0, "place")>>,
   <<Point(3, 2, "address"), Point(0, 0, "address"), Point(3, 2, "address")>>,
   <<Point(3, 2, "address"), Point(0, 0, "place"), Point(0, 2, "place"),
     Point(1, 1, "place")>>}

(* Segments in one cell, in several and in the same ones, over two chunks.  *)
MCSegments ==
  {<<>>,
   <<Segment({0, 1}, "street")>>,
   <<Segment({1, 2}, "street"), Segment({2}, "address"), Segment({1, 3}, "street")>>}

MCInputs == {[points |-> p, segments |-> s] : p \in MCPoints, s \in MCSegments}

MCDisks == {<<>>, <<2>>, <<1, 3>>, <<3, 0, 1>>, <<0, 1, 2, 3>>}
=============================================================================
