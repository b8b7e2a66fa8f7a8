----------------------------- MODULE MCQanItems -----------------------------
(* Two nodes, a group and an edge for TLC; the resizer has one of the nodes. *)
EXTENDS QanItems
CONSTANTS n1, n2, grp, e
MCEnds == [x \in {e} |-> <<n1, n2>>]
MCSpots == {<<0, 0>>, <<4, 0>>, <<6, 2>>, <<8, 0>>}
MCCorners == {<<0, 0>>, <<4, 0>>}
MCSizes == {<<2, 2>>, <<2, 4>>, <<4, 4>>}
MCShapes == {<<4, 4>>}
MCMinimums == {<<2, 4>>}
MCStrides == {<<-2, 0>>, <<0, -2>>, <<2, 2>>}
==============================================================================
