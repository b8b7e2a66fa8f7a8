---------------------------- MODULE MCGTpoTopology ----------------------------
(* Instances of GTpoTopology for TLC. *)
EXTENDS GTpoTopology, TLC

Symmetry == Permutations(Node) \cup Permutations(Edge)
==============================================================================
