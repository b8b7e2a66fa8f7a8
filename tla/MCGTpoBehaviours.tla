--------------------------- MODULE MCGTpoBehaviours ---------------------------
(* Instances of GTpoBehaviours for TLC. *)
EXTENDS GTpoBehaviours

Symmetry == Permutations(Node) \cup Permutations(Edge)
==============================================================================
