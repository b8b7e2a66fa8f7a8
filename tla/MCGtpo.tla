------------------------------- MODULE MCGtpo -------------------------------
(* Instances of GtpoGraph and GtpoAlgorithms for TLC. *)
EXTENDS GtpoAlgorithms, TLC

Symmetry == Permutations(Node \ Group) \cup Permutations(Edge)
==============================================================================
