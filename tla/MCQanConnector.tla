---------------------------- MODULE MCQanConnector ----------------------------
(* Instances of QanConnector for TLC. *)
EXTENDS QanConnector, TLC

Symmetry == Permutations(Node) \cup Permutations(Edge) \cup Permutations(Port)
==============================================================================
