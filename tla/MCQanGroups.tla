----------------------------- MODULE MCQanGroups -----------------------------
(* Instances of QanGroups for TLC. *)
EXTENDS QanGroups, TLC

Symmetry == Permutations(Node) \cup Permutations(Edge) \cup Permutations(Group)
==============================================================================
