---------------------------- MODULE MCQanSelection ----------------------------
(* Instances of QanSelection for TLC. *)
EXTENDS QanSelection, TLC

Symmetry == Permutations(Node) \cup Permutations(Group)
==============================================================================
