------------------------------ MODULE MCQanDrag ------------------------------
(* Instances of QanDrag for TLC. *)
EXTENDS QanDrag, TLC

Symmetry == Permutations(Node) \cup Permutations(Group)
==============================================================================
