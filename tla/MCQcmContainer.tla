---------------------------- MODULE MCQcmContainer ----------------------------
(* Instances of QcmContainer for TLC. *)
EXTENDS QcmContainer, TLC

Symmetry == Permutations(Object)
==============================================================================
