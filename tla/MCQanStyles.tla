------------------------------ MODULE MCQanStyles ------------------------------
(* Instances of QanStyles for TLC. *)
EXTENDS QanStyles
==============================================================================
