--------------------------- MODULE MCQanNavigable ---------------------------
(* A square and a wide view at the origin of their parent, and a square one   *)
(* beside it; a content at the origin of the container, one beside it and one *)
(* that is wider than the views.                                              *)
EXTENDS QanNavigable

MCGeometries == {[left |-> 0, width |-> 4, height |-> 4],
                 [left |-> 0, width |-> 8, height |-> 4],
                 [left |-> 2, width |-> 4, height |-> 4]}
MCContents == {[left |-> 0, width |-> 4, height |-> 4],
               [left |-> 2, width |-> 2, height |-> 2],
               [left |-> 0, width |-> 8, height |-> 2]}
==============================================================================
