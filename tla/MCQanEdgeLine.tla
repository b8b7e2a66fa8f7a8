---------------------------- MODULE MCQanEdgeLine ----------------------------
(* Instances of QanEdgeLine for TLC. *)
EXTENDS QanEdgeLine

MCFaces == {<<4, 4>>, <<4, 8>>, <<8, 4>>}
MCAfar == {-120, -32, -12, -8, -6, 0, 6, 8, 12, 32, 120}
          \X {-120, -32, -12, -8, -6, 0, 6, 8, 12, 32, 120}
==============================================================================
