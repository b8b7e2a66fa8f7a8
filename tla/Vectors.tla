------------------------------- MODULE Vectors -------------------------------
(* The vectors of the C++ code as sequences, beside what SequencesExt has.   *)
EXTENDS Integers, SequencesExt

(* The elements that are in S, in their order. *)
Kept(s, S) ==
  LET kept[i \in 0 .. Len(s)] ==
        IF i = 0 THEN <<>> ELSE IF s[i] \in S THEN Append(kept[i - 1], s[i]) ELSE kept[i - 1]
  IN kept[Len(s)]

(* Every occurrence of x is erased: QVector::removeAll(), and erase() of what *)
(* std::remove() leaves at the end of a std::vector.                          *)
Erased(s, x) == Kept(s, ToSet(s) \ {x})
==============================================================================
