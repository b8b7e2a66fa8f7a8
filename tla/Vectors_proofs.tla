--------------------------- MODULE Vectors_proofs ---------------------------
(***************************************************************************)
(* Proofs about what is kept in vectors: the containers of QuickContainers *)
(* with their model (QcmContainer), and the graph of the new GTpo          *)
(* (GtpoGraph).                                                            *)
(*                                                                         *)
(* A removal from a vector is a loop, here a recursive function on its     *)
(* positions; what it computes for every vector is proved by induction,    *)
(* stated for sets of numbers.                                             *)
(***************************************************************************)
EXTENDS QcmContainer, GtpoGraph, SequenceTheorems, WellFoundedInduction, TLAPS

(* A set of numbers that is not empty has a least element: no decreasing *)
(* sequence of numbers goes on for ever.                                 *)
LEMMA Least ==
  ASSUME NEW T \in SUBSET Nat, T # {}
  PROVE  \E x \in T : \A y \in T : x <= y
<1>1. IsWellFoundedOn({ss \in Nat \X Nat : ss[1] < ss[2]}, Nat)
  BY NatLessThanWellFounded DEF OpToRel
<1>2. PICK x \in T : \A y \in T : ~(<<y, x>> \in {ss \in Nat \X Nat : ss[1] < ss[2]})
  BY <1>1, WFMin
<1>3. ASSUME NEW y \in T PROVE x <= y
  <2>1. <<y, x>> \in Nat \X Nat
    OBVIOUS
  <2>2. ~(y < x)
    BY <1>2, <2>1
  <2>3. x \in Nat /\ y \in Nat
    OBVIOUS
  <2> QED BY <2>2, <2>3
<1> QED BY <1>3

(* Induction over the numbers, for sets: what the provers cannot instantiate *)
(* for an operator they can for a set.                                       *)
LEMMA Induction ==
  ASSUME NEW S, 0 \in S, \A n \in Nat : n \in S => n + 1 \in S
  PROVE  Nat \subseteq S
<1> SUFFICES ASSUME Nat \ S # {} PROVE FALSE
  OBVIOUS
<1>1. PICK x \in Nat \ S : \A y \in Nat \ S : x <= y
  BY Least
<1>2. x - 1 \in Nat
  BY <1>1
<1> QED BY <1>1, <1>2

(* The same up to a bound. *)
LEMMA BoundedInduction ==
  ASSUME NEW n \in Nat, NEW S, 0 \in S, \A i \in 0 .. n - 1 : i \in S => i + 1 \in S
  PROVE  \A i \in 0 .. n : i \in S
<1> DEFINE T == {i \in Nat : i \in 0 .. n => i \in S}
<1>1. 0 \in T
  OBVIOUS
<1>2. \A i \in Nat : i \in T => i + 1 \in T
  OBVIOUS
<1> HIDE DEF T
<1>3. Nat \subseteq T
  BY <1>1, <1>2, Induction
<1> QED BY <1>3 DEF T

(* The vectors kept by Kept, one per length of the part looked at. *)
LEMMA KeptSteps ==
  ASSUME NEW T, NEW s \in Seq(T), NEW S
  PROVE  \E kept : /\ Kept(s, S) = kept[Len(s)]
                   /\ kept[0] = <<>>
                   /\ \A i \in 1 .. Len(s) :
                        kept[i] = IF s[i] \in S THEN Append(kept[i - 1], s[i]) ELSE kept[i - 1]
<1> DEFINE Of(n, f) == f = [i \in 0 .. n |-> IF i = 0 THEN <<>>
                              ELSE IF s[i] \in S THEN Append(f[i - 1], s[i]) ELSE f[i - 1]]
           Good == {n \in Nat : \E f : Of(n, f)}
<1>1. 0 \in Good
  <2> DEFINE f == [i \in 0 .. 0 |-> <<>>]
  <2>1. Of(0, f)
    OBVIOUS
  <2> QED BY <2>1
<1>2. ASSUME NEW n \in Nat, n \in Good PROVE n + 1 \in Good
  <2>1. PICK f : Of(n, f)
    BY <1>2
  <2> DEFINE g == [i \in 0 .. n + 1 |-> IF i <= n THEN f[i]
                     ELSE IF s[i] \in S THEN Append(f[i - 1], s[i]) ELSE f[i - 1]]
  <2>2. \A i \in 0 .. n : f[i] = IF i = 0 THEN <<>>
                            ELSE IF s[i] \in S THEN Append(f[i - 1], s[i]) ELSE f[i - 1]
    BY <2>1
  <2> HIDE DEF Of
  <2>3. \A i \in 0 .. n + 1 : g[i] = IF i = 0 THEN <<>>
                                ELSE IF s[i] \in S THEN Append(g[i - 1], s[i]) ELSE g[i - 1]
    BY <2>2
  <2>4. Of(n + 1, g)
    BY <2>3 DEF Of
  <2> QED BY <2>4
<1> DEFINE kept == CHOOSE f : Of(Len(s), f)
<1>3. Of(Len(s), kept)
  <2>1. Nat \subseteq Good
    <3> HIDE DEF Good
    <3> QED BY <1>1, <1>2, Induction
  <2>2. Len(s) \in Nat
    OBVIOUS
  <2>3. \E f : Of(Len(s), f)
    <3> HIDE DEF Of
    <3> QED BY <2>1, <2>2
  <2> QED BY <2>3
<1>4. Kept(s, S) = kept[Len(s)]
  BY DEF Kept
<1> HIDE DEF kept
<1>5. \A i \in 0 .. Len(s) : kept[i] = IF i = 0 THEN <<>>
        ELSE IF s[i] \in S THEN Append(kept[i - 1], s[i]) ELSE kept[i - 1]
  BY <1>3
<1> HIDE DEF Of
<1>6. kept[0] = <<>>
  BY <1>5
<1>7. \A i \in 1 .. Len(s) :
        kept[i] = IF s[i] \in S THEN Append(kept[i - 1], s[i]) ELSE kept[i - 1]
  BY <1>5
<1> QED BY <1>4, <1>6, <1>7

(* An element more. *)
LEMMA AppendedProperties ==
  ASSUME NEW T, NEW s \in Seq(T), NEW x \in T
  PROVE  /\ Append(s, x) \in Seq(T)
         /\ Len(Append(s, x)) = Len(s) + 1
         /\ ToSet(Append(s, x)) = ToSet(s) \cup {x}
         /\ IsInjective(s) /\ x \notin ToSet(s) => IsInjective(Append(s, x))
<1> DEFINE r == Append(s, x)
<1>1. /\ r \in Seq(T)
      /\ Len(r) = Len(s) + 1
      /\ \A i \in 1 .. Len(s) : r[i] = s[i]
      /\ r[Len(s) + 1] = x
  OBVIOUS
<1> HIDE DEF r
<1>2. ToSet(r) \subseteq ToSet(s) \cup {x}
  BY <1>1 DEF ToSet
<1>3. ToSet(s) \cup {x} \subseteq ToSet(r)
  BY <1>1 DEF ToSet
<1>4. ASSUME IsInjective(s), x \notin ToSet(s) PROVE IsInjective(r)
  <2>1. \A i \in 1 .. Len(s) : s[i] # x
    BY <1>4 DEF ToSet
  <2>2. \A i, j \in 1 .. Len(s) : s[i] = s[j] => i = j
    BY <1>4 DEF IsInjective
  <2>3. \A i, j \in 1 .. Len(s) + 1 : r[i] = r[j] => i = j
    BY <1>1, <2>1, <2>2
  <2>4. DOMAIN r = 1 .. Len(s) + 1
    BY <1>1
  <2> QED BY <2>3, <2>4 DEF IsInjective
<1>5. /\ r \in Seq(T)
      /\ Len(r) = Len(s) + 1
      /\ ToSet(r) = ToSet(s) \cup {x}
      /\ IsInjective(s) /\ x \notin ToSet(s) => IsInjective(r)
  BY <1>1, <1>2, <1>3, <1>4
<1> QED BY <1>5 DEF r

(* The empty vector. *)
LEMMA EmptyProperties ==
  /\ ToSet(<<>>) = {}
  /\ IsInjective(<<>>)
  BY DEF ToSet, IsInjective

(* What Kept keeps, and that it brings no element twice. *)
LEMMA KeptProperties ==
  ASSUME NEW T, NEW s \in Seq(T), NEW S
  PROVE  /\ Kept(s, S) \in Seq(T)
         /\ Len(Kept(s, S)) <= Len(s)
         /\ ToSet(Kept(s, S)) = ToSet(s) \cap S
         /\ IsInjective(s) => IsInjective(Kept(s, S))
<1>1. PICK kept : /\ Kept(s, S) = kept[Len(s)]
                  /\ kept[0] = <<>>
                  /\ \A i \in 1 .. Len(s) :
                       kept[i] = IF s[i] \in S THEN Append(kept[i - 1], s[i]) ELSE kept[i - 1]
  BY KeptSteps
<1> DEFINE Of(i) == /\ kept[i] \in Seq(T)
                    /\ Len(kept[i]) <= i
                    /\ ToSet(kept[i]) = {s[j] : j \in 1 .. i} \cap S
                    /\ IsInjective(s) => IsInjective(kept[i])
           Good == {i \in Nat : Of(i)}
<1>2. 0 \in Good
  <2>1. kept[0] = <<>> /\ {s[j] : j \in 1 .. 0} = {}
    BY <1>1
  <2>2. Of(0)
    BY <2>1, EmptyProperties
  <2> QED BY <2>2
<1>3. ASSUME NEW i \in 0 .. Len(s) - 1, i \in Good PROVE i + 1 \in Good
  <2> DEFINE k == kept[i]
             x == s[i + 1]
             head == {s[j] : j \in 1 .. i}
  <2>1. x \in T /\ i \in Nat /\ i + 1 \in Nat
    OBVIOUS
  <2>2. kept[i + 1] = IF x \in S THEN Append(k, x) ELSE k
    BY <1>1
  <2>3. {s[j] : j \in 1 .. i + 1} = head \cup {x}
    OBVIOUS
  <2>4. IsInjective(s) => x \notin head
    BY DEF IsInjective
  <2>5. /\ k \in Seq(T)
        /\ Len(k) <= i
        /\ ToSet(k) = head \cap S
        /\ IsInjective(s) => IsInjective(k)
    BY <1>3
  <2>6. kept[i + 1] \in Seq(T) /\ Len(kept[i + 1]) <= i + 1
    <3> HIDE DEF k, x
    <3> QED BY <2>1, <2>2, <2>5
  <2> HIDE DEF k, x, head
  <2>7. ToSet(kept[i + 1]) = (head \cup {x}) \cap S
    <3>1. ToSet(Append(k, x)) = ToSet(k) \cup {x}
      BY <2>1, <2>5, AppendedProperties
    <3> QED BY <2>2, <2>5, <3>1
  <2>8. IsInjective(s) => IsInjective(kept[i + 1])
    <3>1. IsInjective(k) /\ x \notin ToSet(k) => IsInjective(Append(k, x))
      BY <2>1, <2>5, AppendedProperties
    <3> QED BY <2>2, <2>4, <2>5, <3>1
  <2> QED BY <2>1, <2>3, <2>6, <2>7, <2>8
<1>4. Len(s) \in Good
  <2> HIDE DEF Good
  <2>1. \A i \in 0 .. Len(s) : i \in Good
    BY <1>2, <1>3, BoundedInduction
  <2> QED BY <2>1
<1>5. ToSet(s) = {s[j] : j \in 1 .. Len(s)}
  BY DEF ToSet
<1> QED BY <1>1, <1>4, <1>5

(* Erased takes out every occurrence of x and nothing else. *)
LEMMA ErasedProperties ==
  ASSUME NEW T, NEW s \in Seq(T), NEW x
  PROVE  /\ Erased(s, x) \in Seq(T)
         /\ Len(Erased(s, x)) <= Len(s)
         /\ ToSet(Erased(s, x)) = ToSet(s) \ {x}
         /\ IsInjective(s) => IsInjective(Erased(s, x))
<1>1. ToSet(s) \cap (ToSet(s) \ {x}) = ToSet(s) \ {x}
  OBVIOUS
<1> QED BY <1>1, KeptProperties DEF Erased

(* Erasing the only occurrence of an element removes its row. *)
LEMMA ErasedOnce ==
  ASSUME NEW T, NEW s \in Seq(T), IsInjective(s), NEW k \in 1 .. Len(s)
  PROVE  /\ Erased(s, s[k]) = RemoveAt(s, k)
         /\ Len(Erased(s, s[k])) = Len(s) - 1
<1> DEFINE S == ToSet(s) \ {s[k]}
<1>1. PICK kept : /\ Kept(s, S) = kept[Len(s)]
                  /\ kept[0] = <<>>
                  /\ \A i \in 1 .. Len(s) :
                       kept[i] = IF s[i] \in S THEN Append(kept[i - 1], s[i]) ELSE kept[i - 1]
  BY KeptSteps
<1>2. \A i \in 1 .. Len(s) : s[i] \in T /\ (s[i] \in S <=> i # k)
  BY DEF IsInjective, ToSet
<1> HIDE DEF S
<1> DEFINE Of(i) == /\ kept[i] \in Seq(T)
                    /\ Len(kept[i]) = IF i < k THEN i ELSE i - 1
                    /\ \A j \in 1 .. Len(kept[i]) : kept[i][j] = IF j < k THEN s[j] ELSE s[j + 1]
           Good == {i \in Nat : Of(i)}
<1>3. 0 \in Good
  <2>1. kept[0] = <<>> /\ 0 < k
    BY <1>1
  <2>2. Of(0)
    BY <2>1
  <2> QED BY <2>2
<1>4. ASSUME NEW i \in 0 .. Len(s) - 1, i \in Good PROVE i + 1 \in Good
  <2>1. kept[i + 1] = IF i + 1 # k THEN Append(kept[i], s[i + 1]) ELSE kept[i]
    BY <1>1, <1>2
  <2>2. s[i + 1] \in T
    BY <1>2
  <2> DEFINE a == kept[i]
             b == kept[i + 1]
  <2>3. /\ a \in Seq(T)
        /\ Len(a) = IF i < k THEN i ELSE i - 1
        /\ \A j \in 1 .. Len(a) : a[j] = IF j < k THEN s[j] ELSE s[j + 1]
    BY <1>4
  <2>4. b = IF i + 1 # k THEN Append(a, s[i + 1]) ELSE a
    BY <2>1
  <2> HIDE DEF a, b
  <2>5. b \in Seq(T)
    BY <2>2, <2>3, <2>4
  <2>6. Len(b) = IF i + 1 < k THEN i + 1 ELSE i
    BY <2>2, <2>3, <2>4
  <2>7. \A j \in 1 .. Len(b) : b[j] = IF j < k THEN s[j] ELSE s[j + 1]
    BY <2>2, <2>3, <2>4
  <2> QED BY <2>5, <2>6, <2>7 DEF b
<1>5. Len(s) \in Good
  <2>1. Len(s) \in Nat
    OBVIOUS
  <2> HIDE DEF Good
  <2>2. \A i \in 0 .. Len(s) : i \in Good
    BY <1>3, <1>4, <2>1, BoundedInduction
  <2> QED BY <2>1, <2>2
<1> DEFINE r == RemoveAt(s, k)
<1>6. /\ r \in Seq(T)
      /\ Len(r) = Len(s) - 1
      /\ \A j \in 1 .. Len(s) - 1 : r[j] = IF j < k THEN s[j] ELSE s[j + 1]
  <2>1. /\ SubSeq(s, 1, k - 1) \in Seq(T)
        /\ Len(SubSeq(s, 1, k - 1)) = k - 1
        /\ \A j \in 1 .. k - 1 : SubSeq(s, 1, k - 1)[j] = s[j]
    BY SubSeqProperties
  <2>2. /\ SubSeq(s, k + 1, Len(s)) \in Seq(T)
        /\ Len(SubSeq(s, k + 1, Len(s))) = Len(s) - k
        /\ \A j \in 1 .. Len(s) - k : SubSeq(s, k + 1, Len(s))[j] = s[j + k]
    BY SubSeqProperties
  <2> DEFINE a == SubSeq(s, 1, k - 1)
             b == SubSeq(s, k + 1, Len(s))
  <2>3. r = a \o b
    BY DEF RemoveAt
  <2> HIDE DEF a, b, r
  <2>4. /\ r \in Seq(T)
        /\ Len(r) = Len(a) + Len(b)
        /\ \A j \in 1 .. Len(a) + Len(b) : r[j] = IF j <= Len(a) THEN a[j] ELSE b[j - Len(a)]
    BY <2>1, <2>2, <2>3, ConcatProperties DEF a, b
  <2>5. /\ Len(a) = k - 1 /\ Len(b) = Len(s) - k
        /\ \A j \in 1 .. k - 1 : a[j] = s[j]
        /\ \A j \in 1 .. Len(s) - k : b[j] = s[j + k]
    BY <2>1, <2>2 DEF a, b
  <2>6. Len(s) \in Nat
    OBVIOUS
  <2> QED BY <2>4, <2>5, <2>6
<1> HIDE DEF r
<1>7. kept[Len(s)] = r
  <2> DEFINE q == kept[Len(s)]
  <2>1. /\ q \in Seq(T)
        /\ Len(q) = Len(s) - 1
        /\ \A j \in 1 .. Len(q) : q[j] = IF j < k THEN s[j] ELSE s[j + 1]
    BY <1>5
  <2> HIDE DEF q
  <2>2. q = r
    BY <1>6, <2>1, SeqEqual
  <2> QED BY <2>2 DEF q
<1> QED BY <1>1, <1>6, <1>7 DEF Erased, S, r

(* Erasing an element there is makes the vector shorter. *)
LEMMA ErasedShorter ==
  ASSUME NEW T, NEW s \in Seq(T), NEW x \in ToSet(s)
  PROVE  Len(Erased(s, x)) <= Len(s) - 1
<1> DEFINE S == ToSet(s) \ {x}
<1>1. PICK kept : /\ Kept(s, S) = kept[Len(s)]
                  /\ kept[0] = <<>>
                  /\ \A i \in 1 .. Len(s) :
                       kept[i] = IF s[i] \in S THEN Append(kept[i - 1], s[i]) ELSE kept[i - 1]
  BY KeptSteps
<1>2. PICK k \in 1 .. Len(s) : s[k] = x
  BY DEF ToSet
<1>3. s[k] \notin S
  BY <1>2
<1> HIDE DEF S
<1> DEFINE Of(i) == kept[i] \in Seq(T) /\ Len(kept[i]) <= IF i < k THEN i ELSE i - 1
           Good == {i \in Nat : Of(i)}
<1>4. 0 \in Good
  <2>1. kept[0] = <<>> /\ 0 < k
    BY <1>1
  <2>2. Of(0)
    BY <2>1
  <2> QED BY <2>2
<1>5. ASSUME NEW i \in 0 .. Len(s) - 1, i \in Good PROVE i + 1 \in Good
  <2> DEFINE a == kept[i]
             b == kept[i + 1]
  <2>1. a \in Seq(T) /\ Len(a) \in Nat /\ Len(a) <= IF i < k THEN i ELSE i - 1
    BY <1>5
  <2>2. b = IF s[i + 1] \in S THEN Append(a, s[i + 1]) ELSE a
    BY <1>1
  <2>3. s[i + 1] \in T
    OBVIOUS
  <2> HIDE DEF a, b
  <2>4. b \in Seq(T) /\ Len(b) <= IF i + 1 < k THEN i + 1 ELSE i
    <3>1. CASE i + 1 = k
      BY <1>3, <2>1, <2>2, <3>1
    <3>2. CASE i + 1 # k
      BY <2>1, <2>2, <2>3, <3>2
    <3> QED BY <3>1, <3>2
  <2> QED BY <2>4 DEF b
<1>6. Len(s) \in Good
  <2>1. Len(s) \in Nat
    OBVIOUS
  <2> HIDE DEF Good
  <2>2. \A i \in 0 .. Len(s) : i \in Good
    BY <1>4, <1>5, <2>1, BoundedInduction
  <2> QED BY <2>1, <2>2
<1> QED BY <1>1, <1>6 DEF Erased, S

(* A vector has its elements and the inserted one after an insertion. *)
LEMMA InsertedAt ==
  ASSUME NEW T, NEW s \in Seq(T), NEW x \in T, NEW i \in 0 .. Len(s)
  PROVE  /\ InsertAt(s, i + 1, x) \in Seq(T)
         /\ Len(InsertAt(s, i + 1, x)) = Len(s) + 1
         /\ ToSet(InsertAt(s, i + 1, x)) = ToSet(s) \cup {x}
<1> DEFINE a == SubSeq(s, 1, i)
           b == SubSeq(s, i + 1, Len(s))
           c == a \o <<x>>
           r == InsertAt(s, i + 1, x)
<1>1. r = c \o b
  <2>1. (i + 1) - 1 = i
    OBVIOUS
  <2> QED BY <2>1 DEF InsertAt
<1>2. /\ Len(s) \in Nat /\ i \in Nat /\ i <= Len(s)
      /\ <<x>> \in Seq(T) /\ Len(<<x>>) = 1 /\ <<x>>[1] = x
  OBVIOUS
<1>3. a \in Seq(T) /\ Len(a) = i /\ \A j \in 1 .. i : a[j] = s[j]
  BY SubSeqProperties
<1>4. b \in Seq(T) /\ Len(b) = Len(s) - i /\ \A j \in 1 .. Len(s) - i : b[j] = s[j + i]
  BY SubSeqProperties
<1> HIDE DEF a, b
<1>5. c \in Seq(T) /\ Len(c) = i + 1 /\ \A j \in 1 .. i + 1 : c[j] = IF j <= i THEN s[j] ELSE x
  BY <1>2, <1>3, ConcatProperties
<1> HIDE DEF c
<1>6. /\ r \in Seq(T) /\ Len(r) = Len(s) + 1
      /\ \A j \in 1 .. Len(s) + 1 : r[j] = IF j <= i + 1 THEN c[j] ELSE b[j - (i + 1)]
  <2> HIDE DEF r
  <2>1. /\ r \in Seq(T) /\ Len(r) = Len(c) + Len(b)
        /\ \A j \in 1 .. Len(c) + Len(b) : r[j] = IF j <= Len(c) THEN c[j] ELSE b[j - Len(c)]
    BY <1>1, <1>4, <1>5, ConcatProperties
  <2> QED BY <1>2, <1>4, <1>5, <2>1
<1> HIDE DEF r
<1>7. \A j \in 1 .. Len(s) + 1 : r[j] = IF j <= i THEN s[j] ELSE IF j = i + 1 THEN x ELSE s[j - 1]
  <2>1. ASSUME NEW j \in 1 .. Len(s) + 1, j <= i + 1
        PROVE  r[j] = IF j <= i THEN s[j] ELSE IF j = i + 1 THEN x ELSE s[j - 1]
    BY <1>2, <1>5, <1>6, <2>1
  <2>2. ASSUME NEW j \in 1 .. Len(s) + 1, j > i + 1 PROVE r[j] = s[j - 1]
    <3>1. r[j] = b[j - (i + 1)]
      BY <1>2, <1>6, <2>2
    <3>2. j - (i + 1) \in 1 .. Len(s) - i /\ (j - (i + 1)) + i = j - 1
      BY <1>2, <2>2
    <3> QED BY <1>4, <3>1, <3>2
  <2> QED BY <1>2, <2>1, <2>2
<1>8. ToSet(r) \subseteq ToSet(s) \cup {x}
  <2>1. DOMAIN r = 1 .. Len(s) + 1
    BY <1>6
  <2>2. \A j \in DOMAIN r : r[j] = x \/ \E k \in 1 .. Len(s) : r[j] = s[k]
    BY <1>2, <1>7, <2>1
  <2> QED BY <2>2 DEF ToSet
<1>9. ToSet(s) \cup {x} \subseteq ToSet(r)
  <2>1. r[i + 1] = x /\ i + 1 \in DOMAIN r
    BY <1>2, <1>6, <1>7
  <2>2. ASSUME NEW j \in DOMAIN s PROVE s[j] \in ToSet(r)
    <3>1. CASE j <= i
      BY <1>2, <1>6, <1>7, <3>1 DEF ToSet
    <3>2. CASE j > i
      <4>1. j + 1 \in DOMAIN r /\ r[j + 1] = s[j]
        BY <1>2, <1>6, <1>7, <3>2
      <4> QED BY <4>1 DEF ToSet
    <3> QED BY <1>2, <3>1, <3>2
  <2> QED BY <2>1, <2>2 DEF ToSet
<1> QED BY <1>6, <1>8, <1>9 DEF r

(* A removal by position leaves one element less. *)
LEMMA RemovedAt ==
  ASSUME NEW T, NEW s \in Seq(T), NEW k \in 1 .. Len(s)
  PROVE  /\ RemoveAt(s, k) \in Seq(T)
         /\ Len(RemoveAt(s, k)) = Len(s) - 1
<1> DEFINE a == SubSeq(s, 1, k - 1)
           b == SubSeq(s, k + 1, Len(s))
<1>1. a \in Seq(T) /\ Len(a) = k - 1
  BY SubSeqProperties
<1>2. b \in Seq(T) /\ Len(b) = Len(s) - k
  BY SubSeqProperties
<1>3. RemoveAt(s, k) = a \o b
  BY DEF RemoveAt
<1> HIDE DEF a, b
<1>4. a \o b \in Seq(T) /\ Len(a \o b) = Len(a) + Len(b)
  BY <1>1, <1>2, ConcatProperties
<1> QED BY <1>1, <1>2, <1>3, <1>4

(* The index of the first occurrence of x, zero without one. *)
FirstOf(s, x) == SelectInSeq(s, LAMBDA y : y = x)

(* FirstOf finds the first occurrence of what the vector holds. *)
LEMMA FirstProperties ==
  ASSUME NEW T, NEW s \in Seq(T), NEW x
  PROVE  /\ x \in ToSet(s) => FirstOf(s, x) \in 1 .. Len(s) /\ s[FirstOf(s, x)] = x
         /\ x \notin ToSet(s) => FirstOf(s, x) = 0
<1> DEFINE I == {i \in 1 .. Len(s) : s[i] = x}
<1>1. FirstOf(s, x) = IF I # {} THEN Min(I) ELSE 0
  BY DEF FirstOf, SelectInSeq
<1>2. x \in ToSet(s) <=> I # {}
  BY DEF ToSet
<1>3. ASSUME I # {} PROVE Min(I) \in I
  <2>1. I \in SUBSET Nat
    OBVIOUS
  <2> HIDE DEF I
  <2>2. \E i \in I : \A j \in I : i <= j
    BY <1>3, <2>1, Least
  <2> QED BY <2>2 DEF Min
<1> QED BY <1>1, <1>2, <1>3

------------------------------------------------------------------------------
(* The container and its model.                                             *)

ContainerTypeOK ==
  /\ kind \in Kind
  /\ content \in Seq(Object)
  /\ alive \subseteq Object
  /\ hasModel \in BOOLEAN
  /\ mapped \subseteq Object
  /\ shown \in Seq(Object)

(* Beside the invariant to prove: nothing is mapped before there is a model,  *)
(* what is not held weakly is alive, and a view never has less rows than the  *)
(* container, so that every row it is told of is one of its own.              *)
ContainerInv ==
  /\ ContainerTypeOK
  /\ mapped \subseteq Held
  /\ ~hasModel => mapped = {}
  /\ kind # "weak_ptr" => Held \subseteq alive
  /\ hasModel => /\ Len(content) <= Len(shown)
                 /\ \A o \in Held \cap alive :
                      kind = "pointer" \/ o \in mapped => o \in monitored

(* indexOf() finds a row of what the container holds if the model knows it,    *)
(* always for a pointer and once mapped for the other kinds, and -1 otherwise. *)
LEMMA IndexIs ==
  ASSUME ContainerTypeOK, NEW o
  PROVE  /\ IndexOf(o) = IF kind = "pointer" \/ o \in mapped THEN FirstOf(content, o) - 1 ELSE -1
         /\ IndexOf(o) \in -1 .. Len(content) - 1
         /\ IndexOf(o) >= 0 <=> o \in Held /\ (kind = "pointer" \/ o \in mapped)
         /\ IndexOf(o) >= 0 => content[IndexOf(o) + 1] = o
<1>1. IndexOf(o) = IF kind = "pointer" \/ o \in mapped THEN FirstOf(content, o) - 1 ELSE -1
  BY DEF IndexOf, FirstOf, SelectInSeq
<1>2. content \in Seq(Object) /\ Len(content) \in Nat
  BY DEF ContainerTypeOK
<1>3. /\ o \in Held => FirstOf(content, o) \in 1 .. Len(content) /\ content[FirstOf(content, o)] = o
      /\ o \notin Held => FirstOf(content, o) = 0
  BY <1>2, FirstProperties DEF Held
<1>4. CASE o \in Held /\ (kind = "pointer" \/ o \in mapped)
  <2>1. IndexOf(o) + 1 = FirstOf(content, o)
    BY <1>1, <1>2, <1>3, <1>4
  <2> QED BY <1>1, <1>2, <1>3, <1>4, <2>1
<1>5. CASE ~(o \in Held /\ (kind = "pointer" \/ o \in mapped))
  <2>1. IndexOf(o) = -1
    BY <1>1, <1>3, <1>5
  <2> QED BY <1>1, <1>2, <1>5, <2>1
<1> QED BY <1>4, <1>5

(* The inductive invariant says what the run checks. *)
LEMMA InvImpliesModelFollows == ContainerInv => ModelFollows
<1> SUFFICES ASSUME ContainerInv PROVE ModelFollows
  OBVIOUS
<1>1. /\ content \in Seq(Object) /\ Len(content) \in Nat
      /\ shown \in Seq(Object) /\ Len(shown) \in Nat
      /\ \A i \in 1 .. Len(content) : content[i] \in Held
  BY DEF ContainerInv, ContainerTypeOK, Held, ToSet
<1>2. \A i \in 0 .. MaxLength : ModelAt(i) \in alive \cup {Null}
  BY <1>1, ContainerAssumption DEF ContainerInv, ModelAt, At
<1>3. ASSUME NEW row \in 1 .. Len(shown) PROVE ItemData(row - 1) \in alive \cup {Null}
  <2>1. CASE row - 1 >= Len(content)
    BY <2>1 DEF ItemData
  <2>2. CASE ~(row - 1 >= Len(content))
    <3>1. (row - 1) + 1 \in 1 .. Len(content)
      BY <1>1, <2>2
    <3>2. content[(row - 1) + 1] \in Held
      BY <1>1, <3>1
    <3> QED BY <2>2, <3>2 DEF ItemData, ContainerInv
  <2> QED BY <2>1, <2>2
<1>4. ASSUME NEW o \in alive, IndexOf(o) >= 0 PROVE ModelAt(IndexOf(o)) = o
  <2>1. IndexOf(o) \in 0 .. Len(content) - 1 /\ content[IndexOf(o) + 1] = o
    BY <1>1, <1>4, IndexIs DEF ContainerInv
  <2>2. At(IndexOf(o)) = o
    BY <2>1 DEF At
  <2> QED BY <2>2 DEF ModelAt
<1> QED BY <1>2, <1>3, <1>4 DEF ContainerInv, ModelFollows

(* insert() and append() keep the invariant. *)
LEMMA InsertItemStep ==
  ASSUME ContainerInv, NEW o \in Object, NEW i \in 0 .. MaxLength, InsertItem(o, i)
  PROVE  ContainerInv'
<1>1. /\ content \in Seq(Object) /\ Len(content) \in Nat /\ i \in 0 .. Len(content)
      /\ shown \in Seq(Object) /\ Len(shown) \in Nat
  BY DEF ContainerInv, ContainerTypeOK, InsertItem
<1>2. content' \in Seq(Object) /\ Len(content') = Len(content) + 1 /\ Held' = Held \cup {o}
  <2>1. content' = InsertAt(content, i + 1, o) /\ o \in Object
    BY DEF InsertItem
  <2>2. ToSet(content') = ToSet(content) \cup {o}
    BY <1>1, <2>1, InsertedAt
  <2> QED BY <1>1, <2>1, <2>2, InsertedAt DEF Held
<1>3. CASE hasModel
  <2>1. i \in 0 .. Len(shown)
    BY <1>1, <1>3 DEF ContainerInv
  <2>2. shown' \in Seq(Object) /\ Len(shown') = Len(shown) + 1
    BY <1>1, <1>3, <2>1, InsertedAt DEF InsertItem
  <2>3. ContainerTypeOK'
    BY <1>2, <1>3, <2>2 DEF InsertItem, ContainerInv, ContainerTypeOK
  <2> QED BY <1>1, <1>2, <1>3, <2>2, <2>3 DEF InsertItem, ContainerInv, Read
<1>4. CASE ~hasModel
  <2>1. ContainerTypeOK'
    BY <1>2, <1>4 DEF InsertItem, ContainerInv, ContainerTypeOK
  <2> QED BY <1>2, <1>4, <2>1 DEF InsertItem, ContainerInv
<1> QED BY <1>3, <1>4 DEF ContainerInv, ContainerTypeOK

(* removeAll() and remove() keep the invariant, whatever the rows the model *)
(* is told of.                                                              *)
LEMMA RemoveAllStep ==
  ASSUME ContainerInv, NEW o \in Object, RemoveAll(o)
  PROVE  ContainerInv'
<1>1. /\ content \in Seq(Object) /\ Len(content) \in Nat
      /\ shown \in Seq(Object) /\ Len(shown) \in Nat
  BY DEF ContainerInv, ContainerTypeOK
<1>2. content' \in Seq(Object) /\ Len(content') \in Nat /\ Held' = Held \ {o}
  BY <1>1, ErasedProperties DEF RemoveAll, Held
<1>3. FirstRow(o) \in 1 .. Len(content)
  <2>1. FirstRow(o) = FirstOf(content, o)
    BY DEF FirstRow, FirstOf, SelectInSeq
  <2> QED BY <1>1, <2>1, FirstProperties DEF RemoveAll, Held
<1>4. Len(content') <= Len(content) - 1
  BY <1>1, ErasedShorter DEF RemoveAll, Held
<1>5. CASE hasModel
  <2>1. FirstRow(o) \in 1 .. Len(shown)
    BY <1>1, <1>3, <1>5 DEF ContainerInv
  <2>2. shown' \in Seq(Object) /\ Len(shown') = Len(shown) - 1
    BY <1>1, <1>5, <2>1, RemovedAt DEF RemoveAll
  <2>3. ContainerTypeOK'
    BY <1>2, <1>5, <2>2 DEF RemoveAll, ContainerInv, ContainerTypeOK
  <2> QED BY <1>1, <1>2, <1>4, <1>5, <2>2, <2>3 DEF RemoveAll, ContainerInv
<1>6. CASE ~hasModel
  <2>1. ContainerTypeOK'
    BY <1>2, <1>6 DEF RemoveAll, ContainerInv, ContainerTypeOK
  <2> QED BY <1>2, <1>6, <2>1 DEF RemoveAll, ContainerInv
<1> QED BY <1>5, <1>6 DEF ContainerInv, ContainerTypeOK

(* clear() keeps the invariant. *)
LEMMA EmptiedStep ==
  ASSUME ContainerInv, Emptied, UNCHANGED <<kind, hasModel>>, alive' \subseteq alive
  PROVE  ContainerInv'
<1>1. content' = <<>> /\ Held' = {}
  BY EmptyProperties DEF Emptied, Held
<1>2. mapped' = {}
  BY DEF Emptied, ContainerInv
<1>3. shown' \in Seq(Object)
  <2>1. shown' = <<>> \/ shown' = shown
    BY DEF Emptied
  <2>2. shown \in Seq(Object) /\ <<>> \in Seq(Object)
    BY DEF ContainerInv, ContainerTypeOK
  <2> QED BY <2>1, <2>2
<1>4. ContainerTypeOK'
  BY <1>1, <1>2, <1>3 DEF ContainerInv, ContainerTypeOK
<1>5. Len(content') <= Len(shown')
  BY <1>1, <1>3
<1> QED BY <1>1, <1>2, <1>4, <1>5 DEF ContainerInv

(* A change of the label of an item keeps the invariant. *)
LEMMA LabelChangedStep ==
  ASSUME ContainerInv, NEW o \in Object, LabelChanged(o)
  PROVE  ContainerInv'
<1>1. UNCHANGED <<kind, content, alive, hasModel, mapped, shown>> /\ Held' = Held
  BY DEF LabelChanged, Held
<1>2. IndexOf(o) >= 0 \/ ~(o \in Held /\ (kind = "pointer" \/ o \in mapped))
  BY IndexIs DEF ContainerInv
<1>3. \A p \in Held : (kind = "pointer" \/ p \in mapped) /\ p \in monitored => p \in monitored'
  BY <1>2 DEF LabelChanged, Read
<1> QED BY <1>1, <1>3 DEF ContainerInv, ContainerTypeOK

(* Every step of the container keeps the invariant. *)
LEMMA ContainerStep == ContainerInv /\ [ContainerNext]_container_vars => ContainerInv'
<1> SUFFICES ASSUME ContainerInv, [ContainerNext]_container_vars PROVE ContainerInv'
  OBVIOUS
<1>1. CASE CreateModel
  BY <1>1 DEF CreateModel, ContainerInv, ContainerTypeOK, Held, Read
<1>2. ASSUME NEW o \in Object, NEW i \in 0 .. MaxLength, InsertItem(o, i) PROVE ContainerInv'
  BY <1>2, InsertItemStep
<1>3. ASSUME NEW o \in Object, ModelAppend(o) PROVE ContainerInv'
  <2>1. InsertItem(o, Len(content)) /\ Len(content) \in 0 .. MaxLength
    BY <1>3, ContainerAssumption DEF ModelAppend, InsertItem, ContainerInv, ContainerTypeOK
  <2> QED BY <2>1, InsertItemStep
<1>4. ASSUME NEW o \in Object, RemoveAll(o) \/ ModelRemove(o) PROVE ContainerInv'
  BY <1>4, RemoveAllStep DEF ModelRemove
<1>5. CASE ClearContainer \/ ClearContent
  BY <1>5, EmptiedStep DEF ClearContainer, ClearContent
<1>6. ASSUME NEW o \in Object, Destroy(o) PROVE ContainerInv'
  BY <1>6 DEF Destroy, ContainerInv, ContainerTypeOK, Held
<1>7. ASSUME NEW o \in Object, LabelChanged(o) PROVE ContainerInv'
  BY <1>7, LabelChangedStep
<1>8. CASE UNCHANGED container_vars
  BY <1>8 DEF container_vars, ContainerInv, ContainerTypeOK, Held
<1> QED BY <1>1, <1>2, <1>3, <1>4, <1>5, <1>6, <1>7, <1>8 DEF ContainerNext

(* The invariant holds in every state of the container. *)
LEMMA ContainerInvariance == ContainerSpec => []ContainerInv
<1>1. ContainerInit => ContainerInv
  <2> SUFFICES ASSUME ContainerInit PROVE ContainerInv
    OBVIOUS
  <2>1. Held = {}
    BY EmptyProperties DEF ContainerInit, Held
  <2>2. <<>> \in Seq(Object)
    OBVIOUS
  <2> QED BY <2>1, <2>2 DEF ContainerInit, ContainerInv, ContainerTypeOK
<1> QED BY <1>1, ContainerStep, PTL DEF ContainerSpec

(* In every state the model can tell of what the container holds and of nothing *)
(* else, and hands out no destroyed object: ModelFollows, for any set of        *)
(* objects, any kind of container and any length (qcmContainer.h,               *)
(* qcmContainerModel.h).                                                        *)
THEOREM ModelsFollow == ContainerSpec => []ModelFollows
  BY ContainerInvariance, InvImpliesModelFollows, PTL

(* Once the model shows the content of a container without duplicates, no *)
(* operation makes it show anything else: StaysMirrored, for any set of   *)
(* objects and any length of the container (qcmContainer.h:115-230).      *)
THEOREM MirrorsStay == ContainerSpec => StaysMirrored
<1>1. ASSUME ContainerInv, [ContainerNext]_container_vars,
             hasModel, shown = content, IsInjective(content)
      PROVE  shown' = content'
  <2>1. content \in Seq(Object)
    BY <1>1 DEF ContainerInv, ContainerTypeOK
  <2>2. ASSUME NEW o \in Object, RemoveAll(o) PROVE shown' = content'
    <3> DEFINE k == FirstRow(o)
    <3>1. k \in 1 .. Len(content) /\ content[k] = o
      <4>1. FirstRow(o) = FirstOf(content, o)
        BY DEF FirstRow, FirstOf, SelectInSeq
      <4> QED BY <2>1, <2>2, <4>1, FirstProperties DEF RemoveAll, Held
    <3> HIDE DEF k
    <3>2. Erased(content, content[k]) = RemoveAt(content, k)
      BY <1>1, <2>1, <3>1, ErasedOnce
    <3> QED BY <1>1, <2>2, <3>1, <3>2 DEF RemoveAll, k
  <2>3. ASSUME NEW o \in Object, NEW i, InsertItem(o, i) PROVE shown' = content'
    BY <1>1, <2>3 DEF InsertItem
  <2>4. ASSUME NEW o \in Object, LabelChanged(o) \/ Destroy(o) PROVE shown' = content'
    BY <1>1, <2>4 DEF LabelChanged, Destroy
  <2>5. CASE CreateModel \/ ClearContainer \/ ClearContent \/ UNCHANGED container_vars
    BY <1>1, <2>5 DEF CreateModel, ClearContainer, ClearContent, Emptied, container_vars
  <2> QED BY <1>1, <2>2, <2>3, <2>4, <2>5 DEF ContainerNext, ModelAppend, ModelRemove
<1>2. ContainerInv /\ [ContainerNext]_container_vars =>
        [hasModel /\ shown = content /\ IsInjective(content) => shown' = content']_container_vars
  BY <1>1
<1> QED BY <1>2, ContainerInvariance, PTL DEF ContainerSpec, StaysMirrored
------------------------------------------------------------------------------
(* The graph of the new GTpo.                                               *)

GraphType ==
  [nodes : Seq(Node), roots : Seq(Node), edges : Seq(Edge),
   src : [Edge -> Node \cup {NoNode}], dst : [Edge -> Node \cup {NoNode}],
   outEdges : [Node -> Seq(Edge)], inEdges : [Node -> Seq(Edge)],
   outNodes : [Node -> Seq(Node \cup {NoNode})], inNodes : [Node -> Seq(Node \cup {NoNode})],
   groups : Seq(Group \cup {NoNode}), groupOf : [Node -> Group \cup {NoNode}],
   members : [Group -> Seq(Node \cup {NoNode})],
   toldNodes : SUBSET Node, toldEdges : SUBSET Edge,
   toldOut : [Node -> Int], toldIn : [Node -> Int]]

Nodes(g) == ToSet(g.nodes)
Edges(g) == ToSet(g.edges)

(* The lists of the nodes hold the edges of the graph, each once and at the   *)
(* node it has as its end, and the observers of a node have counted them;     *)
(* all of them, except at the nodes I (their in edges) and O (their out       *)
(* edges), which remove_node() is emptying.                                   *)
OutWired(g, O) ==
  \A m \in Node :
    /\ IsInjective(g.outEdges[m])
    /\ \A e \in ToSet(g.outEdges[m]) : e \in Edges(g) /\ g.src[e] = m
    /\ m \notin O => /\ g.toldOut[m] = Len(g.outEdges[m])
                     /\ \A e \in Edges(g) : g.src[e] = m => e \in ToSet(g.outEdges[m])

InWired(g, I) ==
  \A m \in Node :
    /\ IsInjective(g.inEdges[m])
    /\ \A e \in ToSet(g.inEdges[m]) : e \in Edges(g) /\ g.dst[e] = m
    /\ m \notin I => /\ g.toldIn[m] = Len(g.inEdges[m])
                     /\ \A e \in Edges(g) : g.dst[e] = m => e \in ToSet(g.inEdges[m])

Wired(g, I, O) ==
  /\ OutWired(g, O) /\ InWired(g, I)
  /\ IsInjective(g.edges)
  /\ \A e \in Edges(g) : g.src[e] \in Nodes(g) /\ g.dst[e] \in Nodes(g)

(* Groups in the graph are in its list, except X, and a group that a node has *)
(* is in the graph and lists the node.                                        *)
GroupsListed(g, X) ==
  /\ (Group \cap Nodes(g)) \ X \subseteq ToSet(g.groups)
  /\ \A n \in Node : g.groupOf[n] # NoNode =>
       g.groupOf[n] \in Nodes(g) /\ n \in ToSet(g.members[g.groupOf[n]])

(* What the observers of the graph know. *)
GraphTold(g) ==
  /\ g.toldEdges = Edges(g)
  /\ Nodes(g) \subseteq g.toldNodes
  /\ g.toldNodes \ Nodes(g) \subseteq Group

GraphInv(g) ==
  /\ g \in GraphType
  /\ Wired(g, {}, {})
  /\ GroupsListed(g, {})
  /\ GraphTold(g)

(* What operations leave alone, apart from the root node cache and the lists  *)
(* of neighbours, which are only typed.                                       *)
SameNodes(g, h) == h.nodes = g.nodes /\ h.toldNodes = g.toldNodes
SameGroups(g, h) == h.groups = g.groups /\ h.groupOf = g.groupOf /\ h.members = g.members
SameEdges(g, h) ==
  h.edges = g.edges /\ h.src = g.src /\ h.dst = g.dst /\ h.toldEdges = g.toldEdges
SameOut(g, h) == h.outEdges = g.outEdges /\ h.toldOut = g.toldOut
SameIn(g, h) == h.inEdges = g.inEdges /\ h.toldIn = g.toldIn

(* install_root_node() changes the root cache only. *)
LEMMA RootInstalledFields ==
  ASSUME NEW g \in GraphType, NEW n \in Node
  PROVE  /\ RootInstalled(g, n) \in GraphType
         /\ SameNodes(g, RootInstalled(g, n)) /\ SameGroups(g, RootInstalled(g, n))
         /\ SameEdges(g, RootInstalled(g, n))
         /\ SameOut(g, RootInstalled(g, n)) /\ SameIn(g, RootInstalled(g, n))
<1>1. Append(g.roots, n) \in Seq(Node)
  BY DEF GraphType
<1> QED BY <1>1 DEF RootInstalled, GraphType, SameNodes, SameGroups, SameEdges, SameOut, SameIn

(* remove_out_edge() changes the lists and the count of the source only. *)
LEMMA WithoutOutEdgeFields ==
  ASSUME NEW g \in GraphType, NEW e \in Edge, g.src[e] \in Node
  PROVE  LET h == WithoutOutEdge(g, e)
             s == g.src[e]
         IN /\ h \in GraphType
            /\ SameNodes(g, h) /\ SameGroups(g, h) /\ SameEdges(g, h) /\ SameIn(g, h)
            /\ h.outEdges = [g.outEdges EXCEPT ![s] = Erased(@, e)]
            /\ h.toldOut = [g.toldOut EXCEPT ![s] = @ - 1]
<1> DEFINE s == g.src[e]
           edges == Erased(g.outEdges[s], e)
           nodes == Erased(g.outNodes[s], g.dst[e])
           j == [g EXCEPT !.outEdges[s] = edges, !.outNodes[s] = nodes]
           k == TellOut(j, s, -1)
<1>1. s \in Node /\ g.outEdges[s] \in Seq(Edge) /\ g.outNodes[s] \in Seq(Node \cup {NoNode})
      /\ g.toldOut[s] \in Int
  BY DEF GraphType
<1>2. edges \in Seq(Edge) /\ nodes \in Seq(Node \cup {NoNode})
  BY <1>1, ErasedProperties
<1>3. WithoutOutEdge(g, e) = RootInstalled(k, s)
  BY DEF WithoutOutEdge
<1> HIDE DEF s, edges, nodes
<1>4. /\ k \in GraphType
      /\ SameNodes(g, k) /\ SameGroups(g, k) /\ SameEdges(g, k) /\ SameIn(g, k)
      /\ k.outEdges = [g.outEdges EXCEPT ![s] = edges]
      /\ k.toldOut = [g.toldOut EXCEPT ![s] = @ - 1]
  <2>1. /\ j \in GraphType
        /\ SameNodes(g, j) /\ SameGroups(g, j) /\ SameEdges(g, j) /\ SameIn(g, j)
        /\ j.outEdges = [g.outEdges EXCEPT ![s] = edges] /\ j.toldOut = g.toldOut
    BY <1>1, <1>2 DEF GraphType, SameNodes, SameGroups, SameEdges, SameIn
  <2>2. k = [j EXCEPT !.toldOut = [j.toldOut EXCEPT ![s] = @ - 1]]
    BY <1>1, <2>1 DEF TellOut, GraphType
  <2> HIDE DEF j, k
  <2>3. [j.toldOut EXCEPT ![s] = @ - 1] \in [Node -> Int]
    <3>1. g.toldOut \in [Node -> Int]
      BY DEF GraphType
    <3> QED BY <1>1, <2>1, <3>1
  <2> QED BY <2>1, <2>2, <2>3 DEF GraphType, SameNodes, SameGroups, SameEdges, SameIn
<1> HIDE DEF k
<1>5. /\ RootInstalled(k, s) \in GraphType
      /\ SameNodes(k, RootInstalled(k, s)) /\ SameGroups(k, RootInstalled(k, s))
      /\ SameEdges(k, RootInstalled(k, s))
      /\ SameOut(k, RootInstalled(k, s)) /\ SameIn(k, RootInstalled(k, s))
  BY <1>1, <1>4, RootInstalledFields
<1> QED BY <1>3, <1>4, <1>5 DEF s, edges, SameNodes, SameGroups, SameEdges, SameOut, SameIn

(* remove_in_edge() changes the lists and the count of the destination only. *)
LEMMA WithoutInEdgeFields ==
  ASSUME NEW g \in GraphType, NEW e \in Edge, g.dst[e] \in Node
  PROVE  LET h == WithoutInEdge(g, e)
             d == g.dst[e]
         IN /\ h \in GraphType
            /\ SameNodes(g, h) /\ SameGroups(g, h) /\ SameEdges(g, h) /\ SameOut(g, h)
            /\ h.inEdges = [g.inEdges EXCEPT ![d] = Erased(@, e)]
            /\ h.toldIn = [g.toldIn EXCEPT ![d] = @ - 1]
<1> DEFINE d == g.dst[e]
           edges == Erased(g.inEdges[d], e)
           nodes == Erased(g.inNodes[d], g.src[e])
           j == [g EXCEPT !.inEdges[d] = edges, !.inNodes[d] = nodes]
           k == TellIn(j, d, -1)
<1>1. d \in Node /\ g.inEdges[d] \in Seq(Edge) /\ g.inNodes[d] \in Seq(Node \cup {NoNode})
      /\ g.toldIn[d] \in Int
  BY DEF GraphType
<1>2. edges \in Seq(Edge) /\ nodes \in Seq(Node \cup {NoNode})
  BY <1>1, ErasedProperties
<1>3. WithoutInEdge(g, e) = RootInstalled(k, d)
  BY DEF WithoutInEdge
<1> HIDE DEF d, edges, nodes
<1>4. /\ k \in GraphType
      /\ SameNodes(g, k) /\ SameGroups(g, k) /\ SameEdges(g, k) /\ SameOut(g, k)
      /\ k.inEdges = [g.inEdges EXCEPT ![d] = edges]
      /\ k.toldIn = [g.toldIn EXCEPT ![d] = @ - 1]
  <2>1. /\ j \in GraphType
        /\ SameNodes(g, j) /\ SameGroups(g, j) /\ SameEdges(g, j) /\ SameOut(g, j)
        /\ j.inEdges = [g.inEdges EXCEPT ![d] = edges] /\ j.toldIn = g.toldIn
    BY <1>1, <1>2 DEF GraphType, SameNodes, SameGroups, SameEdges, SameOut
  <2>2. k = [j EXCEPT !.toldIn = [j.toldIn EXCEPT ![d] = @ - 1]]
    BY <1>1, <2>1 DEF TellIn, GraphType
  <2> HIDE DEF j, k
  <2>3. [j.toldIn EXCEPT ![d] = @ - 1] \in [Node -> Int]
    <3>1. g.toldIn \in [Node -> Int]
      BY DEF GraphType
    <3> QED BY <1>1, <2>1, <3>1
  <2> QED BY <2>1, <2>2, <2>3 DEF GraphType, SameNodes, SameGroups, SameEdges, SameOut
<1> HIDE DEF k
<1>5. /\ RootInstalled(k, d) \in GraphType
      /\ SameNodes(k, RootInstalled(k, d)) /\ SameGroups(k, RootInstalled(k, d))
      /\ SameEdges(k, RootInstalled(k, d))
      /\ SameOut(k, RootInstalled(k, d)) /\ SameIn(k, RootInstalled(k, d))
  BY <1>1, <1>4, RootInstalledFields
<1> QED BY <1>3, <1>4, <1>5 DEF d, edges, SameNodes, SameGroups, SameEdges, SameOut, SameIn

(* A vector without duplicates loses one element. *)
LEMMA ErasedOne ==
  ASSUME NEW T, NEW s \in Seq(T), IsInjective(s), NEW x \in ToSet(s)
  PROVE  Len(Erased(s, x)) = Len(s) - 1
<1>1. PICK k \in 1 .. Len(s) : s[k] = x
  BY DEF ToSet
<1> QED BY <1>1, ErasedOnce

(* h is g without the edges D, whatever the lists of the nodes hold. *)
Without(g, h, D) ==
  /\ SameNodes(g, h) /\ SameGroups(g, h)
  /\ Edges(h) = Edges(g) \ D
  /\ \A e \in Edges(h) : h.src[e] = g.src[e] /\ h.dst[e] = g.dst[e]
  /\ h.toldEdges = g.toldEdges \ D

(* Two removals of edges, one after the other. *)
LEMMA WithoutTransitive ==
  ASSUME NEW g, NEW h, NEW k, NEW D, NEW E, Without(g, h, D), Without(h, k, E)
  PROVE  Without(g, k, D \cup E)
  BY DEF Without, SameNodes, SameGroups

(* The nodes and the edges of a graph are nodes and edges. *)
LEMMA NodesType ==
  ASSUME NEW g \in GraphType
  PROVE  Nodes(g) \subseteq Node /\ Edges(g) \subseteq Edge
<1>1. g.nodes \in Seq(Node) /\ g.edges \in Seq(Edge)
  BY DEF GraphType
<1> QED BY <1>1 DEF Nodes, Edges, ToSet

(* What remove_edge() changes. *)
LEMMA UnlinkedFields ==
  ASSUME NEW g \in GraphType, NEW e \in Edge, g.src[e] \in Node, g.dst[e] \in Node
  PROVE  LET h == Unlinked(g, e)
             s == g.src[e]
             d == g.dst[e]
         IN /\ h \in GraphType
            /\ SameNodes(g, h) /\ SameGroups(g, h)
            /\ h.edges = Erased(g.edges, e)
            /\ h.src = [g.src EXCEPT ![e] = NoNode] /\ h.dst = [g.dst EXCEPT ![e] = NoNode]
            /\ h.toldEdges = g.toldEdges \ {e}
            /\ h.outEdges = [g.outEdges EXCEPT ![s] = Erased(@, e)]
            /\ h.toldOut = [g.toldOut EXCEPT ![s] = @ - 1]
            /\ h.inEdges = [g.inEdges EXCEPT ![d] = Erased(@, e)]
            /\ h.toldIn = [g.toldIn EXCEPT ![d] = @ - 1]
<1> DEFINE a == WithoutOutEdge(g, e)
           b == WithoutInEdge(a, e)
           h == [b EXCEPT !.edges = Erased(@, e), !.src[e] = NoNode, !.dst[e] = NoNode,
                          !.toldEdges = @ \ {e}]
<1>1. Unlinked(g, e) = h
  BY DEF Unlinked
<1>2. /\ a \in GraphType
      /\ SameNodes(g, a) /\ SameGroups(g, a) /\ SameEdges(g, a) /\ SameIn(g, a)
      /\ a.outEdges = [g.outEdges EXCEPT ![g.src[e]] = Erased(@, e)]
      /\ a.toldOut = [g.toldOut EXCEPT ![g.src[e]] = @ - 1]
  BY WithoutOutEdgeFields
<1> HIDE DEF a
<1>3. a.dst[e] = g.dst[e]
  BY <1>2 DEF SameEdges
<1>4. /\ b \in GraphType
      /\ SameNodes(a, b) /\ SameGroups(a, b) /\ SameEdges(a, b) /\ SameOut(a, b)
      /\ b.inEdges = [a.inEdges EXCEPT ![g.dst[e]] = Erased(@, e)]
      /\ b.toldIn = [a.toldIn EXCEPT ![g.dst[e]] = @ - 1]
  BY <1>2, <1>3, WithoutInEdgeFields
<1> HIDE DEF b
<1>5. Erased(b.edges, e) \in Seq(Edge)
  BY <1>4, ErasedProperties DEF GraphType
<1>6. /\ h \in GraphType
      /\ SameNodes(b, h) /\ SameGroups(b, h) /\ SameOut(b, h) /\ SameIn(b, h)
      /\ h.edges = Erased(b.edges, e)
      /\ h.src = [b.src EXCEPT ![e] = NoNode] /\ h.dst = [b.dst EXCEPT ![e] = NoNode]
      /\ h.toldEdges = b.toldEdges \ {e}
  BY <1>4, <1>5 DEF GraphType, SameNodes, SameGroups, SameOut, SameIn
<1> HIDE DEF h
<1> QED BY <1>1, <1>2, <1>4, <1>6 DEF SameNodes, SameGroups, SameEdges, SameOut, SameIn

(* Removing an edge keeps the lists of the nodes in step, also of nodes whose *)
(* lists it has left before.                                                  *)
LEMMA UnlinkedKeeps ==
  ASSUME NEW g \in GraphType, NEW I, NEW O, Wired(g, I, O), NEW e \in Edges(g)
  PROVE  /\ Unlinked(g, e) \in GraphType
         /\ Wired(Unlinked(g, e), I, O)
         /\ Without(g, Unlinked(g, e), {e})
<1> DEFINE h == Unlinked(g, e)
           s == g.src[e]
           d == g.dst[e]
<1>1. e \in Edge /\ s \in Nodes(g) /\ d \in Nodes(g) /\ s \in Node /\ d \in Node
  BY NodesType DEF Wired
<1>2. /\ h \in GraphType
      /\ SameNodes(g, h) /\ SameGroups(g, h)
      /\ h.edges = Erased(g.edges, e)
      /\ h.src = [g.src EXCEPT ![e] = NoNode] /\ h.dst = [g.dst EXCEPT ![e] = NoNode]
      /\ h.toldEdges = g.toldEdges \ {e}
      /\ h.outEdges = [g.outEdges EXCEPT ![s] = Erased(@, e)]
      /\ h.toldOut = [g.toldOut EXCEPT ![s] = @ - 1]
      /\ h.inEdges = [g.inEdges EXCEPT ![d] = Erased(@, e)]
      /\ h.toldIn = [g.toldIn EXCEPT ![d] = @ - 1]
  BY <1>1, UnlinkedFields
<1> HIDE DEF h
<1>3. /\ g.edges \in Seq(Edge) /\ g.src \in [Edge -> Node \cup {NoNode}]
      /\ g.dst \in [Edge -> Node \cup {NoNode}]
      /\ g.outEdges \in [Node -> Seq(Edge)] /\ g.inEdges \in [Node -> Seq(Edge)]
      /\ g.toldOut \in [Node -> Int] /\ g.toldIn \in [Node -> Int]
  BY DEF GraphType
<1>4. Edges(h) = Edges(g) \ {e}
  BY <1>2, <1>3, ErasedProperties DEF Edges
<1>5. \A f \in Edges(h) : f # e /\ f \in Edge /\ h.src[f] = g.src[f] /\ h.dst[f] = g.dst[f]
  BY <1>2, <1>3, <1>4, NodesType
<1>6. Without(g, h, {e})
  BY <1>2, <1>4, <1>5 DEF Without
<1>7. ASSUME NEW m \in Node
      PROVE  /\ IsInjective(h.outEdges[m])
             /\ \A f \in ToSet(h.outEdges[m]) : f \in Edges(h) /\ h.src[f] = m
             /\ m \notin O => /\ h.toldOut[m] = Len(h.outEdges[m])
                              /\ \A f \in Edges(h) : h.src[f] = m => f \in ToSet(h.outEdges[m])
  <2> DEFINE list == g.outEdges[m]
  <2>1. /\ list \in Seq(Edge) /\ IsInjective(list)
        /\ \A f \in ToSet(list) : f \in Edges(g) /\ g.src[f] = m
        /\ m \notin O => /\ g.toldOut[m] = Len(list)
                         /\ \A f \in Edges(g) : g.src[f] = m => f \in ToSet(list)
    BY <1>3 DEF Wired, OutWired
  <2>2. h.outEdges[m] = IF m = s THEN Erased(list, e) ELSE list
    BY <1>2, <1>3
  <2>3. h.toldOut[m] = IF m = s THEN g.toldOut[m] - 1 ELSE g.toldOut[m]
    BY <1>2, <1>3
  <2> HIDE DEF list
  <2>4. CASE m = s
    <3>1. ToSet(Erased(list, e)) = ToSet(list) \ {e} /\ IsInjective(Erased(list, e))
      BY <2>1, ErasedProperties
    <3>2. m \notin O => Len(Erased(list, e)) = Len(list) - 1
      BY <2>1, <2>4, ErasedOne
    <3> QED BY <1>4, <1>5, <2>1, <2>2, <2>3, <2>4, <3>1, <3>2
  <2>5. CASE m # s
    BY <1>4, <1>5, <2>1, <2>2, <2>3, <2>5
  <2> QED BY <2>4, <2>5
<1>8. ASSUME NEW m \in Node
      PROVE  /\ IsInjective(h.inEdges[m])
             /\ \A f \in ToSet(h.inEdges[m]) : f \in Edges(h) /\ h.dst[f] = m
             /\ m \notin I => /\ h.toldIn[m] = Len(h.inEdges[m])
                              /\ \A f \in Edges(h) : h.dst[f] = m => f \in ToSet(h.inEdges[m])
  <2> DEFINE list == g.inEdges[m]
  <2>1. /\ list \in Seq(Edge) /\ IsInjective(list)
        /\ \A f \in ToSet(list) : f \in Edges(g) /\ g.dst[f] = m
        /\ m \notin I => /\ g.toldIn[m] = Len(list)
                         /\ \A f \in Edges(g) : g.dst[f] = m => f \in ToSet(list)
    BY <1>3 DEF Wired, InWired
  <2>2. h.inEdges[m] = IF m = d THEN Erased(list, e) ELSE list
    BY <1>2, <1>3
  <2>3. h.toldIn[m] = IF m = d THEN g.toldIn[m] - 1 ELSE g.toldIn[m]
    BY <1>2, <1>3
  <2> HIDE DEF list
  <2>4. CASE m = d
    <3>1. ToSet(Erased(list, e)) = ToSet(list) \ {e} /\ IsInjective(Erased(list, e))
      BY <2>1, ErasedProperties
    <3>2. m \notin I => Len(Erased(list, e)) = Len(list) - 1
      BY <2>1, <2>4, ErasedOne
    <3> QED BY <1>4, <1>5, <2>1, <2>2, <2>3, <2>4, <3>1, <3>2
  <2>5. CASE m # d
    BY <1>4, <1>5, <2>1, <2>2, <2>3, <2>5
  <2> QED BY <2>4, <2>5
<1>9. Nodes(h) = Nodes(g)
  BY <1>2 DEF SameNodes, Nodes
<1>10. IsInjective(h.edges)
  BY <1>2, <1>3, ErasedProperties DEF Wired
<1>11. Wired(h, I, O)
  BY <1>4, <1>5, <1>7, <1>8, <1>9, <1>10 DEF Wired, OutWired, InWired
<1> QED BY <1>2, <1>6, <1>11 DEF h

(* The graphs a list of edges is removed through, one per edge. *)
LEMMA UnlinkedAllSteps ==
  ASSUME NEW g, NEW es \in Seq(Edge)
  PROVE  \E after : /\ UnlinkedAll(g, es) = after[Len(es)]
                    /\ after[0] = g
                    /\ \A i \in 1 .. Len(es) : after[i] = Unlinked(after[i - 1], es[i])
<1> DEFINE Of(n, f) == f = [i \in 0 .. n |-> IF i = 0 THEN g ELSE Unlinked(f[i - 1], es[i])]
           Good == {n \in Nat : \E f : Of(n, f)}
<1>1. 0 \in Good
  <2> DEFINE f == [i \in 0 .. 0 |-> g]
  <2>1. Of(0, f)
    OBVIOUS
  <2> QED BY <2>1
<1>2. ASSUME NEW n \in Nat, n \in Good PROVE n + 1 \in Good
  <2>1. PICK f : Of(n, f)
    BY <1>2
  <2> DEFINE e == [i \in 0 .. n + 1 |-> IF i <= n THEN f[i] ELSE Unlinked(f[i - 1], es[i])]
  <2>2. \A i \in 0 .. n : f[i] = IF i = 0 THEN g ELSE Unlinked(f[i - 1], es[i])
    BY <2>1
  <2> HIDE DEF Of
  <2>3. \A i \in 0 .. n + 1 : e[i] = IF i = 0 THEN g ELSE Unlinked(e[i - 1], es[i])
    BY <2>2
  <2>4. Of(n + 1, e)
    BY <2>3 DEF Of
  <2> QED BY <2>4
<1> DEFINE after == CHOOSE f : Of(Len(es), f)
<1>3. Of(Len(es), after)
  <2>1. Nat \subseteq Good
    <3> HIDE DEF Good
    <3> QED BY <1>1, <1>2, Induction
  <2>2. Len(es) \in Nat
    OBVIOUS
  <2>3. \E f : Of(Len(es), f)
    <3> HIDE DEF Of
    <3> QED BY <2>1, <2>2
  <2> QED BY <2>3
<1>4. UnlinkedAll(g, es) = after[Len(es)]
  BY DEF UnlinkedAll
<1> HIDE DEF after
<1>5. \A i \in 0 .. Len(es) : after[i] = IF i = 0 THEN g ELSE Unlinked(after[i - 1], es[i])
  BY <1>3
<1> HIDE DEF Of
<1>6. after[0] = g
  BY <1>5
<1>7. \A i \in 1 .. Len(es) : after[i] = Unlinked(after[i - 1], es[i])
  BY <1>5
<1> QED BY <1>4, <1>6, <1>7

(* The same for the edges a node takes out of its lists. *)
LEMMA WithoutInEdgesSteps ==
  ASSUME NEW g, NEW es \in Seq(Edge)
  PROVE  \E after : /\ WithoutInEdges(g, es) = after[Len(es)]
                    /\ after[0] = g
                    /\ \A i \in 1 .. Len(es) : after[i] = WithoutInEdge(after[i - 1], es[i])
<1> DEFINE Of(n, f) == f = [i \in 0 .. n |-> IF i = 0 THEN g ELSE WithoutInEdge(f[i - 1], es[i])]
           Good == {n \in Nat : \E f : Of(n, f)}
<1>1. 0 \in Good
  <2> DEFINE f == [i \in 0 .. 0 |-> g]
  <2>1. Of(0, f)
    OBVIOUS
  <2> QED BY <2>1
<1>2. ASSUME NEW n \in Nat, n \in Good PROVE n + 1 \in Good
  <2>1. PICK f : Of(n, f)
    BY <1>2
  <2> DEFINE e == [i \in 0 .. n + 1 |-> IF i <= n THEN f[i] ELSE WithoutInEdge(f[i - 1], es[i])]
  <2>2. \A i \in 0 .. n : f[i] = IF i = 0 THEN g ELSE WithoutInEdge(f[i - 1], es[i])
    BY <2>1
  <2> HIDE DEF Of
  <2>3. \A i \in 0 .. n + 1 : e[i] = IF i = 0 THEN g ELSE WithoutInEdge(e[i - 1], es[i])
    BY <2>2
  <2>4. Of(n + 1, e)
    BY <2>3 DEF Of
  <2> QED BY <2>4
<1> DEFINE after == CHOOSE f : Of(Len(es), f)
<1>3. Of(Len(es), after)
  <2>1. Nat \subseteq Good
    <3> HIDE DEF Good
    <3> QED BY <1>1, <1>2, Induction
  <2>2. Len(es) \in Nat
    OBVIOUS
  <2>3. \E f : Of(Len(es), f)
    <3> HIDE DEF Of
    <3> QED BY <2>1, <2>2
  <2> QED BY <2>3
<1>4. WithoutInEdges(g, es) = after[Len(es)]
  BY DEF WithoutInEdges
<1> HIDE DEF after
<1>5. \A i \in 0 .. Len(es) : after[i] = IF i = 0 THEN g ELSE WithoutInEdge(after[i - 1], es[i])
  BY <1>3
<1> HIDE DEF Of
<1>6. after[0] = g
  BY <1>5
<1>7. \A i \in 1 .. Len(es) : after[i] = WithoutInEdge(after[i - 1], es[i])
  BY <1>5
<1> QED BY <1>4, <1>6, <1>7

(* And for its out edges. *)
LEMMA WithoutOutEdgesSteps ==
  ASSUME NEW g, NEW es \in Seq(Edge)
  PROVE  \E after : /\ WithoutOutEdges(g, es) = after[Len(es)]
                    /\ after[0] = g
                    /\ \A i \in 1 .. Len(es) : after[i] = WithoutOutEdge(after[i - 1], es[i])
<1> DEFINE Of(n, f) == f = [i \in 0 .. n |-> IF i = 0 THEN g ELSE WithoutOutEdge(f[i - 1], es[i])]
           Good == {n \in Nat : \E f : Of(n, f)}
<1>1. 0 \in Good
  <2> DEFINE f == [i \in 0 .. 0 |-> g]
  <2>1. Of(0, f)
    OBVIOUS
  <2> QED BY <2>1
<1>2. ASSUME NEW n \in Nat, n \in Good PROVE n + 1 \in Good
  <2>1. PICK f : Of(n, f)
    BY <1>2
  <2> DEFINE e == [i \in 0 .. n + 1 |-> IF i <= n THEN f[i] ELSE WithoutOutEdge(f[i - 1], es[i])]
  <2>2. \A i \in 0 .. n : f[i] = IF i = 0 THEN g ELSE WithoutOutEdge(f[i - 1], es[i])
    BY <2>1
  <2> HIDE DEF Of
  <2>3. \A i \in 0 .. n + 1 : e[i] = IF i = 0 THEN g ELSE WithoutOutEdge(e[i - 1], es[i])
    BY <2>2
  <2>4. Of(n + 1, e)
    BY <2>3 DEF Of
  <2> QED BY <2>4
<1> DEFINE after == CHOOSE f : Of(Len(es), f)
<1>3. Of(Len(es), after)
  <2>1. Nat \subseteq Good
    <3> HIDE DEF Good
    <3> QED BY <1>1, <1>2, Induction
  <2>2. Len(es) \in Nat
    OBVIOUS
  <2>3. \E f : Of(Len(es), f)
    <3> HIDE DEF Of
    <3> QED BY <2>1, <2>2
  <2> QED BY <2>3
<1>4. WithoutOutEdges(g, es) = after[Len(es)]
  BY DEF WithoutOutEdges
<1> HIDE DEF after
<1>5. \A i \in 0 .. Len(es) : after[i] = IF i = 0 THEN g ELSE WithoutOutEdge(after[i - 1], es[i])
  BY <1>3
<1> HIDE DEF Of
<1>6. after[0] = g
  BY <1>5
<1>7. \A i \in 1 .. Len(es) : after[i] = WithoutOutEdge(after[i - 1], es[i])
  BY <1>5
<1> QED BY <1>4, <1>6, <1>7

(* Edges of a list are removed one after the other, and only they. *)
LEMMA UnlinkedAllKeeps ==
  ASSUME NEW g \in GraphType, NEW I, NEW O, Wired(g, I, O),
         NEW es \in Seq(Edge), IsInjective(es), ToSet(es) \subseteq Edges(g)
  PROVE  /\ UnlinkedAll(g, es) \in GraphType
         /\ Wired(UnlinkedAll(g, es), I, O)
         /\ Without(g, UnlinkedAll(g, es), ToSet(es))
<1>1. PICK after : /\ UnlinkedAll(g, es) = after[Len(es)]
                   /\ after[0] = g
                   /\ \A i \in 1 .. Len(es) : after[i] = Unlinked(after[i - 1], es[i])
  <2>1. es \in Seq(Edge)
    OBVIOUS
  <2> QED BY ONLY <2>1, UnlinkedAllSteps
<1> DEFINE Done(i) == {es[j] : j \in 1 .. i}
           Of(i) == after[i] \in GraphType /\ Wired(after[i], I, O) /\ Without(g, after[i], Done(i))
           Good == {i \in Nat : Of(i)}
<1>2. 0 \in Good
  <2>1. Done(0) = {}
    OBVIOUS
  <2>2. Without(g, g, {})
    BY DEF Without, SameNodes, SameGroups
  <2> QED BY <1>1, <2>1, <2>2
<1>3. ASSUME NEW i \in 0 .. Len(es) - 1, i \in Good PROVE i + 1 \in Good
  <2> DEFINE h == after[i]
             k == after[i + 1]
             e == es[i + 1]
  <2>1. h \in GraphType /\ Wired(h, I, O) /\ Without(g, h, Done(i))
    BY <1>3
  <2>2. k = Unlinked(h, e)
    BY <1>1
  <2>3. e \in Edges(g) /\ e \notin Done(i)
    BY DEF ToSet, IsInjective
  <2>4. Done(i + 1) = Done(i) \cup {e}
    OBVIOUS
  <2> HIDE DEF h, k, e, Done
  <2>5. e \in Edges(h)
    BY <2>1, <2>3 DEF Without
  <2>6. k \in GraphType /\ Wired(k, I, O) /\ Without(h, k, {e})
    BY <2>1, <2>2, <2>5, UnlinkedKeeps
  <2>7. Without(g, k, Done(i + 1))
    BY <2>1, <2>4, <2>6, WithoutTransitive
  <2> QED BY <2>6, <2>7 DEF k
<1>4. Len(es) \in Good
  <2>1. Len(es) \in Nat
    OBVIOUS
  <2> HIDE DEF Good
  <2>2. \A i \in 0 .. Len(es) : i \in Good
    BY <1>2, <1>3, <2>1, BoundedInduction
  <2> QED BY <2>1, <2>2
<1>5. Done(Len(es)) = ToSet(es)
  BY DEF ToSet
<1> HIDE DEF Done
<1> QED BY <1>1, <1>4, <1>5

(* remove_in_edge() at a node whose in edges are being removed keeps the *)
(* lists of the other nodes right.                                       *)
LEMMA WithoutInEdgeKeeps ==
  ASSUME NEW g \in GraphType, NEW I, NEW O, Wired(g, I, O), NEW e \in Edges(g), g.dst[e] \in I
  PROVE  /\ WithoutInEdge(g, e) \in GraphType
         /\ Wired(WithoutInEdge(g, e), I, O)
         /\ SameEdges(g, WithoutInEdge(g, e))
         /\ SameNodes(g, WithoutInEdge(g, e)) /\ SameGroups(g, WithoutInEdge(g, e))
<1> DEFINE h == WithoutInEdge(g, e)
           x == g.dst[e]
<1>1. e \in Edge /\ x \in Node
  BY NodesType DEF Wired
<1>2. /\ h \in GraphType
      /\ SameNodes(g, h) /\ SameGroups(g, h) /\ SameEdges(g, h) /\ SameOut(g, h)
      /\ h.inEdges = [g.inEdges EXCEPT ![x] = Erased(@, e)]
      /\ h.toldIn = [g.toldIn EXCEPT ![x] = @ - 1]
  BY <1>1, WithoutInEdgeFields
<1> HIDE DEF h
<1>3. g.inEdges \in [Node -> Seq(Edge)] /\ g.toldIn \in [Node -> Int]
  BY DEF GraphType
<1>4. Edges(h) = Edges(g) /\ Nodes(h) = Nodes(g)
  BY <1>2 DEF SameEdges, SameNodes, Edges, Nodes
<1>5. ASSUME NEW m \in Node
      PROVE  /\ IsInjective(h.inEdges[m])
             /\ \A f \in ToSet(h.inEdges[m]) : f \in Edges(h) /\ h.dst[f] = m
             /\ m \notin I => /\ h.toldIn[m] = Len(h.inEdges[m])
                              /\ \A f \in Edges(h) : h.dst[f] = m => f \in ToSet(h.inEdges[m])
  <2>1. /\ g.inEdges[m] \in Seq(Edge) /\ IsInjective(g.inEdges[m])
        /\ \A f \in ToSet(g.inEdges[m]) : f \in Edges(g) /\ g.dst[f] = m
        /\ m \notin I => /\ g.toldIn[m] = Len(g.inEdges[m])
                         /\ \A f \in Edges(g) : g.dst[f] = m => f \in ToSet(g.inEdges[m])
    BY <1>3 DEF Wired, InWired
  <2>2. h.dst = g.dst
    BY <1>2 DEF SameEdges
  <2>3. CASE m = x
    <3>1. h.inEdges[m] = Erased(g.inEdges[m], e) /\ m \in I
      BY <1>1, <1>2, <1>3, <2>3
    <3>2. /\ ToSet(Erased(g.inEdges[m], e)) = ToSet(g.inEdges[m]) \ {e}
          /\ IsInjective(Erased(g.inEdges[m], e))
      BY <2>1, ErasedProperties
    <3> QED BY <1>4, <2>1, <2>2, <3>1, <3>2
  <2>4. CASE m # x
    <3>1. h.inEdges[m] = g.inEdges[m] /\ h.toldIn[m] = g.toldIn[m]
      BY <1>1, <1>2, <1>3, <2>4
    <3> QED BY <1>4, <2>1, <2>2, <3>1
  <2> QED BY <2>3, <2>4
<1>6. OutWired(h, O)
  <2>1. OutWired(g, O)
    BY DEF Wired
  <2> QED BY <1>2, <1>4, <2>1 DEF OutWired, SameOut, SameEdges
<1>7. \A f \in Edges(h) : h.src[f] \in Nodes(h) /\ h.dst[f] \in Nodes(h)
  BY <1>2, <1>4 DEF Wired, SameEdges
<1>8. InWired(h, I)
  BY <1>5 DEF InWired
<1>9. IsInjective(h.edges)
  BY <1>2 DEF Wired, SameEdges
<1> QED BY <1>2, <1>6, <1>7, <1>8, <1>9 DEF Wired, h

(* Nothing changes beyond the lists of a node that takes its edges out of them. *)
LEMMA WithoutInEdgesKeeps ==
  ASSUME NEW g \in GraphType, NEW I, NEW O, Wired(g, I, O), NEW es \in Seq(Edge),
         \A e \in ToSet(es) : e \in Edges(g) /\ g.dst[e] \in I
  PROVE  /\ WithoutInEdges(g, es) \in GraphType
         /\ Wired(WithoutInEdges(g, es), I, O)
         /\ SameEdges(g, WithoutInEdges(g, es))
         /\ SameNodes(g, WithoutInEdges(g, es)) /\ SameGroups(g, WithoutInEdges(g, es))
<1>1. PICK after : /\ WithoutInEdges(g, es) = after[Len(es)]
                   /\ after[0] = g
                   /\ \A i \in 1 .. Len(es) : after[i] = WithoutInEdge(after[i - 1], es[i])
  <2>1. es \in Seq(Edge)
    OBVIOUS
  <2> QED BY ONLY <2>1, WithoutInEdgesSteps
<1> DEFINE Of(i) == /\ after[i] \in GraphType /\ Wired(after[i], I, O)
                    /\ SameEdges(g, after[i]) /\ SameNodes(g, after[i]) /\ SameGroups(g, after[i])
           Good == {i \in Nat : Of(i)}
<1>2. 0 \in Good
  BY <1>1 DEF SameEdges, SameNodes, SameGroups
<1>3. ASSUME NEW i \in 0 .. Len(es) - 1, i \in Good PROVE i + 1 \in Good
  <2> DEFINE h == after[i]
             k == after[i + 1]
             e == es[i + 1]
  <2>1. /\ h \in GraphType /\ Wired(h, I, O)
        /\ SameEdges(g, h) /\ SameNodes(g, h) /\ SameGroups(g, h)
    BY <1>3
  <2>2. k = WithoutInEdge(h, e)
    BY <1>1
  <2>3. e \in ToSet(es)
    BY DEF ToSet
  <2> HIDE DEF h, k, e
  <2>4. e \in Edges(h) /\ h.dst[e] \in I
    BY <2>1, <2>3 DEF SameEdges, Edges
  <2>5. /\ k \in GraphType /\ Wired(k, I, O)
        /\ SameEdges(h, k) /\ SameNodes(h, k) /\ SameGroups(h, k)
    BY <2>1, <2>2, <2>4, WithoutInEdgeKeeps
  <2>6. SameEdges(g, k) /\ SameNodes(g, k) /\ SameGroups(g, k)
    BY <2>1, <2>5 DEF SameEdges, SameNodes, SameGroups
  <2> QED BY <2>5, <2>6 DEF k
<1>4. Len(es) \in Good
  <2>1. Len(es) \in Nat
    OBVIOUS
  <2> HIDE DEF Good
  <2>2. \A i \in 0 .. Len(es) : i \in Good
    BY <1>2, <1>3, <2>1, BoundedInduction
  <2> QED BY <2>1, <2>2
<1> QED BY <1>1, <1>4

(* The same of remove_out_edge(). *)
LEMMA WithoutOutEdgeKeeps ==
  ASSUME NEW g \in GraphType, NEW I, NEW O, Wired(g, I, O), NEW e \in Edges(g), g.src[e] \in O
  PROVE  /\ WithoutOutEdge(g, e) \in GraphType
         /\ Wired(WithoutOutEdge(g, e), I, O)
         /\ SameEdges(g, WithoutOutEdge(g, e))
         /\ SameNodes(g, WithoutOutEdge(g, e)) /\ SameGroups(g, WithoutOutEdge(g, e))
<1> DEFINE h == WithoutOutEdge(g, e)
           x == g.src[e]
<1>1. e \in Edge /\ x \in Node
  BY NodesType DEF Wired
<1>2. /\ h \in GraphType
      /\ SameNodes(g, h) /\ SameGroups(g, h) /\ SameEdges(g, h) /\ SameIn(g, h)
      /\ h.outEdges = [g.outEdges EXCEPT ![x] = Erased(@, e)]
      /\ h.toldOut = [g.toldOut EXCEPT ![x] = @ - 1]
  BY <1>1, WithoutOutEdgeFields
<1> HIDE DEF h
<1>3. g.outEdges \in [Node -> Seq(Edge)] /\ g.toldOut \in [Node -> Int]
  BY DEF GraphType
<1>4. Edges(h) = Edges(g) /\ Nodes(h) = Nodes(g)
  BY <1>2 DEF SameEdges, SameNodes, Edges, Nodes
<1>5. ASSUME NEW m \in Node
      PROVE  /\ IsInjective(h.outEdges[m])
             /\ \A f \in ToSet(h.outEdges[m]) : f \in Edges(h) /\ h.src[f] = m
             /\ m \notin O => /\ h.toldOut[m] = Len(h.outEdges[m])
                              /\ \A f \in Edges(h) : h.src[f] = m => f \in ToSet(h.outEdges[m])
  <2>1. /\ g.outEdges[m] \in Seq(Edge) /\ IsInjective(g.outEdges[m])
        /\ \A f \in ToSet(g.outEdges[m]) : f \in Edges(g) /\ g.src[f] = m
        /\ m \notin O => /\ g.toldOut[m] = Len(g.outEdges[m])
                         /\ \A f \in Edges(g) : g.src[f] = m => f \in ToSet(g.outEdges[m])
    BY <1>3 DEF Wired, OutWired
  <2>2. h.src = g.src
    BY <1>2 DEF SameEdges
  <2>3. CASE m = x
    <3>1. h.outEdges[m] = Erased(g.outEdges[m], e) /\ m \in O
      BY <1>1, <1>2, <1>3, <2>3
    <3>2. /\ ToSet(Erased(g.outEdges[m], e)) = ToSet(g.outEdges[m]) \ {e}
          /\ IsInjective(Erased(g.outEdges[m], e))
      BY <2>1, ErasedProperties
    <3> QED BY <1>4, <2>1, <2>2, <3>1, <3>2
  <2>4. CASE m # x
    <3>1. h.outEdges[m] = g.outEdges[m] /\ h.toldOut[m] = g.toldOut[m]
      BY <1>1, <1>2, <1>3, <2>4
    <3> QED BY <1>4, <2>1, <2>2, <3>1
  <2> QED BY <2>3, <2>4
<1>6. InWired(h, I)
  <2>1. InWired(g, I)
    BY DEF Wired
  <2> QED BY <1>2, <1>4, <2>1 DEF InWired, SameIn, SameEdges
<1>7. \A f \in Edges(h) : h.src[f] \in Nodes(h) /\ h.dst[f] \in Nodes(h)
  BY <1>2, <1>4 DEF Wired, SameEdges
<1>8. OutWired(h, O)
  BY <1>5 DEF OutWired
<1>9. IsInjective(h.edges)
  BY <1>2 DEF Wired, SameEdges
<1> QED BY <1>2, <1>6, <1>7, <1>8, <1>9 DEF Wired, h

(* Nothing changes beyond the lists of a node that takes its edges out of them. *)
LEMMA WithoutOutEdgesKeeps ==
  ASSUME NEW g \in GraphType, NEW I, NEW O, Wired(g, I, O), NEW es \in Seq(Edge),
         \A e \in ToSet(es) : e \in Edges(g) /\ g.src[e] \in O
  PROVE  /\ WithoutOutEdges(g, es) \in GraphType
         /\ Wired(WithoutOutEdges(g, es), I, O)
         /\ SameEdges(g, WithoutOutEdges(g, es))
         /\ SameNodes(g, WithoutOutEdges(g, es)) /\ SameGroups(g, WithoutOutEdges(g, es))
<1>1. PICK after : /\ WithoutOutEdges(g, es) = after[Len(es)]
                   /\ after[0] = g
                   /\ \A i \in 1 .. Len(es) : after[i] = WithoutOutEdge(after[i - 1], es[i])
  <2>1. es \in Seq(Edge)
    OBVIOUS
  <2> QED BY ONLY <2>1, WithoutOutEdgesSteps
<1> DEFINE Of(i) == /\ after[i] \in GraphType /\ Wired(after[i], I, O)
                    /\ SameEdges(g, after[i]) /\ SameNodes(g, after[i]) /\ SameGroups(g, after[i])
           Good == {i \in Nat : Of(i)}
<1>2. 0 \in Good
  BY <1>1 DEF SameEdges, SameNodes, SameGroups
<1>3. ASSUME NEW i \in 0 .. Len(es) - 1, i \in Good PROVE i + 1 \in Good
  <2> DEFINE h == after[i]
             k == after[i + 1]
             e == es[i + 1]
  <2>1. /\ h \in GraphType /\ Wired(h, I, O)
        /\ SameEdges(g, h) /\ SameNodes(g, h) /\ SameGroups(g, h)
    BY <1>3
  <2>2. k = WithoutOutEdge(h, e)
    BY <1>1
  <2>3. e \in ToSet(es)
    BY DEF ToSet
  <2> HIDE DEF h, k, e
  <2>4. e \in Edges(h) /\ h.src[e] \in O
    BY <2>1, <2>3 DEF SameEdges, Edges
  <2>5. /\ k \in GraphType /\ Wired(k, I, O)
        /\ SameEdges(h, k) /\ SameNodes(h, k) /\ SameGroups(h, k)
    BY <2>1, <2>2, <2>4, WithoutOutEdgeKeeps
  <2>6. SameEdges(g, k) /\ SameNodes(g, k) /\ SameGroups(g, k)
    BY <2>1, <2>5 DEF SameEdges, SameNodes, SameGroups
  <2> QED BY <2>5, <2>6 DEF k
<1>4. Len(es) \in Good
  <2>1. Len(es) \in Nat
    OBVIOUS
  <2> HIDE DEF Good
  <2>2. \A i \in 0 .. Len(es) : i \in Good
    BY <1>2, <1>3, <2>1, BoundedInduction
  <2> QED BY <2>1, <2>2
<1> QED BY <1>1, <1>4

------------------------------------------------------------------------------
(* The operations keep the invariant; what they do to nodes and edges.       *)

LEMMA WiredSame ==
  ASSUME NEW g, NEW h, NEW I, NEW O, Wired(g, I, O), SameEdges(g, h), SameOut(g, h), SameIn(g, h),
         Nodes(g) \subseteq Nodes(h)
  PROVE  Wired(h, I, O)
<1>1. OutWired(h, O)
  BY DEF Wired, OutWired, SameEdges, SameOut, Edges
<1>2. InWired(h, I)
  BY DEF Wired, InWired, SameEdges, SameIn, Edges
<1> QED BY <1>1, <1>2 DEF Wired, SameEdges, Edges

(* A graph starts coherent. *)
LEMMA EmptyGraphInv == GraphInv(EmptyGraph) /\ Nodes(EmptyGraph) = {} /\ Edges(EmptyGraph) = {}
<1>1. \A T : <<>> \in Seq(T)
  OBVIOUS
<1>2. EmptyGraph \in GraphType
  BY <1>1 DEF EmptyGraph, GraphType
<1>3. Nodes(EmptyGraph) = {} /\ Edges(EmptyGraph) = {}
  BY EmptyProperties DEF EmptyGraph, Nodes, Edges
<1>4. \A m \in Node : /\ EmptyGraph.outEdges[m] = <<>> /\ EmptyGraph.inEdges[m] = <<>>
                      /\ EmptyGraph.toldOut[m] = 0 /\ EmptyGraph.toldIn[m] = 0
  BY DEF EmptyGraph
<1>5. Len(<<>>) = 0
  OBVIOUS
<1>6. Wired(EmptyGraph, {}, {})
  <2>1. IsInjective(EmptyGraph.edges)
    BY EmptyProperties DEF EmptyGraph
  <2> QED BY <1>3, <1>4, <1>5, <2>1, EmptyProperties DEF Wired, OutWired, InWired
<1>7. GroupsListed(EmptyGraph, {})
  BY <1>3 DEF EmptyGraph, GroupsListed
<1>8. GraphTold(EmptyGraph)
  BY <1>3 DEF EmptyGraph, GraphTold
<1> QED BY <1>2, <1>3, <1>6, <1>7, <1>8 DEF GraphInv

(* What insert_node() changes. *)
LEMMA InsertedFields ==
  ASSUME NEW g \in GraphType, NEW n \in Node
  PROVE  LET h == Inserted(g, n)
         IN /\ h \in GraphType
            /\ SameEdges(g, h) /\ SameOut(g, h) /\ SameIn(g, h) /\ SameGroups(g, h)
            /\ Nodes(h) = Nodes(g) \cup {n} /\ h.toldNodes = g.toldNodes \cup {n}
<1> DEFINE nodes == Append(g.nodes, n)
           roots == Append(g.roots, n)
           told == g.toldNodes \cup {n}
<1>1. nodes \in Seq(Node) /\ roots \in Seq(Node) /\ ToSet(nodes) = ToSet(g.nodes) \cup {n}
  <2>1. g.nodes \in Seq(Node) /\ g.roots \in Seq(Node)
    BY DEF GraphType
  <2> QED BY <2>1, AppendedProperties
<1>2. Inserted(g, n) = [g EXCEPT !.nodes = nodes, !.roots = roots, !.toldNodes = told]
  BY DEF Inserted, GraphType
<1> HIDE DEF nodes, roots, told
<1>3. /\ Inserted(g, n) \in GraphType
      /\ Inserted(g, n).nodes = nodes /\ Inserted(g, n).toldNodes = told
  <2>1. told \in SUBSET Node
    BY DEF GraphType, told
  <2> QED BY <1>1, <1>2, <2>1 DEF GraphType
<1>4. /\ SameEdges(g, Inserted(g, n)) /\ SameOut(g, Inserted(g, n))
      /\ SameIn(g, Inserted(g, n)) /\ SameGroups(g, Inserted(g, n))
  BY <1>2 DEF GraphType, SameEdges, SameOut, SameIn, SameGroups
<1> QED BY <1>1, <1>3, <1>4 DEF Nodes, told

(* insert_node() keeps the invariant and adds the node. *)
LEMMA InsertNodeKeeps ==
  ASSUME NEW g, GraphInv(g), NEW n \in Node \ Group
  PROVE  LET h == Inserted(g, n)
         IN GraphInv(h) /\ Nodes(h) = Nodes(g) \cup {n} /\ SameEdges(g, h)
<1> DEFINE h == Inserted(g, n)
<1>1. /\ h \in GraphType
      /\ SameEdges(g, h) /\ SameOut(g, h) /\ SameIn(g, h) /\ SameGroups(g, h)
      /\ Nodes(h) = Nodes(g) \cup {n} /\ h.toldNodes = g.toldNodes \cup {n}
  BY InsertedFields DEF GraphInv
<1> HIDE DEF h
<1>2. Wired(h, {}, {})
  BY <1>1, WiredSame DEF GraphInv
<1>3. GroupsListed(h, {})
  BY <1>1 DEF GraphInv, GroupsListed, SameGroups
<1>4. GraphTold(h)
  BY <1>1 DEF GraphInv, GraphTold, SameEdges, Edges
<1> QED BY <1>1, <1>2, <1>3, <1>4 DEF GraphInv, h

(* insert_group() keeps the invariant and adds the group as a node. *)
LEMMA InsertGroupKeeps ==
  ASSUME NEW g, GraphInv(g), NEW n \in Group
  PROVE  LET h == [Inserted(g, n) EXCEPT !.groups = Append(@, n)]
         IN GraphInv(h) /\ Nodes(h) = Nodes(g) \cup {n} /\ SameEdges(g, h)
<1> DEFINE k == Inserted(g, n)
           h == [k EXCEPT !.groups = Append(@, n)]
<1>1. /\ k \in GraphType
      /\ SameEdges(g, k) /\ SameOut(g, k) /\ SameIn(g, k) /\ SameGroups(g, k)
      /\ Nodes(k) = Nodes(g) \cup {n} /\ k.toldNodes = g.toldNodes \cup {n}
  BY InsertedFields, ConstantsAssumption DEF GraphInv
<1> HIDE DEF k
<1>2. /\ Append(k.groups, n) \in Seq(Group \cup {NoNode})
      /\ ToSet(Append(k.groups, n)) = ToSet(k.groups) \cup {n}
  <2>1. k.groups \in Seq(Group \cup {NoNode}) /\ n \in Group \cup {NoNode}
    BY <1>1 DEF GraphType
  <2> QED BY <2>1, AppendedProperties
<1>3. /\ h \in GraphType /\ h.groups = Append(k.groups, n)
      /\ SameEdges(k, h) /\ SameOut(k, h) /\ SameIn(k, h) /\ SameNodes(k, h)
      /\ h.groupOf = k.groupOf /\ h.members = k.members
  BY <1>1, <1>2 DEF GraphType, SameEdges, SameOut, SameIn, SameNodes
<1> HIDE DEF h
<1>4. Nodes(h) = Nodes(g) \cup {n} /\ h.toldNodes = g.toldNodes \cup {n}
  BY <1>1, <1>3 DEF SameNodes, Nodes
<1>5. SameEdges(g, h) /\ SameOut(g, h) /\ SameIn(g, h)
  BY <1>1, <1>3 DEF SameEdges, SameOut, SameIn
<1>6. Wired(h, {}, {})
  BY <1>4, <1>5, WiredSame DEF GraphInv
<1>7. GroupsListed(h, {})
  BY <1>1, <1>2, <1>3, <1>4 DEF GraphInv, GroupsListed, SameGroups
<1>8. GraphTold(h)
  BY <1>4, <1>5 DEF GraphInv, GraphTold, SameEdges, Edges
<1> QED BY <1>3, <1>4, <1>5, <1>6, <1>7, <1>8 DEF GraphInv, h, k

(* A graph that lost edges and is still wired keeps the invariant. *)
LEMMA WithoutKeeps ==
  ASSUME NEW g, GraphInv(g), NEW h \in GraphType, NEW D, Without(g, h, D), Wired(h, {}, {})
  PROVE  GraphInv(h)
<1>1. Nodes(h) = Nodes(g)
  BY DEF Without, SameNodes, Nodes
<1>2. GroupsListed(h, {})
  BY <1>1 DEF GraphInv, GroupsListed, Without, SameGroups
<1>3. GraphTold(h)
  BY <1>1 DEF GraphInv, GraphTold, Without, SameNodes
<1> QED BY <1>2, <1>3 DEF GraphInv

(* remove_edge() keeps the invariant and removes the edge. *)
LEMMA RemoveEdgeKeeps ==
  ASSUME NEW g, GraphInv(g), NEW e \in Edges(g)
  PROVE  GraphInv(Unlinked(g, e)) /\ Without(g, Unlinked(g, e), {e})
  BY UnlinkedKeeps, WithoutKeeps DEF GraphInv

(* remove_all_edges() keeps the invariant and removes the parallel edges. *)
LEMMA RemoveEdgesKeep ==
  ASSUME NEW g, GraphInv(g), NEW s, NEW d
  PROVE  LET D == {e \in Edges(g) : g.src[e] = s /\ g.dst[e] = d}
             h == UnlinkedAll(g, Between(g, s, d))
         IN GraphInv(h) /\ Without(g, h, D)
<1> DEFINE D == {e \in Edges(g) : g.src[e] = s /\ g.dst[e] = d}
           B == Between(g, s, d)
<1>1. g \in GraphType /\ g.edges \in Seq(Edge) /\ Edges(g) \subseteq Edge /\ IsInjective(g.edges)
  BY NodesType DEF GraphInv, GraphType, Wired
<1>2. /\ B \in Seq(Edge) /\ IsInjective(B)
      /\ ToSet(B) = ToSet(g.edges) \cap {e \in Edge : g.src[e] = s /\ g.dst[e] = d}
  BY <1>1, KeptProperties DEF Between
<1> HIDE DEF B
<1>3. ToSet(B) = D
  BY <1>1, <1>2 DEF Edges
<1> HIDE DEF D
<1>4. D \subseteq Edges(g)
  BY DEF D
<1>5. /\ UnlinkedAll(g, B) \in GraphType
      /\ Wired(UnlinkedAll(g, B), {}, {})
      /\ Without(g, UnlinkedAll(g, B), D)
  BY <1>1, <1>2, <1>3, <1>4, UnlinkedAllKeeps DEF GraphInv
<1>6. GraphInv(UnlinkedAll(g, B))
  BY <1>5, WithoutKeeps
<1> QED BY <1>5, <1>6 DEF B, D

(* The lists f, of which the one of n has e more. *)
Listing(f, n, e) == [f EXCEPT ![n] = Append(@, e)]

(* add_out_edge() changes the lists and the count of the source only. *)
LEMMA WithOutEdgeFields ==
  ASSUME NEW g \in GraphType, NEW e \in Edge, g.src[e] \in Node
  PROVE  LET h == WithOutEdge(g, e)
             s == g.src[e]
         IN /\ h \in GraphType
            /\ SameNodes(g, h) /\ SameGroups(g, h) /\ SameEdges(g, h) /\ SameIn(g, h)
            /\ h.roots = g.roots
            /\ h.outEdges = [g.outEdges EXCEPT ![s] = Append(@, e)]
            /\ h.toldOut = [g.toldOut EXCEPT ![s] = @ + 1]
<1> DEFINE s == g.src[e]
           edges == Append(g.outEdges[s], e)
           nodes == Append(g.outNodes[s], g.dst[e])
           j == [g EXCEPT !.outEdges[s] = edges, !.outNodes[s] = nodes]
           k == TellOut(j, s, 1)
<1>1. s \in Node /\ g.outEdges[s] \in Seq(Edge) /\ g.outNodes[s] \in Seq(Node \cup {NoNode})
      /\ g.toldOut[s] \in Int /\ g.dst[e] \in Node \cup {NoNode}
  BY DEF GraphType
<1>2. edges \in Seq(Edge) /\ nodes \in Seq(Node \cup {NoNode})
  BY <1>1
<1>3. WithOutEdge(g, e) = k
  BY DEF WithOutEdge
<1> HIDE DEF s, edges, nodes
<1>4. /\ j \in GraphType
      /\ SameNodes(g, j) /\ SameGroups(g, j) /\ SameEdges(g, j) /\ SameIn(g, j) /\ j.roots = g.roots
      /\ j.outEdges = [g.outEdges EXCEPT ![s] = edges] /\ j.toldOut = g.toldOut
  BY <1>1, <1>2 DEF GraphType, SameNodes, SameGroups, SameEdges, SameIn
<1>5. k = [j EXCEPT !.toldOut = [j.toldOut EXCEPT ![s] = @ + 1]]
  BY <1>1, <1>4 DEF TellOut, GraphType
<1> HIDE DEF j, k
<1>6. [j.toldOut EXCEPT ![s] = @ + 1] \in [Node -> Int]
  <2>1. g.toldOut \in [Node -> Int]
    BY DEF GraphType
  <2> QED BY <1>1, <1>4, <2>1
<1>7. /\ k \in GraphType
      /\ SameNodes(g, k) /\ SameGroups(g, k) /\ SameEdges(g, k) /\ SameIn(g, k) /\ k.roots = g.roots
      /\ k.outEdges = [g.outEdges EXCEPT ![s] = edges]
      /\ k.toldOut = [g.toldOut EXCEPT ![s] = @ + 1]
  BY <1>4, <1>5, <1>6 DEF GraphType, SameNodes, SameGroups, SameEdges, SameIn
<1> QED BY <1>3, <1>7 DEF s, edges

(* add_in_edge() changes the lists and the count of the destination only. *)
LEMMA WithInEdgeFields ==
  ASSUME NEW g \in GraphType, NEW e \in Edge, g.dst[e] \in Node
  PROVE  LET h == WithInEdge(g, e)
             d == g.dst[e]
         IN /\ h \in GraphType
            /\ SameNodes(g, h) /\ SameGroups(g, h) /\ SameEdges(g, h) /\ SameOut(g, h)
            /\ h.roots = g.roots
            /\ h.inEdges = [g.inEdges EXCEPT ![d] = Append(@, e)]
            /\ h.toldIn = [g.toldIn EXCEPT ![d] = @ + 1]
<1> DEFINE d == g.dst[e]
           edges == Append(g.inEdges[d], e)
           nodes == Append(g.inNodes[d], g.src[e])
           j == [g EXCEPT !.inEdges[d] = edges, !.inNodes[d] = nodes]
           k == TellIn(j, d, 1)
<1>1. d \in Node /\ g.inEdges[d] \in Seq(Edge) /\ g.inNodes[d] \in Seq(Node \cup {NoNode})
      /\ g.toldIn[d] \in Int /\ g.src[e] \in Node \cup {NoNode}
  BY DEF GraphType
<1>2. edges \in Seq(Edge) /\ nodes \in Seq(Node \cup {NoNode})
  BY <1>1
<1>3. WithInEdge(g, e) = k
  BY DEF WithInEdge
<1> HIDE DEF d, edges, nodes
<1>4. /\ j \in GraphType
      /\ SameNodes(g, j) /\ SameGroups(g, j) /\ SameEdges(g, j) /\ SameOut(g, j) /\ j.roots = g.roots
      /\ j.inEdges = [g.inEdges EXCEPT ![d] = edges] /\ j.toldIn = g.toldIn
  BY <1>1, <1>2 DEF GraphType, SameNodes, SameGroups, SameEdges, SameOut
<1>5. k = [j EXCEPT !.toldIn = [j.toldIn EXCEPT ![d] = @ + 1]]
  BY <1>1, <1>4 DEF TellIn, GraphType
<1> HIDE DEF j, k
<1>6. [j.toldIn EXCEPT ![d] = @ + 1] \in [Node -> Int]
  <2>1. g.toldIn \in [Node -> Int]
    BY DEF GraphType
  <2> QED BY <1>1, <1>4, <2>1
<1>7. /\ k \in GraphType
      /\ SameNodes(g, k) /\ SameGroups(g, k) /\ SameEdges(g, k) /\ SameOut(g, k) /\ k.roots = g.roots
      /\ k.inEdges = [g.inEdges EXCEPT ![d] = edges]
      /\ k.toldIn = [g.toldIn EXCEPT ![d] = @ + 1]
  BY <1>4, <1>5, <1>6 DEF GraphType, SameNodes, SameGroups, SameEdges, SameOut
<1> QED BY <1>3, <1>7 DEF d, edges

(* h is g with the edge e from s to d. *)
IsLinked(g, h, e, s, d) ==
  /\ SameNodes(g, h) /\ SameGroups(g, h)
  /\ h.edges = Append(g.edges, e)
  /\ h.src = [g.src EXCEPT ![e] = s] /\ h.dst = [g.dst EXCEPT ![e] = d]
  /\ h.toldEdges = g.toldEdges \cup {e}
  /\ h.outEdges = Listing(g.outEdges, s, e)
  /\ h.toldOut = [g.toldOut EXCEPT ![s] = @ + 1]
  /\ h.inEdges = Listing(g.inEdges, d, e)
  /\ h.toldIn = [g.toldIn EXCEPT ![d] = @ + 1]

(* What create_edge() changes. *)
LEMMA LinkedFields ==
  ASSUME NEW g \in GraphType, NEW e \in Edge, NEW s \in Node, NEW d \in Node
  PROVE  Linked(g, e, s, d) \in GraphType /\ IsLinked(g, Linked(g, e, s, d), e, s, d)
<1> DEFINE j == [g EXCEPT !.edges = Append(@, e), !.src[e] = s, !.dst[e] = d]
           a == WithOutEdge(j, e)
           b == WithInEdge(a, e)
           roots == IF s = d THEN b.roots ELSE Erased(b.roots, d)
           told == b.toldEdges \cup {e}
           h == [b EXCEPT !.roots = roots, !.toldEdges = told]
<1>1. Linked(g, e, s, d) = [b EXCEPT !.roots = IF s = d THEN @ ELSE Erased(@, d),
                                     !.toldEdges = @ \cup {e}]
  BY DEF Linked
<1>2. Append(g.edges, e) \in Seq(Edge)
  BY DEF GraphType
<1>3. /\ j \in GraphType
      /\ SameNodes(g, j) /\ SameGroups(g, j) /\ SameOut(g, j) /\ SameIn(g, j)
      /\ j.edges = Append(g.edges, e) /\ j.toldEdges = g.toldEdges
      /\ j.src = [g.src EXCEPT ![e] = s] /\ j.dst = [g.dst EXCEPT ![e] = d]
  BY <1>2 DEF GraphType, SameNodes, SameGroups, SameOut, SameIn
<1>4. j.src[e] = s /\ j.dst[e] = d
  BY <1>3 DEF GraphType
<1> HIDE DEF j
<1>5. /\ a \in GraphType
      /\ SameNodes(j, a) /\ SameGroups(j, a) /\ SameEdges(j, a) /\ SameIn(j, a)
      /\ a.outEdges = [j.outEdges EXCEPT ![s] = Append(@, e)]
      /\ a.toldOut = [j.toldOut EXCEPT ![s] = @ + 1]
  BY <1>3, <1>4, WithOutEdgeFields
<1> HIDE DEF a
<1>6. a.dst[e] = d
  BY <1>4, <1>5 DEF SameEdges
<1>7. /\ b \in GraphType
      /\ SameNodes(a, b) /\ SameGroups(a, b) /\ SameEdges(a, b) /\ SameOut(a, b)
      /\ b.inEdges = [a.inEdges EXCEPT ![d] = Append(@, e)]
      /\ b.toldIn = [a.toldIn EXCEPT ![d] = @ + 1]
  BY <1>5, <1>6, WithInEdgeFields
<1> HIDE DEF b
<1>8. Linked(g, e, s, d) = h
  BY <1>1, <1>7 DEF GraphType
<1>9. roots \in Seq(Node)
  <2>1. b.roots \in Seq(Node)
    BY <1>7 DEF GraphType
  <2>2. Erased(b.roots, d) \in Seq(Node)
    BY <2>1, ErasedProperties
  <2> QED BY <2>1, <2>2
<1>10. told \in SUBSET Edge
  BY <1>7 DEF GraphType
<1> HIDE DEF roots
<1>11. /\ h \in GraphType
       /\ SameNodes(b, h) /\ SameGroups(b, h) /\ SameOut(b, h) /\ SameIn(b, h)
       /\ h.edges = b.edges /\ h.src = b.src /\ h.dst = b.dst /\ h.toldEdges = told
  <2> HIDE DEF told
  <2> QED BY <1>7, <1>9, <1>10 DEF GraphType, SameNodes, SameGroups, SameOut, SameIn
<1> HIDE DEF h
<1> QED BY <1>3, <1>5, <1>7, <1>8, <1>11 DEF SameNodes, SameGroups, SameEdges, SameOut, SameIn, Listing, IsLinked

(* create_edge() keeps the invariant and adds the edge. *)
LEMMA CreateEdgeKeeps ==
  ASSUME NEW g, GraphInv(g), NEW e \in Edge \ Edges(g), NEW s \in Nodes(g), NEW d \in Nodes(g)
  PROVE  LET h == Linked(g, e, s, d)
         IN /\ GraphInv(h) /\ Nodes(h) = Nodes(g) /\ Edges(h) = Edges(g) \cup {e}
            /\ h.src = [g.src EXCEPT ![e] = s] /\ h.dst = [g.dst EXCEPT ![e] = d]
<1> DEFINE h == Linked(g, e, s, d)
<1>1. g \in GraphType /\ Wired(g, {}, {}) /\ s \in Node /\ d \in Node
      /\ e \in Edge /\ e \notin Edges(g)
  BY NodesType DEF GraphInv
<1>2. /\ h \in GraphType
      /\ SameNodes(g, h) /\ SameGroups(g, h)
      /\ h.edges = Append(g.edges, e)
      /\ h.src = [g.src EXCEPT ![e] = s] /\ h.dst = [g.dst EXCEPT ![e] = d]
      /\ h.toldEdges = g.toldEdges \cup {e}
      /\ h.outEdges = Listing(g.outEdges, s, e)
      /\ h.toldOut = [g.toldOut EXCEPT ![s] = @ + 1]
      /\ h.inEdges = Listing(g.inEdges, d, e)
      /\ h.toldIn = [g.toldIn EXCEPT ![d] = @ + 1]
  <2>1. h \in GraphType /\ IsLinked(g, h, e, s, d)
    BY <1>1, LinkedFields
  <2> QED BY <2>1 DEF IsLinked
<1> HIDE DEF h
<1>3. /\ g.edges \in Seq(Edge) /\ g.src \in [Edge -> Node \cup {NoNode}]
      /\ g.dst \in [Edge -> Node \cup {NoNode}] /\ IsInjective(g.edges)
      /\ g.outEdges \in [Node -> Seq(Edge)] /\ g.inEdges \in [Node -> Seq(Edge)]
      /\ g.toldOut \in [Node -> Int] /\ g.toldIn \in [Node -> Int]
  BY <1>1 DEF GraphType, Wired
<1>4. Edges(h) = Edges(g) \cup {e} /\ IsInjective(h.edges)
  <2>1. e \notin ToSet(g.edges) /\ Edges(g) = ToSet(g.edges)
    BY <1>1 DEF Edges
  <2>2. /\ ToSet(Append(g.edges, e)) = ToSet(g.edges) \cup {e}
        /\ IsInjective(Append(g.edges, e))
    BY <1>1, <1>3, <2>1, AppendedProperties
  <2> QED BY <1>2, <2>1, <2>2 DEF Edges
<1>5. /\ h.src[e] = s /\ h.dst[e] = d /\ e \notin Edges(g)
      /\ \A f \in Edges(g) : f # e /\ f \in Edge /\ h.src[f] = g.src[f] /\ h.dst[f] = g.dst[f]
  BY <1>1, <1>2, <1>3, NodesType
<1>6. ASSUME NEW m \in Node
      PROVE  /\ IsInjective(h.outEdges[m])
             /\ \A f \in ToSet(h.outEdges[m]) : f \in Edges(h) /\ h.src[f] = m
             /\ h.toldOut[m] = Len(h.outEdges[m])
             /\ \A f \in Edges(h) : h.src[f] = m => f \in ToSet(h.outEdges[m])
  <2> DEFINE list == g.outEdges[m]
  <2>1. /\ list \in Seq(Edge) /\ IsInjective(list)
        /\ \A f \in ToSet(list) : f \in Edges(g) /\ g.src[f] = m
        /\ g.toldOut[m] = Len(list)
        /\ \A f \in Edges(g) : g.src[f] = m => f \in ToSet(list)
    BY <1>1, <1>3 DEF Wired, OutWired
  <2>2. h.outEdges[m] = IF m = s THEN Append(list, e) ELSE list
    BY <1>2, <1>3 DEF Listing
  <2>3. h.toldOut[m] = IF m = s THEN g.toldOut[m] + 1 ELSE g.toldOut[m]
    BY <1>2, <1>3
  <2> HIDE DEF list
  <2>4. CASE m = s
    <3>1. ToSet(Append(list, e)) = ToSet(list) \cup {e} /\ IsInjective(Append(list, e))
          /\ Len(Append(list, e)) = Len(list) + 1
      BY <2>1, AppendedProperties
    <3> QED BY <1>4, <1>5, <2>1, <2>2, <2>3, <2>4, <3>1
  <2>5. CASE m # s
    BY <1>4, <1>5, <2>1, <2>2, <2>3, <2>5
  <2> QED BY <2>4, <2>5
<1>7. ASSUME NEW m \in Node
      PROVE  /\ IsInjective(h.inEdges[m])
             /\ \A f \in ToSet(h.inEdges[m]) : f \in Edges(h) /\ h.dst[f] = m
             /\ h.toldIn[m] = Len(h.inEdges[m])
             /\ \A f \in Edges(h) : h.dst[f] = m => f \in ToSet(h.inEdges[m])
  <2> DEFINE list == g.inEdges[m]
  <2>1. /\ list \in Seq(Edge) /\ IsInjective(list)
        /\ \A f \in ToSet(list) : f \in Edges(g) /\ g.dst[f] = m
        /\ g.toldIn[m] = Len(list)
        /\ \A f \in Edges(g) : g.dst[f] = m => f \in ToSet(list)
    BY <1>1, <1>3 DEF Wired, InWired
  <2>2. h.inEdges[m] = IF m = d THEN Append(list, e) ELSE list
    BY <1>2, <1>3 DEF Listing
  <2>3. h.toldIn[m] = IF m = d THEN g.toldIn[m] + 1 ELSE g.toldIn[m]
    BY <1>2, <1>3
  <2> HIDE DEF list
  <2>4. CASE m = d
    <3>1. ToSet(Append(list, e)) = ToSet(list) \cup {e} /\ IsInjective(Append(list, e))
          /\ Len(Append(list, e)) = Len(list) + 1
      BY <2>1, AppendedProperties
    <3> QED BY <1>4, <1>5, <2>1, <2>2, <2>3, <2>4, <3>1
  <2>5. CASE m # d
    BY <1>4, <1>5, <2>1, <2>2, <2>3, <2>5
  <2> QED BY <2>4, <2>5
<1>8. Nodes(h) = Nodes(g)
  BY <1>2 DEF SameNodes, Nodes
<1>9. OutWired(h, {}) /\ InWired(h, {})
  BY <1>6, <1>7 DEF OutWired, InWired
<1>10. Wired(h, {}, {})
  BY <1>1, <1>4, <1>5, <1>8, <1>9 DEF Wired
<1>11. GroupsListed(h, {})
  BY <1>2, <1>8 DEF GraphInv, GroupsListed, SameGroups
<1>12. GraphTold(h)
  BY <1>2, <1>4, <1>8 DEF GraphInv, GraphTold, SameNodes
<1> QED BY <1>2, <1>4, <1>8, <1>10, <1>11, <1>12 DEF GraphInv, h

(* h is g but for the groups of the nodes. *)
SameWiring(g, h) == SameNodes(g, h) /\ SameEdges(g, h) /\ SameOut(g, h) /\ SameIn(g, h)

(* Grouping touches neither the wiring nor what observers of the graph know. *)
LEMMA SameWiringKeeps ==
  ASSUME NEW g, NEW h, SameWiring(g, h)
  PROVE  /\ Nodes(h) = Nodes(g) /\ Edges(h) = Edges(g)
         /\ \A I, O : Wired(g, I, O) => Wired(h, I, O)
         /\ GraphTold(g) => GraphTold(h)
<1>1. Nodes(h) = Nodes(g) /\ Edges(h) = Edges(g)
  BY DEF SameWiring, SameNodes, SameEdges, Nodes, Edges
<1>2. ASSUME NEW I, NEW O, Wired(g, I, O) PROVE Wired(h, I, O)
  BY <1>1, <1>2, WiredSame DEF SameWiring
<1>3. GraphTold(g) => GraphTold(h)
  BY <1>1 DEF GraphTold, SameWiring, SameNodes, SameEdges
<1> QED BY <1>1, <1>2, <1>3

(* group_node() keeps the invariant, whatever the group the node was in. *)
LEMMA GroupNodeKeeps ==
  ASSUME NEW g, GraphInv(g), NEW n \in Nodes(g), NEW x \in Group \cap Nodes(g)
  PROVE  GraphInv(Grouped(g, n, x)) /\ SameWiring(g, Grouped(g, n, x))
<1> DEFINE h == Grouped(g, n, x)
           list == Append(g.members[x], n)
<1>1. g \in GraphType /\ n \in Node /\ x \in Group /\ x \in Node /\ x # NoNode
  BY NodesType, ConstantsAssumption DEF GraphInv
<1>2. /\ g.groupOf \in [Node -> Group \cup {NoNode}]
      /\ g.members \in [Group -> Seq(Node \cup {NoNode})]
      /\ n \in Node \cup {NoNode}
  BY <1>1 DEF GraphType
<1>3. list \in Seq(Node \cup {NoNode}) /\ ToSet(list) = ToSet(g.members[x]) \cup {n}
  <2>1. g.members[x] \in Seq(Node \cup {NoNode})
    BY <1>1, <1>2
  <2> QED BY <1>2, <2>1, AppendedProperties
<1>4. h = [g EXCEPT !.groupOf = [g.groupOf EXCEPT ![n] = x],
                    !.members = [g.members EXCEPT ![x] = list]]
  BY <1>1 DEF Grouped, GraphType
<1> HIDE DEF list, h
<1>5. /\ h \in GraphType
      /\ SameWiring(g, h) /\ h.groups = g.groups
      /\ h.groupOf = [g.groupOf EXCEPT ![n] = x]
      /\ h.members = [g.members EXCEPT ![x] = list]
  <2>1. [g.groupOf EXCEPT ![n] = x] \in [Node -> Group \cup {NoNode}]
    BY <1>1, <1>2
  <2>2. [g.members EXCEPT ![x] = list] \in [Group -> Seq(Node \cup {NoNode})]
    BY <1>1, <1>2, <1>3
  <2> QED BY <1>1, <1>4, <2>1, <2>2 DEF GraphType, SameWiring, SameNodes, SameEdges, SameOut, SameIn
<1>6. Nodes(h) = Nodes(g) /\ Wired(h, {}, {}) /\ GraphTold(h)
  BY <1>5, SameWiringKeeps DEF GraphInv
<1>7. ASSUME NEW m \in Node, h.groupOf[m] # NoNode
      PROVE  h.groupOf[m] \in Nodes(h) /\ m \in ToSet(h.members[h.groupOf[m]])
  <2> DEFINE y == h.groupOf[m]
  <2>1. CASE m = n
    <3>1. y = x /\ h.members[x] = list
      BY <1>1, <1>2, <1>5, <2>1
    <3> QED BY <1>3, <1>6, <2>1, <3>1
  <2>2. CASE m # n
    <3>1. y = g.groupOf[m] /\ y \in Group
      BY <1>1, <1>2, <1>5, <1>7, <2>2
    <3>2. y \in Nodes(g) /\ m \in ToSet(g.members[y])
      BY <1>7, <3>1 DEF GraphInv, GroupsListed
    <3>3. h.members[y] = IF y = x THEN list ELSE g.members[y]
      BY <1>2, <1>5, <3>1
    <3> QED BY <1>3, <1>6, <3>2, <3>3
  <2> QED BY <2>1, <2>2
<1>8. GroupsListed(h, {})
  BY <1>5, <1>6, <1>7 DEF GraphInv, GroupsListed
<1> QED BY <1>5, <1>6, <1>8 DEF GraphInv, h

(* ungroup_node() takes the node out of the group it is in and keeps the rest. *)
LEMMA UngroupedKeeps ==
  ASSUME NEW g \in GraphType, NEW X, GroupsListed(g, X), NEW n \in Node, g.groupOf[n] # NoNode
  PROVE  LET h == Ungrouped(g, n)
         IN h \in GraphType /\ SameWiring(g, h) /\ GroupsListed(h, X) /\ h.groupOf[n] = NoNode
<1> DEFINE h == Ungrouped(g, n)
           x == g.groupOf[n]
           list == Erased(g.members[x], n)
<1>1. /\ g.groupOf \in [Node -> Group \cup {NoNode}]
      /\ g.members \in [Group -> Seq(Node \cup {NoNode})]
  BY DEF GraphType
<1>2. x \in Group
  BY <1>1
<1>3. list \in Seq(Node \cup {NoNode}) /\ ToSet(list) = ToSet(g.members[x]) \ {n}
  <2>1. g.members[x] \in Seq(Node \cup {NoNode})
    BY <1>1, <1>2
  <2> QED BY <2>1, ErasedProperties
<1>4. h = [g EXCEPT !.members = [g.members EXCEPT ![x] = list],
                    !.groupOf = [g.groupOf EXCEPT ![n] = NoNode]]
  BY <1>2 DEF Ungrouped, GraphType
<1> HIDE DEF list, h
<1>5. /\ h \in GraphType
      /\ SameWiring(g, h) /\ h.groups = g.groups
      /\ h.groupOf = [g.groupOf EXCEPT ![n] = NoNode]
      /\ h.members = [g.members EXCEPT ![x] = list]
  <2>1. [g.groupOf EXCEPT ![n] = NoNode] \in [Node -> Group \cup {NoNode}]
    BY <1>1
  <2>2. [g.members EXCEPT ![x] = list] \in [Group -> Seq(Node \cup {NoNode})]
    BY <1>1, <1>2, <1>3
  <2> HIDE DEF x
  <2> QED BY <1>4, <2>1, <2>2 DEF GraphType, SameWiring, SameNodes, SameEdges, SameOut, SameIn
<1>6. Nodes(h) = Nodes(g)
  BY <1>5, SameWiringKeeps
<1>7. h.groupOf[n] = NoNode
  BY <1>1, <1>5
<1>8. ASSUME NEW m \in Node, h.groupOf[m] # NoNode
      PROVE  h.groupOf[m] \in Nodes(h) /\ m \in ToSet(h.members[h.groupOf[m]])
  <2> DEFINE y == h.groupOf[m]
  <2>1. m # n
    BY <1>7, <1>8
  <2>2. y = g.groupOf[m] /\ y \in Group
    BY <1>1, <1>5, <1>8, <2>1
  <2>3. y \in Nodes(g) /\ m \in ToSet(g.members[y])
    BY <1>8, <2>2 DEF GroupsListed
  <2>4. h.members[y] = IF y = x THEN list ELSE g.members[y]
    BY <1>1, <1>5, <2>2
  <2> HIDE DEF y, x
  <2>5. m \in ToSet(h.members[y])
    BY <1>3, <2>1, <2>3, <2>4
  <2> QED BY <1>6, <2>3, <2>5 DEF y
<1>9. GroupsListed(h, X)
  BY <1>5, <1>6, <1>8 DEF GroupsListed
<1> QED BY <1>5, <1>7, <1>9 DEF h

(* ungroup_node() keeps the invariant. *)
LEMMA UngroupNodeKeeps ==
  ASSUME NEW g, GraphInv(g), NEW n \in Node, g.groupOf[n] # NoNode
  PROVE  GraphInv(Ungrouped(g, n)) /\ SameWiring(g, Ungrouped(g, n))
  BY UngroupedKeeps, SameWiringKeeps DEF GraphInv

(* Expiry of a weak pointer leaves the other entries of a vector. *)
LEMMA Replaced ==
  ASSUME NEW T, NEW s \in Seq(T), NEW x, NEW y \in T
  PROVE  /\ ReplaceAll(s, x, y) \in Seq(T)
         /\ \A z \in ToSet(s) \ {x} : z \in ToSet(ReplaceAll(s, x, y))
<1> DEFINE r == ReplaceAll(s, x, y)
<1>1. r = [i \in 1 .. Len(s) |-> IF s[i] = x THEN y ELSE s[i]]
  BY DEF ReplaceAll
<1> HIDE DEF r
<1>2. Len(s) \in Nat /\ \A i \in 1 .. Len(s) : r[i] \in T
  BY <1>1
<1>3. r \in Seq(T) /\ DOMAIN r = 1 .. Len(s)
  BY <1>1, <1>2, IsASeq
<1>4. ASSUME NEW z \in ToSet(s), z # x PROVE z \in ToSet(r)
  <2>1. PICK i \in 1 .. Len(s) : s[i] = z
    BY DEF ToSet
  <2>2. r[i] = z
    BY <1>1, <1>4, <2>1
  <2> QED BY <1>3, <2>2 DEF ToSet
<1> QED BY <1>3, <1>4 DEF r

(* No edge of g has n as an end. *)
Isolated(g, n) == \A e \in Edges(g) : g.src[e] # n /\ g.dst[e] # n

(* What the observers know of the other nodes. *)
ToldBut(g, n) ==
  /\ g.toldEdges = Edges(g)
  /\ Nodes(g) \ {n} \subseteq g.toldNodes
  /\ g.toldNodes \ Nodes(g) \subseteq Group
  /\ n \in g.toldNodes => n \in Group

(* What the destruction of a node changes. *)
LEMMA DestroyedFields ==
  ASSUME NEW g \in GraphType, NEW n \in Node
  PROVE  LET h == Destroyed(g, n)
         IN /\ h \in GraphType /\ SameEdges(g, h)
            /\ Nodes(h) = Nodes(g) \ {n} /\ h.toldNodes = g.toldNodes
            /\ h.outEdges = g.outEdges /\ h.inEdges = g.inEdges
            /\ h.toldOut = [g.toldOut EXCEPT ![n] = 0] /\ h.toldIn = [g.toldIn EXCEPT ![n] = 0]
            /\ \A z \in ToSet(g.groups) \ {n} : z \in ToSet(h.groups)
            /\ \A m \in Node : h.groupOf[m] = IF g.groupOf[m] = n THEN NoNode ELSE g.groupOf[m]
            /\ \A x \in Group \ {n} : \A z \in ToSet(g.members[x]) \ {n} : z \in ToSet(h.members[x])
<1> DEFINE nodes == Erased(g.nodes, n)
           roots == Erased(g.roots, n)
           groups == ReplaceAll(g.groups, n, NoNode)
           groupOf == [m \in Node |-> IF g.groupOf[m] = n THEN NoNode ELSE g.groupOf[m]]
           members == [x \in Group |-> IF x = n THEN <<>> ELSE ReplaceAll(g.members[x], n, NoNode)]
           out == [g.toldOut EXCEPT ![n] = 0]
           in == [g.toldIn EXCEPT ![n] = 0]
           h == [g EXCEPT !.nodes = nodes, !.roots = roots, !.groups = groups, !.groupOf = groupOf,
                          !.members = members, !.toldOut = out, !.toldIn = in]
<1>1. Destroyed(g, n) = h
  BY DEF Destroyed, GraphType
<1>2. /\ g.nodes \in Seq(Node) /\ g.roots \in Seq(Node) /\ g.groups \in Seq(Group \cup {NoNode})
      /\ g.groupOf \in [Node -> Group \cup {NoNode}]
      /\ g.members \in [Group -> Seq(Node \cup {NoNode})]
      /\ g.toldOut \in [Node -> Int] /\ g.toldIn \in [Node -> Int]
  BY DEF GraphType
<1>3. nodes \in Seq(Node) /\ ToSet(nodes) = ToSet(g.nodes) \ {n} /\ roots \in Seq(Node)
  BY <1>2, ErasedProperties
<1>4. /\ groups \in Seq(Group \cup {NoNode})
      /\ \A z \in ToSet(g.groups) \ {n} : z \in ToSet(groups)
  <2>1. NoNode \in Group \cup {NoNode}
    OBVIOUS
  <2> QED BY <1>2, <2>1, Replaced
<1>5. groupOf \in [Node -> Group \cup {NoNode}]
  BY <1>2
<1>6. ASSUME NEW x \in Group
      PROVE  /\ members[x] \in Seq(Node \cup {NoNode})
             /\ x # n => \A z \in ToSet(g.members[x]) \ {n} : z \in ToSet(members[x])
  <2>1. NoNode \in Node \cup {NoNode} /\ g.members[x] \in Seq(Node \cup {NoNode})
    BY <1>2
  <2>2. /\ ReplaceAll(g.members[x], n, NoNode) \in Seq(Node \cup {NoNode})
        /\ \A z \in ToSet(g.members[x]) \ {n} : z \in ToSet(ReplaceAll(g.members[x], n, NoNode))
    BY <2>1, Replaced
  <2>3. <<>> \in Seq(Node \cup {NoNode})
    OBVIOUS
  <2>4. members[x] = IF x = n THEN <<>> ELSE ReplaceAll(g.members[x], n, NoNode)
    OBVIOUS
  <2> HIDE DEF members
  <2> QED BY <2>2, <2>3, <2>4
<1>7. members \in [Group -> Seq(Node \cup {NoNode})]
  BY <1>6
<1>8. out \in [Node -> Int] /\ in \in [Node -> Int]
  BY <1>2
<1>9. \A m \in Node : groupOf[m] = IF g.groupOf[m] = n THEN NoNode ELSE g.groupOf[m]
  OBVIOUS
<1> HIDE DEF nodes, roots, groups, groupOf, members, out, in
<1>10. h \in GraphType
  BY <1>3, <1>4, <1>5, <1>7, <1>8 DEF GraphType
<1>11. /\ SameEdges(g, h) /\ h.nodes = nodes /\ h.toldNodes = g.toldNodes
       /\ h.outEdges = g.outEdges /\ h.inEdges = g.inEdges
       /\ h.toldOut = out /\ h.toldIn = in
       /\ h.groups = groups /\ h.groupOf = groupOf /\ h.members = members
  BY DEF GraphType, SameEdges
<1> HIDE DEF h
<1> QED BY <1>1, <1>3, <1>4, <1>6, <1>9, <1>10, <1>11 DEF Nodes, out, in

(* A node that no edge touches and that is in no group leaves a coherent *)
(* graph behind.                                                         *)
LEMMA DestroyedKeeps ==
  ASSUME NEW g \in GraphType, NEW n \in Node, Wired(g, {n}, {n}), Isolated(g, n),
         GroupsListed(g, {n}), g.groupOf[n] = NoNode, ToldBut(g, n)
  PROVE  LET h == Destroyed(g, n)
         IN GraphInv(h) /\ Nodes(h) = Nodes(g) \ {n} /\ SameEdges(g, h)
<1> DEFINE h == Destroyed(g, n)
<1>1. /\ h \in GraphType /\ SameEdges(g, h)
      /\ Nodes(h) = Nodes(g) \ {n} /\ h.toldNodes = g.toldNodes
      /\ h.outEdges = g.outEdges /\ h.inEdges = g.inEdges
      /\ h.toldOut = [g.toldOut EXCEPT ![n] = 0] /\ h.toldIn = [g.toldIn EXCEPT ![n] = 0]
      /\ \A z \in ToSet(g.groups) \ {n} : z \in ToSet(h.groups)
      /\ \A m \in Node : h.groupOf[m] = IF g.groupOf[m] = n THEN NoNode ELSE g.groupOf[m]
      /\ \A x \in Group \ {n} : \A z \in ToSet(g.members[x]) \ {n} : z \in ToSet(h.members[x])
  BY DestroyedFields
<1> HIDE DEF h
<1>2. /\ g.outEdges \in [Node -> Seq(Edge)] /\ g.inEdges \in [Node -> Seq(Edge)]
      /\ g.toldOut \in [Node -> Int] /\ g.toldIn \in [Node -> Int]
      /\ g.groupOf \in [Node -> Group \cup {NoNode}]
  BY DEF GraphType
<1>3. Edges(h) = Edges(g) /\ h.src = g.src /\ h.dst = g.dst /\ h.toldEdges = g.toldEdges
      /\ IsInjective(h.edges)
  BY <1>1 DEF SameEdges, Edges, Wired
<1>4. g.outEdges[n] = <<>> /\ g.inEdges[n] = <<>>
  <2>1. ToSet(g.outEdges[n]) = {}
    <3>1. \A e \in ToSet(g.outEdges[n]) : e \in Edges(g) /\ g.src[e] = n
      BY DEF Wired, OutWired
    <3> QED BY <3>1 DEF Isolated
  <2>3. ToSet(g.inEdges[n]) = {}
    <3>1. \A e \in ToSet(g.inEdges[n]) : e \in Edges(g) /\ g.dst[e] = n
      BY DEF Wired, InWired
    <3> QED BY <3>1 DEF Isolated
  <2>2. \A s \in Seq(Edge) : ToSet(s) = {} => s = <<>>
    <3> SUFFICES ASSUME NEW s \in Seq(Edge), s # <<>> PROVE ToSet(s) # {}
      OBVIOUS
    <3>1. 1 \in DOMAIN s
      OBVIOUS
    <3> QED BY <3>1 DEF ToSet
  <2> QED BY <1>2, <2>1, <2>2, <2>3
<1>5. OutWired(h, {})
  <2> SUFFICES ASSUME NEW m \in Node
               PROVE  /\ IsInjective(h.outEdges[m])
                      /\ \A e \in ToSet(h.outEdges[m]) : e \in Edges(h) /\ h.src[e] = m
                      /\ h.toldOut[m] = Len(h.outEdges[m])
                      /\ \A e \in Edges(h) : h.src[e] = m => e \in ToSet(h.outEdges[m])
    BY DEF OutWired
  <2>1. CASE m = n
    <3>1. h.outEdges[m] = <<>> /\ h.toldOut[m] = 0
      BY <1>1, <1>2, <1>4, <2>1
    <3>2. Len(<<>>) = 0
      OBVIOUS
    <3> QED BY <1>3, <2>1, <3>1, <3>2, EmptyProperties DEF Isolated
  <2>2. CASE m # n
    <3>1. h.toldOut[m] = g.toldOut[m]
      BY <1>1, <1>2, <2>2
    <3> QED BY <1>1, <1>3, <2>2, <3>1 DEF Wired, OutWired
  <2> QED BY <2>1, <2>2
<1>6. InWired(h, {})
  <2> SUFFICES ASSUME NEW m \in Node
               PROVE  /\ IsInjective(h.inEdges[m])
                      /\ \A e \in ToSet(h.inEdges[m]) : e \in Edges(h) /\ h.dst[e] = m
                      /\ h.toldIn[m] = Len(h.inEdges[m])
                      /\ \A e \in Edges(h) : h.dst[e] = m => e \in ToSet(h.inEdges[m])
    BY DEF InWired
  <2>1. CASE m = n
    <3>1. h.inEdges[m] = <<>> /\ h.toldIn[m] = 0
      BY <1>1, <1>2, <1>4, <2>1
    <3>2. Len(<<>>) = 0
      OBVIOUS
    <3> QED BY <1>3, <2>1, <3>1, <3>2, EmptyProperties DEF Isolated
  <2>2. CASE m # n
    <3>1. h.toldIn[m] = g.toldIn[m]
      BY <1>1, <1>2, <2>2
    <3> QED BY <1>1, <1>3, <2>2, <3>1 DEF Wired, InWired
  <2> QED BY <2>1, <2>2
<1>7. Wired(h, {}, {})
  BY <1>1, <1>3, <1>5, <1>6 DEF Wired, Isolated
<1>8. GroupsListed(h, {})
  <2>1. ASSUME NEW m \in Node, h.groupOf[m] # NoNode
        PROVE  h.groupOf[m] \in Nodes(h) /\ m \in ToSet(h.members[h.groupOf[m]])
    <3> DEFINE x == g.groupOf[m]
    <3>1. x # n /\ x # NoNode /\ h.groupOf[m] = x /\ m # n /\ x \in Group
      BY <1>1, <1>2, <2>1
    <3>2. x \in Nodes(g) /\ m \in ToSet(g.members[x])
      BY <3>1 DEF GroupsListed
    <3> HIDE DEF x
    <3> QED BY <1>1, <3>1, <3>2
  <2>2. (Group \cap Nodes(h)) \ {} \subseteq ToSet(h.groups)
    BY <1>1 DEF GroupsListed
  <2> QED BY <2>1, <2>2 DEF GroupsListed
<1>9. GraphTold(h)
  BY <1>1, <1>3 DEF ToldBut, GraphTold
<1> QED BY <1>1, <1>7, <1>8, <1>9 DEF GraphInv, h

(* remove_node() takes the in edges of a node n out of the graph: first out of *)
(* the list of n, then one after the other, which takes them out once more.    *)
LEMMA InEdgesRemoved ==
  ASSUME NEW g \in GraphType, NEW n \in Node, Wired(g, {}, {})
  PROVE  LET h == UnlinkedAll(WithoutInEdges(g, g.inEdges[n]), g.inEdges[n])
         IN /\ h \in GraphType /\ Wired(h, {n}, {})
            /\ Without(g, h, {e \in Edges(g) : g.dst[e] = n})
<1> DEFINE in == g.inEdges[n]
           k == WithoutInEdges(g, in)
           h == UnlinkedAll(k, in)
<1>1. in \in Seq(Edge)
  BY DEF GraphType
<1>2. /\ IsInjective(in)
      /\ \A e \in ToSet(in) : e \in Edges(g) /\ g.dst[e] = n
      /\ \A e \in Edges(g) : g.dst[e] = n => e \in ToSet(in)
  BY DEF Wired, InWired
<1>3. Wired(g, {n}, {})
  BY DEF Wired, InWired
<1> HIDE DEF in
<1>4. \A e \in ToSet(in) : e \in Edges(g) /\ g.dst[e] \in {n}
  BY <1>2
<1>5. /\ k \in GraphType /\ Wired(k, {n}, {})
      /\ SameEdges(g, k) /\ SameNodes(g, k) /\ SameGroups(g, k)
  BY <1>1, <1>3, <1>4, WithoutInEdgesKeeps
<1> HIDE DEF k
<1>6. ToSet(in) \subseteq Edges(k)
  BY <1>4, <1>5 DEF SameEdges, Edges
<1>7. /\ h \in GraphType /\ Wired(h, {n}, {}) /\ Without(k, h, ToSet(in))
  BY <1>1, <1>2, <1>5, <1>6, UnlinkedAllKeeps
<1> HIDE DEF h
<1>8. ToSet(in) = {e \in Edges(g) : g.dst[e] = n}
  BY <1>2
<1>9. Without(g, h, ToSet(in))
  BY <1>5, <1>7 DEF Without, SameEdges, SameNodes, SameGroups, Edges
<1> QED BY <1>7, <1>8, <1>9 DEF h, k, in

(* Then its out edges, when its in edges have left the graph. *)
LEMMA OutEdgesRemoved ==
  ASSUME NEW g \in GraphType, NEW n \in Node, Wired(g, {n}, {})
  PROVE  LET h == UnlinkedAll(WithoutOutEdges(g, g.outEdges[n]), g.outEdges[n])
         IN /\ h \in GraphType /\ Wired(h, {n}, {n})
            /\ Without(g, h, {e \in Edges(g) : g.src[e] = n})
<1> DEFINE out == g.outEdges[n]
           k == WithoutOutEdges(g, out)
           h == UnlinkedAll(k, out)
<1>1. out \in Seq(Edge)
  BY DEF GraphType
<1>2. /\ IsInjective(out)
      /\ \A e \in ToSet(out) : e \in Edges(g) /\ g.src[e] = n
      /\ \A e \in Edges(g) : g.src[e] = n => e \in ToSet(out)
  BY DEF Wired, OutWired
<1>3. Wired(g, {n}, {n})
  BY DEF Wired, OutWired
<1> HIDE DEF out
<1>4. \A e \in ToSet(out) : e \in Edges(g) /\ g.src[e] \in {n}
  BY <1>2
<1>5. /\ k \in GraphType /\ Wired(k, {n}, {n})
      /\ SameEdges(g, k) /\ SameNodes(g, k) /\ SameGroups(g, k)
  BY <1>1, <1>3, <1>4, WithoutOutEdgesKeeps
<1> HIDE DEF k
<1>6. ToSet(out) \subseteq Edges(k)
  BY <1>4, <1>5 DEF SameEdges, Edges
<1>7. /\ h \in GraphType /\ Wired(h, {n}, {n}) /\ Without(k, h, ToSet(out))
  BY <1>1, <1>2, <1>5, <1>6, UnlinkedAllKeeps
<1> HIDE DEF h
<1>8. ToSet(out) = {e \in Edges(g) : g.src[e] = n}
  BY <1>2
<1>9. Without(g, h, ToSet(out))
  BY <1>5, <1>7 DEF Without, SameEdges, SameNodes, SameGroups, Edges
<1> QED BY <1>7, <1>8, <1>9 DEF h, k, out

(* h is g without node n and the edges that touch it. *)
WithoutNode(g, h, n) ==
  /\ Nodes(h) = Nodes(g) \ {n}
  /\ Edges(h) = {e \in Edges(g) : g.src[e] # n /\ g.dst[e] # n}
  /\ \A e \in Edges(h) : h.src[e] = g.src[e] /\ h.dst[e] = g.dst[e]

(* remove_node() on a node, and on a group whose graph pointer was reset and   *)
(* which was taken out of the list of groups.                                  *)
LEMMA RemovedKeeps ==
  ASSUME NEW g \in GraphType, NEW n \in Nodes(g), NEW attached \in BOOLEAN, attached \/ n \in Group,
         Wired(g, {}, {}), GroupsListed(g, {n}), GraphTold(g)
  PROVE  GraphInv(Removed(g, n, attached)) /\ WithoutNode(g, Removed(g, n, attached), n)
<1> DEFINE a == IF g.groupOf[n] = NoNode THEN g ELSE Ungrouped(g, n)
           b == TellNodeRemoved(a, n, attached)
           c == UnlinkedAll(WithoutInEdges(b, b.inEdges[n]), b.inEdges[n])
           d == UnlinkedAll(WithoutOutEdges(c, c.outEdges[n]), c.outEdges[n])
           h == Destroyed(d, n)
           In == {e \in Edges(b) : b.dst[e] = n}
           Out == {e \in Edges(c) : c.src[e] = n}
<1>1. Removed(g, n, attached) = h
  BY DEF Removed
<1>2. n \in Node
  BY NodesType
<1>3. /\ a \in GraphType /\ SameWiring(g, a) /\ GroupsListed(a, {n}) /\ a.groupOf[n] = NoNode
  <2>1. CASE g.groupOf[n] = NoNode
    <3>1. a = g
      BY <2>1
    <3> HIDE DEF a
    <3> QED BY <2>1, <3>1 DEF SameWiring, SameNodes, SameEdges, SameOut, SameIn
  <2>2. CASE g.groupOf[n] # NoNode
    <3>1. a = Ungrouped(g, n)
      BY <2>2
    <3> HIDE DEF a
    <3> QED BY <1>2, <2>2, <3>1, UngroupedKeeps
  <2> QED BY <2>1, <2>2
<1> HIDE DEF a
<1>4. /\ Nodes(a) = Nodes(g) /\ Edges(a) = Edges(g) /\ Wired(a, {}, {}) /\ GraphTold(a)
      /\ a.src = g.src /\ a.dst = g.dst
  BY <1>3, SameWiringKeeps DEF SameWiring, SameEdges
<1>5. /\ b \in GraphType /\ b.nodes = a.nodes
      /\ SameEdges(a, b) /\ SameOut(a, b) /\ SameIn(a, b) /\ SameGroups(a, b)
      /\ b.toldNodes = IF attached THEN a.toldNodes \ {n} ELSE a.toldNodes
  BY <1>3 DEF TellNodeRemoved, GraphType, SameEdges, SameOut, SameIn, SameGroups
<1> HIDE DEF b
<1>6. Nodes(b) = Nodes(a) /\ Edges(b) = Edges(a) /\ b.src = a.src /\ b.dst = a.dst
  BY <1>5 DEF SameEdges, Nodes, Edges
<1>7. Wired(b, {}, {})
  BY <1>4, <1>5, <1>6, WiredSame
<1>8. c \in GraphType /\ Wired(c, {n}, {}) /\ Without(b, c, In)
  BY <1>2, <1>5, <1>7, InEdgesRemoved
<1> HIDE DEF c
<1>9. d \in GraphType /\ Wired(d, {n}, {n}) /\ Without(c, d, Out)
  BY <1>2, <1>8, OutEdgesRemoved
<1> HIDE DEF d
<1>10. /\ Edges(d) = {e \in Edges(g) : g.src[e] # n /\ g.dst[e] # n}
       /\ \A e \in Edges(d) : d.src[e] = g.src[e] /\ d.dst[e] = g.dst[e]
  <2>1. /\ Edges(c) = {e \in Edges(g) : g.dst[e] # n}
        /\ \A e \in Edges(c) : c.src[e] = g.src[e] /\ c.dst[e] = g.dst[e]
    BY <1>4, <1>6, <1>8 DEF Without
  <2> QED BY <1>9, <2>1 DEF Without
<1>11. Isolated(d, n)
  BY <1>10 DEF Isolated
<1>12. /\ d.nodes = a.nodes /\ d.toldNodes = b.toldNodes
       /\ d.groups = a.groups /\ d.groupOf = a.groupOf /\ d.members = a.members
  BY <1>5, <1>8, <1>9 DEF Without, SameNodes, SameGroups
<1>13. Nodes(d) = Nodes(g)
  BY <1>4, <1>12 DEF Nodes
<1>14. GroupsListed(d, {n}) /\ d.groupOf[n] = NoNode
  BY <1>3, <1>4, <1>12, <1>13 DEF GroupsListed
<1>15. ToldBut(d, n)
  <2>1. d.toldEdges = Edges(d)
    BY <1>4, <1>5, <1>6, <1>8, <1>9 DEF GraphTold, Without, SameEdges
  <2>2. /\ Nodes(g) \ {n} \subseteq b.toldNodes
        /\ b.toldNodes \ Nodes(g) \subseteq Group
        /\ n \in b.toldNodes => n \in Group
    BY <1>4, <1>5 DEF GraphTold
  <2> QED BY <1>12, <1>13, <2>1, <2>2 DEF ToldBut
<1>16. GraphInv(h) /\ Nodes(h) = Nodes(d) \ {n} /\ SameEdges(d, h)
  BY <1>2, <1>9, <1>11, <1>14, <1>15, DestroyedKeeps
<1> HIDE DEF h
<1>17. WithoutNode(g, h, n)
  BY <1>10, <1>13, <1>16 DEF WithoutNode, SameEdges, Edges
<1> QED BY <1>1, <1>16, <1>17

(* What a step makes of the nodes and the edges of the graph. *)
NodeAdded(g, h, n) == n \in Node \ Nodes(g) /\ Nodes(h) = Nodes(g) \cup {n} /\ SameEdges(g, h)
EdgeAdded(g, h, e, s, d) ==
  /\ e \in Edge \ Edges(g) /\ s \in Nodes(g) /\ d \in Nodes(g)
  /\ Nodes(h) = Nodes(g) /\ Edges(h) = Edges(g) \cup {e}
  /\ h.src = [g.src EXCEPT ![e] = s] /\ h.dst = [g.dst EXCEPT ![e] = d]
ParallelEdges(g, s, d) == {e \in Edges(g) : g.src[e] = s /\ g.dst[e] = d}

Effect(g, h) ==
  \/ \E n \in Node : NodeAdded(g, h, n)
  \/ \E n \in Nodes(g) : WithoutNode(g, h, n)
  \/ \E e \in Edge, s, d \in Node : EdgeAdded(g, h, e, s, d)
  \/ \E e \in Edges(g) : Without(g, h, {e})
  \/ \E s, d \in Node : Without(g, h, ParallelEdges(g, s, d))
  \/ SameWiring(g, h)
  \/ Nodes(h) = {} /\ Edges(h) = {}

(* The first edge found between two nodes is an edge of the graph. *)
LEMMA HeadOfBetween ==
  ASSUME NEW g, GraphInv(g), NEW s, NEW d, Between(g, s, d) # <<>>
  PROVE  Head(Between(g, s, d)) \in Edges(g)
<1> DEFINE B == Between(g, s, d)
<1>1. g.edges \in Seq(Edge) /\ IsInjective(g.edges)
  BY DEF GraphInv, GraphType, Wired
<1>2. /\ B \in Seq(Edge)
      /\ ToSet(B) = ToSet(g.edges) \cap {e \in Edge : g.src[e] = s /\ g.dst[e] = d}
  BY <1>1, KeptProperties DEF Between
<1> HIDE DEF B
<1>3. B # <<>>
  BY DEF B
<1>4. Head(B) = B[1] /\ 1 \in DOMAIN B
  BY <1>2, <1>3
<1>5. Head(B) \in ToSet(B)
  BY <1>4 DEF ToSet
<1> QED BY <1>2, <1>5 DEF B, Edges

(* Every step keeps the invariant and has one of these effects. *)
LEMMA GraphStep ==
  ASSUME GraphInv(graph), Next
  PROVE  GraphInv(graph') /\ Effect(graph, graph')
<1> DEFINE g == graph
           Follows(h) == GraphInv(h) /\ Effect(g, h)
<1>1. /\ g \in GraphType /\ Wired(g, {}, {}) /\ GroupsListed(g, {}) /\ GraphTold(g)
      /\ Nodes(g) \subseteq Node /\ Edges(g) \subseteq Edge
      /\ \A n : Has(g, n) <=> n \in Nodes(g)
      /\ \A e : Contains(g.edges, e) <=> e \in Edges(g)
  BY NodesType DEF GraphInv, Has, Contains, Nodes, Edges, ToSet
<1>2. Group \subseteq Node
  BY ConstantsAssumption
<1> HIDE DEF g
<1>3. ASSUME NEW n \in Node, InsertNode(n) PROVE Follows(graph')
  <2>1. graph' = Inserted(g, n) /\ n \in Node \ Group /\ n \notin Nodes(g)
    BY <1>1, <1>3 DEF InsertNode, Becomes, g
  <2> QED BY <1>1, <2>1, InsertNodeKeeps DEF Effect, NodeAdded, g
<1>4. ASSUME NEW n \in Group, InsertGroup(n) PROVE Follows(graph')
  <2>1. graph' = [Inserted(g, n) EXCEPT !.groups = Append(@, n)] /\ n \notin Nodes(g) /\ n \in Node
    BY <1>1, <1>2, <1>4 DEF InsertGroup, Becomes, g
  <2> DEFINE h == [Inserted(g, n) EXCEPT !.groups = Append(@, n)]
  <2>2. GraphInv(h) /\ Nodes(h) = Nodes(g) \cup {n} /\ SameEdges(g, h)
    BY InsertGroupKeeps DEF g
  <2> HIDE DEF h
  <2>3. graph' = h
    BY <2>1 DEF h
  <2> QED BY <2>1, <2>2, <2>3 DEF Effect, NodeAdded
<1>5. ASSUME NEW e \in Edge, NEW s \in Node, NEW d \in Node, CreateEdge(e, s, d) PROVE Follows(graph')
  <2>1. graph' = Linked(g, e, s, d) /\ e \in Edge \ Edges(g) /\ s \in Nodes(g) /\ d \in Nodes(g)
    BY <1>1, <1>5 DEF CreateEdge, Becomes, g
  <2>2. /\ GraphInv(graph') /\ Nodes(graph') = Nodes(g) /\ Edges(graph') = Edges(g) \cup {e}
        /\ graph'.src = [g.src EXCEPT ![e] = s] /\ graph'.dst = [g.dst EXCEPT ![e] = d]
    BY <2>1, CreateEdgeKeeps DEF g
  <2>3. EdgeAdded(g, graph', e, s, d)
    BY <2>1, <2>2 DEF EdgeAdded
  <2> QED BY <2>2, <2>3 DEF Effect
<1>6. ASSUME NEW e \in Edges(g), graph' = Unlinked(g, e) PROVE Follows(graph')
  <2>1. GraphInv(graph') /\ Without(g, graph', {e})
    BY <1>6, RemoveEdgeKeeps DEF g
  <2> QED BY <2>1 DEF Effect
<1>7. ASSUME NEW e \in Edge, RemoveEdge(e) PROVE Follows(graph')
  BY <1>1, <1>6, <1>7 DEF RemoveEdge, Becomes, g
<1>8. ASSUME NEW s \in Node, NEW d \in Node, RemoveFirstEdge(s, d) PROVE Follows(graph')
  <2>1. Head(Between(g, s, d)) \in Edges(g) /\ graph' = Unlinked(g, Head(Between(g, s, d)))
    BY <1>8, HeadOfBetween DEF RemoveFirstEdge, Becomes, g
  <2> QED BY <1>6, <2>1
<1>9. ASSUME NEW s \in Node, NEW d \in Node, RemoveAllEdges(s, d) PROVE Follows(graph')
  <2>1. graph' = UnlinkedAll(g, Between(g, s, d))
    BY <1>9 DEF RemoveAllEdges, Becomes, g
  <2>2. GraphInv(graph') /\ Without(g, graph', ParallelEdges(g, s, d))
    BY <2>1, RemoveEdgesKeep DEF g, ParallelEdges
  <2> QED BY <2>2 DEF Effect
<1>10. ASSUME NEW n \in Node, RemoveNode(n) PROVE Follows(graph')
  <2>1. graph' = Removed(g, n, TRUE) /\ n \in Nodes(g)
    BY <1>1, <1>10 DEF RemoveNode, Becomes, g
  <2>2. GroupsListed(g, {n})
    BY <1>1 DEF GroupsListed
  <2>3. GraphInv(graph') /\ WithoutNode(g, graph', n)
    BY <1>1, <2>1, <2>2, RemovedKeeps
  <2> QED BY <2>1, <2>3 DEF Effect
<1>11. ASSUME NEW n \in Group, RemoveGroup(n) PROVE Follows(graph')
  <2> DEFINE groups == Erased(g.groups, n)
             k == [g EXCEPT !.groups = groups]
  <2>1. graph' = Removed(k, n, FALSE) /\ n \in Nodes(g)
    BY <1>1, <1>11 DEF RemoveGroup, Becomes, g
  <2>2. groups \in Seq(Group \cup {NoNode}) /\ ToSet(groups) = ToSet(g.groups) \ {n}
    BY <1>1, ErasedProperties DEF GraphType
  <2> HIDE DEF groups
  <2>3. /\ k \in GraphType /\ SameWiring(g, k) /\ k.groups = groups
        /\ k.groupOf = g.groupOf /\ k.members = g.members
    BY <1>1, <2>2 DEF GraphType, SameWiring, SameNodes, SameEdges, SameOut, SameIn
  <2> HIDE DEF k
  <2>4. /\ Nodes(k) = Nodes(g) /\ Edges(k) = Edges(g) /\ Wired(k, {}, {}) /\ GraphTold(k)
        /\ k.src = g.src /\ k.dst = g.dst
    BY <1>1, <2>3, SameWiringKeeps DEF SameWiring, SameEdges
  <2>5. GroupsListed(k, {n})
    BY <1>1, <2>2, <2>3, <2>4 DEF GroupsListed
  <2>6. GraphInv(graph') /\ WithoutNode(k, graph', n)
    BY <2>1, <2>3, <2>4, <2>5, RemovedKeeps
  <2>7. WithoutNode(g, graph', n)
    BY <2>4, <2>6 DEF WithoutNode
  <2> QED BY <2>1, <2>6, <2>7 DEF Effect
<1>12. ASSUME NEW n \in Node, NEW h \in Group, GroupNode(n, h) PROVE Follows(graph')
  <2>1. graph' = Grouped(g, n, h) /\ n \in Nodes(g) /\ h \in Group \cap Nodes(g)
    BY <1>1, <1>12 DEF GroupNode, Becomes, g
  <2> QED BY <2>1, GroupNodeKeeps DEF Effect, g
<1>13. ASSUME NEW n \in Node, UngroupNode(n) PROVE Follows(graph')
  <2>1. graph' = Ungrouped(g, n) /\ g.groupOf[n] # NoNode
    BY <1>13 DEF UngroupNode, Becomes, g
  <2> QED BY <2>1, UngroupNodeKeeps DEF Effect, g
<1>14. ASSUME Clear PROVE Follows(graph')
  BY <1>14, EmptyGraphInv DEF Clear, Effect
<1> HIDE DEF Follows
<1>15. ASSUME NEW n \in Node, InsertNode(n) \/ RemoveNode(n) \/ UngroupNode(n) PROVE Follows(graph')
  BY <1>3, <1>10, <1>13, <1>15
<1>16. ASSUME NEW h \in Group, InsertGroup(h) \/ RemoveGroup(h) PROVE Follows(graph')
  BY <1>4, <1>11, <1>16
<1>17. ASSUME NEW s \in Node, NEW d \in Node, RemoveFirstEdge(s, d) \/ RemoveAllEdges(s, d)
       PROVE  Follows(graph')
  BY <1>8, <1>9, <1>17
<1>18. Follows(graph')
  BY <1>5, <1>7, <1>12, <1>14, <1>15, <1>16, <1>17 DEF Next
<1> QED BY <1>18 DEF g, Follows

(* The invariant holds in every state of the graph. *)
LEMMA GraphInvariance == Spec => []GraphInv(graph)
<1>1. Init => GraphInv(graph)
  BY EmptyGraphInv DEF Init
<1>2. GraphInv(graph) /\ [Next]_graph => GraphInv(graph)'
  BY GraphStep
<1> QED BY <1>1, <1>2, PTL DEF Spec

(* The inductive invariant says what the run checks. *)
LEMMA InvImpliesObserversFollow == GraphInv(graph) => ObserversFollow
<1> SUFFICES ASSUME GraphInv(graph) PROVE ObserversFollow
  OBVIOUS
<1>1. Nodes(graph) \subseteq Node
  BY NodesType DEF GraphInv
<1>2. ASSUME NEW n \in Nodes(graph)
      PROVE  graph.toldOut[n] = Len(graph.outEdges[n]) /\ graph.toldIn[n] = Len(graph.inEdges[n])
  BY <1>1 DEF GraphInv, Wired, OutWired, InWired
<1>3. ASSUME NEW n \in Nodes(graph), graph.groupOf[n] # NoNode
      PROVE  /\ graph.groupOf[n] \in Nodes(graph)
             /\ n \in ToSet(graph.members[graph.groupOf[n]])
             /\ graph.groupOf[n] \in ToSet(graph.groups)
  <2>1. graph.groupOf[n] \in Group
    BY <1>1, <1>3 DEF GraphInv, GraphType
  <2> QED BY <1>1, <1>3, <2>1 DEF GraphInv, GroupsListed
<1>4. \A s, x : Contains(s, x) <=> x \in ToSet(s)
  BY DEF Contains, ToSet
<1> QED BY <1>2, <1>3, <1>4 DEF ObserversFollow, GraphInv, GraphTold, Has, Nodes, Edges

(* In every state the observers of the graph know its nodes and edges (and     *)
(* besides them only groups that remove_group() removed), those of a node      *)
(* count its edges, and a node and its group list each other: ObserversFollow, *)
(* for any sets of nodes, groups and edges (graph.hpp:93-129, 341-388).        *)
THEOREM ObserversKnow == Spec => []ObserversFollow
  BY GraphInvariance, InvImpliesObserversFollow, PTL

------------------------------------------------------------------------------
(* The refinement of Digraph.                                               *)

Joined(g) == {l \in Node \X Edge \X Node :
                Contains(g.outEdges[l[1]], l[2]) /\ Contains(g.inEdges[l[3]], l[2])}

(* The lists of the nodes hold what the edges themselves say. *)
LEMMA JoinedByEdges ==
  ASSUME NEW g, GraphInv(g)
  PROVE  Joined(g) = {<<g.src[e], e, g.dst[e]>> : e \in Edges(g)}
<1> DEFINE L == {<<g.src[e], e, g.dst[e]>> : e \in Edges(g)}
<1>1. \A s, x : Contains(s, x) <=> x \in ToSet(s)
  BY DEF Contains, ToSet
<1>2. ASSUME NEW s \in Node, NEW e \in Edge, NEW d \in Node
      PROVE  <<s, e, d>> \in Joined(g) <=> e \in Edges(g) /\ g.src[e] = s /\ g.dst[e] = d
  <2>1. <<s, e, d>> \in Joined(g) <=> e \in ToSet(g.outEdges[s]) /\ e \in ToSet(g.inEdges[d])
    BY <1>1 DEF Joined
  <2>2. /\ e \in ToSet(g.outEdges[s]) <=> e \in Edges(g) /\ g.src[e] = s
        /\ e \in ToSet(g.inEdges[d]) <=> e \in Edges(g) /\ g.dst[e] = d
    BY DEF GraphInv, Wired, OutWired, InWired
  <2> QED BY <2>1, <2>2
<1>3. ASSUME NEW e \in Edges(g) PROVE e \in Edge /\ g.src[e] \in Node /\ g.dst[e] \in Node
  BY NodesType DEF GraphInv, Wired
<1>4. ASSUME NEW l \in Joined(g) PROVE l \in L
  <2>1. PICK s \in Node, e \in Edge, d \in Node : l = <<s, e, d>>
    BY DEF Joined
  <2> QED BY <1>2, <1>4, <2>1
<1>5. ASSUME NEW l \in L PROVE l \in Joined(g)
  <2>1. PICK e \in Edges(g) : l = <<g.src[e], e, g.dst[e]>>
    OBVIOUS
  <2> QED BY <1>2, <1>3, <2>1
<1> QED BY <1>4, <1>5

(* Edges that leave take their links with them. *)
LEMMA LinksLeave ==
  ASSUME NEW g, GraphInv(g), NEW h, GraphInv(h), NEW D, Edges(h) = Edges(g) \ D,
         \A e \in Edges(h) : h.src[e] = g.src[e] /\ h.dst[e] = g.dst[e]
  PROVE  Joined(h) = {l \in Joined(g) : l[2] \notin D}
<1>1. /\ Joined(g) = {<<g.src[e], e, g.dst[e]>> : e \in Edges(g)}
      /\ Joined(h) = {<<h.src[e], e, h.dst[e]>> : e \in Edges(h)}
  BY JoinedByEdges
<1> QED BY <1>1

(* What a step makes of the nodes and edges is a step of a digraph. *)
LEMMA EffectIsStep ==
  ASSUME GraphInv(graph), GraphInv(graph'), Effect(graph, graph')
  PROVE  [Abstract!Next]_(Abstract!vars)
<1> DEFINE g == graph
           h == graph'
           L == Joined(g)
<1>1. /\ Abstract!vars = <<Nodes(g), Joined(g)>>
      /\ Abstract!vars' = <<Nodes(h), Joined(h)>>
  BY DEF Abstract!vars, Nodes, Joined
<1>2. /\ L = {<<g.src[e], e, g.dst[e]>> : e \in Edges(g)}
      /\ Joined(h) = {<<h.src[e], e, h.dst[e]>> : e \in Edges(h)}
      /\ g \in GraphType /\ Nodes(g) \subseteq Node /\ Edges(g) \subseteq Edge
  BY JoinedByEdges, NodesType DEF GraphInv
<1>3. ASSUME NEW n \in Node, NodeAdded(g, h, n) PROVE Abstract!AddNode(n)
  <2>1. n \notin Nodes(g) /\ Nodes(h) = Nodes(g) \cup {n} /\ Joined(h) = Joined(g)
    BY <1>2, <1>3 DEF NodeAdded, SameEdges, Edges
  <2> QED BY <2>1 DEF Abstract!AddNode, Nodes, Joined
<1>4. ASSUME NEW n \in Nodes(g), WithoutNode(g, h, n) PROVE Abstract!RemoveNode(n)
  <2> DEFINE D == {e \in Edges(g) : g.src[e] = n \/ g.dst[e] = n}
             Touching == {l \in L : l[1] = n \/ l[3] = n}
  <2>1. /\ Nodes(h) = Nodes(g) \ {n} /\ Edges(h) = Edges(g) \ D
        /\ \A e \in Edges(h) : h.src[e] = g.src[e] /\ h.dst[e] = g.dst[e]
    BY <1>4 DEF WithoutNode
  <2> HIDE DEF D
  <2>2. Joined(h) = {l \in L : l[2] \notin D}
    BY <2>1, LinksLeave
  <2> USE DEF D
  <2>3. Joined(h) = L \ Touching
    BY <1>2, <2>2
  <2> QED BY <2>1, <2>3 DEF Abstract!RemoveNode, Abstract!Touching, Nodes, Joined
<1>5. ASSUME NEW e \in Edge, NEW s \in Node, NEW d \in Node, EdgeAdded(g, h, e, s, d)
      PROVE  Abstract!AddLink(s, e, d)
  <2>1. g.src \in [Edge -> Node \cup {NoNode}] /\ g.dst \in [Edge -> Node \cup {NoNode}]
    BY <1>2 DEF GraphType
  <2>2. /\ {s, d} \subseteq Nodes(g) /\ Nodes(h) = Nodes(g) /\ Edges(h) = Edges(g) \cup {e}
        /\ e \notin Edges(g) /\ h.src[e] = s /\ h.dst[e] = d
        /\ \A f \in Edges(g) : h.src[f] = g.src[f] /\ h.dst[f] = g.dst[f]
    BY <1>2, <1>5, <2>1 DEF EdgeAdded
  <2>3. Joined(h) = L \cup {<<s, e, d>>} /\ \A l \in L : l[2] # e
    BY <1>2, <2>2
  <2> QED BY <2>2, <2>3 DEF Abstract!AddLink, Nodes, Joined
<1>6. ASSUME NEW e \in Edges(g), Without(g, h, {e}) PROVE \E l \in L : Abstract!RemoveLink(l)
  <2> DEFINE D == {e}
  <2>1. Nodes(h) = Nodes(g) /\ Joined(h) = {l \in L : l[2] \notin D}
    <3> HIDE DEF D
    <3>1. Without(g, h, D)
      BY <1>6 DEF D
    <3> QED BY <3>1, LinksLeave DEF Without, SameNodes, Nodes
  <2>2. <<g.src[e], e, g.dst[e]>> \in L /\ Joined(h) = L \ {<<g.src[e], e, g.dst[e]>>}
    BY <1>2, <2>1
  <2>3. Abstract!RemoveLink(<<g.src[e], e, g.dst[e]>>)
    BY <2>1, <2>2 DEF Abstract!RemoveLink, Nodes, Joined
  <2> QED BY <2>2, <2>3
<1>7. ASSUME NEW s \in Node, NEW d \in Node, Without(g, h, ParallelEdges(g, s, d))
      PROVE  Abstract!RemoveParallel(s, d)
  <2>1. Nodes(h) = Nodes(g) /\ Joined(h) = {l \in L : l[2] \notin ParallelEdges(g, s, d)}
    BY <1>7, LinksLeave DEF Without, SameNodes, Nodes
  <2>2. Joined(h) = L \ {l \in L : l[1] = s /\ l[3] = d}
    BY <1>2, <2>1 DEF ParallelEdges
  <2> QED BY <2>1, <2>2 DEF Abstract!RemoveParallel, Abstract!Parallel, Nodes, Joined
<1>8. ASSUME SameWiring(g, h) PROVE Abstract!vars' = Abstract!vars
  BY <1>1, <1>8 DEF SameWiring, SameNodes, SameOut, SameIn, Joined, Nodes
<1>9. ASSUME Nodes(h) = {}, Edges(h) = {} PROVE Abstract!Clear
  <2>1. Joined(h) = {}
    BY <1>2, <1>9
  <2> QED BY <1>9, <2>1 DEF Abstract!Clear, Nodes, Joined
<1>10. ASSUME NEW l \in L, Abstract!RemoveLink(l) PROVE Abstract!Next
  BY <1>10 DEF Abstract!Next, Joined
<1> QED BY <1>2, <1>3, <1>4, <1>5, <1>6, <1>7, <1>8, <1>9, <1>10 DEF Effect, Abstract!Next

(* The lists of the nodes are a directed multigraph and every operation is one  *)
(* of its operations, or changes nothing of it: ImplementsDigraph, for any      *)
(* sets of nodes, groups and edges; remove_node() in particular removes exactly *)
(* the edges of its node, though it visits each of them twice                   *)
(* (graph.hpp:93-129).                                                          *)
THEOREM GraphImplementsDigraph == Spec => ImplementsDigraph
<1>1. Init => Abstract!Init
  <2> SUFFICES ASSUME Init PROVE Abstract!Init
    OBVIOUS
  <2>1. GraphInv(graph) /\ Nodes(graph) = {} /\ Edges(graph) = {}
    BY EmptyGraphInv DEF Init
  <2>2. Joined(graph) = {}
    BY <2>1, JoinedByEdges
  <2> QED BY <2>1, <2>2 DEF Abstract!Init, Nodes, Joined
<1>2. GraphInv(graph) /\ GraphInv(graph)' /\ [Next]_graph => [Abstract!Next]_(Abstract!vars)
  <2> SUFFICES ASSUME GraphInv(graph), GraphInv(graph'), [Next]_graph
               PROVE  [Abstract!Next]_(Abstract!vars)
    OBVIOUS
  <2>1. CASE Next
    BY <2>1, GraphStep, EffectIsStep
  <2>2. CASE UNCHANGED graph
    BY <2>2 DEF Abstract!vars
  <2> QED BY <2>1, <2>2
<1> QED BY <1>1, <1>2, GraphInvariance, PTL DEF Spec, ImplementsDigraph, Abstract!Spec

==============================================================================
