---------------------------- MODULE QanItems_proofs ----------------------------
(***************************************************************************)
(* Proofs about QanItems, for every set of nodes, groups, edges and        *)
(* styles, every place and every size, and about QanEdgeLine, for items of *)
(* all sizes at all places.                                                *)
(*                                                                         *)
(* What an edge item shows depends on the geometry only through what       *)
(* applyGeometry() makes of it, and the first part uses nothing else.      *)
(* That an edge on the screen is up to date is inductive with the types: a *)
(* step that changes the place of an end in the scene, its bounding shape  *)
(* or the arrow draws the edge again, hides it, or is one of those no edge *)
(* is told of.                                                             *)
(*                                                                         *)
(* The second part is the geometry.  Points of lines are fractions which   *)
(* the model reduces by their greatest common divisor.  Gcd is a recursive *)
(* function: that it divides both numbers is proved by induction over a    *)
(* set of numbers, which needs only that each such set has a least one.    *)
(* From there on a line is seen in the direction of one dock at a time:    *)
(* sums of fractions keep the bounds of what is added (SumBound), and the  *)
(* operations on points are used through the side of a line on which their *)
(* results are.                                                            *)
(***************************************************************************)
EXTENDS QanItems, QanEdgeLine, WellFoundedInduction, TLAPS

Pair == Int \X Int

(* drawing may hold any geometry. *)
ItemOK(e) ==
  /\ item[e] = [visible |-> item[e].visible, hidden |-> item[e].hidden, drawing |-> item[e].drawing]
  /\ item[e].visible \in BOOLEAN

TypeOK ==
  /\ place \in [Node -> Pair]
  /\ group \in [Node -> Group \cup {None}]
  /\ corner \in [Group -> Pair]
  /\ size \in [Node -> Pair]
  /\ shape \in [Node -> Pair]
  /\ style \in [Edge -> Style \cup {None}]
  /\ arrow \in [Style -> Nat \cup {None}]
  /\ DOMAIN item = Edge
  /\ target \in Node \cup {None}
  /\ minimum \in Pair
  /\ grip \in Pair \cup {None}

(* Edges the step that changed one of their ends did not tell. *)
Untold(e) ==
  e \in late \/ group[Ends[e][1]] \in collapsed \/ group[Ends[e][2]] \in collapsed

Fresh(e) ==
  /\ item[e].hidden => ~item[e].visible
  /\ item[e].visible /\ ~Untold(e) => item[e].drawing = Current(e)

IInv == TypeOK /\ \A e \in Edge : Fresh(e) /\ ItemOK(e)

------------------------------------------------------------------------------
(* Pairs. *)

LEMMA PairSum ==
  ASSUME NEW a \in Pair, NEW b \in Pair
  PROVE  /\ Plus(a, b) \in Pair /\ Minus(a, b) \in Pair
         /\ Plus(Minus(a, b), b) = a
  <1>1. a = <<a[1], a[2]>> /\ a[1] \in Int /\ a[2] \in Int /\ b[1] \in Int /\ b[2] \in Int
    BY DEF Pair
  <1>2. Plus(a, b) \in Pair /\ Minus(a, b) \in Pair
    BY <1>1 DEF Plus, Minus, Pair
  <1>3. Minus(a, b)[1] = a[1] - b[1] /\ Minus(a, b)[2] = a[2] - b[2]
    BY DEF Minus
  <1>4. Plus(Minus(a, b), b) = <<(a[1] - b[1]) + b[1], (a[2] - b[2]) + b[2]>>
    BY <1>3 DEF Plus
  <1> QED BY <1>1, <1>2, <1>4

LEMMA PairLarger ==
  ASSUME NEW a \in Pair, NEW b \in Pair
  PROVE  Larger(a, b) \in Pair /\ Larger(a, b)[1] >= b[1] /\ Larger(a, b)[2] >= b[2]
  BY DEF Larger, Pair

LEMMA SceneType ==
  ASSUME TypeOK, NEW n \in Node
  PROVE  Scene(n) \in Pair
  BY PairSum DEF Scene, TypeOK

LEMMA EndsAreNodes ==
  ASSUME NEW e \in Edge
  PROVE  /\ Ends[e][1] \in Node /\ Ends[e][2] \in Node
         /\ \A n : e \in EdgesOf(n) <=> n = Ends[e][1] \/ n = Ends[e][2]
  BY ItemAssumption DEF EdgesOf

------------------------------------------------------------------------------
(* Drawing an edge. *)

(* An item that was just drawn shows what it was drawn for, or is hidden. *)
LEMMA AppliedIsFresh ==
  ASSUME NEW c
  PROVE  LET i == Applied(c) IN
         /\ i = [visible |-> i.visible, hidden |-> i.hidden, drawing |-> i.drawing]
         /\ i.visible \in BOOLEAN
         /\ i.hidden => ~i.visible
         /\ i.visible => i.drawing = c
  BY DEF Applied

(* What is drawn depends on the ends of the edge and its arrow alone. *)
LEMMA SameCache ==
  ASSUME NEW e \in Edge,
         \A n \in {Ends[e][1], Ends[e][2]} : Scene(n)' = Scene(n) /\ shape'[n] = shape[n],
         ArrowOf(e)' = ArrowOf(e)
  PROVE  Current(e)' = Current(e)
  BY EndsAreNodes DEF Current, Cache, Box

(* What a step may do to an edge item. *)
Redrawn(e) == item'[e] = Applied(Current(e)')
PutOut(e) ==
  item'[e] = [visible |-> FALSE, hidden |-> item'[e].hidden, drawing |-> item'[e].drawing]
Kept(e) ==
  /\ item'[e] = item[e]
  /\ ~Untold(e)' => ~Untold(e) /\ Current(e)' = Current(e)

LEMMA FreshOne ==
  ASSUME NEW e \in Edge, Fresh(e), ItemOK(e), Redrawn(e) \/ PutOut(e) \/ Kept(e)
  PROVE  Fresh(e)' /\ ItemOK(e)'
  <1>1. CASE Redrawn(e)
    <2> DEFINE c == Current(e)'
    <2>1. item'[e] = Applied(c)
      BY <1>1 DEF Redrawn
    <2> HIDE DEF c
    <2>2. /\ item'[e] = [visible |-> item'[e].visible, hidden |-> item'[e].hidden, drawing |-> item'[e].drawing]
          /\ item'[e].visible \in BOOLEAN
          /\ item'[e].hidden => ~item'[e].visible
          /\ item'[e].visible => item'[e].drawing = c
      BY <2>1, AppliedIsFresh
    <2> QED BY <2>2 DEF Fresh, ItemOK, c
  <1>2. CASE PutOut(e)
    <2>1. item'[e].visible = FALSE
      BY <1>2 DEF PutOut
    <2> QED BY <1>2, <2>1 DEF PutOut, Fresh, ItemOK
  <1>3. CASE Kept(e)
    BY <1>3 DEF Kept, Fresh, ItemOK
  <1> QED BY <1>1, <1>2, <1>3

LEMMA Updated ==
  ASSUME NEW E, Update(E)
  PROVE  /\ DOMAIN item' = Edge /\ late' = late \ E
         /\ \A e \in Edge : IF e \in E THEN Redrawn(e) ELSE item'[e] = item[e]
  BY DEF Update, Redrawn

(* An edge none of whose ends has changed. *)
LEMMA Unmoved ==
  ASSUME NEW e \in Edge, item'[e] = item[e], e \in late => e \in late',
         \A n \in {Ends[e][1], Ends[e][2]} :
           /\ Scene(n)' = Scene(n) /\ shape'[n] = shape[n]
           /\ group[n] \in collapsed => group'[n] \in collapsed',
         ArrowOf(e)' = ArrowOf(e)
  PROVE  Kept(e)
  <1>1. Current(e)' = Current(e)
    BY SameCache
  <1> QED BY <1>1 DEF Kept, Untold

LEMMA NotShown ==
  ASSUME NEW e \in Edge, ItemOK(e), ~item[e].visible, item'[e] = item[e]
  PROVE  PutOut(e)
  BY DEF ItemOK, PutOut

LEMMA AllFresh ==
  ASSUME IInv, TypeOK', \A e \in Edge : Redrawn(e) \/ PutOut(e) \/ Kept(e)
  PROVE  IInv'
  BY FreshOne DEF IInv

------------------------------------------------------------------------------
(* The places of nodes and groups. *)

LEMMA MoveNodeStep ==
  ASSUME IInv, NEW n \in Node, NEW s \in Spots, MoveNode(n, s)
  PROVE  IInv'
  <1>1. /\ place' = [place EXCEPT ![n] = Plus(@, Minus(s, Scene(n)))]
        /\ UNCHANGED <<group, corner, collapsed, size, shape, style, arrow, target, minimum, grip>>
        /\ Update(EdgesOf(n))
    BY DEF MoveNode, looks, resizer
  <1>2. place' \in [Node -> Pair]
    <2>1. s \in Pair /\ place[n] \in Pair /\ place \in [Node -> Pair]
      BY ItemAssumption DEF IInv, TypeOK, Pair
    <2>2. Plus(place[n], Minus(s, Scene(n))) \in Pair
      BY <2>1, SceneType, PairSum DEF IInv
    <2> QED BY <1>1, <2>1, <2>2
  <1>3. TypeOK'
    BY <1>1, <1>2, Updated DEF IInv, TypeOK
  <1>4. ASSUME NEW e \in Edge PROVE Redrawn(e) \/ Kept(e)
    <2>1. CASE e \in EdgesOf(n)
      BY <1>1, <2>1, Updated
    <2>2. CASE e \notin EdgesOf(n)
      <3>1. item'[e] = item[e] /\ (e \in late => e \in late')
        BY <1>1, <2>2, Updated
      <3>2. \A m \in {Ends[e][1], Ends[e][2]} : m # n /\ m \in Node
        BY <2>2, EndsAreNodes
      <3>3. \A m \in {Ends[e][1], Ends[e][2]} : Scene(m)' = Scene(m)
        BY <1>1, <3>2 DEF Scene, IInv, TypeOK
      <3>4. ArrowOf(e)' = ArrowOf(e)
        BY <1>1 DEF ArrowOf
      <3> QED BY <1>1, <3>1, <3>3, <3>4, Unmoved
    <2> QED BY <2>1, <2>2
  <1> QED BY <1>3, <1>4, AllFresh

(* A group takes its visible edges along; the others are not shown. *)
LEMMA MoveGroupStep ==
  ASSUME IInv, NEW h \in Group, NEW s \in Corners, MoveGroup(h, s)
  PROVE  IInv'
  <1>1. /\ corner' = [corner EXCEPT ![h] = s]
        /\ UNCHANGED <<place, group, collapsed, size, shape, style, arrow, target, minimum, grip>>
        /\ Update(Followed(h, item))
    BY DEF MoveGroup, looks, resizer
  <1>2. TypeOK'
    <2>1. s \in Pair
      BY ItemAssumption DEF Pair
    <2> QED BY <1>1, <2>1, Updated DEF IInv, TypeOK
  <1>3. ASSUME NEW e \in Edge PROVE Redrawn(e) \/ PutOut(e) \/ Kept(e)
    <2>1. CASE e \in Followed(h, item)
      BY <1>1, <2>1, Updated
    <2>2. CASE e \notin Followed(h, item)
      <3>1. item'[e] = item[e] /\ (e \in late => e \in late')
        BY <1>1, <2>2, Updated
      <3>2. CASE ~item[e].visible
        BY <3>1, <3>2, NotShown DEF IInv
      <3>3. CASE \E m \in {Ends[e][1], Ends[e][2]} : group[m] = h /\ h \in collapsed
        BY <1>1, <3>1, <3>3 DEF Kept, Untold
      <3>4. CASE \A m \in {Ends[e][1], Ends[e][2]} : group[m] # h
        <4>1. \A m \in {Ends[e][1], Ends[e][2]} : m \in Node /\ Scene(m)' = Scene(m)
          BY <1>1, <3>4, EndsAreNodes DEF Scene, IInv, TypeOK
        <4>2. ArrowOf(e)' = ArrowOf(e)
          BY <1>1 DEF ArrowOf
        <4> QED BY <1>1, <3>1, <4>1, <4>2, Unmoved
      <3> QED BY <2>2, <3>2, <3>3, <3>4, EndsAreNodes DEF Followed, AdjacentEdges, Members
    <2> QED BY <2>1, <2>2
  <1> QED BY <1>2, <1>3, AllFresh

LEMMA CollapseStep ==
  ASSUME IInv, NEW h \in Group, Collapse(h)
  PROVE  IInv'
  <1>1. /\ UNCHANGED <<place, group, corner, size, shape, style, arrow, target, minimum, grip, late>>
        /\ collapsed' = collapsed \cup {h}
        /\ item' = [e \in Edge |-> IF e \in AdjacentEdges(h)
                                   THEN [item[e] EXCEPT !.visible = FALSE, !.drawing = None]
                                   ELSE item[e]]
    BY DEF Collapse, looks, resizer
  <1>2. TypeOK'
    BY <1>1 DEF IInv, TypeOK
  <1>3. ASSUME NEW e \in Edge PROVE Redrawn(e) \/ PutOut(e) \/ Kept(e)
    <2>1. CASE e \in AdjacentEdges(h)
      <3>1. ItemOK(e) /\ item'[e] = [item[e] EXCEPT !.visible = FALSE, !.drawing = None]
        BY <1>1, <2>1 DEF IInv
      <3>2. item'[e] = [visible |-> FALSE, hidden |-> item[e].hidden, drawing |-> None]
        BY <3>1 DEF ItemOK
      <3>3. item'[e].hidden = item[e].hidden /\ item'[e].drawing = None
        BY <3>2
      <3> QED BY <3>2, <3>3 DEF PutOut
    <2>2. CASE e \notin AdjacentEdges(h)
      <3>1. item'[e] = item[e]
        BY <1>1, <2>2
      <3>2. Current(e)' = Current(e)
        BY <1>1 DEF Current, Cache, Box, ArrowOf, Scene
      <3> QED BY <1>1, <3>1, <3>2 DEF Kept, Untold
    <2> QED BY <2>1, <2>2
  <1> QED BY <1>2, <1>3, AllFresh

LEMMA ExpandStep ==
  ASSUME IInv, NEW h \in Group, Expand(h)
  PROVE  IInv'
  <1>1. /\ UNCHANGED <<place, group, corner, size, shape, style, arrow, target, minimum, grip>>
        /\ collapsed' = collapsed \ {h}
        /\ Update(AdjacentEdges(h))
    BY DEF Expand, looks, resizer
  <1>2. TypeOK'
    BY <1>1, Updated DEF IInv, TypeOK
  <1>3. ASSUME NEW e \in Edge PROVE Redrawn(e) \/ Kept(e)
    <2>1. CASE e \in AdjacentEdges(h)
      BY <1>1, <2>1, Updated
    <2>2. CASE e \notin AdjacentEdges(h)
      <3>1. item'[e] = item[e] /\ (e \in late => e \in late')
        BY <1>1, <2>2, Updated
      <3>2. \A m \in {Ends[e][1], Ends[e][2]} : group[m] # h
        BY <2>2, EndsAreNodes DEF AdjacentEdges, Members
      <3>3. Current(e)' = Current(e)
        BY <1>1 DEF Current, Cache, Box, ArrowOf, Scene
      <3> QED BY <1>1, <3>1, <3>2, <3>3 DEF Kept, Untold
    <2> QED BY <2>1, <2>2
  <1> QED BY <1>2, <1>3, AllFresh

(* A node keeps its place in the scene when it gets a group, so that an edge *)
(* that is not drawn again, or drawn again last, is up to date.              *)
LEMMA GroupNodeStep ==
  ASSUME IInv, NEW n \in Node, NEW h \in Group, GroupNode(n, h)
  PROVE  IInv'
  <1> DEFINE s == Minus(place[n], corner[h])
             astray == [m \in Node |-> IF m = n THEN s ELSE Scene(m)]
             moved == [e \in Edge |-> IF s # place[n] /\ e \in EdgesOf(n)
                                      THEN Applied(Cache(e, astray)) ELSE item[e]]
             again == IF h \in collapsed THEN {}
                      ELSE {e \in EdgesOf(n) \cup AdjacentEdges(h) : moved[e].visible}
  <1>1. /\ group[n] = None
        /\ group' = [group EXCEPT ![n] = h]
        /\ place' = [place EXCEPT ![n] = s]
        /\ UNCHANGED <<corner, collapsed, size, shape, style, arrow, target, minimum, grip>>
        /\ item' = [e \in Edge |-> IF e \in again THEN Applied(Current(e)') ELSE moved[e]]
        /\ late' = IF s # place[n] THEN late \ EdgesOf(n) ELSE late \ again
    BY DEF GroupNode, looks, resizer
  <1>2. s \in Pair /\ Plus(s, corner[h]) = place[n]
    BY PairSum DEF IInv, TypeOK
  <1>3. \A e \in Edge : e \notin EdgesOf(n) => moved[e] = item[e]
    OBVIOUS
  <1>4. \A e \in EdgesOf(n) : moved[e] = item[e] \/ moved[e] = Applied(Cache(e, astray))
    BY DEF EdgesOf
  <1>5. \A e \in EdgesOf(n) : e \in Edge /\ (h \notin collapsed /\ moved[e].visible => e \in again)
    BY DEF EdgesOf
  <1>6. \A e \in Edge : e \in again => item'[e] = Applied(Current(e)')
    BY <1>1
  <1>7. \A e \in Edge : e \notin again => item'[e] = moved[e]
    BY <1>1
  <1>8. DOMAIN item' = Edge
    BY <1>1
  <1> HIDE DEF s, astray, moved, again
  <1>9. TypeOK'
    BY <1>1, <1>2, <1>8 DEF IInv, TypeOK
  <1>10. \A m \in Node : Scene(m)' = Scene(m)
    BY <1>1, <1>2, ItemAssumption DEF Scene, IInv, TypeOK
  <1>11. ASSUME NEW e \in Edge PROVE Redrawn(e) \/ Kept(e) \/ (Fresh(e)' /\ ItemOK(e)')
    <2>1. CASE e \in again
      BY <1>6, <2>1 DEF Redrawn
    <2>2. CASE e \notin again /\ e \notin EdgesOf(n)
      <3>1. item'[e] = item[e] /\ (e \in late => e \in late')
        BY <1>1, <1>3, <1>7, <2>2
      <3>2. \A m \in {Ends[e][1], Ends[e][2]} : m # n /\ m \in Node
        BY <2>2, EndsAreNodes
      <3>3. \A m \in {Ends[e][1], Ends[e][2]} : group'[m] = group[m]
        BY <1>1, <3>2 DEF IInv, TypeOK
      <3>4. ArrowOf(e)' = ArrowOf(e)
        BY <1>1 DEF ArrowOf
      <3> QED BY <1>1, <1>10, <3>1, <3>2, <3>3, <3>4, Unmoved
    <2>3. CASE e \notin again /\ e \in EdgesOf(n)
      <3>1. item'[e] = moved[e]
        BY <1>7, <2>3
      <3>2. /\ item'[e] = [visible |-> item'[e].visible, hidden |-> item'[e].hidden, drawing |-> item'[e].drawing]
            /\ item'[e].visible \in BOOLEAN
            /\ item'[e].hidden => ~item'[e].visible
        BY <1>4, <2>3, <3>1, AppliedIsFresh DEF IInv, ItemOK, Fresh
      <3>3. ItemOK(e)'
        BY <3>2 DEF ItemOK
      <3>4. h \notin collapsed => ~item'[e].visible
        BY <1>5, <2>3, <3>1
      <3>5. h \in collapsed => Untold(e)'
        <4>1. \E m \in {Ends[e][1], Ends[e][2]} : group'[m] = h
          BY <1>1, <2>3, EndsAreNodes DEF IInv, TypeOK
        <4> QED BY <1>1, <4>1 DEF Untold
      <3> QED BY <3>2, <3>3, <3>4, <3>5 DEF Fresh
    <2> QED BY <2>1, <2>2, <2>3
  <1>12. \A e \in Edge : Fresh(e)' /\ ItemOK(e)'
    <2> SUFFICES ASSUME NEW e \in Edge PROVE Fresh(e)' /\ ItemOK(e)'
      OBVIOUS
    <2> QED BY <1>11, FreshOne DEF IInv
  <1> QED BY <1>9, <1>12 DEF IInv

(* A node keeps its place in the scene when it leaves its group. *)
LEMMA UngroupNodeStep ==
  ASSUME IInv, NEW n \in Node, UngroupNode(n)
  PROVE  IInv'
  <1> DEFINE signals == Ungrouped(n) # place[n] \/ n \notin raised
  <1>1. /\ group[n] # None
        /\ place' = [place EXCEPT ![n] = Scene(n)]
        /\ group' = [group EXCEPT ![n] = None]
        /\ UNCHANGED <<corner, collapsed, size, shape, style, arrow, target, minimum, grip>>
        /\ IF signals THEN Update(EdgesOf(n))
           ELSE /\ late' = IF group[n] \in collapsed THEN late \cup EdgesOf(n) ELSE late
                /\ item' = item
    BY DEF UngroupNode, Ungrouped, looks, resizer
  <1> HIDE DEF signals
  <1>2. DOMAIN item' = Edge
    BY <1>1, Updated DEF IInv, TypeOK
  <1>3. TypeOK'
    BY <1>1, <1>2, SceneType DEF IInv, TypeOK
  <1>4. \A m \in Node : Scene(m)' = Scene(m)
    BY <1>1 DEF Scene, IInv, TypeOK
  <1>5. ASSUME NEW e \in Edge PROVE Redrawn(e) \/ Kept(e)
    <2>1. ArrowOf(e)' = ArrowOf(e)
      BY <1>1 DEF ArrowOf
    <2>2. \A m \in Node \ {n} : group'[m] = group[m]
      BY <1>1 DEF IInv, TypeOK
    <2>3. CASE e \notin EdgesOf(n)
      <3>1. item'[e] = item[e] /\ (e \in late => e \in late')
        BY <1>1, <2>3, Updated
      <3>2. \A m \in {Ends[e][1], Ends[e][2]} : m # n /\ m \in Node
        BY <2>3, EndsAreNodes
      <3> QED BY <1>1, <1>4, <2>1, <2>2, <3>1, <3>2, Unmoved
    <2>4. CASE e \in EdgesOf(n) /\ signals
      BY <1>1, <2>4, Updated
    <2>5. CASE e \in EdgesOf(n) /\ ~signals /\ group[n] \in collapsed
      BY <1>1, <2>5 DEF Kept, Untold
    <2>6. CASE e \in EdgesOf(n) /\ ~signals /\ group[n] \notin collapsed
      <3>1. item'[e] = item[e] /\ late' = late
        BY <1>1, <2>6
      <3>2. \A m \in {Ends[e][1], Ends[e][2]} :
              m \in Node /\ (group[m] \in collapsed => group'[m] \in collapsed')
        BY <1>1, <2>2, <2>6, EndsAreNodes
      <3> QED BY <1>1, <1>4, <2>1, <3>1, <3>2, Unmoved
    <2> QED BY <2>3, <2>4, <2>5, <2>6
  <1> QED BY <1>3, <1>5, AllFresh

------------------------------------------------------------------------------
(* Sizes, shapes and styles. *)

LEMMA SizedStep ==
  ASSUME IInv, NEW n \in Node, NEW s, Sized(n, s),
         target' \in Node \cup {None}, minimum' \in Pair, grip' \in Pair \cup {None}
  PROVE  IInv'
  <1>1. /\ s \in Sizes /\ s \in Pair
        /\ size' = [size EXCEPT ![n] = s]
        /\ shape' = IF s # size[n] THEN [shape EXCEPT ![n] = s] ELSE shape
        /\ UNCHANGED <<place, group, corner, collapsed, style, arrow>>
        /\ Update(IF s # size[n] THEN EdgesOf(n) ELSE {})
    BY ItemAssumption DEF Sized, layout, looks, Pair
  <1>2. TypeOK'
    BY <1>1, Updated DEF IInv, TypeOK
  <1>3. ASSUME NEW e \in Edge PROVE Redrawn(e) \/ Kept(e)
    <2>1. CASE s # size[n] /\ e \in EdgesOf(n)
      BY <1>1, <2>1, Updated
    <2>2. CASE s = size[n] \/ e \notin EdgesOf(n)
      <3>1. item'[e] = item[e] /\ (e \in late => e \in late')
        BY <1>1, <2>2, Updated
      <3>2. \A m \in {Ends[e][1], Ends[e][2]} : m \in Node /\ shape'[m] = shape[m]
        BY <1>1, <2>2, EndsAreNodes DEF IInv, TypeOK
      <3>3. ArrowOf(e)' = ArrowOf(e) /\ \A m \in Node : Scene(m)' = Scene(m)
        BY <1>1 DEF ArrowOf, Scene
      <3> QED BY <1>1, <3>1, <3>2, <3>3, Unmoved
    <2> QED BY <2>1, <2>2
  <1> QED BY <1>2, <1>3, AllFresh

LEMMA SetBoundingShapeStep ==
  ASSUME IInv, NEW n \in Node, NEW s \in Shapes, SetBoundingShape(n, s)
  PROVE  IInv'
  <1>1. /\ shape' = [shape EXCEPT ![n] = s] /\ s \in Pair
        /\ late' = late \cup EdgesOf(n)
        /\ UNCHANGED <<place, group, corner, collapsed, size, style, arrow, item, target, minimum, grip>>
    BY ItemAssumption DEF SetBoundingShape, layout, looks, resizer, Pair
  <1>2. TypeOK'
    BY <1>1 DEF IInv, TypeOK
  <1>3. ASSUME NEW e \in Edge PROVE Kept(e)
    <2>1. CASE e \in EdgesOf(n)
      BY <1>1, <2>1 DEF Kept, Untold
    <2>2. CASE e \notin EdgesOf(n)
      <3>1. \A m \in {Ends[e][1], Ends[e][2]} : m \in Node /\ shape'[m] = shape[m]
        BY <1>1, <2>2, EndsAreNodes DEF IInv, TypeOK
      <3>2. ArrowOf(e)' = ArrowOf(e) /\ \A m \in Node : Scene(m)' = Scene(m)
        BY <1>1 DEF ArrowOf, Scene
      <3> QED BY <1>1, <3>1, <3>2, Unmoved
    <2> QED BY <2>1, <2>2
  <1> QED BY <1>2, <1>3, AllFresh

(* The places and shapes stay, and an edge is drawn again, late or has the   *)
(* arrow it had.                                                             *)
LEMMA StyleStep ==
  ASSUME IInv, UNCHANGED <<layout, size, shape, resizer>>,
         style' \in [Edge -> Style \cup {None}], arrow' \in [Style -> Nat \cup {None}],
         DOMAIN item' = Edge,
         \A e \in Edge : \/ Redrawn(e)
                         \/ item'[e] = item[e] /\ e \in late'
                         \/ /\ item'[e] = item[e] /\ (e \in late => e \in late')
                            /\ ArrowOf(e)' = ArrowOf(e)
  PROVE  IInv'
  <1>1. UNCHANGED <<place, group, corner, collapsed, size, shape, target, minimum, grip>>
    BY DEF layout, resizer
  <1>2. TypeOK'
    BY <1>1 DEF IInv, TypeOK
  <1>3. \A m \in Node : Scene(m)' = Scene(m)
    BY <1>1 DEF Scene
  <1>4. ASSUME NEW e \in Edge PROVE Redrawn(e) \/ Kept(e)
    <2>1. CASE item'[e] = item[e] /\ e \in late'
      BY <2>1 DEF Kept, Untold
    <2>2. CASE item'[e] = item[e] /\ (e \in late => e \in late') /\ ArrowOf(e)' = ArrowOf(e)
      BY <1>1, <1>3, <2>2, Unmoved, EndsAreNodes
    <2> QED BY <2>1, <2>2
  <1> QED BY <1>2, <1>4, AllFresh

LEMMA SetStyleStep ==
  ASSUME IInv, NEW f \in Edge, NEW s \in Style \cup {None}, SetStyle(f, s)
  PROVE  IInv'
  <1>1. /\ style' = [style EXCEPT ![f] = s] /\ late' = late \cup {f}
        /\ UNCHANGED <<layout, size, shape, arrow, item, resizer>>
    BY DEF SetStyle
  <1>2. ASSUME NEW e \in Edge PROVE e \in late' \/ ((e \in late => e \in late') /\ ArrowOf(e)' = ArrowOf(e))
    BY <1>1 DEF ArrowOf, IInv, TypeOK
  <1> QED BY <1>1, <1>2, StyleStep DEF IInv, TypeOK

LEMMA SetArrowSizeStep ==
  ASSUME IInv, NEW s \in Style, NEW a \in Arrows, SetArrowSize(s, a)
  PROVE  IInv'
  <1>1. /\ arrow' = [arrow EXCEPT ![s] = a] /\ a \in Nat
        /\ UNCHANGED <<layout, size, shape, style, resizer>>
        /\ Update({e \in Edge : style[e] = s})
    BY ItemAssumption DEF SetArrowSize
  <1>2. ASSUME NEW e \in Edge
        PROVE  \/ Redrawn(e)
               \/ /\ item'[e] = item[e] /\ (e \in late => e \in late')
                  /\ ArrowOf(e)' = ArrowOf(e)
    <2>1. CASE style[e] = s
      BY <1>1, <2>1, Updated
    <2>2. CASE style[e] # s
      <3>1. item'[e] = item[e] /\ (e \in late => e \in late')
        BY <1>1, <2>2, Updated
      <3>2. ArrowOf(e)' = ArrowOf(e)
        BY <1>1, <2>2 DEF ArrowOf, IInv, TypeOK
      <3> QED BY <3>1, <3>2
    <2> QED BY <2>1, <2>2
  <1>3. DOMAIN item' = Edge
    BY <1>1, Updated
  <1> QED BY <1>1, <1>2, <1>3, StyleStep DEF IInv, TypeOK

LEMMA DestroyStyleStep ==
  ASSUME IInv, NEW s \in Style, DestroyStyle(s)
  PROVE  IInv'
  <1>1. /\ arrow' = [arrow EXCEPT ![s] = None]
        /\ style' = [e \in Edge |-> IF style[e] = s THEN None ELSE style[e]]
        /\ late' = late \cup {e \in Edge : style[e] = s}
        /\ UNCHANGED <<layout, size, shape, item, resizer>>
    BY DEF DestroyStyle
  <1>2. ASSUME NEW e \in Edge PROVE e \in late' \/ ((e \in late => e \in late') /\ ArrowOf(e)' = ArrowOf(e))
    BY <1>1 DEF ArrowOf, IInv, TypeOK
  <1> QED BY <1>1, <1>2, StyleStep DEF IInv, TypeOK

------------------------------------------------------------------------------
LEMMA TargetsAreNodes ==
  /\ Targets \subseteq Node /\ Minimums \subseteq Pair /\ Sizes \subseteq Pair
  /\ Strides \subseteq Pair /\ NoSize \in Pair
  BY ItemAssumption DEF Pair, NoSize

(* A step that leaves the edges and all they depend on alone. *)
LEMMA IdleStep ==
  ASSUME IInv, UNCHANGED <<layout, size, shape, looks, item, late>>,
         target' \in Node \cup {None}, minimum' \in Pair, grip' \in Pair \cup {None}
  PROVE  IInv'
  BY DEF layout, looks, IInv, TypeOK, Fresh, ItemOK, Untold, Current, Cache, Box, ArrowOf, Scene

LEMMA InvStep == IInv /\ [Next]_vars => IInv'
<1> SUFFICES ASSUME IInv, [Next]_vars PROVE IInv'
  OBVIOUS
<1>0. target \in Node \cup {None} /\ minimum \in Pair /\ grip \in Pair \cup {None}
  BY DEF IInv, TypeOK
<1>1. CASE UNCHANGED vars
  BY <1>0, <1>1, IdleStep DEF vars, resizer
<1>2. CASE Next
  <2>1. ASSUME NEW n \in Node, NEW s \in Spots, MoveNode(n, s) PROVE IInv'
    BY <2>1, MoveNodeStep
  <2>2. ASSUME NEW h \in Group, NEW s \in Corners, MoveGroup(h, s) PROVE IInv'
    BY <2>2, MoveGroupStep
  <2>3. ASSUME NEW h \in Group, Collapse(h) \/ Expand(h) PROVE IInv'
    BY <2>3, CollapseStep, ExpandStep
  <2>4. ASSUME NEW n \in Guests, NEW h \in Group, GroupNode(n, h) PROVE IInv'
    BY <2>4, GroupNodeStep, ItemAssumption
  <2>5. ASSUME NEW n \in Guests, UngroupNode(n) PROVE IInv'
    BY <2>5, UngroupNodeStep, ItemAssumption
  <2>6. ASSUME NEW n \in Targets, NEW s \in Sizes, Resize(n, s) PROVE IInv'
    BY <1>0, <2>6, SizedStep, TargetsAreNodes DEF Resize, resizer
  <2>7. ASSUME NEW n \in Targets, NEW s \in Shapes, SetBoundingShape(n, s) PROVE IInv'
    BY <2>7, SetBoundingShapeStep, TargetsAreNodes
  <2>8. ASSUME NEW e \in Edge, NEW s \in Style \cup {None}, SetStyle(e, s) PROVE IInv'
    BY <2>8, SetStyleStep
  <2>9. ASSUME NEW s \in Style, NEW a \in Arrows, SetArrowSize(s, a) PROVE IInv'
    BY <2>9, SetArrowSizeStep
  <2>10. ASSUME NEW s \in Style, DestroyStyle(s) PROVE IInv'
    BY <2>10, DestroyStyleStep
  <2>11. ASSUME NEW n \in Targets, SetTarget(n) PROVE IInv'
    BY <1>0, <2>11, SizedStep, TargetsAreNodes DEF SetTarget
  <2>12. CASE ResetTarget
    BY <1>0, <2>12, IdleStep DEF ResetTarget
  <2>13. ASSUME NEW m \in Minimums, SetMinimum(m) PROVE IInv'
    <3>1. target' = target /\ grip' = grip /\ minimum' \in Pair
      BY <2>13, TargetsAreNodes DEF SetMinimum
    <3>2. CASE target = None
      BY <1>0, <2>13, <3>1, <3>2, IdleStep DEF SetMinimum
    <3>3. CASE target # None
      BY <1>0, <2>13, <3>1, <3>3, SizedStep DEF SetMinimum
    <3> QED BY <3>2, <3>3
  <2>14. CASE Press
    <3>1. size[target] \in Pair
      BY <1>0, <2>14 DEF Press, IInv, TypeOK
    <3> QED BY <1>0, <2>14, <3>1, IdleStep DEF Press
  <2>15. ASSUME NEW d \in Strides, Drag(d) PROVE IInv'
    BY <1>0, <2>15, SizedStep DEF Drag, resizer
  <2>16. CASE Release
    BY <1>0, <2>16, IdleStep DEF Release
  <2> QED
    BY <1>2, <2>1, <2>2, <2>3, <2>4, <2>5, <2>6, <2>7, <2>8, <2>9, <2>10, <2>11, <2>12,
       <2>13, <2>14, <2>15, <2>16 DEF Next
<1> QED BY <1>1, <1>2

LEMMA Invariance == Spec => []IInv
<1>1. Init => IInv
  <2> SUFFICES ASSUME Init PROVE IInv
    OBVIOUS
  <2>1. (CHOOSE s \in Sizes : \A t \in Sizes : s[1] <= t[1] /\ s[2] <= t[2]) \in Pair
    BY ItemAssumption, TargetsAreNodes
  <2> DEFINE least == CHOOSE s \in Sizes : \A t \in Sizes : s[1] <= t[1] /\ s[2] <= t[2]
  <2>2. size = [n \in Node |-> least] /\ shape = size
    BY DEF Init
  <2>3. least \in Pair
    BY <2>1
  <2> HIDE DEF least
  <2>4. <<0, 0>> \in Pair /\ Spots \subseteq Pair
    BY ItemAssumption DEF Pair
  <2>5. TypeOK
    BY <2>2, <2>3, <2>4, TargetsAreNodes, ItemAssumption DEF Init, TypeOK
  <2>6. ASSUME NEW e \in Edge PROVE Fresh(e) /\ ItemOK(e)
    <3>1. item[e] = Applied(Current(e))
      BY DEF Init
    <3> QED BY <3>1, AppliedIsFresh DEF Fresh, ItemOK
  <2> QED BY <2>5, <2>6 DEF IInv
<1> QED BY <1>1, InvStep, PTL DEF Spec

(* An edge that is shown is drawn for the places and sizes its ends have and *)
(* for its style, after any order of moves, groupings, collapses, resizes    *)
(* and changes of style, unless no signal told it: what updateItem() is      *)
(* connected to is enough.                                                   *)
THEOREM EdgesFresh == Spec => []VisibleIsFresh
<1>1. IInv => VisibleIsFresh
  BY DEF IInv, Fresh, Untold, VisibleIsFresh
<1> QED BY <1>1, Invariance, PTL

------------------------------------------------------------------------------
(* The resizer. *)

Bounded(n, i) ==
  \/ size'[n][i] >= minimum'[i]
  \/ size'[n][i] = size[n][i] /\ n = target /\ minimum' = minimum

(* A target is at the minimum or above in both dimensions once configured. *)
LEMMA ConfiguredBounds ==
  ASSUME IInv, NEW n \in Node, NEW m \in Pair, Sized(n, Configured(n, m)), minimum' = m
  PROVE  \A i \in 1 .. 2 : Bounded(n, i)
  <1>1. size[n] \in Pair /\ size'[n] = Larger(size[n], m)
    BY DEF Sized, Configured, IInv, TypeOK
  <1>2. size'[n][1] >= m[1] /\ size'[n][2] >= m[2]
    BY <1>1, PairLarger
  <1>3. \A i \in 1 .. 2 : i = 1 \/ i = 2
    OBVIOUS
  <1> QED BY <1>2, <1>3 DEF Bounded

(* A move of the handler sets a dimension at the minimum or above only. *)
LEMMA DragBounds ==
  ASSUME IInv, NEW d \in Strides, Drag(d)
  PROVE  \A i \in 1 .. 2 : Bounded(target, i)
  <1> DEFINE w == grip[1] + d[1]
             h == IF preserve THEN IF w > minimum[1] THEN w ELSE minimum[1] ELSE grip[2] + d[2]
  <1>1. /\ target \in Node /\ size' = [size EXCEPT ![target] = Stretched(d)]
        /\ target' = target /\ minimum' = minimum
    BY DEF Drag, Sized, resizer, IInv, TypeOK
  <1>2. /\ w \in Int /\ h \in Int /\ minimum[1] \in Int /\ minimum[2] \in Int
        /\ size[target][1] \in Int /\ size[target][2] \in Int
    BY <1>1, TargetsAreNodes DEF Drag, IInv, TypeOK, Pair
  <1>3. Stretched(d) = <<IF w > minimum[1] THEN w ELSE size[target][1],
                         IF h >= minimum[2] THEN h ELSE size[target][2]>>
    BY DEF Stretched
  <1> HIDE DEF w, h
  <1>4. size'[target] = Stretched(d)
    BY <1>1 DEF IInv, TypeOK
  <1>5. \A i \in 1 .. 2 : i = 1 \/ i = 2
    OBVIOUS
  <1>6. Bounded(target, 1)
    BY <1>1, <1>2, <1>3, <1>4 DEF Bounded
  <1>7. Bounded(target, 2)
    BY <1>1, <1>2, <1>3, <1>4 DEF Bounded
  <1> QED BY <1>5, <1>6, <1>7

(* Whatever the resizer does leaves each dimension of its target at the       *)
(* minimum or above, or as it was: when it gets a target or a minimum, and in *)
(* the middle of a gesture.                                                   *)
THEOREM MinimumsKept == Spec => MinimumKept
<1>1. ASSUME IInv, Next, target' # None, target' # target \/ minimum' # minimum \/ grip # None
      PROVE  \A i \in 1 .. 2 : Bounded(target', i)
  <2>0. target \in Node \cup {None} /\ minimum \in Pair
    BY <1>1 DEF IInv, TypeOK
  <2>1. ASSUME size' = size, target' = target, minimum' = minimum PROVE \A i \in 1 .. 2 : Bounded(target', i)
    BY <2>1 DEF Bounded
  <2>2. ASSUME NEW n \in Targets, SetTarget(n) PROVE \A i \in 1 .. 2 : Bounded(target', i)
    BY <1>1, <2>0, <2>2, ConfiguredBounds, TargetsAreNodes DEF SetTarget
  <2>3. ASSUME NEW m \in Minimums, SetMinimum(m) PROVE \A i \in 1 .. 2 : Bounded(target', i)
    <3>1. target' = target /\ target # None /\ minimum' = m /\ m \in Pair
      BY <1>1, <2>3, TargetsAreNodes DEF SetMinimum
    <3>2. Sized(target, Configured(target, m))
      BY <2>3, <3>1 DEF SetMinimum
    <3> QED BY <1>1, <2>0, <3>1, <3>2, ConfiguredBounds
  <2>4. ASSUME NEW d \in Strides, Drag(d) PROVE \A i \in 1 .. 2 : Bounded(target', i)
    <3>1. target' = target
      BY <2>4 DEF Drag, resizer
    <3> QED BY <1>1, <2>4, <3>1, DragBounds
  <2>5. CASE ResetTarget
    BY <1>1, <2>5 DEF ResetTarget
  <2>6. ASSUME NEW n \in Targets, NEW s \in Sizes, Resize(n, s) PROVE \A i \in 1 .. 2 : Bounded(target', i)
    BY <1>1, <2>6 DEF Resize, resizer
  <2>7. ASSUME NEW n \in Node, NEW s \in Spots, MoveNode(n, s) PROVE \A i \in 1 .. 2 : Bounded(target', i)
    BY <2>1, <2>7 DEF MoveNode, resizer
  <2>8. ASSUME NEW h \in Group, NEW s \in Corners, MoveGroup(h, s) PROVE \A i \in 1 .. 2 : Bounded(target', i)
    BY <2>1, <2>8 DEF MoveGroup, resizer
  <2>9. ASSUME NEW h \in Group, Collapse(h) \/ Expand(h) PROVE \A i \in 1 .. 2 : Bounded(target', i)
    BY <2>1, <2>9 DEF Collapse, Expand, resizer
  <2>10. ASSUME NEW n \in Guests, NEW h \in Group, GroupNode(n, h) PROVE \A i \in 1 .. 2 : Bounded(target', i)
    BY <2>1, <2>10 DEF GroupNode, resizer
  <2>11. ASSUME NEW n \in Guests, UngroupNode(n) PROVE \A i \in 1 .. 2 : Bounded(target', i)
    BY <2>1, <2>11 DEF UngroupNode, resizer
  <2>12. ASSUME NEW n \in Targets, NEW s \in Shapes, SetBoundingShape(n, s) PROVE \A i \in 1 .. 2 : Bounded(target', i)
    BY <2>1, <2>12 DEF SetBoundingShape, resizer
  <2>13. ASSUME NEW e \in Edge, NEW s \in Style \cup {None}, SetStyle(e, s) PROVE \A i \in 1 .. 2 : Bounded(target', i)
    BY <2>1, <2>13 DEF SetStyle, resizer
  <2>14. ASSUME NEW s \in Style, NEW a \in Arrows, SetArrowSize(s, a) PROVE \A i \in 1 .. 2 : Bounded(target', i)
    BY <2>1, <2>14 DEF SetArrowSize, resizer
  <2>15. ASSUME NEW s \in Style, DestroyStyle(s) PROVE \A i \in 1 .. 2 : Bounded(target', i)
    BY <2>1, <2>15 DEF DestroyStyle, resizer
  <2>16. CASE Press \/ Release
    BY <2>1, <2>16 DEF Press, Release
  <2> QED
    BY <1>1, <2>2, <2>3, <2>4, <2>5, <2>6, <2>7, <2>8, <2>9, <2>10, <2>11, <2>12, <2>13,
       <2>14, <2>15, <2>16 DEF Next
<1>2. IInv /\ [Next]_vars =>
        [LET n == target' IN
         n # None /\ (n # target \/ minimum' # minimum \/ grip # None)
           => \A i \in 1 .. 2 : \/ size'[n][i] >= minimum'[i]
                                \/ /\ size'[n][i] = size[n][i]
                                   /\ n = target /\ minimum' = minimum]_vars
  BY <1>1 DEF Bounded
<1> QED BY <1>2, Invariance, PTL DEF Spec, MinimumKept
------------------------------------------------------------------------------
(* Products and quotients, which the provers do not take apart by themselves. *)

(* Products by a positive number keep the order. *)
LEMMA ProductGrows ==
  ASSUME NEW a \in Int, NEW b \in Int, NEW c \in Int, c > 0
  PROVE  (a <= b <=> a * c <= b * c) /\ (a < b <=> a * c < b * c)
  OBVIOUS

(* Products are integers, in any order. *)
LEMMA ProductType ==
  ASSUME NEW a \in Int, NEW b \in Int
  PROVE  a * b \in Int /\ a * b = b * a
  OBVIOUS

(* And distribute. *)
LEMMA ProductSum ==
  ASSUME NEW a \in Int, NEW b \in Int, NEW c \in Int
  PROVE  (a + b) * c = a * c + b * c /\ (a - b) * c = a * c - b * c
  OBVIOUS

(* Quotient and remainder. *)
LEMMA Division ==
  ASSUME NEW a \in Int, NEW b \in Int, b > 0
  PROVE  /\ a \div b \in Int /\ (a % b) \in Int
         /\ a = b * (a \div b) + (a % b)
         /\ 0 <= (a % b) /\ (a % b) < b
  OBVIOUS

------------------------------------------------------------------------------
(* The greatest common divisor, as far as it divides.                       *)

Numbers == Nat \ {0}

(* Every nonempty set of numbers has a least one. *)
LEMMA Least ==
  ASSUME NEW T \in SUBSET Nat, T # {}
  PROVE  \E x \in T : \A y \in T : x <= y
<1>1. IsWellFoundedOn({ss \in Nat \X Nat : ss[1] < ss[2]}, Nat)
  BY NatLessThanWellFounded DEF OpToRel
<1>2. PICK x \in T : \A y \in T : ~(<<y, x>> \in {ss \in Nat \X Nat : ss[1] < ss[2]})
  BY <1>1, WFMin
<1>3. ASSUME NEW y \in T PROVE x <= y
  <2>1. <<y, x>> \in Nat \X Nat
    OBVIOUS
  <2>2. ~(y < x)
    BY <1>2, <2>1
  <2>3. x \in Nat /\ y \in Nat
    OBVIOUS
  <2> QED BY <2>2, <2>3
<1> QED BY <1>3

(* Induction over the numbers, for a set. *)
LEMMA Induction ==
  ASSUME NEW S, 0 \in S, \A n \in Nat : n \in S => n + 1 \in S
  PROVE  Nat \subseteq S
<1> SUFFICES ASSUME Nat \ S # {} PROVE FALSE
  OBVIOUS
<1>1. PICK x \in Nat \ S : \A y \in Nat \ S : x <= y
  BY Least
<1>2. x - 1 \in Nat
  BY <1>1
<1> QED BY <1>1, <1>2

(* f is the function of Euclid on the pairs of Nat and 0 .. n. *)
Euclid(f, n) ==
  \A a \in Nat : \A b \in 0 .. n :
    f[<<a, b>>] = IF b = 0 THEN a ELSE f[<<b, a % b>>]

(* Euclid's step goes down. *)
LEMMA Remainder ==
  ASSUME NEW a \in Nat, NEW b \in Nat, b # 0
  PROVE  (a % b) \in Nat /\ (a % b) < b /\ (a % b) \in 0 .. b - 1
  BY Division

(* There is such a function up to every number. *)
LEMMA EuclidExists == \A n \in Nat : \E f : Euclid(f, n)
<1> DEFINE Good == {n \in Nat : \E f : Euclid(f, n)}
<1>1. 0 \in Good
  <2> DEFINE f == [p \in Nat \X (0 .. 0) |-> p[1]]
  <2>1. Euclid(f, 0)
    BY DEF Euclid
  <2> QED BY <2>1
<1>2. ASSUME NEW n \in Nat, n \in Good PROVE n + 1 \in Good
  <2>1. PICK f : Euclid(f, n)
    BY <1>2
  <2> DEFINE g == [p \in Nat \X (0 .. n + 1) |->
                     IF p[2] <= n THEN f[p] ELSE f[<<n + 1, p[1] % (n + 1)>>]]
  <2>2. ASSUME NEW a \in Nat, NEW b \in 0 .. n PROVE g[<<a, b>>] = f[<<a, b>>]
    OBVIOUS
  <2>3. ASSUME NEW a \in Nat PROVE g[<<a, n + 1>>] = f[<<n + 1, a % (n + 1)>>]
    OBVIOUS
  <2> HIDE DEF g
  <2>4. ASSUME NEW a \in Nat, NEW b \in 0 .. n + 1
        PROVE  g[<<a, b>>] = IF b = 0 THEN a ELSE g[<<b, a % b>>]
    <3>1. CASE b = 0
      <4>1. 0 \in 0 .. n
        OBVIOUS
      <4>2. f[<<a, 0>>] = a
        BY <2>1, <4>1 DEF Euclid
      <4> QED BY <2>2, <3>1, <4>1, <4>2
    <3>2. CASE b \in 1 .. n
      <4>1. b \in 0 .. n /\ b # 0 /\ b \in Nat
        BY <3>2
      <4>2. (a % b) \in 0 .. n
        BY <4>1, Remainder
      <4>3. f[<<a, b>>] = f[<<b, a % b>>]
        BY <2>1, <4>1 DEF Euclid
      <4> QED BY <2>2, <4>1, <4>2, <4>3
    <3>3. CASE b = n + 1
      <4>1. (a % b) \in 0 .. n /\ b # 0 /\ b \in Nat
        BY <3>3, Remainder
      <4> QED BY <2>2, <2>3, <3>3, <4>1
    <3> QED BY <3>1, <3>2, <3>3
  <2>5. Euclid(g, n + 1)
    BY <2>4 DEF Euclid
  <2> QED BY <2>5
<1>3. Nat \subseteq Good
  <2> HIDE DEF Good
  <2> QED BY <1>1, <1>2, Induction
<1> QED BY <1>3

(* Two such functions agree where both are defined. *)
LEMMA EuclidUnique ==
  ASSUME NEW f, NEW g, NEW n \in Nat, NEW m \in Nat, Euclid(f, n), Euclid(g, m)
  PROVE  \A a \in Nat : \A b \in Nat : b <= n /\ b <= m => f[<<a, b>>] = g[<<a, b>>]
<1> DEFINE Same(b) == \A a \in Nat : f[<<a, b>>] = g[<<a, b>>]
           Good == {k \in Nat : \A b \in 0 .. k : b <= n /\ b <= m => Same(b)}
<1>1. 0 \in Good
  <2>1. 0 \in 0 .. n /\ 0 \in 0 .. m /\ \A b \in 0 .. 0 : b = 0
    OBVIOUS
  <2>2. \A a \in Nat : f[<<a, 0>>] = a /\ g[<<a, 0>>] = a
    BY <2>1 DEF Euclid
  <2> QED BY <2>1, <2>2
<1>2. ASSUME NEW k \in Nat, k \in Good PROVE k + 1 \in Good
  <2> SUFFICES ASSUME NEW b \in 0 .. k + 1, b <= n, b <= m PROVE Same(b)
    OBVIOUS
  <2>1. CASE b <= k
    BY <1>2, <2>1
  <2>2. CASE b = k + 1
    <3>1. b \in 0 .. n /\ b \in 0 .. m /\ b # 0 /\ b \in Nat
      BY <2>2
    <3> SUFFICES ASSUME NEW a \in Nat PROVE f[<<a, b>>] = g[<<a, b>>]
      OBVIOUS
    <3>2. f[<<a, b>>] = f[<<b, a % b>>] /\ g[<<a, b>>] = g[<<b, a % b>>]
      BY <3>1 DEF Euclid
    <3>3. (a % b) \in 0 .. k /\ a % b <= n /\ a % b <= m
      BY <2>2, <3>1, Remainder
    <3>4. Same(a % b)
      BY <1>2, <3>3
    <3> QED BY <3>1, <3>2, <3>4
  <2> QED BY <2>1, <2>2
<1>3. Nat \subseteq Good
  <2> HIDE DEF Good
  <2> QED BY <1>1, <1>2, Induction
<1> QED
  <2> SUFFICES ASSUME NEW a \in Nat, NEW b \in Nat, b <= n, b <= m PROVE f[<<a, b>>] = g[<<a, b>>]
    OBVIOUS
  <2>1. b \in Good /\ b \in 0 .. b
    BY <1>3
  <2> QED BY <2>1

(* Gcd is what its definition says. *)
LEMMA GcdIsEuclid ==
  ASSUME NEW a \in Nat, NEW b \in Nat
  PROVE  Gcd[<<a, b>>] = IF b = 0 THEN a ELSE Gcd[<<b, a % b>>]
<1> DEFINE Of(n) == CHOOSE f : Euclid(f, n)
           G == [p \in Nat \X Nat |-> Of(p[2])[p]]
           Eq(f) == f = [p \in Nat \X Nat |-> IF p[2] = 0 THEN p[1] ELSE f[<<p[2], p[1] % p[2]>>]]
<1>1. ASSUME NEW n \in Nat PROVE Euclid(Of(n), n)
  BY EuclidExists
<1> HIDE DEF Of
<1>2. ASSUME NEW x \in Nat, NEW y \in Nat
      PROVE  G[<<x, y>>] = IF y = 0 THEN x ELSE G[<<y, x % y>>]
  <2>1. G[<<x, y>>] = Of(y)[<<x, y>>]
    OBVIOUS
  <2>2. Of(y)[<<x, y>>] = IF y = 0 THEN x ELSE Of(y)[<<y, x % y>>]
    BY <1>1 DEF Euclid
  <2>3. CASE y # 0
    <3>1. (x % y) \in Nat /\ (x % y) < y
      BY <2>3, Remainder
    <3>2. G[<<y, x % y>>] = Of(x % y)[<<y, x % y>>]
      BY <3>1
    <3>3. Of(x % y)[<<y, x % y>>] = Of(y)[<<y, x % y>>]
      <4> DEFINE r == x % y
      <4>1. r \in Nat /\ r <= y /\ Euclid(Of(r), r) /\ Euclid(Of(y), y)
        BY <1>1, <3>1
      <4> HIDE DEF r
      <4>2. Of(r)[<<y, r>>] = Of(y)[<<y, r>>]
        BY <4>1, EuclidUnique
      <4> QED BY <4>2 DEF r
    <3> QED BY <2>1, <2>2, <2>3, <3>2, <3>3
  <2> QED BY <2>1, <2>2, <2>3
<1>3. \E f : Eq(f)
  <2> DEFINE H == [p \in Nat \X Nat |-> IF p[2] = 0 THEN p[1] ELSE G[<<p[2], p[1] % p[2]>>]]
  <2>1. \A p \in Nat \X Nat : p = <<p[1], p[2]>> /\ p[1] \in Nat /\ p[2] \in Nat
    OBVIOUS
  <2>2. \A p \in Nat \X Nat : G[p] = IF p[2] = 0 THEN p[1] ELSE G[<<p[2], p[1] % p[2]>>]
    <3> HIDE DEF G
    <3> QED BY <1>2, <2>1
  <2>3. G = H
    <3>1. G = [p \in Nat \X Nat |-> G[p]]
      OBVIOUS
    <3> HIDE DEF G
    <3> QED BY <2>2, <3>1
  <2>4. Eq(G)
    <3> HIDE DEF G
    <3> QED BY <2>3
  <2> QED BY <2>4
<1>4. Eq(Gcd)
  <2>1. Gcd = CHOOSE f : Eq(f)
    BY DEF Gcd
  <2> HIDE DEF Eq
  <2> QED BY <1>3, <2>1
<1>5. <<a, b>> \in Nat \X Nat
  OBVIOUS
<1> QED BY <1>4, <1>5

(* A divisor of both. *)
Divides(g, a) == \E i \in Nat : a = g * i

(* Gcd divides both of two numbers that are not both 0. *)
LEMMA GcdDivides ==
  ASSUME NEW a \in Nat, NEW b \in Nat, a # 0 \/ b # 0
  PROVE  /\ Gcd[<<a, b>>] \in Numbers
         /\ Divides(Gcd[<<a, b>>], a) /\ Divides(Gcd[<<a, b>>], b)
<1> DEFINE Of(x, y) == /\ Gcd[<<x, y>>] \in Numbers
                       /\ Divides(Gcd[<<x, y>>], x) /\ Divides(Gcd[<<x, y>>], y)
           Good == {k \in Nat : \A x \in Nat : \A y \in 0 .. k : x # 0 \/ y # 0 => Of(x, y)}
<1>1. ASSUME NEW x \in Nat, x # 0 PROVE Of(x, 0)
  <2>1. Gcd[<<x, 0>>] = x
    BY GcdIsEuclid
  <2>2. x = x * 1 /\ 0 = x * 0
    OBVIOUS
  <2> QED BY <1>1, <2>1, <2>2 DEF Divides, Numbers
<1>2. ASSUME NEW x \in Nat, NEW y \in Nat, y # 0, Of(y, x % y) PROVE Of(x, y)
  <2> DEFINE g == Gcd[<<x, y>>]
             q == x \div y
             r == x % y
  <2>1. g = Gcd[<<y, r>>]
    BY <1>2, GcdIsEuclid
  <2>2. q \in Int /\ x = y * q + r /\ r \in Nat
    BY <1>2, Division, Remainder
  <2>3. g \in Numbers /\ Divides(g, y) /\ Divides(g, r)
    BY <1>2, <2>1
  <2> HIDE DEF g, q, r
  <2>4. PICK i \in Nat, j \in Nat : y = g * i /\ r = g * j
    BY <2>3 DEF Divides
  <2>5. x = g * (i * q + j) /\ i * q + j \in Int
    <3>1. (g * i) * q = g * (i * q) /\ i * q \in Int
      BY <2>2, <2>3, <2>4 DEF Numbers
    <3>2. g * (i * q + j) = g * (i * q) + g * j
      BY <2>3, <2>4, <3>1 DEF Numbers
    <3> QED BY <2>2, <2>4, <3>1, <3>2
  <2>6. i * q + j \in Nat
    <3> DEFINE k == i * q + j
    <3>1. k \in Int /\ x = g * k /\ g \in Nat /\ g > 0
      BY <2>3, <2>5 DEF Numbers
    <3> HIDE DEF k
    <3>2. k >= 0
      <4> SUFFICES ASSUME k < 0 PROVE FALSE
        BY <3>1
      <4>1. k * g < 0 * g
        BY <3>1, ProductGrows
      <4> QED BY <3>1, <4>1
    <3> QED BY <3>1, <3>2 DEF k
  <2>7. Divides(g, x)
    BY <2>5, <2>6 DEF Divides
  <2> QED BY <2>3, <2>7 DEF g
<1> HIDE DEF Of
<1>3. 0 \in Good
  BY <1>1
<1>4. ASSUME NEW k \in Nat, k \in Good PROVE k + 1 \in Good
  <2> SUFFICES ASSUME NEW x \in Nat, NEW y \in 0 .. k + 1, x # 0 \/ y # 0 PROVE Of(x, y)
    OBVIOUS
  <2>1. CASE y = 0
    BY <1>1, <2>1
  <2>2. CASE y # 0
    <3>1. (x % y) \in 0 .. k /\ y \in Nat
      BY <2>2, Remainder
    <3>2. Of(y, x % y)
      BY <1>4, <2>2, <3>1
    <3> QED BY <1>2, <2>2, <3>1, <3>2
  <2> QED BY <2>1, <2>2
<1>5. Nat \subseteq Good
  <2> HIDE DEF Good
  <2> QED BY <1>3, <1>4, Induction
<1>6. Of(a, b)
  <2>1. b \in Good /\ b \in 0 .. b
    BY <1>5
  <2> QED BY <2>1
<1> QED BY <1>6 DEF Of

(* A multiple is divided exactly. *)
LEMMA ExactDivision ==
  ASSUME NEW g \in Numbers, NEW i \in Int
  PROVE  (g * i) \div g = i
  BY DEF Numbers

------------------------------------------------------------------------------
(* Points: fractions with one denominator.                                  *)

Fraction == [x : Int, y : Int, d : Numbers]

(* A number or its opposite, whichever is not negative. *)
LEMMA SizeIs ==
  ASSUME NEW v \in Int
  PROVE  Size(v) \in Nat /\ (Size(v) = v \/ Size(v) = -v) /\ (Size(v) = 0 <=> v = 0)
  BY DEF Size

(* A number that g divides, with its sign. *)
LEMMA DividedSize ==
  ASSUME NEW g \in Numbers, NEW v \in Int, Divides(g, Size(v))
  PROVE  (v \div g) \in Int /\ v = g * (v \div g)
<1>1. PICK i \in Nat : Size(v) = g * i
  BY DEF Divides
<1>2. v = g * i \/ v = g * (-i)
  BY <1>1, SizeIs DEF Numbers
<1> QED BY <1>2, ExactDivision

(* A divisor of a divisor is one. *)
LEMMA DividesTransitive ==
  ASSUME NEW g \in Numbers, NEW h \in Nat, NEW a \in Nat, Divides(g, h), Divides(h, a)
  PROVE  Divides(g, a)
<1>1. PICK i \in Nat, j \in Nat : h = g * i /\ a = h * j
  BY DEF Divides
<1>2. a = g * (i * j) /\ i * j \in Nat
  BY <1>1 DEF Numbers
<1> QED BY <1>2 DEF Divides

(* Point() reduces a fraction. *)
LEMMA PointIs ==
  ASSUME NEW x \in Int, NEW y \in Int, NEW d \in Numbers
  PROVE  LET p == Point(x, y, d)
         IN p \in Fraction /\ \E k \in Numbers : x = k * p.x /\ y = k * p.y /\ d = k * p.d
<1> DEFINE h == Gcd[<<Size(x), Size(y)>>]
           g == Gcd[<<h, d>>]
           p == Point(x, y, d)
<1>1. Size(x) \in Nat /\ Size(y) \in Nat /\ d \in Nat /\ d # 0
  BY SizeIs DEF Numbers
<1>2. h \in Nat /\ Divides(h, Size(x)) /\ Divides(h, Size(y))
  <2>1. CASE Size(x) # 0 \/ Size(y) # 0
    BY <1>1, <2>1, GcdDivides DEF Numbers
  <2>2. CASE Size(x) = 0 /\ Size(y) = 0
    <3>1. h = 0
      BY <1>1, <2>2, GcdIsEuclid
    <3>2. Divides(0, 0)
      BY DEF Divides
    <3> QED BY <2>2, <3>1, <3>2
  <2> QED BY <2>1, <2>2
<1> HIDE DEF h
<1>3. g \in Numbers /\ Divides(g, h) /\ Divides(g, d)
  BY <1>1, <1>2, GcdDivides
<1>4. p = [x |-> x \div g, y |-> y \div g, d |-> d \div g]
  BY DEF Point, h
<1> HIDE DEF g
<1>5. Divides(g, Size(x)) /\ Divides(g, Size(y)) /\ Divides(g, Size(d))
  BY <1>1, <1>2, <1>3, DividesTransitive DEF Size
<1>6. /\ (x \div g) \in Int /\ x = g * (x \div g)
      /\ (y \div g) \in Int /\ y = g * (y \div g)
      /\ (d \div g) \in Int /\ d = g * (d \div g)
  BY <1>1, <1>3, <1>5, DividedSize
<1>7. (d \div g) \in Numbers
  <2> DEFINE e == d \div g
  <2>1. e \in Int /\ d = g * e /\ g \in Nat /\ g > 0 /\ d \in Nat /\ d > 0
    BY <1>1, <1>3, <1>6 DEF Numbers
  <2> HIDE DEF e
  <2>2. e > 0
    <3> SUFFICES ASSUME e <= 0 PROVE FALSE
      BY <2>1
    <3>1. e * g <= 0 * g
      BY <2>1, ProductGrows
    <3> QED BY <2>1, <3>1
  <2> QED BY <2>1, <2>2 DEF Numbers, e
<1> HIDE DEF p
<1>8. p \in Fraction /\ x = g * p.x /\ y = g * p.y /\ d = g * p.d
  BY <1>4, <1>6, <1>7 DEF Fraction
<1> QED BY <1>3, <1>8 DEF p

(* px/pd and vx/vd make rx/rd; n times x/d is a at least, and more. *)
Sums(px, pd, vx, vd, rx, rd) == (px * vd + vx * pd) * rd = rx * (pd * vd)
Above(n, x, d, a) == n * x >= a * d
Beyond(n, x, d, a) == n * x > a * d

(* The sum of two fractions is above the sum of what they are above of, n of   *)
(* them in each case.                                                          *)
LEMMA SumBound ==
  ASSUME NEW px \in Int, NEW vx \in Int, NEW rx \in Int,
         NEW pd \in Numbers, NEW vd \in Numbers, NEW rd \in Numbers,
         Sums(px, pd, vx, vd, rx, rd),
         NEW n \in Numbers, NEW a \in Int, NEW b \in Int, Above(n, px, pd, a), Above(n, vx, vd, b)
  PROVE  /\ Above(n, rx, rd, a + b)
         /\ Beyond(n, px, pd, a) \/ Beyond(n, vx, vd, b) => Beyond(n, rx, rd, a + b)
<1> DEFINE A == n * px - a * pd
           B == n * vx - b * vd
           D == pd * vd
           sum == px * vd + vx * pd
           E == A * vd + B * pd
           F == n * rx - (a + b) * rd
<1>1. /\ pd \in Int /\ pd > 0 /\ vd \in Int /\ vd > 0 /\ rd \in Int /\ rd > 0 /\ n \in Int
      /\ D \in Int /\ D > 0 /\ A \in Int /\ B \in Int /\ A >= 0 /\ B >= 0
  <2>1. pd \in Int /\ pd > 0 /\ vd \in Int /\ vd > 0 /\ rd \in Int /\ rd > 0 /\ n \in Int
    BY DEF Numbers
  <2>2. D \in Int /\ D > 0
    BY <2>1, ProductGrows
  <2> QED BY <2>1, <2>2 DEF Above
<1>2. n * sum - (a + b) * D = E
  BY <1>1
<1>3. sum * rd = rx * D
  BY DEF Sums
<1>4. F * D = E * rd
  <2>1. F * D = n * (rx * D) - (a + b) * (rd * D)
    BY <1>1
  <2>2. sum \in Int /\ E \in Int
    BY <1>1
  <2> HIDE DEF D, sum, E, F
  <2>3. n * (sum * rd) - (a + b) * (rd * D) = (n * sum - (a + b) * D) * rd
    BY <1>1, <2>2
  <2> QED BY <1>2, <1>3, <2>1, <2>3
<1>5. E >= 0 /\ E \in Int /\ (A > 0 \/ B > 0 => E > 0)
  <2> HIDE DEF A, B
  <2>1. /\ A * vd \in Int /\ B * pd \in Int
        /\ A * vd >= 0 /\ B * pd >= 0
        /\ A > 0 => A * vd > 0
        /\ B > 0 => B * pd > 0
    BY <1>1, ProductGrows
  <2> QED BY <2>1
<1>6. F \in Int
  BY <1>1
<1> HIDE DEF D, E, F
<1>7. F >= 0 /\ (E > 0 => F > 0)
  <2>1. E * rd >= 0 /\ (E > 0 => E * rd > 0)
    BY <1>1, <1>5, ProductGrows
  <2>2. (F < 0 => F * D < 0) /\ (F <= 0 => F * D <= 0)
    BY <1>1, <1>6, ProductGrows
  <2> QED BY <1>1, <1>4, <1>5, <1>6, <2>1, <2>2
<1> QED BY <1>1, <1>5, <1>6, <1>7 DEF F, Above, Beyond

(* Moved() adds a vector to a point. *)
IsSum(p, v, r) ==
  /\ r \in Fraction
  /\ Sums(p.x, p.d, v.x, v.d, r.x, r.d)
  /\ Sums(p.y, p.d, v.y, v.d, r.y, r.d)

Reduces(px, vx, rx, s, t, g, k, rd) == px * t + vx * s = k * rx /\ (g * s) * t = k * rd

(* A sum over the least common denominator that is then reduced by k is the sum. *)
LEMMA ReducedSum ==
  ASSUME NEW px \in Int, NEW vx \in Int, NEW rx \in Int, NEW s \in Numbers, NEW t \in Numbers,
         NEW g \in Numbers, NEW k \in Numbers, NEW rd \in Numbers,
         Reduces(px, vx, rx, s, t, g, k, rd)
  PROVE  Sums(px, g * s, vx, g * t, rx, rd)
<1> DEFINE sum == px * t + vx * s
<1>1. g \in Int /\ s \in Int /\ t \in Int /\ k \in Int /\ rd \in Int
  BY DEF Numbers
<1>2. px * (g * t) + vx * (g * s) = g * sum
  BY <1>1
<1>3. (g * s) * (g * t) = g * ((g * s) * t)
  BY <1>1
<1>4. (g * (k * rx)) * rd = rx * (g * (k * rd))
  BY <1>1
<1>5. sum = k * rx /\ (g * s) * t = k * rd
  BY DEF Reduces
<1> QED BY <1>2, <1>3, <1>4, <1>5 DEF Sums

(* Moved() adds a vector to a point, whatever Gcd takes out on the way. *)
LEMMA MovedIs ==
  ASSUME NEW p \in Fraction, NEW v \in Fraction
  PROVE  IsSum(p, v, Moved(p, v))
<1> DEFINE g == Gcd[<<p.d, v.d>>]
           s == p.d \div g
           t == v.d \div g
           r == Moved(p, v)
<1>1. /\ p.x \in Int /\ p.y \in Int /\ p.d \in Nat /\ p.d # 0 /\ p.d \in Numbers
      /\ v.x \in Int /\ v.y \in Int /\ v.d \in Nat /\ v.d # 0 /\ v.d \in Numbers
  BY DEF Fraction, Numbers
<1>2. g \in Numbers /\ Divides(g, p.d) /\ Divides(g, v.d)
  BY <1>1, GcdDivides
<1> HIDE DEF g
<1>3. s \in Int /\ p.d = g * s /\ t \in Int /\ v.d = g * t
  <2>1. Size(p.d) = p.d /\ Size(v.d) = v.d
    BY <1>1 DEF Size
  <2> QED BY <1>1, <1>2, <2>1, DividedSize
<1>4. s \in Numbers /\ t \in Numbers
  <2>1. \A e \in Int : e <= 0 => g * e <= 0
    BY <1>2 DEF Numbers
  <2> QED BY <1>1, <1>3, <2>1 DEF Numbers
<1>5. r = Point(p.x * t + v.x * s, p.y * t + v.y * s, p.d * t)
  BY DEF Moved, g
<1> HIDE DEF s, t, r
<1>6. /\ p.x * t + v.x * s \in Int /\ p.y * t + v.y * s \in Int /\ p.d * t \in Numbers
  <2>1. s \in Int /\ t \in Int /\ t > 0 /\ p.d \in Int /\ p.d > 0
    BY <1>1, <1>4 DEF Numbers
  <2>2. p.d * t \in Int /\ p.d * t > 0
    BY <2>1, ProductGrows
  <2> QED BY <1>1, <2>1, <2>2 DEF Numbers
<1>7. PICK k \in Numbers : /\ r \in Fraction
                           /\ p.x * t + v.x * s = k * r.x /\ p.y * t + v.y * s = k * r.y
                           /\ p.d * t = k * r.d
  BY <1>5, <1>6, PointIs
<1>8. r.x \in Int /\ r.y \in Int /\ r.d \in Numbers
  BY <1>7 DEF Fraction
<1>9. Reduces(p.x, v.x, r.x, s, t, g, k, r.d) /\ Reduces(p.y, v.y, r.y, s, t, g, k, r.d)
  BY <1>3, <1>7 DEF Reduces
<1>10. Sums(p.x, g * s, v.x, g * t, r.x, r.d) /\ Sums(p.y, g * s, v.y, g * t, r.y, r.d)
  BY <1>1, <1>2, <1>4, <1>7, <1>8, <1>9, ReducedSum
<1> QED BY <1>3, <1>7, <1>10 DEF IsSum, r

------------------------------------------------------------------------------
(* The side of a line on which a point is, in the direction of a dock: n times *)
(* its coordinate is a at least, or more.                                      *)
Beside(n, dock, p, a) == Above(n, Outward(dock, p), p.d, a)
Past(n, dock, p, a) == Beyond(n, Outward(dock, p), p.d, a)

Opposite(dock) ==
  CASE dock = "Left" -> "Right" [] dock = "Top" -> "Bottom" [] dock = "Right" -> "Left" [] OTHER -> "Top"

(* The opposite dock looks the other way. *)
LEMMA OppositeIs ==
  ASSUME NEW dock \in Dock
  PROVE  /\ Opposite(dock) \in Dock
         /\ \A p \in Fraction : Outward(Opposite(dock), p) = -Outward(dock, p)
<1>1. CASE dock = "Left"
  BY <1>1 DEF Opposite, Outward, Dock, Fraction
<1>2. CASE dock = "Right"
  BY <1>2 DEF Opposite, Outward, Dock, Fraction
<1>3. CASE dock = "Top"
  BY <1>3 DEF Opposite, Outward, Dock, Fraction
<1>4. CASE dock = "Bottom"
  BY <1>4 DEF Opposite, Outward, Dock, Fraction
<1> QED BY <1>1, <1>2, <1>3, <1>4 DEF Dock

(* A coordinate is an integer over the denominator. *)
LEMMA OutwardType ==
  ASSUME NEW dock \in Dock, NEW p \in Fraction
  PROVE  Outward(dock, p) \in Int /\ p.d \in Numbers
  BY DEF Outward, Dock, Fraction

(* A sum of vectors is one in the direction of each dock. *)
LEMMA OutwardSum ==
  ASSUME NEW dock \in Dock, NEW p \in Fraction, NEW v \in Fraction, NEW r, IsSum(p, v, r)
  PROVE  Sums(Outward(dock, p), p.d, Outward(dock, v), v.d, Outward(dock, r), r.d)
<1>1. /\ p.x \in Int /\ p.y \in Int /\ p.d \in Int /\ v.x \in Int /\ v.y \in Int /\ v.d \in Int
      /\ r.x \in Int /\ r.y \in Int /\ r.d \in Int
  BY DEF IsSum, Fraction, Numbers
<1>2. Sums(p.x, p.d, v.x, v.d, r.x, r.d) /\ Sums(p.y, p.d, v.y, v.d, r.y, r.d)
  BY DEF IsSum
<1>3. \A a, b, c \in Int : Sums(a, p.d, b, v.d, c, r.d) => Sums(-a, p.d, -b, v.d, -c, r.d)
  <2> SUFFICES ASSUME NEW a \in Int, NEW b \in Int, NEW c \in Int, Sums(a, p.d, b, v.d, c, r.d)
               PROVE  Sums(-a, p.d, -b, v.d, -c, r.d)
    OBVIOUS
  <2>1. (-a) * v.d + (-b) * p.d = -(a * v.d + b * p.d)
    BY <1>1
  <2>2. (-(a * v.d + b * p.d)) * r.d = -((a * v.d + b * p.d) * r.d)
    BY <1>1
  <2>3. (-c) * (p.d * v.d) = -(c * (p.d * v.d))
    BY <1>1
  <2> QED BY <2>1, <2>2, <2>3 DEF Sums
<1>4. Sums(-p.x, p.d, -v.x, v.d, -r.x, r.d) /\ Sums(-p.y, p.d, -v.y, v.d, -r.y, r.d)
  BY <1>1, <1>2, <1>3
<1>5. CASE dock = "Left"
  BY <1>4, <1>5 DEF Outward
<1>6. CASE dock = "Right"
  BY <1>2, <1>6 DEF Outward
<1>7. CASE dock = "Top"
  BY <1>4, <1>7 DEF Outward
<1>8. CASE dock = "Bottom"
  BY <1>2, <1>8 DEF Outward
<1> QED BY <1>5, <1>6, <1>7, <1>8 DEF Dock

(* A move goes as far as the point and the vector do. *)
LEMMA MovedBeside ==
  ASSUME NEW dock \in Dock, NEW p \in Fraction, NEW v \in Fraction,
         NEW n \in Numbers, NEW a \in Int, NEW b \in Int, Beside(n, dock, p, a), Beside(n, dock, v, b)
  PROVE  /\ Moved(p, v) \in Fraction
         /\ Beside(n, dock, Moved(p, v), a + b)
         /\ Past(n, dock, v, b) => Past(n, dock, Moved(p, v), a + b)
         /\ Past(n, dock, p, a) => Past(n, dock, Moved(p, v), a + b)
<1> DEFINE r == Moved(p, v)
<1>1. IsSum(p, v, r)
  BY MovedIs
<1> HIDE DEF r
<1>2. r \in Fraction /\ Sums(Outward(dock, p), p.d, Outward(dock, v), v.d, Outward(dock, r), r.d)
  BY <1>1, OutwardSum DEF IsSum
<1>3. /\ Outward(dock, p) \in Int /\ p.d \in Numbers /\ Outward(dock, v) \in Int /\ v.d \in Numbers
      /\ Outward(dock, r) \in Int /\ r.d \in Numbers
  BY <1>2, OutwardType
<1> QED BY <1>2, <1>3, SumBound DEF Beside, Past, r

(* So does the vector from p to q. *)
LEMMA FromBeside ==
  ASSUME NEW dock \in Dock, NEW p \in Fraction, NEW q \in Fraction,
         NEW n \in Numbers, NEW a \in Int, NEW b \in Int,
         Beside(n, dock, q, a), Beside(n, Opposite(dock), p, b)
  PROVE  /\ From(p, q) \in Fraction
         /\ Beside(n, dock, From(p, q), a + b)
         /\ Past(n, dock, q, a) => Past(n, dock, From(p, q), a + b)
<1> DEFINE v == [p EXCEPT !.x = -p.x, !.y = -p.y]
<1>1. v \in Fraction /\ v.d = p.d /\ v.x = -p.x /\ v.y = -p.y
  <2>1. p.x \in Int /\ p.y \in Int /\ p.d \in Numbers
    BY DEF Fraction
  <2>2. v.d = p.d /\ v.x = -p.x /\ v.y = -p.y
    BY DEF Fraction
  <2>3. -p.x \in Int /\ -p.y \in Int
    BY <2>1
  <2>4. \A i \in Int, j \in Int : [p EXCEPT !.x = i, !.y = j] \in Fraction
    BY DEF Fraction
  <2> QED BY <2>2, <2>3, <2>4
<1>2. From(p, q) = Moved(q, v)
  BY DEF From
<1> HIDE DEF v
<1>3. Outward(dock, v) = -Outward(dock, p)
  BY <1>1 DEF Outward, Dock, Fraction
<1>4. Outward(dock, v) = Outward(Opposite(dock), p)
  BY <1>3, OppositeIs
<1>5. Beside(n, dock, v, b)
  BY <1>1, <1>4 DEF Beside
<1> QED BY <1>1, <1>2, <1>5, MovedBeside

(* Point() reduces, which moves nothing. *)
LEMMA PointBeside ==
  ASSUME NEW dock \in Dock, NEW p \in Fraction, NEW n \in Numbers, NEW a \in Int
  PROVE  LET q == Point(p.x, p.y, p.d)
         IN /\ q \in Fraction
            /\ Beside(n, dock, p, a) => Beside(n, dock, q, a)
            /\ Past(n, dock, p, a) => Past(n, dock, q, a)
<1> DEFINE q == Point(p.x, p.y, p.d)
           o == Outward(dock, p)
           u == Outward(dock, q)
<1>1. p.x \in Int /\ p.y \in Int /\ p.d \in Numbers
  BY DEF Fraction
<1>2. PICK k \in Numbers : q \in Fraction /\ p.x = k * q.x /\ p.y = k * q.y /\ p.d = k * q.d
  BY <1>1, PointIs
<1> HIDE DEF q
<1>3. /\ k \in Int /\ k > 0 /\ q.x \in Int /\ q.y \in Int /\ q.d \in Int
      /\ n \in Int
  BY <1>2 DEF Fraction, Numbers
<1>4. o = k * u /\ u \in Int
  BY <1>2, <1>3 DEF Outward, Dock
<1> HIDE DEF o, u
<1>5. n * o = (n * u) * k /\ a * p.d = (a * q.d) * k
  BY <1>2, <1>3, <1>4
<1>6. n * u \in Int /\ a * q.d \in Int
  BY <1>3, <1>4
<1>7. (n * o >= a * p.d => n * u >= a * q.d) /\ (n * o > a * p.d => n * u > a * q.d)
  BY <1>3, <1>5, <1>6, ProductGrows
<1> QED BY <1>2, <1>7 DEF Beside, Past, Above, Beyond, o, u, q

------------------------------------------------------------------------------
(* The ends of a line.                                                      *)

Rectangle == [x : Int, y : Int, w : Numbers, h : Numbers]

(* Twice the coordinate of the centre of r in the direction of a dock, and the *)
(* extent of r in that direction.                                              *)
Middle(r, dock) ==
  CASE dock = "Left" -> -(2 * r.x + r.w) [] dock = "Top" -> -(2 * r.y + r.h)
    [] dock = "Right" -> 2 * r.x + r.w [] OTHER -> 2 * r.y + r.h
Extent2(r, dock) == IF dock \in {"Left", "Right"} THEN r.w ELSE r.h

(* Middle and extent of a rectangle, seen from a dock and from the opposite one. *)
LEMMA RectangleIs ==
  ASSUME NEW r \in Rectangle, NEW dock \in Dock
  PROVE  /\ Middle(r, dock) \in Int /\ Extent2(r, dock) \in Nat /\ Extent2(r, dock) > 0
         /\ Middle(r, Opposite(dock)) = -Middle(r, dock)
         /\ Extent2(r, Opposite(dock)) = Extent2(r, dock)
<1>1. r.x \in Int /\ r.y \in Int /\ r.w \in Nat /\ r.w > 0 /\ r.h \in Nat /\ r.h > 0
  BY DEF Rectangle, Numbers
<1>2. CASE dock = "Left"
  BY <1>1, <1>2 DEF Middle, Extent2, Opposite
<1>3. CASE dock = "Right"
  BY <1>1, <1>3 DEF Middle, Extent2, Opposite
<1>4. CASE dock = "Top"
  BY <1>1, <1>4 DEF Middle, Extent2, Opposite
<1>5. CASE dock = "Bottom"
  BY <1>1, <1>5 DEF Middle, Extent2, Opposite
<1> QED BY <1>2, <1>3, <1>4, <1>5 DEF Dock

(* Centre() is at the middle in every direction. *)
LEMMA CentreIs ==
  ASSUME NEW r \in Rectangle, NEW dock \in Dock
  PROVE  Centre(r) \in Fraction /\ Beside(2, dock, Centre(r), Middle(r, dock))
<1> DEFINE p == [x |-> 2 * r.x + r.w, y |-> 2 * r.y + r.h, d |-> 2]
<1>1. r.x \in Int /\ r.y \in Int /\ r.w \in Nat /\ r.h \in Nat
  BY DEF Rectangle, Numbers
<1>2. p \in Fraction
  BY <1>1 DEF Fraction, Numbers
<1>3. Beside(2, dock, p, Middle(r, dock))
  BY <1>1 DEF Beside, Above, Outward, Middle, Dock
<1>4. Centre(r) = Point(p.x, p.y, p.d) /\ 2 \in Numbers /\ Middle(r, dock) \in Int
  BY RectangleIs DEF Centre, Numbers
<1> HIDE DEF p
<1> QED BY <1>2, <1>3, <1>4, PointBeside

(* A vector that leads from the centre of r no further than its sides, and a  *)
(* point of r.                                                                 *)
Reaches(r, v) == v \in Fraction /\ \A dock \in Dock : Beside(2, dock, v, -Extent2(r, dock))
Within(r, p) ==
  p \in Fraction /\ \A dock \in Dock : Beside(2, dock, p, Middle(r, dock) - Extent2(r, dock))

(* Moved from the centre no further than the sides, a point is in the rectangle. *)
LEMMA ReachedIsWithin ==
  ASSUME NEW r \in Rectangle, NEW v, Reaches(r, v)
  PROVE  Within(r, Moved(Centre(r), v))
<1>1. "Left" \in Dock /\ 2 \in Numbers
  BY DEF Dock, Numbers
<1>2. v \in Fraction /\ Centre(r) \in Fraction
  BY <1>1, CentreIs DEF Reaches
<1>3. Moved(Centre(r), v) \in Fraction
  BY <1>2, MovedIs DEF IsSum
<1>4. ASSUME NEW dock \in Dock
      PROVE  Beside(2, dock, Moved(Centre(r), v), Middle(r, dock) - Extent2(r, dock))
  <2> DEFINE m == Middle(r, dock)
             e == -Extent2(r, dock)
  <2>1. m \in Int /\ e \in Int /\ m + e = m - Extent2(r, dock)
    BY RectangleIs
  <2>2. Beside(2, dock, Centre(r), m) /\ Beside(2, dock, v, e)
    BY CentreIs DEF Reaches
  <2> HIDE DEF m, e
  <2>3. Beside(2, dock, Moved(Centre(r), v), m + e)
    BY <1>1, <1>2, <2>1, <2>2, MovedBeside
  <2> QED BY <2>1, <2>3 DEF m
<1> QED BY <1>3, <1>4 DEF Within

(* A fraction of the way, where it leaves a box or its centre. *)
LEMMA ExitIs ==
  ASSUME NEW r \in Rectangle, NEW v \in Int \X Int, v # <<0, 0>>
  PROVE  LET t == Exit(r, v)
         IN /\ t[1] \in Numbers /\ t[2] \in Numbers
            /\ t[1] * Size(v[1]) <= r.w * t[2] /\ t[1] * Size(v[2]) <= r.h * t[2]
<1> DEFINE t == Exit(r, v)
           p == Size(v[1])
           q == Size(v[2])
<1>1. /\ r.w \in Nat /\ r.w > 0 /\ r.h \in Nat /\ r.h > 0
      /\ v[1] \in Int /\ v[2] \in Int /\ (v[1] # 0 \/ v[2] # 0)
  BY DEF Rectangle, Numbers
<1>2. p \in Nat /\ q \in Nat /\ (p # 0 \/ q # 0)
  BY <1>1, SizeIs
<1>3. t = IF r.w * q <= r.h * p THEN <<r.w, p>> ELSE <<r.h, q>>
  BY DEF Exit
<1> HIDE DEF t, p, q
<1>4. CASE r.w * q <= r.h * p
  <2>1. t[1] = r.w /\ t[2] = p
    BY <1>3, <1>4
  <2>2. p # 0
    <3> SUFFICES ASSUME p = 0 PROVE FALSE
      OBVIOUS
    <3>1. r.h * p = 0 /\ q > 0
      BY <1>1, <1>2
    <3>2. r.w * q > 0 /\ r.w * q \in Int
      BY <1>1, <1>2, <3>1
    <3> QED BY <1>1, <1>4, <3>1, <3>2
  <2> QED BY <1>1, <1>2, <1>4, <2>1, <2>2 DEF Numbers, t, p, q
<1>5. CASE ~(r.w * q <= r.h * p)
  <2>1. t[1] = r.h /\ t[2] = q
    BY <1>3, <1>5
  <2>2. q # 0
    <3> SUFFICES ASSUME q = 0 PROVE FALSE
      OBVIOUS
    <3>1. r.w * q = 0 /\ p >= 0
      BY <1>1, <1>2
    <3>2. p * r.h >= 0 * r.h /\ p * r.h = r.h * p
      BY <1>1, <1>2, <3>1, ProductGrows
    <3> QED BY <1>1, <1>5, <3>1, <3>2
  <2>3. r.h * p <= r.w * q
    <3>1. r.h * p \in Int /\ r.w * q \in Int
      BY <1>1, <1>2
    <3> QED BY <1>5, <3>1
  <2> QED BY <1>1, <1>2, <2>1, <2>2, <2>3 DEF Numbers, t, p, q
<1> QED BY <1>4, <1>5

(* The fraction of the way at which getLineIntersection() cuts is in the box, the centre included. *)
LEMMA CutIs ==
  ASSUME NEW r \in Rectangle, NEW v \in Int \X Int
  PROVE  LET t == Cut(r, v)
         IN /\ t[1] \in Nat /\ t[2] \in Numbers
            /\ t[1] * Size(v[1]) <= r.w * t[2] /\ t[1] * Size(v[2]) <= r.h * t[2]
<1> DEFINE t == Cut(r, v)
           u == Exit(r, v)
<1>1. r.w \in Nat /\ r.h \in Nat /\ Size(v[1]) \in Nat /\ Size(v[2]) \in Nat
  BY SizeIs DEF Rectangle, Numbers
<1>2. CASE t = <<0, 1>>
  <2>1. t[1] = 0 /\ t[2] = 1
    BY <1>2
  <2> HIDE DEF t
  <2> QED BY <1>1, <2>1 DEF Numbers, t
<1>3. CASE t # <<0, 1>>
  <2>1. t = u
    BY <1>3 DEF Cut
  <2>2. v # <<0, 0>>
    <3> SUFFICES ASSUME v = <<0, 0>> PROVE FALSE
      OBVIOUS
    <3>1. u = <<2, 1>>
      BY DEF Exit
    <3> QED BY <1>3, <3>1 DEF Cut
  <2> HIDE DEF t
  <2>3. u[1] \in Numbers /\ u[2] \in Numbers
        /\ u[1] * Size(v[1]) <= r.w * u[2] /\ u[1] * Size(v[2]) <= r.h * u[2]
    BY <2>2, ExitIs
  <2> HIDE DEF u
  <2> QED BY <2>1, <2>3 DEF Numbers, t
<1> QED BY <1>2, <1>3

(* The offset of a point of the line from the centre. *)
LEMMA CutReaches ==
  ASSUME NEW r \in Rectangle, NEW v \in Int \X Int
  PROVE  LET t == Cut(r, v) IN Reaches(r, Point(t[1] * v[1], t[1] * v[2], 2 * t[2]))
<1> DEFINE t == Cut(r, v)
           m == t[1]
           d == t[2]
           p == [x |-> m * v[1], y |-> m * v[2], d |-> 2 * d]
<1>1. /\ m \in Nat /\ d \in Numbers
      /\ m * Size(v[1]) <= r.w * d /\ m * Size(v[2]) <= r.h * d
  BY CutIs
<1> HIDE DEF m, d
<1>2. /\ v[1] \in Int /\ v[2] \in Int /\ r.w \in Int /\ r.h \in Int /\ d \in Int /\ d > 0 /\ m \in Int
  BY <1>1 DEF Rectangle, Numbers
<1>3. p \in Fraction
  BY <1>2 DEF Fraction, Numbers
<1>4. ASSUME NEW i \in Int, NEW w \in Int, m * Size(i) <= w * d
      PROVE  2 * (m * i) >= (-w) * (2 * d) /\ 2 * (-(m * i)) >= (-w) * (2 * d)
  <2>1. Size(i) \in Int /\ i >= -Size(i) /\ i <= Size(i)
    BY DEF Size
  <2>2. m * i <= m * Size(i) /\ m * i >= -(m * Size(i))
    <3> DEFINE s == Size(i)
    <3>1. s \in Int /\ i >= -s /\ i <= s
      BY <2>1
    <3> HIDE DEF s
    <3>2. CASE m = 0
      <4>1. m * i = 0 /\ m * s = 0
        BY <3>1, <3>2
      <4>2. m * i <= m * s /\ m * i >= -(m * s)
        BY <4>1
      <4> QED BY <4>2 DEF s
    <3>3. CASE m > 0
      <4>1. i * m <= s * m /\ (-s) * m <= i * m
        BY <1>2, <3>1, <3>3, ProductGrows
      <4>2. (-s) * m = -(m * s) /\ i * m = m * i /\ s * m = m * s
        BY <1>2, <3>1
      <4> QED BY <4>1, <4>2, <1>2, <3>1 DEF s
    <3> QED BY <1>1, <3>2, <3>3 DEF s
  <2>3. (-w) * (2 * d) = -(2 * (w * d)) /\ w * d \in Int /\ m * i \in Int /\ m * Size(i) \in Int
    BY <1>2, <2>1
  <2> QED BY <1>4, <2>2, <2>3
<1>5. ASSUME NEW dock \in Dock PROVE Beside(2, dock, p, -Extent2(r, dock))
  <2>1. /\ 2 * (m * v[1]) >= (-r.w) * (2 * d) /\ 2 * (-(m * v[1])) >= (-r.w) * (2 * d)
        /\ 2 * (m * v[2]) >= (-r.h) * (2 * d) /\ 2 * (-(m * v[2])) >= (-r.h) * (2 * d)
    BY <1>1, <1>2, <1>4
  <2>2. p.x = m * v[1] /\ p.y = m * v[2] /\ p.d = 2 * d
    OBVIOUS
  <2> HIDE DEF p
  <2> QED BY <2>1, <2>2 DEF Beside, Above, Outward, Extent2, Dock
<1>6. 2 \in Numbers /\ \A dock \in Dock : -Extent2(r, dock) \in Int
  BY RectangleIs DEF Numbers
<1>7. Point(m * v[1], m * v[2], 2 * d) = Point(p.x, p.y, p.d)
  OBVIOUS
<1> DEFINE q == Point(p.x, p.y, p.d)
<1> HIDE DEF p
<1>8. q \in Fraction
  <2>1. "Left" \in Dock
    BY DEF Dock
  <2> QED BY <1>3, <1>6, <2>1, PointBeside
<1>9. \A dock \in Dock : Beside(2, dock, q, -Extent2(r, dock))
  BY <1>3, <1>5, <1>6, PointBeside
<1>10. Reaches(r, q)
  BY <1>8, <1>9 DEF Reaches
<1> QED BY <1>7, <1>10 DEF m, d

(* The line is cut in the box. *)
LEMMA CutPointIs ==
  ASSUME NEW r \in Rectangle, NEW v \in Int \X Int
  PROVE  Within(r, CutPoint(r, v))
  BY CutReaches, ReachedIsWithin DEF CutPoint

(* The offset of a socket, and how far outside it is. *)
LEMMA HalfReaches ==
  ASSUME NEW r \in Rectangle, NEW i \in Int, NEW j \in Int,
         i <= r.w, -i <= r.w, j <= r.h, -j <= r.h
  PROVE  /\ Reaches(r, Point(i, j, 2))
         /\ \A dock \in Dock, a \in Int :
              Outward(dock, [x |-> i, y |-> j, d |-> 2]) = a => Beside(2, dock, Point(i, j, 2), a)
<1> DEFINE p == [x |-> i, y |-> j, d |-> 2]
           q == Point(p.x, p.y, p.d)
<1>1. p \in Fraction /\ 2 \in Numbers /\ q = Point(i, j, 2)
  BY DEF Fraction, Numbers
<1>2. p.x = i /\ p.y = j /\ p.d = 2 /\ r.w \in Int /\ r.h \in Int
  BY DEF Rectangle, Numbers
<1>3. ASSUME NEW dock \in Dock PROVE Beside(2, dock, p, -Extent2(r, dock))
  <2> HIDE DEF p
  <2> QED BY <1>2 DEF Beside, Above, Outward, Extent2, Dock
<1>4. ASSUME NEW dock \in Dock, NEW a \in Int, Outward(dock, p) = a PROVE Beside(2, dock, p, a)
  <2> HIDE DEF p
  <2> QED BY <1>2, <1>4 DEF Beside, Above
<1>5. \A dock \in Dock : -Extent2(r, dock) \in Int
  BY RectangleIs
<1> HIDE DEF p
<1>6. q \in Fraction
  <2>1. "Left" \in Dock /\ 0 \in Int
    BY DEF Dock
  <2> QED BY <1>1, <2>1, PointBeside
<1>7. \A dock \in Dock, a \in Int : Beside(2, dock, p, a) => Beside(2, dock, q, a)
  BY <1>1, PointBeside
<1> HIDE DEF q
<1>8. Reaches(r, q)
  BY <1>3, <1>5, <1>6, <1>7 DEF Reaches
<1> QED BY <1>1, <1>4, <1>7, <1>8 DEF p

(* The end of a curve at a port is in its box, on the side of the dock. *)
LEMMA SocketIs ==
  ASSUME NEW r \in Rectangle, NEW dock \in Dock
  PROVE  LET p == Socket(r, dock) IN
         /\ Within(r, p)
         /\ Beside(2, dock, p, Middle(r, dock) + Extent2(r, dock))
<1> DEFINE i == CASE dock = "Left" -> -r.w [] dock = "Top" -> 0 [] dock = "Right" -> r.w [] OTHER -> 0
           j == CASE dock = "Left" -> 0 [] dock = "Top" -> -r.h [] dock = "Right" -> 0 [] OTHER -> r.h
           v == Point(i, j, 2)
<1>1. r.w \in Nat /\ r.h \in Nat
  BY DEF Rectangle, Numbers
<1>2. i \in Int /\ j \in Int /\ i <= r.w /\ -i <= r.w /\ j <= r.h /\ -j <= r.h
  BY <1>1 DEF Dock
<1>3. Outward(dock, [x |-> i, y |-> j, d |-> 2]) = Extent2(r, dock)
  BY <1>1 DEF Outward, Extent2, Dock
<1>4. Socket(r, dock) = Moved(Centre(r), v)
  BY DEF Socket, Dock
<1> HIDE DEF i, j
<1>5. Reaches(r, v) /\ Beside(2, dock, v, Extent2(r, dock))
  <2>1. Extent2(r, dock) \in Int
    BY RectangleIs
  <2> QED BY <1>2, <1>3, <2>1, HalfReaches
<1> HIDE DEF v
<1>6. Within(r, Moved(Centre(r), v))
  BY <1>5, ReachedIsWithin
<1>7. Beside(2, dock, Moved(Centre(r), v), Middle(r, dock) + Extent2(r, dock))
  <2> DEFINE m == Middle(r, dock)
             e == Extent2(r, dock)
  <2>1. m \in Int /\ e \in Int /\ 2 \in Numbers
    BY RectangleIs DEF Numbers
  <2>2. Centre(r) \in Fraction /\ v \in Fraction /\ Beside(2, dock, Centre(r), m) /\ Beside(2, dock, v, e)
    BY <1>5, CentreIs DEF Reaches
  <2> HIDE DEF m, e
  <2>3. Beside(2, dock, Moved(Centre(r), v), m + e)
    BY <2>1, <2>2, MovedBeside
  <2> QED BY <2>3 DEF m, e
<1> QED BY <1>4, <1>6, <1>7

(* A culled end is in the box of the port, no further in than its middle. *)
LEMMA CulledIs ==
  ASSUME NEW r \in Rectangle, NEW dock \in Dock, NEW v \in Fraction
  PROVE  LET p == Culled(r, dock, v) IN
         /\ Within(r, p)
         /\ Beside(2, dock, p, Middle(r, dock))
<1> DEFINE i == IF dock \in {"Left", "Right"} THEN 0 ELSE IF v.x > 0 THEN r.w ELSE -r.w
           j == IF dock \in {"Left", "Right"} THEN IF v.y > 0 THEN r.h ELSE -r.h ELSE 0
           u == Point(i, j, 2)
<1>1. r.w \in Nat /\ r.h \in Nat
  BY DEF Rectangle, Numbers
<1>2. i \in Int /\ j \in Int /\ i <= r.w /\ -i <= r.w /\ j <= r.h /\ -j <= r.h
  BY <1>1
<1>3. Outward(dock, [x |-> i, y |-> j, d |-> 2]) = 0
  <2> DEFINE o == [x |-> i, y |-> j, d |-> 2]
  <2>1. (dock \in {"Left", "Right"} => i = 0) /\ (dock \notin {"Left", "Right"} => j = 0)
    OBVIOUS
  <2> HIDE DEF i, j
  <2>2. o.x = i /\ o.y = j /\ i \in Int /\ j \in Int
    BY <1>2
  <2> HIDE DEF o
  <2>3. Outward(dock, o) = 0
    BY <2>1, <2>2 DEF Outward, Dock
  <2> QED BY <2>3 DEF o
<1>4. Culled(r, dock, v) = Moved(Centre(r), u)
  BY DEF Culled
<1> HIDE DEF i, j
<1>5. Reaches(r, u) /\ Beside(2, dock, u, 0)
  <2>1. 0 \in Int
    OBVIOUS
  <2> QED BY <1>2, <1>3, <2>1, HalfReaches
<1> HIDE DEF u
<1>6. Within(r, Moved(Centre(r), u))
  BY <1>5, ReachedIsWithin
<1>7. Beside(2, dock, Moved(Centre(r), u), Middle(r, dock))
  <2> DEFINE m == Middle(r, dock)
  <2>1. m \in Int /\ 0 \in Int /\ 2 \in Numbers /\ m + 0 = m
    BY RectangleIs DEF Numbers
  <2>2. Centre(r) \in Fraction /\ u \in Fraction /\ Beside(2, dock, Centre(r), m) /\ Beside(2, dock, u, 0)
    BY <1>5, CentreIs DEF Reaches
  <2> HIDE DEF m
  <2>3. Beside(2, dock, Moved(Centre(r), u), m + 0)
    BY <2>1, <2>2, MovedBeside
  <2> QED BY <2>1, <2>3 DEF m
<1> QED BY <1>4, <1>6, <1>7

(* The vector from the centre of r to a point. *)
LEMMA FromCentre ==
  ASSUME NEW r \in Rectangle, NEW dock \in Dock, NEW p \in Fraction, NEW a \in Int,
         Beside(2, dock, p, Middle(r, dock) + a)
  PROVE  /\ From(Centre(r), p) \in Fraction
         /\ Beside(2, dock, From(Centre(r), p), a)
         /\ Past(2, dock, p, Middle(r, dock) + a) => Past(2, dock, From(Centre(r), p), a)
<1> DEFINE m == Middle(r, dock)
           o == Middle(r, Opposite(dock))
<1>1. m \in Int /\ o = -m /\ 2 \in Numbers /\ m + a \in Int /\ (m + a) + o = a /\ o \in Int
  BY RectangleIs DEF Numbers
<1>2. Centre(r) \in Fraction /\ Beside(2, Opposite(dock), Centre(r), o)
  BY OppositeIs, CentreIs
<1>3. Beside(2, dock, p, m + a)
  OBVIOUS
<1> HIDE DEF m, o
<1> DEFINE b == m + a
<1>4. b \in Int /\ Beside(2, dock, p, b)
  BY <1>1, <1>3
<1> HIDE DEF b
<1>5. /\ From(Centre(r), p) \in Fraction
      /\ Beside(2, dock, From(Centre(r), p), b + o)
      /\ Past(2, dock, p, b) => Past(2, dock, From(Centre(r), p), b + o)
  BY <1>1, <1>2, <1>4, FromBeside
<1> QED BY <1>1, <1>5 DEF b, m

(* Whatever correctPortPoint() does to it, an end of the line is in the box of its item. *)
LEMMA EndIsWithin ==
  ASSUME NEW r \in Rectangle, NEW dock, NEW v \in Int \X Int, NEW c \in BOOLEAN
  PROVE  Within(r, LineEnd(r, dock, v, c))
<1>1. CASE dock \notin Dock
  BY <1>1, CutPointIs DEF LineEnd
<1>2. CASE dock \in Dock
  <2> DEFINE p == CutPoint(r, v)
             u == From(Centre(r), p)
  <2>1. Within(r, p)
    BY CutPointIs
  <2>2. u \in Fraction
    <3>1. p \in Fraction /\ Beside(2, dock, p, Middle(r, dock) - Extent2(r, dock))
      BY <1>2, <2>1 DEF Within
    <3>2. -Extent2(r, dock) \in Int /\ Middle(r, dock) + (-Extent2(r, dock)) = Middle(r, dock) - Extent2(r, dock)
      BY <1>2, RectangleIs
    <3> HIDE DEF p
    <3> QED BY <1>2, <3>1, <3>2, FromCentre
  <2>3. LineEnd(r, dock, v, c) = IF c THEN Socket(r, dock)
                                 ELSE IF Outward(dock, u) < 0 THEN Culled(r, dock, u) ELSE p
    BY <1>2 DEF LineEnd, DockEnd
  <2> HIDE DEF u, p
  <2> QED BY <1>2, <2>1, <2>2, <2>3, SocketIs, CulledIs
<1> QED BY <1>1, <1>2

------------------------------------------------------------------------------
(* Items that are apart.                                                     *)

(* The way between two centres, in the direction of a dock. *)
Ahead(dock, v) ==
  CASE dock = "Left" -> -v[1] [] dock = "Top" -> -v[2] [] dock = "Right" -> v[1] [] OTHER -> v[2]

(* The way between the centres is the difference of the middles. *)
LEMMA WayIs ==
  ASSUME NEW a \in Rectangle, NEW b \in Rectangle
  PROVE  /\ Way(a, b) \in Int \X Int
         /\ \A dock \in Dock : Ahead(dock, Way(a, b)) = Middle(b, dock) - Middle(a, dock)
<1>1. /\ a.x \in Int /\ a.y \in Int /\ a.w \in Int /\ a.h \in Int
      /\ b.x \in Int /\ b.y \in Int /\ b.w \in Int /\ b.h \in Int
  BY DEF Rectangle, Numbers
<1> DEFINE v == Way(a, b)
<1>2. /\ v = <<v[1], v[2]>>
      /\ v[1] = 2 * (b.x - a.x) + b.w - a.w /\ v[2] = 2 * (b.y - a.y) + b.h - a.h
  BY DEF Way
<1> HIDE DEF v
<1>3. v[1] \in Int /\ v[2] \in Int
  BY <1>1, <1>2
<1>4. ASSUME NEW dock \in Dock PROVE Ahead(dock, v) = Middle(b, dock) - Middle(a, dock)
  <2>1. CASE dock = "Left"
    BY <1>1, <1>2, <1>3, <2>1 DEF Ahead, Middle
  <2>2. CASE dock = "Right"
    BY <1>1, <1>2, <1>3, <2>2 DEF Ahead, Middle
  <2>3. CASE dock = "Top"
    BY <1>1, <1>2, <1>3, <2>3 DEF Ahead, Middle
  <2>4. CASE dock = "Bottom"
    BY <1>1, <1>2, <1>3, <2>4 DEF Ahead, Middle
  <2> QED BY <2>1, <2>2, <2>3, <2>4 DEF Dock
<1> QED BY <1>2, <1>3, <1>4 DEF v

(* The direction in which they are. *)
Roomy(a, b, dock, gap) ==
  Middle(b, dock) - Extent2(b, dock) >= Middle(a, dock) + Extent2(a, dock) + 2 * gap

(* Two items that are apart are so in the direction of one of the docks. *)
LEMMA ApartIs ==
  ASSUME NEW a \in Rectangle, NEW b \in Rectangle, NEW gap \in Int, Apart(a, b, gap)
  PROVE  \E dock \in Dock : Roomy(a, b, dock, gap)
<1>1. /\ a.x \in Int /\ a.y \in Int /\ a.w \in Int /\ a.h \in Int
      /\ b.x \in Int /\ b.y \in Int /\ b.w \in Int /\ b.h \in Int
  BY DEF Rectangle, Numbers
<1>2. CASE a.x + a.w + gap <= b.x
  <2>1. Roomy(a, b, "Right", gap)
    BY <1>1, <1>2 DEF Roomy, Middle, Extent2
  <2> QED BY <2>1 DEF Dock
<1>3. CASE b.x + b.w + gap <= a.x
  <2>1. Roomy(a, b, "Left", gap)
    BY <1>1, <1>3 DEF Roomy, Middle, Extent2
  <2> QED BY <2>1 DEF Dock
<1>4. CASE a.y + a.h + gap <= b.y
  <2>1. Roomy(a, b, "Bottom", gap)
    BY <1>1, <1>4 DEF Roomy, Middle, Extent2
  <2> QED BY <2>1 DEF Dock
<1>5. CASE b.y + b.h + gap <= a.y
  <2>1. Roomy(a, b, "Top", gap)
    BY <1>1, <1>5 DEF Roomy, Middle, Extent2
  <2> QED BY <2>1 DEF Dock
<1> QED BY <1>2, <1>3, <1>4, <1>5 DEF Apart

(* The two parts of the way inside of the boxes, of which whole of them make  *)
(* the way: what is left of it is the room between the boxes.                 *)
LEMMA RoomLeft ==
  ASSUME NEW i \in Nat, NEW j \in Numbers, NEW k \in Nat, NEW l \in Numbers,
         NEW e \in Nat, NEW f \in Nat, NEW room \in Int, NEW s \in Nat,
         s >= e + f + room, i * s <= e * j, k * s <= f * l
  PROVE  LET whole == j * l
             left == whole - i * l - k * j
         IN whole \in Numbers /\ left \in Int /\ left * s >= room * whole
<1> DEFINE whole == j * l
           left == whole - i * l - k * j
<1>1. /\ j \in Int /\ j > 0 /\ l \in Int /\ l > 0
      /\ i \in Int /\ k \in Int /\ e \in Int /\ f \in Int /\ s \in Int
  BY DEF Numbers
<1>2. whole \in Int /\ whole > 0 /\ left \in Int
  BY <1>1, ProductGrows
<1>3. left * s = whole * s - (i * s) * l - (k * s) * j
  BY <1>1
<1>4. (i * s) * l <= (e * j) * l /\ (k * s) * j <= (f * l) * j
  <2>1. i * s \in Int /\ k * s \in Int /\ e * j \in Int /\ f * l \in Int
    BY <1>1
  <2> QED BY <1>1, <2>1, ProductGrows
<1>5. (e * j) * l = e * whole /\ (f * l) * j = f * whole
  BY <1>1
<1> HIDE DEF left
<1>6. s * whole >= (e + f + room) * whole
  <2> HIDE DEF whole
  <2> QED BY <1>1, <1>2, ProductGrows
<1>7. s * whole = whole * s /\ (e + f + room) * whole = e * whole + f * whole + room * whole
  BY <1>1
<1>8. /\ (i * s) * l \in Int /\ (k * s) * j \in Int /\ e * whole \in Int /\ f * whole \in Int
      /\ room * whole \in Int /\ whole * s \in Int
  BY <1>1, <1>2
<1>9. left * s >= room * whole
  <2> HIDE DEF whole
  <2> QED BY <1>3, <1>4, <1>5, <1>6, <1>7, <1>8
<1> QED BY <1>2, <1>9 DEF Numbers, left

(* What is asked of each of the two cuts. *)
LEMMA AheadSize ==
  ASSUME NEW dock \in Dock, NEW v \in Int \X Int, NEW r \in Rectangle, Ahead(dock, v) > 0,
         NEW t, t[1] * Size(v[1]) <= r.w * t[2], t[1] * Size(v[2]) <= r.h * t[2]
  PROVE  /\ Ahead(dock, v) \in Nat /\ (Ahead(dock, v) = Size(v[1]) \/ Ahead(dock, v) = Size(v[2]))
         /\ t[1] * Ahead(dock, v) <= Extent2(r, dock) * t[2]
<1>1. v[1] \in Int /\ v[2] \in Int
  OBVIOUS
<1>2. CASE dock = "Left"
  <2>1. Ahead(dock, v) = Size(v[1]) /\ Ahead(dock, v) \in Nat /\ Extent2(r, dock) = r.w
    BY <1>1, <1>2 DEF Ahead, Size, Extent2
  <2> QED BY <2>1
<1>3. CASE dock = "Right"
  <2>1. Ahead(dock, v) = Size(v[1]) /\ Ahead(dock, v) \in Nat /\ Extent2(r, dock) = r.w
    BY <1>1, <1>3 DEF Ahead, Size, Extent2
  <2> QED BY <2>1
<1>4. CASE dock = "Top"
  <2>1. Ahead(dock, v) = Size(v[2]) /\ Ahead(dock, v) \in Nat /\ Extent2(r, dock) = r.h
    BY <1>1, <1>4 DEF Ahead, Size, Extent2
  <2> QED BY <2>1
<1>5. CASE dock = "Bottom"
  <2>1. Ahead(dock, v) = Size(v[2]) /\ Ahead(dock, v) \in Nat /\ Extent2(r, dock) = r.h
    BY <1>1, <1>5 DEF Ahead, Size, Extent2
  <2> QED BY <2>1
<1> QED BY <1>2, <1>3, <1>4, <1>5 DEF Dock
(* The way in that direction is as long as both extents and the room between the items. *)
LEMMA RoomyWay ==
  ASSUME NEW a \in Rectangle, NEW b \in Rectangle, NEW dock \in Dock, NEW gap \in Numbers,
         Roomy(a, b, dock, gap)
  PROVE  /\ Ahead(dock, Way(a, b)) \in Int /\ Ahead(dock, Way(a, b)) > 0
         /\ Ahead(dock, Way(a, b)) >= Extent2(a, dock) + Extent2(b, dock) + 2 * gap
         /\ Way(a, b) # <<0, 0>>
<1>1. Ahead(dock, Way(a, b)) = Middle(b, dock) - Middle(a, dock)
  BY WayIs
<1>2. /\ Middle(a, dock) \in Int /\ Middle(b, dock) \in Int
      /\ Extent2(a, dock) \in Int /\ Extent2(a, dock) > 0
      /\ Extent2(b, dock) \in Int /\ Extent2(b, dock) > 0
  BY RectangleIs
<1>3. gap \in Int /\ gap > 0
  BY DEF Numbers
<1>4. Ahead(dock, Way(a, b)) \in Int /\ Ahead(dock, Way(a, b)) > 0
      /\ Ahead(dock, Way(a, b)) >= Extent2(a, dock) + Extent2(b, dock) + 2 * gap
  BY <1>1, <1>2, <1>3 DEF Roomy
<1>5. Ahead(dock, <<0, 0>>) = 0
  <2> DEFINE z == <<0, 0>>
  <2>1. z[1] = 0 /\ z[2] = 0 /\ z[1] \in Int /\ z[2] \in Int
    OBVIOUS
  <2> HIDE DEF z
  <2>2. z[1] >= 0 /\ z[1] <= 0 /\ z[2] >= 0 /\ z[2] <= 0
    BY <2>1
  <2>3. z[1] \in Int /\ z[2] \in Int
    BY <2>1
  <2>4. Ahead(dock, z) = 0
    BY <2>2, <2>3 DEF Ahead, Dock
  <2> QED BY <2>4 DEF z
<1> QED BY <1>4, <1>5

(* The parts of the way in the two boxes leave a part between them: no end is in the other box. *)
LEMMA RoomyIsNotInside ==
  ASSUME NEW a \in Rectangle, NEW b \in Rectangle, NEW dock \in Dock, NEW gap \in Numbers,
         Roomy(a, b, dock, gap)
  PROVE  ~Inside(a, b)
<1> DEFINE v == Way(a, b)
           s == Exit(a, v)
           t == Exit(b, v)
           o == Ahead(dock, v)
           e == Extent2(a, dock)
           f == Extent2(b, dock)
<1>1. v \in Int \X Int /\ v # <<0, 0>> /\ o > 0 /\ o \in Int /\ o >= e + f + 2 * gap
  BY WayIs, RoomyWay
<1>2. Inside(a, b) => s[1] * t[2] + t[1] * s[2] >= s[2] * t[2]
  BY DEF Inside
<1> HIDE DEF v
<1>3. /\ s[1] \in Numbers /\ s[2] \in Numbers
      /\ s[1] * Size(v[1]) <= a.w * s[2] /\ s[1] * Size(v[2]) <= a.h * s[2]
  BY <1>1, ExitIs
<1>4. /\ t[1] \in Numbers /\ t[2] \in Numbers
      /\ t[1] * Size(v[1]) <= b.w * t[2] /\ t[1] * Size(v[2]) <= b.h * t[2]
  BY <1>1, ExitIs
<1> HIDE DEF s, t
<1>5. o \in Nat /\ s[1] * o <= e * s[2] /\ t[1] * o <= f * t[2]
  BY <1>1, <1>3, <1>4, AheadSize
<1>6. e \in Nat /\ f \in Nat /\ gap \in Int /\ gap > 0
  BY RectangleIs DEF Numbers
<1> HIDE DEF o, e, f
<1> DEFINE i == s[1]
           j == s[2]
           k == t[1]
           l == t[2]
           whole == j * l
           left == whole - i * l - k * j
<1>7. i \in Nat /\ j \in Numbers /\ k \in Nat /\ l \in Numbers /\ i * o <= e * j /\ k * o <= f * l
  BY <1>3, <1>4, <1>5 DEF Numbers
<1>8. Inside(a, b) => i * l + k * j >= j * l
  BY <1>2
<1> HIDE DEF i, j, k, l
<1>9. 2 * gap \in Int /\ o >= e + f + 2 * gap
  BY <1>1, <1>6
<1>10. whole \in Numbers /\ left \in Int /\ left * o >= (2 * gap) * whole
  BY <1>5, <1>6, <1>7, <1>9, RoomLeft
<1>11. left > 0
  <2> HIDE DEF left, whole
  <2>1. (2 * gap) * whole > 0 /\ (2 * gap) * whole \in Int /\ left * o \in Int
    BY <1>1, <1>6, <1>10 DEF Numbers
  <2>2. left * o > 0 * o
    BY <1>1, <1>10, <2>1
  <2> QED BY <1>1, <1>10, <2>2, ProductGrows
<1>12. i * l \in Int /\ k * j \in Int /\ j * l \in Int
  BY <1>7 DEF Numbers
<1> QED BY <1>8, <1>11, <1>12

(* What remains of a product when both sides are divided. *)
LEMMA ReducedBound ==
  ASSUME NEW g \in Numbers, NEW left \in Int, NEW whole \in Numbers, NEW s \in Nat, NEW gap \in Numbers,
         Divides(g, Size(left)), Divides(g, whole), left * s >= (2 * gap) * whole
  PROVE  LET x == (left \div g) * s
             limit == 2 * (whole \div g) * gap
         IN x \in Int /\ limit \in Int /\ x >= limit
<1> DEFINE l == left \div g
           w == whole \div g
<1>1. g \in Int /\ g > 0 /\ gap \in Int /\ whole \in Int /\ whole > 0 /\ s \in Int
  BY DEF Numbers
<1>2. l \in Int /\ left = g * l
  BY DividedSize
<1>3. w \in Int /\ whole = g * w
  <2>1. Size(whole) = whole
    BY <1>1 DEF Size
  <2> QED BY <1>1, <2>1, DividedSize
<1> HIDE DEF l, w
<1>4. l * s \in Int /\ 2 * w * gap \in Int
  BY <1>1, <1>2, <1>3
<1>5. (g * l) * s = (l * s) * g /\ (2 * gap) * (g * w) = (2 * w * gap) * g
  BY <1>1, <1>2, <1>3
<1>6. (l * s) * g >= (2 * w * gap) * g
  BY <1>2, <1>3, <1>5
<1>7. l * s >= 2 * w * gap
  <2> DEFINE x == l * s
             m == 2 * w * gap
  <2>1. x \in Int /\ m \in Int /\ x * g >= m * g
    BY <1>4, <1>6
  <2> HIDE DEF x, m
  <2>2. x >= m
    BY <1>1, <2>1, ProductGrows
  <2> QED BY <2>2 DEF x, m
<1> QED BY <1>4, <1>7 DEF l, w

(* What the cuts leave of the way is long enough for the arrow. *)
LEMMA RoomyIsNotShort ==
  ASSUME NEW a \in Rectangle, NEW b \in Rectangle, NEW dock \in Dock, NEW length \in Nat,
         Roomy(a, b, dock, 2 + 3 * length)
  PROVE  ~TooShort(a, b, length)
<1> DEFINE gap == 2 + 3 * length
           v == Way(a, b)
           s == Cut(a, v)
           t == Cut(b, v)
           o == Ahead(dock, v)
           e == Extent2(a, dock)
           f == Extent2(b, dock)
<1>1. gap \in Numbers
  BY DEF Numbers
<1>2. v \in Int \X Int /\ o > 0 /\ o \in Int /\ o >= e + f + 2 * gap
  <2>1. Roomy(a, b, dock, gap)
    OBVIOUS
  <2> HIDE DEF gap
  <2> QED BY <1>1, <2>1, WayIs, RoomyWay
<1> DEFINE whole == s[2] * t[2]
           left == whole - s[1] * t[2] - t[1] * s[2]
           g == Gcd[<<Size(left), whole>>]
           limit == 2 * (whole \div g) * gap
<1>3. TooShort(a, b, length) =>
        Size((left \div g) * Size(v[1])) < limit /\ Size((left \div g) * Size(v[2])) < limit
  BY DEF TooShort
<1> HIDE DEF gap, v
<1>4. /\ s[1] \in Nat /\ s[2] \in Numbers
      /\ s[1] * Size(v[1]) <= a.w * s[2] /\ s[1] * Size(v[2]) <= a.h * s[2]
  BY <1>2, CutIs
<1>5. /\ t[1] \in Nat /\ t[2] \in Numbers
      /\ t[1] * Size(v[1]) <= b.w * t[2] /\ t[1] * Size(v[2]) <= b.h * t[2]
  BY <1>2, CutIs
<1> HIDE DEF s, t
<1>6. o \in Nat /\ (o = Size(v[1]) \/ o = Size(v[2])) /\ s[1] * o <= e * s[2] /\ t[1] * o <= f * t[2]
  BY <1>2, <1>4, <1>5, AheadSize
<1>7. e \in Nat /\ f \in Nat /\ 2 * gap \in Int
  BY <1>1, RectangleIs DEF Numbers
<1> HIDE DEF o, e, f
<1>8. whole \in Numbers /\ left \in Int /\ left * o >= (2 * gap) * whole
  <2> DEFINE i == s[1]
             j == s[2]
             k == t[1]
             l == t[2]
  <2>1. i \in Nat /\ j \in Numbers /\ k \in Nat /\ l \in Numbers /\ i * o <= e * j /\ k * o <= f * l
    BY <1>4, <1>5, <1>6
  <2>2. whole = j * l /\ left = j * l - i * l - k * j
    OBVIOUS
  <2> HIDE DEF i, j, k, l, whole, left
  <2>3. o >= e + f + 2 * gap
    BY <1>2
  <2> QED BY <1>6, <1>7, <2>1, <2>2, <2>3, RoomLeft
<1> HIDE DEF whole, left
<1>9. g \in Numbers /\ Divides(g, Size(left)) /\ Divides(g, whole)
  <2>1. Size(left) \in Nat /\ whole \in Nat /\ whole # 0
    BY <1>8, SizeIs DEF Numbers
  <2> QED BY <2>1, GcdDivides
<1> HIDE DEF g
<1>10. (left \div g) * o \in Int /\ limit \in Int /\ (left \div g) * o >= limit
  BY <1>1, <1>6, <1>8, <1>9, ReducedBound
<1> DEFINE x == (left \div g) * o
<1>11. Size(x) >= limit
  <2>1. x \in Int /\ limit \in Int /\ x >= limit
    BY <1>10
  <2> HIDE DEF x, limit
  <2>2. Size(x) \in Int /\ Size(x) >= x
    BY <2>1 DEF Size
  <2> QED BY <2>1, <2>2
<1>12. ~(Size(x) < limit)
  <2>1. Size(x) \in Int
    BY <1>10, SizeIs
  <2>2. limit \in Int
    BY <1>10
  <2> HIDE DEF x, limit
  <2> QED BY <1>11, <2>1, <2>2
<1> HIDE DEF limit
<1> QED BY <1>3, <1>6, <1>12

(* The ends of the line are as far apart as the items. *)
LEMMA RoomyEnds ==
  ASSUME NEW a \in Rectangle, NEW b \in Rectangle, NEW dock \in Dock, NEW gap \in Numbers,
         Roomy(a, b, dock, gap), NEW p, NEW q, Within(a, p), Within(b, q)
  PROVE  From(p, q) \in Fraction /\ Outward(dock, From(p, q)) >= gap * From(p, q).d
<1> DEFINE i == Middle(b, dock) - Extent2(b, dock)
           k == Middle(a, Opposite(dock)) - Extent2(a, Opposite(dock))
           v == From(p, q)
<1>1. /\ Middle(a, dock) \in Int /\ Middle(b, dock) \in Int
      /\ Extent2(a, dock) \in Int /\ Extent2(b, dock) \in Int
      /\ Middle(a, Opposite(dock)) = -Middle(a, dock)
      /\ Extent2(a, Opposite(dock)) = Extent2(a, dock)
  BY RectangleIs
<1>2. 2 \in Numbers /\ gap \in Int /\ gap > 0
  BY DEF Numbers
<1>3. i \in Int /\ k \in Int /\ i + k >= 2 * gap
  BY <1>1, <1>2 DEF Roomy
<1>4. p \in Fraction /\ q \in Fraction /\ Beside(2, dock, q, i) /\ Beside(2, Opposite(dock), p, k)
  BY OppositeIs DEF Within
<1> HIDE DEF i, k
<1>5. v \in Fraction /\ Beside(2, dock, v, i + k)
  BY <1>2, <1>3, <1>4, FromBeside
<1> HIDE DEF v
<1>6. Outward(dock, v) \in Int /\ v.d \in Int /\ v.d > 0
  BY <1>5, OutwardType DEF Numbers
<1>7. 2 * Outward(dock, v) >= (i + k) * v.d
  BY <1>5 DEF Beside, Above
<1>8. (i + k) * v.d >= (2 * gap) * v.d /\ (i + k) * v.d \in Int
  <2>1. i + k \in Int /\ 2 * gap \in Int
    BY <1>2, <1>3
  <2> DEFINE n == i + k
             m == 2 * gap
  <2>2. n \in Int /\ m \in Int /\ m <= n
    BY <1>3, <2>1
  <2> HIDE DEF n, m
  <2>3. m * v.d <= n * v.d /\ n * v.d \in Int
    BY <1>6, <2>2, ProductGrows, ProductType
  <2> QED BY <2>3 DEF n, m
<1>9. (2 * gap) * v.d = 2 * (gap * v.d) /\ gap * v.d \in Int
  BY <1>2, <1>6
<1>10. Outward(dock, v) >= gap * v.d
  BY <1>6, <1>7, <1>8, <1>9
<1> QED BY <1>5, <1>10 DEF v
------------------------------------------------------------------------------
(* Curves at ports.                                                          *)

(* An end at a port is not on the inner side of its centre, and a curve ends in the socket. *)
LEMMA EndOutside ==
  ASSUME NEW r \in Rectangle, NEW dock \in Dock, NEW v \in Int \X Int, NEW c \in BOOLEAN
  PROVE  /\ Outward(dock, From(Centre(r), LineEnd(r, dock, v, c))) >= 0
         /\ c => LineEnd(r, dock, v, c) = Socket(r, dock)
<1> DEFINE p == CutPoint(r, v)
           u == From(Centre(r), p)
<1>1. ASSUME NEW q \in Fraction, NEW a \in Nat, Beside(2, dock, q, Middle(r, dock) + a)
      PROVE  From(Centre(r), q) \in Fraction /\ Outward(dock, From(Centre(r), q)) >= 0
  <2> DEFINE w == From(Centre(r), q)
  <2>1. w \in Fraction /\ Beside(2, dock, w, a)
    BY <1>1, FromCentre
  <2> HIDE DEF w
  <2>2. Outward(dock, w) \in Int /\ w.d \in Int /\ w.d > 0
    BY <2>1, OutwardType DEF Numbers
  <2>3. 2 * Outward(dock, w) >= a * w.d
    BY <2>1 DEF Beside, Above
  <2>4. a * w.d \in Int /\ a * w.d >= 0
    BY <2>2, ProductGrows
  <2>5. Outward(dock, w) >= 0
    BY <2>2, <2>3, <2>4
  <2> QED BY <2>1, <2>5 DEF w
<1>2. Within(r, p)
  BY CutPointIs
<1>3. Middle(r, dock) \in Int /\ Extent2(r, dock) \in Nat
  BY RectangleIs
<1>4. u \in Fraction
  <2>1. p \in Fraction /\ Beside(2, dock, p, Middle(r, dock) - Extent2(r, dock))
    BY <1>2 DEF Within
  <2>2. -Extent2(r, dock) \in Int /\ Middle(r, dock) + (-Extent2(r, dock)) = Middle(r, dock) - Extent2(r, dock)
    BY <1>3
  <2> HIDE DEF p
  <2> QED BY <2>1, <2>2, FromCentre
<1>5. LineEnd(r, dock, v, c) = IF c THEN Socket(r, dock)
                               ELSE IF Outward(dock, u) < 0 THEN Culled(r, dock, u) ELSE p
  BY DEF LineEnd, DockEnd
<1>6. CASE c
  <2>1. Within(r, Socket(r, dock)) /\ Beside(2, dock, Socket(r, dock), Middle(r, dock) + Extent2(r, dock))
    BY SocketIs
  <2>2. Outward(dock, From(Centre(r), Socket(r, dock))) >= 0
    BY <1>1, <1>3, <2>1 DEF Within
  <2> QED BY <1>5, <1>6, <2>2
<1>7. CASE ~c /\ Outward(dock, u) < 0
  <2>1. Within(r, Culled(r, dock, u)) /\ Beside(2, dock, Culled(r, dock, u), Middle(r, dock))
    BY <1>4, CulledIs
  <2>2. 0 \in Nat /\ Middle(r, dock) + 0 = Middle(r, dock)
    BY <1>3
  <2>3. Outward(dock, From(Centre(r), Culled(r, dock, u))) >= 0
    <3> DEFINE q == Culled(r, dock, u)
    <3>1. q \in Fraction /\ Beside(2, dock, q, Middle(r, dock) + 0)
      BY <2>1, <2>2 DEF Within
    <3> HIDE DEF q
    <3>2. Outward(dock, From(Centre(r), q)) >= 0
      BY <1>1, <2>2, <3>1
    <3> QED BY <3>2 DEF q
  <2> QED BY <1>5, <1>7, <2>3
<1>8. CASE ~c /\ ~(Outward(dock, u) < 0)
  <2>1. Outward(dock, u) \in Int
    BY <1>4, OutwardType
  <2>2. Outward(dock, u) >= 0
    BY <1>8, <2>1
  <2> QED BY <1>5, <1>8, <2>2
<1> QED BY <1>6, <1>7, <1>8

(* 10 at least, of a distance which is no negative fraction. *)
LEMMA OffsetIs ==
  ASSUME NEW n \in Nat, NEW d \in Numbers
  PROVE  LET o == Offset(<<n, d>>)
         IN o[1] \in Nat /\ o[2] \in Numbers /\ 2 * o[1] >= 20 * o[2]
<1> DEFINE o == Offset(<<n, d>>)
<1>1. d \in Int /\ d > 0
  BY DEF Numbers
<1>2. o = IF n < 25 * d THEN <<10, 1>> ELSE IF n > 100 * d THEN <<40, 1>> ELSE <<2 * n, 5 * d>>
  BY DEF Offset
<1> HIDE DEF o
<1>3. CASE n < 25 * d
  <2>1. o[1] = 10 /\ o[2] = 1
    BY <1>2, <1>3
  <2> QED BY <2>1 DEF Numbers, o
<1>4. CASE ~(n < 25 * d) /\ n > 100 * d
  <2>1. o[1] = 40 /\ o[2] = 1
    BY <1>2, <1>4
  <2> QED BY <2>1 DEF Numbers, o
<1>5. CASE ~(n < 25 * d) /\ ~(n > 100 * d)
  <2>1. o[1] = 2 * n /\ o[2] = 5 * d
    BY <1>2, <1>5
  <2> QED BY <1>1, <1>5, <2>1 DEF Numbers, o
<1> QED BY <1>3, <1>4, <1>5

(* A vector of one coordinate. *)
LEMMA FlatPoint ==
  ASSUME NEW n \in Int, NEW d \in Numbers
  PROVE  Point(n, 0, d) \in Fraction /\ Point(n, 0, d).y = 0
<1> DEFINE p == Point(n, 0, d)
<1>1. PICK k \in Numbers : p \in Fraction /\ 0 = k * p.y
  BY PointIs
<1> HIDE DEF p
<1>2. p.y \in Int /\ k \in Int /\ k > 0
  BY <1>1 DEF Fraction, Numbers
<1>3. p.y = 0
  <2> DEFINE y == p.y
  <2>1. y \in Int /\ 0 = k * y
    BY <1>1, <1>2
  <2> HIDE DEF y
  <2>2. (y < 0 => y * k < 0 * k) /\ (0 < y => 0 * k < y * k)
    BY <1>2, <2>1, ProductGrows
  <2>3. y = 0
    BY <1>2, <2>1, <2>2
  <2> QED BY <2>3 DEF y
<1> QED BY <1>1, <1>3 DEF p

(* The correction is a number along the side. *)
LEMMA CorrectionIs ==
  ASSUME NEW table, \A i \in DOMAIN table : \A j \in DOMAIN table[i] : table[i][j] \in Int,
         NEW i, NEW j, NEW n \in Int, NEW m \in Int, NEW d \in Numbers, NEW limit \in Nat
  PROVE  LET p == Correction(table, i, j, <<n, d>>, limit, <<m, d>>)
         IN p \in Fraction /\ p.y = 0
<1> DEFINE p == Correction(table, i, j, <<n, d>>, limit, <<m, d>>)
           sign == IF n < 0 THEN -1 ELSE 1
           c == IF Size(n) < limit * d THEN 3 * limit * d - 2 * Size(n) ELSE limit * d
           s == IF m > 100 * d THEN 100 * d ELSE IF m < -100 * d THEN -100 * d ELSE m
<1>1. d \in Int /\ d > 0 /\ 100 * d * d \in Int /\ 100 * d * d > 0
  <2>1. d \in Int /\ d > 0
    BY DEF Numbers
  <2>2. d * d > 0 * d /\ d * d \in Int
    BY <2>1, ProductGrows, ProductType
  <2>3. 100 * d * d = 100 * (d * d)
    BY <2>1
  <2> QED BY <2>1, <2>2, <2>3
<1>2. sign \in Int /\ c \in Int /\ s \in Int
  BY <1>1, SizeIs
<1>3. p = IF i \in DOMAIN table /\ j \in DOMAIN table[i]
          THEN Point(sign * table[i][j] * c * s, 0, 100 * d * d) ELSE Point(0, 0, 1)
  BY DEF Correction
<1> HIDE DEF p, sign, c, s
<1>4. CASE i \in DOMAIN table /\ j \in DOMAIN table[i]
  <2> DEFINE k == table[i][j]
             e == sign * k * c * s
             f == 100 * d * d
  <2>1. k \in Int
    BY <1>4
  <2> HIDE DEF k
  <2>2. e \in Int /\ f \in Numbers
    BY <1>1, <1>2, <2>1 DEF Numbers
  <2>3. p = Point(e, 0, f)
    BY <1>3, <1>4 DEF k
  <2> HIDE DEF e, f
  <2> QED BY <2>2, <2>3, FlatPoint DEF p
<1>5. CASE ~(i \in DOMAIN table /\ j \in DOMAIN table[i])
  <2>1. 0 \in Int /\ 1 \in Numbers
    BY DEF Numbers
  <2>2. p = Point(0, 0, 1)
    BY <1>3, <1>5
  <2> QED BY <2>1, <2>2, FlatPoint DEF p
<1> QED BY <1>4, <1>5

(* The corrections of all pairs of docks are numbers. *)
LEMMA TablesAre ==
  /\ \A i \in DOMAIN XCorrect : \A j \in DOMAIN XCorrect[i] : XCorrect[i][j] \in Int
  /\ \A i \in DOMAIN YCorrect : \A j \in DOMAIN YCorrect[i] : YCorrect[i][j] \in Int
  BY DEF XCorrect, YCorrect
(* A control point is further outside than its end, by 10. *)
LEMMA LeavingIs ==
  ASSUME NEW dock \in Dock, NEW p \in Fraction, NEW v \in Fraction, NEW f, NEW t, NEW a \in Int,
         Beside(2, dock, p, a)
  PROVE  /\ Leaving(p, dock, f, t, v) \in Fraction
         /\ Beside(2, dock, Leaving(p, dock, f, t, v), a + 20)
<1> DEFINE xo == Offset(<<Size(v.x), v.d>>)
           yo == Offset(<<Size(v.y), v.d>>)
           xc == Correction(XCorrect, f, t, <<v.x, v.d>>, 100, <<v.y, v.d>>)
           yc == Correction(YCorrect, f, t, <<v.y, v.d>>, 50, <<v.x, v.d>>)
           across == CASE dock = "Left" -> Point(-xo[1], 0, xo[2]) [] dock = "Right" -> Point(xo[1], 0, xo[2])
                       [] dock = "Top" -> Point(0, -yo[1], yo[2]) [] OTHER -> Point(0, yo[1], yo[2])
           along == IF dock \in {"Left", "Right"} THEN Point(0, yc.x, yc.d) ELSE xc
<1>1. v.x \in Int /\ v.y \in Int /\ v.d \in Numbers /\ Size(v.x) \in Nat /\ Size(v.y) \in Nat
  BY SizeIs DEF Fraction
<1>2. /\ xo[1] \in Nat /\ xo[2] \in Numbers /\ 2 * xo[1] >= 20 * xo[2]
      /\ yo[1] \in Nat /\ yo[2] \in Numbers /\ 2 * yo[1] >= 20 * yo[2]
  BY <1>1, OffsetIs
<1>3. xc \in Fraction /\ xc.y = 0 /\ yc \in Fraction
  <2>1. 100 \in Nat /\ 50 \in Nat
    OBVIOUS
  <2> QED BY <1>1, <2>1, TablesAre, CorrectionIs
<1>4. Leaving(p, dock, f, t, v) = Moved(Moved(p, across), along)
  BY DEF Leaving
<1> HIDE DEF xo, yo, xc, yc
<1>5. 2 \in Numbers /\ 20 \in Int /\ 0 \in Int /\ a + 20 \in Int /\ (a + 20) + 0 = a + 20
  BY DEF Numbers
<1>6. ASSUME NEW x \in Int, NEW y \in Int, NEW d \in Numbers, NEW b \in Int,
             2 * (CASE dock = "Left" -> -x [] dock = "Top" -> -y [] dock = "Right" -> x [] OTHER -> y) >= b * d
      PROVE  Point(x, y, d) \in Fraction /\ Beside(2, dock, Point(x, y, d), b)
  <2> DEFINE q == [x |-> x, y |-> y, d |-> d]
  <2>1. q \in Fraction /\ q.x = x /\ q.y = y /\ q.d = d
    BY DEF Fraction
  <2> HIDE DEF q
  <2>2. Outward(dock, q) =
          CASE dock = "Left" -> -x [] dock = "Top" -> -y [] dock = "Right" -> x [] OTHER -> y
    BY <2>1 DEF Outward
  <2>3. Beside(2, dock, q, b)
    BY <1>6, <2>1, <2>2 DEF Beside, Above
  <2> QED BY <1>5, <2>1, <2>3, PointBeside
<1>7. across \in Fraction /\ Beside(2, dock, across, 20)
  <2>1. /\ xo[1] \in Int /\ -xo[1] \in Int /\ -(-xo[1]) = xo[1]
        /\ yo[1] \in Int /\ -yo[1] \in Int /\ -(-yo[1]) = yo[1]
    BY <1>2
  <2>2. CASE dock = "Left"
    <3>1. across = Point(-xo[1], 0, xo[2])
      BY <2>2
    <3> HIDE DEF across
    <3> QED BY <1>2, <1>5, <1>6, <2>1, <2>2, <3>1
  <2>3. CASE dock = "Right"
    <3>1. across = Point(xo[1], 0, xo[2])
      BY <2>3
    <3> HIDE DEF across
    <3> QED BY <1>2, <1>5, <1>6, <2>1, <2>3, <3>1
  <2>4. CASE dock = "Top"
    <3>1. across = Point(0, -yo[1], yo[2])
      BY <2>4
    <3> HIDE DEF across
    <3> QED BY <1>2, <1>5, <1>6, <2>1, <2>4, <3>1
  <2>5. CASE dock = "Bottom"
    <3>1. across = Point(0, yo[1], yo[2])
      BY <2>5
    <3> HIDE DEF across
    <3> QED BY <1>2, <1>5, <1>6, <2>1, <2>5, <3>1
  <2> QED BY <2>2, <2>3, <2>4, <2>5 DEF Dock
<1>8. along \in Fraction /\ Beside(2, dock, along, 0)
  <2>1. yc.x \in Int /\ yc.d \in Numbers
    BY <1>3 DEF Fraction
  <2>2. CASE dock \in {"Left", "Right"}
    <3> DEFINE q == [x |-> 0, y |-> yc.x, d |-> yc.d]
    <3>1. q \in Fraction /\ q.x = 0 /\ q.d \in Int
      BY <2>1 DEF Fraction, Numbers
    <3>2. along = Point(q.x, q.y, q.d)
      BY <2>2
    <3> HIDE DEF q, along
    <3>3. Outward(dock, q) >= 0 /\ Outward(dock, q) \in Int
      <4>1. q.x >= 0 /\ q.x <= 0 /\ q.x \in Int
        BY <3>1
      <4> QED BY <2>2, <4>1 DEF Outward
    <3>4. Beside(2, dock, q, 0)
      <4>1. 0 * q.d = 0
        BY <3>1
      <4> QED BY <3>3, <4>1 DEF Beside, Above
    <3> QED BY <1>5, <3>1, <3>2, <3>4, PointBeside
  <2>3. CASE dock \notin {"Left", "Right"}
    <3>1. along = xc
      BY <2>3
    <3>2. xc.y >= 0 /\ xc.y <= 0 /\ xc.y \in Int /\ xc.d \in Int
      BY <1>3 DEF Fraction, Numbers
    <3>3. Outward(dock, xc) >= 0 /\ Outward(dock, xc) \in Int
      BY <2>3, <3>2 DEF Outward, Dock
    <3>4. Beside(2, dock, xc, 0)
      <4>1. 0 * xc.d = 0
        BY <3>2
      <4> QED BY <3>3, <4>1 DEF Beside, Above
    <3> QED BY <1>3, <3>1, <3>4
  <2> QED BY <2>2, <2>3
<1> HIDE DEF across, along
<1>9. Moved(p, across) \in Fraction /\ Beside(2, dock, Moved(p, across), a + 20)
  BY <1>5, <1>7, MovedBeside
<1> DEFINE q == Moved(p, across)
           b == a + 20
<1>10. q \in Fraction /\ b \in Int /\ Beside(2, dock, q, b) /\ b + 0 = b
  BY <1>5, <1>9
<1> HIDE DEF b
<1>11. Moved(q, along) \in Fraction /\ Beside(2, dock, Moved(q, along), b + 0)
  <2> HIDE DEF q
  <2> QED BY <1>5, <1>8, <1>10, MovedBeside
<1> QED BY <1>4, <1>10, <1>11 DEF b, q

(* What is cut at the border of r on the way to a point outside is outside. *)
LEMMA BorderedIs ==
  ASSUME NEW r \in Rectangle, NEW dock \in Dock, NEW c \in Fraction, NEW a \in Int, a > 0,
         Beside(2, dock, c, Middle(r, dock) + a)
  PROVE  Outward(dock, From(Centre(r), Bordered(r, c))) > 0
<1> DEFINE v == From(Centre(r), c)
           box == [r EXCEPT !.w = @ * v.d, !.h = @ * v.d]
           way == <<2 * v.x, 2 * v.y>>
           t == Exit(box, way)
           q == Times(t, v)
           m == Middle(r, dock)
<1>1. v \in Fraction /\ Beside(2, dock, v, a)
  BY FromCentre
<1>2. Bordered(r, c) = IF t[1] >= t[2] THEN c ELSE Moved(Centre(r), q)
  BY DEF Bordered
<1>3. m \in Int /\ Centre(r) \in Fraction /\ Beside(2, dock, Centre(r), m) /\ 2 \in Numbers
  BY RectangleIs, CentreIs DEF Numbers
<1> HIDE DEF m
<1>4. ASSUME NEW w \in Fraction, 2 * Outward(dock, w) > 0
      PROVE  Outward(dock, w) > 0
  <2>1. Outward(dock, w) \in Int
    BY OutwardType
  <2> QED BY <1>4, <2>1
<1>5. 2 * Outward(dock, v) > 0
  <2> HIDE DEF v
  <2>1. 2 * Outward(dock, v) >= a * v.d /\ Outward(dock, v) \in Int /\ v.d \in Int /\ v.d > 0
    BY <1>1, OutwardType DEF Beside, Above, Numbers
  <2>2. a * v.d > 0 * v.d /\ a * v.d \in Int /\ 0 * v.d = 0
    BY <2>1, ProductGrows, ProductType
  <2> QED BY <2>1, <2>2
<1>6. CASE t[1] >= t[2]
  BY <1>1, <1>2, <1>4, <1>5, <1>6
<1>7. CASE ~(t[1] >= t[2])
  <2> HIDE DEF v
  <2>1. v.x \in Int /\ v.y \in Int /\ v.d \in Int /\ v.d > 0
    BY <1>1 DEF Fraction, Numbers
  <2>2. box \in Rectangle
    <3>1. /\ r.x \in Int /\ r.y \in Int /\ r.w \in Int /\ r.w > 0 /\ r.h \in Int /\ r.h > 0
      BY DEF Rectangle, Numbers
    <3>2. r.w * v.d \in Numbers /\ r.h * v.d \in Numbers
      BY <2>1, <3>1, ProductGrows DEF Numbers
    <3>3. \A i, j \in Numbers : [r EXCEPT !.w = i, !.h = j] \in Rectangle
      BY DEF Rectangle
    <3>4. box = [r EXCEPT !.w = r.w * v.d, !.h = r.h * v.d]
      BY DEF Rectangle
    <3> QED BY <3>2, <3>3, <3>4
  <2>3. Outward(dock, v) > 0
    BY <1>1, <1>4, <1>5
  <2>4. v.x # 0 \/ v.y # 0
    <3> SUFFICES ASSUME v.x = 0, v.y = 0 PROVE FALSE
      OBVIOUS
    <3>1. v.x >= 0 /\ v.x <= 0 /\ v.y >= 0 /\ v.y <= 0
      OBVIOUS
    <3> QED BY <2>1, <2>3, <3>1 DEF Outward, Dock
  <2>5. way \in Int \X Int /\ way # <<0, 0>>
    <3>1. 2 * v.x \in Int /\ 2 * v.y \in Int /\ (2 * v.x # 0 \/ 2 * v.y # 0)
      BY <2>1, <2>4
    <3> QED BY <3>1
  <2> HIDE DEF box, way
  <2>6. t[1] \in Numbers /\ t[2] \in Numbers
    BY <2>2, <2>5, ExitIs
  <2> HIDE DEF t
  <2> DEFINE w == [x |-> t[1] * v.x, y |-> t[1] * v.y, d |-> t[2] * v.d]
  <2>7. t[1] \in Int /\ t[1] > 0 /\ t[2] \in Int /\ t[2] > 0
    BY <2>6 DEF Numbers
  <2>8. w \in Fraction /\ w.x = t[1] * v.x /\ w.y = t[1] * v.y /\ w.d \in Int
    <3>1. t[2] * v.d \in Int /\ t[2] * v.d > 0
      BY <2>1, <2>7, ProductGrows
    <3> QED BY <2>1, <2>7, <3>1 DEF Fraction, Numbers
  <2>9. q = Point(w.x, w.y, w.d)
    BY DEF Times
  <2> HIDE DEF w, q
  <2>10. Outward(dock, w) = t[1] * Outward(dock, v)
    <3>1. -(t[1] * v.x) = t[1] * (-v.x) /\ -(t[1] * v.y) = t[1] * (-v.y)
      BY <2>1, <2>7
    <3> QED BY <2>8, <3>1 DEF Outward
  <2>11. Outward(dock, w) > 0 /\ Outward(dock, w) \in Int
    <3>1. Outward(dock, v) \in Int
      BY <1>1, OutwardType
    <3>2. t[1] * Outward(dock, v) > 0
      BY <2>3, <2>7, <3>1, ProductGrows
    <3>3. t[1] * Outward(dock, v) \in Int
      BY <2>7, <3>1
    <3> QED BY <2>10, <3>2, <3>3
  <2>12. 0 \in Int /\ 0 * w.d = 0 /\ m + 0 = m /\ m + 0 \in Int
    BY <1>3, <2>8
  <2>13. Past(2, dock, w, 0) /\ Beside(2, dock, w, 0)
    BY <2>11, <2>12 DEF Past, Beyond, Beside, Above
  <2>14. q \in Fraction /\ Past(2, dock, q, 0) /\ Beside(2, dock, q, 0)
    BY <1>3, <2>8, <2>9, <2>12, <2>13, PointBeside
  <2> DEFINE e == Moved(Centre(r), q)
  <2>15. e \in Fraction /\ Beside(2, dock, e, m + 0) /\ Past(2, dock, e, m + 0)
    BY <1>3, <2>12, <2>14, MovedBeside
  <2> HIDE DEF e
  <2> DEFINE u == From(Centre(r), e)
  <2>16. u \in Fraction /\ Past(2, dock, u, 0)
    BY <2>12, <2>15, FromCentre DEF m
  <2> HIDE DEF u
  <2>17. Outward(dock, u) > 0
    <3>1. u.d \in Int /\ Outward(dock, u) \in Int
      BY <2>16, OutwardType DEF Numbers
    <3>2. 0 * u.d = 0
      BY <3>1
    <3> QED BY <1>4, <2>16, <3>2 DEF Past, Beyond
  <2>18. Bordered(r, c) = e
    BY <1>2, <1>7 DEF e
  <2> QED BY <2>17, <2>18 DEF u
<1> QED BY <1>6, <1>7
------------------------------------------------------------------------------
(* The edges of QanEdgeLine.                                                 *)

(* What stays true of its states. *)
Drawn ==
  /\ source \in Rectangle /\ destination \in Rectangle
  /\ from \in Dock \cup {"none"} /\ to \in Dock \cup {"none"}
  /\ curved \in BOOLEAN

(* Every update leaves items with a size and docks that exist. *)
LEMMA DrawnIsInductive ==
  /\ LineInit => Drawn
  /\ Drawn /\ [LineNext]_line_vars => Drawn'
<1>1. ASSUME LineInit PROVE Drawn
  <2>1. PICK s \in Faces, at \in Afar, u \in Faces : source = Box(<<0, 0>>, s) /\ destination = Box(at, u)
    BY <1>1 DEF LineInit
  <2>2. s \in Numbers \X Numbers /\ u \in Numbers \X Numbers /\ at \in Int \X Int
    BY <2>1, LineAssumption DEF Numbers
  <2>3. ASSUME NEW p \in Int \X Int, NEW z \in Numbers \X Numbers PROVE Box(p, z) \in Rectangle
    BY DEF Box, Rectangle
  <2>4. <<0, 0>> \in Int \X Int
    OBVIOUS
  <2>5. source \in Rectangle /\ destination \in Rectangle
    BY <2>1, <2>2, <2>3, <2>4
  <2> QED BY <1>1, <2>5 DEF LineInit, Drawn
<1>2. ASSUME Drawn, [LineNext]_line_vars PROVE Drawn'
  <2>1. ASSUME NEW dock \in Dock, SetSourceItem(dock) PROVE Drawn'
    BY <1>2, <2>1 DEF SetSourceItem, Drawn
  <2>2. ASSUME NEW dock \in Dock, SetDestinationItem(dock) PROVE Drawn'
    BY <1>2, <2>2 DEF SetDestinationItem, Drawn
  <2>3. CASE SetLineType
    BY <1>2, <2>3 DEF SetLineType, Drawn
  <2>4. CASE UNCHANGED line_vars
    BY <1>2, <2>4 DEF line_vars, Drawn
  <2> QED BY <1>2, <2>1, <2>2, <2>3, <2>4 DEF LineNext
<1> QED BY <1>1, <1>2

(* Every edge item is one between two rectangles, whatever the calls that
   changed its ends and its style: what the two theorems below start from. *)
THEOREM AlwaysDrawn == LineSpec => []Drawn
<1> QED BY DrawnIsInductive, PTL DEF LineSpec

(* Its way, its ends and its line. *)
LEMMA LineIs ==
  ASSUME Drawn
  PROVE  /\ Way(source, destination) \in Int \X Int /\ Way(destination, source) \in Int \X Int
         /\ Within(source, P1) /\ Within(destination, P2) /\ Line \in Fraction
<1>1. source \in Rectangle /\ destination \in Rectangle /\ curved \in BOOLEAN
  BY DEF Drawn
<1>2. Way(source, destination) \in Int \X Int /\ Way(destination, source) \in Int \X Int
  BY <1>1, WayIs
<1>3. Within(source, P1) /\ Within(destination, P2)
  BY <1>1, <1>2, EndIsWithin DEF P1, P2
<1>4. Line \in Fraction
  <2> DEFINE dock == "Left"
             b == Middle(destination, dock) - Extent2(destination, dock)
             a == Middle(source, Opposite(dock)) - Extent2(source, Opposite(dock))
  <2>1. dock \in Dock /\ 2 \in Numbers
    BY DEF Dock, Numbers
  <2> HIDE DEF dock
  <2>2. Opposite(dock) \in Dock
    BY <2>1, OppositeIs
  <2>3. a \in Int /\ b \in Int
    BY <1>1, <2>1, <2>2, RectangleIs
  <2>4. /\ P1 \in Fraction /\ P2 \in Fraction
        /\ Beside(2, dock, P2, b) /\ Beside(2, Opposite(dock), P1, a)
    BY <1>3, <2>1, <2>2 DEF Within
  <2> HIDE DEF a, b
  <2> QED BY <2>1, <2>3, <2>4, FromBeside DEF Line
<1> QED BY <1>2, <1>3, <1>4

(* What is drawn between items that are apart fits between them. *)
LEMMA DrawnFits ==
  ASSUME Drawn
  PROVE  EndsFit
<1> DEFINE gap == 2 + 3 * ArrowSize
<1>1. ArrowSize \in Nat /\ gap \in Numbers /\ gap \in Int
  BY LineAssumption DEF Numbers
<1>2. source \in Rectangle /\ destination \in Rectangle
  BY DEF Drawn
<1> SUFFICES ASSUME Apart(source, destination, gap)
             PROVE  /\ ~Hides(source, destination, ArrowSize)
                    /\ Size(Line.x) >= gap * Line.d \/ Size(Line.y) >= gap * Line.d
  BY DEF EndsFit
<1> HIDE DEF gap
<1>3. PICK dock \in Dock : Roomy(source, destination, dock, gap)
  BY <1>1, <1>2, ApartIs
<1>4. ~Inside(source, destination)
  BY <1>1, <1>2, <1>3, RoomyIsNotInside
<1>5. ~TooShort(source, destination, ArrowSize)
  BY <1>1, <1>2, <1>3, RoomyIsNotShort DEF gap
<1>6. Line \in Fraction /\ Outward(dock, Line) >= gap * Line.d
  <2>1. Within(source, P1) /\ Within(destination, P2)
    BY LineIs
  <2> QED BY <1>1, <1>2, <1>3, <2>1, RoomyEnds DEF Line
<1>7. Size(Line.x) >= gap * Line.d \/ Size(Line.y) >= gap * Line.d
  <2>1. Line.x \in Int /\ Line.y \in Int /\ Line.d \in Int
    BY <1>6 DEF Fraction, Numbers
  <2>2. gap * Line.d \in Int
    BY <1>1, <2>1
  <2>3. \A i \in Int : Size(i) \in Int /\ Size(i) >= i /\ Size(i) >= -i
    BY DEF Size
  <2>4. Size(Line.x) \in Int /\ Size(Line.x) >= Line.x /\ Size(Line.x) >= -Line.x
        /\ Size(Line.y) \in Int /\ Size(Line.y) >= Line.y /\ Size(Line.y) >= -Line.y
    BY <2>1, <2>3
  <2> DEFINE room == gap * Line.d
  <2>5. room \in Int /\ Outward(dock, Line) >= room
    BY <1>6, <2>2
  <2> HIDE DEF room
  <2>6. Size(Line.x) >= room \/ Size(Line.y) >= room
    BY <2>1, <2>4, <2>5 DEF Outward, Dock
  <2> QED BY <2>6 DEF room
<1> QED BY <1>4, <1>5, <1>7 DEF Hides

(* An edge between items that are apart by the length of its arrow and 2, in
   any direction, is never hidden by generateLineGeometry(), and the line that
   is left when its ends are cut and moved to the docks of ports keeps that
   length: for items of all sizes, at all places. *)
THEOREM EndsAlwaysFit == LineSpec => []EndsFit
<1> QED BY AlwaysDrawn, DrawnFits, PTL

(* Each end and each control point at a port is outside of its dock. *)
LEMMA OutsideIs ==
  ASSUME NEW r \in Rectangle, NEW dock, NEW v \in Int \X Int, curved \in BOOLEAN, Line \in Fraction
  PROVE  Outside(r, dock, LineEnd(r, dock, v, curved))
<1> DEFINE p == LineEnd(r, dock, v, curved)
           c == Leaving(p, dock, from, to, Line)
<1> SUFFICES ASSUME dock \in Dock PROVE Outside(r, dock, p)
  BY DEF Outside
<1>1. Outward(dock, From(Centre(r), p)) >= 0 /\ (curved => p = Socket(r, dock))
  BY EndOutside
<1> HIDE DEF p
<1>2. ASSUME curved
      PROVE  /\ Outward(dock, From(p, c)) >= 10 * From(p, c).d
             /\ Outward(dock, From(Centre(r), Bordered(r, c))) > 0
  <2> DEFINE m == Middle(r, dock)
             e == Extent2(r, dock)
             a == m + e
             b == Middle(r, Opposite(dock)) - Extent2(r, Opposite(dock))
  <2>1. /\ m \in Int /\ e \in Int /\ e > 0 /\ a \in Int /\ b \in Int /\ b = -a
        /\ a + 20 = m + (e + 20) /\ a + 20 \in Int /\ e + 20 \in Int /\ e + 20 > 0 /\ (a + 20) + b = 20
    BY RectangleIs
  <2>2. Within(r, p) /\ Beside(2, dock, p, a)
    BY <1>1, <1>2, SocketIs
  <2>3. p \in Fraction /\ Beside(2, Opposite(dock), p, b) /\ 2 \in Numbers
    BY <2>2, OppositeIs DEF Within, Numbers
  <2> HIDE DEF a, b, m, e
  <2>4. c \in Fraction /\ Beside(2, dock, c, a + 20)
    BY <2>1, <2>2, <2>3, LeavingIs
  <2> HIDE DEF c
  <2> DEFINE u == From(p, c)
             i == a + 20
  <2>5. i \in Int /\ Beside(2, dock, c, i) /\ i + b = 20
    BY <2>1, <2>4
  <2> HIDE DEF i
  <2>6. u \in Fraction /\ Beside(2, dock, u, i + b)
    BY <2>1, <2>3, <2>4, <2>5, FromBeside
  <2> HIDE DEF u
  <2>7. Outward(dock, u) \in Int /\ u.d \in Int /\ 2 * Outward(dock, u) >= 20 * u.d
    BY <2>5, <2>6, OutwardType DEF Beside, Above, Numbers
  <2>8. Outward(dock, u) >= 10 * u.d
    BY <2>7
  <2>9. Outward(dock, From(Centre(r), Bordered(r, c))) > 0
    <3> DEFINE k == e + 20
    <3>1. k \in Int /\ k > 0 /\ Beside(2, dock, c, Middle(r, dock) + k)
      BY <2>1, <2>4 DEF m
    <3> HIDE DEF k
    <3> QED BY <2>4, <3>1, BorderedIs
  <2> QED BY <2>8, <2>9 DEF u
<1> QED BY <1>1, <1>2 DEF Outside

(* At both ends. *)
LEMMA DrawnOutside ==
  ASSUME Drawn
  PROVE  LeavesOutside
<1>1. source \in Rectangle /\ destination \in Rectangle /\ curved \in BOOLEAN
  BY DEF Drawn
<1>2. /\ Way(source, destination) \in Int \X Int /\ Way(destination, source) \in Int \X Int
      /\ Line \in Fraction
  BY LineIs
<1>3. Outside(source, from, P1)
  BY <1>1, <1>2, OutsideIs DEF P1
<1>4. Outside(destination, to, P2)
  BY <1>1, <1>2, OutsideIs DEF P2
<1> QED BY <1>3, <1>4 DEF LeavesOutside

(* An edge leaves and enters a port on the outer side of its dock: a straight
   end is not on the inner side of the port, and a control point is 10 further
   out than the end and cut outside of the centre (qanEdgeItem.cpp:389-507),
   for ports of all sizes and every pair of docks. *)
THEOREM AlwaysLeavesOutside == LineSpec => []LeavesOutside
<1> QED BY AlwaysDrawn, DrawnOutside, PTL
==============================================================================
