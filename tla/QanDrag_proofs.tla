---------------------------- MODULE QanDrag_proofs ----------------------------
(***************************************************************************)
(* Proofs about QanDrag, for every set of nodes and groups and any length  *)
(* of the scene and of the groups.                                         *)
(*                                                                         *)
(* That nothing is left dragged and that a formation is kept rest on the   *)
(* same invariant: an item that is dragged, and was not deselected         *)
(* meanwhile, is the one under the mouse or one that its walk over the     *)
(* selection finds, and all of them are as far from where their drag       *)
(* started.                                                                *)
(***************************************************************************)
EXTENDS QanDrag, TLAPS

TypeOK ==
  /\ place \in [Item -> Int]
  /\ group \in [Node -> Group \cup {None}]
  /\ selected \in SUBSET Item /\ dragged \in SUBSET Item /\ strayed \in SUBSET Item
  /\ pressed \in Item \cup {None}
  /\ mouse \in Int
  /\ mouse0 \in [Item -> Int] /\ place0 \in [Item -> Int]

(* The items of the drag of the pressed item, those that strayed left out. *)
Formation == dragged \ strayed

(* The formation is what endDragMove() will find. *)
FormationFound ==
  /\ Formation # {} => pressed \in dragged
  /\ \A j \in Formation : j = pressed \/ (j \in selected /\ Free(j))
  /\ pressed \in Formation \ selected => Formation = {pressed}

(* All of the formation moved as far since the drag started; it did not move *)
(* as long as the item under the mouse is in its group.                      *)
FormationMoved ==
  pressed \in Formation =>
    \A j \in Formation :
      /\ Scene(j) - place0[j] = Scene(pressed) - place0[pressed]
      /\ ~Free(pressed) => Scene(j) = place0[j]

IInv == TypeOK /\ FormationFound /\ FormationMoved

------------------------------------------------------------------------------
(* Where items are in the scene. *)
LEMMA SceneType ==
  ASSUME TypeOK, NEW i \in Item
  PROVE  /\ Scene(i) \in Int /\ Base(i) \in Int
         /\ Free(i) => Scene(i) = place[i]
  BY DragAssumption DEF TypeOK, Scene, Base, Free, Item

(* The items of a walk over the selection. *)
LEMMA FollowersFree ==
  ASSUME NEW i, NEW j
  PROVE  j \in Followers(i) <=> j \in selected /\ j # i /\ Free(j)
  BY DEF Followers

------------------------------------------------------------------------------
(* The moves of the mouse.                                                    *)

(* A drag begins: items of a former drag strayed, those that begin are where *)
(* their drag starts.                                                        *)
LEMMA BeginStep ==
  ASSUME IInv, NEW m \in Int, pressed # None, pressed \notin dragged, Begin(m), mouse' = m,
         UNCHANGED <<selected, pressed, strayed>>
  PROVE  IInv'
  <1> DEFINE begun == {pressed} \cup (IF pressed \in selected THEN Followers(pressed) ELSE {})
  <1>1. /\ dragged' = dragged \cup begun
        /\ place0' = [i \in Item |-> IF i \in begun THEN Scene(i) ELSE place0[i]]
        /\ mouse0' = [i \in Item |-> IF i \in begun THEN m ELSE mouse0[i]]
        /\ UNCHANGED <<place, group>>
    BY DEF Begin
  <1>2. begun \subseteq Item /\ pressed \in begun
    BY FollowersFree DEF IInv, TypeOK
  <1>3. dragged \subseteq strayed
    BY DEF IInv, FormationFound, Formation
  <1>4. \A j \in begun : j = pressed \/ (j \in selected /\ Free(j))
    BY FollowersFree
  <1> HIDE DEF begun
  <1>5. TypeOK'
    BY <1>1, <1>2, SceneType DEF IInv, TypeOK
  <1>6. \A i \in Item : Scene(i)' = Scene(i) /\ (Free(i)' <=> Free(i))
    BY <1>1 DEF Scene, Base, Free
  <1>7. Formation' \subseteq begun
    BY <1>1, <1>3 DEF Formation
  <1>8. FormationFound'
    <2>1. pressed \notin selected => begun = {pressed}
      BY DEF begun
    <2> QED BY <1>1, <1>2, <1>4, <1>6, <1>7, <2>1 DEF FormationFound
  <1>9. FormationMoved'
    <2> SUFFICES ASSUME NEW j \in Formation', pressed \in Formation'
                 PROVE  /\ Scene(j)' - place0'[j] = Scene(pressed)' - place0'[pressed]
                        /\ Scene(j)' = place0'[j]
      BY DEF FormationMoved
    <2>1. \A i \in begun : place0'[i] = Scene(i) /\ Scene(i)' = Scene(i) /\ Scene(i) \in Int
      BY <1>1, <1>2, <1>6, SceneType DEF IInv
    <2> QED BY <1>2, <1>7, <2>1
  <1> QED BY <1>5, <1>8, <1>9 DEF IInv

(* What a move of the mouse does with the item under it and those that follow. *)
LEMMA DragMoveEffect ==
  ASSUME IInv, NEW m \in Int, pressed # None, DragMove(m), UNCHANGED <<selected, pressed, strayed>>
  PROVE  LET delta == m - mouse0[pressed]
             start == IF ~Free(pressed) THEN Scene(pressed) ELSE place0[pressed]
         IN /\ delta \in Int /\ start \in Int
            /\ place' \in [Item -> Int]
            /\ group' \in [Node -> Group \cup {None}]
            /\ mouse0' \in [Item -> Int]
            /\ place0' = [place0 EXCEPT ![pressed] = start]
            /\ dragged' = dragged
            /\ Free(pressed)' /\ Scene(pressed)' = start + delta
            /\ \A j \in Item \ {pressed} : Free(j)' <=> Free(j)
            /\ pressed \in selected =>
                 \A j \in Followers(pressed) : Scene(j)' = place0[j] + delta
  <1> DEFINE delta == m - mouse0[pressed]
             start == IF ~Free(pressed) THEN Scene(pressed) ELSE place0[pressed]
             others == IF pressed \in selected THEN Followers(pressed) ELSE {}
             led == [place EXCEPT ![pressed] = start + delta]
  <1>1. /\ place' = [j \in Item |-> IF j \in others THEN Moved(place[j], delta, j) ELSE led[j]]
        /\ group' = IF ~Free(pressed) THEN [group EXCEPT ![pressed] = None] ELSE group
        /\ mouse0' = IF ~Free(pressed) THEN [mouse0 EXCEPT ![pressed] = m] ELSE mouse0
        /\ place0' = [place0 EXCEPT ![pressed] = start]
        /\ dragged' = dragged
    BY DEF DragMove
  <1>2. pressed \in Item /\ pressed \notin others
    BY FollowersFree DEF IInv, TypeOK
  <1>3. delta \in Int /\ start \in Int
    BY <1>2, SceneType DEF IInv, TypeOK
  <1>4. \A j \in others : j \in selected /\ j # pressed /\ Free(j)
    BY FollowersFree
  <1> HIDE DEF delta, start, others
  <1>5. \A j \in Item : place'[j] = IF j \in others THEN place0[j] + delta
                                    ELSE IF j = pressed THEN start + delta ELSE place[j]
    BY <1>1, <1>2 DEF Moved, IInv, TypeOK
  <1>6. place' \in [Item -> Int]
    BY <1>1, <1>3, <1>5 DEF IInv, TypeOK
  <1>7. group' \in [Node -> Group \cup {None}] /\ mouse0' \in [Item -> Int]
    BY <1>1 DEF IInv, TypeOK
  <1>8. Free(pressed)'
    BY <1>1, <1>2 DEF Free, IInv, TypeOK, Item
  <1>9. \A j \in Item \ {pressed} : Free(j)' <=> Free(j)
    BY <1>1 DEF Free, IInv, TypeOK, Item
  <1>10. \A j \in Item : Free(j)' => Scene(j)' = place'[j]
    BY <1>6, DragAssumption DEF Scene, Base, Free, Item
  <1>11. Scene(pressed)' = start + delta
    BY <1>2, <1>5, <1>8, <1>10
  <1>12. pressed \in selected => \A j \in Followers(pressed) : Scene(j)' = place0[j] + delta
    <2> SUFFICES ASSUME pressed \in selected, NEW j \in Followers(pressed)
                 PROVE  Scene(j)' = place0[j] + delta
      OBVIOUS
    <2>1. j \in others /\ j \in Item /\ j # pressed /\ Free(j)'
      BY <1>4, <1>9 DEF others, IInv, TypeOK
    <2> QED BY <1>5, <1>10, <2>1
  <1> QED BY <1>1, <1>3, <1>6, <1>7, <1>8, <1>9, <1>11, <1>12 DEF delta, start

(* The rest of a formation follows the item under the mouse. *)
LEMMA FormationFollows ==
  ASSUME IInv, NEW j \in Formation, j # pressed
  PROVE  j \in Item /\ j \in Followers(pressed)
  BY FollowersFree DEF IInv, TypeOK, FormationFound, Formation

LEMMA DragMoveStep ==
  ASSUME IInv, NEW m \in Int, pressed # None, DragMove(m), mouse' = m,
         UNCHANGED <<selected, pressed, strayed>>
  PROVE  IInv'
  <1> DEFINE delta == m - mouse0[pressed]
             start == IF ~Free(pressed) THEN Scene(pressed) ELSE place0[pressed]
  <1>0. pressed \in Item
    BY DEF IInv, TypeOK
  <1>1. /\ delta \in Int /\ start \in Int
        /\ place0' = [place0 EXCEPT ![pressed] = start]
        /\ dragged' = dragged
        /\ Free(pressed)' /\ Scene(pressed)' = start + delta
        /\ \A j \in Item \ {pressed} : Free(j)' <=> Free(j)
        /\ pressed \in selected => \A j \in Followers(pressed) : Scene(j)' = place0[j] + delta
    BY DragMoveEffect
  <1>2. TypeOK'
    BY DragMoveEffect DEF IInv, TypeOK
  <1> HIDE DEF delta, start
  <1>3. Formation' = Formation
    BY <1>1 DEF Formation
  <1>4. FormationFound'
    BY <1>1, <1>3 DEF IInv, TypeOK, FormationFound, Formation
  <1>5. FormationMoved'
    <2> SUFFICES ASSUME pressed \in Formation, NEW j \in Formation, j # pressed
                 PROVE  Scene(j)' - place0'[j] = Scene(pressed)' - place0'[pressed]
      BY <1>0, <1>1, <1>2, <1>3, SceneType DEF FormationMoved, TypeOK
    <2>1. j \in Item /\ place0'[j] = place0[j] /\ place0'[pressed] = start /\ place0[j] \in Int
      BY <1>0, <1>1, FormationFollows DEF IInv, TypeOK
    <2>2. CASE pressed \in selected
      <3>1. Scene(j)' = place0[j] + delta
        BY <1>1, <2>2, FormationFollows
      <3> QED BY <1>1, <2>1, <3>1
    <2>3. CASE pressed \notin selected
      BY <2>3 DEF IInv, FormationFound
    <2> QED BY <2>2, <2>3
  <1> QED BY <1>2, <1>4, <1>5 DEF IInv

------------------------------------------------------------------------------
(* The other steps.                                                           *)

(* endDragMove() ends the drag of all of the formation. *)
LEMMA ReleaseEnds ==
  ASSUME IInv, Release
  PROVE  pressed' = None /\ Formation' = {}
  <1>1. pressed' = None
    BY DEF Release
  <1>2. CASE pressed \in dragged
    <2>1. dragged' = dragged \ Ended(pressed) /\ strayed' = strayed \ Ended(pressed)
      BY <1>2 DEF Release
    <2>2. Formation \subseteq Ended(pressed)
      BY FollowersFree DEF IInv, FormationFound, Ended
    <2> QED BY <1>1, <2>1, <2>2 DEF Formation
  <1>3. CASE pressed \notin dragged
    <2>1. dragged' = dragged /\ strayed' = strayed
      BY <1>3 DEF Release
    <2> QED BY <1>1, <1>3, <2>1 DEF IInv, FormationFound, Formation
  <1> QED BY <1>2, <1>3

(* Items that are dropped in a group change parent, and nothing else does; *)
(* none of them moves in the scene.                                        *)
LEMMA ReleasePlaces ==
  ASSUME IInv, Release
  PROVE  /\ TypeOK'
         /\ \A i \in Item : Scene(i)' = Scene(i)
  <1> DEFINE ended == IF pressed \in dragged THEN Ended(pressed) ELSE {}
  <1>0. /\ mouse0' = [i \in Item |-> IF i \in ended THEN 0 ELSE mouse0[i]]
        /\ place0' = [i \in Item |-> IF i \in ended THEN 0 ELSE place0[i]]
        /\ dragged' = dragged \ ended /\ strayed' = strayed \ ended
        /\ pressed' = None /\ mouse' = 0 /\ selected' = selected
    BY DEF Release
  <1>1. PICK to \in [ended \cap Node -> Group \cup {None}] :
          LET in == {n \in ended \cap Node : to[n] # None} IN
            /\ group' = [n \in Node |-> IF n \in in THEN to[n] ELSE group[n]]
            /\ place' = [i \in Item |-> IF i \in in THEN Dropped(i, to[i]) ELSE place[i]]
    BY DEF Release
  <1> HIDE DEF ended
  <1> DEFINE in == {n \in ended \cap Node : to[n] # None}
  <1>2. /\ group' = [n \in Node |-> IF n \in in THEN to[n] ELSE group[n]]
        /\ place' = [i \in Item |-> IF i \in in THEN Dropped(i, to[i]) ELSE place[i]]
        /\ in \subseteq Node /\ \A n \in in : to[n] \in Group
    BY <1>1
  <1> HIDE DEF in
  <1>3. \A n \in in : Dropped(n, to[n]) \in Int /\ Dropped(n, to[n]) = Scene(n) - place[to[n]]
    BY <1>2, SceneType DEF Dropped, IInv, TypeOK, Item
  <1>4. place' \in [Item -> Int] /\ group' \in [Node -> Group \cup {None}]
    BY <1>2, <1>3 DEF IInv, TypeOK
  <1>5. TypeOK'
    BY <1>0, <1>4 DEF IInv, TypeOK
  <1>6. ASSUME NEW i \in Item PROVE Scene(i)' = Scene(i)
    <2>1. \A h \in Group : place'[h] = place[h]
      BY <1>2, DragAssumption DEF Item
    <2>2. CASE i \in in
      <3>1. /\ place'[i] = Scene(i) - place[to[i]] /\ group'[i] = to[i]
            /\ i \in Node /\ to[i] \in Group /\ to[i] # None
        BY <1>2, <1>3, <2>2, DragAssumption DEF Item
      <3>2. Scene(i)' = place'[to[i]] + place'[i]
        BY <3>1 DEF Scene, Base
      <3> QED BY <2>1, <3>1, <3>2, SceneType DEF IInv, TypeOK, Item
    <2>3. CASE i \notin in
      <3>1. place'[i] = place[i] /\ (i \in Node => group'[i] = group[i])
        BY <1>2, <2>3
      <3> QED BY <2>1, <3>1 DEF Scene, Base, IInv, TypeOK
    <2> QED BY <2>2, <2>3
  <1> QED BY <1>5, <1>6

(* groupNode(), ungroupNode() by a program: no item moves in the scene. *)
LEMMA GroupNodePlaces ==
  ASSUME IInv, NEW n \in Node, NEW h \in Group, GroupNode(n, h)
  PROVE  /\ TypeOK'
         /\ \A i \in Item : Scene(i)' = Scene(i)
  <1>1. /\ group[n] = None /\ group' = [group EXCEPT ![n] = h]
        /\ place' = [place EXCEPT ![n] = Scene(n) - place[h]]
        /\ n \in Item /\ h \in Item /\ n # h /\ h # None
    BY DragAssumption DEF GroupNode, Dropped, Item
  <1>2. TypeOK'
    BY <1>1, SceneType DEF GroupNode, IInv, TypeOK
  <1>3. Scene(n)' = Scene(n)
    BY <1>1, SceneType DEF Scene, Base, IInv, TypeOK
  <1>4. \A i \in Item \ {n} : Scene(i)' = Scene(i)
    BY <1>1, DragAssumption DEF Scene, Base, IInv, TypeOK, Item
  <1> QED BY <1>2, <1>3, <1>4

LEMMA UngroupNodePlaces ==
  ASSUME IInv, NEW n \in Node, UngroupNode(n)
  PROVE  /\ TypeOK'
         /\ \A i \in Item : Scene(i)' = Scene(i)
  <1>1. /\ group' = [group EXCEPT ![n] = None]
        /\ place' = [place EXCEPT ![n] = Scene(n)]
        /\ n \in Item /\ n \notin Group
    BY DragAssumption DEF UngroupNode, Item
  <1>2. TypeOK'
    BY <1>1, SceneType DEF UngroupNode, IInv, TypeOK
  <1>3. Scene(n)' = Scene(n)
    BY <1>1, SceneType DEF Scene, Base, IInv, TypeOK
  <1>4. \A i \in Item \ {n} : Scene(i)' = Scene(i)
    BY <1>1, DragAssumption DEF Scene, Base, IInv, TypeOK, Item
  <1> QED BY <1>2, <1>3, <1>4

(* Between two gestures no drag is under way. *)
LEMMA IdleStep ==
  ASSUME TypeOK', Formation' = {}
  PROVE  IInv'
  BY DEF IInv, FormationFound, FormationMoved

(* The selection changes, maybe during a gesture. *)
LEMMA SelectionStep ==
  ASSUME IInv, NEW i \in Item, Select(i) \/ Deselect(i)
  PROVE  IInv'
  <1>1. /\ UNCHANGED <<place, group, dragged, pressed, mouse, mouse0, place0>>
        /\ selected' \in SUBSET Item /\ strayed' \in SUBSET Item
        /\ Formation' \subseteq Formation
        /\ \A j \in Formation' : j \in selected => j \in selected'
    BY DEF Select, Deselect, Formation, IInv, TypeOK
  <1>2. TypeOK'
    BY <1>1 DEF IInv, TypeOK
  <1>3. \A j \in Item : (Free(j)' <=> Free(j)) /\ Scene(j)' = Scene(j)
    BY <1>1 DEF Free, Scene, Base
  <1>4. Formation \subseteq Item
    BY DEF Formation, IInv, TypeOK
  <1>5. FormationFound'
    BY <1>1, <1>3, <1>4 DEF IInv, FormationFound
  <1>6. FormationMoved'
    BY <1>1, <1>3, <1>4 DEF IInv, FormationMoved
  <1> QED BY <1>2, <1>5, <1>6 DEF IInv

------------------------------------------------------------------------------
(* Every step keeps the invariant. *)
LEMMA InvStep == IInv /\ [Next]_vars => IInv'
<1> SUFFICES ASSUME IInv, [Next]_vars PROVE IInv'
  OBVIOUS
<1>1. CASE UNCHANGED vars
  <2>1. TypeOK' /\ Formation' = Formation /\ pressed' = pressed /\ place0' = place0
        /\ dragged' = dragged /\ selected' = selected
    BY <1>1 DEF vars, IInv, TypeOK, Formation
  <2>2. \A j \in Item : (Free(j)' <=> Free(j)) /\ Scene(j)' = Scene(j)
    BY <1>1 DEF vars, Free, Scene, Base
  <2>3. Formation \subseteq Item
    BY DEF Formation, IInv, TypeOK
  <2> QED BY <2>1, <2>2, <2>3 DEF IInv, FormationFound, FormationMoved
<1>2. ASSUME NEW i \in Item, NEW ctrl \in BOOLEAN, Press(i, ctrl) PROVE IInv'
  <2>1. TypeOK'
    BY <1>2, SceneType DEF Press, IInv, TypeOK
  <2>2. Formation' = {}
    BY <1>2, DragAssumption DEF Press, Formation, IInv, TypeOK, FormationFound, Item
  <2> QED BY <2>1, <2>2, IdleStep
<1>3. ASSUME NEW m \in 0 .. Length, Move(m) PROVE IInv'
  BY <1>3, BeginStep, DragMoveStep, DragAssumption DEF Move
<1>4. CASE Release
  BY <1>4, ReleaseEnds, ReleasePlaces, IdleStep
<1>5. ASSUME NEW i \in Item, Select(i) \/ Deselect(i) PROVE IInv'
  BY <1>5, SelectionStep
<1>6. ASSUME NEW n \in Node, NEW h \in Group, GroupNode(n, h) PROVE IInv'
  <2>1. Formation' = {}
    BY <1>6, DragAssumption DEF GroupNode, Formation, IInv, TypeOK, FormationFound, Item
  <2> QED BY <1>6, <2>1, GroupNodePlaces, IdleStep
<1>7. ASSUME NEW n \in Node, UngroupNode(n) PROVE IInv'
  <2>1. Formation' = {}
    BY <1>7, DragAssumption DEF UngroupNode, Formation, IInv, TypeOK, FormationFound, Item
  <2> QED BY <1>7, <2>1, UngroupNodePlaces, IdleStep
<1> QED BY <1>1, <1>2, <1>3, <1>4, <1>5, <1>6, <1>7 DEF Next

LEMMA Invariance == Spec => []IInv
<1>1. Init => IInv
  BY DragAssumption DEF Init, IInv, TypeOK, FormationFound, FormationMoved, Formation, Item
<1> QED BY <1>1, InvStep, PTL DEF Spec

(* No item stays dragged once the button is released, whatever was selected,  *)
(* deselected and grouped meanwhile, but items that strayed (beginDragMove(), *)
(* endDragMove()).                                                            *)
THEOREM DragsEnd == Spec => []NothingLeftDragged
<1>1. IInv => NothingLeftDragged
  BY DragAssumption DEF IInv, TypeOK, FormationFound, Formation, NothingLeftDragged, Item
<1> QED BY <1>1, Invariance, PTL

(* The items of a drag keep their distance at each move of the mouse, also  *)
(* when the one under the mouse leaves its group (dragMove()).              *)
THEOREM FormationsKept == Spec => FormationKept
<1>1. ASSUME IInv, [Next]_vars, NEW j \in dragged \ strayed,
             mouse' # mouse, pressed' = pressed,
             {pressed, j} \subseteq (dragged \ strayed) \cap selected, Free(j)
      PROVE  Scene(j)' - Scene(pressed)' = Scene(j) - Scene(pressed)
  <2>1. PICK m \in 0 .. Length : DragMove(m) /\ mouse' = m /\ UNCHANGED <<selected, pressed, strayed>>
    <3>1. \A n \in Node : ~UngroupNode(n) /\ \A h \in Group : ~GroupNode(n, h)
      BY <1>1 DEF GroupNode, UngroupNode
    <3>2. \A i \in Item : ~Select(i) /\ ~Deselect(i) /\ \A ctrl \in BOOLEAN : ~Press(i, ctrl)
      BY <1>1, DragAssumption DEF Press, Select, Deselect, Item
    <3>3. ~Release
      BY <1>1 DEF Release
    <3>4. \E m \in 0 .. Length : Move(m)
      BY <1>1, <3>1, <3>2, <3>3 DEF Next, vars
    <3> QED BY <1>1, <3>4 DEF Move
  <2> DEFINE delta == m - mouse0[pressed]
             start == IF ~Free(pressed) THEN Scene(pressed) ELSE place0[pressed]
  <2>2. pressed # None /\ pressed \in Item /\ j \in Item /\ pressed \in Formation /\ j \in Formation
    BY <1>1, DragAssumption DEF IInv, TypeOK, Item, Formation
  <2>3. /\ delta \in Int /\ start \in Int /\ Scene(pressed)' = start + delta
        /\ j # pressed => Scene(j)' = place0[j] + delta
    BY <1>1, <2>1, <2>2, DragMoveEffect, FollowersFree, DragAssumption
  <2>4. /\ Scene(j) - place0[j] = Scene(pressed) - place0[pressed]
        /\ ~Free(pressed) => Scene(j) = place0[j]
    BY <1>1, <2>2 DEF IInv, FormationMoved
  <2>5. Scene(j) \in Int /\ Scene(pressed) \in Int /\ place0[j] \in Int /\ place0[pressed] \in Int
    BY <1>1, <2>2, SceneType DEF IInv, TypeOK
  <2>6. start - Scene(pressed) = place0[j] - Scene(j)
    BY <2>4, <2>5
  <2> HIDE DEF delta, start
  <2>7. CASE j = pressed
    BY <1>1, <2>3, <2>5, <2>7
  <2>8. CASE j # pressed
    BY <2>3, <2>5, <2>6, <2>8
  <2> QED BY <2>7, <2>8
<1>2. IInv /\ [Next]_vars =>
        [\A j \in dragged \ strayed :
           /\ mouse' # mouse /\ pressed' = pressed
           /\ {pressed, j} \subseteq (dragged \ strayed) \cap selected
           /\ Free(j)
           => Scene(j)' - Scene(pressed)' = Scene(j) - Scene(pressed)]_vars
  BY <1>1
<1> QED BY <1>2, Invariance, PTL DEF Spec, FormationKept

(* No item moves in the scene unless the mouse moves: grouping, ungrouping   *)
(* and dropping a node keep its place, also a drop from a group into another *)
(* (groupNodeItem(), ungroupNodeItem(), endDragMove()).                      *)
THEOREM PlacesKept == Spec => PlaceKept
<1>1. ASSUME IInv, [Next]_vars, ~(mouse' # mouse /\ pressed' = pressed), NEW i \in Item
      PROVE  Scene(i)' = Scene(i)
  <2>1. CASE Release \/ \E n \in Node : UngroupNode(n) \/ \E h \in Group : GroupNode(n, h)
    BY <1>1, <2>1, ReleasePlaces, GroupNodePlaces, UngroupNodePlaces
  <2>2. CASE UNCHANGED <<place, group>>
    BY <2>2 DEF Scene, Base
  <2>3. \A m \in 0 .. Length : ~Move(m)
    BY <1>1 DEF Move
  <2> QED BY <1>1, <2>1, <2>2, <2>3 DEF Next, Press, Select, Deselect, vars
<1>2. IInv /\ [Next]_vars =>
        [(mouse' # mouse /\ pressed' = pressed) \/ \A i \in Item : Scene(i)' = Scene(i)]_vars
  BY <1>1
<1> QED BY <1>2, Invariance, PTL DEF Spec, PlaceKept
===============================================================================
