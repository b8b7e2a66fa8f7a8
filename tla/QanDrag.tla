------------------------------- MODULE QanDrag -------------------------------
(***************************************************************************)
(* Dragging nodes and groups with the mouse: qan::DraggableCtrl, one per   *)
(* item, the selection it takes along, and the groups a node is proposed   *)
(* to and dropped in.                                                      *)
(*                                                                         *)
(* The controllers share no state: each walk over the selection, when a    *)
(* drag begins, at each move and when it ends, reads the selection, the    *)
(* groups and the "dragged" flags again.                                   *)
(*                                                                         *)
(* Abstractions: the scene is a line; a node has length 1 and all groups   *)
(* the same length, so that a group never finds another one around itself; *)
(* the view is not zoomed; the container of a group fills its item, as in  *)
(* RectGroupTemplate.qml; items are draggable and droppable; the selection *)
(* is the set whose lists and flags agree (see QanSelection); programs     *)
(* change it at any time, and groups between two gestures.                 *)
(***************************************************************************)
EXTENDS Integers, FiniteSets

CONSTANTS
  Node, Group,  \* identities of nodes and groups, and of their items
  None,         \* nullptr
  Span,         \* length of a group
  Length,       \* bound of the model: items stay in 0 .. Length
  MaxStrayed    \* bound of the model: how many items stray

ASSUME DragAssumption ==
  /\ Node \cap Group = {}
  /\ None \notin Node \cup Group
  /\ Span \in Nat \ {0} /\ Length \in Nat /\ MaxStrayed \in Nat

VARIABLES
  place,        \* QQuickItem::position(), in the parent item
  group,        \* the group of a node, and the parent of its item
  selected,     \* selected nodes and groups
  dragged,      \* items with Draggable::_dragged
  pressed,      \* the item that grabs the mouse
  mouse,        \* where the mouse is while it is grabbed
  mouse0,       \* DraggableCtrl::_dragInitialMousePos
  place0,       \* DraggableCtrl::_dragInitialPos
  proposed,     \* DraggableCtrl::_lastProposedGroup
  hilighted,    \* groups told nodeDragEnter() since the last nodeDragLeave()
  strayed       \* (history) dragged items that left the selection meanwhile

vars == <<place, group, selected, dragged, pressed, mouse, mouse0, place0,
          proposed, hilighted, strayed>>

Item == Node \cup Group
Base(i) == IF i \in Node /\ group[i] # None THEN place[group[i]] ELSE 0
Scene(i) == Base(i) + place[i]
Free(i) == i \in Group \/ group[i] = None

(* QRectF::contains() of a node at x, for a group at y *)
Around(y, x) == y <= x /\ x + 1 <= y + Span

Init ==
  /\ place \in [Item -> {0, Length \div 2}]
  /\ group = [n \in Node |-> None]
  /\ selected = {} /\ dragged = {}
  /\ pressed = None /\ mouse = 0
  /\ mouse0 = [i \in Item |-> 0] /\ place0 = [i \in Item |-> 0]
  /\ proposed = [n \in Node |-> None]
  /\ hilighted = {} /\ strayed = {}

------------------------------------------------------------------------------
(* mousePressEvent(): selectNode() or selectGroup() with SelectOnClick. *)
Press(i, ctrl) ==
  /\ pressed = None
  /\ pressed' = i
  /\ mouse' = Scene(i)
  /\ selected' = IF i \in selected THEN IF ctrl THEN selected \ {i} ELSE selected
                 ELSE IF ctrl THEN selected \cup {i} ELSE {i}
  /\ UNCHANGED <<place, group, dragged, mouse0, place0, proposed, hilighted, strayed>>

(* What a drag of i takes along: hasMultipleSelection() is true as soon as     *)
(* anything is selected.                                                       *)
Followers(i) == {j \in selected \ {i} : Free(j)}

(* beginDragMove(), at the first move. *)
Begin(m) ==
  LET begun == {pressed} \cup (IF pressed \in selected THEN Followers(pressed) ELSE {})
  IN /\ dragged' = dragged \cup begun
     /\ mouse0' = [i \in Item |-> IF i \in begun THEN m ELSE mouse0[i]]
     /\ place0' = [i \in Item |-> IF i \in begun THEN Scene(i) ELSE place0[i]]
     /\ UNCHANGED <<place, group, proposed, hilighted>>

(* Mutant of Moved: followers go by the length of this move. *)
MovedByStep(at, delta, j) ==
  IF j = pressed THEN place0[j] + delta ELSE at + delta

(* The new place of an item of the drag. *)
Moved(at, delta, j) == place0[j] + delta

(* The groups a node at x may be proposed to. *)
GroupsAt(places, x) == {h \in Group : Around(places[h], x)}

(* itemProposeNodeDrop() and itemEndProposeNodeDrop(): to holds the groups     *)
(* each node of N is proposed to, None for the others.  A group that one node  *)
(* enters and another one leaves keeps the last signal.                        *)
Propose(N, to) ==
  LET entered == {to[n] : n \in N} \ {None}
      left == {proposed[n] : n \in {x \in N : to[x] = None}} \ {None}
  IN /\ \E both \in SUBSET (entered \cap left) :
          hilighted' = ((hilighted \cup entered) \ left) \cup both
     /\ proposed' = [n \in Node |-> IF n \in N THEN to[n] ELSE proposed[n]]

(* dragMove(): the item under the mouse leaves its group, where the drag of    *)
(* this item starts again, and takes the selection along with its own delta.   *)
(* Groups are moved by their own turn, nodes find groups that follow them      *)
(* where they were.                                                            *)
DragMove(m) ==
  LET i == pressed
      delta == m - mouse0[i]
      leaves == ~Free(i)
      start == IF leaves THEN Scene(i) ELSE place0[i]
      others == IF i \in selected THEN Followers(i) ELSE {}
      led == [place EXCEPT ![i] = start + delta]
      there == [j \in Item |-> IF j \in others THEN Moved(place[j], delta, j) ELSE led[j]]
      movers == ({i} \cup others) \cap Node
      Options(n) == GroupsAt(IF n = i THEN there ELSE led, there[n])
  IN /\ place' = there
     /\ group' = IF leaves THEN [group EXCEPT ![i] = None] ELSE group
     /\ mouse0' = IF leaves THEN [mouse0 EXCEPT ![i] = m] ELSE mouse0
     /\ place0' = [place0 EXCEPT ![i] = start]
     /\ \E to \in [movers -> Group \cup {None}] :
          /\ \A n \in movers : IF Options(n) = {} THEN to[n] = None ELSE to[n] \in Options(n)
          /\ Propose(movers, to)
     /\ UNCHANGED dragged

(* handleMouseMoveEvent(); bound of the model: items stay on the line. *)
Move(m) ==
  /\ pressed # None
  /\ m # mouse /\ mouse' = m
  /\ IF pressed \in dragged THEN DragMove(m) ELSE Begin(m)
  /\ \A i \in Item : Scene(i)' \in 0 .. Length
  /\ UNCHANGED <<selected, pressed, strayed>>

(* Mutant of Ended: the followers are those of the drag, if it had any. *)
EndedWithSelection(i) == {i} \cup (IF i \in selected THEN {} ELSE Followers(i))

(* The items whose drag ends with that of i: endDragMove() does not ask        *)
(* whether i is selected.                                                      *)
Ended(i) == {i} \cup Followers(i)

(* Mutant of Dropped: the place in the scene is kept as it is. *)
DroppedAsIs(n, h) == place[n]

(* The place of a node in its new group, groupNodeItem(). *)
Dropped(n, h) == Scene(n) - place[h]

(* endDragMove(): position() is compared with groups of the scene even if the  *)
(* node is in a group, which it is when no move followed the first one.        *)
Release ==
  LET ended == IF pressed \in dragged THEN Ended(pressed) ELSE {}
      Options(n) == GroupsAt(place, place[n])
  IN /\ pressed # None
     /\ pressed' = None
     /\ dragged' = dragged \ ended
     /\ strayed' = strayed \ ended
     /\ mouse0' = [i \in Item |-> IF i \in ended THEN 0 ELSE mouse0[i]]
     /\ place0' = [i \in Item |-> IF i \in ended THEN 0 ELSE place0[i]]
     /\ proposed' = [n \in Node |-> IF n \in ended THEN None ELSE proposed[n]]
     /\ \E to \in [ended \cap Node -> Group \cup {None}] :
          /\ \A n \in ended \cap Node :
               IF Options(n) = {} THEN to[n] = None ELSE to[n] \in Options(n)
          /\ LET in == {n \in ended \cap Node : to[n] # None} IN
             /\ group' = [n \in Node |-> IF n \in in THEN to[n] ELSE group[n]]
             /\ place' = [i \in Item |-> IF i \in in THEN Dropped(i, to[i]) ELSE place[i]]
             /\ hilighted' = hilighted \ {to[n] : n \in in}
     /\ mouse' = 0
     /\ UNCHANGED selected

------------------------------------------------------------------------------
(* addToSelection(), removeFromSelection() by a program, during a gesture too. *)
Select(i) ==
  /\ i \notin selected
  /\ selected' = selected \cup {i}
  /\ UNCHANGED <<place, group, dragged, pressed, mouse, mouse0, place0, proposed,
                 hilighted, strayed>>

Deselect(i) ==
  /\ i \in selected
  /\ selected' = selected \ {i}
  /\ strayed' = strayed \cup ({i} \cap dragged)
  /\ Cardinality(strayed') <= MaxStrayed
  /\ UNCHANGED <<place, group, dragged, pressed, mouse, mouse0, place0, proposed, hilighted>>

(* groupNode(), ungroupNode(): the item changes parent and stays where it is   *)
(* in the scene.                                                               *)
GroupNode(n, h) ==
  /\ pressed = None /\ group[n] = None
  /\ group' = [group EXCEPT ![n] = h]
  /\ place' = [place EXCEPT ![n] = Dropped(n, h)]
  /\ hilighted' = hilighted \ {h}
  /\ UNCHANGED <<selected, dragged, pressed, mouse, mouse0, place0, proposed, strayed>>

UngroupNode(n) ==
  /\ pressed = None /\ group[n] # None
  /\ group' = [group EXCEPT ![n] = None]
  /\ place' = [place EXCEPT ![n] = Scene(n)]
  /\ UNCHANGED <<selected, dragged, pressed, mouse, mouse0, place0, proposed, hilighted,
                 strayed>>

Next ==
  \/ \E i \in Item, ctrl \in BOOLEAN : Press(i, ctrl)
  \/ \E m \in 0 .. Length : Move(m)
  \/ Release
  \/ \E i \in Item : Select(i) \/ Deselect(i)
  \/ \E n \in Node, h \in Group : GroupNode(n, h)
  \/ \E n \in Node : UngroupNode(n)

Spec == Init /\ [][Next]_vars

------------------------------------------------------------------------------
(* When the button is released no item stays dragged, although the walk of     *)
(* endDragMove() is not the one of beginDragMove(), except for items that were *)
(* taken out of the selection while they were dragged                          *)
(* (qanDraggableCtrl.hpp:191, 270).                                            *)
NothingLeftDragged == pressed = None => dragged \subseteq strayed

(* The items of a drag move together: from one move to the next the distance   *)
(* between the item under the mouse and one of the selection does not change,  *)
(* not even when the former leaves its group and starts again                  *)
(* (qanDraggableCtrl.hpp:204-238).                                             *)
FormationKept ==
  [][\A j \in dragged \ strayed :
       /\ mouse' # mouse /\ pressed' = pressed
       /\ {pressed, j} \subseteq (dragged \ strayed) \cap selected
       /\ Free(j)
       => Scene(j)' - Scene(pressed)' = Scene(j) - Scene(pressed)]_vars

(* "modify parentship, keep same visual position" (qanGroupItem.h:222, 226):   *)
(* nothing but a move of the mouse moves an item in the scene, whatever the    *)
(* group it is dropped in and the group it was in before.                      *)
PlaceKept ==
  [][(mouse' # mouse /\ pressed' = pressed) \/ \A i \in Item : Scene(i)' = Scene(i)]_vars
==============================================================================
