------------------------------ MODULE QanItems ------------------------------
(* The items of a graph on the screen: nodes, in groups or not, the edges      *)
(* between them, the styles of the edges and the resizer of a node             *)
(* (src/src/qanEdgeItem.cpp, qanNodeItem.cpp, qanGroupItem.cpp, qanStyle.cpp,  *)
(* qanBottomRightResizer.cpp). An edge item keeps a drawing of its own, made   *)
(* by updateItem() when a signal of something it depends on reaches it; the    *)
(* model follows which signals do. Who is in which group, and which edges a    *)
(* group lists, is the business of QanGroups: here a group lists the edges of  *)
(* its nodes. How lines are drawn is the business of QanEdgeLine.              *)
EXTENDS QanEdgeGeometry

CONSTANTS
  Node, Group, Edge, Style, None,
  Ends,          \* edge |-> <<source, destination>>
  Spots,         \* the places of the scene nodes are at, a bound of the model
  Corners,       \* the places of groups
  Sizes,         \* the sizes a node can have
  Arrows,        \* the values of arrowSize
  DefaultArrow,  \* the arrow of an edge without style, 4 in the code
  Minimums,      \* the values of minimumTargetSize
  Strides,       \* where the mouse goes from where the handler was pressed
  Targets,       \* the nodes that are resized, and a resizer is attached to
  Shapes,        \* the bounding shapes a program gives them
  Guests         \* the nodes that are put in groups

ASSUME ItemAssumption ==
  /\ None \notin Group
  /\ Ends \in [Edge -> Node \X Node]
  /\ <<0, 0>> \in Corners
  /\ Spots \cup Corners \cup Sizes \cup Shapes \cup Minimums \cup Strides \subseteq Int \X Int
  /\ \E s \in Sizes : \A t \in Sizes : s[1] <= t[1] /\ s[2] <= t[2]
  /\ DefaultArrow \in Nat /\ Arrows \subseteq Nat
  /\ Targets \subseteq Node /\ Guests \subseteq Node

VARIABLES
  place,     \* position() of a node item, in its parent
  raised,    \* the nodes whose z was set by ungroupNodeItem()
  group,     \* the group of a node
  corner,    \* position() of a group item
  collapsed, \* the collapsed groups
  size,      \* width() and height() of a node item
  shape,     \* the size of its bounding shape
  style,     \* the style of an edge item, a QPointer
  arrow,     \* arrowSize of a style, None once it is destroyed
  item,      \* visible, hidden and drawing of an edge item
  late,      \* history: edges nobody told of a change since their last update
  target,    \* the target of the resizer
  minimum,   \* its minimumTargetSize
  grip,      \* _targetInitialSize during a gesture, None otherwise
  preserve   \* preserveRatio of the resizer, with a ratio of 1

layout == <<place, raised, group, corner, collapsed>>
looks == <<style, arrow>>
resizer == <<target, minimum, grip, preserve>>
vars == <<layout, size, shape, looks, item, late, resizer>>

Plus(a, b) == <<a[1] + b[1], a[2] + b[2]>>
Minus(a, b) == <<a[1] - b[1], a[2] - b[2]>>

(* No minimum: a default QSizeF. *)
NoSize == <<-1, -1>>

EdgesOf(n) == {e \in Edge : n \in {Ends[e][1], Ends[e][2]}}
Members(h) == {n \in Node : group[n] = h}
AdjacentEdges(h) == UNION {EdgesOf(n) : n \in Members(h)}

(* mapToItem(container): the group is the parent of its nodes. *)
Scene(n) == IF group[n] = None THEN place[n] ELSE Plus(place[n], corner[group[n]])

ArrowOf(e) == IF style[e] = None THEN DefaultArrow ELSE arrow[style[e]]

(* GeometryCache of an edge for nodes at the given places. *)
Cache(e, at) == [src |-> Box(at[Ends[e][1]], shape[Ends[e][1]]),
                 dst |-> Box(at[Ends[e][2]], shape[Ends[e][2]]),
                 arrow |-> ArrowOf(e)]

Current(e) == Cache(e, [n \in Node |-> Scene(n)])

(* applyGeometry(): the item shows what the cache holds, or is hidden. *)
Applied(c) ==
  IF Hides(c.src, c.dst, c.arrow) THEN [visible |-> FALSE, hidden |-> TRUE, drawing |-> None]
                                  ELSE [visible |-> TRUE, hidden |-> FALSE, drawing |-> c]

(* updateItem() of these edges, once the layout has changed. *)
Update(edges) ==
  /\ item' = [e \in Edge |-> IF e \in edges THEN Applied(Current(e)') ELSE item[e]]
  /\ late' = late \ edges

Init ==
  /\ place \in [Node -> Spots] /\ raised = {}
  /\ group = [n \in Node |-> None]
  /\ corner = [h \in Group |-> <<0, 0>>] /\ collapsed = {}
  /\ size = [n \in Node |-> CHOOSE s \in Sizes : \A t \in Sizes : s[1] <= t[1] /\ s[2] <= t[2]]
  /\ shape = size
  /\ style \in [Edge -> Style]
  /\ arrow = [s \in Style |-> DefaultArrow]
  /\ item = [e \in Edge |-> Applied(Current(e))]
  /\ late = {}
  /\ target = None /\ minimum = NoSize /\ grip = None
  /\ preserve \in BOOLEAN

------------------------------------------------------------------------------
(* xChanged, yChanged of a node item that goes to s in the scene. *)
MoveNode(n, s) ==
  /\ s # Scene(n)
  /\ place' = [place EXCEPT ![n] = Plus(@, Minus(s, Scene(n)))]
  /\ UNCHANGED <<raised, group, corner, collapsed, size, shape, looks, resizer>>
  /\ Update(EdgesOf(n))

(* The visible edges of a group that is not collapsed, groupMoved(). *)
Followed(h, items) == IF h \in collapsed THEN {}
                      ELSE {e \in AdjacentEdges(h) : items[e].visible}

MoveGroup(h, s) ==
  /\ s # corner[h]
  /\ corner' = [corner EXCEPT ![h] = s]
  /\ UNCHANGED <<place, raised, group, collapsed, size, shape, looks, resizer>>
  /\ \A n \in Members(h) : Scene(n)' \in Spots
  /\ Update(Followed(h, item))

Collapse(h) ==
  /\ h \notin collapsed
  /\ collapsed' = collapsed \cup {h}
  /\ item' = [e \in Edge |-> IF e \in AdjacentEdges(h)
                             THEN [item[e] EXCEPT !.visible = FALSE, !.drawing = None]
                             ELSE item[e]]
  /\ UNCHANGED <<place, raised, group, corner, size, shape, looks, late, resizer>>

(* setCollapsed(false) makes every edge of the group visible, groupMoved() *)
(* then has all of them to update.                                         *)
Expand(h) ==
  /\ h \in collapsed
  /\ collapsed' = collapsed \ {h}
  /\ UNCHANGED <<place, raised, group, corner, size, shape, looks, resizer>>
  /\ Update(AdjacentEdges(h))

(* groupNode(): the position is set while the item still has its old parent,   *)
(* its edges are drawn for a place where it never is; once the parent has      *)
(* changed the visible edges of the group are drawn again.                     *)
GroupNode(n, h) ==
  LET s == Minus(place[n], corner[h])
      astray == [m \in Node |-> IF m = n THEN s ELSE Scene(m)]
      moved == [e \in Edge |-> IF s # place[n] /\ e \in EdgesOf(n)
                               THEN Applied(Cache(e, astray)) ELSE item[e]]
      again == IF h \in collapsed THEN {}
               ELSE {e \in EdgesOf(n) \cup AdjacentEdges(h) : moved[e].visible}
  IN /\ group[n] = None
     /\ group' = [group EXCEPT ![n] = h]
     /\ place' = [place EXCEPT ![n] = s]
     /\ UNCHANGED <<raised, corner, collapsed, size, shape, looks, resizer>>
     /\ item' = [e \in Edge |-> IF e \in again THEN Applied(Current(e)') ELSE moved[e]]
     /\ late' = IF s # place[n] THEN late \ EdgesOf(n) ELSE late \ again

(* mapToItem(container) of ungroupNodeItem(). *)
Ungrouped(n) == Scene(n)

(* ungroupNode(): the position is set in the new parent, the first time with  *)
(* a new z. From a group at the origin neither changes the second time, then  *)
(* edges that missed what happened while the group was collapsed stay so.     *)
UngroupNode(n) ==
  LET signals == Ungrouped(n) # place[n] \/ n \notin raised IN
  /\ group[n] # None
  /\ place' = [place EXCEPT ![n] = Ungrouped(n)]
  /\ group' = [group EXCEPT ![n] = None]
  /\ raised' = raised \cup {n}
  /\ UNCHANGED <<corner, collapsed, size, shape, looks, resizer>>
  /\ IF signals THEN Update(EdgesOf(n))
     ELSE /\ late' = IF group[n] \in collapsed THEN late \cup EdgesOf(n) ELSE late
          /\ UNCHANGED item

------------------------------------------------------------------------------
(* widthChanged, heightChanged: the node resets its bounding shape before its  *)
(* edges are told, they were connected later.                                  *)
Sized(n, s) ==
  /\ s \in Sizes
  /\ size' = [size EXCEPT ![n] = s]
  /\ shape' = IF s # size[n] THEN [shape EXCEPT ![n] = s] ELSE shape
  /\ UNCHANGED <<layout, looks>>
  /\ Update(IF s # size[n] THEN EdgesOf(n) ELSE {})

(* setWidth(), setHeight() by a program; bound of the model: not during a *)
(* gesture.                                                               *)
Resize(n, s) ==
  /\ grip = None
  /\ s # size[n]
  /\ Sized(n, s)
  /\ UNCHANGED resizer

(* setBoundingShape(): no edge listens to boundingShapeChanged. *)
SetBoundingShape(n, s) ==
  /\ s # shape[n]
  /\ shape' = [shape EXCEPT ![n] = s]
  /\ late' = late \cup EdgesOf(n)
  /\ UNCHANGED <<layout, size, looks, item, resizer>>

(* EdgeItem::setStyle() connects to the style and draws nothing. *)
SetStyle(e, s) ==
  /\ s # style[e] /\ (s # None => arrow[s] # None)
  /\ style' = [style EXCEPT ![e] = s]
  /\ late' = late \cup {e}
  /\ UNCHANGED <<layout, size, shape, arrow, item, resizer>>

(* Mutant of SetArrowSize: updateItem() is not connected to the style. *)
SetArrowSizeSilently(s, a) ==
  /\ arrow[s] # None /\ a # arrow[s]
  /\ arrow' = [arrow EXCEPT ![s] = a]
  /\ UNCHANGED <<layout, size, shape, style, item, late, resizer>>

(* EdgeStyle::setArrowSize(), arrowSizeChanged: the edges of the style follow. *)
SetArrowSize(s, a) ==
  /\ arrow[s] # None /\ a # arrow[s]
  /\ arrow' = [arrow EXCEPT ![s] = a]
  /\ UNCHANGED <<layout, size, shape, style, resizer>>
  /\ Update({e \in Edge : style[e] = s})

(* The pointers of the edges are null when destroyed() is emitted: setStyle() *)
(* in styleDestroyed() finds nothing to change and signals nothing.           *)
DestroyStyle(s) ==
  /\ arrow[s] # None
  /\ arrow' = [arrow EXCEPT ![s] = None]
  /\ style' = [e \in Edge |-> IF style[e] = s THEN None ELSE style[e]]
  /\ late' = late \cup {e \in Edge : style[e] = s}
  /\ UNCHANGED <<layout, size, shape, item, resizer>>

------------------------------------------------------------------------------
Larger(a, b) == <<IF a[1] < b[1] THEN b[1] ELSE a[1], IF a[2] < b[2] THEN b[2] ELSE a[2]>>

(* configureTarget(), setMinimumTargetSize(): a target is brought to the *)
(* minimum when it gets one.                                             *)
Configured(n, m) == Larger(size[n], m)

SetTarget(n) ==
  /\ n # target
  /\ target' = n
  /\ Sized(n, Configured(n, minimum))
  /\ UNCHANGED <<minimum, grip, preserve>>

(* setTarget(nullptr) does not end the gesture. *)
ResetTarget ==
  /\ target # None
  /\ target' = None
  /\ UNCHANGED <<layout, size, shape, looks, item, late, minimum, grip, preserve>>

SetMinimum(m) ==
  /\ m # minimum
  /\ minimum' = m
  /\ IF target = None THEN UNCHANGED <<layout, size, shape, looks, item, late>>
                      ELSE Sized(target, Configured(target, m))
  /\ UNCHANGED <<target, grip, preserve>>

Press ==
  /\ target # None
  /\ grip' = size[target]
  /\ UNCHANGED <<layout, size, shape, looks, item, late, target, minimum, preserve>>

(* Mutant of Stretched: the width is not compared with the minimum. *)
StretchedFreely(d) == <<grip[1] + d[1], grip[2] + d[2]>>

(* The size a move of the handler gives the target: a width at or below the    *)
(* minimum is not set, with preserveRatio the height is that of the minimum    *)
(* width then.                                                                 *)
Stretched(d) ==
  LET w == grip[1] + d[1]
      h == IF preserve THEN IF w > minimum[1] THEN w ELSE minimum[1]
                       ELSE grip[2] + d[2]
  IN <<IF w > minimum[1] THEN w ELSE size[target][1],
       IF h >= minimum[2] THEN h ELSE size[target][2]>>

(* eventFilter(), MouseMove: a target without area is not resized. *)
Drag(d) ==
  /\ target # None /\ grip # None
  /\ grip[1] > 0 /\ grip[2] > 0
  /\ Sized(target, Stretched(d))
  /\ UNCHANGED resizer

Release ==
  /\ grip # None
  /\ grip' = None
  /\ UNCHANGED <<layout, size, shape, looks, item, late, target, minimum, preserve>>

Next ==
  \/ \E n \in Node, s \in Spots : MoveNode(n, s)
  \/ \E h \in Group, s \in Corners : MoveGroup(h, s)
  \/ \E h \in Group : Collapse(h) \/ Expand(h)
  \/ \E n \in Guests, h \in Group : GroupNode(n, h)
  \/ \E n \in Guests : UngroupNode(n)
  \/ \E n \in Targets, s \in Sizes : Resize(n, s)
  \/ \E n \in Targets, s \in Shapes : SetBoundingShape(n, s)
  \/ \E e \in Edge, s \in Style \cup {None} : SetStyle(e, s)
  \/ \E s \in Style, a \in Arrows : SetArrowSize(s, a)
  \/ \E s \in Style : DestroyStyle(s)
  \/ \E n \in Targets : SetTarget(n)
  \/ ResetTarget
  \/ \E m \in Minimums : SetMinimum(m)
  \/ Press
  \/ \E d \in Strides : Drag(d)
  \/ Release

Spec == Init /\ [][Next]_vars

------------------------------------------------------------------------------
(* An edge that is shown is drawn for the places and sizes its ends have and   *)
(* for its style, after any order of moves, resizes and group changes: some    *)
(* signal reached it, and its property hidden does not say it should not be    *)
(* shown (qanEdgeItem.h:131). Exceptions: an end in a collapsed group, and     *)
(* what the code tells no edge: a new bounding shape, a style that is replaced *)
(* or destroyed, a node that leaves a collapsed group without changing         *)
(* position (qanEdgeItem.cpp:205, 884; qanGroupItem.cpp:190).                  *)
VisibleIsFresh ==
  \A e \in Edge :
    /\ item[e].hidden => ~item[e].visible
    /\ /\ item[e].visible /\ e \notin late
       /\ group[Ends[e][1]] \notin collapsed /\ group[Ends[e][2]] \notin collapsed
       => item[e].drawing = Current(e)

(* "Target could not be resized below minimumTargetSize"                      *)
(* (qanBottomRightResizer.h:181): whatever the resizer does, in the middle of *)
(* a gesture or not, leaves each dimension as it was or at the minimum.       *)
MinimumKept ==
  [][LET n == target' IN
     n # None /\ (n # target \/ minimum' # minimum \/ grip # None)
       => \A i \in 1 .. 2 : \/ size'[n][i] >= minimum'[i]
                            \/ /\ size'[n][i] = size[n][i]
                               /\ n = target /\ minimum' = minimum]_vars
==============================================================================
