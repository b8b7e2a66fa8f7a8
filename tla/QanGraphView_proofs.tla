-------------------------- MODULE QanGraphView_proofs --------------------------
(***************************************************************************)
(* Proofs about the view of a graph: the selection (QanSelection), and the *)
(* position, the zoom and the grid of the view (QanNavigable, QanGrid).    *)
(*                                                                         *)
(* For every set of nodes and groups, the two invariants of the selection  *)
(* are inductive once put together with the types and with what holds      *)
(* during a walk of clearSelection() (Walk): what is listed and still in   *)
(* the graph is flagged, what is lit is flagged, what is listed but gone   *)
(* is a group; what a walk has visited is selected nowhere, and what it    *)
(* has still to visit is in the graph or in the lists.                     *)
(*                                                                         *)
(* Positions and zooms are integers on the grid of the model; a quotient   *)
(* is used only where it is exact, or rounded as the code rounds it, so    *)
(* that the arithmetic of the steps is that of products.  The lemmas on    *)
(* products come first: the provers find no step of that kind by           *)
(* themselves.                                                             *)
(***************************************************************************)
EXTENDS QanSelection, QanNavigable, TLAPS

Selected == TypeOK /\ ListedAreFlagged /\ ListedNodesLive

(* What holds while clearSelection() walks over its copies of the lists. *)
Walk ==
  /\ loop = "none" => copy = {} /\ visited = {} /\ clicked = NoNode
  /\ loop = "nodes" => copy \subseteq Node /\ listed \cap Node \subseteq copy
  /\ loop = "groups" => listed \subseteq copy \cap Group
  /\ visited \cap (flagged \cup listed) = {}
  /\ Pending \ prims \subseteq listed
  /\ clicked # NoNode => clicked \in (prims \ flagged) \ copy

IInv == Selected /\ Walk

------------------------------------------------------------------------------
(* The operations on the look of the selection items.                       *)

(* Putting items out keeps the type of the looks and lights none. *)
LEMMA DimmedType ==
  ASSUME shown \in [Primitive -> Shown], NEW X
  PROVE  /\ Dimmed(X) \in [Primitive -> Shown]
         /\ \A q \in Primitive :
              Dimmed(X)[q] = "SELECTED" => shown[q] = "SELECTED" /\ q \notin X
  BY DEF Dimmed, Shown

(* Lighting one item keeps the type of the looks and lights no other. *)
LEMMA LitType ==
  ASSUME shown \in [Primitive -> Shown], NEW p \in Primitive, NEW lit \in Lit(p)
  PROVE  /\ lit \in [Primitive -> Shown]
         /\ \A q \in Primitive \ {p} : lit[q] = shown[q]
  BY DEF Lit, Shown

(* A new selection item is lit only for a primitive that is selected. *)
LEMMA InstalledType ==
  ASSUME NEW p
  PROVE  Installed(p) \in Shown /\ (Installed(p) = "SELECTED" => p \in flagged)
  BY DEF Installed, Shown

------------------------------------------------------------------------------
(* Steps shared by several operations.                                      *)

LEMMA AddToSelectionStep ==
  ASSUME Selected, NEW p \in Primitive, AddToSelection(p), ~crashed, UNCHANGED walkVars
  PROVE  Selected'
  <1>1. TypeOK'
    BY LitType DEF AddToSelection, Selected, TypeOK, walkVars
  <1>2. ListedAreFlagged'
    BY LitType DEF AddToSelection, Selected, TypeOK, ListedAreFlagged
  <1>3. ListedNodesLive'
    BY DEF AddToSelection, Selected, ListedNodesLive
  <1> QED BY <1>1, <1>2, <1>3 DEF Selected

LEMMA RemoveFromSelectionStep ==
  ASSUME Selected, NEW p \in Primitive, RemoveFromSelection(p), ~crashed, UNCHANGED walkVars
  PROVE  Selected'
  BY DEF RemoveFromSelection, Selected, TypeOK, ListedAreFlagged, ListedNodesLive, walkVars

LEMMA UnselectStep ==
  ASSUME Selected, NEW p \in Primitive, Unselect(p), prims' = prims, selectable' \in SUBSET prims,
         visited' \in SUBSET copy, UNCHANGED <<policy, crashed, loop, copy, clicked>>, ~crashed
  PROVE  Selected'
  <1>1. TypeOK'
    BY DimmedType DEF Unselect, Selected, TypeOK
  <1>2. ListedAreFlagged'
    BY DimmedType DEF Unselect, Selected, TypeOK, ListedAreFlagged
  <1>3. ListedNodesLive'
    BY DEF Unselect, Selected, ListedNodesLive
  <1> QED BY <1>1, <1>2, <1>3 DEF Selected

LEMMA SetSelectedStep ==
  ASSUME Selected, NEW p \in Primitive, NEW b \in BOOLEAN, SetSelected(p, b), ~crashed,
         UNCHANGED walkVars
  PROVE  Selected'
  <1>1. CASE b
    <2>1. TypeOK'
      BY <1>1, LitType DEF SetSelected, Selected, TypeOK, walkVars
    <2>2. ListedAreFlagged'
      BY <1>1, LitType DEF SetSelected, Selected, TypeOK, ListedAreFlagged
    <2> QED BY <1>1, <2>1, <2>2 DEF SetSelected, Selected, ListedNodesLive
  <1>2. CASE ~b
    BY <1>2, UnselectStep DEF SetSelected, Selected, TypeOK, walkVars
  <1> QED BY <1>1, <1>2

LEMMA DestroyStep ==
  ASSUME Selected, NEW X, Destroy(X), listed' \subseteq listed,
         (listed' \cap Node) \cap X = {}, ~crashed, UNCHANGED walkVars
  PROVE  Selected'
  <1>1. TypeOK'
    BY DEF Destroy, Selected, TypeOK, Shown, walkVars
  <1>2. ListedAreFlagged'
    BY DEF Destroy, Selected, TypeOK, ListedAreFlagged
  <1>3. ListedNodesLive'
    BY DEF Destroy, Selected, ListedNodesLive
  <1> QED BY <1>1, <1>2, <1>3 DEF Selected

(* A new selection item keeps what is lit flagged. *)
LEMMA SelectionItemStep ==
  ASSUME Selected, ~crashed,
         UNCHANGED <<prims, listed, flagged, selectable, selectedNode, policy, crashed, walkVars>>,
         shown' \in [Primitive -> Shown],
         \A q \in Primitive : shown'[q] \in {shown[q], Installed(q)}
  PROVE  Selected'
  <1>1. ListedAreFlagged'
    BY InstalledType DEF Selected, ListedAreFlagged
  <1> QED BY <1>1 DEF Selected, TypeOK, ListedNodesLive, walkVars

(* Every operation outside a walk keeps the lists and the items together. *)
LEMMA OperationStep ==
  ASSUME Selected, ~crashed, Operation, UNCHANGED walkVars
  PROVE  Selected'
  <1>1. ASSUME NEW p \in Primitive, Insert(p) PROVE Selected'
    BY <1>1 DEF Insert, Selected, TypeOK, ListedAreFlagged, ListedNodesLive, walkVars
  <1>2. ASSUME NEW n \in Node, RemoveNode(n) PROVE Selected'
    BY <1>2, DestroyStep DEF RemoveNode
  <1>3. ASSUME NEW g \in Group, RemoveGroup(g) PROVE Selected'
    <2>1. listed' = listed /\ Destroy({g})
      BY <1>3 DEF RemoveGroup
    <2>2. (listed' \cap Node) \cap {g} = {}
      BY SelectionAssumption
    <2> QED BY <2>1, <2>2, DestroyStep
  <1>4. CASE Clear
    BY <1>4, DestroyStep DEF Clear
  <1>5. ASSUME NEW p \in Primitive, AddToSelection(p) PROVE Selected'
    BY <1>5, AddToSelectionStep
  <1>6. ASSUME NEW p \in Primitive, RemoveFromSelection(p) PROVE Selected'
    BY <1>6, RemoveFromSelectionStep
  <1>7. ASSUME NEW p \in Primitive, NEW b \in BOOLEAN, SetSelected(p, b) PROVE Selected'
    BY <1>7, SetSelectedStep
  <1>8. ASSUME NEW p \in Primitive, NEW b \in BOOLEAN, SetSelectable(p, b) PROVE Selected'
    <2>1. /\ p \in prims /\ prims' = prims /\ UNCHANGED <<policy, crashed>>
          /\ selectable' \in SUBSET prims
      BY <1>8 DEF SetSelectable, Selected, TypeOK
    <2>2. CASE Unselect(p)
      BY <2>1, <2>2, UnselectStep DEF Selected, TypeOK, walkVars
    <2>3. CASE UNCHANGED <<listed, flagged, shown, selectedNode>>
      BY <2>1, <2>3 DEF Selected, TypeOK, ListedAreFlagged, ListedNodesLive, walkVars
    <2> QED BY <1>8, <2>2, <2>3 DEF SetSelectable
  <1>9. ASSUME NEW n \in Node \cup {NoNode}, SetSelectedNode(n) PROVE Selected'
    BY <1>9 DEF SetSelectedNode, Selected, TypeOK, ListedAreFlagged, ListedNodesLive, walkVars
  <1>10. CASE ConfigureSelectionItems
    BY <1>10 DEF ConfigureSelectionItems, Crash, Selected, TypeOK, ListedAreFlagged, ListedNodesLive,
                 Primitive, walkVars
  <1>11. ASSUME NEW p \in Primitive, SetSelectionItem(p) PROVE Selected'
    BY <1>11, InstalledType, SelectionItemStep DEF SetSelectionItem, Selected, TypeOK
  <1>12. CASE SetSelectionDelegate
    <2>1. \A q \in Primitive : shown'[q] \in {shown[q], Installed(q)}
      BY <1>12 DEF SetSelectionDelegate
    <2>2. shown' \in [Primitive -> Shown]
      BY <1>12, InstalledType DEF SetSelectionDelegate, Shown
    <2> QED BY <1>12, <2>1, <2>2, SelectionItemStep DEF SetSelectionDelegate
  <1> QED
    BY <1>1, <1>2, <1>3, <1>4, <1>5, <1>6, <1>7, <1>8, <1>9, <1>10, <1>11, <1>12 DEF Operation

------------------------------------------------------------------------------
(* The walk of clearSelection().                                            *)

(* Outside a walk there is nothing to visit. *)
LEMMA OutsideWalk ==
  ASSUME Walk, loop = "none", UNCHANGED walkVars
  PROVE  Walk'
  BY DEF Walk, Pending, walkVars

(* An item that is clicked on is not in the lists a walk copies. *)
LEMMA BeginStep ==
  ASSUME IInv, ~crashed, NEW p, p = NoNode \/ p \in prims \ flagged, BeginClear(p), policy' \in Policy
  PROVE  IInv'
  <1> USE DEF IInv, Selected
  <1>1. TypeOK'
    BY DEF BeginClear, TypeOK, Primitive
  <1>2. ListedAreFlagged' /\ ListedNodesLive'
    BY DEF BeginClear, ListedAreFlagged, ListedNodesLive
  <1>3. Walk'
    BY DEF BeginClear, Walk, Pending, ListedAreFlagged, ListedNodesLive
  <1> QED BY <1>1, <1>2, <1>3

(* An item unselected on the way leaves nothing to do for the walk. *)
LEMMA UnselectInWalk ==
  ASSUME Walk, NEW q, q \in prims, Unselect(q), visited' \in {visited, visited \cup {q}},
         UNCHANGED <<prims, loop, copy, clicked>>, loop # "none"
  PROVE  Walk'
  BY DEF Walk, Pending, Unselect

(* A walk fails on a group that was removed, and on nothing else. *)
LEMMA VisitStep ==
  ASSUME IInv, ~crashed, loop # "none", NEW q \in Primitive, Visit(q)
  PROVE  IInv'
  <1> USE DEF IInv
  <1>1. CASE q \in prims
    <2>1. /\ Unselect(q) /\ visited' = visited \cup {q} /\ q \in copy
          /\ UNCHANGED <<prims, selectable, policy, crashed, loop, copy, clicked>>
      BY <1>1 DEF Visit, Pending
    <2>2. Walk'
      BY <1>1, <2>1, UnselectInWalk
    <2> QED BY <2>1, <2>2, UnselectStep DEF Selected, TypeOK
  <1>2. CASE q \notin prims
    <2>1. q \in Pending /\ Crash /\ UNCHANGED walkVars
      BY <1>2 DEF Visit
    <2>2. q \in (listed \cap Group) \ prims
      BY <1>2, <2>1 DEF Walk, Selected, ListedNodesLive, TypeOK, Primitive
    <2>3. Selected'
      BY <2>1, <2>2 DEF Crash, Selected, TypeOK, ListedAreFlagged, ListedNodesLive, walkVars
    <2> QED BY <2>1, <2>3 DEF Crash, Walk, Pending, walkVars
  <1> QED BY <1>1, <1>2

LEMMA HandlerStep ==
  ASSUME IInv, ~crashed, loop # "none", NEW q \in Primitive, Handler(q)
  PROVE  IInv'
  <1>1. SetSelected(q, FALSE) /\ UNCHANGED walkVars
    BY DEF Handler
  <1>2. Selected'
    BY <1>1, SetSelectedStep DEF IInv
  <1>3. Walk'
    BY <1>1, UnselectInWalk DEF IInv, SetSelected, walkVars
  <1> QED BY <1>2, <1>3 DEF IInv

LEMMA NodesClearedStep ==
  ASSUME IInv, ~crashed, NodesCleared
  PROVE  IInv'
  <1> USE DEF IInv, Selected
  <1>1. TypeOK'
    BY DEF NodesCleared, TypeOK
  <1>2. ListedAreFlagged' /\ ListedNodesLive'
    BY DEF NodesCleared, ListedAreFlagged, ListedNodesLive
  <1>3. Walk'
    BY DEF NodesCleared, Walk, Pending, ListedAreFlagged, TypeOK, Primitive
  <1> QED BY <1>1, <1>2, <1>3

(* When the walk is over the lists are empty by themselves, and nothing that  *)
(* was in them is selected.                                                   *)
LEMMA WalkedOver ==
  ASSUME IInv, GroupsCleared
  PROVE  /\ copy \cap flagged = {} /\ copy \cap listed = {} /\ listed = {}
         /\ clicked # NoNode => clicked \in (prims \ flagged) \ copy
         /\ clicked # NoNode => clicked \in Primitive
  BY DEF IInv, Selected, TypeOK, Walk, Pending, GroupsCleared

LEMMA GroupsClearedStep ==
  ASSUME IInv, ~crashed, GroupsCleared
  PROVE  IInv'
  <1> USE DEF IInv, Selected
  <1>1. TypeOK'
    BY WalkedOver, LitType DEF GroupsCleared, TypeOK, Primitive
  <1>2. ListedAreFlagged'
    BY WalkedOver, LitType DEF GroupsCleared, ListedAreFlagged, TypeOK
  <1>3. ListedNodesLive'
    BY WalkedOver DEF GroupsCleared, ListedNodesLive
  <1>4. Walk'
    BY DEF GroupsCleared, Walk, Pending
  <1> QED BY <1>1, <1>2, <1>3, <1>4

------------------------------------------------------------------------------
(* Every step keeps the invariant. *)
LEMMA InvStep == IInv /\ [Next]_vars => IInv'
<1> SUFFICES ASSUME IInv, [Next]_vars PROVE IInv'
  OBVIOUS
<1>1. CASE UNCHANGED vars
  BY <1>1 DEF vars, walkVars, IInv, Selected, Walk, Pending, TypeOK, ListedAreFlagged, ListedNodesLive
<1>2. CASE Next
  <2> USE <1>2
  <2>0. ~crashed
    BY DEF Next
  <2>1. CASE loop = "none" /\ Operation /\ UNCHANGED walkVars
    BY <2>0, <2>1, OperationStep, OutsideWalk DEF IInv
  <2>2. ASSUME NEW p \in Primitive, NEW ctrl \in BOOLEAN, loop = "none", Click(p, ctrl) PROVE IInv'
    <3>1. CASE BeginClear(p) /\ UNCHANGED policy /\ p \notin flagged
      BY <2>0, <2>2, <3>1, BeginStep DEF Click, IInv, Selected, TypeOK
    <3>2. CASE (AddToSelection(p) \/ RemoveFromSelection(p)) /\ UNCHANGED walkVars
      BY <2>0, <2>2, <3>2, AddToSelectionStep, RemoveFromSelectionStep, OutsideWalk DEF IInv
    <3> QED BY <2>2, <3>1, <3>2 DEF Click
  <2>3. CASE ClickBeside
    BY <2>0, <2>3, BeginStep DEF ClickBeside, IInv, Selected, TypeOK
  <2>4. ASSUME NEW p \in Policy, loop = "none", SetSelectionPolicy(p) PROVE IInv'
    <3>1. CASE BeginClear(NoNode)
      BY <2>0, <2>4, <3>1, BeginStep DEF SetSelectionPolicy
    <3>2. CASE UNCHANGED <<prims, listed, flagged, shown, selectable, selectedNode, crashed, walkVars>>
      <4>1. Selected'
        BY <2>4, <3>2 DEF SetSelectionPolicy, IInv, Selected, TypeOK, ListedAreFlagged, ListedNodesLive,
                          walkVars
      <4> QED BY <2>4, <3>2, <4>1, OutsideWalk DEF IInv
    <3> QED BY <2>4, <3>1, <3>2 DEF SetSelectionPolicy
  <2>5. ASSUME NEW q \in Primitive, loop # "none", Visit(q) \/ Handler(q) PROVE IInv'
    BY <2>0, <2>5, VisitStep, HandlerStep
  <2>6. CASE NodesCleared
    BY <2>0, <2>6, NodesClearedStep
  <2>7. CASE GroupsCleared
    BY <2>0, <2>7, GroupsClearedStep
  <2> QED BY <2>1, <2>2, <2>3, <2>4, <2>5, <2>6, <2>7 DEF Next
<1> QED BY <1>1, <1>2

LEMMA Invariance == Spec => []IInv
<1>1. Init => IInv
  BY DEF Init, IInv, Selected, Walk, Pending, TypeOK, ListedAreFlagged, ListedNodesLive, Shown, Policy
<1> QED BY <1>1, InvStep, PTL DEF Spec

(* The types, and that what is listed is flagged and what is lit is         *)
(* selected: the lists, the items' property and the selection items agree   *)
(* in every reachable state.                                                *)
THEOREM SelectionCoherent == Spec => [](TypeOK /\ ListedAreFlagged)
  BY Invariance, PTL DEF IInv, Selected

(* No removed node is left in the lists, and a walk over the lists, or over *)
(* the copies clearSelection() has made of them while the lists went on     *)
(* changing, fails only on a group that was removed.                        *)
THEOREM SelectionLive == Spec => []ListedNodesLive
  BY Invariance, PTL DEF IInv, Selected

(* When clearSelection() is done nothing that was in the lists when it      *)
(* copied them is selected or highlighted, although each item it visits     *)
(* takes itself out of the list and handlers unselect others on the way;    *)
(* an item that was clicked on is selected, alone in the lists.             *)
THEOREM ClearedSelection == Spec => SelectionCleared
<1>1. ASSUME IInv, Next, loop = "groups", loop' = "none"
      PROVE  /\ listed' = {clicked} \ {NoNode}
             /\ \A q \in copy : q \notin flagged' /\ shown'[q] # "SELECTED"
             /\ clicked # NoNode => clicked \in flagged' /\ shown'[clicked] # "UNSELECTED"
  <2>1. GroupsCleared
    BY <1>1 DEF Next, Visit, Handler, NodesCleared, walkVars
  <2>2. /\ copy \cap flagged = {} /\ listed = {}
        /\ clicked # NoNode => clicked \in (prims \ flagged) \ copy
        /\ clicked # NoNode => clicked \in Primitive
    BY <1>1, <2>1, WalkedOver
  <2>3. shown \in [Primitive -> Shown] /\ copy \subseteq Primitive
    BY <1>1 DEF IInv, Selected, TypeOK
  <2>4. \A q \in copy : shown[q] # "SELECTED"
    BY <1>1, <2>2, <2>3 DEF IInv, Selected, ListedAreFlagged
  <2>5. CASE clicked = NoNode
    BY <2>1, <2>2, <2>4, <2>5 DEF GroupsCleared
  <2>6. CASE clicked # NoNode
    <3>1. shown' \in Lit(clicked)
      BY <2>1, <2>6 DEF GroupsCleared
    <3>2. \A q \in copy : shown'[q] = shown[q]
      BY <2>2, <2>3, <2>6, <3>1, LitType
    <3>3. shown'[clicked] # "UNSELECTED"
      BY <2>2, <2>3, <2>6, <3>1 DEF Lit
    <3> QED BY <2>1, <2>2, <2>4, <2>6, <3>2, <3>3 DEF GroupsCleared
  <2> QED BY <2>5, <2>6
<1>2. IInv /\ [Next]_vars =>
        [loop = "groups" /\ loop' = "none" =>
           /\ listed' = {clicked} \ {NoNode}
           /\ \A q \in copy : q \notin flagged' /\ shown'[q] # "SELECTED"
           /\ clicked # NoNode => clicked \in flagged' /\ shown'[clicked] # "UNSELECTED"]_vars
  BY <1>1
<1> QED BY <1>2, Invariance, PTL DEF Spec, SelectionCleared
------------------------------------------------------------------------------
(* The container is in the bounds of the model. *)
ViewTypeOK ==
  /\ x \in (-Extent) .. Extent
  /\ zoom \in 1 .. MaxZoom
  /\ geometry \in Geometries
  /\ content \in Contents

------------------------------------------------------------------------------
(* Integers. *)

LEMMA Division ==
  ASSUME NEW a \in Int, NEW b \in Int, b > 0
  PROVE  /\ a \div b \in Int /\ (a % b) \in Int
         /\ a = b * (a \div b) + (a % b)
         /\ 0 <= (a % b) /\ (a % b) < b
  OBVIOUS

LEMMA ExactQuotient ==
  ASSUME NEW a \in Int, NEW b \in Int, b > 0, Exact(a, b)
  PROVE  a \div b \in Int /\ (a \div b) * b = a
  BY Division DEF Exact

LEMMA ProductGrows ==
  ASSUME NEW a \in Int, NEW b \in Int, NEW c \in Int, c > 0
  PROVE  (a <= b <=> a * c <= b * c) /\ (a < b <=> a * c < b * c)
  OBVIOUS

LEMMA ProductType ==
  ASSUME NEW a \in Int, NEW b \in Int
  PROVE  a * b \in Int /\ a * b = b * a
  OBVIOUS

LEMMA ProductSum ==
  ASSUME NEW a \in Int, NEW b \in Int, NEW c \in Int
  PROVE  (a + b) * c = a * c + b * c /\ (a - b) * c = a * c - b * c
  OBVIOUS

(* A rounded quotient, down and up. *)
LEMMA FloorBounds ==
  ASSUME NEW a \in Int, NEW b \in Int, b > 0
  PROVE  /\ FloorDiv(a, b) \in Int
         /\ FloorDiv(a, b) * b <= a /\ a < (FloorDiv(a, b) + 1) * b
  <1> DEFINE q == a \div b
  <1>1. q \in Int /\ a = b * q + (a % b) /\ 0 <= (a % b) /\ (a % b) < b /\ (a % b) \in Int
    BY Division
  <1>2. (q + 1) * b = q * b + b /\ b * q = q * b /\ q * b \in Int
    BY <1>1
  <1> HIDE DEF q
  <1>3. q * b <= a /\ a < (q + 1) * b
    BY <1>1, <1>2
  <1> QED BY <1>1, <1>3 DEF FloorDiv, q

LEMMA CeilBounds ==
  ASSUME NEW a \in Int, NEW b \in Int, b > 0
  PROVE  /\ CeilDiv(a, b) \in Int
         /\ a <= CeilDiv(a, b) * b /\ (CeilDiv(a, b) - 1) * b < a
  <1> DEFINE q == (-a) \div b
  <1>1. q \in Int /\ -a = b * q + ((-a) % b) /\ 0 <= ((-a) % b) /\ ((-a) % b) < b /\ ((-a) % b) \in Int
    BY Division
  <1>2. (-q) * b = -(b * q) /\ (-q - 1) * b = -(b * q) - b /\ b * q \in Int
    BY <1>1
  <1> HIDE DEF q
  <1>3. a <= (-q) * b /\ (-q - 1) * b < a
    BY <1>1, <1>2
  <1> QED BY <1>1, <1>3 DEF CeilDiv, q

------------------------------------------------------------------------------
(* The grid. *)

(* Ticks are apart, at any zoom. *)
LEMMA StepPositive ==
  ASSUME NEW z \in Nat, z >= 1
  PROVE  AdaptativeScale(z) * z \in Int /\ AdaptativeScale(z) * z >= 1
  <1>0. One \in Int /\ One >= 1 /\ GridScale \in Int /\ GridScale >= 1
    BY GridAssumption
  <1>1. CASE z >= One
    <2>1. AdaptativeScale(z) = GridScale
      BY <1>0, <1>1 DEF AdaptativeScale
    <2> QED BY <1>0, <2>1
  <1>2. CASE z < One
    <2> DEFINE a == GridScale * One
               q == a \div z
    <2>1. AdaptativeScale(z) = q
      BY <1>2 DEF AdaptativeScale
    <2>2. a \in Int /\ a >= One
      BY <1>0
    <2> HIDE DEF a
    <2>3. q \in Int /\ a = z * q + (a % z) /\ (a % z) < z /\ (a % z) \in Int
      BY <2>2, Division
    <2> HIDE DEF q
    <2>4. z * q \in Int /\ z * q > 0
      BY <1>0, <1>2, <2>2, <2>3
    <2> QED BY <2>1, <2>3, <2>4
  <1> QED BY <1>0, <1>1, <1>2

(* The ticks that are shown, by their numbers. *)
LEMMA TicksAre ==
  ASSUME NEW at \in Int, NEW width \in Int, NEW z \in Nat, z >= 1, NEW step, step = AdaptativeScale(z) * z
  PROVE  /\ FirstTick(at, z) \in Int /\ CeilDiv(Right(at, width), step) \in Int
         /\ \A t : t \in Ticks(at, width, z) <=>
              t \in Int /\ FirstTick(at, z) <= t /\ t < CeilDiv(Right(at, width), step)
  <1>1. Left(at) \in Int /\ Right(at, width) \in Int
    BY GridAssumption DEF Left, Right
  <1>2. step \in Int /\ step >= 1
    BY StepPositive
  <1> DEFINE q == FirstTick(at, z)
             c == CeilDiv(Right(at, width), step)
  <1>3. q \in Int /\ c \in Int
    BY <1>1, <1>2, FloorBounds, CeilBounds DEF FirstTick
  <1>4. TickCount(at, width, z) = c - q
    BY DEF TickCount
  <1>5. Ticks(at, width, z) = {q + npx : npx \in 0 .. (c - q) - 1}
    BY <1>4 DEF Ticks
  <1> HIDE DEF q, c
  <1>6. ASSUME NEW t \in {q + npx : npx \in 0 .. (c - q) - 1} PROVE t \in Int /\ q <= t /\ t < c
    BY <1>3
  <1>7. ASSUME NEW t \in Int, q <= t, t < c PROVE t \in {q + npx : npx \in 0 .. (c - q) - 1}
    <2>1. t - q \in 0 .. (c - q) - 1 /\ t = q + (t - q)
      BY <1>3, <1>7
    <2> QED BY <2>1
  <1> QED BY <1>3, <1>5, <1>6, <1>7 DEF q, c

LEMMA Covers == ViewTypeOK => GridCovers
<1> SUFFICES ASSUME ViewTypeOK PROVE GridCovers
  OBVIOUS
<1> DEFINE step == AdaptativeScale(zoom) * zoom
           ticks == Ticks(x, geometry.width, zoom)
           range == -(Extent + 1) * MaxZoom .. (Extent + geometry.width + 1) * MaxZoom
           L == Left(x)
           R == Right(x, geometry.width)
           wanted == {t \in range : L <= t * step /\ t * step < R}
           q == FirstTick(x, zoom)
           c == CeilDiv(R, step)
           W == geometry.width
<1>1. /\ x \in Int /\ -Extent <= x /\ x <= Extent /\ zoom \in Nat /\ zoom >= 1
      /\ W \in Int /\ W > 0 /\ Extent \in Int /\ Extent >= 0
      /\ MaxZoom \in Int /\ MaxZoom >= One /\ One \in Int /\ One >= 1
  BY NavigableAssumption, GridAssumption DEF ViewTypeOK
<1>2. step \in Int /\ step >= 1
  BY <1>1, StepPositive
<1>3. L \in Int /\ R \in Int /\ L = (0 - x) * One /\ R = (W - x) * One
  BY <1>1 DEF Left, Right
<1>4. /\ q \in Int /\ c \in Int
      /\ \A t : t \in ticks <=> t \in Int /\ q <= t /\ t < c
  BY <1>1, TicksAre
<1>5. q = FloorDiv(L, step)
  BY DEF FirstTick
<1> HIDE DEF step, L, R
<1>6. q * step <= L /\ L < (q + 1) * step
  BY <1>2, <1>3, <1>5, FloorBounds
<1>7. R <= c * step /\ (c - 1) * step < R
  BY <1>2, <1>3, CeilBounds
<1>8. range \subseteq Int
  OBVIOUS
<1> HIDE DEF ticks, q, c, W
<1>9. ASSUME NEW t \in Int, L <= t * step, t * step < R PROVE t \in ticks
  <2>0. t * step \in Int /\ q * step \in Int /\ c * step \in Int
    BY <1>2, <1>4
  <2>1. q * step <= t * step /\ t * step < c * step
    BY <1>3, <1>6, <1>7, <1>9, <2>0
  <2>2. q <= t /\ t < c
    BY <1>2, <1>4, <2>1, ProductGrows
  <2> QED BY <1>4, <2>2
<1>10. ASSUME NEW t \in ticks, t + 1 \in ticks PROVE t + 1 \in wanted
  <2> DEFINE k == t + 1
  <2>1. k \in Int /\ q + 1 <= k /\ k <= c - 1
    BY <1>4, <1>10
  <2> HIDE DEF k
  <2>0. k * step \in Int /\ (q + 1) * step \in Int /\ (c - 1) * step \in Int
    BY <1>2, <1>4, <2>1
  <2>2. (q + 1) * step <= k * step /\ k * step <= (c - 1) * step
    BY <1>2, <1>4, <2>1, ProductGrows
  <2>3. L < k * step /\ k * step < R
    BY <1>3, <1>6, <1>7, <2>0, <2>2
  <2> DEFINE lo == -(Extent * MaxZoom)
             hi == (Extent + W) * MaxZoom
  <2>4. lo \in Int /\ hi \in Int
    BY <1>1
  <2>5. lo * step <= L /\ R <= hi * step
    <3> DEFINE m == MaxZoom * step
    <3>1. m \in Int /\ One <= m
      BY <1>1, <1>2
    <3>2. lo * step = -(Extent * m) /\ hi * step = (Extent + W) * m
      BY <1>1, <1>2
    <3> HIDE DEF m
    <3>3. Extent * One <= Extent * m /\ (Extent + W) * One <= (Extent + W) * m
      BY <1>1, <3>1
    <3>4. -(Extent * One) <= (0 - x) * One /\ (W - x) * One <= (Extent + W) * One
      BY <1>1
    <3>5. /\ Extent * One \in Int /\ Extent * m \in Int /\ (Extent + W) * One \in Int
          /\ (Extent + W) * m \in Int
      BY <1>1, <3>1
    <3> QED BY <1>3, <3>2, <3>3, <3>4, <3>5
  <2>6. lo * step \in Int /\ hi * step \in Int
    BY <1>2, <2>4
  <2> HIDE DEF lo, hi
  <2>7. lo * step < k * step /\ k * step < hi * step
    BY <1>3, <2>0, <2>3, <2>5, <2>6
  <2>8. lo < k /\ k < hi
    BY <1>2, <2>1, <2>4, <2>7, ProductGrows
  <2>9. -(Extent + 1) * MaxZoom <= lo /\ hi <= (Extent + W + 1) * MaxZoom
    BY <1>1 DEF lo, hi
  <2>10. k \in range
    BY <1>1, <2>1, <2>4, <2>8, <2>9 DEF W
  <2>11. k \in wanted
    BY <1>3, <2>0, <2>3, <2>10
  <2> QED BY <2>11 DEF k
<1>11. wanted \subseteq ticks
  BY <1>8, <1>9
<1> HIDE DEF range
<1>12. wanted = {t \in range : Left(x) <= t * step /\ t * step < Right(x, geometry.width)}
  BY DEF L, R
<1> HIDE DEF wanted
<1> QED BY <1>10, <1>11, <1>12 DEF GridCovers, step, ticks, range

------------------------------------------------------------------------------
(* The types. *)

LEMMA ViewStep == ViewTypeOK /\ [NavigableNext]_navigable_vars => ViewTypeOK'
<1> SUFFICES ASSUME ViewTypeOK, [NavigableNext]_navigable_vars PROVE ViewTypeOK'
  OBVIOUS
<1>1. ASSUME UNCHANGED <<x, zoom>> \/ InBounds, geometry' \in Geometries, content' \in Contents
      PROVE  ViewTypeOK'
  BY <1>1 DEF ViewTypeOK, InBounds
<1>2. geometry \in Geometries /\ content \in Contents
  BY DEF ViewTypeOK
<1>3. CASE UNCHANGED navigable_vars
  BY <1>1, <1>2, <1>3 DEF navigable_vars, content_vars
<1>4. ASSUME UNCHANGED <<geometry, content>>, InBounds \/ UNCHANGED <<x, zoom>> PROVE ViewTypeOK'
  BY <1>1, <1>2, <1>4
<1>5. CASE FitInView
  BY <1>4, <1>5 DEF FitInView
<1>6. ASSUME NEW item \in Contents, NEW margin \in {0, 1}, FitInItem(item, margin) PROVE ViewTypeOK'
  BY <1>4, <1>6 DEF FitInItem, content_vars
<1>7. ASSUME NEW item \in Contents, CenterOn(item) PROVE ViewTypeOK'
  BY <1>4, <1>7 DEF CenterOn, content_vars
<1>8. ASSUME NEW on \in BOOLEAN, SetAutoFitMode(on) PROVE ViewTypeOK'
  BY <1>4, <1>5, <1>8 DEF SetAutoFitMode
<1>9. ASSUME NEW c \in Points, NEW i \in Increments, Wheel(c, i) \/ Wheel(c, -i) PROVE ViewTypeOK'
  BY <1>4, <1>9 DEF Wheel, ZoomOn, content_vars
<1>10. ASSUME NEW z \in 1 .. MaxZoom, SetZoomCenter(z) \/ SetZoomTopLeft(z) PROVE ViewTypeOK'
  BY <1>4, <1>10 DEF SetZoomCenter, SetZoomTopLeft, ZoomOn, content_vars
<1>11. ASSUME NEW d \in Increments, PanOffset(d) \/ PanOffset(-d) PROVE ViewTypeOK'
  BY <1>4, <1>11 DEF PanOffset, content_vars
<1>12. ASSUME NEW m \in Points, PanTo(m) \/ Press(m) \/ Move(m) PROVE ViewTypeOK'
  BY <1>4, <1>12 DEF PanTo, Press, Move, content_vars
<1>13. ASSUME NEW navigable \in BOOLEAN, Release(navigable) PROVE ViewTypeOK'
  BY <1>4, <1>13 DEF Release, content_vars
<1>14. ASSUME NEW s \in Geometries, NEW inside \in BOOLEAN, Resize(s, inside) PROVE ViewTypeOK'
  BY <1>1, <1>2, <1>14 DEF Resize
<1>15. ASSUME NEW s \in Geometries, ResizeOnly(s) PROVE ViewTypeOK'
  BY <1>1, <1>2, <1>15 DEF ResizeOnly
<1>16. ASSUME NEW c \in Contents, ContentChanged(c) PROVE ViewTypeOK'
  BY <1>1, <1>2, <1>16 DEF ContentChanged
<1>17. CASE SetLockGridUpdate \/ ShowGrid \/ SetGrid
  BY <1>4, <1>17 DEF SetLockGridUpdate, ShowGrid, SetGrid, content_vars
<1> QED
  BY <1>3, <1>5, <1>6, <1>7, <1>8, <1>9, <1>10, <1>11, <1>12, <1>13, <1>14, <1>15, <1>16,
     <1>17 DEF NavigableNext

LEMMA ViewInvariance == NavigableSpec => []ViewTypeOK
<1>1. NavigableInit => ViewTypeOK
  BY NavigableAssumption, GridAssumption DEF NavigableInit, ViewTypeOK
<1> QED BY <1>1, ViewStep, PTL DEF NavigableSpec

(* updateGrid() shows every tick of the view, and no two ticks outside of it, *)
(* at every position, zoom and scale of the grid.                             *)
THEOREM GridsCover == NavigableSpec => []GridCovers
  BY ViewInvariance, Covers, PTL

------------------------------------------------------------------------------
(* Zooming. *)

(* zoomOn() keeps what is at c where it is. *)
LEMMA ZoomOnKeeps ==
  ASSUME ViewTypeOK, NEW c \in Int, zoom' \in Int, zoom' # zoom, ZoomOn(c, zoom')
  PROVE  (c - x') * zoom = (c - x) * zoom'
  <1> DEFINE a == (c - x) * zoom'
  <1>1. x \in Int /\ zoom \in Int /\ zoom > 0
    BY NavigableAssumption DEF ViewTypeOK
  <1>2. Exact(a, zoom) /\ x' = c - (a \div zoom)
    BY DEF ZoomOn, Corrected
  <1>3. a \in Int
    BY <1>1
  <1> HIDE DEF a
  <1>4. (a \div zoom) \in Int /\ (a \div zoom) * zoom = a
    BY <1>1, <1>2, <1>3, ExactQuotient
  <1>5. c - x' = a \div zoom
    BY <1>2, <1>4
  <1> QED BY <1>4, <1>5 DEF a

(* A zoom by the wheel or from the centre keeps the point it is aimed at      *)
(* where it is on the screen, at every zoom and place of the container.       *)
THEOREM ZoomsKeepPoint == NavigableSpec => ZoomKeepsPoint
<1>1. ASSUME ViewTypeOK, [NavigableNext]_navigable_vars, zoom' # zoom, NEW c \in Points \cup {geometry.width \div 2},
             ZoomOn(c, zoom')
      PROVE  (c - x') * zoom = (c - x) * zoom'
  <2>1. zoom' \in Int
    BY <1>1, ViewStep, NavigableAssumption DEF ViewTypeOK
  <2>2. geometry.width \in Nat
    BY <1>1, NavigableAssumption DEF ViewTypeOK
  <2>3. c \in Int
    BY <1>1, <2>2, NavigableAssumption
  <2> QED BY <1>1, <2>1, <2>3, ZoomOnKeeps
<1>2. ViewTypeOK /\ [NavigableNext]_navigable_vars =>
        [zoom' # zoom =>
           \A c \in Points \cup {geometry.width \div 2} :
             ZoomOn(c, zoom') => (c - x') * zoom = (c - x) * zoom']_navigable_vars
  BY <1>1
<1> QED BY <1>2, ViewInvariance, PTL DEF NavigableSpec, ZoomKeepsPoint

------------------------------------------------------------------------------
(* Resizing the view. *)

(* The zoom of a fit shows a rect exactly in the dimension it fits, and no   *)
(* more than fits in the other.                                              *)
LEMMA FitZoomFits ==
  ASSUME NEW w \in Int, NEW h \in Int, NEW cw \in Int, NEW ch \in Int, w > 0, h > 0, cw > 0, ch > 0,
         FitZoom(w, h, cw, ch).exact
  PROVE  LET z == FitZoom(w, h, cw, ch).zoom IN
         z \in Int /\ cw * z <= w * One /\ ch * z <= h * One
  <1> DEFINE byWidth == ch * w <= h * cw
             z == FitZoom(w, h, cw, ch).zoom
  <1>1. One \in Int /\ One > 0
    BY GridAssumption
  <1>2. w * One \in Int /\ h * One \in Int
    BY <1>1
  <1>3. CASE byWidth
    <2>1. Exact(w * One, cw) /\ z = (w * One) \div cw
      BY <1>3 DEF FitZoom
    <2> HIDE DEF z
    <2>2. z \in Int /\ z * cw = w * One
      BY <1>2, <2>1, ExactQuotient
    <2>3. (ch * z) * cw = (ch * w) * One /\ (h * One) * cw = (h * cw) * One
      <3>1. (ch * z) * cw = ch * (z * cw)
        BY <2>2
      <3> QED BY <1>1, <2>2, <3>1
    <2>4. (ch * w) * One <= (h * cw) * One
      BY <1>1, <1>3, ProductGrows
    <2>5. ch * z <= h * One
      BY <1>2, <2>2, <2>3, <2>4, ProductGrows
    <2>6. cw * z <= w * One
      BY <1>2, <2>2
    <2> QED BY <2>2, <2>5, <2>6 DEF z
  <1>4. CASE ~byWidth
    <2>1. Exact(h * One, ch) /\ z = (h * One) \div ch
      BY <1>4 DEF FitZoom
    <2> HIDE DEF z
    <2>2. z \in Int /\ z * ch = h * One
      BY <1>2, <2>1, ExactQuotient
    <2>3. (cw * z) * ch = (h * cw) * One /\ (w * One) * ch = (ch * w) * One
      <3>1. (cw * z) * ch = cw * (z * ch)
        BY <2>2
      <3> QED BY <1>1, <2>2, <3>1
    <2>4. (h * cw) * One <= (ch * w) * One
      <3>1. h * cw <= ch * w /\ h * cw \in Int /\ ch * w \in Int
        BY <1>4
      <3> QED BY <1>1, <3>1, ProductGrows
    <2>5. cw * z <= w * One
      BY <1>2, <2>2, <2>3, <2>4, ProductGrows
    <2>6. ch * z <= h * One
      BY <1>2, <2>2
    <2> QED BY <2>2, <2>5, <2>6 DEF z
  <1> QED BY <1>3, <1>4

(* Where a fit puts the content, when it is done. *)
LEMMA FittedShows ==
  ASSUME ViewTypeOK, NEW s \in Geometries, Fitted(s).done, Fitted(s).exact
  PROVE  LET z == Fitted(s).zoom
             wide == (content.width * z) \div One
         IN /\ z \in Int /\ wide \in Int /\ wide * One = content.width * z
            /\ wide <= s.width /\ content.height * z <= s.height * One
            /\ Fitted(s).x = IF wide < s.width THEN (s.width - wide) \div 2 ELSE 0
            /\ wide < s.width => Exact(s.width - wide, 2)
  <1> DEFINE w == s.width
             h == s.height
             cw == content.width
             ch == content.height
             fit == FitZoom(w, h, cw, ch)
             wide == (cw * fit.zoom) \div One
  <1>1. /\ w \in Int /\ w > 0 /\ h \in Int /\ h > 0
        /\ cw \in Int /\ cw >= 0 /\ ch \in Int /\ ch >= 0
        /\ One \in Int /\ One > 0
    BY NavigableAssumption, GridAssumption DEF ViewTypeOK
  <1>2. /\ cw # 0 /\ ch # 0 /\ IsValidZoom(fit.zoom)
        /\ Fitted(s).zoom = fit.zoom
        /\ Fitted(s).x = IF wide < w THEN (w - wide) \div 2 ELSE 0
        /\ fit.exact /\ Exact(cw * fit.zoom, One)
        /\ wide < w => Exact(w - wide, 2)
    BY DEF Fitted
  <1> HIDE DEF w, h, cw, ch, fit, wide
  <1>3. fit.zoom \in Int /\ cw * fit.zoom <= w * One /\ ch * fit.zoom <= h * One
    BY <1>1, <1>2, FitZoomFits DEF fit
  <1>4. cw * fit.zoom \in Int
    BY <1>1, <1>3
  <1>5. wide \in Int /\ wide * One = cw * fit.zoom
    BY <1>1, <1>2, <1>4, ExactQuotient DEF wide
  <1>6. wide <= w
    BY <1>1, <1>3, <1>5, ProductGrows
  <1> QED BY <1>2, <1>3, <1>5, <1>6 DEF w, h, cw, ch, wide

(* What a resize does to a content nobody has moved. *)
LEMMA ResizeRefits ==
  ASSUME NEW s \in Geometries, NEW inside \in BOOLEAN, Resize(s, inside), autoFit,
         ~panModified, ~zoomModified, Fitted(s).done
  PROVE  LET wide == (content.width * zoom') \div One IN
         /\ geometry' = s /\ Fitted(s).exact /\ zoom' = Fitted(s).zoom
         /\ \/ x' = Fitted(s).x
            \/ Exact(s.width - wide, 2) /\ x' = (s.width - wide) \div 2
  <1> DEFINE fit == Fitted(s)
             wide == (content.width * fit.zoom) \div One
             left == fit.x + (content.left * fit.zoom) \div One
             far == s.left + s.width
             touches == content.width # 0 /\ left >= s.left /\ left + wide <= far
             centers == \/ left > s.left /\ left + wide < far
                        \/ touches /\ inside
  <1>1. /\ geometry' = s /\ fit.exact /\ zoom' = fit.zoom
        /\ centers => Exact(s.width - wide, 2)
        /\ x' = IF centers THEN (s.width - wide) \div 2 ELSE fit.x
    BY DEF Resize
  <1> HIDE DEF centers
  <1> QED BY <1>1

(* A content nobody has moved is shown at a zoom at which it fits the view    *)
(* when the view is resized, with its container centred: off the middle by as *)
(* much as it is off the origin of the container, and whole if it starts      *)
(* there (geometryChanged(), fitInView()).                                    *)
THEOREM AutoFits == NavigableSpec => AutoFitCenters
<1>1. ASSUME ViewTypeOK, [NavigableNext]_navigable_vars, NEW inside \in BOOLEAN,
             autoFit, ~panModified, ~zoomModified,
             Resize(geometry', inside), Fitted(geometry').done
      PROVE  /\ x' >= 0
             /\ 2 * x' * One + content.width * zoom' = geometry'.width * One
             /\ content.height * zoom' <= geometry'.height * One
  <2> DEFINE s == geometry'
  <2>1. s \in Geometries
    BY <1>1, ViewStep DEF ViewTypeOK
  <2>2. Resize(s, inside) /\ Fitted(s).done
    BY <1>1
  <2> HIDE DEF s
  <2> DEFINE wide == (content.width * zoom') \div One
             w == s.width
  <2>3. /\ zoom' = Fitted(s).zoom /\ Fitted(s).exact
        /\ \/ x' = Fitted(s).x
           \/ Exact(w - wide, 2) /\ x' = (w - wide) \div 2
    BY <1>1, <2>1, <2>2, ResizeRefits
  <2>4. /\ wide \in Int /\ wide * One = content.width * zoom'
        /\ wide <= w /\ content.height * zoom' <= s.height * One
        /\ Fitted(s).x = IF wide < w THEN (w - wide) \div 2 ELSE 0
        /\ wide < w => Exact(w - wide, 2)
    BY <1>1, <2>1, <2>2, <2>3, FittedShows
  <2>5. w \in Int /\ One \in Int
    BY <2>1, NavigableAssumption, GridAssumption
  <2> HIDE DEF wide, w
  <2>6. x' \in Int /\ 2 * x' = w - wide
    <3> DEFINE left == w - wide
    <3>1. left \in Int /\ left >= 0
      BY <2>4, <2>5
    <3>2. Exact(left, 2) => (left \div 2) \in Int /\ 2 * (left \div 2) = left
      BY <3>1, ExactQuotient
    <3>3. (x' = left \div 2 /\ Exact(left, 2)) \/ (x' = 0 /\ left = 0)
      BY <2>3, <2>4, <2>5
    <3> HIDE DEF left
    <3>4. x' \in Int /\ 2 * x' = left
      BY <3>1, <3>2, <3>3
    <3> QED BY <3>4 DEF left
  <2>7. x' >= 0
    <3>1. wide \in Int /\ wide <= w
      BY <2>4
    <3>2. w - wide >= 0
      BY <2>5, <3>1
    <3>3. \A i \in Int : 2 * i >= 0 => i >= 0
      OBVIOUS
    <3> QED BY <2>6, <3>2, <3>3
  <2>8. 2 * x' * One + wide * One = w * One
    <3>1. (w - wide) * One = w * One - wide * One
      BY <2>4, <2>5, ProductSum
    <3>2. (2 * x') * One = w * One - wide * One
      BY <2>6, <3>1
    <3>3. w * One \in Int /\ wide * One \in Int
      BY <2>4, <2>5
    <3> QED BY <3>2, <3>3
  <2> QED BY <2>4, <2>7, <2>8 DEF w, s
<1>2. ViewTypeOK /\ [NavigableNext]_navigable_vars =>
        [\A inside \in BOOLEAN :
           /\ autoFit /\ ~panModified /\ ~zoomModified
           /\ Resize(geometry', inside) /\ Fitted(geometry').done
           => /\ x' >= 0
              /\ 2 * x' * One + content.width * zoom' = geometry'.width * One
              /\ content.height * zoom' <= geometry'.height * One]_navigable_vars
  BY <1>1
<1> QED BY <1>2, ViewInvariance, PTL DEF NavigableSpec, AutoFitCenters

------------------------------------------------------------------------------
(* Anchoring. *)

(* A content wider than the view is anchored without a gap in the span of the *)
(* view in its parent.                                                        *)
LEMMA AnchoredFills ==
  ASSUME ViewTypeOK, NEW at \in Int, NEW z \in Int, NEW s \in Geometries,
         Exact(content.width * z, One), Exact(content.left * z, One),
         content.width * z > s.width * One
  PROVE  LET a == Anchored(at, z, s) IN
         /\ a * One + content.left * z <= s.left * One
         /\ a * One + (content.left + content.width) * z >= (s.left + s.width) * One
  <1> DEFINE l == (content.left * z) \div One
             d == (content.width * z) \div One
             w == s.width
             n == s.left
             a == Anchored(at, z, s)
  <1>1. /\ content.left \in Int /\ content.width \in Int /\ w \in Int /\ n \in Int
        /\ One \in Int /\ One > 0
    BY NavigableAssumption, GridAssumption DEF ViewTypeOK
  <1>2. content.left * z \in Int /\ content.width * z \in Int
    BY <1>1
  <1>3. l \in Int /\ l * One = content.left * z /\ d \in Int /\ d * One = content.width * z
    BY <1>1, <1>2, ExactQuotient
  <1>4. /\ l = (content.left * z) \div One /\ d = (content.width * z) \div One
        /\ w = s.width /\ n = s.left
    OBVIOUS
  <1> HIDE DEF l, d, w, n
  <1>5. a = IF (at + l) + d - (at + l) > w /\ (at + l) + d < n + w THEN at + (n + w) - ((at + l) + d)
            ELSE IF (at + l) + d - (at + l) > w /\ at + l > n THEN at + n - (at + l)
            ELSE at
    BY <1>4 DEF Anchored
  <1> HIDE DEF a
  <1>6. w < d
    <2>1. w * One < d * One
      BY <1>3 DEF w
    <2> QED BY <1>1, <1>3, <2>1, ProductGrows
  <1>7. a \in Int /\ a + l <= n /\ n + w <= a + l + d
    <2>1. w \in Int /\ n \in Int /\ l \in Int /\ d \in Int
      BY <1>1, <1>3
    <2> QED BY <1>5, <1>6, <2>1
  <1>8. (a + l) * One <= n * One /\ (n + w) * One <= (a + l + d) * One
    <2>1. a + l \in Int /\ n + w \in Int /\ a + l + d \in Int
      BY <1>1, <1>3, <1>7
    <2> QED BY <1>1, <1>7, <2>1, ProductGrows
  <1>9. /\ (a + l) * One = a * One + l * One
        /\ (a + l + d) * One = a * One + (l * One + d * One)
        /\ (content.left + content.width) * z = content.left * z + content.width * z
    BY <1>1, <1>3, <1>7
  <1>10. /\ a * One + content.left * z <= n * One
         /\ a * One + (content.left + content.width) * z >= (n + w) * One
    BY <1>3, <1>8, <1>9
  <1> QED BY <1>10 DEF a, w, n

(* What a resize does to a content the user has moved or zoomed. *)
LEMMA ResizeAnchors ==
  ASSUME NEW s \in Geometries, NEW inside \in BOOLEAN, Resize(s, inside), autoFit,
         panModified' \/ zoomModified', ViewTypeOK
  PROVE  /\ geometry' = s
         /\ Exact(content.width * zoom', One) /\ Exact(content.left * zoom', One)
         /\ \E at \in Int : x' = Anchored(at, zoom', s)
  <1> DEFINE refit == autoFit /\ (~panModified \/ ~zoomModified)
             fit == IF refit THEN Fitted(s) ELSE [exact |-> TRUE, done |-> FALSE, x |-> x, zoom |-> zoom]
             wide == (content.width * fit.zoom) \div One
             left == fit.x + (content.left * fit.zoom) \div One
             far == s.left + s.width
             touches == content.width # 0 /\ left >= s.left /\ left + wide <= far
             centers == \/ left > s.left /\ left + wide < far
                        \/ touches /\ inside
             centered == IF autoFit /\ centers THEN (s.width - wide) \div 2 ELSE fit.x
             custom == (panModified \/ zoomModified) /\ ~fit.done
  <1>1. /\ geometry' = s /\ zoom' = fit.zoom
        /\ Exact(content.width * fit.zoom, One) /\ Exact(content.left * fit.zoom, One)
        /\ x' = IF autoFit /\ custom THEN Anchored(centered, fit.zoom, s) ELSE centered
        /\ panModified' = (panModified /\ ~fit.done)
        /\ zoomModified' = (zoomModified /\ ~fit.done)
    BY DEF Resize
  <1>2. custom /\ ~fit.done
    BY <1>1
  <1>3. fit.x = x /\ fit.zoom = zoom
    <2>1. ~Fitted(s).done => Fitted(s).x = x /\ Fitted(s).zoom = zoom
      BY DEF Fitted
    <2> QED BY <1>2, <2>1
  <1>4. wide = (content.width * zoom) \div One
    BY <1>3
  <1>5. x' = Anchored(centered, zoom, s)
    BY <1>1, <1>2, <1>3
  <1>6. centered = x \/ centered = (s.width - wide) \div 2
    BY <1>3
  <1> HIDE DEF fit, wide, centers, centered, custom
  <1>7. /\ content.width \in Int /\ zoom \in Int /\ s.width \in Int /\ x \in Int
        /\ One \in Int /\ One > 0
    BY NavigableAssumption, GridAssumption DEF ViewTypeOK
  <1>8. wide \in Int
    <2>1. content.width * zoom \in Int
      BY <1>7
    <2> QED BY <1>4, <1>7, <2>1, Division
  <1>9. centered \in Int
    <2>1. s.width - wide \in Int
      BY <1>7, <1>8
    <2> QED BY <1>6, <1>7, <2>1, Division
  <1> QED BY <1>1, <1>3, <1>5, <1>9

(* After a resize a content wider than the view that the user has moved has   *)
(* no gap beside it in the span of the view in its parent, wherever the view  *)
(* is and wherever the content was moved to (geometryChanged()).              *)
THEOREM ContentsAnchored == NavigableSpec => ContentAnchored
<1>1. ASSUME ViewTypeOK, [NavigableNext]_navigable_vars, NEW inside \in BOOLEAN,
             autoFit, panModified' \/ zoomModified',
             Resize(geometry', inside), content.width * zoom' > geometry'.width * One
      PROVE  /\ x' * One + content.left * zoom' <= geometry'.left * One
             /\ x' * One + (content.left + content.width) * zoom'
                  >= (geometry'.left + geometry'.width) * One
  <2>1. geometry' \in Geometries /\ zoom' \in Int
    BY <1>1, ViewStep, NavigableAssumption DEF ViewTypeOK
  <2>2. /\ Exact(content.width * zoom', One) /\ Exact(content.left * zoom', One)
        /\ \E at \in Int : x' = Anchored(at, zoom', geometry')
    BY <1>1, <2>1, ResizeAnchors
  <2>3. PICK at \in Int : x' = Anchored(at, zoom', geometry')
    BY <2>2
  <2> QED BY <1>1, <2>1, <2>2, <2>3, AnchoredFills
<1>2. ViewTypeOK /\ [NavigableNext]_navigable_vars =>
        [\A inside \in BOOLEAN :
           /\ autoFit /\ (panModified' \/ zoomModified')
           /\ Resize(geometry', inside)
           /\ content.width * zoom' > geometry'.width * One
           => /\ x' * One + content.left * zoom' <= geometry'.left * One
              /\ x' * One + (content.left + content.width) * zoom'
                   >= (geometry'.left + geometry'.width) * One]_navigable_vars
  BY <1>1
<1> QED BY <1>2, ViewInvariance, PTL DEF NavigableSpec, ContentAnchored
==============================================================================
