----------------------------- MODULE QanSelection -----------------------------
(***************************************************************************)
(* The selection of qan::Graph: the lists of selected nodes and groups,    *)
(* the "selected" property each item keeps for itself (qan::Selectable),   *)
(* the selection item that highlights it, created from a delegate when it  *)
(* is first needed, the single selectedNode property, and the policy.      *)
(*                                                                         *)
(* The same fact is recorded in these four places, and every operation     *)
(* updates them one by one, calling back: clearSelection() sets the items' *)
(* property to false, and the item then takes itself out of the list that  *)
(* is being cleared.  The walk goes over a copy of each list: here it is   *)
(* one step for each item, and between two of them a client that is told   *)
(* of a change of selection may unselect further items.                    *)
(*                                                                         *)
(* Abstractions.  The two lists hold no pointer twice (append is guarded   *)
(* by contains) and their order is never looked at: together they are the  *)
(* set listed, and a walk takes the items of a copy in any order.  What a  *)
(* client may do from a handler while a walk goes on is limited to         *)
(* unselecting items: nothing is removed or selected before the walk ends. *)
(* A pointer to a destroyed primitive is an element of listed that is not  *)
(* in prims; an identity is not given to a new primitive while such a      *)
(* pointer remains.  Reading through one has undefined behaviour: the      *)
(* model stops there (crashed).  Of a selection item the model keeps its   *)
(* QML state; a new one, which has none yet, counts as unselected.         *)
(***************************************************************************)
EXTENDS Naturals, FiniteSets

CONSTANTS
  Node, Group,   \* identities of nodes and groups
  NoNode         \* nullptr

ASSUME SelectionAssumption ==
  /\ Node \cap Group = {}
  /\ NoNode \notin Node \cup Group

VARIABLES
  prims,         \* nodes and groups of the graph
  listed,        \* Graph::_selectedNodes and Graph::_selectedGroups
  flagged,       \* primitives whose item has Selectable::_selected
  shown,         \* the QML state of Selectable::_selectionItem, or "none"
  selectable,    \* primitives whose item has Selectable::_selectable
  selectedNode,  \* Graph::m_selectedNode
  policy,        \* Graph::_selectionPolicy
  crashed,       \* a destroyed primitive was read
  loop,          \* clearSelection(): the loop it is in, "nodes" or "groups", or "none"
  copy,          \* the lists it has copied, selectedNodesCopy and selectedGroupsCopy
  visited,       \* items of copy it has unselected
  clicked        \* the item selected when it is done, or NoNode

walkVars == <<loop, copy, visited, clicked>>
vars == <<prims, listed, flagged, shown, selectable, selectedNode, policy, crashed, walkVars>>

Primitive == Node \cup Group
Shown == {"none", "UNSELECTED", "SELECTED"}
Policy == {"NoSelection", "SelectOnClick", "SelectOnCtrlClick"}

Init ==
  /\ prims = {}
  /\ listed = {}
  /\ flagged = {}
  /\ shown = [p \in Primitive |-> "none"]
  /\ selectable = {}
  /\ selectedNode = NoNode
  /\ policy = "SelectOnClick"
  /\ crashed = FALSE
  /\ loop = "none" /\ copy = {} /\ visited = {} /\ clicked = NoNode

------------------------------------------------------------------------------
(* Primitives come and go.                                                  *)

Insert(p) ==
  /\ p \notin prims \cup listed \cup {selectedNode}
  /\ prims' = prims \cup {p}
  /\ selectable' = selectable \cup {p}
  /\ UNCHANGED <<listed, flagged, shown, selectedNode, policy, crashed>>

(* The primitives of X are destroyed with their items. *)
Destroy(X) ==
  /\ prims' = prims \ X
  /\ flagged' = flagged \ X
  /\ shown' = [p \in Primitive |-> IF p \in X THEN "none" ELSE shown[p]]
  /\ selectable' = selectable \ X
  /\ UNCHANGED <<selectedNode, policy, crashed>>

(* Mutant of RemoveNode: the list is not updated. *)
RemoveNodeListed(n) ==
  /\ n \in prims \cap Node
  /\ listed' = listed
  /\ Destroy({n})

(* removeNode() takes the node out of the list, and leaves selectedNode. *)
RemoveNode(n) ==
  /\ n \in prims \cap Node
  /\ listed' = listed \ {n}
  /\ Destroy({n})

(* removeGroup() does not look at the selection. *)
RemoveGroup(g) ==
  /\ g \in prims \cap Group
  /\ listed' = listed
  /\ Destroy({g})

(* clear() empties the list of nodes, not the list of groups. *)
Clear ==
  /\ listed' = listed \ Node
  /\ Destroy(prims)

------------------------------------------------------------------------------
(* The list and the properties.                                             *)

(* A loop over a list reads a primitive that was destroyed. *)
Crash ==
  /\ crashed' = TRUE
  /\ UNCHANGED <<prims, listed, flagged, shown, selectable, selectedNode, policy>>

(* setSelected(false) puts the selection item out if there is one.          *)
Dimmed(X) ==
  [p \in Primitive |-> IF p \in X /\ shown[p] # "none" THEN "UNSELECTED" ELSE shown[p]]

(* setSelected(true) lights it, after an attempt to create it if there is   *)
(* none: when the delegate fails the item is selected all the same.         *)
Lit(p) ==
  {[shown EXCEPT ![p] = state] : state \in IF shown[p] = "none" THEN {"none", "SELECTED"}
                                                                ELSE {"SELECTED"}}

(* addToSelection(): selectedNode follows even if the node is listed. *)
AddToSelection(p) ==
  /\ p \in prims
  /\ selectedNode' = IF p \in Node THEN p ELSE selectedNode
  /\ listed' = listed \cup {p}
  /\ IF p \in listed THEN UNCHANGED <<flagged, shown>>
                      ELSE flagged' = flagged \cup {p} /\ shown' \in Lit(p)
  /\ UNCHANGED <<prims, selectable, policy, crashed>>

(* removeFromSelection(): the item's property and its look are not touched. *)
RemoveFromSelection(p) ==
  /\ p \in prims
  /\ selectedNode' = IF p \in Node THEN NoNode ELSE selectedNode
  /\ listed' = listed \ {p}
  /\ UNCHANGED <<prims, flagged, shown, selectable, policy, crashed>>

(* Mutant of Unselect: the item does not call the graph back. *)
UnselectItemOnly(p) ==
  /\ flagged' = flagged \ {p}
  /\ shown' = Dimmed({p})
  /\ UNCHANGED <<listed, selectedNode>>

(* setSelected(false): the item takes itself out of its list by             *)
(* removeFromSelection(), which resets selectedNode for a group too.        *)
Unselect(p) ==
  /\ selectedNode' = NoNode
  /\ listed' = listed \ {p}
  /\ flagged' = flagged \ {p}
  /\ shown' = Dimmed({p})

(* The item's property is set by a client: the item enters no list when it  *)
(* becomes selected.                                                        *)
SetSelected(p, selected) ==
  /\ p \in prims
  /\ IF selected
     THEN flagged' = flagged \cup {p} /\ shown' \in Lit(p) /\ UNCHANGED <<listed, selectedNode>>
     ELSE Unselect(p)
  /\ UNCHANGED <<prims, selectable, policy, crashed>>

SetSelectable(p, s) ==
  /\ p \in prims
  /\ selectable' = IF s THEN selectable \cup {p} ELSE selectable \ {p}
  /\ IF p \in flagged /\ ~s THEN Unselect(p) ELSE UNCHANGED <<listed, flagged, shown, selectedNode>>
  /\ UNCHANGED <<prims, policy, crashed>>

SetSelectedNode(n) ==
  /\ n \in (prims \cap Node) \cup {NoNode}
  /\ selectedNode' = n
  /\ UNCHANGED <<prims, listed, flagged, shown, selectable, policy, crashed>>

(* The state of the selection item that setSelectionItem() installs on p:   *)
(* it follows the selected property of a selectable item only.              *)
Installed(p) == IF p \in selectable \cap flagged THEN "SELECTED" ELSE "UNSELECTED"

(* setSelectionItem() by a client. *)
SetSelectionItem(p) ==
  /\ p \in prims
  /\ shown' = [shown EXCEPT ![p] = Installed(p)]
  /\ UNCHANGED <<prims, listed, flagged, selectable, selectedNode, policy, crashed>>

(* setSelectionDelegate(): the selection items that exist are replaced, of  *)
(* listed and other primitives alike; a delegate that fails replaces none.  *)
SetSelectionDelegate ==
  /\ shown' = [p \in Primitive |-> IF shown[p] = "none" THEN "none" ELSE Installed(p)]
  /\ UNCHANGED <<prims, listed, flagged, selectable, selectedNode, policy, crashed>>

(* setSelectionColor(), -Weight(), -Margin(): the selection items of all    *)
(* listed primitives are configured again.                                  *)
ConfigureSelectionItems == ~(listed \subseteq prims) /\ Crash

------------------------------------------------------------------------------
(* clearSelection(), alone or before p is selected.                         *)

(* The walk begins with a copy of the list of nodes. *)
BeginClear(p) ==
  /\ loop' = "nodes"
  /\ copy' = listed \cap Node
  /\ visited' = {}
  /\ clicked' = p
  /\ UNCHANGED <<prims, listed, flagged, shown, selectable, selectedNode, crashed>>

(* Mutant of Pending: the loop goes by an index over the list itself, which *)
(* shrinks under it.                                                        *)
PendingInList ==
  LET kind == IF loop = "nodes" THEN Node ELSE Group
  IN  IF Cardinality(visited \cap kind) < Cardinality(listed \cap kind)
      THEN listed \cap kind ELSE {}

(* What the loop has still to visit. *)
Pending == copy \ visited

(* The next item of the copy is read, and unselected. *)
Visit(q) ==
  /\ q \in Pending
  /\ \/ /\ q \in prims
        /\ Unselect(q)
        /\ visited' = visited \cup {q}
        /\ UNCHANGED <<prims, selectable, policy, crashed, loop, copy, clicked>>
     \/ q \notin prims /\ Crash /\ UNCHANGED walkVars

(* Meanwhile a handler of selectedChanged() unselects some item. *)
Handler(q) ==
  /\ visited # {}
  /\ SetSelected(q, FALSE)
  /\ UNCHANGED walkVars

(* _selectedNodes.clear(), and the list of groups is copied in turn. *)
NodesCleared ==
  /\ loop = "nodes" /\ Pending = {}
  /\ listed' = listed \ Node
  /\ loop' = "groups"
  /\ copy' = copy \cup (listed \cap Group)
  /\ UNCHANGED <<prims, flagged, shown, selectable, selectedNode, policy, crashed, visited, clicked>>

(* _selectedGroups.clear(), then addToSelection() of the item clicked on. *)
GroupsCleared ==
  /\ loop = "groups" /\ Pending = {}
  /\ loop' = "none" /\ copy' = {} /\ visited' = {} /\ clicked' = NoNode
  /\ listed' = (listed \ Group) \cup ({clicked} \ {NoNode})
  /\ flagged' = flagged \cup ({clicked} \ {NoNode})
  /\ IF clicked = NoNode THEN UNCHANGED shown ELSE shown' \in Lit(clicked)
  /\ selectedNode' = IF clicked \in Node THEN clicked ELSE selectedNode
  /\ UNCHANGED <<prims, selectable, policy, crashed>>

(* selectNode(), selectGroup(): a left click on a selectable item. *)
Click(p, ctrl) ==
  /\ p \in prims \cap selectable
  /\ policy # "NoSelection"
  /\ \/ p \in flagged /\ ctrl /\ RemoveFromSelection(p) /\ UNCHANGED walkVars
     \/ p \notin flagged /\ ctrl /\ AddToSelection(p) /\ UNCHANGED walkVars
     \/ p \notin flagged /\ ~ctrl /\ policy = "SelectOnClick" /\ BeginClear(p) /\ UNCHANGED policy

(* A left click beside every item, mousePressEvent() or navigableClicked(). *)
ClickBeside == BeginClear(NoNode) /\ UNCHANGED policy

SetSelectionPolicy(p) ==
  /\ p # policy
  /\ policy' = p
  /\ \/ p = "NoSelection" /\ BeginClear(NoNode)
     \/ p # "NoSelection" /\ UNCHANGED <<prims, listed, flagged, shown, selectable, selectedNode,
                                        crashed, walkVars>>

(* Operations that do not walk over the lists, or that walk over them in    *)
(* one go.                                                                  *)
Operation ==
  \/ \E p \in Primitive : Insert(p)
  \/ \E n \in Node : RemoveNode(n)
  \/ \E g \in Group : RemoveGroup(g)
  \/ Clear
  \/ \E p \in Primitive : AddToSelection(p)
  \/ \E p \in Primitive : RemoveFromSelection(p)
  \/ \E p \in Primitive, b \in BOOLEAN : SetSelected(p, b)
  \/ \E p \in Primitive, b \in BOOLEAN : SetSelectable(p, b)
  \/ \E n \in Node \cup {NoNode} : SetSelectedNode(n)
  \/ ConfigureSelectionItems
  \/ \E p \in Primitive : SetSelectionItem(p)
  \/ SetSelectionDelegate

Next ==
  /\ ~crashed
  /\ \/ loop = "none" /\ Operation /\ UNCHANGED walkVars
     \/ loop = "none" /\ \E p \in Primitive, ctrl \in BOOLEAN : Click(p, ctrl)
     \/ loop = "none" /\ ClickBeside
     \/ loop = "none" /\ \E p \in Policy : SetSelectionPolicy(p)
     \/ loop # "none" /\ \E q \in Primitive : Visit(q) \/ Handler(q)
     \/ NodesCleared
     \/ GroupsCleared

Spec == Init /\ [][Next]_vars

------------------------------------------------------------------------------
TypeOK ==
  /\ prims \in SUBSET Primitive
  /\ listed \in SUBSET Primitive
  /\ flagged \in SUBSET prims
  /\ shown \in [Primitive -> Shown]
  /\ selectable \in SUBSET prims
  /\ selectedNode \in Node \cup {NoNode}
  /\ policy \in Policy
  /\ crashed \in BOOLEAN
  /\ loop \in {"none", "nodes", "groups"}
  /\ copy \in SUBSET Primitive
  /\ visited \in SUBSET copy
  /\ clicked \in Primitive \cup {NoNode}

(* What the graph lists as selected its item has as selected, and what is   *)
(* highlighted is selected, whatever order clicks, client calls, property   *)
(* changes, failed creations and new delegates come in.                     *)
ListedAreFlagged ==
  /\ listed \cap prims \subseteq flagged
  /\ \A p \in Primitive : shown[p] = "SELECTED" => p \in flagged

(* Only a removed group leaves a pointer behind in the lists; a node never  *)
(* does, and nothing but such a pointer makes a walk over the lists fail.   *)
ListedNodesLive ==
  /\ listed \cap Node \subseteq prims
  /\ crashed => (listed \cap Group) \ prims # {}

(* When clearSelection() is done, none of the items the lists held when it  *)
(* began is selected or highlighted any more, though every item it visits   *)
(* edits the lists and handlers may have unselected others meanwhile; and   *)
(* an item that was clicked on is alone in the lists, selected, and lit if  *)
(* it has a selection item.                                                 *)
SelectionCleared ==
  [][loop = "groups" /\ loop' = "none" =>
       /\ listed' = {clicked} \ {NoNode}
       /\ \A q \in copy : q \notin flagged' /\ shown'[q] # "SELECTED"
       /\ clicked # NoNode => clicked \in flagged' /\ shown'[clicked] # "UNSELECTED"]_vars
==============================================================================
