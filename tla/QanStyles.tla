------------------------------ MODULE QanStyles ------------------------------
(***************************************************************************)
(* Styles and delegates: the style each node, port, edge and group item    *)
(* follows, the QML components qan::Graph makes items with, and the        *)
(* qan::StyleManager that lists the styles in use and the component each   *)
(* is shown with.                                                          *)
(*                                                                         *)
(* Items point to styles they do not own, by QPointers that are emptied    *)
(* when the style is destroyed.  By then the destroyed() signal the item   *)
(* listens to has not been emitted yet: styleDestroyed() finds no style to *)
(* replace, and the QML delegate is not told to read the style again.      *)
(*                                                                         *)
(* The graph owns its delegates and destroys the one it replaces, at the   *)
(* next turn of the event loop.  No setter asks where a component comes    *)
(* from: a client may set one that the graph has just given up, or has for *)
(* another kind of items, and it is then destroyed while it is in use.     *)
(* Nothing follows a pointer to a destroyed component here, as it would be *)
(* undefined: such a delegate is neither replaced nor used for a port.  A  *)
(* class of nodes, edges or groups may have a component of its own, which  *)
(* comes before the delegate of the graph; which one an item is made with  *)
(* does not matter here.  A port has but the delegate.                     *)
(*                                                                         *)
(* Items and components are deleted at the next turn of the event loop     *)
(* (deleteLater()).  Which edges a node takes with it is in GTpoTopology,   *)
(* here any primitive may go.                                              *)
(***************************************************************************)
EXTENDS Integers, FiniteSets

CONSTANTS
  Node, Port, Edge, Group,      \* primitives, each with its item
  NodeDefault, EdgeDefault, GroupDefault,  \* Node::style(), Edge::style(), Group::style()
  NodeClassStyle, EdgeClassStyle,    \* style() of the classes clients derive
  ClientNodeStyle, ClientEdgeStyle,  \* styles clients create, and destroy
  Kind,                         \* kinds of items the graph has a delegate for: node, edge,
                                \* group, port, horizontal and vertical (docks)
  MaxItems,                     \* bound on the items of the scene
  ClientComponent,              \* components clients write
  MaxChanges,                   \* bound on the delegates set
  None

ASSUME StylesAssumption ==
  /\ MaxItems \in Nat /\ MaxChanges \in Nat
  /\ {"edge", "port"} \subseteq Kind

VARIABLES
  items,      \* items of the scene
  doomed,     \* items and components deleteLater() was called for
  class,      \* item -> the style() of the class of its primitive
  style,      \* item -> _style
  connected,  \* item -> styles whose signals reach it
  alive,      \* styles that are not destroyed
  listed,     \* StyleManager::_styles
  known,      \* keys of StyleManager::_styleComponentMap
  delegate,   \* kind of items -> _nodeDelegate, _edgeDelegate...
  components, \* components that are not destroyed
  reused,     \* history: components set while the graph had given them up or had them already
  changes     \* number of delegates set

itemVars == <<items, class, style, connected>>
managerVars == <<listed, known>>
delegateVars == <<delegate, components, reused, changes>>
vars == <<doomed, alive, itemVars, managerVars, delegateVars>>

(* The component of the library for a kind of items, which a client can get *)
(* from the graph, and all components.                                      *)
Library(k) == <<k>>
Component == {Library(k) : k \in Kind} \cup ClientComponent

Item == Node \cup Port \cup Edge \cup Group
NodeStyle == {NodeDefault, GroupDefault} \cup NodeClassStyle \cup ClientNodeStyle
EdgeStyle == {EdgeDefault} \cup EdgeClassStyle \cup ClientEdgeStyle

Style == NodeStyle \cup EdgeStyle

ASSUME DistinctAssumption ==
  /\ None \notin Style
  /\ None \notin Component
  /\ Component \cap Item = {}

(* classBegin() registers the default styles of nodes and edges. *)
Init ==
  /\ items = {} /\ doomed = {}
  /\ class = [i \in Item |-> None]
  /\ style = [i \in Item |-> None]
  /\ connected = [i \in Item |-> {}]
  /\ alive = Style
  /\ listed = {NodeDefault, EdgeDefault}
  /\ known = {NodeDefault, EdgeDefault}
  /\ delegate = [k \in Kind |-> Library(k)]
  /\ components = Component
  /\ reused = {}
  /\ changes = 0

------------------------------------------------------------------------------
(* Mutant of Register: a style with a component is not listed again. *)
RegisterNew(styles) ==
  /\ known' = known \cup styles
  /\ listed' = listed \cup (styles \ known)

(* setStyleComponent() *)
Register(styles) ==
  /\ known' = known \cup styles
  /\ listed' = listed \cup styles

(* createFromComponent() has made the item i, of class c, with the style s. *)
Created(i, c, s) ==
  /\ Cardinality(items) < MaxItems
  /\ items' = items \cup {i}
  /\ class' = [class EXCEPT ![i] = c]
  /\ style' = [style EXCEPT ![i] = s]
  /\ connected' = [connected EXCEPT ![i] = {s}]

(* insertNode<Node_t>(), Node_t::style() being s.  The style is registered  *)
(* even if the component then fails to create an item.                      *)
InsertNode(n, s, created) ==
  /\ n \notin items
  /\ Register({s})
  /\ IF created THEN Created(n, s, s) ELSE UNCHANGED itemVars
  /\ UNCHANGED <<doomed, alive, delegateVars>>

(* insertEdge<Edge_t>(), configureEdge().  The style of the class is        *)
(* registered, and so is the one the item has: Edge::style(), which its     *)
(* constructor has set and nobody replaces.                                 *)
InsertEdge(e, s, created) ==
  /\ e \notin items
  /\ Register(IF created THEN {s, EdgeDefault} ELSE {s})
  /\ IF created THEN Created(e, s, EdgeDefault) ELSE UNCHANGED itemVars
  /\ UNCHANGED <<doomed, alive, delegateVars>>

(* insertGroup(): a delegate that fails leaves nothing behind. *)
InsertGroup(g) ==
  /\ g \notin items
  /\ Register({GroupDefault})
  /\ Created(g, GroupDefault, GroupDefault)
  /\ UNCHANGED <<doomed, alive, delegateVars>>

(* insertPort(): the port takes the style its node has, and there is no     *)
(* port without one, nor without a delegate of ports.  Nothing is           *)
(* registered.                                                              *)
InsertPort(p, n) ==
  /\ p \notin items
  /\ delegate["port"] \in components
  /\ n \in items \ doomed /\ style[n] # None
  /\ Created(p, None, style[n])
  /\ UNCHANGED <<doomed, alive, managerVars, delegateVars>>

(* removeNode(), removeEdge(), removeGroup(), removePort() *)
Remove(i) ==
  /\ i \in items \ doomed
  /\ doomed' = doomed \cup {i}
  /\ UNCHANGED <<itemVars, alive, managerVars, delegateVars>>

(* The event loop deletes the item. *)
DeleteLater(i) ==
  /\ i \in doomed
  /\ items' = items \ {i} /\ doomed' = doomed \ {i}
  /\ class' = [class EXCEPT ![i] = None]
  /\ style' = [style EXCEPT ![i] = None]
  /\ connected' = [connected EXCEPT ![i] = {}]
  /\ UNCHANGED <<alive, managerVars, delegateVars>>

(* Graph::clear() clears the styles listed, but not their components.  Port *)
(* items outlive their nodes.                                               *)
Clear ==
  /\ doomed' = doomed \cup (items \ Port)
  /\ listed' = {}
  /\ UNCHANGED <<itemVars, alive, known, delegateVars>>

------------------------------------------------------------------------------
(* Mutant of Restyle: the signals of the former style still arrive. *)
RestyleConnected(i, s) ==
  /\ style' = [style EXCEPT ![i] = s]
  /\ connected' = [connected EXCEPT ![i] = @ \cup ({s} \ {None})]

(* setStyle(): the change of a style is told to the delegate. *)
Restyle(i, s) ==
  /\ style' = [style EXCEPT ![i] = s]
  /\ connected' = [connected EXCEPT ![i] = (@ \ {style[i]}) \cup ({s} \ {None})]

(* setStyle() of the item i, with another style that lives, or none. *)
Restyled(i, s) ==
  /\ i \in items
  /\ s \in alive \cup {None}
  /\ s # style[i]
  /\ Restyle(i, s)
  /\ UNCHANGED <<items, doomed, class, alive, managerVars, delegateVars>>

(* NodeItem::setStyle(), setItemStyle() *)
SetStyle(i, s) == s \in NodeStyle \cup {None} /\ Restyled(i, s)

(* EdgeItem::setStyle() *)
SetEdgeStyle(e, s) == s \in EdgeStyle \cup {None} /\ Restyled(e, s)

(* EdgeItem::dropEvent(): a style is dropped on an edge. *)
DropStyle(e, s) == s # None /\ SetEdgeStyle(e, s)

(* GroupItem::setStyle() takes the styles of nodes and of edges. *)
SetGroupStyle(g, s) == Restyled(g, s)

(* handleDragEnterEvent(), handleDropEvent(): what is dragged over an item  *)
(* that accepts drops offers a style, which no drag by Qt Quick alone does, *)
(* and the item decides what it takes from it in setItemStyle().            *)
Offered(s) == s \in alive

(* NodeItem::dropEvent(), of a port too: a style for nodes. *)
DropNodeStyle(n, s) == Offered(s) /\ SetStyle(n, s)

(* GroupItem::dropEvent(): any style. *)
DropGroupStyle(g, s) == Offered(s) /\ SetGroupStyle(g, s)

(* Items styleDestroyed() takes their style from when s is destroyed: those *)
(* told of s whose own style is another one.  A QPointer to s is empty.     *)
Stripped(s) == {i \in items : s \in connected[i] /\ style[i] # s}

(* A client destroys a style: QPointers to it empty, then styleDestroyed(). *)
(* The style manager is not told.                                           *)
DestroyStyle(s) ==
  /\ s \in alive \cap (ClientNodeStyle \cup ClientEdgeStyle)
  /\ alive' = alive \ {s}
  /\ style' = [i \in Item |-> IF style[i] = s \/ i \in Stripped(s) THEN None ELSE style[i]]
  /\ connected' = [i \in Item |-> IF i \in Stripped(s) THEN connected[i] \ {s, style[i]}
                                  ELSE connected[i] \ {s}]
  /\ UNCHANGED <<items, doomed, class, managerVars, delegateVars>>

------------------------------------------------------------------------------
(* The delegate of a kind of items becomes c and the former is deleted.     *)
Replaced(k, c) ==
  /\ changes < MaxChanges /\ changes' = changes + 1
  /\ delegate[k] \in components \cup {None}
  /\ delegate' = [delegate EXCEPT ![k] = c]
  /\ doomed' = doomed \cup ({delegate[k]} \ {None})
  /\ reused' = reused \cup ({c} \cap (doomed \cup {delegate[j] : j \in Kind \ {k}}))
  /\ UNCHANGED <<components, alive, itemVars, managerVars>>

(* Components a client may set as the delegate of any kind of items: those  *)
(* that exist, also one that is waiting to be deleted.  The delegate of     *)
(* ports may be taken away.                                                 *)
Settable(k) == components \cup (IF k = "port" THEN {None} ELSE {})

(* Mutant of SetDelegate: whether it is another delegate is not looked at. *)
SetDelegateAgain(k, c) ==
  /\ k # "edge"
  /\ c \in Settable(k)
  /\ Replaced(k, c)

(* setNodeDelegate(), setGroupDelegate(), setHorizontalDockDelegate(),      *)
(* setVerticalDockDelegate(), which want a component, and                   *)
(* qmlSetPortDelegate().                                                    *)
SetDelegate(k, c) ==
  /\ k # "edge"
  /\ c \in Settable(k)
  /\ c # delegate[k]
  /\ Replaced(k, c)

(* setEdgeDelegate() puts the component in a pointer that owns it before it *)
(* looks whether it is another one: the delegate set again is deleted.      *)
SetEdgeDelegate(c) ==
  /\ c \in Settable("edge")
  /\ Replaced("edge", c)

(* The event loop deletes a delegate. *)
DeleteDelegate(c) ==
  /\ c \in doomed \cap components
  /\ components' = components \ {c} /\ doomed' = doomed \ {c}
  /\ UNCHANGED <<alive, delegate, reused, changes, itemVars, managerVars>>

Next ==
  \/ \E n \in Node, s \in {NodeDefault} \cup NodeClassStyle, b \in BOOLEAN : InsertNode(n, s, b)
  \/ \E e \in Edge, s \in {EdgeDefault} \cup EdgeClassStyle, b \in BOOLEAN : InsertEdge(e, s, b)
  \/ \E g \in Group : InsertGroup(g)
  \/ \E p \in Port, n \in Node : InsertPort(p, n)
  \/ \E i \in Item : Remove(i)
  \/ \E i \in Item : DeleteLater(i)
  \/ Clear
  \/ \E i \in Node \cup Port, s \in NodeStyle \cup {None} : SetStyle(i, s)
  \/ \E e \in Edge, s \in EdgeStyle \cup {None} : SetEdgeStyle(e, s)
  \/ \E e \in Edge, s \in EdgeStyle : DropStyle(e, s)
  \/ \E n \in Node \cup Port, s \in NodeStyle : DropNodeStyle(n, s)
  \/ \E g \in Group, s \in Style \cup {None} : SetGroupStyle(g, s)
  \/ \E g \in Group, s \in Style : DropGroupStyle(g, s)
  \/ \E s \in ClientNodeStyle \cup ClientEdgeStyle : DestroyStyle(s)
  \/ \E k \in Kind, c \in Component \cup {None} : SetDelegate(k, c)
  \/ \E c \in Component : SetEdgeDelegate(c)
  \/ \E c \in components : DeleteDelegate(c)

Spec == Init /\ [][Next]_vars

------------------------------------------------------------------------------
(* The style of the class of each node, edge and group of the graph is      *)
(* listed, also after the graph was cleared and filled again, and whatever  *)
(* the list holds was given a component to be shown with.                   *)
StylesListed ==
  /\ \A i \in items \ (doomed \cup Port) : class[i] \in listed
  /\ listed \subseteq known

(* A delegate that clients have handed over once is not destroyed while the *)
(* graph makes items with it, however often delegates are set, except that  *)
(* of edges, and only the delegate of ports may be missing: insertPort()    *)
(* makes docks without looking.  A component that was set again after the   *)
(* graph had given it up, before the event loop deleted it, or for two      *)
(* kinds of items, does get destroyed in use: no setter looks at that.      *)
DelegatesLive ==
  \A k \in Kind \ {"edge"} :
    \/ k = "port" /\ delegate[k] = None
    \/ delegate[k] \in components \ doomed
    \/ delegate[k] \in reused

(* The destruction of a style takes it from the items that have it and from *)
(* no other, whatever styles those had before.                              *)
DestructionIsLocal ==
  [][\A s \in alive \ alive' : \A i \in items :
       style'[i] = IF style[i] = s THEN None ELSE style[i]]_vars
==============================================================================
