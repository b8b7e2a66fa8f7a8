----------------------------- MODULE QanConnector -----------------------------
(***************************************************************************)
(* The visual connector of a graph: the handle the user drags from its     *)
(* host, a node or a port, to the target the new edge will end at.  It is  *)
(* composed with the graph and the ports of QanPorts, which destroy its    *)
(* hosts without a word: destroyed() is emitted when the QPointers of the  *)
(* connector are already clear, so that sourceNodeDestroyed() and          *)
(* sourcePortDestroyed() find that the sender is not their host.           *)
(*                                                                         *)
(* Abstractions: QML completes the graph once, with a valid engine and     *)
(* style, and scripts may use the graph before; hyper edges are disabled,  *)
(* the default; whether an edge item with two ends is hidden by its        *)
(* geometry is any outcome; a port keeps the edges it lists when its node  *)
(* goes.                                                                   *)
(***************************************************************************)
EXTENDS QanPorts

VARIABLES
  complete,      \* componentComplete() created the connector and its edge item
  sourceNode,    \* Connector::_sourceNode, a QPointer
  sourcePort,    \* Connector::_sourcePort, a QPointer
  visible,       \* the item is visible
  connectorEnabled,     \* Graph::_connectorEnabled
  createDefaultEdge,    \* Connector::_createDefaultEdge
  edgeStart,     \* source item of the transient edge item, a QPointer
  edgeEnds,      \* the transient edge item ends at the connector
  edgeVisible    \* it is visible

hosts == <<sourceNode, sourcePort>>
options == <<connectorEnabled, createDefaultEdge>>
transient == <<edgeStart, edgeEnds, edgeVisible>>
connectorVars == <<complete, hosts, visible, options, transient>>
allVars == <<vars, connectorVars>>

Item == Node \cup Port
hostItem == IF sourcePort # None THEN sourcePort ELSE sourceNode

ConnectorInit ==
  /\ Init
  /\ complete = FALSE
  /\ sourceNode = None /\ sourcePort = None
  /\ visible = FALSE
  /\ connectorEnabled = FALSE /\ createDefaultEdge = TRUE
  /\ edgeStart = None /\ edgeEnds = FALSE /\ edgeVisible = FALSE

------------------------------------------------------------------------------
(* Graph::componentComplete(): the connector is hidden, enabled or not, until  *)
(* it gets a source.                                                           *)
ComponentComplete ==
  /\ ~complete
  /\ complete' = TRUE
  /\ visible' = FALSE
  /\ UNCHANGED <<vars, hosts, options, transient>>

(* EdgeItem::setSourceItem() of the transient edge, and the updateItem() that  *)
(* follows: the geometry decides whether an edge with two ends is shown.       *)
DrawFrom(i) ==
  /\ edgeStart' = i
  /\ IF edgeEnds THEN edgeVisible' \in BOOLEAN ELSE UNCHANGED edgeVisible
  /\ UNCHANGED edgeEnds

(* setSourceNode(n): n replaces a source port. *)
SetSourceNode(n) ==
  /\ complete /\ n \in nodes \cup {None}
  /\ UNCHANGED <<vars, complete, options>>
  /\ CASE n = sourceNode -> UNCHANGED <<hosts, visible, transient>>
       [] n # sourceNode /\ n = None ->
            /\ sourceNode' = None
            /\ visible' = (sourcePort # None)
            /\ UNCHANGED <<sourcePort, transient>>
       [] OTHER ->
            /\ sourceNode' = n /\ sourcePort' = None
            /\ visible' = TRUE
            /\ DrawFrom(n)

(* Mutant of SetSourcePort: the transient edge keeps the item it starts at. *)
SetSourcePortOnly(p) ==
  /\ complete /\ p \in ports
  /\ UNCHANGED <<vars, complete, options>>
  /\ sourcePort' = p /\ sourceNode' = None /\ visible' = TRUE
  /\ UNCHANGED transient

(* setSourcePort(p): p replaces a source node.  A port without a node hides    *)
(* the connector and its edge.                                                 *)
SetSourcePort(p) ==
  /\ complete /\ p \in ports \cup {None}
  /\ UNCHANGED <<vars, complete, options>>
  /\ CASE p = sourcePort -> UNCHANGED <<hosts, visible, transient>>
       [] p # sourcePort /\ p = None ->
            /\ sourcePort' = None
            /\ visible' = IF sourceNode = None THEN FALSE ELSE visible
            /\ UNCHANGED <<sourceNode, transient>>
       [] p # sourcePort /\ p # None /\ host[p] # None ->
            /\ sourcePort' = p /\ sourceNode' = None
            /\ visible' = TRUE
            /\ DrawFrom(p)
       [] OTHER ->
            /\ sourcePort' = p /\ sourceNode' = None
            /\ visible' = FALSE
            /\ edgeVisible' = FALSE
            /\ UNCHANGED <<edgeStart, edgeEnds>>

(* Graph::setConnectorSource(n), called when a node is clicked: a nullptr      *)
(* leaves the source alone.                                                    *)
SetConnectorSource(n) ==
  /\ complete /\ n \in nodes
  /\ visible' = connectorEnabled
  /\ UNCHANGED <<vars, complete, options>>
  /\ IF n = sourceNode THEN UNCHANGED <<hosts, transient>>
     ELSE /\ sourceNode' = n /\ sourcePort' = None
          /\ DrawFrom(n)

(* Graph::setConnectorEnabled() *)
SetConnectorEnabled(on) ==
  /\ on # connectorEnabled
  /\ connectorEnabled' = on
  /\ visible' = (complete /\ on)
  /\ UNCHANGED <<vars, complete, hosts, createDefaultEdge, transient>>

SetCreateDefaultEdge(on) ==
  /\ createDefaultEdge' = on
  /\ UNCHANGED <<vars, complete, hosts, visible, connectorEnabled, transient>>

(* connectorPressed(): setSourceItem(nullptr) returns at once. *)
Press ==
  /\ visible
  /\ edgeStart' = IF hostItem = None THEN edgeStart ELSE hostItem
  /\ edgeEnds' = TRUE
  /\ edgeVisible' = TRUE
  /\ UNCHANGED <<vars, complete, hosts, visible, options>>

(* updateItemSlot(), when the connector or an item the edge ever started at    *)
(* moves.                                                                      *)
Redraw ==
  /\ edgeEnds /\ edgeStart # None
  /\ edgeVisible' \in BOOLEAN
  /\ UNCHANGED <<vars, complete, hosts, visible, options, edgeStart, edgeEnds>>

------------------------------------------------------------------------------
NodeOf(i) == IF i \in Port THEN host[i] ELSE i

(* Mutant of Accepted: a source port decides alone. *)
AcceptedBySource(target) ==
  IF sourcePort # None THEN SourceBindable(sourcePort)
  ELSE target \in Port => DestinationBindable(target)

(* The ports that have a say accept an edge. *)
Accepted(target) ==
  /\ sourcePort # None => SourceBindable(sourcePort)
  /\ target \in Port => DestinationBindable(target)

(* insertEdge(), then bindEdge(): an end is left on the node when its port     *)
(* does not accept the edge.                                                   *)
Joined(e, s, target) ==
  LET out == sourcePort # None /\ SourceBindable(sourcePort)
      in == target \in Port /\ DestinationBindable(target)
  IN /\ tail' = [tail EXCEPT ![e] = IF out THEN sourcePort ELSE s]
     /\ head' = [head EXCEPT ![e] = IF in THEN target ELSE NodeOf(target)]
     /\ outItems' = IF out THEN [outItems EXCEPT ![sourcePort] = @ \cup {e}] ELSE outItems
     /\ inItems' = IF in THEN [inItems EXCEPT ![target] = @ \cup {e}] ELSE inItems

(* connectorReleased(target) creates an edge.  VisualConnector.qml does not    *)
(* call it on the item of its own source node.                                 *)
ReleaseOn(target, e) ==
  LET s == IF sourceNode # None THEN sourceNode
           ELSE IF sourcePort # None THEN host[sourcePort] ELSE None
      d == NodeOf(target)
  IN /\ visible
     /\ target \in nodes \cup ports /\ target # sourceNode
     /\ s # None /\ d # None
     /\ createDefaultEdge /\ Accepted(target)
     /\ \A p \in Port : e \notin outItems[p] \cup inItems[p]
     /\ G!AddLink(s, e, d)
     /\ Joined(e, s, target)
     /\ edgeVisible' = FALSE
     /\ UNCHANGED <<ports, host, type, single, complete, hosts, visible, options, edgeStart,
                    edgeEnds>>

(* It creates none: no source or target node, ports that refuse the edge, an   *)
(* edge that is only requested from the user, or a target that is ignored.     *)
ReleaseInVain ==
  /\ visible
  /\ edgeVisible' = FALSE
  /\ UNCHANGED <<vars, complete, hosts, visible, options, edgeStart, edgeEnds>>

(* A step of the graph: the items it destroys clear the QPointers to them.     *)
Alive(i) == IF i \in nodes' \cup ports' THEN i ELSE None

GraphStep ==
  /\ Next
  /\ sourceNode' = Alive(sourceNode)
  /\ sourcePort' = Alive(sourcePort)
  /\ edgeStart' = Alive(edgeStart)
  /\ UNCHANGED <<complete, visible, options, edgeEnds, edgeVisible>>

ConnectorNext ==
  \/ GraphStep
  \/ ComponentComplete
  \/ \E n \in Node \cup {None} : SetSourceNode(n)
  \/ \E p \in Port \cup {None} : SetSourcePort(p)
  \/ \E n \in Node : SetConnectorSource(n)
  \/ \E on \in BOOLEAN : SetConnectorEnabled(on)
  \/ \E on \in BOOLEAN : SetCreateDefaultEdge(on)
  \/ Press
  \/ Redraw
  \/ \E target \in Item, e \in Edge : ReleaseOn(target, e)
  \/ ReleaseInVain

ConnectorSpec == ConnectorInit /\ [][ConnectorNext]_allVars

------------------------------------------------------------------------------
(* The transient edge the user sees starts at the host the new edge will leave *)
(* from, whatever hosts the connector had before and whichever of them were    *)
(* destroyed (setSourceNode(), setSourcePort(), qanConnector.cpp:257-361).  A  *)
(* port that lost its node is no host: it creates no edge.                     *)
TransientStartsAtHost ==
  edgeVisible /\ edgeStart # None /\ NodeOf(hostItem) # None => edgeStart = hostItem

(* An edge created by a release joins the host of the connector and the target, *)
(* ports included, never a node in the place of its port: the check of the ports *)
(* before the insertion covers the two bindings after it                         *)
(* (qanConnector.cpp:94-166, qanGraph.cpp:607-711).                              *)
ReleasedIsBound ==
  [][\A target \in Item, e \in Edge :
       ReleaseOn(target, e) => tail'[e] = hostItem /\ head'[e] = target]_allVars
==============================================================================
