# TLA+ models of QuickQanava

QuickQanava is a C++/QML library to display and edit directed graphs. Its
model is a graph library (GTpo), its containers expose themselves to QML
(QuickContainers), and `qan::Graph` joins the two with the items on the
screen. Everything runs on one GUI thread. What makes the code hard is not
threads: the same fact is recorded in two to five places (lists of weak
pointers, plain pointers, caches, properties of items), every operation
updates these places one by one, and operations call each other back through
signals, behaviours and property setters, while objects are destroyed by
whoever owns them.

The modules below model those records and every operation on them. TLC checks
on small instances that they stay coherent; TLAPS proves it for all instances
of the topology, the groups, the selection, the containers, the ports and the
connector, the drag control, the items on the screen and the lines between
them, the view and its grid, the styles, and the graph of the new GTpo.

Paths are relative to `src/` of the repository; `qan*` files are in
`src/src/`, `gtpo*` files in `src/GTpo/src/`, `qcm*` files in
`src/QuickContainers/src/`.

## Inventory

| Part | State | Operations | Talks to | What makes it correct |
|---|---|---|---|---|
| GTpo topology: `gtpoGenGraph.*`, `gtpoGenNode.*`, `gtpoGenEdge.*` | node and edge containers, root node cache, in/out edge and neighbour lists of each node, end points of each edge, edges that end at edges | insert and remove nodes, edges, parallel and hyper edges; clear; find and count edges | behaviours (told of changes), `qan::Graph` (derives from it) | an edge is listed exactly where it should be; the root cache finds every root; a removal takes what it must |
| Behaviours: `gtpo*Behaviour.*` | observers of the graph, of nodes and groups | install, enable, notify | topology, groups | every change is told once, to everyone concerned |
| Groups: `gtpoGenGroup.*`, `gtpoAdjacentBehaviour.hpp`, `qanGroupItem.cpp` | group of a node, nodes of a group, adjacent edges, parent of the node item, collapsed, edge visibility | group, ungroup, insert and remove groups, collapse | topology (callbacks), scene items | memberships agree; adjacent edges are those of the members; no node loses its item |
| Selection: `qan::Graph`, `qan::Selectable` | two lists of plain pointers, a property and a selection item per item, `selectedNode`, the policy | clicks, add, remove, clear, policy, item properties | topology (removal), items (call back), drag | lists, properties and selection items agree; no dangling pointer |
| QuickContainers: `qcmContainer.h`, `qcmContainerModel.h` | the container, the model, its object map, what views were told | append, insert, removeAll, clear, removal from scripts, label changes | everything above; QML views | views and scripts see the container |
| Ports: `qanPortItem.*`, `qan::Graph` | type, multiplicity, listed edge items, ends of edge items | insert and remove ports, bind edges | topology (removal), connector | bound edges are listed; multiplicity is respected |
| Connector: `qanConnector.*` | source node or source port, transient edge | set source, press, release | ports, topology | what the user sees is the edge that is created |
| Drag control: `qanDraggableCtrl.hpp` | dragged flag, positions, proposed group | begin, move, end, for a whole selection | selection, groups | every drag that begins ends; items keep their formation and their place |
| Edge items: `qanEdgeItem.*` | visibility, `hidden`, the drawing | `updateItem()` | nodes, groups, styles, ports | what is shown is fresh and fits between its ends |
| Node and group items, resizer: `qanNodeItem.*`, `qanBottomRightResizer.*` | place, size, bounding shape, target and minimum of the resizer | move, resize, gestures | edge items | edges follow; minimum sizes hold |
| View and grids: `qanNavigable.*`, `qanGrid.*` | position and zoom of the container, fit mode, what the user modified, the grid | wheel, pan, fit, resize, center | items | zoom keeps its point, fits fit, the grid covers the view |
| Styles and delegates: `qanStyle*.*`, `qan::Graph` | styles of items, styles listed with their components, delegates | create items, set and destroy styles, set delegates | all items | the styles in use are listed; delegates in use live |
| New GTpo: `GTpo/src/gtpo/` | a rewrite of the topology that `qan` does not use yet: graph, groups as nodes, observers, algorithms | insert, remove, group; traversals, tests, copies, generator | | observers follow; algorithms compute what they say |

Hard behaviours: callbacks that edit a list which is being walked
(`clearSelection()`, `removePort()`, hyper edges); caches fed by callbacks in
an order that depends on the client (adjacent edges, root nodes, the map of a
model created late); plain pointers to objects destroyed elsewhere (selected
groups, edge items of a port); calls that throw or refuse in the middle of an
operation (`removeNode()` with hyper edges, `bindEdge()`); legal call
sequences nobody tests (grouping twice, rebinding an edge, a selection that
changes during a drag, a multiplicity in use). There is no persistence, no
network and no thread: crash recovery, lost messages and data races do not
arise. `PROJECT.json` lists the hazards, each at its line.

## Modules

| Module | Models | Rests on |
|---|---|---|
| `Digraph` | abstract: what a graph promises, nodes and links `<<source, edge, destination>>` | |
| `GTpoTopology` | the topology as kept by `gtpo::GenGraph` | implements `Digraph` |
| `GTpoBehaviours` | hyper edges and behaviours of the same graph, call by call | |
| `QanGroups` | groups and their items | `Digraph` |
| `QanSelection` | selection | |
| `Vectors` | removals from vectors: no state | |
| `QcmContainer` | a container with its model and a view | extends `Vectors` |
| `QanPorts` | ports and edge binding | `Digraph` |
| `QanConnector` | the visual connector | extends `QanPorts` |
| `QanDrag` | drag control, selection and drop in groups | |
| `QanEdgeGeometry` | the functions that compute a line: no state | |
| `QanItems` | nodes, groups and edges on the screen, the resizer | extends `QanEdgeGeometry` |
| `QanEdgeLine` | one edge between two items, in every configuration | extends `QanEdgeGeometry` |
| `QanGrid` | the ticks of a grid: no state | |
| `QanNavigable` | the view | extends `QanGrid` |
| `QanStyles` | styles, style manager, delegates | |
| `GtpoGraph` | the new GTpo | extends `Vectors`, implements `Digraph` |
| `GtpoAlgorithms` | its algorithms | extends `GtpoGraph` |
| `*_proofs` | theorems about the module they are named after; those of `QcmContainer` and `GtpoGraph` are in `Vectors_proofs`, of `QanSelection` and `QanNavigable` in `QanGraphView_proofs`, of `QanEdgeLine` in `QanItems_proofs` | |
| `MC*` | sets, shapes and symmetry for TLC | |

`Digraph` is what holds the parts together. `GTpoTopology` and `GtpoGraph`
implement it by refinement mappings that read links off their adjacency lists
(`ImplementsDigraph`); `QanGroups`, `QanPorts` and thereby `QanConnector` take
it as their graph.

### GTpoTopology

Variables are the members of `GenGraph`, `GenNode` and `GenEdge`. Each action
is a method of `GenGraph` with every call it makes: `InsertEdge` includes
`addOutEdge()` and `addInEdge()`, `RemoveNode` the removal of each edge and
what each removal does to the root cache (`RootsWithout`). Neighbour lists and
the root cache hold duplicates, so they are bags; the other containers are
sets. The code installs a node in the root cache without looking whether it is
there, so its entries grow without limit: `MaxEntries` bounds them.

`IncidenceCoherent`: the lists of both ends and the end points of the edges
are the same relation. `RootCacheCoherent`: exactly the nodes no other node
points to, and no node without in edges missing. `NeighboursMirrored`: the
neighbour lists of both sides agree and none outlives its edges.

### GTpoBehaviours

The calls of a removal (`RemoveInEdge`, `RemoveOutEdge`, `RemoveHyperEdges`...)
are operators on a graph record, composed as in the code: each notifies, edits
a list and calls the next, and all are skipped while `thrown` is set.
`removeEdge()` walks the list of hyper edges its own calls edit; the model
walks it by index in the same way. A behaviour is represented by what it was
told since it was installed.

`HypergraphCoherent` is the incidence with edges that end at edges;
`BehavioursFollow` says that what was told adds up to what is observed,
`CascadeExact` that a removal takes exactly the edges that end at what goes,
`ThrowsOnlyOnHyperEdges` names the two shapes of graphs removals throw on.

### QanGroups

`GroupNode`, `UngroupNode` and `RemoveGroup` are those of `qan::Graph`, with
the GTpo operation, the behaviour callback and the reparenting of the item.
`AdjacentWithout` is `edgeRemoved()`, `LeavingWith` is `nodeRemoved()`. Moving
an item updates its edges and thereby shows them (`Moved`); whether grouping
changes the position of an item depends on the geometry, so both outcomes are
allowed. Pointers to destroyed objects left in a list are the entry `Expired`.

### QanSelection

`listed` is what the two lists hold, `flagged` the items whose `selected` is
true, `shown` the QML state of their selection items. `Click` is
`selectPrimitiveImpl()` with its policy table. `clearSelection()` is a walk in
steps: `BeginClear` copies the nodes, `Visit` unselects one item of the copy,
which takes itself out of the list (`Unselect`), `NodesCleared` clears that list
and copies the groups, `GroupsCleared` ends the walk and selects the item that
was clicked on. Between two visits a client's handler of `selectedChanged()` may
unselect further items (`Handler`); handlers that remove or select items
meanwhile are left out, and no other operation starts before the walk ends, as
there is one thread. The order of the visits is free.

A pointer to a destroyed group stays in the list, as `removeGroup()` does not
look at it; reading it is undefined, so the model then sets `crashed` and stops
(hence `CHECK_DEADLOCK FALSE`). `ListedNodesLive` says that nothing else leads
there, also not the copies, which are read after the lists have changed.
`SelectionCleared` is what the walk is for: nothing it found in the lists is
selected or highlighted when it ends. It fails as soon as the loop goes over the
list itself (`PendingInList`), which the comment in the code warns of.
An identity is not reused while a pointer to its former owner remains.

### QcmContainer

`kind` is what the container holds: pointers, `shared_ptr` or `weak_ptr`.
`shown` is the list a view builds from the row announcements alone, `mapped`
are the keys of the map scripts go through, `monitored` the objects whose
label change reaches the views. `RemoveAll` removes every occurrence and
announces one row, as the FIXME in the code says.

`ModelFollows`: nothing that left the container is mapped, and label changes
of what the model can find are heard; what scripts and views read by index or
role (`At`, `ModelAt`, `ItemData`) is no destroyed object, and is the one they
looked for. `Null` is what an access beyond the end returns. `StaysMirrored`: a faithful view stays
faithful as long as nothing is held twice.

### QanPorts and QanConnector

`outItems` and `inItems` are the lists of a port, `tail` and `head` the ends
of an edge item (QPointers: they become null when their object is destroyed).
`RemovePort` walks lists that its own removals shorten; `Walked` has every
outcome of that walk. No operation takes an edge out of a port's lists.

`QanConnector` adds the handle the user drags and what it shows, once QML has
completed the graph (`ComponentComplete`); options set before are kept, and the
connector is hidden until it gets a source. Steps of the
graph (`GraphStep`) destroy its hosts under it; `ReleaseOn` is
`connectorReleased()` with the checks of the ports, the insertion and the two
bindings. `BoundIsListed` and `SingleNotShared` are checked on this
composition, so with edges created both ways.

### QanDrag

The mouse presses an item, the first move begins a drag (`Begin`), later ones
move it with its followers (`DragMove`), the release drops them. Selections
change at any moment (`Select`, `Deselect`): items deselected while dragged
are `strayed`, and the properties except them, as `endDragMove()` does not
find them again. The scene is a line.

### QanEdgeGeometry, QanEdgeLine and QanItems

`QanEdgeGeometry` computes, in exact integer arithmetic (a point is a fraction
with a common denominator), the intersection of the line between two centres
with the boxes of the items, the corrected ends at docks, the control points
of curves and their tangents. `QanEdgeLine` applies it to one edge in every
combination of sizes, places, docks and line types.

`QanItems` follows signals: an edge item keeps a drawing (`item[e].drawing`)
made by `updateItem()` when some signal reaches it, and `VisibleIsFresh`
compares it with what it would be now (`Current`). The resizer is in the same
module since what it does to a node is a resize edges hear of.

### QanGrid and QanNavigable

Zooms are integers with `One` for 1.0, positions are integers, and a step
whose result is no integer is not taken (`Exact`). Wheel, mouse, programs,
fits and resizes are actions; each ends as in the code with `updateGrid()`, or
without it. `fresh` says whether the grid is that of the current view.

The container is placed in the coordinates of the view (`x`), the view in those
of its parent (`geometry`). `geometryChanged()` compares the one with the other
without converting, and so do `Resize` and `Anchored`. What comes of it,
`ContentAnchored`, is that no gap is left in the span the view has in its
parent; that no gap is left in the view itself, as documented
(`qanNavigable.h:191`), is true of views at `x = 0` only. In the same way
`AutoFitCenters` says what a fit does, for contents anywhere in the container;
that the content is then all in view (`qanNavigable.h:187`) is true only of one
that starts at the container's origin. In the instance of run `view` a content of
2 by 2 at 2 is fitted in a view of 4 by 4 at twice its size, at 4 to 8, out of the
view; and one of 8 by 2 that was dragged off the left border of a view at `x = 2`
is anchored at 2, with the gap on its left.

### QanStyles

Items point to styles by QPointers; `connected` are the styles whose signals
reach an item. `DestroyStyle` empties the pointers, then runs
`styleDestroyed()`. `listed` and `known` are the lists and the component map
of the style manager. A style that is dragged on an item comes by
`DropNodeStyle` (ports too) or `DropGroupStyle`; the manager is not told.
Delegates are owned by the graph: `Replaced` dooms the
former one, the event loop deletes it later (`DeleteDelegate`). A client may set
any component that still exists for any kind of items (`Settable`), also the one
the library made, one the graph has just given up, and one it has for another
kind: the setters test nothing but that it is another than the present one.
`reused` records the components that were set while the graph had them, or
before the event loop had deleted them; these are destroyed in use, and
`DelegatesLive` excepts them and the delegate of edges. No step follows a pointer
to a component that is gone.

### GtpoGraph and GtpoAlgorithms

All containers of the new GTpo are vectors, so sequences; `Erased` (of
`Vectors`) is the loop that takes an element out of one. The operations are
operators from graphs to graphs, and the functions that build graphs are made
of them. Traversals, tests, the iterator, copies and the tree generator are
recursive operators with the marks and caches of the code (`FilterMap` for every
injective translation of nodes), compared in every
reachable graph with definitions of what they compute.

## Runs

| Run | Checks | Instance |
|---|---|---|
| `topology` | `IncidenceCoherent`, `RootCacheCoherent`, `NeighboursMirrored`, `ImplementsDigraph` | 3 nodes, 3 edges, 4 cache entries per node |
| `behaviours` | `HypergraphCoherent`, `BehavioursFollow`, `CascadeExact`, `ThrowsOnlyOnHyperEdges` | 3 nodes, 3 edges, 1 group |
| `groups` | `MembershipCoherent`, `AdjacencyCoherent`, `NoItemLost` | 2 nodes, 2 edges, 2 groups |
| `selection` | `ListedAreFlagged`, `ListedNodesLive`, `SelectionCleared` | 2 nodes, 2 groups |
| `container` | `ModelFollows`, `StaysMirrored` | 3 objects, 4 rows, three kinds of items |
| `connector` | `BoundIsListed`, `SingleNotShared`, `TransientStartsAtHost`, `ReleasedIsBound` | 2 nodes, 2 edges, 1 port |
| `drag` | `NothingLeftDragged`, `FormationKept`, `PlaceKept` | 2 nodes, 1 group, a scene of length 2, 1 strayed item |
| `items` | `VisibleIsFresh`, `MinimumKept` | 2 nodes, 1 group, 1 edge, 1 style, 4 places, 3 sizes |
| `lines` | `EndsFit`, `LeavesOutside`, `CurveArrives` | boxes of 3 shapes at 121 places, 4 docks or none at each end, straight and curved |
| `view` | `GridCovers`, `ZoomKeepsPoint`, `AutoFitCenters`, `ContentAnchored` | views of 2 shapes at their parent's origin, one of them beside it too, 3 contents, zooms 1 to 4 with 1.0 at 2, positions -6 to 6 |
| `styles` | `StylesListed`, `DelegatesLive`, `DestructionIsLocal` | one node, port, edge and group, 2 items at a time, the delegates of edges and ports, one component of a client, 2 changes |
| `gtpo` | `ObserversFollow`, `ImplementsDigraph`, `TestsSound`, `TraversalsAgree`, `CopiesAreClean` | 2 nodes and a group, 2 edges, 3 root entries |

All pass; symmetry is used where identities are interchangeable and no
liveness is checked (all runs).

Why the bounds are enough. Three nodes and three edges hold every shape the
operations of the topology tell apart: a self loop, parallel edges in both
directions, a node with in and out edges at once, a third node untouched by an
operation; with hyper edges, two that end at one edge, a chain of two, and an
edge with a hyper edge of the same source. `MaxEntries` must exceed 1 for
duplicates in the root cache to show; 4 leaves room for three removals in a
row. Two groups are enough for a node to leave one and enter the other, and
two edges for one to be told and one to be missed. Two nodes and two groups
let a selection hold two of a kind and one of each, so that a walk has an item
before it while it visits another, in either list. Four rows of three objects
hold duplicates with something between them. Two edges compete for one port;
that two ports behave like one is what the theorems about `QanPorts` add. Two
followers do not interact in a drag, so an item under the mouse and one that
follows suffice, with a group as large as a node. `lines` has boxes that touch,
overlap and lie apart by less and by more than an arrow, in all eight
directions and between them, and far away. `view` has a content at the origin,
one beside it and one wider than the view, zooms below and above 1.0, and a view
beside the origin of its parent. Two changes of delegates set another component
and the first one again, or one for two kinds, with the event loop in between or
not; edges are the kind whose setter differs, and ports the only one without a
delegate. `gtpo` reaches all graphs of
three nodes with two edges, the smallest with a stale root cache, a node that
is reached twice and a group that is removed as a node.

Fairness: none is assumed. Each operation runs to its end when a client calls
it, and no client has to call anything. There is no scheduler, queue or timer
of the program's own whose progress could be promised; the one deferred work,
the deletion of items by Qt's event loop, promises nothing in `qan` but
itself. So all properties are about safety and about steps.

## Proofs

| Module | Theorem | States |
|---|---|---|
| `GTpoTopology_proofs` | `TypeCorrect` | `[](TypeOK /\ IncidenceCoherent)` |
| | `RootCacheCorrect` | `[]RootCacheCoherent` |
| | `NeighboursCorrect` | `[]NeighboursMirrored` |
| | `Implementation` | `ImplementsDigraph` |
| `QanGroups_proofs` | `MembershipKept`, `AdjacencyKept`, `ItemsKept`, `TypeCorrect` | the three invariants of run `groups`, `TypeOK` |
| `QanConnector_proofs` | `BindingsListed`, `SinglePortsKept` | of `QanPorts` alone: `[](TypeOK /\ BoundIsListed)`, `SingleNotShared` |
| | `ConnectorListsBindings`, `ConnectorKeepsSinglePorts` | the same with the connector (`ConnectorSpec`) |
| | `TransientFollowsHost`, `ReleasesBind` | `[]TransientStartsAtHost`, `ReleasedIsBound` |
| `QanDrag_proofs` | `DragsEnd`, `FormationsKept`, `PlacesKept` | `[]NothingLeftDragged`, `FormationKept`, `PlaceKept` |
| `QanItems_proofs` | `EdgesFresh`, `MinimumsKept` | `[]VisibleIsFresh`, `MinimumKept` |
| | `EndsAlwaysFit`, `AlwaysLeavesOutside` | of `QanEdgeLine`: `[]EndsFit`, `[]LeavesOutside` |
| `QanGraphView_proofs` | `SelectionCoherent`, `SelectionLive` | of `QanSelection`: `[](TypeOK /\ ListedAreFlagged)`, `[]ListedNodesLive` |
| | `ClearedSelection` | `SelectionCleared` |
| | `GridsCover` | of `QanNavigable`: `[]GridCovers` |
| | `ZoomsKeepPoint`, `AutoFits`, `ContentsAnchored` | `ZoomKeepsPoint`, `AutoFitCenters`, `ContentAnchored` |
| `QanStyles_proofs` | `ClassStylesListed`, `DelegatesSurvive`, `DestructionLocal` | `[]StylesListed`, `[]DelegatesLive`, `DestructionIsLocal` |
| `Vectors_proofs` | `ModelsFollow`, `MirrorsStay` | of `QcmContainer`: `[]ModelFollows`, `StaysMirrored` |
| | `ObserversKnow`, `GraphImplementsDigraph` | of `GtpoGraph`: `[]ObserversFollow`, `ImplementsDigraph` |

All hold for any sets of identities and any bounds. The only assumptions are
the `ASSUME`s of the modules, which TLC evaluates in every run: null values are
no identities, kinds of items are disjoint, bounds are natural numbers; places
and sizes of `QanItems` are pairs of integers, and there is a least size, which
items have at first; items of `QanEdgeLine` have a width and a height, and
integers as places; sizes of views and the least zoom are positive, and the
model reaches the zoom 1.0 (`One <= MaxZoom`). The
inductive invariants were checked by TLC on the instances of the runs before
they were proved.

*Topology.* `TypeOK /\ IncidenceCoherent` is inductive: it contains that the
graph is finite, so that the number of removed edges is a natural number. The
root cache is not inductive by itself: whether a node has to be installed is
read off its in edges, so the step needs `IncidenceCoherent`, by which a node
that loses its last in edge loses it with a removal that mentions it as a
destination. The lemmas `RemoveEdgesType`, `RemoveEdgesIncidence`,
`RemoveEdgesRoots` and `RemoveEdgesNeighbours` treat the three ways to remove
edges between two nodes at once. `NeighboursMirrored` counts with
`Cardinality`; the step for one more edge is `FS_AddElement`, those for
removals clear the entry as the code does. For the refinement, `EdgesAreLinked`
turns the lists into the set of links by incidence, and `StepsAreSteps` maps
each operation to its operation of `Digraph`.

*Groups.* The invariant adds to the three properties that an edge has one link
(`OneLink`) and that no adjacent edge dangles unless it is `Expired`
(`AdjacentLive`): without them an edge that is inserted could have the
identity of one that is still listed. `HidingStep` and `EdgesDropped` treat
the operations that only hide or remove edges.

*Ports.* The invariant adds `OneLink` and `EndsOfLinks` (the ends of an edge
item are the nodes of its edge or ports). `SingleNotShared` is about steps:
an edge that is added to a port passed the test, which reads a list that
`BoundIsListed` makes an upper bound of what is bound.

*Connector.* `ReleaseEffect` says what `connectorReleased()` amounts to, the
insertion and both bindings together, and `ReleaseStep` that this keeps the
invariant of the ports although the edge is bound to a port in the step that
makes it. The connector's part of the invariant is `HostsExist` (one host at
most, which has not been destroyed) and `StartsAtHost`, which is
`TransientStartsAtHost` whether the edge is shown or not: the start of the
transient edge is kept while it is hidden. `GraphStepKeeps` needs that no
operation gives a port a node after it lost its own: otherwise a port that is no
host any more would become one while the transient edge starts elsewhere.

*Selection.* Outside a walk the properties and the types are inductive together
(`OperationStep`). A walk needs `Walk`: what is visited is neither listed nor
flagged, what is still to be visited and gone is listed, the list that is being
cleared holds nothing the copy does not, and an item that was clicked on is in
no copy. Then an item a visit finds destroyed is in the lists, so a group
(`VisitStep`), and when the loops end the lists are empty before they are cleared
(`WalkedOver`), which gives `SelectionCleared`.

*Drag.* `NothingLeftDragged` is not inductive: the release undoes what a walk
over the selection finds, so the invariant says that the walk finds the
formation, which is all that is dragged and did not stray (`FormationFound`).
`FormationKept` needs that the formation moved as far since it started
(`FormationMoved`): places are computed from where the drag began, not from the
last move. An item under the mouse that is in a group does not move before it
leaves, and neither do the others. `DragMoveEffect` is the move with that
leaving, `ReleasePlaces` the drop in a group from a group.

*Items.* `VisibleIsFresh` is inductive with the types once it is stated for
each edge (`Fresh`). A step may treat an edge item in three ways: draw it again
(`AppliedIsFresh`, `Updated`), put it out, or leave it, and then nothing its
drawing depends on has changed (`Unmoved`). The geometry is never opened.
`MinimumKept` follows from what the resizer does when it is configured
(`ConfiguredBounds`) and at each move of its handler (`DragBounds`).

*View and grid.* The types are all the invariant that is needed; the work is
in the arithmetic. A quotient is exact where the model uses it (`ExactQuotient`)
or rounded as by `floor()` and `ceil()` (`FloorBounds`, `CeilBounds`), which
turns each property into an inequality of products; the lemmas on products
(`ProductGrows`, `ProductSum`...) are cited with their factors, as the provers
find no step of that kind themselves. `TicksAre` says which multiples of the
step `updateGrid()` shows, `FitZoomFits` that a fit never makes the content
larger than the view, `FittedShows` where it then is, `AnchoredFills` that an
anchored content reaches over both ends of the span of the view in its parent.

*Styles.* `StylesListed` is inductive with the types and with what `known`
holds; `DelegatesLive` needs that delegates and items are told apart among
what is doomed, and that two kinds share a component only if it was set while the
graph had it (`Owned`).
`DestructionIsLocal` needs that an item is connected to no style but its own.

*Vectors.* What a loop over a vector computes for every length takes an
induction. The induction theorems of the library have an operator as a
parameter, which the provers cannot instantiate; but that every nonempty set of
numbers has a least element (`Least`) has none, and gives induction over a set
of numbers (`Induction`). So loops are written as recursive functions, whose
value at each position is then a fact about a set of positions. `KeptProperties`,
`ErasedProperties` and `ErasedOnce` say what a removal leaves, `InsertedAt`,
`RemovedAt` and `FirstProperties` the same of rows.

*Containers.* `ContainerInv` has what the steps need: what is mapped is in the
container and nothing is before there is a model; what is not held by weak
pointers is alive; the labels of pointers are heard from the start, those of
the other kinds once mapped; and the view never has less rows than the
container, so that a row that is announced is one the view has. `IndexIs` says
when `indexOf()` finds what the container holds. `StaysMirrored` is about steps
without duplicates: then the one row `removeAll()` announces is all it removes
(`ErasedOnce`).

*Graph of the new GTpo.* `ObserversFollow` compares counts with lengths and is
not inductive: it says nothing of what the lists hold. `Wired` does, each edge
once in the list of either end and nowhere else, and the counts are theirs. It
does not hold in the middle of `remove_node()`, which empties the lists of a
node while its edges are still in the graph and then removes the edges one by
one, each of which looks for itself in lists it has left: so `Wired` has two
parameters, the nodes whose in lists and whose out lists are being emptied.
`InEdgesRemoved` and `OutEdgesRemoved` are the two halves of the operation,
`RemovedKeeps` the whole of it, also for a group that is removed as a node.
`GroupsListed` has the group that is being removed as an exception in the same
way. `GraphStep` says of each step that it keeps `GraphInv` and which change of
nodes and edges it makes; by that the refinement needs no list any more:
`Joined` are the links `Digraph` is about, one for each edge and its ends.

*Lines.* The points of a line are fractions in lowest terms, so the first thing
needed is that `Gcd` divides both of its numbers (`GcdDivides`): by induction as
above, for a recursive function on pairs. Then `PointIs` and `MovedIs` say that
reducing changes no point. A line is looked at in the direction of one dock at
a time: `Beside(n, dock, p, a)` says that n times the coordinate of p in that
direction is a at least, which a sum of fractions keeps (`SumBound`), and so
does each function on points (`MovedBeside`, `FromBeside`, `PointBeside`).
`EndIsWithin` then puts the ends of every line inside the boxes of their items,
docks included, and `RoomyEnds` and `RoomyIsNotShort` compare what is between
them with the arrow. For ports, `SocketIs` and `CulledIs` place the ends,
`LeavingIs` the control points and `BorderedIs` where these are cut.

Only model-checked, and why:

- `GTpoBehaviours` (`HypergraphCoherent`, `BehavioursFollow`, `CascadeExact`,
  `ThrowsOnlyOnHyperEdges`): the removals of edges and hyper edges call each
  other back until nothing is left, which is written as RECURSIVE operators as
  in the code, and the provers have no support for them. A function would need
  a domain that holds all graphs with all their notifications.
- `GtpoAlgorithms` (`TestsSound`, `TraversalsAgree`, `CopiesAreClean`): RECURSIVE
  operators too, and what they are compared with are closures.
- `CurveArrives` of `QanEdgeLine`: it has no form for all sizes. The least bend
  of a curve is a fixed fraction in the model (1/64 for the 0.001 of the code),
  and an end that is almost above the other one would be bent to its other
  side; the sizes and places of the run leave such lines out.

No property is a liveness property.

## What the models show that the code's documentation does not say

The properties hold with these exceptions, each of which the model has and no
property forbids:

- The last neighbour entry goes with one of two parallel edges
  (`gtpoGenNode.hpp:87`), and a root that loses an out edge is cached again.
- The self loop of a node that leaves a group stays adjacent to it
  (`gtpoGenGraph.h:432`, against `GTpo/tests/gtpoGroups.cpp:296`).
- `removeEdge()` does not copy the hyper edges although its comment says so
  (`gtpoGenGraph.hpp:299`): with two of them it throws, and `removeNode()`
  does with an edge and a hyper edge at it of the same source.
- `disable()` has no effect on behaviours (`gtpoBehaviour.h:84`).
- Edges of a collapsed group are shown when their other end moves
  (`qanGroupItem.cpp:173`), and hidden edges are not drawn again with their
  group; for an invalid geometry `updateItem()` sets `hidden` and leaves the
  item visible (`qanEdgeItem.cpp:225`).
- A click with CTRL takes an item out of the lists and leaves its `selected`
  property (`qanGraph.cpp:960`); `selectedNode` is never reset by a removal;
  an item that ceases to be selectable keeps the state of its selection item.
- What a container holds before it has a model is never mapped and, for smart
  pointers, loses its label updates (`qcmContainerModel.h:303`); expired weak
  pointers leave by `clear()` only.
- A `Single` port keeps the item of a removed edge and refuses any other
  (`qcmContainer.h:296`, `qanPortItem.h:160`).
- The connector never falls back on the node of a destroyed port
  (`qanConnector.cpp:303`, against `qanConnector.h:56`).
- A group that one node leaves and another enters in the same move keeps the
  last of `nodeDragEnter()` and `nodeDragLeave()`.
- `styleDestroyed()` is without effect (`qanNodeItem.cpp:259`): the QPointer is
  empty by then; an edge item keeps `Edge::style()` whatever the class of the
  edge says; a new style does not redraw the edge; a node whose style was
  destroyed takes no port (`qanGraph.cpp:1100`); the style manager is never
  told of a destroyed style.
- `setEdgeDelegate()` with the delegate that is set destroys it
  (`qanGraph.cpp:300`); a delegate set again in the turn of the event loop in
  which it was replaced is deleted by that turn all the same, and one that is set
  for two kinds of items goes when either kind gets another one
  (`qanGraph.cpp:276`).
- A fit ignores where the content starts in the container
  (`qanNavigable.cpp:126`, against `qanNavigable.h:187`), and a resize anchors the content to the
  span of the view in its parent instead of the view's own
  (`qanNavigable.cpp:373`, against `qanNavigable.h:191`).
- `insertGroup()` returns a pointer to a destroyed group when its delegate
  fails (`qanGraph.hpp:248`), and docks are made from delegates without looking
  whether an item came out (`qanGraph.cpp:1215`).
- In the new GTpo, `remove_group()` does not tell the observers of the graph,
  grouping again leaves the node in its former group, the tests for trees and
  acyclic graphs refuse shapes they should accept, and depths of siblings add
  up.

## Not modelled

- **Drawing and layout**: labels, shadows, docks as items, QML delegates, the
  handler of the resizer, the preview of the view. Their state is pixels and
  no other part reads it.
- **Real numbers**: positions and zooms are integers and fractions of them.
  Rounding, fuzzy comparison, the averaged angle of arrows
  (`qanEdgeItem.cpp:472`) and bounding polygons that are no rectangles are out
  of reach of the tools.
- **Callbacks of clients**: what a behaviour or a slot of a client does when it
  is told is unknown. That it may call the graph again is allowed between
  operations only, but for handlers that unselect items during
  `clearSelection()`.
- **Groups in groups** (`GenGraph::groupNode()` of two groups, which
  `qan::Graph` does not offer), **hyper edges made by the connector** and the
  edge items of hyper edges.
- **Non-visual insertions** (`insertNonVisualNode()`, `insertNonVisualEdge()`)
  and the default styles by delegate of `StyleManager` (`setNodeStyle()`,
  `setEdgeStyle()`), which nothing else reads.
- **The y axis** of the view and of grids, which repeats the x axis, and the
  **cache of grid items**.
- **`autoPositionNodes()`**, which is empty unless the build defines
  `USE_GRAPHVIZ`, and its layout is Graphviz's.
- **Random parts** of the generator and graph properties of the new GTpo.
- **Plugin registration, samples and tests**, which were read for the promises
  they state.

## What is left

In the order of what it would add: groups in groups over `QanGroups`; hyper
edges in `QanConnector` and `QanItems`; a composition of selection, groups and
drag in which removals happen during a gesture; theorems about the traversals
of the new GTpo, as recursive functions on the set of nodes still unmarked; that
hyper edges are never lost, were the cascades of `GTpoBehaviours` functions on
the number of edges that are left.
