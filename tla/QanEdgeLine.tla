----------------------------- MODULE QanEdgeLine -----------------------------
(* An edge item between two items of any sizes, straight or curved, whose ends *)
(* are nodes or ports on one of the docks of a node: what QanEdgeGeometry      *)
(* computes for it. Each state is an input of updateItem() in                  *)
(* src/src/qanEdgeItem.cpp, and the steps are what changes it for another one  *)
(* while the items stay where they are. A port takes the place of the node.    *)
EXTENDS QanEdgeGeometry

CONSTANTS
  Faces,        \* the sizes of the items
  Afar,         \* where the second one is when the first one is at the origin
  ArrowSize     \* the arrow of its style, 4 in the code without one

ASSUME LineAssumption ==
  /\ Faces \subseteq (Nat \ {0}) \X (Nat \ {0})
  /\ Afar \subseteq Int \X Int
  /\ ArrowSize \in Nat

VARIABLES
  source,       \* the bounding rectangle of the source item
  destination,  \* the bounding rectangle of the destination item
  from,         \* the dock of the source if it is a port
  to,           \* the dock of the destination if it is a port
  curved        \* the line type of the style

line_vars == <<source, destination, from, to, curved>>

LineInit ==
  /\ source \in {Box(<<0, 0>>, s) : s \in Faces}
  /\ destination \in {Box(at, s) : at \in Afar, s \in Faces}
  /\ from = "none" /\ to = "none"
  /\ curved = FALSE

(* setSourceItem(), setDestinationItem() with a port. *)
SetSourceItem(dock) ==
  /\ from' = dock
  /\ UNCHANGED <<source, destination, to, curved>>

SetDestinationItem(dock) ==
  /\ to' = dock
  /\ UNCHANGED <<source, destination, from, curved>>

(* EdgeStyle::setLineType(), connected to updateItem(). *)
SetLineType ==
  /\ curved' = ~curved
  /\ UNCHANGED <<source, destination, from, to>>

LineNext ==
  \/ \E dock \in Dock : SetSourceItem(dock)
  \/ \E dock \in Dock : SetDestinationItem(dock)
  \/ SetLineType

LineSpec == LineInit /\ [][LineNext]_line_vars

P1 == LineEnd(source, from, Way(source, destination), curved)
P2 == LineEnd(destination, to, Way(destination, source), curved)
Line == From(P1, P2)

------------------------------------------------------------------------------
(* Hiding is not for edges with room for their arrow: where the items are that *)
(* far apart, whatever their sizes, the slope between them and their docks,    *)
(* the edge is shown and its ends, moved to the docks, keep that room          *)
(* (qanEdgeItem.cpp:361-443).                                                  *)
EndsFit ==
  LET gap == 2 + 3 * ArrowSize IN
  Apart(source, destination, gap) =>
    /\ ~Hides(source, destination, ArrowSize)
    /\ Size(Line.x) >= gap * Line.d \/ Size(Line.y) >= gap * Line.d

(* The end p of an edge at a port with the box r is on the outer side of its   *)
(* dock, and the control point of a curve there is outside by 10 at least.     *)
Outside(r, dock, p) ==
  dock \in Dock =>
    /\ Outward(dock, From(Centre(r), p)) >= 0
    /\ curved =>
         LET c == Leaving(p, dock, from, to, Line) IN
         /\ Outward(dock, From(p, c)) >= 10 * From(p, c).d
         /\ Outward(dock, From(Centre(r), Bordered(r, c))) > 0

(* An edge leaves and enters a port away from its node, "invalid position     *)
(* since node usually lay here" (qanEdgeItem.cpp:389-435), whatever the way   *)
(* between the ports, their docks, and the correction along their sides.      *)
LeavesOutside == Outside(source, from, P1) /\ Outside(destination, to, P2)

(* However far it bends, a short curve between two nodes arrives in the        *)
(* quarter its line goes to (top left, top right, bottom right or bottom left, *)
(* qanEdgeItem.cpp:518-527): its arrow has the angle of its end and must not   *)
(* point aside or back.                                                        *)
CurveArrives ==
  /\ curved /\ from = "none" /\ to = "none"
  /\ Apart(source, destination, 2) /\ Size(Line.x) <= 12 * Line.d /\ Size(Line.y) <= 12 * Line.d
  => \A bend \in Bends(Line) :
       LET c1 == Bent(P1, P2, bend, 1)
           c2 == Bent(P1, P2, bend, -1)
           end == Tangent(Bordered(destination, c2), c1, c2)
       IN /\ Line.x # 0 => Sign(end.x) = Sign(Line.x)
          /\ Line.y # 0 => Sign(end.y) = Sign(Line.y)
==============================================================================
