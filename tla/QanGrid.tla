------------------------------- MODULE QanGrid -------------------------------
(***************************************************************************)
(* The ticks of a grid along one axis: qan::OrthoGrid, and the two loops   *)
(* that PointGrid and LineGrid share.  A point is a pair of ticks, one per *)
(* axis, a line a tick of one axis across the whole view.                  *)
(*                                                                         *)
(* Zooms are integers, One stands for 1.0.                                 *)
(***************************************************************************)
EXTENDS Integers

CONSTANTS
  One,          \* the zoom 1.0
  GridScale     \* Grid::_gridScale

ASSUME GridAssumption ==
  One \in Nat \ {0} /\ GridScale \in Nat \ {0}

(* adaptativeScale: zooming out does not bring the ticks nearer to each other. *)
AdaptativeScale(zoom) == IF zoom < One THEN (GridScale * One) \div zoom ELSE GridScale

(* The view in the container, times zoom: updateGrid() of the Navigable maps   *)
(* 0 and the width of the view for a container at x.                           *)
Left(x) == (0 - x) * One
Right(x, width) == (width - x) * One

FloorDiv(a, b) == a \div b
CeilDiv(a, b) == -((-a) \div b)

(* rectifiedTopLeft, the first tick of the view. *)
FirstTick(x, zoom) == FloorDiv(Left(x), AdaptativeScale(zoom) * zoom)

(* Mutant of TickCount: that of the view, not of the rectified view. *)
CountOfWidth(x, width, zoom) == CeilDiv(width * One, AdaptativeScale(zoom) * zoom)

(* numPointsX, numLinesX: the items that are shown, of a cache that grows to   *)
(* their number and whose other items are hidden.                              *)
TickCount(x, width, zoom) ==
  CeilDiv(Right(x, width), AdaptativeScale(zoom) * zoom) - FirstTick(x, zoom)

(* The ticks of updateGrid(), in steps of adaptativeScale from the origin of   *)
(* the container.                                                              *)
Ticks(x, width, zoom) ==
  {FirstTick(x, zoom) + npx : npx \in 0 .. TickCount(x, width, zoom) - 1}
==============================================================================
