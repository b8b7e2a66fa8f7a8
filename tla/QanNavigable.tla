---------------------------- MODULE QanNavigable ----------------------------
(***************************************************************************)
(* The view of a graph: qan::Navigable shows its container at x, scaled by *)
(* zoom.  Wheel and mouse, programs and resizes of the view move and scale *)
(* the container, and each of them has to keep the grid up to date.        *)
(*                                                                         *)
(* Abstractions: x axis only, except that sizes have a height, on which    *)
(* the zoom of a fit depends; the mouse moves along the top of the view;   *)
(* the container's scale, always set together with _zoom, is not kept      *)
(* apart.  The properties a program may set at any time (navigable,        *)
(* isDraggable, zoomOrigin, zoomIncrement) are inputs of the steps that    *)
(* read them.                                                              *)
(*                                                                         *)
(* x is in the coordinates of the view, the geometry in those of its       *)
(* parent.  geometryChanged() compares the two without a conversion, and   *)
(* so does the model (Resize, Anchored).                                   *)
(*                                                                         *)
(* Bounds of the model: the container stays in -Extent .. Extent at a      *)
(* zoom up to MaxZoom, and a step whose result is not on the integer grid  *)
(* of the model is not taken (Exact).                                      *)
(***************************************************************************)
EXTENDS QanGrid

CONSTANTS
  Geometries,   \* of the view in its parent, [left, width, height]
  Contents,     \* children rects of the container, [left, width, height]
  ZoomMin,      \* Navigable::_zoomMin
  ZoomMax,      \* Navigable::_zoomMax, negative for none
  Increments,   \* values of zoomIncrement, and of steps of panOffset()
  Points,       \* where the mouse is seen
  Extent, MaxZoom

ASSUME NavigableAssumption ==
  /\ \A s \in Geometries : s.left \in Int /\ s.width \in Nat \ {0} /\ s.height \in Nat \ {0}
  /\ \A c \in Contents : c.left \in Int /\ c.width \in Nat /\ c.height \in Nat
  /\ ZoomMin \in Nat \ {0} /\ ZoomMax \in Int
  /\ Increments \subseteq Nat \ {0} /\ Points \subseteq Nat
  /\ Extent \in Nat /\ MaxZoom \in Nat /\ One <= MaxZoom

VARIABLES
  x,            \* _containerItem->x()
  zoom,         \* Navigable::_zoom
  geometry,     \* where the view is in its parent, and its size
  content,      \* _containerItem->childrenRect()
  autoFit,      \* _autoFitMode = AutoFit
  panModified, zoomModified,
  grabbed,      \* the view has the mouse, whose left button is down
  pressed,      \* _leftButtonPressed
  dragActive,   \* _dragActive
  viewPosition, \* m_viewPosition, null at 0
  lockGridUpdate,
  gridShown,    \* there is a grid, and it is visible
  fresh         \* what the grid shows is what updateGrid() would show now

content_vars == <<geometry, content, autoFit>>
flags == <<panModified, zoomModified>>
mouse_vars == <<grabbed, pressed, dragActive, viewPosition>>
grid_vars == <<lockGridUpdate, gridShown>>
navigable_vars == <<x, zoom, content_vars, flags, mouse_vars, grid_vars, fresh>>

View == <<x, zoom, geometry.width, geometry.height>>

NavigableInit ==
  /\ x = 0 /\ zoom = One
  /\ geometry \in Geometries /\ content \in Contents
  /\ autoFit = FALSE /\ panModified = FALSE /\ zoomModified = FALSE
  /\ grabbed = FALSE /\ pressed = FALSE /\ dragActive = FALSE /\ viewPosition = 0
  /\ lockGridUpdate = FALSE /\ gridShown \in BOOLEAN /\ fresh = FALSE

(* updateGrid(), which does nothing for a locked or hidden grid. *)
Redraw(locked, shown) == fresh' = ((~locked /\ shown) \/ (fresh /\ View' = View))
UpdateGrid == Redraw(lockGridUpdate, gridShown)

NoUpdate == fresh' = (fresh /\ View' = View)

InBounds == x' \in (-Extent) .. Extent /\ zoom' \in 1 .. MaxZoom

(* a / b, for a quotient the model can express *)
Exact(a, b) == a % b = 0

IsValidZoom(z) == z >= ZoomMin /\ (ZoomMax < 0 \/ z <= ZoomMax)

------------------------------------------------------------------------------
(* Fitting *)

(* Mutant of FitZoom: the smaller side decides. *)
FitZoomOfWidth(w, h, cw, ch) ==
  [exact |-> Exact(w * One, cw), zoom |-> (w * One) \div cw]

(* The zoom at which a rect of cw by ch fits in one of w by h. *)
FitZoom(w, h, cw, ch) ==
  LET byWidth == ch * w <= h * cw
  IN [exact |-> IF byWidth THEN Exact(w * One, cw) ELSE Exact(h * One, ch),
      zoom |-> IF byWidth THEN (w * One) \div cw ELSE (h * One) \div ch]

(* fitInView(), in the view of size s: the container's position, its zoom, and *)
(* whether it was done.  The left border of the content is not asked for.      *)
Fitted(s) ==
  LET empty == content.width = 0 \/ content.height = 0
      fit == FitZoom(s.width, s.height, content.width, content.height)
      shown == (content.width * fit.zoom) \div One
  IN IF empty THEN [exact |-> TRUE, done |-> FALSE, x |-> x, zoom |-> zoom]
     ELSE IF ~IsValidZoom(fit.zoom)
          THEN [exact |-> fit.exact, done |-> FALSE, x |-> x, zoom |-> zoom]
          ELSE [exact |-> /\ fit.exact /\ Exact(content.width * fit.zoom, One)
                          /\ shown < s.width => Exact(s.width - shown, 2),
                done |-> TRUE,
                x |-> IF shown < s.width THEN (s.width - shown) \div 2 ELSE 0,
                zoom |-> fit.zoom]

FitInView ==
  LET fit == Fitted(geometry) IN
  /\ fit.exact
  /\ x' = fit.x /\ zoom' = fit.zoom
  /\ panModified' = (panModified /\ ~fit.done)
  /\ zoomModified' = (zoomModified /\ ~fit.done)
  /\ UNCHANGED <<geometry, content, mouse_vars, grid_vars>>
  /\ IF fit.done THEN UpdateGrid ELSE NoUpdate
  /\ InBounds

(* fitInItem(): the zoom is not checked, and the margin only asked for in one  *)
(* of the two comparisons.                                                     *)
FitInItem(item, margin) ==
  LET w == geometry.width
      byWidth == item.height * w <= geometry.height * (item.width + margin)
      a == IF byWidth THEN w * One ELSE geometry.height * One
      b == IF byWidth THEN item.width + margin ELSE item.height + margin
      fit == a \div b
      center == (2 * item.left + item.width) * fit
  IN /\ b # 0 /\ Exact(a, b)
     /\ Exact(w * One - center, 2 * One)
     /\ x' = (w * One - center) \div (2 * One)
     /\ zoom' = fit
     /\ panModified' = TRUE /\ zoomModified' = TRUE
     /\ UNCHANGED <<content_vars, mouse_vars, grid_vars>>
     /\ UpdateGrid
     /\ InBounds

(* centerOn() a child item: the translation is computed in the container and   *)
(* applied in the view.                                                        *)
CenterOn(item) ==
  LET center == (geometry.width - 2 * x) * One
      target == (2 * item.left + item.width) * zoom
  IN /\ Exact(center - target, 2 * zoom)
     /\ x' = x + (center - target) \div (2 * zoom)
     /\ UNCHANGED <<zoom, content_vars, flags, mouse_vars, grid_vars>>
     /\ UpdateGrid
     /\ InBounds

SetAutoFitMode(on) ==
  /\ autoFit' = on
  /\ IF on /\ ~autoFit
     THEN FitInView
     ELSE UNCHANGED <<x, zoom, geometry, content, flags, mouse_vars, grid_vars, fresh>>

------------------------------------------------------------------------------
(* Zooming *)

(* Mutant of Corrected: the correction of the old zoom for the new one. *)
CorrectedBack(at, c, z) == [exact |-> Exact((c - at) * zoom, z),
                            x |-> c - ((c - at) * zoom) \div z]

(* Where zoomOn() puts a container at "at" to zoom on c. *)
Corrected(at, c, z) == [exact |-> Exact((c - at) * z, zoom),
                        x |-> c - ((c - at) * z) \div zoom]

ZoomOn(c, z) ==
  /\ IF IsValidZoom(z)
     THEN /\ Corrected(x, c, z).exact /\ x' = Corrected(x, c, z).x
          /\ zoom' = z
          /\ panModified' = TRUE /\ zoomModified' = TRUE
     ELSE UNCHANGED <<x, zoom, flags>>
  /\ UNCHANGED <<content_vars, mouse_vars, grid_vars>>
  /\ InBounds

(* wheelEvent(), which updates the grid even if it did not zoom. *)
Wheel(c, dz) == ZoomOn(c, zoom + dz) /\ UpdateGrid

(* setZoom() with zoomOrigin Center. *)
SetZoomCenter(z) ==
  /\ z # zoom /\ IsValidZoom(z)
  /\ Exact(geometry.width, 2)
  /\ ZoomOn(geometry.width \div 2, z)
  /\ UpdateGrid

(* setZoom() with zoomOrigin TopLeft. *)
SetZoomTopLeft(z) ==
  /\ z # zoom /\ IsValidZoom(z)
  /\ zoom' = z /\ zoomModified' = TRUE
  /\ UNCHANGED <<x, panModified, content_vars, mouse_vars, grid_vars>>
  /\ NoUpdate
  /\ InBounds

------------------------------------------------------------------------------
(* Panning *)

(* panOffset() *)
Panned(delta) == x - delta

PanOffset(delta) ==
  /\ x' = Panned(delta)
  /\ UNCHANGED <<zoom, content_vars, flags, mouse_vars, grid_vars>>
  /\ NoUpdate
  /\ InBounds

(* panTo(), by a move of the mouse or by a program. *)
PanTo(target) ==
  /\ x' = Panned(viewPosition - target)
  /\ dragActive' = TRUE /\ panModified' = TRUE
  /\ viewPosition' = target
  /\ UNCHANGED <<zoom, zoomModified, content_vars, grabbed, pressed, grid_vars>>
  /\ UpdateGrid
  /\ InBounds

(* mousePressEvent(): a view that is not navigable leaves the event to others. *)
Press(m) ==
  /\ ~grabbed
  /\ grabbed' = TRUE /\ pressed' = TRUE /\ viewPosition' = m
  /\ UNCHANGED <<x, zoom, content_vars, flags, dragActive, grid_vars, fresh>>

(* mouseMoveEvent(): a null last position stops the pan, here at the top left. *)
Move(m) ==
  /\ grabbed /\ pressed /\ viewPosition # 0
  /\ PanTo(m)

(* mouseReleaseEvent() of a view that is navigable or no longer is. *)
Release(navigable) ==
  /\ grabbed /\ grabbed' = FALSE
  /\ pressed' = (pressed /\ ~navigable)
  /\ dragActive' = (dragActive /\ ~navigable)
  /\ UNCHANGED <<x, zoom, content_vars, flags, viewPosition, grid_vars, fresh>>

------------------------------------------------------------------------------
(* geometryChanged() *)

(* Mutant of Anchored: only the right border is looked at. *)
AnchoredRight(at, z, s) ==
  LET right == at + ((content.left + content.width) * z) \div One
      far == s.left + s.width
  IN IF content.width * z > s.width * One /\ right < far THEN at + far - right ELSE at

(* Anchors a content wider than the view to the border it has left, where the  *)
(* borders are those of the view in its parent.                                *)
Anchored(at, z, s) ==
  LET left == at + (content.left * z) \div One
      right == left + (content.width * z) \div One
      far == s.left + s.width
  IN IF right - left > s.width /\ right < far THEN at + far - right
     ELSE IF right - left > s.width /\ left > s.left THEN at + s.left - left
     ELSE at

(* Fits a content nobody has moved, centers one that is smaller than the view, *)
(* anchors one that is not.  A content that touches the border is centered     *)
(* only if it is inside vertically as well, which x does not tell.             *)
Resize(s, inside) ==
  LET refit == autoFit /\ (~panModified \/ ~zoomModified)
      fit == IF refit THEN Fitted(s) ELSE [exact |-> TRUE, done |-> FALSE, x |-> x, zoom |-> zoom]
      left == fit.x + (content.left * fit.zoom) \div One
      shown == (content.width * fit.zoom) \div One
      far == s.left + s.width
      touches == content.width # 0 /\ left >= s.left /\ left + shown <= far
      centers == \/ left > s.left /\ left + shown < far
                 \/ touches /\ inside
      centered == IF autoFit /\ centers THEN (s.width - shown) \div 2 ELSE fit.x
      custom == (panModified \/ zoomModified) /\ ~fit.done
  IN /\ s # geometry /\ geometry' = s
     /\ fit.exact
     /\ Exact(content.width * fit.zoom, One) /\ Exact(content.left * fit.zoom, One)
     /\ autoFit /\ centers => Exact(s.width - shown, 2)
     /\ x' = IF autoFit /\ custom THEN Anchored(centered, fit.zoom, s) ELSE centered
     /\ zoom' = fit.zoom
     /\ panModified' = (panModified /\ ~fit.done)
     /\ zoomModified' = (zoomModified /\ ~fit.done)
     /\ UNCHANGED <<content, autoFit, mouse_vars, grid_vars>>
     /\ UpdateGrid
     /\ InBounds

(* geometryChanged() of a view that is not navigable. *)
ResizeOnly(s) ==
  /\ s # geometry /\ geometry' = s
  /\ UNCHANGED <<x, zoom, content, autoFit, flags, mouse_vars, grid_vars>>
  /\ NoUpdate

(* Items of the graph are added, moved or removed. *)
ContentChanged(c) ==
  /\ c # content /\ content' = c
  /\ UNCHANGED <<x, zoom, geometry, autoFit, flags, mouse_vars, grid_vars, fresh>>

------------------------------------------------------------------------------
(* setLockGridUpdate(), an update when the lock is taken off *)
SetLockGridUpdate ==
  /\ lockGridUpdate' = ~lockGridUpdate
  /\ UNCHANGED <<x, zoom, content_vars, flags, mouse_vars, gridShown>>
  /\ IF lockGridUpdate THEN Redraw(FALSE, gridShown) ELSE UNCHANGED fresh

(* The grid is shown or hidden; visibleChanged() updates it. *)
ShowGrid ==
  /\ gridShown' = ~gridShown
  /\ UNCHANGED <<x, zoom, content_vars, flags, mouse_vars, lockGridUpdate>>
  /\ Redraw(lockGridUpdate, ~gridShown)

(* setGrid(): another grid, which has shown nothing yet. *)
SetGrid ==
  /\ gridShown' = TRUE
  /\ fresh' = ~lockGridUpdate
  /\ UNCHANGED <<x, zoom, content_vars, flags, mouse_vars, lockGridUpdate>>

NavigableNext ==
  \/ FitInView /\ UNCHANGED autoFit
  \/ \E c \in Contents, margin \in {0, 1} : FitInItem(c, margin)
  \/ \E c \in Contents : CenterOn(c)
  \/ \E on \in BOOLEAN : SetAutoFitMode(on)
  \/ \E c \in Points, i \in Increments : Wheel(c, i) \/ Wheel(c, -i)
  \/ \E z \in 1 .. MaxZoom : SetZoomCenter(z) \/ SetZoomTopLeft(z)
  \/ \E d \in Increments : PanOffset(d) \/ PanOffset(-d)
  \/ \E m \in Points : PanTo(m) \/ Press(m) \/ Move(m)
  \/ \E navigable \in BOOLEAN : Release(navigable)
  \/ \E s \in Geometries, inside \in BOOLEAN : Resize(s, inside)
  \/ \E s \in Geometries : ResizeOnly(s)
  \/ \E c \in Contents : ContentChanged(c)
  \/ SetLockGridUpdate
  \/ ShowGrid
  \/ SetGrid

NavigableSpec == NavigableInit /\ [][NavigableNext]_navigable_vars

------------------------------------------------------------------------------
(* The grid covers the view and little more: updateGrid() shows every tick of  *)
(* the view but the one on its right border, and no two ticks outside of it    *)
(* (qanGrid.cpp:183-200, 298-318).                                             *)
GridCovers ==
  LET step == AdaptativeScale(zoom) * zoom
      shown == Ticks(x, geometry.width, zoom)
      wanted == {t \in -(Extent + 1) * MaxZoom .. (Extent + geometry.width + 1) * MaxZoom :
                   Left(x) <= t * step /\ t * step < Right(x, geometry.width)}
  IN /\ wanted \subseteq shown
     /\ \A t \in shown \ wanted : t + 1 \in shown => t + 1 \in wanted

(* "zoom on a point" (qanNavigable.h:94): a zoom by the wheel or from the      *)
(* center keeps a point of the content where it is, whatever the pans, fits    *)
(* and zooms before it (qanNavigable.cpp:243-283).                             *)
ZoomKeepsPoint ==
  [][zoom' # zoom =>
       \A c \in Points \cup {geometry.width \div 2} :
         ZoomOn(c, zoom') => (c - x') * zoom = (c - x) * zoom']_navigable_vars

(* A resize that fits a content nobody has moved finds a zoom at which it fits *)
(* the view, and shares the space that is left: the middle of the content is   *)
(* off that of the view by as much as the content is off the origin of the     *)
(* container, which fitInView() does not look at (qanNavigable.cpp:126-132).   *)
(* A content that starts there is shown whole and centered.                    *)
AutoFitCenters ==
  [][\A inside \in BOOLEAN :
       /\ autoFit /\ ~panModified /\ ~zoomModified
       /\ Resize(geometry', inside) /\ Fitted(geometry').done
       => /\ x' >= 0
          /\ 2 * x' * One + content.width * zoom' = geometry'.width * One
          /\ content.height * zoom' <= geometry'.height * One]_navigable_vars

(* A content wider than the view that the user has moved is left without a gap *)
(* beside it in the span the view has in its parent: in a view at its parent's *)
(* origin nothing but the content is seen, in another one a gap on one side is *)
(* at most as wide as the view is away from it (qanNavigable.cpp:360-382).     *)
ContentAnchored ==
  [][\A inside \in BOOLEAN :
       /\ autoFit /\ (panModified' \/ zoomModified')
       /\ Resize(geometry', inside)
       /\ content.width * zoom' > geometry'.width * One
       => /\ x' * One + content.left * zoom' <= geometry'.left * One
          /\ x' * One + (content.left + content.width) * zoom'
               >= (geometry'.left + geometry'.width) * One]_navigable_vars

==============================================================================
