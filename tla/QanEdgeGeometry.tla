--------------------------- MODULE QanEdgeGeometry ---------------------------
(* The line of an edge between two items, generateLineGeometry() and what     *)
(* follows it in src/src/qanEdgeItem.cpp, over rationals: it joins the        *)
(* centres of the two bounding shapes, is cut where it leaves them, moved to  *)
(* the docks of ports and bent by control points. A point of the line between *)
(* the centres is given by the fraction of the way it lies at, fractions are  *)
(* pairs <<numerator, denominator>>. Bounding shapes are rectangles, without  *)
(* their rounded corners.                                                     *)
EXTENDS Integers

Size(v) == IF v < 0 THEN -v ELSE v

(* The bounding rectangle of an item at a place of the scene. *)
Box(at, size) == [x |-> at[1], y |-> at[2], w |-> size[1], h |-> size[2]]

(* Twice the vector from the centre of a to the centre of b. *)
Way(a, b) == <<2 * (b.x - a.x) + b.w - a.w, 2 * (b.y - a.y) + b.h - a.h>>

(* Mutant of Exit: the side the line meets last. *)
ExitFar(r, v) ==
  LET through == IF r.w * Size(v[2]) > r.h * Size(v[1]) THEN <<r.w, Size(v[1])>>
                                                        ELSE <<r.h, Size(v[2])>>
  IN IF v = <<0, 0>> \/ through[2] = 0 THEN <<2, 1>> ELSE through

(* The fraction of the way at which the line leaves a box from its centre, *)
(* through the side it meets first; above 1 if it does not leave it.       *)
Exit(r, v) ==
  LET through == IF r.w * Size(v[2]) <= r.h * Size(v[1]) THEN <<r.w, Size(v[1])>>
                                                         ELSE <<r.h, Size(v[2])>>
  IN IF v = <<0, 0>> THEN <<2, 1>> ELSE through

(* getLineIntersection(): where the line is cut, the centre if nowhere. *)
Cut(r, v) == LET t == Exit(r, v) IN IF t[1] > t[2] THEN <<0, 1>> ELSE t

(* Of a pair of numbers. *)
Gcd[p \in Nat \X Nat] == IF p[2] = 0 THEN p[1] ELSE Gcd[<<p[2], p[1] % p[2]>>]

(* The line is shorter than the arrow and 2 units more; lengths are squared, *)
(* once none of the two directions is long enough by itself.                 *)
TooShort(a, b, arrow) ==
  LET v == Way(a, b)
      t == Cut(a, v)
      u == Cut(b, v)
      whole == t[2] * u[2]
      left == whole - t[1] * u[2] - u[1] * t[2]
      g == Gcd[<<Size(left), whole>>]
      x == (left \div g) * Size(v[1])
      y == (left \div g) * Size(v[2])
      limit == 2 * (whole \div g) * (2 + 3 * arrow)
  IN Size(x) < limit /\ Size(y) < limit /\ x * x + y * y < limit * limit

(* Both ends of the line are in one of the boxes: QRectF::contains() is false  *)
(* of the box of a horizontal or vertical line, which has no area.             *)
Inside(a, b) ==
  LET v == Way(a, b)
      s == Exit(a, v)
      t == Exit(b, v)
  IN /\ v[1] # 0 /\ v[2] # 0
     /\ s[1] * t[2] + t[1] * s[2] >= s[2] * t[2]

(* GeometryCache::hidden of an edge from a to b. *)
Hides(a, b, arrow) == Inside(a, b) \/ TooShort(a, b, arrow)

------------------------------------------------------------------------------
(* Points and vectors with the coordinates x/d and y/d. *)
Point(x, y, d) ==
  LET g == Gcd[<<Gcd[<<Size(x), Size(y)>>], d>>] IN [x |-> x \div g, y |-> y \div g, d |-> d \div g]

Moved(p, v) ==
  LET g == Gcd[<<p.d, v.d>>]
      s == p.d \div g
      t == v.d \div g
  IN Point(p.x * t + v.x * s, p.y * t + v.y * s, p.d * t)

From(p, q) == Moved(q, [p EXCEPT !.x = -p.x, !.y = -p.y])
Times(t, v) == Point(t[1] * v.x, t[1] * v.y, t[2] * v.d)

Centre(r) == Point(2 * r.x + r.w, 2 * r.y + r.h, 2)

(* Where the line that leaves the centre with v is cut, cache.p1 and p2. *)
CutPoint(r, v) ==
  LET t == Cut(r, v) IN Moved(Centre(r), Point(t[1] * v[1], t[1] * v[2], 2 * t[2]))

(* getLineIntersection(c, centre): c itself if the shape has c inside. *)
Bordered(r, c) ==
  LET v == From(Centre(r), c)
      t == Exit([r EXCEPT !.w = @ * v.d, !.h = @ * v.d], <<2 * v.x, 2 * v.y>>)
  IN IF t[1] >= t[2] THEN c ELSE Moved(Centre(r), Times(t, v))

------------------------------------------------------------------------------
(* Docks. *)
Dock == {"Left", "Top", "Right", "Bottom"}

(* The coordinate of a point that a dock is about, and the sign of its outside. *)
Outward(dock, p) ==
  CASE dock = "Left" -> -p.x [] dock = "Top" -> -p.y [] dock = "Right" -> p.x [] OTHER -> p.y

(* The middle of the side of a port a dock gives to curved edges. *)
Socket(r, dock) ==
  LET c == Centre(r) IN
  Moved(c, CASE dock = "Left" -> Point(-r.w, 0, 2) [] dock = "Top" -> Point(0, -r.h, 2)
             [] dock = "Right" -> Point(r.w, 0, 2) [] OTHER -> Point(0, r.h, 2))

(* The corner side a straight edge is culled to when it would cross the node. *)
Culled(r, dock, v) ==
  Moved(Centre(r), IF dock \in {"Left", "Right"} THEN Point(0, IF v.y > 0 THEN r.h ELSE -r.h, 2)
                                                 ELSE Point(IF v.x > 0 THEN r.w ELSE -r.w, 0, 2))

(* Mutant of DockEnd: a right dock is culled as a left one. *)
DockEndCopied(r, dock, p, curved) ==
  LET v == From(Centre(r), p)
      d == IF dock = "Right" THEN "Left" ELSE dock
  IN IF curved THEN Socket(r, dock) ELSE IF Outward(d, v) < 0 THEN Culled(r, dock, v) ELSE p

(* correctPortPoint(): the end of an edge at a port on a dock. *)
DockEnd(r, dock, p, curved) ==
  LET v == From(Centre(r), p)
  IN IF curved THEN Socket(r, dock) ELSE IF Outward(dock, v) < 0 THEN Culled(r, dock, v) ELSE p

(* The end of the line at r, which has a dock if it is a port. *)
LineEnd(r, dock, v, curved) ==
  IF dock \in Dock THEN DockEnd(r, dock, CutPoint(r, v), curved) ELSE CutPoint(r, v)

------------------------------------------------------------------------------
(* Control points of curved edges. *)

(* The quarters in which the normal of the line is inverted. *)
Inverted(v) == (v.x > 0 /\ v.y < 0) \/ (v.x < 0 /\ v.y > 0)

(* Mutant of Bends: the whole of the smaller coordinate. *)
BendsTwice(v) ==
  LET m == IF Size(v.x) < Size(v.y) THEN Size(v.x) ELSE Size(v.y)
      length2 == v.x * v.x + v.y * v.y
  IN {<<1, k>> : k \in {k \in {2, 3, 4, 8, 16} : length2 <= k * k * m * m}} \cup {<<1, 64>>}

(* The distance from the line to the control points, half of the smaller      *)
(* coordinate at most, over the length of the line, which is irrational: some *)
(* of the fractions up to it; a small one for 0.001.                          *)
Bends(v) ==
  LET m == IF Size(v.x) < Size(v.y) THEN Size(v.x) ELSE Size(v.y)
      length2 == v.x * v.x + v.y * v.y
  IN {<<1, k>> : k \in {k \in {3, 4, 8, 16} : 4 * length2 <= k * k * m * m}} \cup {<<1, 64>>}

(* The control points of an end that is no port, on the normal of the middle. *)
Bent(p, q, bend, side) ==
  LET v == From(p, q)
      s == IF Inverted(v) THEN -side ELSE side
  IN Moved(Moved(p, Times(<<1, 2>>, v)), Times(bend, Point(-s * v.y, s * v.x, v.d)))

(* How far a control point is outside of its port: 40 % of the distance of   *)
(* the ends in one direction, between 10 and 40; delta is a fraction.        *)
Offset(delta) ==
  IF delta[1] < 25 * delta[2] THEN <<10, 1>>
  ELSE IF delta[1] > 100 * delta[2] THEN <<40, 1>> ELSE <<2 * delta[1], 5 * delta[2]>>

(* And how far it is moved along its side, for these pairs of docks. *)
XCorrect == [Left |-> [Left |-> 1, Bottom |-> 1], Top |-> [Top |-> 1],
             Right |-> [Right |-> -1, Bottom |-> -1],
             Bottom |-> [Left |-> 1, Right |-> -1, Bottom |-> -1]]
YCorrect == [Left |-> [Left |-> 1, Top |-> 1], Top |-> [Left |-> 1],
             Right |-> [Bottom |-> -1], Bottom |-> [Right |-> -1]]

Correction(table, from, to, delta, limit, smooth) ==
  LET sign == IF delta[1] < 0 THEN -1 ELSE 1
      n == Size(delta[1])
      d == delta[2]
      c == IF n < limit * d THEN 3 * limit * d - 2 * n ELSE limit * d
      s == IF smooth[1] > 100 * d THEN 100 * d ELSE IF smooth[1] < -100 * d THEN -100 * d ELSE smooth[1]
  IN IF from \in DOMAIN table /\ to \in DOMAIN table[from]
     THEN Point(sign * table[from][to] * c * s, 0, 100 * d * d) ELSE Point(0, 0, 1)

(* The control point of the end p at a port, from and to are the docks of the *)
(* source and the destination, v the vector between the ends.                 *)
Leaving(p, dock, from, to, v) ==
  LET xo == Offset(<<Size(v.x), v.d>>)
      yo == Offset(<<Size(v.y), v.d>>)
      xc == Correction(XCorrect, from, to, <<v.x, v.d>>, 100, <<v.y, v.d>>)
      yc == Correction(YCorrect, from, to, <<v.y, v.d>>, 50, <<v.x, v.d>>)
      across == CASE dock = "Left" -> Point(-xo[1], 0, xo[2]) [] dock = "Right" -> Point(xo[1], 0, xo[2])
                  [] dock = "Top" -> Point(0, -yo[1], yo[2]) [] OTHER -> Point(0, yo[1], yo[2])
      along == IF dock \in {"Left", "Right"} THEN Point(0, yc.x, yc.d) ELSE xc
  IN Moved(Moved(p, across), along)

(* The direction of the curve near its end, cubicCurveAngleAt(0.99): of the   *)
(* three vectors the last one counts 50 times as much as the second (rounded  *)
(* to 48) and the first one next to nothing.                                  *)
Tangent(q, c1, c2) == Moved(From(c2, q), Times(<<1, 48>>, From(c1, c2)))

Sign(i) == IF i < 0 THEN -1 ELSE IF i > 0 THEN 1 ELSE 0

(* Two boxes are that far from each other in one of the directions. *)
Apart(a, b, gap) ==
  \/ a.x + a.w + gap <= b.x \/ b.x + b.w + gap <= a.x
  \/ a.y + a.h + gap <= b.y \/ b.y + b.h + gap <= a.y
==============================================================================
