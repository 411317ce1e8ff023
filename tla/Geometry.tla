------------------------------ MODULE Geometry ------------------------------
(***************************************************************************)
(* src/xylose/GenericPoint.hpp and src/xylose/GenericRect.hpp over         *)
(* integers, and the powers of src/xylose/power.h.  A point is a function  *)
(* from 0 .. 2, the indices its operator[] gives to x, y and z; a          *)
(* rectangle is a record of its corners rmin and rmax.                     *)
(***************************************************************************)
EXTENDS VectorAlgebra

CONSTANTS Coordinates,   \* the coordinates of points and corners
          MaxExpansions  \* how many points a rectangle is expanded by

Triple(t1, t2, t3) == MakeVector(<<t1, t2, t3>>)

Everywhere(t) == Filled(3, t)

(* A point and a point, or a scalar made a point. *)
PointOp(op, l, r) == [i \in 0 .. 2 |-> Calc(op, l[i], r[i])]

PointsEqual(l, r) == l = r

(* The length, of a point for which it is an integer. *)
LengthOf(p) ==
  CHOOSE l \in 0 .. Inner(p, p) : l * l = p[0] * p[0] + p[1] * p[1] + p[2] * p[2]

Normalized(p) == PointOp("/", p, Everywhere(LengthOf(p)))

PointwiseCompare(pred, lhs, rhs) ==
  Holds(pred, lhs[0], rhs[0]) /\ Holds(pred, lhs[1], rhs[1]) /\ Holds(pred, lhs[2], rhs[2])

(* The last line is reached with any order of the z. *)
LexicographicCompare(pred, lhs, rhs) ==
  \/ Holds(pred, lhs[2], rhs[2])
  \/ Holds(pred, lhs[1], rhs[1]) /\ lhs[2] = rhs[2]
  \/ ~Holds(pred, lhs[1], rhs[1]) /\ lhs[1] = rhs[1] /\ Holds(pred, lhs[0], rhs[0])

AggregateMin(lhs, rhs) == PointOp("min", lhs, rhs)

AggregateMax(lhs, rhs) == PointOp("max", lhs, rhs)

Dot(lhs, rhs) == lhs[0] * rhs[0] + lhs[1] * rhs[1] + lhs[2] * rhs[2]

PointCross(lhs, rhs) ==
  Triple(lhs[1] * rhs[2] - lhs[2] * rhs[1],
         lhs[2] * rhs[0] - lhs[0] * rhs[2],
         lhs[0] * rhs[1] - lhs[1] * rhs[0])

(* The projection times the length of n, which it is divided by. *)
ProjectTimesLength(v, n) == PointOp("*", n, Everywhere(Dot(v, n)))
-----------------------------------------------------------------------------
Rect(lower, upper) == [rmin |-> lower, rmax |-> upper]

NullRect == Rect(Everywhere(0), Everywhere(0))

UnionRects(a, b) == Rect(PointOp("min", a.rmin, b.rmin), PointOp("max", a.rmax, b.rmax))

(* Bug: a point that lowers a coordinate of the minimum moves that of the  *)
(* maximum, too.                                                           *)
ExpandMoves(r, p) ==
  Rect([i \in 0 .. 2 |-> IF p[i] < r.rmin[i] THEN p[i] ELSE r.rmin[i]],
       [i \in 0 .. 2 |-> IF p[i] < r.rmin[i] \/ p[i] > r.rmax[i] THEN p[i] ELSE r.rmax[i]])

(* Two independent conditions for each coordinate. *)
Expand(r, p) ==
  Rect([i \in 0 .. 2 |-> IF p[i] < r.rmin[i] THEN p[i] ELSE r.rmin[i]],
       [i \in 0 .. 2 |-> IF p[i] > r.rmax[i] THEN p[i] ELSE r.rmax[i]])

IsValid(r) == ~ \E i \in 0 .. 2 : r.rmax[i] < r.rmin[i]

IsNullRect(r) == \A i \in 0 .. 2 : r.rmin[i] = 0 /\ r.rmax[i] = 0

(* width, height and depth. *)
Extent(r, i) == r.rmax[i] - r.rmin[i]

Volume(r) == Extent(r, 1) * Extent(r, 0) * Extent(r, 2)

Grown(r, p) == Rect(PointOp("-", r.rmin, p), PointOp("+", r.rmax, p))

Shrunk(r, p) == Rect(PointOp("+", r.rmin, p), PointOp("-", r.rmax, p))

PointInRect(p, r) == \A i \in 0 .. 2 : p[i] >= r.rmin[i] /\ p[i] <= r.rmax[i]

Intersect(a, b) ==
  LET both == Rect(AggregateMax(a.rmin, b.rmin), AggregateMin(a.rmax, b.rmax))
  IN IF IsValid(both) THEN both ELSE NullRect

UnionPoint(r, p) == Rect(AggregateMin(r.rmin, p), AggregateMax(r.rmax, p))

RectsEqual(l, r) == PointsEqual(l.rmin, r.rmin) /\ PointsEqual(l.rmax, r.rmax)
-----------------------------------------------------------------------------
(* power.h: powN<p>, the product written out for 1 to 5 and -1 to -5, as a *)
(* fraction.                                                               *)
PowN(p, t) ==
  LET product == CASE p \in {1, -1} -> t
                   [] p \in {2, -2} -> t * t
                   [] p \in {3, -3} -> t * t * t
                   [] p \in {4, -4} -> t * t * t * t
                   [] p \in {5, -5} -> t * t * t * t * t
  IN IF p > 0 THEN <<product, 1>> ELSE <<1, product>>

Square(t) == t * t

Cube(t) == t * t * t

(* Spencer's fast_pow of x, a power of two or 0, and y, a number of        *)
(* halves: y log2(x) in halves is split into the nearest integer (the even *)
(* one of two) and a rest, 2 to the rest is scaled by 2 to the integer.    *)
Frndint(halves) ==
  LET down == halves \div 2
  IN IF halves % 2 = 0 \/ down % 2 = 0 THEN down ELSE down + 1

FastPow(x, y2) ==
  IF y2 = 0 THEN [is0 |-> FALSE, exponent2 |-> 0, rest2 |-> 0]
  ELSE IF x.is0 THEN [is0 |-> TRUE, exponent2 |-> 0, rest2 |-> 0]
  ELSE LET yl2x == x.exponent * y2
           whole == Frndint(yl2x)
           rest == yl2x - 2 * whole
       IN [is0 |-> FALSE, exponent2 |-> rest + 2 * whole, rest2 |-> rest]

(* logn, of two powers of two: a fraction. *)
LogN(n, x) == <<x.exponent, n.exponent>>
-----------------------------------------------------------------------------
Points == [0 .. 2 -> Coordinates]

(* The coordinates do not influence each other, so corners differ in two.  *)
Corners == {p \in Points : p[2] = p[1]}

Probes == {p \in [0 .. 2 -> {-1, 0, 1, 2}] : p[1] = p[0] \/ p[2] = p[0]}

PointPair == Free /\ \E a, b \in Points : PutOn([is |-> "points", a |-> a, b |-> b])

NewRect ==
  Free /\ \E a, b \in Corners :
    LET r == Rect(a, b)
    IN IsValid(r) /\ PutOn([is |-> "rect", pc |-> "use", r |-> r, start |-> r, log |-> <<>>])

ExpandRect ==
  /\ On("rect") /\ bench.pc = "use" /\ Len(bench.log) < MaxExpansions
  /\ \E p \in Corners :
       bench' = [bench EXCEPT !.r = Expand(@, p), !.log = Append(@, p)]

(* Another rectangle is cut with this one and then joined to it. *)
CombineRect ==
  /\ On("rect") /\ bench.pc = "use" /\ bench.log = <<>>
  /\ \E a, b \in Corners :
       LET other == Rect(a, b)
       IN /\ IsValid(other)
          /\ bench' = [is |-> "rects", r |-> bench.r, other |-> other,
                       cut |-> Intersect(bench.r, other), join |-> UnionRects(bench.r, other)]

PowerCall ==
  Free /\ \E t \in -3 .. 3, p \in {-5, -4, -3, -2, -1, 1, 2, 3, 4, 5},
             x \in [is0 : BOOLEAN, exponent : -2 .. 2], y2 \in -3 .. 3 :
    /\ p < 0 => t # 0
    /\ PutOn([is |-> "power", t |-> t, p |-> p, powN |-> PowN(p, t),
              x |-> x, y2 |-> y2, fast |-> FastPow(x, y2)])

GeometryNext ==
  \/ PointPair \/ NewRect \/ ExpandRect \/ CombineRect \/ PowerCall
  \/ TakeOff("points") \/ TakeOff("rect") \/ TakeOff("rects") \/ TakeOff("power")
-----------------------------------------------------------------------------
PointLaws(a, b) ==
  LET c == PointCross(a, b)
  IN /\ c = Cross(a, b) /\ Dot(c, a) = 0 /\ Dot(a, b) = Inner(a, b)
     /\ PointwiseCompare("<=", AggregateMin(a, b), AggregateMax(a, b))
     /\ PointwiseCompare("<", a, b) => LexicographicCompare("<", a, b) /\ ~PointsEqual(a, b)
     /\ b \in {Triple(1, 0, 0), Triple(0, 1, 0), Triple(0, 0, 1)} =>
          /\ Dot(PointOp("-", a, ProjectTimesLength(a, b)), b) = 0
          /\ PointOp("*", Normalized(PointOp("*", b, Everywhere(2))), Everywhere(2)) =
               PointOp("*", b, Everywhere(LengthOf(PointOp("*", b, Everywhere(2)))))

Hull(start, log, i) ==
  LET all == {start.rmin[i], start.rmax[i]} \cup {log[k][i] : k \in DOMAIN log}
  IN <<Min(all), Max(all)>>

(* However often it was expanded, a rectangle is the smallest one around   *)
(* the rectangle it started as and all points it was given, the same as    *)
(* with Union; a cut holds exactly the points of both rectangles, or is    *)
(* the null rectangle when they have none (but the origin) in common, and  *)
(* a union holds both and is no larger than it must be; growing and        *)
(* shrinking undo each other.                                              *)
RectsBound ==
  /\ On("rect") =>
       LET r == bench.r
           joined == FoldLeft(UnionPoint, bench.start, bench.log)
       IN /\ \A i \in 0 .. 2 : <<r.rmin[i], r.rmax[i]>> = Hull(bench.start, bench.log, i)
          /\ RectsEqual(r, joined) /\ IsValid(r)
          /\ RectsEqual(Shrunk(Grown(r, Triple(1, 2, 0)), Triple(1, 2, 0)), r)
          /\ Volume(Grown(r, Everywhere(1))) =
               (Extent(r, 0) + 2) * (Extent(r, 1) + 2) * (Extent(r, 2) + 2)
  /\ On("rects") =>
       /\ \A p \in Probes :
            LET both == PointInRect(p, bench.r) /\ PointInRect(p, bench.other)
            IN /\ PointInRect(p, bench.cut) =>
                    both \/ (IsNullRect(bench.cut) /\ p = Everywhere(0))
               /\ both => PointInRect(p, bench.cut)
               /\ PointInRect(p, bench.r) \/ PointInRect(p, bench.other) => PointInRect(p, bench.join)
       /\ \A i \in 0 .. 2 : bench.join.rmin[i] \in {bench.r.rmin[i], bench.other.rmin[i]}
                            /\ bench.join.rmax[i] \in {bench.r.rmax[i], bench.other.rmax[i]}
       /\ Intersect(bench.join, bench.r) = bench.r
  /\ On("points") => PointLaws(bench.a, bench.b)
  /\ On("power") =>
       /\ bench.p > 0 => bench.powN = <<bench.t ^ bench.p, 1>>
       /\ bench.p < 0 => bench.powN = <<1, bench.t ^ (-bench.p)>>
       /\ bench.p = 2 => bench.powN[1] = Square(bench.t)
       /\ bench.p = 3 => bench.powN[1] = Cube(bench.t)
       /\ bench.fast.rest2 \in -2 .. 2
       /\ ~bench.x.is0 => bench.fast.exponent2 = bench.x.exponent * bench.y2 /\ ~bench.fast.is0
       /\ bench.x.is0 => bench.fast.is0 = (bench.y2 # 0)
       /\ ~bench.x.is0 /\ bench.x.exponent # 0 /\ bench.y2 % 2 = 0 =>
            LET l == LogN(bench.x, [exponent |-> bench.fast.exponent2 \div 2])
            IN 2 * l[1] = bench.y2 * l[2]

(* The geometry of rectangles and points, on top of that of vectors.       *)
GeometryHolds == AlgebraHolds /\ RectsBound

=============================================================================
