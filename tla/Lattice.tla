------------------------------ MODULE Lattice ------------------------------
(***************************************************************************)
(* Plane geometry of the topology engine on the unit lattice.              *)
(*                                                                         *)
(* Every edge is a curve of axis-parallel unit segments and every lattice  *)
(* point of a curve is one of its vertices.  Coordinates are doubled: the  *)
(* points of the lattice have even coordinates, the midpoint of a segment  *)
(* has one odd coordinate and the centre of a cell has two.  On these      *)
(* curves the predicates of liblwgeom and GEOS are exact integer facts.    *)
(***************************************************************************)
EXTENDS Integers, Sequences, FiniteSets

Even == {x \in Int : x % 2 = 0}
LatticePoints == Even \X Even

Points(c) == {c[i] : i \in DOMAIN c}
StartPoint(c) == c[1]
EndPoint(c) == c[Len(c)]
Mid(p, q) == <<(p[1] + q[1]) \div 2, (p[2] + q[2]) \div 2>>
SegmentMids(c) == {Mid(c[i], c[i + 1]) : i \in 1 .. Len(c) - 1}
Backward(c) == [i \in DOMAIN c |-> c[Len(c) + 1 - i]]
\* ptarray_append_ptarray drops the vertex the two arrays share
Join(c, d) == c \o Tail(d)

IsCurve(c) ==
  /\ Len(c) > 1
  /\ \A i \in 1 .. Len(c) - 1 :
       LET dx == c[i + 1][1] - c[i][1]
           dy == c[i + 1][2] - c[i][2]
       IN  <<dx, dy>> \in {<<2, 0>>, <<-2, 0>>, <<0, 2>>, <<0, -2>>}

\* lwgeom_is_simple: no vertex is met twice, but for the ends of a closed curve, and a curve
\* that comes straight back is not simple either
IsSimple(c) ==
  \A i, j \in DOMAIN c : i < j /\ c[i] = c[j] => i = 1 /\ j = Len(c) /\ j > 3

(***************************************************************************)
(* The azimuth from p to q as one of eight sectors, clockwise from north.  *)
(* Azimuths are only ever compared as clockwise turns from a third one.    *)
(***************************************************************************)
Azimuth(p, q) ==
  LET dx == q[1] - p[1]
      dy == q[2] - p[2]
  IN  CASE dx = 0 /\ dy > 0 -> 0
        [] dx > 0 /\ dy > 0 -> 1
        [] dx > 0 /\ dy = 0 -> 2
        [] dx > 0 /\ dy < 0 -> 3
        [] dx = 0 /\ dy < 0 -> 4
        [] dx < 0 /\ dy < 0 -> 5
        [] dx < 0 /\ dy = 0 -> 6
        [] dx < 0 /\ dy > 0 -> 7

ClockwiseTurn(from, to) == (to - from) % 8

FirstAzimuth(c) == Azimuth(c[1], c[2])
LastAzimuth(c) == Azimuth(c[Len(c)], c[Len(c) - 1])

(***************************************************************************)
(* ptarray_signed_area and ptarray_isccw: a ring of no area counts as      *)
(* counterclockwise.                                                       *)
(***************************************************************************)
TwiceArea(ring) ==
  LET upto[i \in 1 .. Len(ring)] ==
        IF i = 1 THEN 0
        ELSE upto[i - 1] + ring[i - 1][1] * ring[i][2] - ring[i][1] * ring[i - 1][2]
  IN  upto[Len(ring)]

IsCCW(ring) == TwiceArea(ring) >= 0

(***************************************************************************)
(* ptarray_contains_point_partial: the winding number of a curve around a  *)
(* point that is not on it, from the segments to the right of the point.   *)
(* The curve need not be closed.                                           *)
(***************************************************************************)
Winding(c, p) ==
  LET Right(i) == c[i][1] > p[1]
      up == {i \in 1 .. Len(c) - 1 : Right(i) /\ c[i][2] <= p[2] /\ p[2] < c[i + 1][2]}
      down == {i \in 1 .. Len(c) - 1 : Right(i) /\ c[i + 1][2] <= p[2] /\ p[2] < c[i][2]}
  IN  Cardinality(up) - Cardinality(down)

OnBoundary(c, p) == p \in Points(c) \/ p \in SegmentMids(c)
Inside(c, p) == ~OnBoundary(c, p) /\ Winding(c, p) # 0

\* _lwt_GetInteriorEdgePoint: a vertex that is not an end, or the middle of the segment
InteriorPoint(c) == IF Len(c) > 2 THEN c[2] ELSE Mid(c[1], c[2])

(***************************************************************************)
(* GEOSRelateBoundaryNodeRule with every end point a boundary point: the   *)
(* interiors of two curves meet iff they share a segment or a vertex that  *)
(* is an end of neither.                                                   *)
(***************************************************************************)
InteriorVertices(c) == {c[i] : i \in 2 .. Len(c) - 1}
InteriorsMeet(c, d) ==
  \/ SegmentMids(c) \cap SegmentMids(d) # {}
  \/ InteriorVertices(c) \cap InteriorVertices(d) # {}

\* The bounding box <<xmin, ymin, xmax, ymax>> of a finite set of points
Box(S) ==
  LET Least(i) == CHOOSE v \in {p[i] : p \in S} : \A p \in S : v <= p[i]
      Most(i) == CHOOSE v \in {p[i] : p \in S} : \A p \in S : v >= p[i]
  IN  <<Least(1), Least(2), Most(1), Most(2)>>

\* gbox_merge
BoxUnion(b, c) ==
  LET Lo(x, y) == IF x < y THEN x ELSE y
      Hi(x, y) == IF x < y THEN y ELSE x
  IN  <<Lo(b[1], c[1]), Lo(b[2], c[2]), Hi(b[3], c[3]), Hi(b[4], c[4])>>

InBox(b, p) == b[1] <= p[1] /\ p[1] <= b[3] /\ b[2] <= p[2] /\ p[2] <= b[4]
BoxesMeet(b, c) == b[1] <= c[3] /\ c[1] <= b[3] /\ b[2] <= c[4] /\ c[2] <= b[4]

Distance2(p, q) == (p[1] - q[1]) * (p[1] - q[1]) + (p[2] - q[2]) * (p[2] - q[2])
=============================================================================
