----------------------------- MODULE MCTopoLoad -----------------------------
(***************************************************************************)
(* Small geometries for model checking TopoLoad.  A behaviour belongs to   *)
(* one scenario: it starts from an empty topology and makes a number of    *)
(* loads, each chosen among those of the scenario.                         *)
(***************************************************************************)
EXTENDS TopoLoad

CONSTANT Scenarios

VARIABLES scenario, left      \* the scenario and how many loads are left

Line(c) == [kind |-> 2, faces |-> TRUE, tg |-> "none", parts |-> << <<c>> >>]
LineNoFace(c) == [Line(c) EXCEPT !.faces = FALSE]
Point(p) == [kind |-> 1, faces |-> TRUE, tg |-> "none", parts |-> <<p>>]
Polygon(rings) == [kind |-> 3, faces |-> TRUE, tg |-> "none", parts |-> <<rings>>]
As(tg, kind, parts) == [kind |-> kind, faces |-> TRUE, tg |-> tg, parts |-> parts]

\* The lattice curve through the given corners
Sign(x) == IF x > 0 THEN 1 ELSE IF x < 0 THEN -1 ELSE 0
Leg(p, q) ==
  LET dx == q[1] - p[1]
      dy == q[2] - p[2]
  IN  [i \in 1 .. Abs(dx + dy) \div 2 |-> <<p[1] + 2 * i * Sign(dx), p[2] + 2 * i * Sign(dy)>>]
Through(corners) ==
  LET to[i \in DOMAIN corners] ==
        IF i = 1 THEN <<corners[1]>> ELSE to[i - 1] \o Leg(corners[i - 1], corners[i])
  IN  to[Len(corners)]

Rectangle(x1, y1, x2, y2) ==
  Through(<< <<x1, y1>>, <<x2, y1>>, <<x2, y2>>, <<x1, y2>>, <<x1, y1>> >>)

\* Lines that cross, touch, overlap, close and cross themselves
Across == Through(<< <<0, 4>>, <<8, 4>> >>)
Along == Through(<< <<4, 2>>, <<4, 4>>, <<6, 4>>, <<6, 8>> >>)
Eight == Through(<< <<2, 2>>, <<6, 2>>, <<6, 4>>, <<2, 4>>, <<2, 6>>, <<4, 6>>, <<4, 2>> >>)
Square == Rectangle(2, 2, 6, 6)
Crossing == {Line(Across), Line(Along), Line(Eight), Line(Square), Point(<<4, 4>>)}

\* Three squares in one another and a bridge between two of them
Nested == {LineNoFace(Rectangle(0, 0, 10, 10)), LineNoFace(Backward(Rectangle(2, 2, 8, 8))),
           LineNoFace(Rectangle(4, 4, 6, 6)), LineNoFace(Through(<< <<2, 4>>, <<4, 4>> >>)),
           Line(Through(<< <<0, 6>>, <<10, 6>> >>))}

\* TopoGeometries of parts that cross or overlap one another, and loads that cut them
Beam == Through(<< <<2, 4>>, <<6, 4>> >>)
Bend == Through(<< <<4, 2>>, <<4, 4>>, <<6, 4>>, <<6, 6>> >>)
Shaped ==
  {As("line", 2, << <<Beam>>, <<Bend>> >>),
   As("area", 3, << <<Rectangle(2, 2, 6, 4)>>, <<Rectangle(4, 2, 8, 6)>> >>),
   As("area", 3, << <<Rectangle(0, 0, 6, 6), Backward(Rectangle(2, 2, 4, 4))>> >>),
   As("point", 1, << <<4, 4>>, <<2, 4>> >>)}

Loads == [crossing |-> [requests |-> Crossing, loads |-> 2],
          nested |-> [requests |-> Nested, loads |-> 3],
          shaped |-> [requests |-> Shaped, loads |-> 2]]

ASSUME ScenariosKnown == Scenarios \subseteq DOMAIN Loads

LoadRequests == UNION {Loads[s].requests : s \in Scenarios}
LoadCells == {<<i, j>> : i, j \in {-1, 1, 3, 5, 7, 9, 11}}
LoadKind == [t \in {"area", "line", "point"} |->
               CASE t = "point" -> 1 [] t = "line" -> 2 [] t = "area" -> 3]

MCInit ==
  /\ LoadInit
  /\ scenario \in Scenarios
  /\ left = Loads[scenario].loads

Begins == left > 0 /\ left' = left - 1 /\ UNCHANGED scenario
Goes == UNCHANGED <<scenario, left>>

MCNext ==
  \/ /\ Begins
     /\ \E r \in Loads[scenario].requests :
          (IF r.faces THEN FacesKnown ELSE DOMAIN face = {}) /\ BeginLoad(r)
  \/ BeginPolygonize /\ ~FacesKnown /\ Goes
  \/ LoadPoint /\ Goes
  \/ NodeLine /\ Goes
  \/ LoadPiece /\ Goes
  \/ WriteRows /\ Goes
  \/ EndLoad /\ Goes
  \/ RegisterSide /\ Goes
  \/ AssignHole /\ Goes
  \/ EndPolygonize /\ Goes

\* WF_loadVars(LoadStep), with ENABLED written out: a step is always possible, but for the
\* walk of a ring that does not come back
LoadStepPossible ==
  /\ load # Idle
  /\ load.step = "sides" /\ load.todo # {} => RingCloses(Tables, Ring(Tables, NextSide))
Fairness == []<>~LoadStepPossible \/ []<><<load # Idle>>_loadVars

MCSpec == MCInit /\ [][MCNext]_<<loadVars, scenario, left>> /\ Fairness
=============================================================================
