----------------------------- MODULE MCTopology -----------------------------
(***************************************************************************)
(* Small drawings for model checking TopologyValid.  A run names some      *)
(* drawings; each is edited by calls of its own, from its own nodes.       *)
(***************************************************************************)
EXTENDS TopologyValid

CONSTANT Drawings

VARIABLE drawing      \* the one that is edited

\* The lattice curve through the given corners
Sign(x) == IF x > 0 THEN 1 ELSE IF x < 0 THEN -1 ELSE 0
Leg(p, q) ==
  LET dx == q[1] - p[1]
      dy == q[2] - p[2]
  IN  [i \in 1 .. Abs(dx + dy) \div 2 |-> <<p[1] + 2 * i * Sign(dx), p[2] + 2 * i * Sign(dy)>>]
Through(corners) ==
  LET to[i \in DOMAIN corners] ==
        IF i = 1 THEN <<corners[1]>> ELSE to[i - 1] \o Leg(corners[i - 1], corners[i])
  IN  to[Len(corners)]

(***************************************************************************)
(* An outer loop at A, an inner loop at I drawn either way, and a bridge   *)
(* between their nodes: faces with holes, shells that merge with a hole.   *)
(***************************************************************************)
A == <<2, 0>>
I == <<2, 2>>
Outer == Through(<<A, <<6, 0>>, <<6, 6>>, <<0, 6>>, <<0, 0>>, A>>)
Inner == Through(<<I, <<4, 2>>, <<4, 4>>, <<2, 4>>, I>>)
Bridge == <<A, I>>
HoleNodes == <<A, I>>
HoleSites == {A, I}
HoleCurves == {Outer, Inner, Backward(Inner), Bridge}

(***************************************************************************)
(* Nodes W and E joined by a straight edge through M and by curves over    *)
(* and under it: two edges that share both nodes, splits and heals.        *)
(***************************************************************************)
W == <<0, 2>>
M == <<2, 2>>
E == <<4, 2>>
Straight == <<W, M, E>>
Over == Through(<<W, <<0, 4>>, <<4, 4>>, E>>)
Under == Through(<<E, <<4, 0>>, <<0, 0>>, W>>)
ThetaNodes == <<W, E>>
ThetaSites == {W, M, E}
ThetaCurves == {Straight, Over, Under}

(***************************************************************************)
(* A yard fenced from Q; in it a straight and a bent edge from R to S with *)
(* N between them.                                                         *)
(***************************************************************************)
Q == <<0, 2>>
R == <<2, 2>>
S == <<6, 2>>
N == <<4, 4>>
Yard == Through(<<Q, <<0, 0>>, <<8, 0>>, <<8, 8>>, <<0, 8>>, Q>>)
Fence == Through(<<R, S>>)
Wall == Through(<<R, <<2, 6>>, <<6, 6>>, S>>)
YardNodes == <<Q, R, S>>
YardSites == {R, S, N}
YardCurves == {Yard, Fence, Wall}

(***************************************************************************)
(* A plot at W in three sizes, the widest reaching around the site O, and  *)
(* an edge from W to E that may be bent and is split at B.  The plots run  *)
(* clockwise, so that they link by next_left to the edge that hangs there. *)
(***************************************************************************)
O == <<6, 4>>
B == <<2, 4>>
Plot == Backward(Through(<<W, <<0, 0>>, <<2, 0>>, M, W>>))
WidePlot == Backward(Through(<<W, <<0, 0>>, <<4, 0>>, <<4, 2>>, W>>))
WidestPlot == Backward(Through(<<W, <<0, 0>>, <<8, 0>>, <<8, 6>>, <<0, 6>>, W>>))
Bent == Through(<<W, <<0, 4>>, <<4, 4>>, E>>)
Bent2 == Through(<<W, <<0, 4>>, B, <<2, 6>>, <<4, 6>>, E>>)
PlotNodes == <<W, E>>
PlotSites == {E, O, B}
PlotCurves == {Plot, WidePlot, WidestPlot, Bent, Bent2}

\* Two edges between W and E, and a third curve for one of them on the far side
FlipNodes == <<W, E>>
FlipCurves == {Straight, Over, Backward(Under)}

\* A loop at W, drawn so that it links by next_left to the edge through M that hangs
\* from W; either way round that edge
HangingCurves == {Straight, Through(<<W, <<0, 0>>, <<6, 0>>, <<6, 6>>, <<0, 6>>, W>>)}

\* The calls, the curves they draw, the points they name, the isolated nodes there at the
\* start, in the order of their ids, and the last ids
Drawn ==
  [hole |-> [calls |-> {"AddEdgeModFace", "AddEdgeNewFaces", "RemEdgeModFace", "RemEdgeNewFace"},
             curves |-> HoleCurves, sites |-> HoleSites, nodes |-> HoleNodes,
             last |-> [node |-> 2, edge |-> 4, face |-> 5]],
   yard |-> [calls |-> {"AddIsoNode", "MoveIsoNode", "RemoveIsoNode", "AddIsoEdge", "RemIsoEdge",
                        "AddEdgeModFace", "RemEdgeModFace"},
             curves |-> YardCurves, sites |-> YardSites, nodes |-> YardNodes,
             last |-> [node |-> 4, edge |-> 3, face |-> 2]],
   plot |-> [calls |-> {"AddIsoNode", "MoveIsoNode", "AddEdgeModFace", "RemEdgeModFace",
                        "ChangeEdgeGeom", "NewEdgesSplit"},
             curves |-> PlotCurves, sites |-> PlotSites, nodes |-> PlotNodes,
             last |-> [node |-> 4, edge |-> 4, face |-> 2]],
   theta |-> [calls |-> {"AddIsoNode", "AddIsoEdge", "RemIsoEdge", "AddEdgeModFace",
                         "ModEdgeSplit", "ModEdgeHeal", "NewEdgeHeal", "RemEdgeModFace",
                         "RemEdgeNewFace"},
              curves |-> ThetaCurves, sites |-> ThetaSites, nodes |-> ThetaNodes,
              last |-> [node |-> 4, edge |-> 4, face |-> 3]],
   shapes |-> [calls |-> {"AddEdgeModFace", "AddEdgeNewFaces", "ModEdgeSplit", "ModEdgeHeal",
                          "NewEdgeHeal", "RemEdgeModFace", "RemEdgeNewFace", "CreateTopoGeom",
                          "ClearTopoGeom", "AddElement", "RemElement"},
               curves |-> ThetaCurves, sites |-> ThetaSites, nodes |-> ThetaNodes,
               last |-> [node |-> 3, edge |-> 3, face |-> 3]],
   split |-> [calls |-> {"AddEdgeModFace", "NewEdgesSplit"},
              curves |-> ThetaCurves, sites |-> ThetaSites, nodes |-> ThetaNodes,
              last |-> [node |-> 4, edge |-> 4, face |-> 3]],
   hanging |-> [calls |-> {"AddEdgeModFace", "CreateTopoGeom", "NewEdgesSplit"},
                curves |-> HangingCurves, sites |-> ThetaSites, nodes |-> ThetaNodes,
                last |-> [node |-> 4, edge |-> 4, face |-> 2]],
   flip |-> [calls |-> {"AddEdgeModFace", "ChangeEdgeGeom"},
             curves |-> FlipCurves, sites |-> ThetaSites, nodes |-> FlipNodes,
             last |-> [node |-> 4, edge |-> 4, face |-> 3]]]

ASSUME DrawingsKnown == Drawings \subseteq DOMAIN Drawn
ASSUME NodesApart ==
  \A d \in Drawings : \A i, j \in DOMAIN Drawn[d].nodes :
    Drawn[d].nodes[i] = Drawn[d].nodes[j] => i = j

DrawnCurves == UNION {Drawn[d].curves : d \in Drawings}
DrawnSites == UNION {Drawn[d].sites : d \in Drawings}
Theta == {"theta", "shapes", "split", "flip"}
DrawnCells ==
  LET across == IF Drawings \subseteq Theta THEN {-1, 1, 3, 5} ELSE {-1, 1, 3, 5, 7, 9}
  IN  {<<i, j>> : i, j \in across}

MCInit ==
  /\ drawing \in Drawings
  /\ LET placed == Drawn[drawing].nodes
     IN  /\ node = [n \in DOMAIN placed |-> [geom |-> placed[n], containing_face |-> Universe]]
         /\ seq = [node |-> Len(placed), edge |-> 0, face |-> 0]
  /\ edge = None /\ face = None /\ relation = {}
  /\ outcome = "done"

Does(call) == call \in Drawn[drawing].calls /\ UNCHANGED drawing
MyCurves == Drawn[drawing].curves
MySites == Drawn[drawing].sites
Cuts(e) == {i \in DOMAIN edge[e].geom : edge[e].geom[i] \in MySites}

MCNext ==
  \/ Does("AddIsoNode") /\ \E p \in MySites : AddIsoNode(p)
  \/ Does("MoveIsoNode") /\ \E n \in DOMAIN node, p \in MySites : MoveIsoNode(n, p)
  \/ Does("RemoveIsoNode") /\ \E n \in DOMAIN node : RemoveIsoNode(n)
  \/ Does("AddIsoEdge") /\ \E m, n \in DOMAIN node, c \in MyCurves : AddIsoEdge(m, n, c)
  \/ Does("AddEdgeNewFaces")
     /\ \E m, n \in DOMAIN node, c \in MyCurves : AddEdgeNewFaces(m, n, c)
  \/ Does("AddEdgeModFace")
     /\ \E m, n \in DOMAIN node, c \in MyCurves : AddEdgeModFace(m, n, c)
  \/ Does("ModEdgeSplit") /\ \E e \in DOMAIN edge : \E i \in Cuts(e) : ModEdgeSplit(e, i)
  \/ Does("NewEdgesSplit") /\ \E e \in DOMAIN edge : \E i \in Cuts(e) : NewEdgesSplit(e, i)
  \/ Does("ChangeEdgeGeom") /\ \E e \in DOMAIN edge, c \in MyCurves : ChangeEdgeGeom(e, c)
  \/ Does("RemIsoEdge") /\ \E e \in DOMAIN edge : RemIsoEdge(e)
  \/ Does("RemEdgeModFace") /\ \E e \in DOMAIN edge : RemEdgeModFace(e)
  \/ Does("RemEdgeNewFace") /\ \E e \in DOMAIN edge : RemEdgeNewFace(e)
  \/ Does("ModEdgeHeal") /\ \E e1, e2 \in DOMAIN edge : ModEdgeHeal(e1, e2)
  \/ Does("NewEdgeHeal") /\ \E e1, e2 \in DOMAIN edge : NewEdgeHeal(e1, e2)
  \/ Does("CreateTopoGeom")
     /\ \E tg \in TopoGeoms : \E ids \in SUBSET Primitives(Kind[tg]) : CreateTopoGeom(tg, ids)
  \/ Does("ClearTopoGeom") /\ \E tg \in TopoGeoms : ClearTopoGeom(tg)
  \/ Does("AddElement")
     /\ \E tg \in TopoGeoms : \E i \in Primitives(Kind[tg]) : AddElement(tg, i)
  \/ Does("RemElement")
     /\ \E tg \in TopoGeoms : \E i \in Primitives(Kind[tg]) : RemElement(tg, i)

\* The bounds of the run: no more ids than the drawing needs
WithinBounds == \A s \in DOMAIN seq : seq[s] <= Drawn[drawing].last[s]

MCSpec == MCInit /\ [][MCNext]_<<vars, drawing>>

NoKind == <<>>
GeomKind == [t \in {"area", "line", "point"} |->
               CASE t = "point" -> 1 [] t = "line" -> 2 [] t = "area" -> 3]
=============================================================================
