--------------------------- MODULE TopologyValid ---------------------------
(***************************************************************************)
(* What the tables of Topology must satisfy between two calls: the checks  *)
(* of topology.ValidateTopology and topology.ValidateTopologyRelation, the *)
(* exactness of face lookup, and what an edit may not do to TopoGeometries *)
(***************************************************************************)
EXTENDS Topology

CONSTANT Extent      \* the cells of the plane the drawings lie in

\* The cell on the left of segment i of curve c
LeftCell(c, i) ==
  LET m == Mid(c[i], c[i + 1])
  IN  <<m[1] - (c[i + 1][2] - c[i][2]) \div 2, m[2] + (c[i + 1][1] - c[i][1]) \div 2>>

ASSUME ExtentHoldsCurves ==
  \A c \in Curves : \A i \in 1 .. Len(c) - 1 :
    LeftCell(c, i) \in Extent /\ LeftCell(Backward(c), i) \in Extent

\* Ids, references and outcomes are of their types
TypeOK ==
  /\ DOMAIN node \subseteq 1 .. MaxNode
  /\ DOMAIN edge \subseteq 1 .. MaxEdge
  /\ DOMAIN face \subseteq 1 .. MaxFace
  /\ \A n \in DOMAIN node :
       node[n].containing_face \in DOMAIN face \cup {Universe, Nowhere}
  /\ \A e \in DOMAIN edge :
       /\ {edge[e].start_node, edge[e].end_node} \subseteq DOMAIN node
       /\ {edge[e].next_left, edge[e].next_right} \subseteq Darts(Tables)
       /\ {edge[e].face_left, edge[e].face_right} \subseteq DOMAIN face \cup {Universe}
       /\ IsCurve(edge[e].geom)
  /\ seq \in [node : 0 .. MaxNode, edge : 0 .. MaxEdge, face : 0 .. MaxFace]
  /\ outcome \in {"done", "corrupted topology", "syntax error"}

-----------------------------------------------------------------------------
(* Rings, regions and shapes, read off the tables.                         *)

Star(n) == {d \in Darts(Tables) : From(Tables, d) = n}

\* The dart first met turning clockwise from -d around the node that d reaches
FirstClockwise(d) ==
  LET Turn(o) == ClockwiseTurn(DartAzimuth(Tables, -d), DartAzimuth(Tables, o))
      others == Star(To(Tables, d)) \ {-d}
  IN  IF others = {} THEN -d
      ELSE CHOOSE o \in others : \A x \in others : Turn(o) <= Turn(x)

Shells(f) ==
  {r \in {Ring(Tables, d) : d \in {x \in Darts(Tables) : SideFace(Tables, x) = f}} :
     TwiceArea(RingShell(Tables, r)) > 0}

\* The edge sides to the right of cell p in its row: <<where, the face towards p>>
Sights(p) ==
  UNION {LET c == edge[e].geom
             ahead == {i \in 1 .. Len(c) - 1 :
                         LET m == Mid(c[i], c[i + 1]) IN m[2] = p[2] /\ m[1] > p[1]}
         IN  {<<c[i][1], IF c[i + 1][2] > c[i][2] THEN edge[e].face_left
                                                  ELSE edge[e].face_right>> : i \in ahead} :
         e \in DOMAIN edge}

\* The face cell p lies in: the one the nearest of them names; without edges, the universe
FaceAt(p) ==
  LET sights == Sights(p)
      nearest == CHOOSE s \in sights : \A o \in sights : s[1] <= o[1]
  IN  IF sights = {} THEN Universe ELSE nearest[2]

CellsAround(p) == {<<p[1] + i, p[2] + j>> : i, j \in {-1, 1}}

Defined(tg) == \E r \in relation : r.tg = tg
Elements(tg) == {Abs(r.id) : r \in {q \in relation : q.tg = tg}}
Shape(tg) ==
  CASE Kind[tg] = 1 -> {node[n].geom : n \in Elements(tg)}
    [] Kind[tg] = 2 -> UNION {SegmentMids(edge[e].geom) : e \in Elements(tg)}
    [] Kind[tg] = 3 -> {p \in Extent : FaceAt(p) \in Elements(tg)}

-----------------------------------------------------------------------------
(* Linking: _ValidateTopologyEdgeLinking.                                  *)

\* Every edge links on each side to the next edge end met turning clockwise
\* around the node it reaches, whatever edits tied and untied the node
LinksTurnClockwise ==
  \A d \in Darts(Tables) : NextDart(Tables, d) = FirstClockwise(d)

(* Faces: ValidateTopology's checks on rings, shells, holes and boxes.     *)

\* Walking a ring one always has the same face on the left hand
RingsBoundOneFace ==
  \A d \in Darts(Tables) : SideFace(Tables, NextDart(Tables, d)) = SideFace(Tables, d)

\* Every face but the universe has one shell, and its mbr is the box of that shell
FacesHaveOneShell ==
  /\ \A f \in DOMAIN face :
       LET boxes == {Box(Range(RingShell(Tables, r))) : r \in Shells(f)}
           sets == {Range(r) : r \in Shells(f)}
       IN  Cardinality(sets) = 1 /\ boxes = {face[f]}
  /\ Shells(Universe) = {}

\* The cells on both sides of every edge segment lie in the faces the edge names, and
\* cells with no edge between them in the same one: holes and islands name the face
\* around them
FacesTileThePlane ==
  LET seen == {<<p, FaceAt(p)>> : p \in Extent}
      walls == UNION {SegmentMids(edge[e].geom) : e \in DOMAIN edge}
  IN  /\ \A e \in DOMAIN edge : \A i \in 1 .. Len(edge[e].geom) - 1 :
           LET back == Backward(edge[e].geom)
           IN  /\ <<LeftCell(edge[e].geom, i), edge[e].face_left>> \in seen
               /\ <<LeftCell(back, i), edge[e].face_right>> \in seen
      /\ \A s \in seen : \A q \in {<<s[1][1] + 2, s[1][2]>>, <<s[1][1], s[1][2] + 2>>} :
           q \in Extent /\ Mid(s[1], q) \notin walls => <<q, s[2]>> \in seen

(* Nodes and edges.                                                        *)

\* A node names a face exactly when no edge touches it, and then the one around it
IsolatedNodesKnowTheirFace ==
  \A n \in DOMAIN node :
    IF Star(n) = {}
    THEN \A p \in CellsAround(node[n].geom) : FaceAt(p) = node[n].containing_face
    ELSE node[n].containing_face = Nowhere

\* Nodes are distinct, edges end at theirs, and nothing crosses or touches
DrawingIsPlanar ==
  /\ \A m, n \in DOMAIN node : node[m].geom = node[n].geom => m = n
  /\ \A e \in DOMAIN edge :
       /\ EndsAtNodes(Tables, edge[e].start_node, edge[e].end_node, edge[e].geom)
       /\ CheckEdgeCrossing(Tables, edge[e].start_node, edge[e].end_node, edge[e].geom, e)

\* Face lookup finds the face a free point is in, whichever of the closest edges
\* the index returns first
FaceLookupIsExact ==
  \A p \in Sites :
    FreePoint(p) => GetFaceContainingPoint(Tables, p) = {FaceAt(<<p[1] + 1, p[2] + 1>>)}

(* TopoGeometries.                                                         *)

\* ValidateTopologyRelation: the relation table names existing primitives only
RelationsReferToPrimitives ==
  \A r \in relation : r.type = Kind[r.tg] /\ Abs(r.id) \in Primitives(r.type)

\* A legal call on what legal calls built never finds the topology corrupted
NeverCorrupted == outcome # "corrupted topology"

\* No call ends in an SQL error
NoBadStatement == outcome # "syntax error"

\* A TopoGeometry covers the same points, edge segments or cells after any edit that
\* does not move a primitive, but for those that name its elements
EditsKeepShapes ==
  \A tg \in TopoGeoms :
    Defined(tg) => \/ ClearTopoGeom(tg)
                   \/ \E i \in Primitives(Kind[tg]) : AddElement(tg, i) \/ RemElement(tg, i)
                   \/ Defined(tg)' /\ Shape(tg)' = Shape(tg)
TopoGeomsKeepShape ==
  [][\/ \E n \in DOMAIN node, p \in Sites : MoveIsoNode(n, p)
     \/ \E e \in DOMAIN edge, c \in Curves : ChangeEdgeGeom(e, c)
     \/ EditsKeepShapes]_vars

\* The node each dart leaves, and the dart that follows it
Origins(t) == [d \in Darts(t) |-> From(t, d)]
Follows(t) == [d \in Darts(t) |-> NextDart(t, d)]

(***************************************************************************)
(* The links, as darts: next_left_edge and next_right_edge are edited as   *)
(* EdgeLinking promises, whatever the geometry and the faces do.           *)
(***************************************************************************)
Linking == INSTANCE EdgeLinking WITH
             Edges <- 1 .. MaxEdge,
             Nodes <- 1 .. MaxNode,
             org <- Origins(Tables),
             next <- Follows(Tables)

\* Every call ties, removes, splits or heals edges of the permutation, or leaves it alone
EditsImplementLinking == Linking!Spec
=============================================================================
