------------------------------ MODULE TopoLoad ------------------------------
(***************************************************************************)
(* Loading geometries into a topology, one table edit after the other:     *)
(* TopoGeo_AddPoint, TopoGeo_AddLineString, TopoGeo_AddPolygon and         *)
(* toTopoGeom, which call the edit functions of Topology, and              *)
(* lwt_AddLineNoFace with lwt_Polygonize, which draw without faces and     *)
(* find them afterwards.                                                   *)
(*                                                                         *)
(* A load is one SQL statement: it starts from what it reads when it is    *)
(* called, and each of its steps reads and writes the tables the steps     *)
(* before it left.  An error anywhere undoes all of it.  The tolerance is  *)
(* zero: geometries meet exactly or not at all.                            *)
(***************************************************************************)
EXTENDS TopologyValid

CONSTANTS Requests,   \* [kind, faces, tg, parts]: the geometries clients load
          NoGeom      \* the tg of a load that is not toTopoGeom

Lines(kind, part) == IF kind = 1 THEN <<>> ELSE part

ASSUME RequestsAreLoads ==
  \A r \in Requests :
    /\ r.kind \in 1 .. 3 /\ r.faces \in BOOLEAN
    /\ r.tg # NoGeom => r.faces /\ r.tg \in TopoGeoms /\ Kind[r.tg] = r.kind
    /\ r.parts \in Seq(Range(r.parts)) /\ r.parts # <<>>
    /\ \A part \in Range(r.parts) :
         /\ r.kind = 1 => part \in LatticePoints
         /\ r.kind = 2 => Len(part) = 1
         /\ r.kind # 1 => part \in Seq(Range(part))
         /\ \A c \in Range(Lines(r.kind, part)) :
              /\ c \in Seq(LatticePoints) /\ IsCurve(c)
              /\ Cardinality(SegmentMids(c)) = Len(c) - 1

VARIABLE load     \* the statement that runs: what it holds in memory between two edits

loadVars == <<vars, load>>

Idle == [step |-> "idle"]

\* An edit succeeds and the statement goes on, or fails and undoes the statement
Continue(result, next) ==
  \E t \in {result} :
    /\ outcome' = t.err
    /\ IF t.err = "done" THEN Store(t) /\ load' = next
       ELSE Store(load.before) /\ load' = Idle

-----------------------------------------------------------------------------
(* _lwt_AddPoint: the tables in which point p is a node.                   *)

NodesAt(t, p) == {n \in DOMAIN t.node : t.node[n].geom = p}
NodeAt(t, p) == CHOOSE n \in NodesAt(t, p) : TRUE

AddPoint(t, p, findFace) ==
  LET cut == {x \in UNION {{e} \X DOMAIN t.edge[e].geom : e \in DOMAIN t.edge} :
                t.edge[x[1]].geom[x[2]] = p}
  IN  CASE NodesAt(t, p) # {} -> {t}
        [] NodesAt(t, p) = {} /\ cut # {} -> {CutInTwo(t, x[1], x[2]) : x \in cut}
        [] OTHER -> {IF findFace /\ f = Nowhere THEN Fail(t, "corrupted topology")
                     ELSE InsertNode(t, p, f) :
                       f \in IF findFace THEN GetFaceContainingPoint(t, p) ELSE {Nowhere}}

-----------------------------------------------------------------------------
(* _lwt_AddLine: the line cut where it meets itself, edges and nodes.      *)

SegmentsAt(c, p) ==
  {Mid(c[i], c[i + 1]) : i \in {j \in 1 .. Len(c) - 1 : p \in {c[j], c[j + 1]}}}

DrawnSegments(t) == UNION {SegmentMids(t.edge[e].geom) : e \in DOMAIN t.edge}

\* Line c runs along one edge before and after p
RunsAlong(t, c, p) == \E e \in DOMAIN t.edge : SegmentsAt(c, p) \subseteq SegmentMids(t.edge[e].geom)

\* Faulty: cut only where it meets itself
BreaksAtItself(t, c, p) == Cardinality(SegmentsAt(c, p)) # 2 \/ p = StartPoint(c)

BreaksAt(t, c, p) ==
  \/ Cardinality(SegmentsAt(c, p)) # 2
  \/ NodesAt(t, p) # {}
  \/ ~RunsAlong(t, c, p) /\ \E e \in DOMAIN t.edge : p \in Points(t.edge[e].geom)
  \/ p = StartPoint(c) /\ (RunsAlong(t, c, p) => SegmentMids(c) \subseteq DrawnSegments(t))

\* The curves between the breaks; the start of a closed line need not be one
Pieces(t, c) ==
  LET B == {i \in DOMAIN c : BreaksAt(t, c, c[i])}
      ends == {x \in B \X B : x[1] < x[2] /\ \A i \in B : i <= x[1] \/ x[2] <= i}
  IN  {SubSeq(c, x[1], x[2]) : x \in ends} \cup
      IF 1 \in B THEN {} ELSE {Join(SubSeq(c, Max(B), Len(c)), SubSeq(c, 1, Min(B)))}

\* _lwt_GetEqualEdge: the edge along c, with its direction, if there is one
SameWay(c, d) ==
  IF StartPoint(c) = EndPoint(c) THEN IsCCW(c) = IsCCW(d) ELSE StartPoint(c) = StartPoint(d)

\* Faulty: an edge between the same nodes will do
EqualEdgeByEnds(t, c) ==
  {d \in Darts(t) : LET g == t.edge[Abs(d)].geom
                    IN  /\ {StartPoint(g), EndPoint(g)} = {StartPoint(c), EndPoint(c)}
                        /\ d > 0 <=> SameWay(c, g)}

EqualEdge(t, c) ==
  {d \in Darts(t) : LET g == t.edge[Abs(d)].geom
                    IN  SegmentMids(g) = SegmentMids(c) /\ (d > 0 <=> SameWay(c, g))}

\* _lwt_AddEdge, with faces or without
NewLineEdge(t, sn, en, c, ends, faces) ==
  CASE faces /\ CanAddEdge(t, sn, en, c) -> AddedEdge(t, sn, en, c, ends, TRUE)
    [] ~faces /\ CanDrawEdge(t, sn, en, c) ->
         IF ends.span.corrupt \/ ends.epan.corrupt THEN Fail(t, "corrupted topology")
         ELSE InsertLinkedEdge(t, sn, en, c, Nowhere, ends.span, ends.epan)
    [] OTHER -> Fail(t, "refused")

\* _lwt_AddLineEdge: nodes at the ends of piece c, then an edge unless there is one
AddPiece(c) ==
  \E t \in UNION {AddPoint(u, EndPoint(c), load.faces) :
                    u \in AddPoint(Tables, StartPoint(c), load.faces)} :
    LET sn == NodeAt(t, StartPoint(c))
        en == NodeAt(t, EndPoint(c))
        Held(d) == [load EXCEPT !.todo = @ \ {c}, !.ids = @ \cup {d}]
    IN  IF t.err # "done" THEN Continue(t, load)
        ELSE IF EqualEdge(t, c) # {} THEN \E d \in EqualEdge(t, c) : Continue(t, Held(d))
        ELSE \E ends \in {EndsAround(t, sn, en, c)} :
               Continue(NewLineEdge(t, sn, en, c, ends, load.faces), Held(NewEdge(t)))

-----------------------------------------------------------------------------
(* lwt_AddPolygon: once its rings are drawn, the faces it covers.          *)

\* lwt_GetFaceGeometry: the cells with an odd number of boundary segments on their right
Surface(t, f) ==
  {p \in Extent :
     Cardinality({m \in UNION {SegmentMids(t.edge[e].geom) : e \in FaceBoundary(t, f)} :
                    m[2] = p[2] /\ m[1] > p[1]}) % 2 = 1}

Covers(rings, p) ==
  Winding(Head(rings), p) # 0 /\ \A r \in Range(Tail(rings)) : Winding(r, p) = 0

FacesCovered(t, rings) ==
  {f \in DOMAIN t.face :
     /\ BoxesMeet(t.face[f], Box(Points(Head(rings))))
     /\ Covers(rings, CHOOSE p \in Surface(t, f) : TRUE)}

-----------------------------------------------------------------------------
(* A load: its parts in turn, of each part its lines, of each line its     *)
(* pieces in any order.  shape is what has been loaded of the TopoGeometry.*)

Loading == load.step = "load"

BeginLoad(r) ==
  /\ load = Idle
  /\ load' = [step |-> "load", kind |-> r.kind, faces |-> r.faces, tg |-> r.tg,
              parts |-> r.parts, lines |-> Lines(r.kind, Head(r.parts)),
              todo |-> {}, ids |-> {}, before |-> Tables,
              shape |-> IF r.tg = NoGeom THEN {} ELSE Shape(r.tg)]
  /\ UNCHANGED vars

LoadPoint ==
  /\ Loading /\ load.kind = 1 /\ load.parts # <<>> /\ load.ids = {}
  /\ \E t \in AddPoint(Tables, Head(load.parts), TRUE) :
       Continue(t, [load EXCEPT !.ids = NodesAt(t, Head(load.parts))])

NodeLine ==
  /\ Loading /\ load.todo = {} /\ load.lines # <<>>
  /\ load' = [load EXCEPT !.lines = Tail(@), !.todo = Pieces(Tables, Head(load.lines)), !.ids = {}]
  /\ UNCHANGED vars

LoadPiece == Loading /\ \E c \in load.todo : AddPiece(c)

\* What a part looks like: a point, the segments of a line, the cells of a polygon
Drawing(kind, part) ==
  CASE kind = 1 -> {part}
    [] kind = 2 -> SegmentMids(Head(part))
    [] kind = 3 -> {p \in Extent : Covers(part, p)}

PartDone ==
  /\ Loading /\ load.todo = {} /\ load.lines = <<>> /\ load.parts # <<>>
  /\ load.kind = 1 => load.ids # {}

PartIds ==
  IF load.kind = 3 THEN FacesCovered(Tables, Head(load.parts)) ELSE load.ids

Rows(tg, kind, ids) == IF tg = NoGeom THEN {} ELSE {[tg |-> tg, type |-> kind, id |-> i] : i \in ids}

NextPart ==
  LET rest == Tail(load.parts)
  IN  [load EXCEPT !.parts = rest, !.ids = {},
                   !.lines = IF rest = <<>> THEN <<>> ELSE Lines(load.kind, Head(rest)),
                   !.shape = @ \cup Drawing(load.kind, Head(load.parts))]

\* Faulty: the rows are written when all parts are drawn
WriteRowsLast ==
  /\ PartDone
  /\ Continue([Tables EXCEPT !.relation =
                 @ \cup Rows(load.tg, load.kind, IF Tail(load.parts) = <<>> THEN PartIds ELSE {})],
              [NextPart EXCEPT !.ids = load.ids])

\* toTopoGeom writes the rows of a part before it draws the next one
WriteRows ==
  /\ PartDone
  /\ Continue([Tables EXCEPT !.relation = @ \cup Rows(load.tg, load.kind, PartIds)], NextPart)

EndLoad ==
  /\ Loading /\ load.parts = <<>>
  /\ load' = Idle
  /\ UNCHANGED vars

-----------------------------------------------------------------------------
(* lwt_Polygonize: the ring on each side of each edge, then its face.      *)

BeginPolygonize ==
  /\ load = Idle
  /\ DOMAIN face = {} /\ DOMAIN edge # {}
  /\ load' = [step |-> "sides", todo |-> Darts(Tables), shells |-> {}, holes |-> <<>>,
              before |-> Tables]
  /\ UNCHANGED vars

SetSides(t, ring, f) ==
  [t EXCEPT !.edge = [e \in DOMAIN t.edge |->
     [t.edge[e] EXCEPT !.face_left = IF e \in Range(ring) THEN f ELSE @,
                       !.face_right = IF -e \in Range(ring) THEN f ELSE @]]]

\* _lwt_FetchNextUnvisitedEdge: the least edge with a side to do, the left side first
NextSide ==
  CHOOSE d \in load.todo :
    \A o \in load.todo : Abs(d) < Abs(o) \/ (Abs(d) = Abs(o) /\ d >= o)

\* _lwt_RegisterFaceOnEdgeSide; the walk of a ring that does not come back never ends
RegisterSide ==
  /\ load.step = "sides" /\ load.todo # {}
  /\ \E ring \in {Ring(Tables, NextSide)} :
       LET shell == RingShell(Tables, ring)
           box == Box(Range(shell))
           f == NewFace(Tables)
           visited == [load EXCEPT !.todo = @ \ Range(ring)]
       IN  /\ RingCloses(Tables, ring)
           /\ IF TwiceArea(shell) > 0
              THEN Continue(SetSides(InsertFace(Tables, box), ring, f),
                            [visited EXCEPT !.shells = @ \cup
                               {[ring |-> ring, box |-> box, face |-> f]}])
              ELSE Continue(Tables, [visited EXCEPT !.holes = Append(@, ring)])

InsideBox(b, c) == c[1] <= b[1] /\ c[2] <= b[2] /\ b[3] <= c[3] /\ b[4] <= c[4]

\* Faulty: the first shell found, not the one with the smallest box
AnyFaceContainingRing(ring) ==
  LET box == Box(Range(RingShell(Tables, ring)))
      around == {s \in load.shells : s.box # box /\ InsideBox(box, s.box)}
  IN  IF around = {} THEN {Universe} ELSE {s.face : s \in around}

\* _lwt_FindFaceContainingRing: the shell with the smallest box around the ring
FaceContainingRing(ring) ==
  LET p == StartPoint(edge[Abs(Head(ring))].geom)
      box == Box(Range(RingShell(Tables, ring)))
      around == {s \in load.shells :
                   /\ Abs(Head(s.ring)) # Abs(Head(ring))
                   /\ s.box # box /\ InsideBox(box, s.box)
                   /\ Winding(RingShell(Tables, s.ring), p) % 2 = 1}
  IN  IF around = {} THEN {Universe}
      ELSE {s.face : s \in {x \in around :
              \A y \in around : InsideBox(y.box, x.box) => y.box = x.box}}

AssignHole ==
  /\ load.step = "sides" /\ load.todo = {} /\ load.holes # <<>>
  /\ \E f \in FaceContainingRing(Head(load.holes)) :
       Continue(SetSides(Tables, Head(load.holes), f), [load EXCEPT !.holes = Tail(@)])

Polygonized == load.step = "sides" /\ load.todo = {} /\ load.holes = <<>>

EndPolygonize ==
  /\ Polygonized
  /\ load' = Idle
  /\ UNCHANGED vars

-----------------------------------------------------------------------------
LoadStep ==
  \/ LoadPoint \/ NodeLine \/ LoadPiece \/ WriteRows \/ EndLoad
  \/ RegisterSide \/ AssignHole \/ EndPolygonize

\* A session runs one statement at a time, and runs it to its end
LoadNext ==
  \/ \E r \in Requests : BeginLoad(r)
  \/ BeginPolygonize
  \/ LoadStep
  \/ load = Idle /\ Next /\ UNCHANGED load

LoadInit == Init /\ load = Idle

LoadSpec == LoadInit /\ [][LoadNext]_loadVars /\ WF_loadVars(LoadStep)

-----------------------------------------------------------------------------
(* Properties.                                                             *)

\* What _lwt_AddLine cuts a line into is always accepted by _lwt_AddEdge, and nothing it
\* meets looks corrupted
LoadsSucceed == outcome = "done"

FacesKnown == \A e \in DOMAIN edge : Nowhere \notin {edge[e].face_left, edge[e].face_right}

FacesAreRight == FacesKnown /\ RingsBoundOneFace /\ FacesHaveOneShell /\ FacesTileThePlane

\* Between any two edits of a load that keeps faces the faces tile the plane, and they do
\* when lwt_Polygonize has found them
FacesAreRightInLoads ==
  \/ Polygonized \/ (Loading /\ load.faces) => FacesAreRight

\* The edges of the ids collected so far, with the pieces and rings still to draw, cover
\* the geometry drawn and nothing else: no edit takes from an edge whose id is held
IdsCoverLine ==
  Loading /\ load.kind = 2 /\ load.parts # <<>> =>
    (UNION {SegmentMids(edge[Abs(d)].geom) : d \in load.ids})
      \cup (UNION {SegmentMids(c) : c \in load.todo \cup Range(load.lines)})
    = UNION {SegmentMids(c) : c \in Range(Head(load.parts))}

\* At every step a TopoGeometry that toTopoGeom builds covers the parts it has loaded, though
\* later parts split their edges and faces, and no load changes any other TopoGeometry
LoadsKeepShapes ==
  [][/\ Loading /\ load.tg # NoGeom /\ load' # Idle => Shape(load.tg)' = load'.shape
     /\ \A tg \in TopoGeoms :
          load # Idle /\ (Loading => load.tg # tg) => Shape(tg)' = Shape(tg)]_loadVars

\* Every load ends: each ring walk of lwt_Polygonize comes back to where it began
LoadsEnd == load # Idle ~> load = Idle
=============================================================================
