------------------------------ MODULE Topology ------------------------------
(***************************************************************************)
(* The SQL/MM topology engine: the edit functions of                       *)
(* liblwgeom/lwgeom_topo.c over the tables node, edge_data, face and       *)
(* relation of one topology, with the callbacks of                         *)
(* topology/postgis_topology.c that keep the TopoGeometries in step.       *)
(*                                                                         *)
(* One action is one SQL call, which is one statement of a transaction: it *)
(* either commits all its updates or raises an error and leaves the tables *)
(* as they were.  A call whose arguments the code rejects (no such node,   *)
(* curve not simple, geometry crosses an edge, ...) is not enabled.  A     *)
(* call that the code aborts for another reason ends in an outcome other   *)
(* than "done": the program then blames the topology or fails in SQL.      *)
(* (The ids such a call drew from the sequences are lost in the program;   *)
(* here they are drawn again.)                                             *)
(***************************************************************************)
EXTENDS Lattice, SequencesExt

CONSTANTS Curves,      \* the curves the client may draw
          Sites,       \* the points it may name
          TopoGeoms,   \* the TopoGeometries it may create ...
          Kind,        \* ... and the type of their elements: 1 node, 2 edge, 3 face
          MaxNode, MaxEdge, MaxFace   \* bounds of the id sequences

ASSUME CurvesAreSimple == \A c \in Curves : IsCurve(c) /\ IsSimple(c)
ASSUME OnLattice == Curves \subseteq Seq(LatticePoints) /\ Sites \subseteq LatticePoints
ASSUME KindOfTopoGeoms == \A tg \in TopoGeoms : Kind[tg] \in 1 .. 3
ASSUME Bounds == MaxNode \in Nat /\ MaxEdge \in Nat /\ MaxFace \in Nat

VARIABLES node,      \* node_id -> [geom, containing_face]
          edge,      \* edge_id -> [start_node, end_node, next_left, ..., geom]
          face,      \* face_id -> mbr, without the universal face 0
          relation,  \* the rows [tg, type, id] that compose the TopoGeometries
          seq,       \* the last id each sequence handed out
          outcome    \* how the last call ended

vars == <<node, edge, face, relation, seq, outcome>>

Universe == 0      \* face 0
Nowhere == -1      \* NULL containing_face: the node is not isolated
NoAzimuth == -1

-----------------------------------------------------------------------------
(* The backend: the tables as one record, so that updates compose.         *)

Tables == [node |-> node, edge |-> edge, face |-> face,
           relation |-> relation, seq |-> seq, err |-> "done"]

Fail(t, why) == [t EXCEPT !.err = IF @ = "done" THEN why ELSE @]

Store(t) ==
  /\ t.seq.node <= MaxNode /\ t.seq.edge <= MaxEdge /\ t.seq.face <= MaxFace
  /\ node' = t.node /\ edge' = t.edge /\ face' = t.face
  /\ relation' = t.relation /\ seq' = t.seq

\* \E evaluates the tables t once
Finish(result) ==
  \E t \in {result} :
    /\ outcome' = t.err
    /\ IF t.err = "done" THEN Store(t)
       ELSE UNCHANGED <<node, edge, face, relation, seq>>

With(f, x, v) == [y \in DOMAIN f \cup {x} |-> IF y = x THEN v ELSE f[y]]
Without(f, S) == [x \in DOMAIN f \ S |-> f[x]]

NewNode(t) == t.seq.node + 1
NewEdge(t) == t.seq.edge + 1
NewFace(t) == t.seq.face + 1

InsertNode(t, pt, cf) ==
  [t EXCEPT !.seq.node = @ + 1,
            !.node = With(@, NewNode(t), [geom |-> pt, containing_face |-> cf])]
InsertEdge(t, e) == [t EXCEPT !.seq.edge = @ + 1, !.edge = With(@, NewEdge(t), e)]
InsertFace(t, mbr) == [t EXCEPT !.seq.face = @ + 1, !.face = With(@, NewFace(t), mbr)]

DeleteNode(t, n) == [t EXCEPT !.node = Without(@, {n})]
DeleteEdges(t, E) == [t EXCEPT !.edge = Without(@, E)]
DeleteFaces(t, F) == [t EXCEPT !.face = Without(@, F)]

SetContainingFace(t, N, cf) ==
  [t EXCEPT !.node = [n \in DOMAIN t.node |->
     IF n \in N THEN [t.node[n] EXCEPT !.containing_face = cf] ELSE t.node[n]]]

\* cb_updateEdges: UPDATE ... SET next_right = new WHERE next_right = old AND start_node = at
RedirectRight(t, old, at, new, except) ==
  [t EXCEPT !.edge = [e \in DOMAIN t.edge |->
     LET r == t.edge[e]
     IN  IF r.next_right = old /\ r.start_node \in at /\ e # except
         THEN [r EXCEPT !.next_right = new] ELSE r]]

\* Faulty: matches the node at the wrong end
RedirectLeftAtStart(t, old, at, new, except) ==
  [t EXCEPT !.edge = [e \in DOMAIN t.edge |->
     LET r == t.edge[e]
     IN  IF r.next_left = old /\ r.start_node \in at /\ e # except
         THEN [r EXCEPT !.next_left = new] ELSE r]]

RedirectLeft(t, old, at, new, except) ==
  [t EXCEPT !.edge = [e \in DOMAIN t.edge |->
     LET r == t.edge[e]
     IN  IF r.next_left = old /\ r.end_node \in at /\ e # except
         THEN [r EXCEPT !.next_left = new] ELSE r]]

-----------------------------------------------------------------------------
(* A signed edge id is a dart: +e walks edge e forward, its face on the    *)
(* left; -e walks it backward, with the right face on its left hand.       *)

Abs(d) == IF d < 0 THEN -d ELSE d
Darts(t) == DOMAIN t.edge \cup {-e : e \in DOMAIN t.edge}
From(t, d) == IF d > 0 THEN t.edge[d].start_node ELSE t.edge[-d].end_node
To(t, d) == From(t, -d)
NextDart(t, d) == IF d > 0 THEN t.edge[d].next_left ELSE t.edge[-d].next_right
SideFace(t, d) == IF d > 0 THEN t.edge[d].face_left ELSE t.edge[-d].face_right
Path(t, d) == IF d > 0 THEN t.edge[d].geom ELSE Backward(t.edge[-d].geom)
DartAzimuth(t, d) ==
  IF d > 0 THEN FirstAzimuth(t.edge[d].geom) ELSE LastAzimuth(t.edge[-d].geom)

SetNext(t, d, new) ==
  IF d > 0 THEN [t EXCEPT !.edge[d].next_left = new]
           ELSE [t EXCEPT !.edge[-d].next_right = new]

IncidentEdges(t, N) ==
  {e \in DOMAIN t.edge : t.edge[e].start_node \in N \/ t.edge[e].end_node \in N}
GetEdgeByFace(t, f) ==
  {e \in DOMAIN t.edge : f \in {t.edge[e].face_left, t.edge[e].face_right}}
GetNodeByFace(t, f) == {n \in DOMAIN t.node : t.node[n].containing_face = f}
GetNodeWithinBox(t, box) == {n \in DOMAIN t.node : InBox(box, t.node[n].geom)}

(***************************************************************************)
(* The first edge ends met turning clockwise and counterclockwise around   *)
(* node n from azimuth myaz, as darts that leave n (0 if none), and the    *)
(* faces on that side of them.  other is the azimuth of the other end of a *)
(* closed edge: only ends met before it count.                             *)
(***************************************************************************)
FindAdjacentEdges(t, n, myaz, other, myself) ==
  LET star == {d \in Darts(t) : From(t, d) = n /\ Abs(d) # myself}
      Turn(d) == ClockwiseTurn(myaz, DartAzimuth(t, d))
      stop == ClockwiseTurn(myaz, other)
      near == IF other = NoAzimuth THEN star ELSE {d \in star : Turn(d) < stop}
      far == IF other = NoAzimuth THEN star ELSE {d \in star : Turn(d) > stop}
      cw == IF near = {} THEN 0
            ELSE CHOOSE d \in near : \A o \in near : Turn(d) <= Turn(o)
      ccw == IF far = {} THEN 0
             ELSE CHOOSE d \in far : \A o \in far : Turn(d) >= Turn(o)
      cwFace == IF cw = 0 THEN Nowhere ELSE SideFace(t, cw)
      ccwFace == IF ccw = 0 THEN Nowhere ELSE SideFace(t, -ccw)
  IN  [found |-> star # {}, nextCW |-> cw, nextCCW |-> ccw,
       cwFace |-> cwFace, ccwFace |-> ccwFace,
       corrupt |-> myself = 0 /\ cwFace # ccwFace /\ Nowhere \notin {cwFace, ccwFace}]

\* Faulty: p is on the left of any edge it is near
FaceAtVertexOnLeft(t, e, i, p) ==
  LET r == t.edge[e]
      adj == FindAdjacentEdges(t, IF i = 1 THEN r.start_node ELSE r.end_node,
                               Azimuth(r.geom[i], p), NoAzimuth, 0)
  IN  IF i \in {1, Len(r.geom)} THEN adj.cwFace ELSE r.face_left

(***************************************************************************)
(* lwt_GetFaceContainingPoint: the face seen from p past the closest point *)
(* of the closest edge.  ORDER BY geom <-> p LIMIT 1 may return any of the *)
(* closest edges, hence a set of answers.  On the lattice the closest      *)
(* point of an edge is one of its vertices.  Nowhere stands for an error.  *)
(***************************************************************************)
FaceAtVertex(t, e, i, p) ==
  LET r == t.edge[e]
      v == r.geom[i]
      adj == FindAdjacentEdges(t, IF i = 1 THEN r.start_node ELSE r.end_node,
                               Azimuth(v, p), NoAzimuth, 0)
      Turn(q) == ClockwiseTurn(Azimuth(v, r.geom[i - 1]), Azimuth(v, q))
  IN  IF i \in {1, Len(r.geom)} THEN IF adj.corrupt THEN Nowhere ELSE adj.cwFace
      ELSE IF Turn(p) < Turn(r.geom[i + 1]) THEN r.face_left ELSE r.face_right

\* cb_getClosestEdge, with the vertex of the edge that is closest to p
GetClosestEdge(t, p) ==
  LET at == UNION {{e} \X DOMAIN t.edge[e].geom : e \in DOMAIN t.edge}
      Dist(x) == Distance2(t.edge[x[1]].geom[x[2]], p)
  IN  {x \in at : \A y \in at : Dist(x) <= Dist(y)}

GetFaceContainingPoint(t, p) ==
  IF DOMAIN t.edge = {} THEN {Universe}
  ELSE {FaceAtVertex(t, x[1], x[2], p) : x \in GetClosestEdge(t, p)}

CheckEdgeCrossing(t, sn, en, c, myself) ==
  /\ \A n \in DOMAIN t.node \ {sn, en} : t.node[n].geom \notin Points(c)
  /\ \A e \in DOMAIN t.edge \ {myself} : ~InteriorsMeet(c, t.edge[e].geom)

EndsAtNodes(t, sn, en, c) ==
  /\ StartPoint(c) = t.node[sn].geom
  /\ EndPoint(c) = t.node[en].geom

FreePoint(p) ==
  /\ \A n \in DOMAIN node : node[n].geom # p
  /\ \A e \in DOMAIN edge : p \notin Points(edge[e].geom)

-----------------------------------------------------------------------------
(* The callbacks that keep the TopoGeometries in step.                     *)

Uses(t, kind, ids) == {r \in t.relation : r.type = kind /\ Abs(r.id) \in ids}
WithId(r, id) == [r EXCEPT !.id = IF r.id < 0 THEN -id ELSE id]

\* With a second edge the statement built is ",VALUES (...", which SQL rejects
UpdateTopoGeomEdgeSplit(t, old, new1, new2) ==
  LET rows == Uses(t, 2, {old})
  IN  IF new2 = -1
      THEN [t EXCEPT !.relation = @ \cup {WithId(r, new1) : r \in rows}]
      ELSE IF rows = {} THEN t ELSE Fail(t, "syntax error")

\* Faulty: TopoGeometries lose the part in the new face
UpdateTopoGeomFaceSplitNever(t, old, new1, new2) == t

UpdateTopoGeomFaceSplit(t, old, new1, new2) ==
  LET rows == Uses(t, 3, {old})
      gone == IF new2 = -1 THEN {} ELSE rows
      added == IF new2 = -1 THEN {new1} ELSE {new1, new2}
  IN  [t EXCEPT !.relation = (@ \ gone) \cup {WithId(r, id) : r \in rows, id \in added}]

-----------------------------------------------------------------------------
(* Isolated nodes and edges.                                               *)

AddIsoNode(p) ==
  /\ FreePoint(p)
  /\ \E f \in GetFaceContainingPoint(Tables, p) :
       Finish(IF f = Nowhere THEN Fail(Tables, "corrupted topology")
              ELSE InsertNode(Tables, p, f))

MoveIsoNode(n, p) ==
  /\ node[n].containing_face # Nowhere
  /\ FreePoint(p)
  /\ \E f \in GetFaceContainingPoint(Tables, p) :
       IF f = Nowhere THEN Finish(Fail(Tables, "corrupted topology"))
       ELSE /\ f = node[n].containing_face
            /\ Finish([Tables EXCEPT !.node[n].geom = p])

RemoveIsoNode(n) ==
  /\ node[n].containing_face # Nowhere
  /\ Uses(Tables, 1, {n}) = {}
  /\ Finish(DeleteNode(Tables, n))

AddIsoEdge(sn, en, c) ==
  LET id == NewEdge(Tables)
      f == node[sn].containing_face
      e == [start_node |-> sn, end_node |-> en, next_left |-> -id, next_right |-> id,
            face_left |-> f, face_right |-> f, geom |-> c]
  IN  /\ sn # en
      /\ f # Nowhere /\ f = node[en].containing_face
      /\ EndsAtNodes(Tables, sn, en, c)
      /\ CheckEdgeCrossing(Tables, sn, en, c, 0)
      /\ Finish(SetContainingFace(InsertEdge(Tables, e), {sn, en}, Nowhere))

-----------------------------------------------------------------------------
(* Splitting an edge by a node.  The point is a vertex of the curve; the   *)
(* two actions return with the edge cut at c[i].                           *)

CutBefore(c, i) == SubSeq(c, 1, i)
CutAfter(c, i) == SubSeq(c, i, Len(c))

SplitsAt(e, i) == i \in 2 .. Len(edge[e].geom) - 1 /\ edge[e].geom[i] \in Sites

CutInTwo(t, e, i) ==
  LET old == t.edge[e]
      t0 == InsertNode(t, old.geom[i], Nowhere)
      n == NewNode(t)
      m == NewEdge(t)
      new == [old EXCEPT !.start_node = n,
                         !.next_left = IF @ = -e THEN -m ELSE @,
                         !.next_right = -e,
                         !.geom = CutAfter(@, i)]
      t1 == InsertEdge(t0, new)
      t2 == [t1 EXCEPT !.edge[e].geom = CutBefore(@, i),
                       !.edge[e].next_left = m,
                       !.edge[e].end_node = n]
      t3 == RedirectRight(t2, -e, {old.end_node}, -m, m)
      t4 == RedirectLeft(t3, -e, {old.end_node}, -m, m)
  IN  UpdateTopoGeomEdgeSplit(t4, e, m, -1)

ModEdgeSplit(e, i) ==
  /\ SplitsAt(e, i)
  /\ Finish(CutInTwo(Tables, e, i))

\* Faulty: next_left is forgotten
ReplaceRightLinks(t, e, sn, en, m0, m1) ==
  RedirectRight(RedirectRight(t, e, {sn}, m1, 0), -e, {en}, -m0, 0)

\* The updates that replace the deleted edge e, between nodes sn and en, in the
\* links of the others: next_right gets the half that does not touch the node
ReplaceLinks(t, e, sn, en, m0, m1) ==
  LET t1 == RedirectRight(t, e, {sn}, m1, 0)
      t2 == RedirectRight(t1, -e, {en}, -m0, 0)
      t3 == RedirectLeft(t2, e, {sn}, m0, 0)
  IN  RedirectLeft(t3, -e, {en}, -m1, 0)

NewEdgesSplit(e, i) ==
  LET old == edge[e]
      n == NewNode(Tables)
      m0 == NewEdge(Tables)
      m1 == m0 + 1
      first == [old EXCEPT !.end_node = n,
                           !.next_left = m1,
                           !.next_right = CASE @ = e -> m0 [] @ = -e -> -m1 [] OTHER -> @,
                           !.geom = CutBefore(@, i)]
      second == [old EXCEPT !.start_node = n,
                            !.next_right = -m0,
                            !.next_left = CASE @ = -e -> -m1 [] @ = e -> m0 [] OTHER -> @,
                            !.geom = CutAfter(@, i)]
      t1 == DeleteEdges(InsertNode(Tables, old.geom[i], Nowhere), {e})
      t2 == InsertEdge(InsertEdge(t1, first), second)
      t3 == ReplaceLinks(t2, e, old.start_node, old.end_node, m0, m1)
  IN  /\ SplitsAt(e, i)
      /\ Finish(UpdateTopoGeomEdgeSplit(t3, e, m0, m1))

-----------------------------------------------------------------------------
(* Rings, and the split of a face by a new edge.                           *)

\* cb_getRingEdges: the darts met from d, until one is met again
Ring(t, d) ==
  LET walk[i \in 1 .. Cardinality(Darts(t)) + 1] ==
        IF i = 1 THEN <<d>>
        ELSE LET w == walk[i - 1]
                 next == NextDart(t, Last(w))
             IN  IF next \in Range(w) THEN w ELSE Append(w, next)
  IN  walk[Cardinality(Darts(t)) + 1]

RingCloses(t, ring) == NextDart(t, Last(ring)) = Head(ring)

\* _lwt_MakeRingShell
RingShell(t, ring) ==
  LET shell[i \in 1 .. Len(ring)] ==
        IF i = 1 THEN Path(t, ring[1]) ELSE Join(shell[i - 1], Path(t, ring[i]))
  IN  shell[Len(ring)]

\* Faulty: holes and islands stay behind
MoveRingSides(t, ring, shell, f, g, outside) ==
  [t EXCEPT !.edge = [e \in DOMAIN t.edge |->
     [t.edge[e] EXCEPT !.face_left = IF e \in Range(ring) THEN g ELSE @,
                       !.face_right = IF -e \in Range(ring) THEN g ELSE @]]]

Moves(shell, p, outside) == Inside(shell, p) # outside

\* newface.mbr, the box of what is looked at: none when the new face is outside the ring
Meets(t, g, outside, box) == outside \/ BoxesMeet(t.face[g], box)

\* The edge sides of face f that fall in the new face g: on the ring those that were
\* walked, off it those of the edges that are in the shell
MoveSides(t, ring, shell, f, g, outside) ==
  LET found(d) == /\ Abs(d) \in GetEdgeByFace(t, f)
                  /\ Meets(t, g, outside, Box(Points(t.edge[Abs(d)].geom)))
      taken(d) == found(d) /\ IF {d, -d} \cap Range(ring) # {} THEN d \in Range(ring)
                              ELSE /\ SideFace(t, d) = f
                                   /\ Moves(shell, InteriorPoint(t.edge[Abs(d)].geom), outside)
  IN  [t EXCEPT !.edge = [e \in DOMAIN t.edge |->
         [t.edge[e] EXCEPT !.face_left = IF taken(e) THEN g ELSE @,
                           !.face_right = IF taken(-e) THEN g ELSE @]]]

\* The isolated nodes of face f that fall in the new face g
MoveNodes(t, shell, f, g, outside) ==
  SetContainingFace(t, {n \in GetNodeByFace(t, f) :
                          /\ Meets(t, g, outside, Box({t.node[n].geom}))
                          /\ Moves(shell, t.node[n].geom, outside)}, g)

(***************************************************************************)
(* _lwt_AddFaceSplit: walk the ring of dart d; when it does not come back  *)
(* along -d it splits face f.  ret is the new face, 0 when there is no     *)
(* ring, -1 when the side of d keeps the old face.                         *)
(***************************************************************************)
AddFaceSplit(t, d, f, mbrOnly) ==
  LET ring == Ring(t, d)
      shell == RingShell(t, ring)
      ccw == IsCCW(shell)
      box == Box(Range(shell))
      outside == f # Universe /\ ~ccw
      g == NewFace(t)
      grown == InsertFace(t, IF outside THEN t.face[f] ELSE box)
  IN  IF t.err # "done" THEN [t |-> t, ret |-> 0]
      ELSE IF ~RingCloses(t, ring) THEN [t |-> Fail(t, "corrupted topology"), ret |-> 0]
      ELSE IF -d \in Range(ring) THEN [t |-> t, ret |-> 0]
      ELSE IF Head(shell) # Last(shell) THEN [t |-> Fail(t, "corrupted topology"), ret |-> 0]
      ELSE IF f = Universe /\ ~ccw THEN [t |-> t, ret |-> -1]
      ELSE IF mbrOnly /\ f # Universe
      THEN [t |-> IF ccw THEN [t EXCEPT !.face[f] = box] ELSE t, ret |-> -1]
      ELSE [t |-> MoveNodes(MoveSides(grown, ring, shell, f, g, outside),
                            shell, f, g, outside),
            ret |-> g]

-----------------------------------------------------------------------------
(* _lwt_AddEdge: a new edge between two nodes, in the face they share.     *)

\* The link of a dart to the next end in one direction, or back to the edge itself
Linked(found, other, own, alone) ==
  IF ~found THEN alone ELSE IF other = 0 THEN own ELSE other

NewEdgeLinks(id, closed, span, epan) ==
  [next_right |-> Linked(span.found, span.nextCW, -id, IF closed THEN -id ELSE id),
   prev_left |-> Linked(span.found, -span.nextCCW, id, IF closed THEN id ELSE -id),
   next_left |-> Linked(epan.found, epan.nextCW, id, IF closed THEN id ELSE -id),
   prev_right |-> Linked(epan.found, -epan.nextCCW, -id, IF closed THEN -id ELSE id)]

\* Faulty: sides not swapped at the end node
NewEdgeFaceOneWay(isoFaces, span, epan) ==
  LET known == IF isoFaces = {} THEN Nowhere ELSE CHOOSE f \in isoFaces : TRUE
      right == IF span.found /\ span.cwFace # Nowhere THEN span.cwFace ELSE known
      left == IF span.found /\ span.ccwFace # Nowhere THEN span.ccwFace ELSE known
  IN  [face |-> IF left = Nowhere THEN epan.ccwFace ELSE left,
       corrupt |-> \/ left # right
                   \/ epan.found /\ right \notin {Nowhere, epan.cwFace}
                   \/ epan.found /\ left \notin {Nowhere, epan.ccwFace}]

(***************************************************************************)
(* The face of the new edge: that of its isolated end nodes, or the faces  *)
(* the adjacent edges name.  corrupt when they do not agree.               *)
(***************************************************************************)
NewEdgeFace(isoFaces, span, epan) ==
  LET Default(f, g) == IF f = Nowhere THEN g ELSE f
      known == IF isoFaces = {} THEN Nowhere ELSE CHOOSE f \in isoFaces : TRUE
      right1 == IF span.found THEN Default(known, span.cwFace) ELSE known
      left1 == IF span.found THEN Default(known, span.ccwFace) ELSE known
      right == IF epan.found THEN Default(right1, span.ccwFace) ELSE right1
      left == IF epan.found THEN Default(left1, span.cwFace) ELSE left1
      conflict == \/ epan.found /\ right1 # Nowhere /\ right1 # epan.ccwFace
                  \/ epan.found /\ left1 # Nowhere /\ left1 # epan.cwFace
  IN  [face |-> left,
       corrupt |-> \/ span.corrupt \/ epan.corrupt \/ conflict
                   \/ left # right \/ left = Nowhere]

\* Faulty: the neighbours do not link to the new edge
LinkToNever(t, prev, d) == t

LinkTo(t, prev, d) == IF Abs(prev) = Abs(d) THEN t ELSE SetNext(t, prev, d)

InsertLinkedEdge(t, sn, en, c, f, span, epan) ==
  LET id == NewEdge(t)
      links == NewEdgeLinks(id, sn = en, span, epan)
      t1 == InsertEdge(t, [start_node |-> sn, end_node |-> en,
                           next_left |-> links.next_left, next_right |-> links.next_right,
                           face_left |-> f, face_right |-> f, geom |-> c])
      t2 == LinkTo(LinkTo(t1, links.prev_left, id), links.prev_right, -id)
      alone == (IF span.found THEN {} ELSE {sn}) \cup (IF epan.found THEN {} ELSE {en})
  IN  SetContainingFace(t2, alone, Nowhere)

BothSides(first, second) == [t |-> second.t, first |-> first.ret, second |-> second.ret]

\* The other side of the new edge, unless the first has no ring of its own
ThenOtherSide(first, d, f, modFace) ==
  IF first.ret = 0 THEN [t |-> first.t, first |-> 0, second |-> 0]
  ELSE BothSides(first, AddFaceSplit(first.t, d, f, modFace /\ first.ret > 0))

AddFaceSplits(t, d, f, modFace) ==
  ThenOtherSide(AddFaceSplit(t, d, f, FALSE), -d, f, modFace)

NewOf(split) == IF split.first > 0 THEN split.first ELSE split.second

\* ST_AddEdgeNewFaces: two new faces replace face f.  ST_AddEdgeModFace: one new face, on
\* the left if possible; f keeps the rest.  A side is on the ring of the other or neither is, so
\* that both returned 0 or none did
ReplaceFace(split, f, modFace) ==
  IF 0 \in {split.first, split.second} \/ NewOf(split) < 0 \/ f = Universe THEN split.t
  ELSE IF modFace THEN UpdateTopoGeomFaceSplit(split.t, f, NewOf(split), -1)
  ELSE DeleteFaces(UpdateTopoGeomFaceSplit(split.t, f, split.second, split.first), {f})

SplitFace(t, id, f, modFace) ==
  ReplaceFace(AddFaceSplits(t, IF modFace THEN id ELSE -id, f, modFace), f, modFace)

\* The edge ends around both ends of the new edge
EndsAround(t, sn, en, c) ==
  [span |-> FindAdjacentEdges(t, sn, FirstAzimuth(c),
                              IF sn = en THEN LastAzimuth(c) ELSE NoAzimuth, 0),
   epan |-> FindAdjacentEdges(t, en, LastAzimuth(c),
                              IF sn = en THEN FirstAzimuth(c) ELSE NoAzimuth, 0)]

IsoFaces(t, N) == {t.node[n].containing_face : n \in N} \ {Nowhere}

CanDrawEdge(t, sn, en, c) ==
  IsSimple(c) /\ EndsAtNodes(t, sn, en, c) /\ CheckEdgeCrossing(t, sn, en, c, 0)

CanAddEdge(t, sn, en, c) ==
  /\ CanDrawEdge(t, sn, en, c)
  /\ Cardinality(IsoFaces(t, {sn, en})) <= 1      \* else "geometry crosses an edge"

AddedEdge(t, sn, en, c, ends, modFace) ==
  LET side == NewEdgeFace(IsoFaces(t, {sn, en}), ends.span, ends.epan)
      added == InsertLinkedEdge(t, sn, en, c, side.face, ends.span, ends.epan)
      dangling == sn # en /\ ~(ends.span.found /\ ends.epan.found)
  IN  IF side.corrupt THEN Fail(t, "corrupted topology")
      ELSE IF dangling THEN added
      ELSE SplitFace(added, NewEdge(t), side.face, modFace)

AddEdge(sn, en, c, modFace) ==
  /\ CanAddEdge(Tables, sn, en, c)
  /\ \E ends \in {EndsAround(Tables, sn, en, c)} :
       Finish(AddedEdge(Tables, sn, en, c, ends, modFace))

AddEdgeNewFaces(sn, en, c) == AddEdge(sn, en, c, FALSE)
AddEdgeModFace(sn, en, c) == AddEdge(sn, en, c, TRUE)

-----------------------------------------------------------------------------
(* ST_ChangeEdgeGeom: the same edge along another curve.                   *)

\* Faulty: the box of the new curve is forgotten
MotionIsFreeOfOldBox(e, c) ==
  LET old == edge[e].geom
  IN  \A n \in GetNodeWithinBox(Tables, Box(Points(old))) :
        n \in {edge[e].start_node, edge[e].end_node}
          \/ (Inside(old, node[n].geom) <=> Inside(c, node[n].geom))

\* No other node lies between the two curves
MotionIsFree(e, c) ==
  LET old == edge[e].geom
      range == Box(Points(old) \cup Points(c))
  IN  \A n \in GetNodeWithinBox(Tables, range) \ {edge[e].start_node, edge[e].end_node} :
        Inside(old, node[n].geom) <=> Inside(c, node[n].geom)

\* The edges next to e around its two ends, if e had curve c
Disposition(e, c) ==
  LET closed == edge[e].start_node = edge[e].end_node
      span == FindAdjacentEdges(Tables, edge[e].start_node, FirstAzimuth(c),
                                IF closed THEN LastAzimuth(c) ELSE NoAzimuth, e)
      epan == FindAdjacentEdges(Tables, edge[e].end_node, LastAzimuth(c),
                                IF closed THEN FirstAzimuth(c) ELSE NoAzimuth, e)
  IN  <<span.nextCW, span.nextCCW, epan.nextCW, epan.nextCCW>>

\* lwt_GetFaceGeometry: the polygon built from the edges with f on one side only
FaceBoundary(t, f) ==
  {e \in GetEdgeByFace(t, f) : t.edge[e].face_left # t.edge[e].face_right}
FaceBox(t, f) == Box(UNION {Points(t.edge[e].geom) : e \in FaceBoundary(t, f)})

\* Faulty: the boxes stay as they were
UpdateFaceBoxesNever(t, F) == t

UpdateFaceBoxes(t, F) ==
  IF \E f \in F : f \notin DOMAIN t.face \/ FaceBoundary(t, f) = {}
  THEN Fail(t, "corrupted topology")
  ELSE [t EXCEPT !.face = [f \in DOMAIN t.face |-> IF f \in F THEN FaceBox(t, f) ELSE t.face[f]]]

ChangeEdgeGeom(e, c) ==
  LET old == edge[e]
      t1 == [Tables EXCEPT !.edge[e].geom = c]
      sides == {old.face_left, old.face_right} \ {Universe}
  IN  /\ StartPoint(c) = StartPoint(old.geom) /\ EndPoint(c) = EndPoint(old.geom)
      /\ old.start_node = old.end_node => IsCCW(c) = IsCCW(old.geom)
      /\ CheckEdgeCrossing(Tables, old.start_node, old.end_node, c, e)
      /\ MotionIsFree(e, c)
      /\ Disposition(e, c) = Disposition(e, old.geom)
      /\ Finish(IF Box(Points(old.geom)) = Box(Points(c)) THEN t1
                ELSE UpdateFaceBoxes(t1, sides))

-----------------------------------------------------------------------------
(* Removing an edge.                                                       *)

\* cb_checkTopoGeomRemIsoEdge, and the first half of cb_checkTopoGeomRemEdge
EdgeUnused(e) == Uses(Tables, 2, {e}) = {}

RemIsoEdge(e) ==
  LET r == edge[e]
      N == {r.start_node, r.end_node}
  IN  /\ r.face_left = r.face_right
      /\ IncidentEdges(Tables, N) = {e}
      /\ EdgeUnused(e)
      /\ Finish(SetContainingFace(DeleteEdges(Tables, {e}), N, r.face_left))

\* An areal TopoGeometry has both faces or neither
FacesHealable(f, g) ==
  \A tg \in TopoGeoms :
    LET used == {r.id : r \in {q \in relation : q.tg = tg /\ q.type = 3}} \cap {f, g}
    IN  used \in {{}, {f, g}}

\* Faulty: the end node is forgotten
LinkPastAtStart(t, e) ==
  LET old == t.edge[e]
      Skip(d) == CASE d = -e -> old.next_left [] d = e -> old.next_right [] OTHER -> d
  IN  [t EXCEPT !.edge = [x \in DOMAIN t.edge |->
         IF x \in IncidentEdges(t, {old.start_node}) \ {e}
         THEN [t.edge[x] EXCEPT !.next_left = Skip(@), !.next_right = Skip(@)]
         ELSE t.edge[x]]]

\* Around its nodes the neighbours of edge e link past it
LinkPast(t, e) ==
  LET old == t.edge[e]
      pastBack == IF old.next_left # e THEN old.next_left ELSE old.next_right
      past == IF old.next_right # -e THEN old.next_right ELSE old.next_left
      Skip(d) == CASE d = -e -> pastBack [] d = e -> past [] OTHER -> d
      near == IncidentEdges(t, {old.start_node, old.end_node}) \ {e}
  IN  [t EXCEPT !.edge = [x \in DOMAIN t.edge |->
         IF x \in near
         THEN [t.edge[x] EXCEPT !.next_left = Skip(@), !.next_right = Skip(@)]
         ELSE t.edge[x]]]

\* Faulty: face_right is forgotten
UpdateLeftFaceRef(t, F, new) ==
  SetContainingFace([t EXCEPT !.edge = [e \in DOMAIN t.edge |->
                       [t.edge[e] EXCEPT !.face_left = IF @ \in F THEN new ELSE @]]],
                    {n \in DOMAIN t.node : t.node[n].containing_face \in F}, new)

UpdateFaceRef(t, F, new) ==
  LET moved == [t EXCEPT !.edge = [e \in DOMAIN t.edge |->
        [t.edge[e] EXCEPT !.face_left = IF @ \in F THEN new ELSE @,
                          !.face_right = IF @ \in F THEN new ELSE @]]]
  IN  SetContainingFace(moved, {n \in DOMAIN t.node : t.node[n].containing_face \in F}, new)

UpdateTopoGeomFaceHeal(t, right, left, new) ==
  LET ofLeft == Uses(t, 3, {left})
      ofRight == Uses(t, 3, {right})
  IN  [t EXCEPT !.relation =
         IF new \in {left, right} THEN @ \ Uses(t, 3, {left, right} \ {new})
         ELSE (@ \ (ofRight \cup ofLeft)) \cup {[r EXCEPT !.id = new] : r \in ofLeft}]

\* The face that takes up both sides of edge e
HealFaces(t, e, modFace) ==
  LET left == t.edge[e].face_left
      right == t.edge[e].face_right
      real == Universe \notin {left, right}
      flood == CASE ~real -> Universe [] real /\ modFace -> right [] OTHER -> NewFace(t)
      box == BoxUnion(t.face[left], t.face[right])
      t1 == CASE ~real -> t
              [] real /\ modFace -> [t EXCEPT !.face[right] = box]
              [] OTHER -> InsertFace(t, box)
      t2 == UpdateFaceRef(t1, {left, right} \ {flood, Nowhere}, flood)   \* NULL equals nothing
  IN  IF left = right THEN [t |-> t, flood |-> right, gone |-> {}]
      ELSE IF real /\ ~({left, right} \subseteq DOMAIN t.face)
      THEN [t |-> Fail(t, "corrupted topology"), flood |-> right, gone |-> {}]
      ELSE [t |-> UpdateTopoGeomFaceHeal(t2, right, left, flood), flood |-> flood,
            gone |-> {left, right} \ {flood}]

RemEdge(e, modFace) ==
  LET old == edge[e]
      healed == HealFaces(LinkPast(Tables, e), e, modFace)
      t1 == DeleteEdges(healed.t, {e})
      bare == {n \in {old.start_node, old.end_node} : IncidentEdges(Tables, {n}) = {e}}
      t2 == SetContainingFace(t1, bare, healed.flood)
  IN  /\ EdgeUnused(e)
      /\ old.face_left # old.face_right => FacesHealable(old.face_left, old.face_right)
      /\ Finish(DeleteFaces(t2, healed.gone))

RemEdgeModFace(e) == RemEdge(e, TRUE)
RemEdgeNewFace(e) == RemEdge(e, FALSE)

-----------------------------------------------------------------------------
(* Healing two edges at the node only they share.                          *)

HealAt(e1, e2) ==
  LET Only(n) == IncidentEdges(Tables, {n}) = {e1, e2}
      atEnd == edge[e1].end_node \in {edge[e2].start_node, edge[e2].end_node}
               /\ Only(edge[e1].end_node)
      atStart == edge[e1].start_node \in {edge[e2].start_node, edge[e2].end_node}
                 /\ Only(edge[e1].start_node)
  IN  CASE atEnd -> edge[e1].end_node
        [] ~atEnd /\ atStart -> edge[e1].start_node
        [] OTHER -> Nowhere

\* Faulty: the second line is appended the way it was drawn
HealedGeomAsDrawn(t, first, last) == Join(Path(t, first), Path(t, Abs(last)))

HealedGeom(t, first, last) == Join(Path(t, first), Path(t, last))

\* The healed edge runs as e1 does; free1, free2: 1 if the edge ended at the common node
Healed(t, e1, e2, n) ==
  LET atEnd == t.edge[e1].end_node = n
      sameWay == IF atEnd THEN t.edge[e2].start_node = n ELSE t.edge[e2].end_node = n
      d2 == IF sameWay THEN e2 ELSE -e2      \* e2 walked in the direction of e1
      first == IF atEnd THEN e1 ELSE d2
      last == IF atEnd THEN d2 ELSE e1
  IN  [sign2 |-> IF sameWay THEN 1 ELSE -1,
       free1 |-> IF atEnd THEN 1 ELSE -1,
       free2 |-> IF t.edge[e2].end_node = n THEN 1 ELSE -1,
       edge |-> [t.edge[e1] EXCEPT
                   !.start_node = From(t, first), !.end_node = To(t, last),
                   !.next_left = NextDart(t, last), !.next_right = NextDart(t, -first),
                   !.geom = HealedGeom(t, first, last)]]

\* Faulty: next_right is forgotten
RenameDartOnLeft(t, old, new) ==
  [t EXCEPT !.edge = [x \in DOMAIN t.edge |->
     [t.edge[x] EXCEPT !.next_left = IF @ = old THEN new ELSE @]]]

RenameDart(t, old, new) ==
  [t EXCEPT !.edge = [x \in DOMAIN t.edge |->
     [t.edge[x] EXCEPT !.next_left = IF @ = old THEN new ELSE @,
                       !.next_right = IF @ = old THEN new ELSE @]]]

\* Faulty: rows go on naming the edges that are gone
UpdateTopoGeomEdgeHealNever(t, e1, e2, new) == t

UpdateTopoGeomEdgeHeal(t, e1, e2, new) ==
  LET kept == Uses(t, 2, {e1})
  IN  [t EXCEPT !.relation =
         IF new = e1 THEN @ \ Uses(t, 2, {e2})
         ELSE (@ \ Uses(t, 2, {e1, e2})) \cup {WithId(r, new) : r \in kept}]

\* A lineal TopoGeometry has both edges or neither, no puntal one has the node
NodeRemovable(n, e1, e2) ==
  /\ Uses(Tables, 1, {n}) = {}
  /\ \A tg \in TopoGeoms :
       {Abs(r.id) : r \in {q \in Uses(Tables, 2, {e1, e2}) : q.tg = tg}} \in {{}, {e1, e2}}

HealEdges(e1, e2, modEdge) ==
  LET n == HealAt(e1, e2)
      h == Healed(Tables, e1, e2, n)
      id == IF modEdge THEN e1 ELSE NewEdge(Tables)
      t1 == IF modEdge THEN [Tables EXCEPT !.edge[e1] = h.edge]
                       ELSE InsertEdge(Tables, h.edge)
      t2 == RenameDart(t1, h.free2 * e2, h.free2 * id * h.sign2)
      t3 == IF modEdge THEN t2 ELSE RenameDart(t2, h.free1 * e1, h.free1 * id)
      t4 == DeleteNode(DeleteEdges(t3, IF modEdge THEN {e2} ELSE {e1, e2}), n)
  IN  /\ e1 # e2
      /\ \A e \in {e1, e2} : edge[e].start_node # edge[e].end_node
      /\ n # Nowhere
      /\ NodeRemovable(n, e1, e2)
      /\ Finish(UpdateTopoGeomEdgeHeal(t4, e1, e2, id))

ModEdgeHeal(e1, e2) == HealEdges(e1, e2, TRUE)
NewEdgeHeal(e1, e2) == HealEdges(e1, e2, FALSE)

-----------------------------------------------------------------------------
(* TopoGeometries: CreateTopoGeom, clearTopoGeom, TopoGeom_addElement and  *)
(* TopoGeom_remElement.                                                    *)

Primitives(kind) ==
  CASE kind = 1 -> DOMAIN node [] kind = 2 -> DOMAIN edge [] kind = 3 -> DOMAIN face

Row(tg, i) == [tg |-> tg, type |-> Kind[tg], id |-> i]

CreateTopoGeom(tg, S) ==
  /\ S # {}
  /\ \A r \in relation : r.tg # tg
  /\ Finish([Tables EXCEPT !.relation = @ \cup {Row(tg, i) : i \in S}])

ClearTopoGeom(tg) ==
  /\ \E r \in relation : r.tg = tg
  /\ Finish([Tables EXCEPT !.relation = {r \in @ : r.tg # tg}])

\* An element that is there already is let go
AddElement(tg, i) ==
  /\ i \in Primitives(Kind[tg])
  /\ Finish([Tables EXCEPT !.relation = @ \cup {Row(tg, i)}])

RemElement(tg, i) == Finish([Tables EXCEPT !.relation = @ \ {Row(tg, i)}])

-----------------------------------------------------------------------------
None == [x \in {} |-> x]

Init ==
  /\ node = None /\ edge = None /\ face = None
  /\ relation = {}
  /\ seq = [node |-> 0, edge |-> 0, face |-> 0]
  /\ outcome = "done"

Next ==
  \/ \E p \in Sites : AddIsoNode(p)
  \/ \E n \in DOMAIN node, p \in Sites : MoveIsoNode(n, p)
  \/ \E n \in DOMAIN node : RemoveIsoNode(n)
  \/ \E sn, en \in DOMAIN node, c \in Curves : AddIsoEdge(sn, en, c)
  \/ \E sn, en \in DOMAIN node, c \in Curves : AddEdgeNewFaces(sn, en, c)
  \/ \E sn, en \in DOMAIN node, c \in Curves : AddEdgeModFace(sn, en, c)
  \/ \E e \in DOMAIN edge : \E i \in DOMAIN edge[e].geom : ModEdgeSplit(e, i)
  \/ \E e \in DOMAIN edge : \E i \in DOMAIN edge[e].geom : NewEdgesSplit(e, i)
  \/ \E e \in DOMAIN edge, c \in Curves : ChangeEdgeGeom(e, c)
  \/ \E e \in DOMAIN edge : RemIsoEdge(e)
  \/ \E e \in DOMAIN edge : RemEdgeModFace(e)
  \/ \E e \in DOMAIN edge : RemEdgeNewFace(e)
  \/ \E e1, e2 \in DOMAIN edge : ModEdgeHeal(e1, e2)
  \/ \E e1, e2 \in DOMAIN edge : NewEdgeHeal(e1, e2)
  \/ \E tg \in TopoGeoms : \E S \in SUBSET Primitives(Kind[tg]) : CreateTopoGeom(tg, S)
  \/ \E tg \in TopoGeoms : ClearTopoGeom(tg)
  \/ \E tg \in TopoGeoms : \E i \in Primitives(Kind[tg]) : AddElement(tg, i)
  \/ \E tg \in TopoGeoms : \E i \in Primitives(Kind[tg]) : RemElement(tg, i)

Spec == Init /\ [][Next]_vars
=============================================================================
