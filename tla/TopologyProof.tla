--------------------------- MODULE TopologyProof ---------------------------
(***************************************************************************)
(* Proofs about Topology for any curves, sites and TopoGeometries: the     *)
(* rows of relation name primitives that exist, and the drawing stays      *)
(* planar, whatever calls edit it.                                         *)
(*                                                                         *)
(* The links may be wrong (NewEdgesSplit leaves some that name an edge     *)
(* that is gone), so the invariant says nothing of them.  It holds of the  *)
(* tables as one record, so that the updates of a call can be followed     *)
(* one by one.                                                             *)
(***************************************************************************)
EXTENDS TopologyValid, TLAPS

-----------------------------------------------------------------------------
(* The invariant.                                                          *)

\* The columns of the tables
Shaped(t) ==
  /\ DOMAIN t = {"node", "edge", "face", "relation", "seq", "err"}
  /\ DOMAIN t.seq = {"node", "edge", "face"}
  /\ \A n \in DOMAIN t.node : DOMAIN t.node[n] = {"geom", "containing_face"}
  /\ \A e \in DOMAIN t.edge : DOMAIN t.edge[e] =
       {"start_node", "end_node", "next_left", "next_right", "face_left", "face_right", "geom"}

\* Ids were handed out by the sequences
Numbered(t) ==
  /\ t.seq.node \in Nat /\ t.seq.edge \in Nat /\ t.seq.face \in Nat
  /\ DOMAIN t.node \subseteq 1 .. t.seq.node
  /\ DOMAIN t.edge \subseteq 1 .. t.seq.edge
  /\ DOMAIN t.face \subseteq 1 .. t.seq.face

\* Nodes and edges refer to faces whose ids were handed out, or to none
Sided(t) ==
  /\ \A n \in DOMAIN t.node : t.node[n].containing_face \in -1 .. t.seq.face
  /\ \A e \in DOMAIN t.edge :
       t.edge[e].face_left \in -1 .. t.seq.face /\ t.edge[e].face_right \in -1 .. t.seq.face

\* A curve has two points or more, on the lattice, one beside the other
OnGrid(c) == c \in Seq(LatticePoints) /\ IsCurve(c)

\* Edges are curves between nodes
Drawn(t) ==
  /\ \A n \in DOMAIN t.node : t.node[n].geom \in Int \X Int
  /\ \A e \in DOMAIN t.edge :
       /\ t.edge[e].start_node \in DOMAIN t.node /\ t.edge[e].end_node \in DOMAIN t.node
       /\ OnGrid(t.edge[e].geom)
       /\ EndsAtNodes(t, t.edge[e].start_node, t.edge[e].end_node, t.edge[e].geom)

\* A node that an edge touches has no face of its own
Anchored(t) ==
  \A e \in DOMAIN t.edge :
    /\ t.node[t.edge[e].start_node].containing_face = Nowhere
    /\ t.node[t.edge[e].end_node].containing_face = Nowhere

\* The primitive a row names is there; a row may name an edge against its direction
Names(t, r) ==
  \/ r.type = 1 /\ r.id \in DOMAIN t.node
  \/ r.type = 2 /\ r.id \in Int /\ Abs(r.id) \in DOMAIN t.edge
  \/ r.type = 3 /\ r.id \in DOMAIN t.face
Named(t) ==
  \A r \in t.relation : DOMAIN r = {"tg", "type", "id"} /\ r.type = Kind[r.tg] /\ Names(t, r)

Base(t) == Shaped(t) /\ Numbered(t) /\ Sided(t) /\ Drawn(t)
Sound(t) == Base(t) /\ Anchored(t) /\ Named(t)

\* No two nodes are in one place, no edge meets itself, another or another's node
Apart(t) ==
  /\ \A m, n \in DOMAIN t.node : t.node[m].geom = t.node[n].geom => m = n
  /\ \A e \in DOMAIN t.edge : IsSimple(t.edge[e].geom)
  /\ \A e \in DOMAIN t.edge :
       CheckEdgeCrossing(t, t.edge[e].start_node, t.edge[e].end_node, t.edge[e].geom, e)

Inv == Sound(Tables)
PlanarInv == Inv /\ Apart(Tables)

-----------------------------------------------------------------------------
(* Updates that draw nothing: they change links, the faces that nodes and  *)
(* edges name, and the table of faces.                                     *)

SameDrawing(t, u) ==
  /\ Shaped(u)
  /\ Sided(u)
  /\ u.seq.node = t.seq.node /\ u.seq.edge = t.seq.edge
  /\ u.seq.face \in Nat /\ t.seq.face <= u.seq.face
  /\ DOMAIN u.face \subseteq 1 .. u.seq.face
  /\ DOMAIN u.node = DOMAIN t.node
  /\ \A n \in DOMAIN t.node : u.node[n].geom = t.node[n].geom
  /\ DOMAIN u.edge = DOMAIN t.edge
  /\ \A e \in DOMAIN t.edge : /\ u.edge[e].start_node = t.edge[e].start_node
                              /\ u.edge[e].end_node = t.edge[e].end_node
                              /\ u.edge[e].geom = t.edge[e].geom

\* Nodes without a face stay without
KeepsAnchors(t, u) ==
  \A n \in DOMAIN t.node :
    t.node[n].containing_face = Nowhere => u.node[n].containing_face = Nowhere

\* Tables that draw the same are as sound as before
LEMMA SameDrawingIsSound ==
  ASSUME NEW t, NEW u, Base(t), SameDrawing(t, u)
  PROVE  /\ Base(u)
         /\ Anchored(t) /\ KeepsAnchors(t, u) => Anchored(u)
         /\ Apart(t) => Apart(u)
<1>1. Base(u)
  BY DEF Base, SameDrawing, Numbered, Drawn, EndsAtNodes
<1>2. Anchored(t) /\ KeepsAnchors(t, u) => Anchored(u)
  BY DEF Base, SameDrawing, Drawn, Anchored, KeepsAnchors
<1>3. Apart(t) => Apart(u)
  BY DEF SameDrawing, Apart, CheckEdgeCrossing
<1> QED
  BY <1>1, <1>2, <1>3

\* Updates that draw nothing compose
LEMMA SameDrawingComposes ==
  ASSUME NEW t, NEW u, NEW v, t.seq.face \in Nat, SameDrawing(t, u), SameDrawing(u, v)
  PROVE  /\ SameDrawing(t, v)
         /\ KeepsAnchors(t, u) /\ KeepsAnchors(u, v) => KeepsAnchors(t, v)
BY DEF SameDrawing, KeepsAnchors

\* Rows go on naming primitives while none of those goes
LEMMA NamesStay ==
  ASSUME NEW t, NEW u, Named(t), u.relation = t.relation,
         DOMAIN t.node \subseteq DOMAIN u.node, DOMAIN t.edge \subseteq DOMAIN u.edge,
         DOMAIN t.face \subseteq DOMAIN u.face
  PROVE  Named(u)
BY DEF Named, Names

\* Only next_left and next_right differ
LinksOnly(t, u) ==
  /\ Shaped(u)
  /\ u.node = t.node /\ u.face = t.face /\ u.relation = t.relation
  /\ u.seq = t.seq /\ u.err = t.err
  /\ DOMAIN u.edge = DOMAIN t.edge
  /\ \A e \in DOMAIN t.edge : /\ u.edge[e].start_node = t.edge[e].start_node
                              /\ u.edge[e].end_node = t.edge[e].end_node
                              /\ u.edge[e].face_left = t.edge[e].face_left
                              /\ u.edge[e].face_right = t.edge[e].face_right
                              /\ u.edge[e].geom = t.edge[e].geom

\* Links draw nothing
LEMMA LinksDrawNothing ==
  ASSUME NEW t, NEW u, Base(t), LinksOnly(t, u)
  PROVE  SameDrawing(t, u) /\ KeepsAnchors(t, u)
BY DEF Base, LinksOnly, SameDrawing, KeepsAnchors, Sided, Numbered

\* Two changes of links are one
LEMMA LinksOnlyComposes ==
  ASSUME NEW t, NEW u, NEW v, LinksOnly(t, u), LinksOnly(u, v)
  PROVE  LinksOnly(t, v)
BY DEF LinksOnly

\* The updates that split and add edges change links only
LEMMA RedirectLinksOnly ==
  ASSUME NEW t, Shaped(t), NEW old, NEW at, NEW new, NEW except
  PROVE  /\ LinksOnly(t, RedirectRight(t, old, at, new, except))
         /\ LinksOnly(t, RedirectLeft(t, old, at, new, except))
BY DEF Shaped, LinksOnly, RedirectRight, RedirectLeft

\* Tying a dart to the one before it changes links only
LEMMA LinkToLinksOnly ==
  ASSUME NEW t, Shaped(t), NEW prev, NEW d
  PROVE  LinksOnly(t, LinkTo(t, prev, d))
BY DEF Shaped, LinksOnly, LinkTo, SetNext

\* And so do those that remove and heal edges
LEMMA LinkPastLinksOnly ==
  ASSUME NEW t, Shaped(t), NEW e
  PROVE  LinksOnly(t, LinkPast(t, e))
BY DEF Shaped, LinksOnly, LinkPast

\* As does giving a dart another edge's name
LEMMA RenameDartLinksOnly ==
  ASSUME NEW t, Shaped(t), NEW old, NEW new
  PROVE  LinksOnly(t, RenameDart(t, old, new))
BY DEF Shaped, LinksOnly, RenameDart

-----------------------------------------------------------------------------
(* The edge ends around a node, and the face around a point.               *)

\* The points of a curve on the lattice
LEMMA GridFacts ==
  ASSUME NEW c, OnGrid(c)
  PROVE  /\ Len(c) \in Nat /\ Len(c) > 1 /\ DOMAIN c = 1 .. Len(c)
         /\ \A i \in 1 .. Len(c) : c[i] \in Int \X Int /\ c[i][1] \in Int /\ c[i][2] \in Int
         /\ \A i \in 1 .. Len(c) - 1 : c[i] # c[i + 1]
<1>1. c \in Seq(LatticePoints) /\ Len(c) > 1
  BY DEF OnGrid, IsCurve
<1>2. Len(c) \in Nat /\ DOMAIN c = 1 .. Len(c)
  BY <1>1
<1>3. \A i \in 1 .. Len(c) : c[i] \in Int \X Int
  BY <1>1, <1>2 DEF LatticePoints, Even
<1>4. \A i \in 1 .. Len(c) : c[i][1] \in Int /\ c[i][2] \in Int
  BY <1>3
<1>5. \A i \in 1 .. Len(c) - 1 : c[i] # c[i + 1]
  <2> SUFFICES ASSUME NEW i \in 1 .. Len(c) - 1, c[i] = c[i + 1] PROVE FALSE
    OBVIOUS
  <2>1. <<c[i + 1][1] - c[i][1], c[i + 1][2] - c[i][2]>>
          \in {<<2, 0>>, <<-2, 0>>, <<0, 2>>, <<0, -2>>}
    BY DEF OnGrid, IsCurve
  <2>2. c[i + 1][1] - c[i][1] = 0 /\ c[i + 1][2] - c[i][2] = 0
    BY <1>2, <1>4
  <2> QED
    BY <2>1, <2>2
<1> QED
  BY <1>1, <1>2, <1>3, <1>4, <1>5

\* Two points of the lattice are in one of eight directions from one another
LEMMA AzimuthIsKnown ==
  ASSUME NEW p \in Int \X Int, NEW q \in Int \X Int, p # q
  PROVE  Azimuth(p, q) \in 0 .. 7
<1>1. p[1] \in Int /\ p[2] \in Int /\ q[1] \in Int /\ q[2] \in Int
  OBVIOUS
<1>2. q[1] - p[1] # 0 \/ q[2] - p[2] # 0
  <2>1. p = <<p[1], p[2]>> /\ q = <<q[1], q[2]>>
    OBVIOUS
  <2> QED
    BY <1>1, <2>1
<1> QED
  BY <1>1, <1>2 DEF Azimuth

\* Both ends of a curve leave their points in a direction
LEMMA AzimuthsOfCurve ==
  ASSUME NEW c, OnGrid(c)
  PROVE  FirstAzimuth(c) \in 0 .. 7 /\ LastAzimuth(c) \in 0 .. 7
<1> DEFINE k == Len(c)
<1>1. /\ k \in Nat /\ k > 1
      /\ \A i \in 1 .. k : c[i] \in Int \X Int
      /\ \A i \in 1 .. k - 1 : c[i] # c[i + 1]
  BY GridFacts
<1>2. c[1] \in Int \X Int /\ c[2] \in Int \X Int /\ c[1] # c[2]
  BY <1>1
<1>3. k - 1 \in 1 .. k - 1 /\ k - 1 + 1 = k
  BY <1>1
<1>4. c[k] \in Int \X Int /\ c[k - 1] \in Int \X Int /\ c[k] # c[k - 1]
  BY <1>1, <1>3
<1> QED
  BY <1>2, <1>4, AzimuthIsKnown DEF FirstAzimuth, LastAzimuth

\* A turn between two azimuths is one of eight
LEMMA TurnIsKnown ==
  ASSUME NEW a \in Int, NEW b \in Int
  PROVE  ClockwiseTurn(a, b) \in 0 .. 7
BY DEF ClockwiseTurn

\* Of some turns one is the least and one the greatest
LEMMA TurnsAreBounded ==
  ASSUME NEW S, S # {}, NEW f, \A d \in S : f[d] \in 0 .. 7
  PROVE  /\ \E d \in S : \A o \in S : f[d] <= f[o]
         /\ \E d \in S : \A o \in S : f[d] >= f[o]
<1> DEFINE V == {f[d] : d \in S}
<1>1. V # {} /\ V \subseteq {0, 1, 2, 3, 4, 5, 6, 7}
  OBVIOUS
<1>2. \E v \in V : \A w \in V : v <= w
  <2> HIDE DEF V
  <2> SUFFICES ASSUME \A v \in V : \E w \in V : w < v PROVE FALSE
    BY <1>1
  <2>1. 0 \notin V
    BY <1>1
  <2>2. 1 \notin V
    BY <1>1, <2>1
  <2>3. 2 \notin V
    BY <1>1, <2>1, <2>2
  <2>4. 3 \notin V
    BY <1>1, <2>1, <2>2, <2>3
  <2>5. 4 \notin V
    BY <1>1, <2>1, <2>2, <2>3, <2>4
  <2>6. 5 \notin V
    BY <1>1, <2>1, <2>2, <2>3, <2>4, <2>5
  <2>7. 6 \notin V
    BY <1>1, <2>1, <2>2, <2>3, <2>4, <2>5, <2>6
  <2>8. 7 \notin V
    BY <1>1, <2>1, <2>2, <2>3, <2>4, <2>5, <2>6, <2>7
  <2> QED
    BY <1>1, <2>1, <2>2, <2>3, <2>4, <2>5, <2>6, <2>7, <2>8
<1>3. \E v \in V : \A w \in V : v >= w
  <2> HIDE DEF V
  <2> SUFFICES ASSUME \A v \in V : \E w \in V : w > v PROVE FALSE
    BY <1>1
  <2>1. 7 \notin V
    BY <1>1
  <2>2. 6 \notin V
    BY <1>1, <2>1
  <2>3. 5 \notin V
    BY <1>1, <2>1, <2>2
  <2>4. 4 \notin V
    BY <1>1, <2>1, <2>2, <2>3
  <2>5. 3 \notin V
    BY <1>1, <2>1, <2>2, <2>3, <2>4
  <2>6. 2 \notin V
    BY <1>1, <2>1, <2>2, <2>3, <2>4, <2>5
  <2>7. 1 \notin V
    BY <1>1, <2>1, <2>2, <2>3, <2>4, <2>5, <2>6
  <2>8. 0 \notin V
    BY <1>1, <2>1, <2>2, <2>3, <2>4, <2>5, <2>6, <2>7
  <2> QED
    BY <1>1, <2>1, <2>2, <2>3, <2>4, <2>5, <2>6, <2>7, <2>8
<1> QED
  BY <1>2, <1>3

\* The darts of a drawing leave nodes, in a direction, with a face on their left hand
LEMMA DartFacts ==
  ASSUME NEW t, Base(t), NEW d \in Darts(t)
  PROVE  /\ d \in Int /\ d # 0 /\ -d \in Darts(t) /\ Abs(d) \in DOMAIN t.edge
         /\ From(t, d) \in {t.edge[Abs(d)].start_node, t.edge[Abs(d)].end_node}
         /\ DartAzimuth(t, d) \in 0 .. 7
         /\ SideFace(t, d) \in -1 .. t.seq.face
<1>1. \A e \in DOMAIN t.edge : e \in Nat /\ e > 0
  BY DEF Base, Numbered
<1>2. d \in Int /\ d # 0 /\ -d \in Darts(t) /\ Abs(d) \in DOMAIN t.edge
  BY <1>1 DEF Darts, Abs
<1>3. From(t, d) \in {t.edge[Abs(d)].start_node, t.edge[Abs(d)].end_node}
  BY <1>2 DEF From, Abs
<1>4. DartAzimuth(t, d) \in 0 .. 7
  BY <1>2, AzimuthsOfCurve DEF DartAzimuth, Abs, Base, Drawn
<1>5. SideFace(t, d) \in -1 .. t.seq.face
  BY <1>2 DEF SideFace, Abs, Base, Sided
<1> QED
  BY <1>2, <1>3, <1>4, <1>5

\* The faces around an edge end are known, or there is none; edges found have their end there
LEMMA AdjacentEdgesFacts ==
  ASSUME NEW t, Base(t), NEW n, NEW myaz \in 0 .. 7, NEW other \in -1 .. 7, NEW myself
  PROVE  LET adj == FindAdjacentEdges(t, n, myaz, other, myself)
         IN  /\ adj.cwFace \in -1 .. t.seq.face
             /\ adj.ccwFace \in -1 .. t.seq.face
             /\ adj.found \in BOOLEAN
             /\ adj.found => \E e \in DOMAIN t.edge :
                               n \in {t.edge[e].start_node, t.edge[e].end_node}
<1> DEFINE star == {d \in Darts(t) : From(t, d) = n /\ Abs(d) # myself}
           Turn(d) == ClockwiseTurn(myaz, DartAzimuth(t, d))
           stop == ClockwiseTurn(myaz, other)
           near == IF other = NoAzimuth THEN star ELSE {d \in star : Turn(d) < stop}
           far == IF other = NoAzimuth THEN star ELSE {d \in star : Turn(d) > stop}
           cw == IF near = {} THEN 0
                 ELSE CHOOSE d \in near : \A o \in near : Turn(d) <= Turn(o)
           ccw == IF far = {} THEN 0
                  ELSE CHOOSE d \in far : \A o \in far : Turn(d) >= Turn(o)
           adj == FindAdjacentEdges(t, n, myaz, other, myself)
<1>1. \A d \in star : Turn(d) \in 0 .. 7
  BY DartFacts, TurnIsKnown
<1>2. near \subseteq star /\ far \subseteq star
  OBVIOUS
<1>3. near # {} => cw \in near
  <2> DEFINE f == [d \in near |-> Turn(d)]
  <2>1. SUFFICES ASSUME near # {} PROVE \E d \in near : \A o \in near : Turn(d) <= Turn(o)
    OBVIOUS
  <2>2. \A d \in near : f[d] \in 0 .. 7
    BY <1>1, <1>2
  <2>3. \E d \in near : \A o \in near : f[d] <= f[o]
    <3> HIDE DEF f, near
    <3> QED
      BY <2>1, <2>2, TurnsAreBounded
  <2> QED
    BY <2>3
<1>4. far # {} => ccw \in far
  <2> DEFINE f == [d \in far |-> Turn(d)]
  <2>1. SUFFICES ASSUME far # {} PROVE \E d \in far : \A o \in far : Turn(d) >= Turn(o)
    OBVIOUS
  <2>2. \A d \in far : f[d] \in 0 .. 7
    BY <1>1, <1>2
  <2>3. \E d \in far : \A o \in far : f[d] >= f[o]
    <3> HIDE DEF f, far
    <3> QED
      BY <2>1, <2>2, TurnsAreBounded
  <2> QED
    BY <2>3
<1>5. cw # 0 => cw \in Darts(t)
  BY <1>2, <1>3
<1>6. ccw # 0 => ccw \in Darts(t) /\ -ccw \in Darts(t)
  BY <1>2, <1>4, DartFacts
<1>7. adj.cwFace = IF cw = 0 THEN Nowhere ELSE SideFace(t, cw)
  BY DEF FindAdjacentEdges
<1>8. adj.ccwFace = IF ccw = 0 THEN Nowhere ELSE SideFace(t, -ccw)
  BY DEF FindAdjacentEdges
<1>9. adj.found = (star # {})
  BY DEF FindAdjacentEdges
<1>10. t.seq.face \in Nat
  BY DEF Base, Numbered
<1>11. adj.cwFace \in -1 .. t.seq.face
  <2> HIDE DEF cw, adj
  <2> QED
    BY <1>5, <1>7, <1>10, DartFacts DEF Nowhere
<1>12. adj.ccwFace \in -1 .. t.seq.face
  <2> HIDE DEF ccw, adj
  <2> QED
    BY <1>6, <1>8, <1>10, DartFacts DEF Nowhere
<1>13. ASSUME star # {}
       PROVE  \E e \in DOMAIN t.edge : n \in {t.edge[e].start_node, t.edge[e].end_node}
  BY <1>13, DartFacts
<1> QED
  BY <1>9, <1>11, <1>12, <1>13

\* A face that lookup returns is one whose id was handed out, or none
LEMMA FaceOfPointIsKnown ==
  ASSUME NEW t, Base(t), NEW p \in Int \X Int,
         \A e \in DOMAIN t.edge : p \notin Points(t.edge[e].geom),
         NEW f \in GetFaceContainingPoint(t, p)
  PROVE  f \in -1 .. t.seq.face
<1>1. t.seq.face \in Nat
  BY DEF Base, Numbered
<1>2. CASE DOMAIN t.edge = {}
  BY <1>1, <1>2 DEF GetFaceContainingPoint, Universe
<1>3. CASE DOMAIN t.edge # {}
  <2>1. PICK x \in GetClosestEdge(t, p) : f = FaceAtVertex(t, x[1], x[2], p)
    BY <1>3 DEF GetFaceContainingPoint
  <2> DEFINE e == x[1]
             i == x[2]
             r == t.edge[e]
             n == IF i = 1 THEN r.start_node ELSE r.end_node
             adj == FindAdjacentEdges(t, n, Azimuth(r.geom[i], p), NoAzimuth, 0)
  <2>2. e \in DOMAIN t.edge /\ i \in DOMAIN r.geom
    BY <2>1 DEF GetClosestEdge
  <2>3. r.geom[i] \in Int \X Int /\ r.geom[i] # p
    <3>1. OnGrid(r.geom)
      BY <2>2 DEF Base, Drawn
    <3>2. r.geom[i] \in Int \X Int
      BY <2>2, <3>1, GridFacts
    <3> QED
      BY <2>2, <3>2 DEF Points
  <2>4. Azimuth(r.geom[i], p) \in 0 .. 7
    BY <2>3, AzimuthIsKnown
  <2>5. adj.cwFace \in -1 .. t.seq.face
    <3>1. NoAzimuth \in -1 .. 7
      BY DEF NoAzimuth
    <3> QED
      BY <2>4, <3>1, AdjacentEdgesFacts
  <2>6. r.face_left \in -1 .. t.seq.face /\ r.face_right \in -1 .. t.seq.face
    BY <2>2 DEF Base, Sided
  <2>7. \/ f = Nowhere \/ f = adj.cwFace \/ f = r.face_left \/ f = r.face_right
    BY <2>1 DEF FaceAtVertex
  <2> QED
    BY <1>1, <2>5, <2>6, <2>7 DEF Nowhere
<1> QED
  BY <1>2, <1>3

-----------------------------------------------------------------------------
(* The updates of the tables.                                              *)

\* Nothing is drawn, moved or taken away: faces come, or get other edges and nodes
FacesOnly(t, u) ==
  /\ SameDrawing(t, u) /\ KeepsAnchors(t, u)
  /\ u.relation = t.relation
  /\ DOMAIN t.face \subseteq DOMAIN u.face

\* A change of faces keeps what is sound, and keeps the drawing planar
LEMMA FacesOnlyIsSound ==
  ASSUME NEW t, NEW u, Sound(t), FacesOnly(t, u)
  PROVE  Sound(u) /\ (Apart(t) => Apart(u))
BY SameDrawingIsSound, NamesStay DEF Sound, FacesOnly, SameDrawing

\* Two changes of faces are one
LEMMA FacesOnlyComposes ==
  ASSUME NEW t, NEW u, NEW v, Base(t), FacesOnly(t, u), FacesOnly(u, v)
  PROVE  FacesOnly(t, v)
BY SameDrawingComposes DEF FacesOnly, Base, Numbered

\* A change of links changes no more than one of faces may
LEMMA LinksAreFacesOnly ==
  ASSUME NEW t, NEW u, Base(t), LinksOnly(t, u)
  PROVE  FacesOnly(t, u)
BY LinksDrawNothing DEF FacesOnly, LinksOnly

\* A new face has the next number of its sequence, and nothing else changes
LEMMA InsertFaceFacts ==
  ASSUME NEW t, Base(t), NEW mbr
  PROVE  LET u == InsertFace(t, mbr)
         IN  /\ FacesOnly(t, u)
             /\ u.seq.face = t.seq.face + 1 /\ DOMAIN u.face = DOMAIN t.face \cup {u.seq.face}
             /\ u.node = t.node /\ u.edge = t.edge /\ u.err = t.err
             /\ u.face[u.seq.face] = mbr
<1> DEFINE u == InsertFace(t, mbr)
<1>1. /\ DOMAIN u = DOMAIN t /\ DOMAIN u.seq = DOMAIN t.seq
      /\ u.seq.node = t.seq.node /\ u.seq.edge = t.seq.edge /\ u.seq.face = t.seq.face + 1
      /\ DOMAIN u.face = DOMAIN t.face \cup {u.seq.face} /\ u.face[u.seq.face] = mbr
      /\ u.node = t.node /\ u.edge = t.edge /\ u.relation = t.relation /\ u.err = t.err
  BY DEF Base, Shaped, InsertFace, NewFace, With
<1> HIDE DEF u
<1>2. FacesOnly(t, u)
  BY <1>1 DEF Base, Shaped, Numbered, Sided, FacesOnly, SameDrawing, KeepsAnchors
<1> QED
  BY <1>1, <1>2 DEF u

\* Setting the containing face of some nodes leaves the drawing alone; it is a change of
\* faces only where all of them are isolated
LEMMA SetContainingFaceFacts ==
  ASSUME NEW t, Base(t), NEW N, NEW cf \in -1 .. t.seq.face
  PROVE  LET u == SetContainingFace(t, N, cf)
         IN  /\ SameDrawing(t, u)
             /\ u.edge = t.edge /\ u.face = t.face /\ u.relation = t.relation
             /\ u.seq = t.seq /\ u.err = t.err
             /\ \A n \in DOMAIN t.node : u.node[n].containing_face =
                  IF n \in N THEN cf ELSE t.node[n].containing_face
             /\ (\A n \in N \cap DOMAIN t.node : t.node[n].containing_face # Nowhere)
                  => FacesOnly(t, u)
<1> DEFINE u == SetContainingFace(t, N, cf)
<1>1. /\ DOMAIN u = DOMAIN t
      /\ u.edge = t.edge /\ u.face = t.face /\ u.relation = t.relation
      /\ u.seq = t.seq /\ u.err = t.err
      /\ DOMAIN u.node = DOMAIN t.node
      /\ \A n \in DOMAIN t.node :
           /\ DOMAIN u.node[n] = DOMAIN t.node[n]
           /\ u.node[n].geom = t.node[n].geom
           /\ u.node[n].containing_face = IF n \in N THEN cf ELSE t.node[n].containing_face
  BY DEF Base, Shaped, SetContainingFace
<1> HIDE DEF u
<1>2. SameDrawing(t, u)
  BY <1>1 DEF Base, Shaped, Numbered, Sided, SameDrawing
<1>3. (\A n \in N \cap DOMAIN t.node : t.node[n].containing_face # Nowhere) => FacesOnly(t, u)
  BY <1>1, <1>2 DEF FacesOnly, KeepsAnchors
<1> QED
  BY <1>1, <1>2, <1>3 DEF u

\* Sides that move from one face to another
LEMMA SidesAreFacesOnly ==
  ASSUME NEW t, Base(t), NEW u, DOMAIN u = DOMAIN t,
         u.node = t.node, u.face = t.face, u.relation = t.relation, u.seq = t.seq,
         DOMAIN u.edge = DOMAIN t.edge,
         \A e \in DOMAIN t.edge :
           /\ DOMAIN u.edge[e] = DOMAIN t.edge[e]
           /\ u.edge[e].start_node = t.edge[e].start_node
           /\ u.edge[e].end_node = t.edge[e].end_node
           /\ u.edge[e].geom = t.edge[e].geom
           /\ u.edge[e].face_left \in -1 .. t.seq.face
           /\ u.edge[e].face_right \in -1 .. t.seq.face
  PROVE  FacesOnly(t, u)
BY DEF Base, Shaped, Numbered, Sided, FacesOnly, SameDrawing, KeepsAnchors

\* Moving the sides of edges from one face to another is a change of faces
LEMMA MoveSidesFacts ==
  ASSUME NEW t, Base(t), NEW ring, NEW shell, NEW f, NEW g \in 0 .. t.seq.face, NEW outside
  PROVE  LET u == MoveSides(t, ring, shell, f, g, outside)
         IN  FacesOnly(t, u) /\ u.face = t.face /\ u.seq = t.seq
<1> DEFINE u == MoveSides(t, ring, shell, f, g, outside)
<1>1. /\ DOMAIN u = DOMAIN t
      /\ u.node = t.node /\ u.face = t.face /\ u.relation = t.relation /\ u.seq = t.seq
      /\ DOMAIN u.edge = DOMAIN t.edge
  BY DEF Base, Shaped, MoveSides
<1>2. \A e \in DOMAIN t.edge :
        /\ DOMAIN u.edge[e] = DOMAIN t.edge[e]
        /\ u.edge[e].start_node = t.edge[e].start_node
        /\ u.edge[e].end_node = t.edge[e].end_node
        /\ u.edge[e].geom = t.edge[e].geom
        /\ u.edge[e].face_left \in {g, t.edge[e].face_left}
        /\ u.edge[e].face_right \in {g, t.edge[e].face_right}
  BY DEF Base, Shaped, MoveSides
<1> HIDE DEF u
<1>3. \A e \in DOMAIN t.edge :
        u.edge[e].face_left \in -1 .. t.seq.face /\ u.edge[e].face_right \in -1 .. t.seq.face
  BY <1>2 DEF Base, Sided
<1>4. FacesOnly(t, u)
  BY <1>1, <1>2, <1>3, SidesAreFacesOnly
<1> QED
  BY <1>1, <1>4 DEF u

\* Moving isolated nodes from one face to another is a change of faces
LEMMA MoveNodesFacts ==
  ASSUME NEW t, Base(t), NEW shell, NEW f, f # Nowhere, NEW g \in 0 .. t.seq.face, NEW outside
  PROVE  LET u == MoveNodes(t, shell, f, g, outside)
         IN  FacesOnly(t, u) /\ u.face = t.face /\ u.seq = t.seq
<1> DEFINE N == {n \in GetNodeByFace(t, f) : /\ Meets(t, g, outside, Box({t.node[n].geom}))
                                         /\ Moves(shell, t.node[n].geom, outside)}
<1>1. \A n \in N \cap DOMAIN t.node : t.node[n].containing_face # Nowhere
  BY DEF GetNodeByFace
<1>2. g \in -1 .. t.seq.face
  BY DEF Base, Numbered
<1>3. MoveNodes(t, shell, f, g, outside) = SetContainingFace(t, N, g)
  BY DEF MoveNodes
<1> HIDE DEF N
<1> QED
  BY <1>1, <1>2, <1>3, SetContainingFaceFacts

\* A ring that splits a face adds one, and lets every primitive be
LEMMA AddFaceSplitFacts ==
  ASSUME NEW t, Base(t), NEW d, NEW f \in 0 .. t.seq.face, NEW mbrOnly \in BOOLEAN
  PROVE  LET s == AddFaceSplit(t, d, f, mbrOnly)
         IN  /\ FacesOnly(t, s.t)
             /\ \/ s.ret = 0
                \/ s.ret = -1 /\ (f = Universe \/ mbrOnly)
                \/ s.ret \in DOMAIN s.t.face /\ s.ret > t.seq.face
<1> DEFINE ring == Ring(t, d)
           shell == RingShell(t, ring)
           ccw == IsCCW(shell)
           box == Box(Range(shell))
           outside == f # Universe /\ ~ccw
           g == NewFace(t)
           grown == InsertFace(t, IF outside THEN t.face[f] ELSE box)
           moved == MoveSides(grown, ring, shell, f, g, outside)
           split == MoveNodes(moved, shell, f, g, outside)
           failed == Fail(t, "corrupted topology")
           boxed == [t EXCEPT !.face[f] = box]
           s == AddFaceSplit(t, d, f, mbrOnly)
<1> HIDE DEF ring, shell, ccw, box
<1>1. FacesOnly(t, t)
  BY DEF Base, Shaped, Numbered, Sided, FacesOnly, SameDrawing, KeepsAnchors
<1>2. FacesOnly(t, failed)
  BY DEF Fail, Base, Shaped, Numbered, Sided, FacesOnly, SameDrawing, KeepsAnchors
<1>3. FacesOnly(t, boxed)
  BY DEF Base, Shaped, Numbered, Sided, FacesOnly, SameDrawing, KeepsAnchors
<1>4. FacesOnly(t, split) /\ g \in DOMAIN split.face /\ g > t.seq.face
  <2>1. t.seq.face \in Nat /\ f # Nowhere
    BY DEF Base, Numbered, Nowhere
  <2>2. FacesOnly(t, grown) /\ g = grown.seq.face /\ g \in DOMAIN grown.face /\ g = t.seq.face + 1
    BY InsertFaceFacts DEF NewFace
  <2>3. Base(grown) /\ g \in 0 .. grown.seq.face
    <3> HIDE DEF grown, g
    <3> QED
      BY <2>1, <2>2, SameDrawingIsSound DEF FacesOnly
  <2>4. FacesOnly(grown, moved) /\ moved.face = grown.face /\ moved.seq = grown.seq
    <3> HIDE DEF grown, g, outside
    <3> QED
      BY <2>3, MoveSidesFacts
  <2>5. Base(moved) /\ g \in 0 .. moved.seq.face
    <3> HIDE DEF grown, g, moved
    <3> QED
      BY <2>3, <2>4, SameDrawingIsSound DEF FacesOnly
  <2>6. FacesOnly(moved, split) /\ split.face = moved.face
    <3> HIDE DEF grown, g, moved, outside
    <3> QED
      BY <2>1, <2>5, MoveNodesFacts
  <2> HIDE DEF grown, g, moved, split
  <2>7. FacesOnly(t, moved)
    BY <2>2, <2>4, FacesOnlyComposes
  <2>8. FacesOnly(t, split)
    BY <2>6, <2>7, FacesOnlyComposes
  <2> QED
    BY <2>1, <2>2, <2>4, <2>6, <2>8
<1>5. \/ s = [t |-> t, ret |-> 0]
      \/ s = [t |-> failed, ret |-> 0]
      \/ s = [t |-> t, ret |-> -1] /\ (f = Universe \/ mbrOnly)
      \/ s = [t |-> boxed, ret |-> -1] /\ mbrOnly
      \/ s = [t |-> split, ret |-> g]
  BY DEF AddFaceSplit, ring, shell, ccw, box
<1> HIDE DEF split, failed, boxed, g, s
<1>6. \/ s.t = t /\ s.ret = 0
      \/ s.t = failed /\ s.ret = 0
      \/ s.t = t /\ s.ret = -1 /\ (f = Universe \/ mbrOnly)
      \/ s.t = boxed /\ s.ret = -1 /\ mbrOnly
      \/ s.t = split /\ s.ret = g
  BY <1>5
<1> QED
  BY <1>1, <1>2, <1>3, <1>4, <1>6 DEF s

\* Both sides of a new edge: the faces that are added are new and differ from the old one
LEMMA AddFaceSplitsFacts ==
  ASSUME NEW t, Base(t), NEW d, NEW f \in 0 .. t.seq.face, NEW modFace \in BOOLEAN
  PROVE  LET s == AddFaceSplits(t, d, f, modFace)
             Ends(ret) == ret = 0 \/ ret = -1 \/ (ret \in DOMAIN s.t.face /\ ret > t.seq.face)
         IN  /\ FacesOnly(t, s.t)
             /\ Ends(s.first) /\ Ends(s.second)
             /\ -1 \in {s.first, s.second} => f = Universe \/ modFace
<1> DEFINE first == AddFaceSplit(t, d, f, FALSE)
           mbrOnly == modFace /\ first.ret > 0
           second == AddFaceSplit(first.t, -d, f, mbrOnly)
           s == AddFaceSplits(t, d, f, modFace)
<1>1. /\ FacesOnly(t, first.t)
      /\ \/ first.ret = 0
         \/ first.ret = -1 /\ f = Universe
         \/ first.ret \in DOMAIN first.t.face /\ first.ret > t.seq.face
  BY AddFaceSplitFacts
<1>2. Base(first.t) /\ f \in 0 .. first.t.seq.face /\ t.seq.face <= first.t.seq.face
  <2> HIDE DEF first
  <2> QED
    BY <1>1, SameDrawingIsSound DEF FacesOnly, SameDrawing, Base, Numbered
<1>3. mbrOnly \in BOOLEAN
  OBVIOUS
<1>4. /\ FacesOnly(first.t, second.t)
      /\ \/ second.ret = 0
         \/ second.ret = -1 /\ (f = Universe \/ mbrOnly)
         \/ second.ret \in DOMAIN second.t.face /\ second.ret > first.t.seq.face
  <2> HIDE DEF first, mbrOnly
  <2> QED
    BY <1>2, <1>3, AddFaceSplitFacts
<1>5. \/ s = [t |-> first.t, first |-> 0, second |-> 0]
      \/ s = [t |-> second.t, first |-> first.ret, second |-> second.ret]
  BY DEF AddFaceSplits, ThenOtherSide, BothSides
<1> HIDE DEF first, second, s
<1>6. \/ s.t = first.t /\ s.first = 0 /\ s.second = 0
      \/ s.t = second.t /\ s.first = first.ret /\ s.second = second.ret
  BY <1>5
<1>7. FacesOnly(t, second.t)
  BY <1>1, <1>4, FacesOnlyComposes
<1>8. /\ t.seq.face \in Nat /\ first.t.seq.face \in Nat
      /\ DOMAIN first.t.face \subseteq DOMAIN second.t.face
      /\ DOMAIN second.t.face \subseteq Nat
  BY <1>2, <1>4 DEF FacesOnly, SameDrawing, Base, Numbered
<1> QED
  BY <1>1, <1>2, <1>4, <1>6, <1>7, <1>8 DEF s

\* Rows and faces that change leave the drawing alone
LEMMA RowsDrawNothing ==
  ASSUME NEW t, Base(t), NEW u, DOMAIN u = DOMAIN t,
         u.node = t.node, u.edge = t.edge, u.seq = t.seq, DOMAIN u.face \subseteq DOMAIN t.face
  PROVE  SameDrawing(t, u) /\ KeepsAnchors(t, u)
BY DEF Base, Shaped, Numbered, Sided, SameDrawing, KeepsAnchors

\* Rows of the face that is split come to name the new ones
LEMMA FaceSplitKeepsNames ==
  ASSUME NEW t, Sound(t), NEW f, NEW g \in DOMAIN t.face, NEW h,
         h = -1 \/ h \in DOMAIN t.face, g # f, h # f
  PROVE  LET u == UpdateTopoGeomFaceSplit(t, f, g, h)
         IN  /\ Sound(u)
             /\ SameDrawing(t, u)
             /\ h # -1 => Sound(DeleteFaces(u, {f})) /\ SameDrawing(u, DeleteFaces(u, {f}))
<1> DEFINE u == UpdateTopoGeomFaceSplit(t, f, g, h)
           v == DeleteFaces(u, {f})
           rows == Uses(t, 3, {f})
           added == IF h = -1 THEN {g} ELSE {g, h}
<1>1. /\ DOMAIN u = DOMAIN t /\ u.node = t.node /\ u.edge = t.edge /\ u.seq = t.seq
      /\ u.face = t.face
      /\ u.relation = (t.relation \ (IF h = -1 THEN {} ELSE rows))
                        \cup {WithId(r, id) : r \in rows, id \in added}
  BY DEF Sound, Base, Shaped, UpdateTopoGeomFaceSplit
<1>2. /\ DOMAIN v = DOMAIN t /\ v.node = t.node /\ v.edge = t.edge /\ v.seq = t.seq
      /\ DOMAIN v.face = DOMAIN t.face \ {f} /\ v.relation = u.relation
  <2> HIDE DEF u
  <2> QED
    BY <1>1 DEF Sound, Base, Shaped, DeleteFaces, Without
<1>3. \A x \in DOMAIN t.face \cup DOMAIN t.node \cup DOMAIN t.edge : x \in Int /\ x > 0 /\ Abs(x) = x
  BY DEF Sound, Base, Numbered, Abs
<1>4. \A r \in t.relation : /\ DOMAIN r = {"tg", "type", "id"} /\ r.type = Kind[r.tg]
                            /\ Names(t, r)
                            /\ r.type = 3 => r.id \in Int /\ r.id > 0 /\ Abs(r.id) = r.id
  BY <1>3 DEF Sound, Named, Names
<1>5. \A r \in rows : r \in t.relation /\ r.type = 3 /\ r.id = f
  BY <1>4 DEF Uses
<1>6. \A r \in rows : \A id \in added :
        /\ DOMAIN WithId(r, id) = {"tg", "type", "id"}
        /\ WithId(r, id).tg = r.tg /\ WithId(r, id).type = 3 /\ WithId(r, id).id = id
        /\ id \in DOMAIN t.face \ {f}
  BY <1>4, <1>5 DEF WithId
<1>7. \A r \in t.relation \ rows : r.type = 3 => r.id # f
  BY <1>4 DEF Uses
<1> HIDE DEF u, v, rows, added
<1>8. Named(u)
  <2> SUFFICES ASSUME NEW r \in u.relation
               PROVE  DOMAIN r = {"tg", "type", "id"} /\ r.type = Kind[r.tg] /\ Names(u, r)
    BY DEF Named
  <2>1. CASE r \in t.relation
    BY <1>1, <1>4, <2>1 DEF Names
  <2>2. CASE \E q \in rows, id \in added : r = WithId(q, id)
    BY <1>1, <1>4, <1>5, <1>6, <2>2 DEF Names
  <2> QED
    BY <1>1, <2>1, <2>2
<1>9. ASSUME h # -1 PROVE Named(v)
  <2> SUFFICES ASSUME NEW r \in v.relation
               PROVE  DOMAIN r = {"tg", "type", "id"} /\ r.type = Kind[r.tg] /\ Names(v, r)
    BY DEF Named
  <2>1. CASE r \in t.relation \ rows
    BY <1>2, <1>4, <1>7, <2>1 DEF Names
  <2>2. CASE \E q \in rows, id \in added : r = WithId(q, id)
    BY <1>2, <1>4, <1>5, <1>6, <2>2 DEF Names
  <2> QED
    BY <1>1, <1>2, <1>9, <2>1, <2>2
<1>10. SameDrawing(t, u) /\ KeepsAnchors(t, u)
  BY <1>1, RowsDrawNothing DEF Sound
<1>11. Base(u) /\ Anchored(u)
  BY <1>10, SameDrawingIsSound DEF Sound
<1>12. SameDrawing(u, v) /\ KeepsAnchors(u, v)
  BY <1>1, <1>2, <1>11, RowsDrawNothing
<1> QED
  BY <1>8, <1>9, <1>10, <1>11, <1>12, SameDrawingIsSound DEF Sound, u, v

\* The split of a face by a new edge
LEMMA SplitFaceIsSound ==
  ASSUME NEW t, Sound(t), NEW id, NEW f \in 0 .. t.seq.face, NEW modFace \in BOOLEAN
  PROVE  LET u == SplitFace(t, id, f, modFace)
         IN  Sound(u) /\ SameDrawing(t, u)
<1> DEFINE d == IF modFace THEN id ELSE -id
           split == AddFaceSplits(t, d, f, modFace)
           new == IF split.first > 0 THEN split.first ELSE split.second
           u == SplitFace(t, id, f, modFace)
           more == UpdateTopoGeomFaceSplit(split.t, f, new, -1)
           instead == UpdateTopoGeomFaceSplit(split.t, f, split.second, split.first)
<1>1. Base(t) /\ t.seq.face \in Nat
  BY DEF Sound, Base, Numbered
<1> DEFINE Ends(ret) ==
             ret = 0 \/ ret = -1 \/ (ret \in DOMAIN split.t.face /\ ret > t.seq.face)
<1>2. /\ FacesOnly(t, split.t)
      /\ Ends(split.first) /\ Ends(split.second)
      /\ -1 \in {split.first, split.second} => f = Universe \/ modFace
  <2> HIDE DEF d
  <2> QED
    BY <1>1, AddFaceSplitsFacts
<1>3. Sound(split.t) /\ SameDrawing(t, split.t)
  <2> HIDE DEF split
  <2> QED
    BY <1>2, FacesOnlyIsSound DEF FacesOnly
<1>4. \/ u = split.t
      \/ 0 \notin {split.first, split.second} /\ new >= 0 /\ modFace /\ u = more
      \/ 0 \notin {split.first, split.second} /\ f # Universe /\ ~modFace
         /\ u = DeleteFaces(instead, {f})
  <2> HIDE DEF split, more, instead
  <2>1. split.first \in Int /\ split.second \in Int
    BY <1>1, <1>2, <1>3 DEF Sound, Base, Numbered
  <2> QED
    BY <2>1 DEF SplitFace, ReplaceFace, NewOf, split, more, instead
<1> HIDE DEF split, u
<1>5. CASE u = split.t
  BY <1>3, <1>5 DEF u
<1>6. CASE 0 \notin {split.first, split.second} /\ new >= 0 /\ modFace /\ u = more
  <2>1. new \in DOMAIN split.t.face /\ new > t.seq.face
    BY <1>1, <1>2, <1>6
  <2>2. new # f /\ -1 # f
    <3> HIDE DEF new
    <3> QED
      BY <1>1, <2>1
  <2>3. Sound(more) /\ SameDrawing(split.t, more)
    <3> HIDE DEF new
    <3> QED
      BY <1>3, <2>1, <2>2, FaceSplitKeepsNames
  <2> HIDE DEF more
  <2>4. SameDrawing(t, more)
    BY <1>1, <1>3, <2>3, SameDrawingComposes
  <2> QED
    BY <1>6, <2>3, <2>4 DEF u
<1>7. CASE /\ 0 \notin {split.first, split.second} /\ f # Universe /\ ~modFace
           /\ u = DeleteFaces(instead, {f})
  <2>1. /\ split.first \in DOMAIN split.t.face /\ split.first > t.seq.face
        /\ split.second \in DOMAIN split.t.face /\ split.second > t.seq.face
    BY <1>2, <1>7
  <2>2. split.first # -1 /\ split.first # f /\ split.second # f
    BY <1>1, <2>1
  <2>3. /\ Sound(instead) /\ SameDrawing(split.t, instead)
        /\ Sound(u) /\ SameDrawing(instead, u)
    BY <1>3, <1>7, <2>1, <2>2, FaceSplitKeepsNames
  <2> HIDE DEF instead
  <2>4. split.t.seq.face \in Nat /\ SameDrawing(split.t, u)
    BY <1>3, <2>3, SameDrawingComposes DEF Sound, Base, Numbered
  <2>5. SameDrawing(t, u)
    BY <1>1, <1>3, <2>4, SameDrawingComposes
  <2> QED
    BY <2>3, <2>5 DEF u
<1> QED
  BY <1>4, <1>5, <1>6, <1>7

-----------------------------------------------------------------------------
(* The calls.                                                              *)

\* A call that commits sound tables keeps the invariant, and one that fails keeps it too
LEMMA FinishKeepsInv ==
  ASSUME Inv, NEW t, Finish(t),
         t.err = "done" => Sound(t) /\ (Apart(Tables) => Apart(t))
  PROVE  Inv' /\ (Apart(Tables) => Apart(Tables)')
<1>1. CASE t.err = "done"
  <2>1. Store(t)
    BY <1>1 DEF Finish
  <2>2. Inv'
    BY <1>1, <2>1
    DEF Store, Inv, Tables, Sound, Base, Shaped, Numbered, Sided, Drawn, EndsAtNodes, Anchored,
        Named, Names
  <2>3. Apart(t) => Apart(Tables)'
    BY <2>1 DEF Store, Tables, Apart, CheckEdgeCrossing
  <2> QED
    BY <1>1, <2>2, <2>3
<1>2. CASE t.err # "done"
  <2>1. UNCHANGED <<node, edge, face, relation, seq>>
    BY <1>2 DEF Finish
  <2> QED
    BY <2>1
    DEF Inv, Tables, Sound, Base, Shaped, Numbered, Sided, Drawn, EndsAtNodes, Anchored,
        Named, Names, Apart, CheckEdgeCrossing
<1> QED
  BY <1>1, <1>2

\* The tables as they are
LEMMA TablesFacts ==
  /\ Tables.node = node /\ Tables.edge = edge /\ Tables.face = face
  /\ Tables.relation = relation /\ Tables.seq = seq /\ Tables.err = "done"
BY DEF Tables

\* A failed update has another outcome
LEMMA FailIsNotDone ==
  ASSUME NEW t, Shaped(t), NEW why, why # "done"
  PROVE  Fail(t, why).err # "done"
BY DEF Fail, Shaped

\* A new node
LEMMA InsertNodeFacts ==
  ASSUME NEW t, Sound(t), NEW p \in Int \X Int, NEW cf \in -1 .. t.seq.face
  PROVE  LET u == InsertNode(t, p, cf)
         IN  /\ Sound(u)
             /\ Apart(t) /\ (\A n \in DOMAIN t.node : t.node[n].geom # p)
                         /\ (\A e \in DOMAIN t.edge : p \notin Points(t.edge[e].geom))
                  => Apart(u)
<1> DEFINE u == InsertNode(t, p, cf)
           id == t.seq.node + 1
<1>1. /\ DOMAIN u = DOMAIN t /\ DOMAIN u.seq = DOMAIN t.seq
      /\ u.seq.node = id /\ u.seq.edge = t.seq.edge /\ u.seq.face = t.seq.face
      /\ DOMAIN u.node = DOMAIN t.node \cup {id}
      /\ u.node[id] = [geom |-> p, containing_face |-> cf]
      /\ \A n \in DOMAIN t.node \ {id} : u.node[n] = t.node[n]
      /\ u.edge = t.edge /\ u.face = t.face /\ u.relation = t.relation
  BY DEF Sound, Base, Shaped, InsertNode, NewNode, With
<1>2. id \notin DOMAIN t.node
  BY DEF Sound, Base, Numbered
<1> HIDE DEF u
<1>3. Shaped(u) /\ Numbered(u) /\ Sided(u)
  BY <1>1, <1>2 DEF Sound, Base, Shaped, Numbered, Sided
<1>4. Drawn(u) /\ Anchored(u)
  BY <1>1, <1>2 DEF Sound, Base, Drawn, EndsAtNodes, Anchored
<1>5. Named(u)
  BY <1>1, NamesStay DEF Sound
<1>6. ASSUME Apart(t), \A n \in DOMAIN t.node : t.node[n].geom # p,
             \A e \in DOMAIN t.edge : p \notin Points(t.edge[e].geom)
      PROVE  Apart(u)
  BY <1>1, <1>2, <1>6 DEF Apart, CheckEdgeCrossing
<1> QED
  BY <1>3, <1>4, <1>5, <1>6 DEF Sound, Base, u

\* A new edge between two nodes
LEMMA InsertEdgeFacts ==
  ASSUME NEW t, Base(t), NEW sn \in DOMAIN t.node, NEW en \in DOMAIN t.node, NEW c,
         OnGrid(c), EndsAtNodes(t, sn, en, c),
         NEW r, r.start_node = sn, r.end_node = en, r.geom = c,
         r.face_left \in -1 .. t.seq.face, r.face_right \in -1 .. t.seq.face,
         DOMAIN r = {"start_node", "end_node", "next_left", "next_right",
                     "face_left", "face_right", "geom"}
  PROVE  LET u == InsertEdge(t, r)
             id == t.seq.edge + 1
         IN  /\ Base(u) /\ (Named(t) => Named(u))
             /\ Apart(t) /\ IsSimple(c) /\ CheckEdgeCrossing(t, sn, en, c, 0) => Apart(u)
             /\ u.node = t.node /\ u.face = t.face /\ u.relation = t.relation
             /\ u.seq.face = t.seq.face /\ u.seq.edge = id /\ u.err = t.err
             /\ DOMAIN u.edge = DOMAIN t.edge \cup {id} /\ id \notin DOMAIN t.edge
             /\ u.edge[id] = r /\ \A e \in DOMAIN t.edge : u.edge[e] = t.edge[e]
<1> DEFINE u == InsertEdge(t, r)
           id == t.seq.edge + 1
<1>1. /\ DOMAIN u = DOMAIN t /\ DOMAIN u.seq = DOMAIN t.seq
      /\ u.seq.node = t.seq.node /\ u.seq.edge = id /\ u.seq.face = t.seq.face
      /\ DOMAIN u.edge = DOMAIN t.edge \cup {id}
      /\ u.edge[id] = r
      /\ \A e \in DOMAIN t.edge \ {id} : u.edge[e] = t.edge[e]
      /\ u.node = t.node /\ u.face = t.face /\ u.relation = t.relation /\ u.err = t.err
  BY DEF Base, Shaped, InsertEdge, NewEdge, With
<1>2. id \notin DOMAIN t.edge /\ 0 \notin DOMAIN t.edge
  BY DEF Base, Numbered
<1> HIDE DEF u
<1>3. Shaped(u) /\ Numbered(u) /\ Sided(u)
  BY <1>1, <1>2 DEF Base, Shaped, Numbered, Sided
<1>4. Drawn(u)
  BY <1>1, <1>2 DEF Base, Drawn, EndsAtNodes
<1>5. Named(t) => Named(u)
  BY <1>1, NamesStay
<1>6. ASSUME Apart(t), IsSimple(c), CheckEdgeCrossing(t, sn, en, c, 0)
      PROVE  Apart(u)
  <2>1. \A e \in DOMAIN u.edge : IsSimple(u.edge[e].geom)
    BY <1>1, <1>6 DEF Apart
  <2>2. \A e \in DOMAIN t.edge : ~InteriorsMeet(u.edge[e].geom, c)
    BY <1>1, <1>2, <1>6 DEF CheckEdgeCrossing, InteriorsMeet
  <2>3. \A e \in DOMAIN u.edge :
          CheckEdgeCrossing(u, u.edge[e].start_node, u.edge[e].end_node, u.edge[e].geom, e)
    <3> TAKE e \in DOMAIN u.edge
    <3>1. CASE e = id
      BY <1>1, <1>2, <1>6, <3>1 DEF CheckEdgeCrossing
    <3>2. CASE e \in DOMAIN t.edge
      BY <1>1, <1>2, <1>6, <2>2, <3>2 DEF Apart, CheckEdgeCrossing
    <3> QED
      BY <1>1, <3>1, <3>2
  <2> QED
    BY <1>1, <1>6, <2>1, <2>3 DEF Apart
<1> QED
  BY <1>1, <1>2, <1>3, <1>4, <1>5, <1>6 DEF Base, u

\* Curves that are drawn are on the lattice and simple
LEMMA CurveFacts ==
  ASSUME NEW c \in Curves
  PROVE  OnGrid(c) /\ IsSimple(c)
BY CurvesAreSimple, OnLattice DEF OnGrid

\* An isolated node
LEMMA AddIsoNodeKeepsInv ==
  ASSUME Inv, NEW p \in Sites, AddIsoNode(p)
  PROVE  Inv' /\ (Apart(Tables) => Apart(Tables)')
<1>1. p \in Int \X Int
  BY OnLattice DEF LatticePoints, Even
<1>2. Sound(Tables) /\ Base(Tables) /\ Shaped(Tables)
  BY DEF Inv, Sound, Base
<1>3. /\ \A n \in DOMAIN Tables.node : Tables.node[n].geom # p
      /\ \A e \in DOMAIN Tables.edge : p \notin Points(Tables.edge[e].geom)
  BY TablesFacts DEF AddIsoNode, FreePoint
<1>4. PICK f \in GetFaceContainingPoint(Tables, p) :
        Finish(IF f = Nowhere THEN Fail(Tables, "corrupted topology")
               ELSE InsertNode(Tables, p, f))
  BY DEF AddIsoNode
<1>5. f \in -1 .. Tables.seq.face
  BY <1>1, <1>2, <1>3, FaceOfPointIsKnown
<1>6. CASE f = Nowhere
  BY <1>2, <1>4, <1>6, FinishKeepsInv, FailIsNotDone
<1>7. CASE f # Nowhere
  BY <1>1, <1>2, <1>3, <1>4, <1>5, <1>7, FinishKeepsInv, InsertNodeFacts
<1> QED
  BY <1>6, <1>7

\* ST_MoveIsoNode: the point it moves to is on no edge and no other node
LEMMA MoveIsoNodeKeepsInv ==
  ASSUME Inv, NEW n \in DOMAIN node, NEW p \in Sites, MoveIsoNode(n, p)
  PROVE  Inv' /\ (Apart(Tables) => Apart(Tables)')
<1> DEFINE t == Tables
           u == [Tables EXCEPT !.node[n].geom = p]
<1>1. p \in Int \X Int
  BY OnLattice DEF LatticePoints, Even
<1>2. Sound(t) /\ Base(t) /\ Shaped(t)
  BY DEF Inv, Sound, Base
<1>3. /\ n \in DOMAIN t.node /\ t.node[n].containing_face # Nowhere
      /\ \A m \in DOMAIN t.node : t.node[m].geom # p
      /\ \A e \in DOMAIN t.edge : p \notin Points(t.edge[e].geom)
  BY TablesFacts DEF MoveIsoNode, FreePoint
<1>4. Finish(Fail(t, "corrupted topology")) \/ Finish(u)
  BY DEF MoveIsoNode
<1> HIDE DEF t
<1>5. /\ DOMAIN u = DOMAIN t /\ u.seq = t.seq /\ u.edge = t.edge /\ u.face = t.face
      /\ u.relation = t.relation
      /\ DOMAIN u.node = DOMAIN t.node
      /\ DOMAIN u.node[n] = DOMAIN t.node[n]
      /\ u.node[n].geom = p /\ u.node[n].containing_face = t.node[n].containing_face
      /\ \A m \in DOMAIN t.node \ {n} : u.node[m] = t.node[m]
  BY <1>2, <1>3 DEF Shaped, t
<1> HIDE DEF u
<1>6. \A e \in DOMAIN t.edge : n \notin {t.edge[e].start_node, t.edge[e].end_node}
  BY <1>2, <1>3 DEF Sound, Anchored
<1>7. Shaped(u) /\ Numbered(u) /\ Sided(u)
  BY <1>2, <1>3, <1>5 DEF Base, Shaped, Numbered, Sided
<1>8. Drawn(u)
  BY <1>1, <1>2, <1>3, <1>5, <1>6 DEF Base, Drawn, EndsAtNodes
<1>9. Anchored(u)
  BY <1>2, <1>3, <1>5 DEF Sound, Anchored, Base, Drawn
<1>10. Named(u)
  BY <1>2, <1>5, NamesStay DEF Sound
<1>11. Apart(t) => Apart(u)
  BY <1>3, <1>5 DEF Apart, CheckEdgeCrossing
<1>12. Sound(u)
  BY <1>7, <1>8, <1>9, <1>10 DEF Sound, Base
<1> QED
  BY <1>2, <1>4, <1>11, <1>12, FinishKeepsInv, FailIsNotDone DEF t

\* The ids that rows name
LEMMA RowFacts ==
  ASSUME NEW t, Numbered(t), Named(t)
  PROVE  /\ \A r \in t.relation : /\ r.id \in Int /\ Abs(r.id) \in Nat /\ Abs(r.id) > 0
                                  /\ r.type # 2 => r.id > 0 /\ Abs(r.id) = r.id
         /\ \A r \in t.relation : DOMAIN r = {"tg", "type", "id"} /\ r.type = Kind[r.tg]
BY DEF Numbered, Named, Names, Abs

\* A primitive that no row names can go
LEMMA UnusedIsUnnamed ==
  ASSUME NEW t, Numbered(t), Named(t), NEW kind, NEW ids, Uses(t, kind, ids) = {}
  PROVE  \A r \in t.relation :
           r.type = kind => Abs(r.id) \notin ids /\ (kind # 2 => r.id \notin ids)
BY RowFacts DEF Uses

\* ST_RemoveIsoNode: no TopoGeometry refers to the node, and no edge ends at it
LEMMA RemoveIsoNodeKeepsInv ==
  ASSUME Inv, NEW n \in DOMAIN node, RemoveIsoNode(n)
  PROVE  Inv' /\ (Apart(Tables) => Apart(Tables)')
<1> DEFINE t == Tables
           u == DeleteNode(t, n)
<1>1. Sound(t) /\ Base(t) /\ Shaped(t) /\ Numbered(t) /\ Named(t)
  BY DEF Inv, Sound, Base
<1>2. t.node[n].containing_face # Nowhere /\ Uses(t, 1, {n}) = {} /\ Finish(u)
  BY TablesFacts DEF RemoveIsoNode
<1> HIDE DEF t
<1>3. /\ DOMAIN u = DOMAIN t /\ u.seq = t.seq /\ u.edge = t.edge /\ u.face = t.face
      /\ u.relation = t.relation
      /\ DOMAIN u.node = DOMAIN t.node \ {n}
      /\ \A m \in DOMAIN u.node : u.node[m] = t.node[m]
  BY <1>1 DEF Shaped, DeleteNode, Without
<1> HIDE DEF u
<1>4. \A e \in DOMAIN t.edge : n \notin {t.edge[e].start_node, t.edge[e].end_node}
  BY <1>1, <1>2 DEF Sound, Anchored
<1>5. Shaped(u) /\ Numbered(u) /\ Sided(u)
  BY <1>1, <1>3 DEF Base, Shaped, Numbered, Sided
<1>6. Drawn(u) /\ Anchored(u)
  BY <1>1, <1>3, <1>4 DEF Base, Drawn, EndsAtNodes, Sound, Anchored
<1>7. Named(u)
  <2>1. \A r \in t.relation : r.type = 1 => r.id # n
    BY <1>1, <1>2, UnusedIsUnnamed
  <2> QED
    BY <1>1, <1>3, <2>1 DEF Named, Names
<1>8. Apart(t) => Apart(u)
  BY <1>3 DEF Apart, CheckEdgeCrossing
<1> QED
  BY <1>2, <1>5, <1>6, <1>7, <1>8, FinishKeepsInv DEF t, Sound, Base

\* ST_AddIsoEdge: its end nodes are isolated until then
LEMMA AddIsoEdgeKeepsInv ==
  ASSUME Inv, NEW sn \in DOMAIN node, NEW en \in DOMAIN node, NEW c \in Curves,
         AddIsoEdge(sn, en, c)
  PROVE  Inv' /\ (Apart(Tables) => Apart(Tables)')
<1> DEFINE t == Tables
           id == NewEdge(t)
           f == t.node[sn].containing_face
           r == [start_node |-> sn, end_node |-> en, next_left |-> -id, next_right |-> id,
                 face_left |-> f, face_right |-> f, geom |-> c]
           u == InsertEdge(t, r)
           v == SetContainingFace(u, {sn, en}, Nowhere)
<1>1. Sound(t) /\ Base(t)
  BY DEF Inv, Sound
<1>2. /\ f # Nowhere /\ EndsAtNodes(t, sn, en, c) /\ CheckEdgeCrossing(t, sn, en, c, 0)
      /\ Finish(v)
  BY TablesFacts DEF AddIsoEdge
<1>3. sn \in DOMAIN t.node /\ en \in DOMAIN t.node /\ t.err = "done"
  BY TablesFacts
<1> HIDE DEF t
<1>4. f \in 0 .. t.seq.face
  BY <1>1, <1>2, <1>3 DEF Base, Sided, Numbered, Nowhere
<1>5. OnGrid(c) /\ IsSimple(c)
  BY CurveFacts
<1>6. /\ r.start_node = sn /\ r.end_node = en /\ r.geom = c
      /\ r.face_left = f /\ r.face_right = f
      /\ DOMAIN r = {"start_node", "end_node", "next_left", "next_right",
                     "face_left", "face_right", "geom"}
  OBVIOUS
<1> HIDE DEF r, f
<1>7. /\ Base(u) /\ (Named(t) => Named(u))
      /\ Apart(t) => Apart(u)
      /\ u.node = t.node
      /\ DOMAIN u.edge = DOMAIN t.edge \cup {t.seq.edge + 1}
      /\ u.edge[t.seq.edge + 1] = r /\ \A e \in DOMAIN t.edge : u.edge[e] = t.edge[e]
      /\ u.seq.face = t.seq.face
  BY <1>1, <1>2, <1>3, <1>4, <1>5, <1>6, InsertEdgeFacts
<1> HIDE DEF u
<1>8. Nowhere \in -1 .. u.seq.face
  BY <1>1, <1>7 DEF Nowhere, Base, Numbered
<1>9. /\ SameDrawing(u, v) /\ v.edge = u.edge /\ v.relation = u.relation /\ v.face = u.face
      /\ \A n \in DOMAIN u.node : v.node[n].containing_face =
           IF n \in {sn, en} THEN Nowhere ELSE u.node[n].containing_face
  BY <1>7, <1>8, SetContainingFaceFacts
<1> HIDE DEF v
<1>10. Anchored(v)
  BY <1>1, <1>3, <1>6, <1>7, <1>9 DEF Sound, Anchored, Base, Drawn
<1>11. Base(v) /\ (Apart(u) => Apart(v))
  BY <1>7, <1>9, SameDrawingIsSound
<1>12. Named(v)
  BY <1>1, <1>7, <1>9, NamesStay DEF Sound, SameDrawing
<1>13. Sound(v) /\ (Apart(t) => Apart(v))
  BY <1>7, <1>10, <1>11, <1>12 DEF Sound
<1> QED
  BY <1>2, <1>13, FinishKeepsInv DEF t

\* One more edge is drawn, along curve c, and nothing else
DrawsEdge(t, u, c) ==
  /\ DOMAIN u.node = DOMAIN t.node
  /\ \A n \in DOMAIN t.node : u.node[n].geom = t.node[n].geom
  /\ NewEdge(t) \in Nat /\ NewEdge(t) \notin DOMAIN t.edge
  /\ DOMAIN u.edge = DOMAIN t.edge \cup {NewEdge(t)}
  /\ u.edge[NewEdge(t)].geom = c
  /\ \A e \in DOMAIN t.edge : u.edge[e].geom = t.edge[e].geom

\* A new edge that is tied to its neighbours
LEMMA InsertLinkedEdgeIsSound ==
  ASSUME NEW t, Sound(t), NEW sn \in DOMAIN t.node, NEW en \in DOMAIN t.node, NEW c,
         OnGrid(c), EndsAtNodes(t, sn, en, c), NEW f \in -1 .. t.seq.face, NEW span, NEW epan,
         span.found => t.node[sn].containing_face = Nowhere,
         epan.found => t.node[en].containing_face = Nowhere
  PROVE  LET u == InsertLinkedEdge(t, sn, en, c, f, span, epan)
         IN  /\ Sound(u) /\ u.seq.face = t.seq.face /\ u.err = t.err /\ DrawsEdge(t, u, c)
             /\ Apart(t) /\ IsSimple(c) /\ CheckEdgeCrossing(t, sn, en, c, 0) => Apart(u)
<1> DEFINE id == NewEdge(t)
           links == NewEdgeLinks(id, sn = en, span, epan)
           r == [start_node |-> sn, end_node |-> en,
                 next_left |-> links.next_left, next_right |-> links.next_right,
                 face_left |-> f, face_right |-> f, geom |-> c]
           t1 == InsertEdge(t, r)
           t2 == LinkTo(t1, links.prev_left, id)
           t3 == LinkTo(t2, links.prev_right, -id)
           alone == (IF span.found THEN {} ELSE {sn}) \cup (IF epan.found THEN {} ELSE {en})
           u == SetContainingFace(t3, alone, Nowhere)
<1>1. Base(t) /\ Named(t) /\ t.seq.face \in Nat
  BY DEF Sound, Base, Numbered
<1>2. /\ r.start_node = sn /\ r.end_node = en /\ r.geom = c
      /\ r.face_left = f /\ r.face_right = f
      /\ DOMAIN r = {"start_node", "end_node", "next_left", "next_right",
                     "face_left", "face_right", "geom"}
  OBVIOUS
<1>3. InsertLinkedEdge(t, sn, en, c, f, span, epan) = u
  BY DEF InsertLinkedEdge
<1> HIDE DEF id, links, r
<1>4. /\ Base(t1) /\ Named(t1)
      /\ Apart(t) /\ IsSimple(c) /\ CheckEdgeCrossing(t, sn, en, c, 0) => Apart(t1)
      /\ t1.node = t.node
      /\ DOMAIN t1.edge = DOMAIN t.edge \cup {t.seq.edge + 1}
      /\ t1.edge[t.seq.edge + 1] = r /\ \A e \in DOMAIN t.edge : t1.edge[e] = t.edge[e]
      /\ t1.seq.face = t.seq.face /\ t1.err = t.err /\ t.seq.edge + 1 \notin DOMAIN t.edge
  BY <1>1, <1>2, InsertEdgeFacts
<1> HIDE DEF t1
<1>5. LinksOnly(t1, t2)
  BY <1>4, LinkToLinksOnly DEF Base
<1> HIDE DEF t2
<1>6. LinksOnly(t2, t3)
  BY <1>5, LinkToLinksOnly DEF LinksOnly
<1> HIDE DEF t3
<1>7. LinksOnly(t1, t3)
  BY <1>5, <1>6, LinksOnlyComposes
<1>8. /\ Base(t3) /\ Named(t3) /\ (Apart(t1) => Apart(t3))
      /\ t3.node = t.node /\ t3.seq.face = t.seq.face
  <2>1. SameDrawing(t1, t3)
    BY <1>4, <1>7, LinksDrawNothing
  <2>2. Named(t3)
    BY <1>4, <1>7, NamesStay DEF LinksOnly
  <2> QED
    BY <1>4, <1>7, <2>1, <2>2, SameDrawingIsSound DEF LinksOnly
<1>9. Nowhere \in -1 .. t3.seq.face
  BY <1>1, <1>8 DEF Nowhere
<1>10. /\ SameDrawing(t3, u) /\ u.edge = t3.edge /\ u.relation = t3.relation /\ u.face = t3.face
       /\ u.seq = t3.seq /\ u.err = t3.err
       /\ \A n \in DOMAIN t3.node : u.node[n].containing_face =
            IF n \in alone THEN Nowhere ELSE t3.node[n].containing_face
  <2> HIDE DEF alone
  <2> QED
    BY <1>8, <1>9, SetContainingFaceFacts
<1>11. \A n \in DOMAIN t.node :
         t.node[n].containing_face = Nowhere \/ n \in alone
           => u.node[n].containing_face = Nowhere
  <2> HIDE DEF alone, u
  <2> QED
    BY <1>8, <1>10
<1>12. /\ u.node[sn].containing_face = Nowhere
       /\ u.node[en].containing_face = Nowhere
  <2>1. t.node[sn].containing_face = Nowhere \/ sn \in alone
    OBVIOUS
  <2>2. t.node[en].containing_face = Nowhere \/ en \in alone
    OBVIOUS
  <2> HIDE DEF alone, u
  <2> QED
    BY <1>11, <2>1, <2>2
<1> HIDE DEF alone, u
<1>13. Anchored(u)
  <2> SUFFICES ASSUME NEW e \in DOMAIN u.edge
               PROVE  /\ u.node[u.edge[e].start_node].containing_face = Nowhere
                      /\ u.node[u.edge[e].end_node].containing_face = Nowhere
    BY DEF Anchored
  <2>1. /\ e \in DOMAIN t1.edge
        /\ u.edge[e].start_node = t1.edge[e].start_node
        /\ u.edge[e].end_node = t1.edge[e].end_node
    BY <1>7, <1>10 DEF LinksOnly
  <2>2. CASE e = t.seq.edge + 1
    BY <1>2, <1>4, <1>12, <2>1, <2>2
  <2>3. CASE e \in DOMAIN t.edge
    BY <1>4, <1>11, <2>1, <2>3 DEF Sound, Base, Drawn, Anchored
  <2> QED
    BY <1>4, <2>1, <2>2, <2>3
<1>14. Base(u) /\ (Apart(t3) => Apart(u))
  BY <1>8, <1>10, SameDrawingIsSound
<1>15. Named(u)
  BY <1>8, <1>10, NamesStay DEF SameDrawing
<1>16. DrawsEdge(t, u, c)
  <2>1. /\ DOMAIN u.edge = DOMAIN t1.edge
        /\ \A e \in DOMAIN t1.edge : u.edge[e].geom = t1.edge[e].geom
    BY <1>7, <1>10 DEF LinksOnly
  <2>2. DOMAIN u.node = DOMAIN t.node /\ \A n \in DOMAIN t.node : u.node[n].geom = t.node[n].geom
    BY <1>8, <1>10 DEF SameDrawing
  <2>3. NewEdge(t) \in Nat
    BY <1>1 DEF NewEdge, Base, Numbered
  <2> QED
    BY <1>2, <1>4, <2>1, <2>2, <2>3 DEF DrawsEdge, NewEdge
<1>17. u.err = t.err
  BY <1>4, <1>7, <1>10 DEF LinksOnly
<1> QED
  BY <1>3, <1>4, <1>8, <1>10, <1>13, <1>14, <1>15, <1>16, <1>17 DEF Sound

\* The face of a new edge is one whose id was handed out, unless its neighbours disagree
LEMMA NewEdgeFaceIsKnown ==
  ASSUME NEW k \in Nat, NEW isoFaces \in SUBSET (0 .. k), NEW span, NEW epan,
         span.cwFace \in -1 .. k, span.ccwFace \in -1 .. k,
         epan.cwFace \in -1 .. k, epan.ccwFace \in -1 .. k,
         ~NewEdgeFace(isoFaces, span, epan).corrupt
  PROVE  NewEdgeFace(isoFaces, span, epan).face \in 0 .. k
<1> DEFINE known == IF isoFaces = {} THEN Nowhere ELSE CHOOSE f \in isoFaces : TRUE
           side == NewEdgeFace(isoFaces, span, epan)
<1>1. known = Nowhere \/ known \in isoFaces
  <2>1. isoFaces # {} => \E f \in isoFaces : TRUE
    OBVIOUS
  <2>2. isoFaces # {} => (CHOOSE f \in isoFaces : TRUE) \in isoFaces
    BY <2>1
  <2> QED
    BY <2>2
<1>2. side.face \in {known, span.cwFace, span.ccwFace, epan.cwFace, epan.ccwFace}
  BY DEF NewEdgeFace
<1>3. side.face # Nowhere
  BY DEF NewEdgeFace
<1>4. \A f \in isoFaces : f \in 0 .. k
  OBVIOUS
<1> HIDE DEF known, side
<1>5. known \in -1 .. k
  <2>1. CASE known = Nowhere
    BY <2>1 DEF Nowhere
  <2>2. CASE known \in isoFaces
    <3>1. known \in 0 .. k
      BY <1>4, <2>2
    <3> QED
      BY <3>1
  <2> QED
    BY <1>1, <2>1, <2>2
<1>6. side.face \in -1 .. k
  BY <1>2, <1>5
<1>7. side.face \in 0 .. k
  BY <1>3, <1>6 DEF Nowhere
<1> QED
  BY <1>7 DEF side

\* ST_AddEdgeNewFaces and ST_AddEdgeModFace
LEMMA AddedEdgeIsSound ==
  ASSUME NEW t, Sound(t), NEW sn \in DOMAIN t.node, NEW en \in DOMAIN t.node, NEW c,
         OnGrid(c), EndsAtNodes(t, sn, en, c), NEW modFace \in BOOLEAN
  PROVE  LET u == AddedEdge(t, sn, en, c, EndsAround(t, sn, en, c), modFace)
         IN  u.err = "done" =>
               /\ Sound(u) /\ DrawsEdge(t, u, c)
               /\ Apart(t) /\ IsSimple(c) /\ CheckEdgeCrossing(t, sn, en, c, 0) => Apart(u)
<1> DEFINE first == FirstAzimuth(c)
           last == LastAzimuth(c)
           span == FindAdjacentEdges(t, sn, first, IF sn = en THEN last ELSE NoAzimuth, 0)
           epan == FindAdjacentEdges(t, en, last, IF sn = en THEN first ELSE NoAzimuth, 0)
           ends == EndsAround(t, sn, en, c)
           iso == IsoFaces(t, {sn, en})
           side == NewEdgeFace(iso, span, epan)
           f == side.face
           added == InsertLinkedEdge(t, sn, en, c, f, span, epan)
           split == SplitFace(added, NewEdge(t), f, modFace)
           u == AddedEdge(t, sn, en, c, ends, modFace)
<1>1. Base(t) /\ Shaped(t) /\ t.seq.face \in Nat
  BY DEF Sound, Base, Numbered
<1>2. ends.span = span /\ ends.epan = epan
  BY DEF EndsAround
<1>3. first \in 0 .. 7 /\ last \in 0 .. 7
  BY AzimuthsOfCurve
<1>4. /\ (IF sn = en THEN last ELSE NoAzimuth) \in -1 .. 7
      /\ (IF sn = en THEN first ELSE NoAzimuth) \in -1 .. 7
  BY <1>3 DEF NoAzimuth
<1>5. /\ span.cwFace \in -1 .. t.seq.face /\ span.ccwFace \in -1 .. t.seq.face
      /\ span.found => \E e \in DOMAIN t.edge : sn \in {t.edge[e].start_node, t.edge[e].end_node}
  <2> HIDE DEF first, last
  <2> QED
    BY <1>1, <1>3, <1>4, AdjacentEdgesFacts
<1>6. /\ epan.cwFace \in -1 .. t.seq.face /\ epan.ccwFace \in -1 .. t.seq.face
      /\ epan.found => \E e \in DOMAIN t.edge : en \in {t.edge[e].start_node, t.edge[e].end_node}
  <2> HIDE DEF first, last
  <2> QED
    BY <1>1, <1>3, <1>4, AdjacentEdgesFacts
<1> HIDE DEF ends, span, epan
<1>7. /\ span.found => t.node[sn].containing_face = Nowhere
      /\ epan.found => t.node[en].containing_face = Nowhere
  BY <1>5, <1>6 DEF Sound, Anchored
<1>8. iso \in SUBSET (0 .. t.seq.face)
  BY <1>1 DEF IsoFaces, Nowhere, Base, Sided
<1> HIDE DEF iso
<1>9. \/ side.corrupt /\ u = Fail(t, "corrupted topology")
      \/ ~side.corrupt /\ u = added
      \/ ~side.corrupt /\ u = split
  BY <1>2 DEF AddedEdge, iso
<1>10. side.corrupt => u.err # "done"
  <2> HIDE DEF side, u
  <2> QED
    BY <1>1, <1>9, FailIsNotDone
<1>11. ~side.corrupt => f \in 0 .. t.seq.face
  BY <1>1, <1>5, <1>6, <1>8, NewEdgeFaceIsKnown
<1> HIDE DEF side, f, u
<1>12. ASSUME ~side.corrupt
       PROVE  /\ Sound(added) /\ added.seq.face = t.seq.face /\ DrawsEdge(t, added, c)
              /\ Apart(t) /\ IsSimple(c) /\ CheckEdgeCrossing(t, sn, en, c, 0) => Apart(added)
  BY <1>7, <1>11, <1>12, InsertLinkedEdgeIsSound
<1> HIDE DEF added
<1>13. ASSUME ~side.corrupt
       PROVE  Sound(split) /\ DrawsEdge(t, split, c) /\ (Apart(added) => Apart(split))
  <2>1. Sound(split) /\ SameDrawing(added, split)
    BY <1>11, <1>12, <1>13, SplitFaceIsSound
  <2>2. DrawsEdge(t, split, c)
    <3> HIDE DEF split
    <3> QED
      BY <1>12, <1>13, <2>1 DEF DrawsEdge, SameDrawing
  <2> QED
    BY <1>12, <1>13, <2>1, <2>2, SameDrawingIsSound DEF Sound
<1> QED
  BY <1>9, <1>10, <1>12, <1>13 DEF u, ends

\* ST_AddEdgeNewFaces and ST_AddEdgeModFace
LEMMA AddEdgeKeepsInv ==
  ASSUME Inv, NEW sn \in DOMAIN node, NEW en \in DOMAIN node, NEW c \in Curves,
         NEW modFace \in BOOLEAN, AddEdge(sn, en, c, modFace)
  PROVE  Inv' /\ (Apart(Tables) => Apart(Tables)')
<1> DEFINE t == Tables
           u == AddedEdge(t, sn, en, c, EndsAround(t, sn, en, c), modFace)
<1>1. EndsAtNodes(t, sn, en, c) /\ CheckEdgeCrossing(t, sn, en, c, 0) /\ Finish(u)
  BY DEF AddEdge, CanAddEdge, CanDrawEdge
<1>2. Sound(t) /\ sn \in DOMAIN t.node /\ en \in DOMAIN t.node
  BY TablesFacts DEF Inv
<1>3. OnGrid(c) /\ IsSimple(c)
  BY CurveFacts
<1> HIDE DEF t
<1>4. u.err = "done" => Sound(u) /\ (Apart(t) => Apart(u))
  BY <1>1, <1>2, <1>3, AddedEdgeIsSound
<1> HIDE DEF u
<1> QED
  BY <1>1, <1>4, FinishKeepsInv DEF t

-----------------------------------------------------------------------------
(* Moving and removing edges.                                              *)

\* An edge along another curve with the same ends
LEMMA ChangeEdgeGeomKeepsInv ==
  ASSUME Inv, NEW e \in DOMAIN edge, NEW c \in Curves, ChangeEdgeGeom(e, c)
  PROVE  Inv' /\ (Apart(Tables) => Apart(Tables)')
<1> DEFINE t == Tables
           old == t.edge[e]
           u == [t EXCEPT !.edge[e].geom = c]
           sides == {old.face_left, old.face_right} \ {Universe}
           v == IF Box(Points(old.geom)) = Box(Points(c)) THEN u ELSE UpdateFaceBoxes(u, sides)
<1>1. /\ StartPoint(c) = StartPoint(old.geom) /\ EndPoint(c) = EndPoint(old.geom)
      /\ CheckEdgeCrossing(t, old.start_node, old.end_node, c, e)
      /\ Finish(v)
  BY TablesFacts DEF ChangeEdgeGeom
<1>2. Sound(t) /\ Base(t) /\ Named(t) /\ e \in DOMAIN t.edge /\ t.err = "done"
  BY TablesFacts DEF Inv, Sound
<1>3. OnGrid(c) /\ IsSimple(c)
  BY CurveFacts
<1> HIDE DEF t
<1>4. /\ DOMAIN u = DOMAIN t /\ u.seq = t.seq /\ u.node = t.node /\ u.face = t.face
      /\ u.relation = t.relation
      /\ DOMAIN u.edge = DOMAIN t.edge
      /\ DOMAIN u.edge[e] = DOMAIN old
      /\ u.edge[e].geom = c
      /\ u.edge[e].start_node = old.start_node /\ u.edge[e].end_node = old.end_node
      /\ u.edge[e].face_left = old.face_left /\ u.edge[e].face_right = old.face_right
      /\ \A x \in DOMAIN t.edge \ {e} : u.edge[x] = t.edge[x]
  BY <1>2 DEF Base, Shaped
<1> HIDE DEF u
<1>5. Shaped(u) /\ Numbered(u) /\ Sided(u)
  BY <1>2, <1>4 DEF Base, Shaped, Numbered, Sided
<1>6. Drawn(u)
  BY <1>1, <1>2, <1>3, <1>4 DEF Base, Drawn, EndsAtNodes
<1>7. Anchored(u) /\ Named(u)
  BY <1>2, <1>4, NamesStay DEF Sound, Anchored
<1>8. ASSUME Apart(t) PROVE Apart(u)
  <2>1. \A x \in DOMAIN t.edge \ {e} : ~InteriorsMeet(t.edge[x].geom, c)
    BY <1>1 DEF CheckEdgeCrossing, InteriorsMeet
  <2>2. \A x \in DOMAIN u.edge :
          CheckEdgeCrossing(u, u.edge[x].start_node, u.edge[x].end_node, u.edge[x].geom, x)
    <3> TAKE x \in DOMAIN u.edge
    <3>1. CASE x = e
      BY <1>1, <1>4, <3>1 DEF CheckEdgeCrossing
    <3>2. CASE x # e
      BY <1>4, <1>8, <2>1, <3>2 DEF Apart, CheckEdgeCrossing
    <3> QED
      BY <3>1, <3>2
  <2>3. \A x \in DOMAIN u.edge : IsSimple(u.edge[x].geom)
    BY <1>3, <1>4, <1>8 DEF Apart
  <2> QED
    BY <1>4, <1>8, <2>2, <2>3 DEF Apart
<1>9. Sound(u)
  BY <1>5, <1>6, <1>7 DEF Sound, Base
<1>10. v.err = "done" => v = u \/ (FacesOnly(u, v))
  <2> DEFINE failed == Fail(u, "corrupted topology")
             boxed == [u EXCEPT !.face = [f \in DOMAIN u.face |->
                         IF f \in sides THEN FaceBox(u, f) ELSE u.face[f]]]
  <2>1. v \in {u, failed, boxed}
    BY DEF UpdateFaceBoxes
  <2>2. failed.err # "done"
    BY <1>5, FailIsNotDone
  <2>3. FacesOnly(u, boxed)
    BY <1>5 DEF Shaped, Numbered, Sided, FacesOnly, SameDrawing, KeepsAnchors
  <2> QED
    BY <2>1, <2>2, <2>3
<1> HIDE DEF v
<1>11. v.err = "done" => Sound(v) /\ (Apart(t) => Apart(v))
  BY <1>8, <1>9, <1>10, FacesOnlyIsSound
<1> QED
  BY <1>1, <1>11, FinishKeepsInv DEF t

\* An edge that is taken away
LEMMA DeleteEdgesFacts ==
  ASSUME NEW t, Base(t), NEW E
  PROVE  LET u == DeleteEdges(t, E)
         IN  /\ Base(u)
             /\ Anchored(t) => Anchored(u)
             /\ Apart(t) => Apart(u)
             /\ Named(t) /\ Uses(t, 2, E) = {} => Named(u)
             /\ u.node = t.node /\ u.face = t.face /\ u.relation = t.relation
             /\ u.seq = t.seq /\ u.err = t.err
             /\ DOMAIN u.edge = DOMAIN t.edge \ E
             /\ \A e \in DOMAIN u.edge : u.edge[e] = t.edge[e]
<1> DEFINE u == DeleteEdges(t, E)
<1>1. /\ DOMAIN u = DOMAIN t /\ u.seq = t.seq /\ u.node = t.node /\ u.face = t.face
      /\ u.relation = t.relation /\ u.err = t.err
      /\ DOMAIN u.edge = DOMAIN t.edge \ E
      /\ \A e \in DOMAIN u.edge : u.edge[e] = t.edge[e]
  BY DEF Base, Shaped, DeleteEdges, Without
<1> HIDE DEF u
<1>2. Base(u)
  BY <1>1 DEF Base, Shaped, Numbered, Sided, Drawn, EndsAtNodes
<1>3. Anchored(t) => Anchored(u)
  BY <1>1 DEF Anchored
<1>4. Apart(t) => Apart(u)
  BY <1>1 DEF Apart, CheckEdgeCrossing
<1>5. ASSUME Named(t), Uses(t, 2, E) = {} PROVE Named(u)
  <2>1. \A r \in t.relation : r.type = 2 => Abs(r.id) \notin E
    BY <1>5, UnusedIsUnnamed DEF Base
  <2> QED
    BY <1>1, <1>5, <2>1 DEF Named, Names
<1> QED
  BY <1>1, <1>2, <1>3, <1>4, <1>5 DEF u

\* Nodes that only the edge touched have a face of their own again
LEMMA BaredNodesAreSound ==
  ASSUME NEW t, Base(t), Anchored(t), NEW N, NEW cf \in -1 .. t.seq.face,
         \A e \in DOMAIN t.edge : t.edge[e].start_node \notin N /\ t.edge[e].end_node \notin N
  PROVE  LET u == SetContainingFace(t, N, cf)
         IN  Base(u) /\ Anchored(u) /\ (Named(t) => Named(u)) /\ (Apart(t) => Apart(u))
<1> DEFINE u == SetContainingFace(t, N, cf)
<1>1. /\ SameDrawing(t, u)
      /\ u.edge = t.edge /\ u.face = t.face /\ u.relation = t.relation
      /\ \A n \in DOMAIN t.node : u.node[n].containing_face =
           IF n \in N THEN cf ELSE t.node[n].containing_face
  BY SetContainingFaceFacts
<1> HIDE DEF u
<1>2. Anchored(u)
  BY <1>1 DEF Anchored, Base, Drawn
<1>3. Named(t) => Named(u)
  BY <1>1, NamesStay DEF SameDrawing
<1> QED
  BY <1>1, <1>2, <1>3, SameDrawingIsSound DEF u

\* ST_RemIsoEdge: no other edge ends at its nodes, which become isolated
LEMMA RemIsoEdgeKeepsInv ==
  ASSUME Inv, NEW e \in DOMAIN edge, RemIsoEdge(e)
  PROVE  Inv' /\ (Apart(Tables) => Apart(Tables)')
<1> DEFINE t == Tables
           r == t.edge[e]
           N == {r.start_node, r.end_node}
           u == DeleteEdges(t, {e})
           v == SetContainingFace(u, N, r.face_left)
<1>1. /\ IncidentEdges(t, N) = {e} /\ Uses(t, 2, {e}) = {}
      /\ Finish(v)
  BY TablesFacts DEF RemIsoEdge, EdgeUnused
<1>2. Sound(t) /\ Base(t) /\ Named(t) /\ Anchored(t) /\ e \in DOMAIN t.edge
  BY TablesFacts DEF Inv, Sound
<1> HIDE DEF t
<1>3. /\ Base(u) /\ Anchored(u) /\ (Apart(t) => Apart(u)) /\ Named(u)
      /\ u.seq = t.seq
      /\ DOMAIN u.edge = DOMAIN t.edge \ {e}
      /\ \A x \in DOMAIN u.edge : u.edge[x] = t.edge[x]
  BY <1>1, <1>2, DeleteEdgesFacts
<1> HIDE DEF u
<1>4. r.face_left \in -1 .. u.seq.face
  BY <1>2, <1>3 DEF Base, Sided, Numbered
<1> HIDE DEF N
<1>5. \A x \in DOMAIN u.edge : u.edge[x].start_node \notin N /\ u.edge[x].end_node \notin N
  BY <1>1, <1>3 DEF IncidentEdges
<1>6. Base(v) /\ Anchored(v) /\ Named(v) /\ (Apart(t) => Apart(v))
  BY <1>3, <1>4, <1>5, BaredNodesAreSound
<1> QED
  BY <1>1, <1>6, FinishKeepsInv DEF t, Sound

\* Faces that no row names can go
LEMMA DeleteFacesFacts ==
  ASSUME NEW t, Sound(t), NEW F, \A r \in t.relation : r.type = 3 => r.id \notin F
  PROVE  Sound(DeleteFaces(t, F)) /\ (Apart(t) => Apart(DeleteFaces(t, F)))
<1> DEFINE u == DeleteFaces(t, F)
<1>1. /\ DOMAIN u = DOMAIN t /\ u.seq = t.seq /\ u.node = t.node /\ u.edge = t.edge
      /\ u.relation = t.relation /\ DOMAIN u.face = DOMAIN t.face \ F
  BY DEF Sound, Base, Shaped, DeleteFaces, Without
<1> HIDE DEF u
<1>2. SameDrawing(t, u) /\ KeepsAnchors(t, u)
  BY <1>1, RowsDrawNothing DEF Sound
<1>3. Named(u)
  BY <1>1 DEF Sound, Named, Names
<1> QED
  BY <1>2, <1>3, SameDrawingIsSound DEF Sound, u

\* Sides and nodes of faces that go are given to another
LEMMA UpdateFaceRefFacts ==
  ASSUME NEW t, Base(t), NEW F, Nowhere \notin F, NEW new \in 0 .. t.seq.face
  PROVE  LET u == UpdateFaceRef(t, F, new)
         IN  FacesOnly(t, u) /\ u.face = t.face /\ u.seq = t.seq
<1> DEFINE moved == [t EXCEPT !.edge = [e \in DOMAIN t.edge |->
                       [t.edge[e] EXCEPT !.face_left = IF @ \in F THEN new ELSE @,
                                         !.face_right = IF @ \in F THEN new ELSE @]]]
           N == {n \in DOMAIN t.node : t.node[n].containing_face \in F}
           u == SetContainingFace(moved, N, new)
<1>1. u = UpdateFaceRef(t, F, new)
  BY DEF UpdateFaceRef
<1>2. /\ DOMAIN moved = DOMAIN t
      /\ moved.node = t.node /\ moved.face = t.face /\ moved.relation = t.relation
      /\ moved.seq = t.seq
      /\ DOMAIN moved.edge = DOMAIN t.edge
  BY DEF Base, Shaped
<1>3. \A e \in DOMAIN t.edge :
        /\ DOMAIN moved.edge[e] = DOMAIN t.edge[e]
        /\ moved.edge[e].start_node = t.edge[e].start_node
        /\ moved.edge[e].end_node = t.edge[e].end_node
        /\ moved.edge[e].geom = t.edge[e].geom
        /\ moved.edge[e].face_left \in {new, t.edge[e].face_left}
        /\ moved.edge[e].face_right \in {new, t.edge[e].face_right}
  BY DEF Base, Shaped
<1> HIDE DEF moved
<1>4. \A e \in DOMAIN t.edge :
        moved.edge[e].face_left \in -1 .. t.seq.face /\ moved.edge[e].face_right \in -1 .. t.seq.face
  BY <1>3 DEF Base, Sided
<1>5. FacesOnly(t, moved)
  BY <1>2, <1>3, <1>4, SidesAreFacesOnly
<1>6. Base(moved) /\ new \in -1 .. moved.seq.face
  BY <1>2, <1>5, SameDrawingIsSound DEF FacesOnly, Base, Numbered
<1>7. \A n \in N \cap DOMAIN moved.node : moved.node[n].containing_face # Nowhere
  BY <1>2
<1> HIDE DEF N
<1>8. FacesOnly(moved, u) /\ u.face = moved.face /\ u.seq = moved.seq
  BY <1>6, <1>7, SetContainingFaceFacts
<1> HIDE DEF u
<1>9. FacesOnly(t, u)
  BY <1>5, <1>8, FacesOnlyComposes
<1> QED
  BY <1>1, <1>2, <1>8, <1>9

\* Rows that name the left of two healed faces name the one that takes them up; those that
\* name the right one go
LEMMA FaceHealKeepsNames ==
  ASSUME NEW t, Sound(t), NEW left, NEW right, NEW new,
         new \in {left, right} \/ new \in DOMAIN t.face
  PROVE  LET u == UpdateTopoGeomFaceHeal(t, right, left, new)
         IN  /\ Sound(u) /\ SameDrawing(t, u) /\ u.seq = t.seq
             /\ \A r \in u.relation : r.type = 3 => r.id \notin {left, right} \ {new}
             /\ \A r \in u.relation : r.type = 2 => r \in t.relation
<1> DEFINE u == UpdateTopoGeomFaceHeal(t, right, left, new)
           ofLeft == Uses(t, 3, {left})
           ofRight == Uses(t, 3, {right})
           ofGone == Uses(t, 3, {left, right} \ {new})
           named == {[r EXCEPT !.id = new] : r \in ofLeft}
<1>1. /\ DOMAIN u = DOMAIN t /\ u.node = t.node /\ u.edge = t.edge /\ u.seq = t.seq
      /\ u.face = t.face
      /\ u.relation = IF new \in {left, right} THEN t.relation \ ofGone
                      ELSE (t.relation \ (ofRight \cup ofLeft)) \cup named
  BY DEF Sound, Base, Shaped, UpdateTopoGeomFaceHeal
<1>2. \A r \in t.relation : /\ DOMAIN r = {"tg", "type", "id"} /\ r.type = Kind[r.tg]
                            /\ Names(t, r) /\ (r.type = 3 => Abs(r.id) = r.id)
  BY RowFacts DEF Sound, Base, Named
<1>3. \A r \in ofLeft : r \in t.relation /\ r.type = 3
  BY DEF Uses
<1>4. \A q \in named : /\ DOMAIN q = {"tg", "type", "id"} /\ q.type = Kind[q.tg]
                       /\ q.type = 3 /\ q.id = new
  BY <1>2, <1>3
<1>5. /\ \A r \in t.relation \ ofGone : r.type = 3 => r.id \notin {left, right} \ {new}
      /\ \A r \in t.relation \ (ofRight \cup ofLeft) : r.type = 3 => r.id \notin {left, right}
  BY <1>2 DEF Uses
<1> HIDE DEF u, ofLeft, ofRight, ofGone, named
<1>6. \A r \in u.relation : r \in t.relation \/ (r \in named /\ new \in DOMAIN t.face)
  BY <1>1
<1>7. Named(u)
  BY <1>1, <1>2, <1>4, <1>6 DEF Named, Names
<1>8. \A r \in u.relation : r.type = 3 => r.id \notin {left, right} \ {new}
  BY <1>1, <1>4, <1>5
<1>9. \A r \in u.relation : r.type = 2 => r \in t.relation
  BY <1>4, <1>6
<1>10. SameDrawing(t, u) /\ KeepsAnchors(t, u)
  BY <1>1, RowsDrawNothing DEF Sound
<1> QED
  BY <1>1, <1>7, <1>8, <1>9, <1>10, SameDrawingIsSound DEF Sound, u

\* The face that takes up both sides of an edge
LEMMA HealFacesFacts ==
  ASSUME NEW t, Sound(t), NEW e \in DOMAIN t.edge, NEW modFace \in BOOLEAN
  PROVE  LET h == HealFaces(t, e, modFace)
         IN  /\ Sound(h.t) /\ SameDrawing(t, h.t)
             /\ h.flood \in -1 .. h.t.seq.face
             /\ \A r \in h.t.relation : r.type = 3 => r.id \notin h.gone
             /\ \A r \in h.t.relation : r.type = 2 => r \in t.relation
<1> DEFINE left == t.edge[e].face_left
           right == t.edge[e].face_right
           real == Universe \notin {left, right}
           flood == IF ~real THEN Universe ELSE IF modFace THEN right ELSE NewFace(t)
           box == BoxUnion(t.face[left], t.face[right])
           boxed == [t EXCEPT !.face[right] = box]
           grown == InsertFace(t, box)
           t1 == IF ~real THEN t ELSE IF modFace THEN boxed ELSE grown
           t2 == UpdateFaceRef(t1, {left, right} \ {flood, Nowhere}, flood)
           failed == Fail(t, "corrupted topology")
           t3 == UpdateTopoGeomFaceHeal(t2, right, left, flood)
           h == HealFaces(t, e, modFace)
<1>1. /\ Base(t) /\ t.seq.face \in Nat
      /\ left \in -1 .. t.seq.face /\ right \in -1 .. t.seq.face
  BY DEF Sound, Base, Numbered, Sided
<1>2. \/ h = [t |-> t, flood |-> right, gone |-> {}] /\ left = right
      \/ h = [t |-> failed, flood |-> right, gone |-> {}]
      \/ /\ h = [t |-> t3, flood |-> flood, gone |-> {left, right} \ {flood}]
         /\ real => {left, right} \subseteq DOMAIN t.face
  BY DEF HealFaces
<1>3. CASE h = [t |-> t, flood |-> right, gone |-> {}]
  <2>1. h.t = t /\ h.flood = right /\ h.gone = {}
    BY <1>3
  <2>2. SameDrawing(t, t)
    BY <1>1 DEF Base, Shaped, Numbered, Sided, SameDrawing
  <2> QED
    BY <1>1, <2>1, <2>2 DEF h
<1>4. CASE h = [t |-> failed, flood |-> right, gone |-> {}]
  <2>1. h.t = failed /\ h.flood = right /\ h.gone = {}
    <3> HIDE DEF failed, h
    <3> QED
      BY <1>4
  <2>2. FacesOnly(t, failed) /\ failed.relation = t.relation /\ failed.seq = t.seq
    BY <1>1 DEF Fail, Base, Shaped, Numbered, Sided, FacesOnly, SameDrawing, KeepsAnchors
  <2>3. Sound(failed) /\ SameDrawing(t, failed)
    BY <2>2, FacesOnlyIsSound DEF FacesOnly
  <2> QED
    BY <1>1, <2>1, <2>2, <2>3 DEF h
<1>5. CASE /\ h = [t |-> t3, flood |-> flood, gone |-> {left, right} \ {flood}]
           /\ real => {left, right} \subseteq DOMAIN t.face
  <2>1. h.t = t3 /\ h.flood = flood /\ h.gone = {left, right} \ {flood}
    BY <1>5
  <2>2. real => left \in 1 .. t.seq.face /\ right \in 1 .. t.seq.face
    BY <1>1, <1>5 DEF Base, Numbered
  <2>3. /\ FacesOnly(t, t1) /\ flood \in 0 .. t1.seq.face
        /\ flood \in {left, right} \/ flood \in DOMAIN t1.face
    <3>1. CASE ~real
      <4>1. FacesOnly(t, t)
        BY <1>1 DEF Base, Shaped, Numbered, Sided, FacesOnly, SameDrawing, KeepsAnchors
      <4> QED
        BY <1>1, <3>1, <4>1 DEF Universe
    <3>2. CASE real /\ modFace
      <4>1. FacesOnly(t, boxed) /\ boxed.seq = t.seq
        BY <1>1 DEF Base, Shaped, Numbered, Sided, FacesOnly, SameDrawing, KeepsAnchors
      <4> QED
        BY <1>1, <2>2, <3>2, <4>1
    <3>3. CASE real /\ ~modFace
      <4>1. /\ FacesOnly(t, grown) /\ grown.seq.face = t.seq.face + 1
            /\ grown.seq.face \in DOMAIN grown.face
        BY <1>1, InsertFaceFacts
      <4> QED
        BY <1>1, <3>3, <4>1 DEF NewFace
    <3> QED
      BY <3>1, <3>2, <3>3
  <2> HIDE DEF t1, flood, h
  <2>4. Sound(t1)
    BY <2>3, FacesOnlyIsSound
  <2>5. Nowhere \notin {left, right} \ {flood, Nowhere}
    OBVIOUS
  <2>6. FacesOnly(t1, t2) /\ t2.face = t1.face /\ t2.seq = t1.seq
    <3> HIDE DEF left, right
    <3> QED
      BY <2>3, <2>4, <2>5, UpdateFaceRefFacts DEF Sound
  <2> HIDE DEF t2
  <2>7. Sound(t2) /\ SameDrawing(t, t2)
    BY <1>1, <2>3, <2>4, <2>6, FacesOnlyIsSound, SameDrawingComposes DEF FacesOnly
  <2>8. \A r \in t2.relation : r \in t.relation
    BY <2>3, <2>6 DEF FacesOnly
  <2>9. /\ Sound(t3) /\ SameDrawing(t2, t3) /\ t3.seq = t2.seq
        /\ \A r \in t3.relation : r.type = 3 => r.id \notin {left, right} \ {flood}
        /\ \A r \in t3.relation : r.type = 2 => r \in t2.relation
    <3> HIDE DEF left, right
    <3> QED
      BY <2>3, <2>6, <2>7, FaceHealKeepsNames
  <2> HIDE DEF t3
  <2>10. SameDrawing(t, t3)
    BY <1>1, <2>7, <2>9, SameDrawingComposes
  <2>11. flood \in -1 .. t3.seq.face
    BY <2>3, <2>6, <2>9
  <2> HIDE DEF left, right, real
  <2> QED
    BY <2>1, <2>8, <2>9, <2>10, <2>11 DEF h
<1> QED
  BY <1>2, <1>3, <1>4, <1>5

\* The removal of an edge, with the faces on its sides
LEMMA RemEdgeKeepsInv ==
  ASSUME Inv, NEW e \in DOMAIN edge, NEW modFace \in BOOLEAN, RemEdge(e, modFace)
  PROVE  Inv' /\ (Apart(Tables) => Apart(Tables)')
<1> DEFINE t == Tables
           old == t.edge[e]
           p == LinkPast(t, e)
           h == HealFaces(p, e, modFace)
           t1 == DeleteEdges(h.t, {e})
           bare == {n \in {old.start_node, old.end_node} : IncidentEdges(t, {n}) = {e}}
           t2 == SetContainingFace(t1, bare, h.flood)
           u == DeleteFaces(t2, h.gone)
<1>1. Uses(t, 2, {e}) = {} /\ Finish(u)
  BY TablesFacts DEF RemEdge, EdgeUnused
<1>2. /\ Sound(t) /\ Base(t) /\ Shaped(t) /\ Numbered(t) /\ Named(t) /\ e \in DOMAIN t.edge
      /\ t.seq.face \in Nat
  BY TablesFacts DEF Inv, Sound, Base, Numbered
<1> HIDE DEF t
<1>3. LinksOnly(t, p)
  BY <1>2, LinkPastLinksOnly
<1> HIDE DEF p
<1>4. Sound(p) /\ SameDrawing(t, p) /\ p.relation = t.relation /\ e \in DOMAIN p.edge
  BY <1>2, <1>3, LinksAreFacesOnly, FacesOnlyIsSound DEF FacesOnly, LinksOnly
<1>5. /\ Sound(h.t) /\ SameDrawing(p, h.t)
      /\ h.flood \in -1 .. h.t.seq.face
      /\ \A r \in h.t.relation : r.type = 3 => r.id \notin h.gone
      /\ \A r \in h.t.relation : r.type = 2 => r \in p.relation
  BY <1>4, HealFacesFacts
<1> HIDE DEF h
<1>6. SameDrawing(t, h.t)
  BY <1>2, <1>4, <1>5, SameDrawingComposes
<1>7. Uses(h.t, 2, {e}) = {}
  BY <1>1, <1>4, <1>5 DEF Uses
<1>8. /\ Base(t1) /\ Anchored(t1) /\ Named(t1) /\ (Apart(h.t) => Apart(t1))
      /\ t1.relation = h.t.relation /\ t1.seq = h.t.seq
      /\ DOMAIN t1.edge = DOMAIN h.t.edge \ {e}
      /\ \A x \in DOMAIN t1.edge : t1.edge[x] = h.t.edge[x]
  <2>1. Base(h.t) /\ Anchored(h.t) /\ Named(h.t)
    BY <1>5 DEF Sound
  <2> QED
    BY <1>7, <2>1, DeleteEdgesFacts
<1> HIDE DEF t1
<1>9. \A x \in DOMAIN t1.edge : t1.edge[x].start_node \notin bare /\ t1.edge[x].end_node \notin bare
  <2>1. \A x \in DOMAIN t.edge \ {e} :
          t.edge[x].start_node \notin bare /\ t.edge[x].end_node \notin bare
    BY DEF IncidentEdges
  <2> HIDE DEF bare
  <2> QED
    BY <1>6, <1>8, <2>1 DEF SameDrawing
<1>10. h.flood \in -1 .. t1.seq.face
  BY <1>5, <1>8 DEF Sound, Base, Numbered
<1> HIDE DEF bare
<1>11. /\ Base(t2) /\ Anchored(t2) /\ Named(t2) /\ (Apart(t1) => Apart(t2))
       /\ t2.relation = t1.relation
  BY <1>8, <1>9, <1>10, BaredNodesAreSound, SetContainingFaceFacts
<1> HIDE DEF t2
<1>12. Sound(u) /\ (Apart(t2) => Apart(u))
  BY <1>5, <1>8, <1>11, DeleteFacesFacts DEF Sound
<1>13. Apart(t) => Apart(h.t)
  BY <1>2, <1>6, SameDrawingIsSound
<1> QED
  BY <1>1, <1>8, <1>11, <1>12, <1>13, FinishKeepsInv DEF t

-----------------------------------------------------------------------------
(* Curves that are cut.                                                    *)

\* The points of a curve that are on the lattice, as numbers
LEMMA EvenFacts ==
  ASSUME NEW c, OnGrid(c)
  PROVE  /\ \A i \in 1 .. Len(c) : c[i][1] \in Even /\ c[i][2] \in Even
         /\ \A i \in 1 .. Len(c) : c[i] = <<c[i][1], c[i][2]>>
         /\ \A i \in 1 .. Len(c) - 1 :
              \/ c[i + 1][1] - c[i][1] \in {2, -2} /\ c[i + 1][2] = c[i][2]
              \/ c[i + 1][2] - c[i][2] \in {2, -2} /\ c[i + 1][1] = c[i][1]
<1>1. Len(c) \in Nat /\ \A i \in 1 .. Len(c) : c[i] \in LatticePoints
  BY DEF OnGrid
<1>2. \A i \in 1 .. Len(c) : c[i][1] \in Even /\ c[i][2] \in Even /\ c[i] = <<c[i][1], c[i][2]>>
  BY <1>1 DEF LatticePoints
<1>3. ASSUME NEW i \in 1 .. Len(c) - 1
      PROVE  \/ c[i + 1][1] - c[i][1] \in {2, -2} /\ c[i + 1][2] = c[i][2]
             \/ c[i + 1][2] - c[i][2] \in {2, -2} /\ c[i + 1][1] = c[i][1]
  <2> DEFINE dx == c[i + 1][1] - c[i][1]
             dy == c[i + 1][2] - c[i][2]
  <2>1. <<dx, dy>> \in {<<2, 0>>, <<-2, 0>>, <<0, 2>>, <<0, -2>>}
    BY DEF OnGrid, IsCurve
  <2>2. i \in 1 .. Len(c) /\ i + 1 \in 1 .. Len(c)
    BY <1>1
  <2>3. c[i][1] \in Int /\ c[i][2] \in Int /\ c[i + 1][1] \in Int /\ c[i + 1][2] \in Int
    BY <1>2, <2>2 DEF Even
  <2>4. (dx \in {2, -2} /\ dy = 0) \/ (dx = 0 /\ dy \in {2, -2})
    BY <2>1
  <2> QED
    BY <2>3, <2>4
<1> QED
  BY <1>2, <1>3

\* Two segments of the lattice with one middle are one
LEMMA SegmentsWithOneMid ==
  ASSUME NEW c, OnGrid(c), NEW d, OnGrid(d),
         NEW i \in 1 .. Len(c) - 1, NEW j \in 1 .. Len(d) - 1,
         Mid(c[i], c[i + 1]) = Mid(d[j], d[j + 1])
  PROVE  \/ c[i] = d[j] /\ c[i + 1] = d[j + 1]
         \/ c[i] = d[j + 1] /\ c[i + 1] = d[j]
<1>1. /\ i \in 1 .. Len(c) /\ i + 1 \in 1 .. Len(c)
      /\ j \in 1 .. Len(d) /\ j + 1 \in 1 .. Len(d)
  BY GridFacts
<1>2. /\ (c[i][1] + c[i + 1][1]) \div 2 = (d[j][1] + d[j + 1][1]) \div 2
      /\ (c[i][2] + c[i + 1][2]) \div 2 = (d[j][2] + d[j + 1][2]) \div 2
  BY DEF Mid
<1>3. \/ /\ c[i][1] = d[j][1] /\ c[i][2] = d[j][2]
         /\ c[i + 1][1] = d[j + 1][1] /\ c[i + 1][2] = d[j + 1][2]
      \/ /\ c[i][1] = d[j + 1][1] /\ c[i][2] = d[j + 1][2]
         /\ c[i + 1][1] = d[j][1] /\ c[i + 1][2] = d[j][2]
  <2>1. /\ c[i][1] \in Even /\ c[i][2] \in Even /\ c[i + 1][1] \in Even /\ c[i + 1][2] \in Even
        /\ d[j][1] \in Even /\ d[j][2] \in Even /\ d[j + 1][1] \in Even /\ d[j + 1][2] \in Even
    BY <1>1, EvenFacts
  <2>2. /\ \/ c[i + 1][1] - c[i][1] \in {2, -2} /\ c[i + 1][2] = c[i][2]
           \/ c[i + 1][2] - c[i][2] \in {2, -2} /\ c[i + 1][1] = c[i][1]
        /\ \/ d[j + 1][1] - d[j][1] \in {2, -2} /\ d[j + 1][2] = d[j][2]
           \/ d[j + 1][2] - d[j][2] \in {2, -2} /\ d[j + 1][1] = d[j][1]
    BY EvenFacts
  <2> DEFINE p1 == c[i][1]
             p2 == c[i][2]
             q1 == c[i + 1][1]
             q2 == c[i + 1][2]
             r1 == d[j][1]
             r2 == d[j][2]
             s1 == d[j + 1][1]
             s2 == d[j + 1][2]
  <2> HIDE DEF p1, p2, q1, q2, r1, r2, s1, s2
  <2>3. \/ p1 = r1 /\ p2 = r2 /\ q1 = s1 /\ q2 = s2
        \/ p1 = s1 /\ p2 = s2 /\ q1 = r1 /\ q2 = r2
    <3>1. /\ p1 \in Even /\ p2 \in Even /\ q1 \in Even /\ q2 \in Even
          /\ r1 \in Even /\ r2 \in Even /\ s1 \in Even /\ s2 \in Even
      BY <2>1 DEF p1, p2, q1, q2, r1, r2, s1, s2
    <3>2. /\ (q1 - p1 \in {2, -2} /\ q2 = p2) \/ (q2 - p2 \in {2, -2} /\ q1 = p1)
          /\ (s1 - r1 \in {2, -2} /\ s2 = r2) \/ (s2 - r2 \in {2, -2} /\ s1 = r1)
      BY <2>2 DEF p1, p2, q1, q2, r1, r2, s1, s2
    <3>3. (p1 + q1) \div 2 = (r1 + s1) \div 2 /\ (p2 + q2) \div 2 = (r2 + s2) \div 2
      BY <1>2 DEF p1, p2, q1, q2, r1, r2, s1, s2
    <3> QED
      BY <3>1, <3>2, <3>3, SMTT(30) DEF Even
  <2> QED
    BY <2>3 DEF p1, p2, q1, q2, r1, r2, s1, s2
<1>4. /\ c[i] = <<c[i][1], c[i][2]>> /\ c[i + 1] = <<c[i + 1][1], c[i + 1][2]>>
      /\ d[j] = <<d[j][1], d[j][2]>> /\ d[j + 1] = <<d[j + 1][1], d[j + 1][2]>>
  BY <1>1, EvenFacts
<1> QED
  BY <1>3, <1>4

\* A sequence of points, each beside the last
LEMMA IsCurveIf ==
  ASSUME NEW c, NEW k \in Int, k > 1, Len(c) = k,
         \A j \in 1 .. k - 1 : <<c[j + 1][1] - c[j][1], c[j + 1][2] - c[j][2]>>
                                 \in {<<2, 0>>, <<-2, 0>>, <<0, 2>>, <<0, -2>>}
  PROVE  IsCurve(c)
BY DEF IsCurve

\* Both parts of a cut curve are curves
LEMMA CutFacts ==
  ASSUME NEW c, OnGrid(c), NEW i \in 2 .. Len(c) - 1
  PROVE  LET a == CutBefore(c, i)
             b == CutAfter(c, i)
         IN  /\ OnGrid(a) /\ Len(a) = i /\ \A j \in 1 .. i : a[j] = c[j]
             /\ OnGrid(b) /\ Len(b) = Len(c) + 1 - i
             /\ \A j \in 1 .. Len(c) + 1 - i : b[j] = c[i + j - 1]
<1> DEFINE a == CutBefore(c, i)
           b == CutAfter(c, i)
           k == Len(c)
           m == k + 1 - i
<1>1. c \in Seq(LatticePoints) /\ k \in Nat /\ k > 1
  BY GridFacts DEF OnGrid
<1>2. i \in Int /\ 2 <= i /\ i <= k - 1 /\ m \in Nat /\ m > 1
  BY <1>1
<1>3. a \in Seq(LatticePoints) /\ Len(a) = i /\ \A j \in 1 .. i : a[j] = c[j]
  BY <1>1, <1>2 DEF CutBefore
<1>4. b \in Seq(LatticePoints) /\ Len(b) = m /\ \A j \in 1 .. m : b[j] = c[i + j - 1]
  BY <1>1, <1>2 DEF CutAfter
<1> HIDE DEF a, b
<1>5. \A j \in 1 .. k - 1 : <<c[j + 1][1] - c[j][1], c[j + 1][2] - c[j][2]>>
                              \in {<<2, 0>>, <<-2, 0>>, <<0, 2>>, <<0, -2>>}
  BY DEF OnGrid, IsCurve
<1>6. IsCurve(a)
  <2>1. ASSUME NEW j \in 1 .. i - 1
        PROVE  <<a[j + 1][1] - a[j][1], a[j + 1][2] - a[j][2]>>
                 \in {<<2, 0>>, <<-2, 0>>, <<0, 2>>, <<0, -2>>}
    <3>1. j \in 1 .. k - 1 /\ j \in 1 .. i /\ j + 1 \in 1 .. i
      BY <1>1, <1>2
    <3>2. a[j] = c[j] /\ a[j + 1] = c[j + 1]
      BY <1>3, <3>1
    <3> QED
      BY <1>5, <3>1, <3>2
  <2> QED
    BY <1>2, <1>3, <2>1, IsCurveIf
<1>7. IsCurve(b)
  <2>1. ASSUME NEW j \in 1 .. m - 1
        PROVE  <<b[j + 1][1] - b[j][1], b[j + 1][2] - b[j][2]>>
                 \in {<<2, 0>>, <<-2, 0>>, <<0, 2>>, <<0, -2>>}
    <3> DEFINE h == i + j - 1
    <3>1. h \in 1 .. k - 1 /\ j \in 1 .. m /\ j + 1 \in 1 .. m /\ i + (j + 1) - 1 = h + 1
      BY <1>1, <1>2
    <3>2. b[j] = c[h]
      BY <1>4, <3>1
    <3>3. b[j + 1] = c[i + (j + 1) - 1]
      BY <1>4, <3>1
    <3> HIDE DEF h
    <3> QED
      BY <1>5, <3>1, <3>2, <3>3
  <2> HIDE DEF m
  <2> QED
    BY <1>2, <1>4, <2>1 DEF IsCurve
<1> QED
  BY <1>3, <1>4, <1>6, <1>7 DEF OnGrid, a, b

\* What a point, a middle and a vertex between the ends are
LEMMA CurveSets ==
  ASSUME NEW c, OnGrid(c)
  PROVE  /\ Points(c) = {c[j] : j \in 1 .. Len(c)}
         /\ \A p : p \in Points(c) <=> p = c[1] \/ p = c[Len(c)] \/ p \in InteriorVertices(c)
<1>1. Len(c) \in Nat /\ Len(c) > 1 /\ DOMAIN c = 1 .. Len(c)
  BY GridFacts
<1>2. Points(c) = {c[j] : j \in 1 .. Len(c)}
  BY <1>1 DEF Points
<1>3. \A j : j \in 1 .. Len(c) <=> j = 1 \/ j = Len(c) \/ j \in 2 .. Len(c) - 1
  BY <1>1
<1> QED
  BY <1>2, <1>3 DEF InteriorVertices

\* What the parts of a cut curve meet, the curve met
LEMMA CutsAreWithin ==
  ASSUME NEW c, OnGrid(c), NEW i \in 2 .. Len(c) - 1
  PROVE  LET a == CutBefore(c, i)
             b == CutAfter(c, i)
         IN  /\ Points(a) \subseteq Points(c) /\ Points(b) \subseteq Points(c)
             /\ SegmentMids(a) \subseteq SegmentMids(c) /\ SegmentMids(b) \subseteq SegmentMids(c)
             /\ InteriorVertices(a) \subseteq InteriorVertices(c)
             /\ InteriorVertices(b) \subseteq InteriorVertices(c)
<1> DEFINE a == CutBefore(c, i)
           b == CutAfter(c, i)
           k == Len(c)
           m == k + 1 - i
<1>1. k \in Nat /\ i \in Int /\ 2 <= i /\ i <= k - 1 /\ m \in Int /\ m = k + 1 - i
  BY GridFacts
<1>2. /\ OnGrid(a) /\ Len(a) = i /\ \A j \in 1 .. i : a[j] = c[j]
      /\ OnGrid(b) /\ Len(b) = m /\ \A j \in 1 .. m : b[j] = c[i + j - 1]
      /\ Len(c) = k
  BY CutFacts
<1> HIDE DEF a, b, k, m
<1>3. Points(a) \subseteq Points(c)
  <2>1. \A j \in 1 .. i : j \in 1 .. k
    BY <1>1
  <2> QED
    BY <1>2, <2>1, CurveSets
<1>4. Points(b) \subseteq Points(c)
  <2>1. \A j \in 1 .. m : i + j - 1 \in 1 .. k
    BY <1>1
  <2> QED
    BY <1>2, <2>1, CurveSets
<1>5. SegmentMids(a) \subseteq SegmentMids(c)
  <2>1. \A j \in 1 .. i - 1 : j \in 1 .. k - 1 /\ j \in 1 .. i /\ j + 1 \in 1 .. i
    BY <1>1
  <2>2. \A j \in 1 .. i - 1 : a[j] = c[j] /\ a[j + 1] = c[j + 1]
    BY <1>2, <2>1
  <2> QED
    BY <1>2, <2>1, <2>2 DEF SegmentMids
<1>6. SegmentMids(b) \subseteq SegmentMids(c)
  <2>1. \A j \in 1 .. m - 1 : /\ i + j - 1 \in 1 .. k - 1 /\ j \in 1 .. m /\ j + 1 \in 1 .. m
                              /\ i + (j + 1) - 1 = (i + j - 1) + 1
    BY <1>1
  <2>2. \A j \in 1 .. m - 1 : b[j] = c[i + j - 1] /\ b[j + 1] = c[i + (j + 1) - 1]
    BY <1>2, <2>1
  <2>3. ASSUME NEW j \in 1 .. m - 1
        PROVE  Mid(b[j], b[j + 1]) \in SegmentMids(c)
    <3> DEFINE h == i + j - 1
    <3>1. h \in 1 .. k - 1 /\ b[j] = c[h] /\ b[j + 1] = c[h + 1]
      BY <2>1, <2>2
    <3> HIDE DEF h
    <3> QED
      BY <1>2, <3>1 DEF SegmentMids
  <2> QED
    BY <1>2, <2>3 DEF SegmentMids
<1>7. InteriorVertices(a) \subseteq InteriorVertices(c)
  <2>1. \A j \in 2 .. i - 1 : j \in 2 .. k - 1 /\ j \in 1 .. i
    BY <1>1
  <2> QED
    BY <1>2, <2>1 DEF InteriorVertices
<1>8. InteriorVertices(b) \subseteq InteriorVertices(c)
  <2>1. ASSUME NEW j \in 2 .. m - 1 PROVE b[j] \in InteriorVertices(c)
    <3> DEFINE h == i + j - 1
    <3>1. h \in 2 .. k - 1 /\ j \in 1 .. m
      BY <1>1
    <3>2. b[j] = c[h]
      BY <1>2, <3>1
    <3> HIDE DEF h
    <3> QED
      BY <1>2, <3>1, <3>2 DEF InteriorVertices
  <2> QED
    BY <1>2, <2>1 DEF InteriorVertices
<1> QED
  BY <1>3, <1>4, <1>5, <1>6, <1>7, <1>8 DEF a, b

\* The parts of a simple curve are simple and meet at the cut only
LEMMA CutsAreApart ==
  ASSUME NEW c, OnGrid(c), IsSimple(c), NEW i \in 2 .. Len(c) - 1
  PROVE  LET a == CutBefore(c, i)
             b == CutAfter(c, i)
         IN  /\ IsSimple(a) /\ IsSimple(b) /\ ~InteriorsMeet(a, b)
             /\ c[i] \in InteriorVertices(c) /\ c[i] # c[1] /\ c[i] # c[Len(c)]
             /\ c[Len(c)] \in Points(a) => c[1] = c[Len(c)]
             /\ c[1] \in Points(b) => c[1] = c[Len(c)]
<1> DEFINE a == CutBefore(c, i)
           b == CutAfter(c, i)
           k == Len(c)
           m == k + 1 - i
<1>1. /\ k \in Nat /\ k > 1 /\ DOMAIN c = 1 .. k /\ i \in Int /\ 2 <= i /\ i <= k - 1
      /\ m \in Int /\ m = k + 1 - i
  BY GridFacts
<1>2. /\ OnGrid(a) /\ Len(a) = i /\ DOMAIN a = 1 .. i /\ \A j \in 1 .. i : a[j] = c[j]
      /\ OnGrid(b) /\ Len(b) = m /\ DOMAIN b = 1 .. m /\ \A j \in 1 .. m : b[j] = c[i + j - 1]
      /\ Len(c) = k
  <2>1. /\ OnGrid(a) /\ Len(a) = i /\ \A j \in 1 .. i : a[j] = c[j]
        /\ OnGrid(b) /\ Len(b) = m /\ \A j \in 1 .. m : b[j] = c[i + j - 1]
    BY CutFacts
  <2> HIDE DEF a, b, m
  <2>2. DOMAIN a = 1 .. i /\ DOMAIN b = 1 .. m
    BY <2>1, GridFacts
  <2> QED
    BY <2>1, <2>2
<1> HIDE DEF a, b, k, m
<1>3. \A x, y \in 1 .. k : x < y /\ c[x] = c[y] => x = 1 /\ y = k /\ k > 3
  BY <1>1 DEF IsSimple
<1>4. IsSimple(a)
  <2>1. \A x, y \in 1 .. i : x < y => a[x] # a[y]
    <3> TAKE x \in 1 .. i, y \in 1 .. i
    <3> HAVE x < y
    <3>1. x \in 1 .. k /\ y \in 1 .. k /\ y # k
      BY <1>1
    <3> QED
      BY <1>2, <1>3, <3>1
  <2> QED
    BY <1>2, <2>1 DEF IsSimple
<1>5. IsSimple(b)
  <2>1. \A x, y \in 1 .. m : x < y => b[x] # b[y]
    <3> TAKE x \in 1 .. m, y \in 1 .. m
    <3> HAVE x < y
    <3>1. /\ i + x - 1 \in 1 .. k /\ i + y - 1 \in 1 .. k
          /\ i + x - 1 # 1 /\ i + x - 1 < i + y - 1
      BY <1>1
    <3> QED
      BY <1>2, <1>3, <3>1
  <2> QED
    BY <1>2, <2>1 DEF IsSimple
<1>6. InteriorVertices(a) \cap InteriorVertices(b) = {}
  <2> SUFFICES ASSUME NEW x \in 2 .. i - 1, NEW y \in 2 .. m - 1, a[x] = b[y] PROVE FALSE
    BY <1>2 DEF InteriorVertices
  <2>1. /\ x \in 1 .. i /\ x \in 1 .. k /\ y \in 1 .. m
        /\ i + y - 1 \in 1 .. k /\ x < i + y - 1 /\ x # 1
    BY <1>1
  <2> QED
    BY <1>2, <1>3, <2>1
<1>7. SegmentMids(a) \cap SegmentMids(b) = {}
  <2> SUFFICES ASSUME NEW x \in 1 .. i - 1, NEW y \in 1 .. m - 1,
                      Mid(a[x], a[x + 1]) = Mid(b[y], b[y + 1])
               PROVE  FALSE
    BY <1>2 DEF SegmentMids
  <2> DEFINE z == i + y - 1
  <2>1. /\ x \in 1 .. i /\ x + 1 \in 1 .. i /\ x \in 1 .. k /\ x + 1 \in 1 .. k
        /\ y \in 1 .. m /\ y + 1 \in 1 .. m /\ i + (y + 1) - 1 = z + 1
        /\ z \in 1 .. k /\ z + 1 \in 1 .. k
        /\ x + 1 <= z /\ z # k
    BY <1>1
  <2>2. a[x] = c[x] /\ a[x + 1] = c[x + 1] /\ b[y] = c[z] /\ b[y + 1] = c[z + 1]
    <3>1. b[y + 1] = c[i + (y + 1) - 1]
      BY <1>2, <2>1
    <3> QED
      BY <1>2, <2>1, <3>1
  <2>3. (a[x] = b[y] /\ a[x + 1] = b[y + 1]) \/ (a[x] = b[y + 1] /\ a[x + 1] = b[y])
    <3>1. x \in 1 .. Len(a) - 1 /\ y \in 1 .. Len(b) - 1 /\ OnGrid(a) /\ OnGrid(b)
      BY <1>2
    <3>2. Mid(a[x], a[x + 1]) = Mid(b[y], b[y + 1])
      OBVIOUS
    <3> HIDE DEF z
    <3> QED
      BY <3>1, <3>2, SegmentsWithOneMid
  <2> HIDE DEF z
  <2>4. x \in Int /\ z \in Int /\ x < z /\ x < z + 1
    BY <2>1
  <2>5. c[x] # c[z]
    BY <1>3, <2>1, <2>4
  <2>6. c[x] = c[z + 1] /\ c[x + 1] = c[z]
    BY <2>2, <2>3, <2>5
  <2>7. x = 1 /\ z + 1 = k /\ k > 3
    BY <1>3, <2>1, <2>4, <2>6
  <2>8. x + 1 = z
    <3> SUFFICES ASSUME x + 1 # z PROVE FALSE
      OBVIOUS
    <3>1. x + 1 < z
      BY <2>1, <2>4
    <3> QED
      BY <1>3, <2>1, <2>6, <3>1
  <2> QED
    BY <1>1, <2>7, <2>8
<1>8. i \in 1 .. k /\ i \in 2 .. k - 1 /\ 1 \in 1 .. k /\ k \in 1 .. k /\ 1 < i /\ i < k /\ i # k
  BY <1>1
<1>9. c[i] \in InteriorVertices(c) /\ c[i] # c[1] /\ c[i] # c[k]
  <2>1. c[i] # c[1]
    BY <1>3, <1>8
  <2>2. c[i] # c[k]
    BY <1>3, <1>8
  <2> QED
    BY <1>2, <1>8, <2>1, <2>2 DEF InteriorVertices
<1>10. ASSUME c[k] \in Points(a) PROVE c[1] = c[k]
  <2>1. PICK j \in 1 .. i : c[k] = a[j]
    BY <1>2, <1>10, CurveSets
  <2>2. j \in 1 .. k /\ j < k /\ c[j] = c[k]
    BY <1>1, <1>2, <2>1
  <2> QED
    BY <1>3, <1>8, <2>2
<1>11. ASSUME c[1] \in Points(b) PROVE c[1] = c[k]
  <2>1. PICK j \in 1 .. m : c[1] = b[j]
    BY <1>2, <1>11, CurveSets
  <2>2. i + j - 1 \in 1 .. k /\ 1 < i + j - 1 /\ c[1] = c[i + j - 1]
    BY <1>1, <1>2, <2>1
  <2> QED
    BY <1>3, <1>8, <2>2
<1> QED
  BY <1>4, <1>5, <1>6, <1>7, <1>9, <1>10, <1>11 DEF a, b, k, InteriorsMeet

-----------------------------------------------------------------------------
(* Splitting an edge.                                                      *)

\* Where the curves of edges meet is a matter of both
LEMMA MeetingIsMutual ==
  ASSUME NEW c, NEW d
  PROVE  InteriorsMeet(c, d) <=> InteriorsMeet(d, c)
BY DEF InteriorsMeet

\* A curve meets what it lies within meets
LEMMA MeetingIsMonotone ==
  ASSUME NEW a, NEW c, NEW d, InteriorsMeet(d, a),
         SegmentMids(a) \subseteq SegmentMids(c), InteriorVertices(a) \subseteq InteriorVertices(c)
  PROVE  InteriorsMeet(d, c)
BY DEF InteriorsMeet

\* u is t with edge e cut at vertex i: node n is there, edges m0 and m1 are the halves
Splits(t, u, e, i, n, m0, m1) ==
  LET old == t.edge[e]
  IN  /\ n \notin DOMAIN t.node /\ m0 # m1 /\ {m0, m1} \cap (DOMAIN t.edge \ {e}) = {}
      /\ u.seq.face = t.seq.face
      /\ DOMAIN u.node = DOMAIN t.node \cup {n}
      /\ u.node[n].geom = old.geom[i] /\ u.node[n].containing_face = Nowhere
      /\ \A x \in DOMAIN t.node : u.node[x] = t.node[x]
      /\ DOMAIN u.edge = (DOMAIN t.edge \ {e}) \cup {m0, m1}
      /\ \A x \in DOMAIN t.edge \ {e} :
           /\ u.edge[x].start_node = t.edge[x].start_node
           /\ u.edge[x].end_node = t.edge[x].end_node
           /\ u.edge[x].face_left = t.edge[x].face_left
           /\ u.edge[x].face_right = t.edge[x].face_right
           /\ u.edge[x].geom = t.edge[x].geom
      /\ \A x \in {m0, m1} : /\ u.edge[x].face_left = old.face_left
                             /\ u.edge[x].face_right = old.face_right
      /\ u.edge[m0].start_node = old.start_node /\ u.edge[m0].end_node = n
      /\ u.edge[m0].geom = CutBefore(old.geom, i)
      /\ u.edge[m1].start_node = n /\ u.edge[m1].end_node = old.end_node
      /\ u.edge[m1].geom = CutAfter(old.geom, i)

\* A cut leaves sound tables
LEMMA SplitIsSound ==
  ASSUME NEW t, Base(t), Anchored(t), NEW u, Shaped(u), Numbered(u),
         NEW e \in DOMAIN t.edge, NEW i \in 2 .. Len(t.edge[e].geom) - 1,
         NEW n, NEW m0, NEW m1, Splits(t, u, e, i, n, m0, m1)
  PROVE  Base(u) /\ Anchored(u)
<1> DEFINE old == t.edge[e]
           c == old.geom
           a == CutBefore(c, i)
           b == CutAfter(c, i)
<1>1. /\ OnGrid(c) /\ old.start_node \in DOMAIN t.node /\ old.end_node \in DOMAIN t.node
      /\ EndsAtNodes(t, old.start_node, old.end_node, c)
  BY DEF Base, Drawn
<1>2. /\ OnGrid(a) /\ StartPoint(a) = c[1] /\ EndPoint(a) = c[i]
      /\ OnGrid(b) /\ StartPoint(b) = c[i] /\ EndPoint(b) = c[Len(c)]
      /\ c[i] \in Int \X Int
  <2> DEFINE k == Len(c)
             m == k + 1 - i
  <2>1. k \in Nat /\ k > 1 /\ i \in Int /\ 2 <= i /\ i <= k - 1 /\ m \in Int /\ m = k + 1 - i
    BY <1>1, GridFacts
  <2>2. /\ OnGrid(a) /\ Len(a) = i /\ \A j \in 1 .. i : a[j] = c[j]
        /\ OnGrid(b) /\ Len(b) = m /\ \A j \in 1 .. m : b[j] = c[i + j - 1]
    BY <1>1, CutFacts
  <2>3. c[i] \in Int \X Int
    <3>1. i \in 1 .. k
      BY <2>1
    <3> QED
      BY <1>1, <3>1, GridFacts
  <2> HIDE DEF a, b
  <2>4. b[1] = c[i] /\ b[m] = c[k] /\ a[1] = c[1] /\ a[i] = c[i]
    <3>1. 1 \in 1 .. m /\ m \in 1 .. m /\ i + 1 - 1 = i /\ i + m - 1 = k /\ 1 \in 1 .. i /\ i \in 1 .. i
      BY <2>1
    <3> HIDE DEF k, m
    <3>2. b[1] = c[i + 1 - 1] /\ b[m] = c[i + m - 1]
      BY <2>2, <3>1
    <3> QED
      BY <2>2, <3>1, <3>2
  <2> QED
    BY <2>2, <2>3, <2>4 DEF StartPoint, EndPoint
<1> HIDE DEF a, b
<1>3. /\ u.edge[m0].geom = a /\ u.edge[m1].geom = b /\ u.node[n].geom = c[i]
      /\ u.edge[m0].start_node = old.start_node /\ u.edge[m0].end_node = n
      /\ u.edge[m1].start_node = n /\ u.edge[m1].end_node = old.end_node
      /\ n \notin DOMAIN t.node
  BY DEF Splits, a, b
<1>4. Sided(u)
  <2>1. \A x \in DOMAIN u.node : u.node[x].containing_face \in -1 .. u.seq.face
    BY DEF Splits, Base, Sided, Numbered, Nowhere
  <2>2. \A x \in DOMAIN u.edge :
          u.edge[x].face_left \in -1 .. u.seq.face /\ u.edge[x].face_right \in -1 .. u.seq.face
    BY DEF Splits, Base, Sided
  <2> QED
    BY <2>1, <2>2 DEF Sided
<1>5. \A x \in DOMAIN u.node : u.node[x].geom \in Int \X Int
  BY <1>2 DEF Splits, Base, Drawn
<1>6. ASSUME NEW x \in DOMAIN u.edge
      PROVE  /\ u.edge[x].start_node \in DOMAIN u.node /\ u.edge[x].end_node \in DOMAIN u.node
             /\ OnGrid(u.edge[x].geom)
             /\ EndsAtNodes(u, u.edge[x].start_node, u.edge[x].end_node, u.edge[x].geom)
             /\ u.node[u.edge[x].start_node].containing_face = Nowhere
             /\ u.node[u.edge[x].end_node].containing_face = Nowhere
  <2>1. CASE x \in DOMAIN t.edge \ {e}
    BY <2>1 DEF Splits, Base, Drawn, EndsAtNodes, Anchored
  <2>2. CASE x = m0
    BY <1>1, <1>2, <1>3, <2>2 DEF Splits, EndsAtNodes, Anchored, StartPoint
  <2>3. CASE x = m1
    <3> DEFINE en == old.end_node
    <3>1. n \in DOMAIN u.node /\ u.node[n].containing_face = Nowhere
      BY DEF Splits
    <3>2. en \in DOMAIN u.node /\ u.node[en] = t.node[en]
      BY <1>1 DEF Splits
    <3>3. t.node[en].containing_face = Nowhere /\ t.node[en].geom = c[Len(c)]
      BY <1>1 DEF Anchored, EndsAtNodes, EndPoint
    <3>4. EndsAtNodes(u, n, en, b)
      BY <1>2, <1>3, <3>2, <3>3 DEF EndsAtNodes
    <3> QED
      BY <1>2, <1>3, <2>3, <3>1, <3>2, <3>3, <3>4
  <2> QED
    BY <2>1, <2>2, <2>3 DEF Splits
<1> QED
  BY <1>4, <1>5, <1>6 DEF Base, Drawn, Anchored

\* A cut leaves the drawing planar
LEMMA SplitIsApart ==
  ASSUME NEW t, Base(t), Apart(t), NEW u,
         NEW e \in DOMAIN t.edge, NEW i \in 2 .. Len(t.edge[e].geom) - 1,
         NEW n, NEW m0, NEW m1, Splits(t, u, e, i, n, m0, m1)
  PROVE  Apart(u)
<1> DEFINE old == t.edge[e]
           c == old.geom
           a == CutBefore(c, i)
           b == CutAfter(c, i)
           p == c[i]
           sn == old.start_node
           en == old.end_node
<1>1. /\ OnGrid(c) /\ IsSimple(c) /\ sn \in DOMAIN t.node /\ en \in DOMAIN t.node
      /\ c[1] = t.node[sn].geom /\ c[Len(c)] = t.node[en].geom
      /\ CheckEdgeCrossing(t, sn, en, c, e)
  BY DEF Base, Drawn, Apart, EndsAtNodes, StartPoint, EndPoint
<1>2. /\ Points(a) \subseteq Points(c) /\ Points(b) \subseteq Points(c)
      /\ SegmentMids(a) \subseteq SegmentMids(c) /\ SegmentMids(b) \subseteq SegmentMids(c)
      /\ InteriorVertices(a) \subseteq InteriorVertices(c)
      /\ InteriorVertices(b) \subseteq InteriorVertices(c)
  BY <1>1, CutsAreWithin
<1>3. /\ IsSimple(a) /\ IsSimple(b) /\ ~InteriorsMeet(a, b)
      /\ p \in InteriorVertices(c) /\ p # c[1] /\ p # c[Len(c)]
      /\ c[Len(c)] \in Points(a) => c[1] = c[Len(c)]
      /\ c[1] \in Points(b) => c[1] = c[Len(c)]
  BY <1>1, CutsAreApart
<1>4. p \in Points(c)
  BY <1>1, <1>3, CurveSets
<1> HIDE DEF a, b, p
<1>5. /\ u.edge[m0].geom = a /\ u.edge[m1].geom = b /\ u.node[n].geom = p
      /\ u.edge[m0].start_node = sn /\ u.edge[m0].end_node = n
      /\ u.edge[m1].start_node = n /\ u.edge[m1].end_node = en
      /\ n \notin DOMAIN t.node /\ m0 # m1 /\ {m0, m1} \cap (DOMAIN t.edge \ {e}) = {}
      /\ DOMAIN u.node = DOMAIN t.node \cup {n}
      /\ \A x \in DOMAIN t.node : u.node[x] = t.node[x]
      /\ DOMAIN u.edge = (DOMAIN t.edge \ {e}) \cup {m0, m1}
      /\ \A x \in DOMAIN t.edge \ {e} : /\ u.edge[x].start_node = t.edge[x].start_node
                                        /\ u.edge[x].end_node = t.edge[x].end_node
                                        /\ u.edge[x].geom = t.edge[x].geom
  BY DEF Splits, a, b, p
<1> HIDE DEF c
<1>6. \A x \in DOMAIN t.node : t.node[x].geom # p
  BY <1>1, <1>3, <1>4 DEF CheckEdgeCrossing
<1>7. \A x, y \in DOMAIN u.node : u.node[x].geom = u.node[y].geom => x = y
  BY <1>5, <1>6 DEF Apart
<1>8. \A x \in DOMAIN u.edge : IsSimple(u.edge[x].geom)
  BY <1>3, <1>5 DEF Apart
<1>9. ASSUME NEW x \in DOMAIN t.edge \ {e}
      PROVE  /\ p \notin Points(t.edge[x].geom)
             /\ ~InteriorsMeet(t.edge[x].geom, a) /\ ~InteriorsMeet(a, t.edge[x].geom)
             /\ ~InteriorsMeet(t.edge[x].geom, b) /\ ~InteriorsMeet(b, t.edge[x].geom)
  <2> DEFINE d == t.edge[x].geom
  <2>1. /\ OnGrid(d) /\ t.edge[x].start_node \in DOMAIN t.node /\ t.edge[x].end_node \in DOMAIN t.node
        /\ d[1] = t.node[t.edge[x].start_node].geom /\ d[Len(d)] = t.node[t.edge[x].end_node].geom
        /\ ~InteriorsMeet(d, c)
    BY DEF Base, Drawn, Apart, EndsAtNodes, StartPoint, EndPoint, CheckEdgeCrossing, c
  <2> HIDE DEF d
  <2>2. p \notin InteriorVertices(d)
    BY <1>3, <2>1 DEF InteriorsMeet
  <2>3. p \notin Points(d)
    BY <1>6, <2>1, <2>2, CurveSets
  <2>4. ~InteriorsMeet(d, a) /\ ~InteriorsMeet(d, b)
    BY <1>2, <2>1, MeetingIsMonotone
  <2> QED
    BY <2>3, <2>4, MeetingIsMutual DEF d
<1>10. ASSUME NEW x \in DOMAIN u.edge
       PROVE  \A y \in DOMAIN u.node \ {u.edge[x].start_node, u.edge[x].end_node} :
                u.node[y].geom \notin Points(u.edge[x].geom)
  <2>1. CASE x \in DOMAIN t.edge \ {e}
    BY <1>5, <1>9, <2>1 DEF Apart, CheckEdgeCrossing
  <2>2. CASE x = m0
    <3>1. \A y \in DOMAIN t.node \ {sn} : t.node[y].geom \notin Points(a)
      BY <1>1, <1>2, <1>3 DEF Apart, CheckEdgeCrossing
    <3> QED
      BY <1>5, <2>2, <3>1
  <2>3. CASE x = m1
    <3>1. \A y \in DOMAIN t.node \ {en} : t.node[y].geom \notin Points(b)
      BY <1>1, <1>2, <1>3 DEF Apart, CheckEdgeCrossing
    <3> QED
      BY <1>5, <2>3, <3>1
  <2> QED
    BY <1>5, <2>1, <2>2, <2>3
<1>11. \A x \in DOMAIN u.edge : \A y \in DOMAIN u.edge \ {x} :
         ~InteriorsMeet(u.edge[x].geom, u.edge[y].geom)
  <2> TAKE x \in DOMAIN u.edge
  <2> TAKE y \in DOMAIN u.edge \ {x}
  <2>1. CASE x \in DOMAIN t.edge \ {e} /\ y \in DOMAIN t.edge \ {e}
    BY <1>5, <2>1 DEF Apart, CheckEdgeCrossing
  <2>2. CASE x \in DOMAIN t.edge \ {e} /\ y \in {m0, m1}
    BY <1>5, <1>9, <2>2
  <2>3. CASE x \in {m0, m1} /\ y \in DOMAIN t.edge \ {e}
    BY <1>5, <1>9, <2>3
  <2>4. CASE x \in {m0, m1} /\ y \in {m0, m1}
    BY <1>3, <1>5, <2>4, MeetingIsMutual
  <2> QED
    BY <1>5, <2>1, <2>2, <2>3, <2>4
<1> QED
  BY <1>7, <1>8, <1>10, <1>11 DEF Apart, CheckEdgeCrossing

\* The tables that SplitsAt and the updates of a split are about
LEMMA SplitsAtFacts ==
  ASSUME NEW e \in DOMAIN edge, NEW i, SplitsAt(e, i)
  PROVE  i \in 2 .. Len(Tables.edge[e].geom) - 1
BY TablesFacts DEF SplitsAt

\* New ids are new
LEMMA NewIdsAreNew ==
  ASSUME NEW t, Numbered(t)
  PROVE  /\ NewNode(t) \in Nat /\ NewNode(t) > 0 /\ NewNode(t) \notin DOMAIN t.node
         /\ NewEdge(t) \in Nat /\ NewEdge(t) > 0 /\ NewEdge(t) \notin DOMAIN t.edge
         /\ NewEdge(t) + 1 \notin DOMAIN t.edge
BY DEF Numbered, NewNode, NewEdge

\* The rows of a TopoGeometry made of the edge take up the second half
LEMMA EdgeSplitKeepsNames ==
  ASSUME NEW t, Numbered(t), Named(t), NEW v, Shaped(v), v.relation = t.relation,
         DOMAIN t.node \subseteq DOMAIN v.node, DOMAIN t.face \subseteq DOMAIN v.face,
         DOMAIN t.edge \subseteq DOMAIN v.edge, NEW e, NEW m \in DOMAIN v.edge, m \in Nat
  PROVE  LET u == UpdateTopoGeomEdgeSplit(v, e, m, -1)
         IN  /\ Named(u) /\ DOMAIN u = DOMAIN v /\ u.err = v.err
             /\ u.node = v.node /\ u.edge = v.edge /\ u.face = v.face /\ u.seq = v.seq
<1> DEFINE rows == Uses(v, 2, {e})
           u == UpdateTopoGeomEdgeSplit(v, e, m, -1)
<1>1. /\ DOMAIN u = DOMAIN v /\ u.err = v.err
      /\ u.node = v.node /\ u.edge = v.edge /\ u.face = v.face /\ u.seq = v.seq
      /\ u.relation = v.relation \cup {WithId(r, m) : r \in rows}
  BY DEF UpdateTopoGeomEdgeSplit, Shaped
<1> HIDE DEF u
<1>2. \A r \in rows : r \in t.relation /\ r.type = 2
  BY DEF Uses
<1> HIDE DEF rows
<1>3. ASSUME NEW r \in rows
      PROVE  LET w == WithId(r, m) IN DOMAIN w = {"tg", "type", "id"} /\ w.type = 2
                                      /\ w.id \in {m, -m} /\ w.type = Kind[w.tg]
  <2>1. r.id \in Int /\ DOMAIN r = {"tg", "type", "id"} /\ r.type = Kind[r.tg]
    BY <1>2, RowFacts
  <2>2. WithId(r, m) \in {[r EXCEPT !.id = m], [r EXCEPT !.id = -m]}
    BY <2>1 DEF WithId
  <2> QED
    BY <1>2, <2>1, <2>2
<1>4. \A r \in t.relation : DOMAIN r = {"tg", "type", "id"} /\ r.type = Kind[r.tg] /\ Names(u, r)
  BY <1>1 DEF Named, Names
<1>5. Named(u)
  BY <1>1, <1>3, <1>4 DEF Named, Names, Abs
<1> QED
  BY <1>1, <1>5 DEF u

\* An edge cut in two, the first half under the id it had
LEMMA CutInTwoFacts ==
  ASSUME NEW t, Sound(t), NEW e \in DOMAIN t.edge, NEW i \in 2 .. Len(t.edge[e].geom) - 1
  PROVE  LET u == CutInTwo(t, e, i)
         IN  /\ Sound(u) /\ (Apart(t) => Apart(u)) /\ u.err = t.err
             /\ Splits(t, u, e, i, NewNode(t), e, NewEdge(t))
<1> DEFINE old == t.edge[e]
           n == NewNode(t)
           m == NewEdge(t)
           t0 == InsertNode(t, old.geom[i], Nowhere)
           new == [old EXCEPT !.start_node = n,
                              !.next_left = IF @ = -e THEN -m ELSE @,
                              !.next_right = -e,
                              !.geom = CutAfter(@, i)]
           t1 == InsertEdge(t0, new)
           t2 == [t1 EXCEPT !.edge[e].geom = CutBefore(@, i),
                            !.edge[e].next_left = m,
                            !.edge[e].end_node = n]
           t3 == RedirectRight(t2, -e, {old.end_node}, -m, m)
           t4 == RedirectLeft(t3, -e, {old.end_node}, -m, m)
           u == UpdateTopoGeomEdgeSplit(t4, e, m, -1)
<1>1. u = CutInTwo(t, e, i)
  BY DEF CutInTwo
<1>2. Sound(t) /\ Base(t) /\ Shaped(t) /\ Numbered(t) /\ Named(t) /\ Anchored(t)
  BY DEF Sound, Base
<1>3. /\ n \in Nat /\ n > 0 /\ n \notin DOMAIN t.node
      /\ m \in Nat /\ m > 0 /\ m \notin DOMAIN t.edge
      /\ n = t.seq.node + 1 /\ m = t.seq.edge + 1
  BY <1>2, NewIdsAreNew DEF NewNode, NewEdge
<1>4. /\ DOMAIN t0 = DOMAIN t /\ DOMAIN t0.seq = DOMAIN t.seq
      /\ t0.seq.node = n /\ t0.seq.edge = t.seq.edge /\ t0.seq.face = t.seq.face
      /\ DOMAIN t0.node = DOMAIN t.node \cup {n}
      /\ t0.node[n] = [geom |-> old.geom[i], containing_face |-> Nowhere]
      /\ \A x \in DOMAIN t.node : t0.node[x] = t.node[x]
      /\ t0.edge = t.edge /\ t0.face = t.face /\ t0.relation = t.relation
  BY <1>2, <1>3 DEF Shaped, InsertNode, NewNode, With
<1>a. t0.err = t.err
  BY <1>2 DEF Shaped, InsertNode
<1> HIDE DEF n
<1>5. NewEdge(t0) = m
  BY <1>4 DEF NewEdge
<1>6. /\ DOMAIN new = DOMAIN old
      /\ new.start_node = n /\ new.end_node = old.end_node /\ new.geom = CutAfter(old.geom, i)
      /\ new.face_left = old.face_left /\ new.face_right = old.face_right
  BY <1>1, <1>2 DEF Shaped
<1> HIDE DEF t0, new
<1>7. /\ DOMAIN t1 = DOMAIN t0 /\ DOMAIN t1.seq = DOMAIN t0.seq
      /\ t1.seq.node = t0.seq.node /\ t1.seq.edge = m /\ t1.seq.face = t0.seq.face
      /\ DOMAIN t1.edge = DOMAIN t0.edge \cup {m}
      /\ t1.edge[m] = new
      /\ \A x \in DOMAIN t0.edge : t1.edge[x] = t0.edge[x]
      /\ t1.node = t0.node /\ t1.face = t0.face /\ t1.relation = t0.relation
      /\ t1.err = t0.err
  <2>1. t0.seq.edge + 1 = m
    BY <1>3, <1>4
  <2> HIDE DEF m
  <2> QED
    BY <1>2, <1>3, <1>4, <1>5, <2>1 DEF Shaped, InsertEdge, With
<1> HIDE DEF t1, m
<1>8. e \in DOMAIN t1.edge /\ e # m /\ t1.edge[e] = old
  BY <1>1, <1>3, <1>4, <1>7
<1>9. DOMAIN old = {"start_node", "end_node", "next_left", "next_right",
                    "face_left", "face_right", "geom"}
  BY <1>1, <1>2 DEF Shaped
<1>10. /\ DOMAIN t2 = DOMAIN t /\ t2.seq = t1.seq /\ t2.node = t0.node /\ t2.face = t.face
       /\ t2.relation = t.relation /\ t2.err = t1.err
       /\ DOMAIN t2.edge = DOMAIN t.edge \cup {m}
       /\ \A x \in DOMAIN t2.edge \ {e} : t2.edge[x] = t1.edge[x]
       /\ DOMAIN t2.edge[e] = DOMAIN old
       /\ t2.edge[e].start_node = old.start_node /\ t2.edge[e].end_node = n
       /\ t2.edge[e].geom = CutBefore(old.geom, i)
       /\ t2.edge[e].face_left = old.face_left /\ t2.edge[e].face_right = old.face_right
  BY <1>2, <1>4, <1>7, <1>8, <1>9 DEF Shaped
<1> HIDE DEF t2, old
<1>11. Shaped(t2)
  <2>1. \A x \in DOMAIN t2.node : DOMAIN t2.node[x] = {"geom", "containing_face"}
    BY <1>2, <1>4, <1>10 DEF Shaped
  <2>2. \A x \in DOMAIN t2.edge : DOMAIN t2.edge[x] = DOMAIN old
    BY <1>2, <1>4, <1>6, <1>7, <1>8, <1>9, <1>10 DEF Shaped
  <2> QED
    BY <1>2, <1>4, <1>7, <1>9, <1>10, <2>1, <2>2 DEF Shaped
<1>12. LinksOnly(t2, t3)
  BY <1>11, RedirectLinksOnly
<1>13. Shaped(t3)
  BY <1>12 DEF LinksOnly
<1> HIDE DEF t3
<1>14. LinksOnly(t2, t4)
  BY <1>12, <1>13, RedirectLinksOnly, LinksOnlyComposes
<1> HIDE DEF t4
<1>15. /\ Shaped(t4) /\ t4.node = t0.node /\ t4.face = t.face /\ t4.relation = t.relation
       /\ t4.seq.node = n /\ t4.seq.edge = m /\ t4.seq.face = t.seq.face
       /\ DOMAIN t4.edge = DOMAIN t.edge \cup {m}
  BY <1>4, <1>7, <1>10, <1>14 DEF LinksOnly
<1>16. /\ Named(u) /\ DOMAIN u = DOMAIN t4 /\ u.err = t4.err
       /\ u.node = t4.node /\ u.edge = t4.edge /\ u.face = t4.face /\ u.seq = t4.seq
  BY <1>2, <1>3, <1>4, <1>15, EdgeSplitKeepsNames
<1> HIDE DEF u
<1>17. Shaped(u)
  BY <1>15, <1>16 DEF Shaped
<1>18. Numbered(u)
  <2>1. /\ u.seq.node = n /\ u.seq.edge = m /\ u.seq.face = t.seq.face /\ u.face = t.face
        /\ DOMAIN u.node = DOMAIN t.node \cup {n} /\ DOMAIN u.edge = DOMAIN t.edge \cup {m}
    BY <1>4, <1>15, <1>16
  <2>2. /\ DOMAIN t.node \subseteq 1 .. n /\ DOMAIN t.edge \subseteq 1 .. m
        /\ t.seq.face \in Nat /\ DOMAIN t.face \subseteq 1 .. t.seq.face
    BY <1>2, <1>3 DEF Numbered
  <2> QED
    BY <1>3, <2>1, <2>2 DEF Numbered
<1>19. Splits(t, u, e, i, n, e, m)
  <2>1. /\ n \notin DOMAIN t.node /\ e # m /\ {e, m} \cap (DOMAIN t.edge \ {e}) = {}
        /\ u.seq.face = t.seq.face
        /\ DOMAIN u.node = DOMAIN t.node \cup {n}
        /\ u.node[n].geom = old.geom[i] /\ u.node[n].containing_face = Nowhere
        /\ \A x \in DOMAIN t.node : u.node[x] = t.node[x]
        /\ DOMAIN u.edge = (DOMAIN t.edge \ {e}) \cup {e, m}
    BY <1>1, <1>3, <1>4, <1>8, <1>15, <1>16
  <2>2. \A x \in DOMAIN t.edge \ {e} : t2.edge[x] = t.edge[x]
    BY <1>4, <1>7, <1>10
  <2>3. t2.edge[m] = new
    BY <1>7, <1>8, <1>10
  <2>4. \A x \in DOMAIN t2.edge : /\ u.edge[x].start_node = t2.edge[x].start_node
                                  /\ u.edge[x].end_node = t2.edge[x].end_node
                                  /\ u.edge[x].face_left = t2.edge[x].face_left
                                  /\ u.edge[x].face_right = t2.edge[x].face_right
                                  /\ u.edge[x].geom = t2.edge[x].geom
    BY <1>14, <1>16 DEF LinksOnly
  <2>5. e \in DOMAIN t2.edge /\ m \in DOMAIN t2.edge
    BY <1>1, <1>10
  <2>6. \A x \in DOMAIN t.edge \ {e} : /\ u.edge[x].start_node = t.edge[x].start_node
                                       /\ u.edge[x].end_node = t.edge[x].end_node
                                       /\ u.edge[x].face_left = t.edge[x].face_left
                                       /\ u.edge[x].face_right = t.edge[x].face_right
                                       /\ u.edge[x].geom = t.edge[x].geom
    BY <1>10, <2>2, <2>4
  <2> QED
    BY <1>6, <1>10, <2>1, <2>3, <2>4, <2>5, <2>6 DEF Splits, old
<1>20. Base(u) /\ Anchored(u) /\ (Apart(t) => Apart(u))
  BY <1>1, <1>2, <1>17, <1>18, <1>19, SplitIsSound, SplitIsApart
<1>21. u.err = t.err
  BY <1>a, <1>7, <1>10, <1>14, <1>16 DEF LinksOnly
<1> QED
  BY <1>1, <1>16, <1>19, <1>20, <1>21 DEF Sound, n, m

\* ST_ModEdgeSplit
LEMMA ModEdgeSplitKeepsInv ==
  ASSUME Inv, NEW e \in DOMAIN edge, NEW i, ModEdgeSplit(e, i)
  PROVE  Inv' /\ (Apart(Tables) => Apart(Tables)')
<1>1. /\ Finish(CutInTwo(Tables, e, i)) /\ i \in 2 .. Len(Tables.edge[e].geom) - 1
      /\ e \in DOMAIN Tables.edge
  BY SplitsAtFacts, TablesFacts DEF ModEdgeSplit
<1> QED
  BY <1>1, CutInTwoFacts, FinishKeepsInv DEF Inv

\* An edge replaced by two; a call on the edge of a lineal TopoGeometry fails in SQL
LEMMA NewEdgesSplitKeepsInv ==
  ASSUME Inv, NEW e \in DOMAIN edge, NEW i, NewEdgesSplit(e, i)
  PROVE  Inv' /\ (Apart(Tables) => Apart(Tables)')
<1> DEFINE t == Tables
           old == t.edge[e]
           n == NewNode(t)
           m0 == NewEdge(t)
           m1 == m0 + 1
           first == [old EXCEPT !.end_node = n,
                                !.next_left = m1,
                                !.next_right = CASE @ = e -> m0 [] @ = -e -> -m1 [] OTHER -> @,
                                !.geom = CutBefore(@, i)]
           second == [old EXCEPT !.start_node = n,
                                 !.next_right = -m0,
                                 !.next_left = CASE @ = -e -> -m1 [] @ = e -> m0 [] OTHER -> @,
                                 !.geom = CutAfter(@, i)]
           t0 == InsertNode(t, old.geom[i], Nowhere)
           t1 == DeleteEdges(t0, {e})
           s1 == InsertEdge(t1, first)
           t2 == InsertEdge(s1, second)
           t3 == ReplaceLinks(t2, e, old.start_node, old.end_node, m0, m1)
           u == UpdateTopoGeomEdgeSplit(t3, e, m0, m1)
<1>1. Finish(u) /\ i \in 2 .. Len(t.edge[e].geom) - 1 /\ e \in DOMAIN t.edge
  BY SplitsAtFacts, TablesFacts DEF NewEdgesSplit
<1>2. Sound(t) /\ Base(t) /\ Shaped(t) /\ Numbered(t) /\ Named(t) /\ Anchored(t)
  BY DEF Inv, Sound, Base
<1> HIDE DEF t
<1>3. /\ n \in Nat /\ n > 0 /\ n \notin DOMAIN t.node
      /\ m0 \in Nat /\ m0 > 0 /\ m0 \notin DOMAIN t.edge
      /\ m1 \in Nat /\ m1 > 0 /\ m1 \notin DOMAIN t.edge /\ m0 # m1 /\ m1 # -1
      /\ n = t.seq.node + 1 /\ m0 = t.seq.edge + 1 /\ m1 = t.seq.edge + 2
  BY <1>2, NewIdsAreNew DEF NewNode, NewEdge, Numbered
<1>4. /\ DOMAIN t0 = DOMAIN t /\ DOMAIN t0.seq = DOMAIN t.seq
      /\ t0.seq.node = n /\ t0.seq.edge = t.seq.edge /\ t0.seq.face = t.seq.face
      /\ DOMAIN t0.node = DOMAIN t.node \cup {n}
      /\ t0.node[n] = [geom |-> old.geom[i], containing_face |-> Nowhere]
      /\ \A x \in DOMAIN t.node : t0.node[x] = t.node[x]
      /\ t0.edge = t.edge /\ t0.face = t.face /\ t0.relation = t.relation
  BY <1>2, <1>3 DEF Shaped, InsertNode, NewNode, With
<1> HIDE DEF n
<1>5. DOMAIN old = {"start_node", "end_node", "next_left", "next_right",
                    "face_left", "face_right", "geom"}
  BY <1>1, <1>2 DEF Shaped
<1>6. /\ DOMAIN first = DOMAIN old
      /\ first.start_node = old.start_node /\ first.end_node = n
      /\ first.geom = CutBefore(old.geom, i)
      /\ first.face_left = old.face_left /\ first.face_right = old.face_right
  BY <1>5
<1>7. /\ DOMAIN second = DOMAIN old
      /\ second.start_node = n /\ second.end_node = old.end_node
      /\ second.geom = CutAfter(old.geom, i)
      /\ second.face_left = old.face_left /\ second.face_right = old.face_right
  BY <1>5
<1> HIDE DEF t0, first, second
<1>8. /\ DOMAIN t1 = DOMAIN t /\ t1.seq = t0.seq /\ t1.node = t0.node /\ t1.face = t.face
      /\ t1.relation = t.relation
      /\ DOMAIN t1.edge = DOMAIN t.edge \ {e}
      /\ \A x \in DOMAIN t.edge \ {e} : t1.edge[x] = t.edge[x]
  BY <1>2, <1>4 DEF Shaped, DeleteEdges, Without
<1>9. m0 = t.seq.edge + 1 /\ m1 = t.seq.edge + 2
  BY <1>3
<1> HIDE DEF t1, m0, m1
<1>10. /\ DOMAIN s1 = DOMAIN t /\ DOMAIN s1.seq = DOMAIN t.seq
       /\ s1.seq.node = n /\ s1.seq.edge = m0 /\ s1.seq.face = t.seq.face
       /\ DOMAIN s1.edge = (DOMAIN t.edge \ {e}) \cup {m0}
       /\ s1.edge[m0] = first
       /\ \A x \in DOMAIN t.edge \ {e} : s1.edge[x] = t.edge[x]
       /\ s1.node = t0.node /\ s1.face = t.face /\ s1.relation = t.relation
  <2>1. NewEdge(t1) = m0 /\ t1.seq.edge + 1 = m0
    BY <1>3, <1>4, <1>8 DEF NewEdge
  <2> QED
    BY <1>2, <1>3, <1>4, <1>8, <2>1 DEF Shaped, InsertEdge, With
<1> HIDE DEF s1
<1>11. /\ DOMAIN t2 = DOMAIN t /\ DOMAIN t2.seq = DOMAIN t.seq
       /\ t2.seq.node = n /\ t2.seq.edge = m1 /\ t2.seq.face = t.seq.face
       /\ DOMAIN t2.edge = (DOMAIN t.edge \ {e}) \cup {m0, m1}
       /\ t2.edge[m0] = first /\ t2.edge[m1] = second
       /\ \A x \in DOMAIN t.edge \ {e} : t2.edge[x] = t.edge[x]
       /\ t2.node = t0.node /\ t2.face = t.face /\ t2.relation = t.relation
  <2>1. NewEdge(s1) = m1 /\ s1.seq.edge + 1 = m1
    BY <1>10 DEF NewEdge, m1
  <2> QED
    BY <1>2, <1>3, <1>10, <2>1 DEF Shaped, InsertEdge, With
<1> HIDE DEF t2, old
<1>12. Shaped(t2)
  <2>1. \A x \in DOMAIN t2.node : DOMAIN t2.node[x] = {"geom", "containing_face"}
    BY <1>2, <1>4, <1>11 DEF Shaped
  <2>2. \A x \in DOMAIN t2.edge : DOMAIN t2.edge[x] = DOMAIN old
    BY <1>2, <1>5, <1>6, <1>7, <1>11 DEF Shaped
  <2> QED
    BY <1>2, <1>5, <1>11, <2>1, <2>2 DEF Shaped
<1>13. LinksOnly(t2, t3)
  <2> DEFINE sn == old.start_node
             en == old.end_node
             r1 == RedirectRight(t2, e, {sn}, m1, 0)
             r2 == RedirectRight(r1, -e, {en}, -m0, 0)
             r3 == RedirectLeft(r2, e, {sn}, m0, 0)
  <2>1. LinksOnly(t2, r1) /\ Shaped(r1)
    BY <1>12, RedirectLinksOnly DEF LinksOnly
  <2> HIDE DEF r1
  <2>2. LinksOnly(t2, r2) /\ Shaped(r2)
    BY <2>1, RedirectLinksOnly, LinksOnlyComposes DEF LinksOnly
  <2> HIDE DEF r2
  <2>3. LinksOnly(t2, r3) /\ Shaped(r3)
    BY <2>2, RedirectLinksOnly, LinksOnlyComposes DEF LinksOnly
  <2>4. t3 = RedirectLeft(r3, -e, {en}, -m1, 0)
    BY DEF ReplaceLinks, r1, r2
  <2> HIDE DEF r3, t3
  <2> QED
    BY <2>3, <2>4, RedirectLinksOnly, LinksOnlyComposes
<1> HIDE DEF t3
<1>14. /\ Shaped(t3) /\ t3.node = t0.node /\ t3.face = t.face /\ t3.relation = t.relation
       /\ t3.seq.node = n /\ t3.seq.edge = m1 /\ t3.seq.face = t.seq.face
       /\ DOMAIN t3.edge = (DOMAIN t.edge \ {e}) \cup {m0, m1}
  BY <1>11, <1>13 DEF LinksOnly
<1>15. CASE Uses(t3, 2, {e}) # {}
  <2>1. u.err # "done"
    BY <1>3, <1>14, <1>15, FailIsNotDone DEF UpdateTopoGeomEdgeSplit
  <2> QED
    BY <1>1, <2>1, FinishKeepsInv
<1>16. CASE Uses(t3, 2, {e}) = {}
  <2>1. u = t3
    BY <1>3, <1>16 DEF UpdateTopoGeomEdgeSplit
  <2> HIDE DEF u
  <2>2. Numbered(u)
    BY <1>2, <1>3, <1>4, <1>14, <2>1 DEF Numbered
  <2>3. Splits(t, u, e, i, n, m0, m1)
    <3>1. /\ n \notin DOMAIN t.node /\ m0 # m1 /\ {m0, m1} \cap (DOMAIN t.edge \ {e}) = {}
          /\ u.seq.face = t.seq.face
          /\ DOMAIN u.node = DOMAIN t.node \cup {n}
          /\ u.node[n].geom = old.geom[i] /\ u.node[n].containing_face = Nowhere
          /\ \A x \in DOMAIN t.node : u.node[x] = t.node[x]
          /\ DOMAIN u.edge = (DOMAIN t.edge \ {e}) \cup {m0, m1}
      BY <1>3, <1>4, <1>14, <2>1
    <3>2. \A x \in DOMAIN t2.edge : /\ u.edge[x].start_node = t2.edge[x].start_node
                                    /\ u.edge[x].end_node = t2.edge[x].end_node
                                    /\ u.edge[x].face_left = t2.edge[x].face_left
                                    /\ u.edge[x].face_right = t2.edge[x].face_right
                                    /\ u.edge[x].geom = t2.edge[x].geom
      BY <1>13, <2>1 DEF LinksOnly
    <3>3. \A x \in DOMAIN t.edge \ {e} : /\ u.edge[x].start_node = t.edge[x].start_node
                                         /\ u.edge[x].end_node = t.edge[x].end_node
                                         /\ u.edge[x].face_left = t.edge[x].face_left
                                         /\ u.edge[x].face_right = t.edge[x].face_right
                                         /\ u.edge[x].geom = t.edge[x].geom
      BY <1>11, <3>2
    <3>4. m0 \in DOMAIN t2.edge /\ m1 \in DOMAIN t2.edge
      BY <1>11
    <3> QED
      BY <1>6, <1>7, <1>11, <3>1, <3>2, <3>3, <3>4 DEF Splits, old
  <2>4. Named(u)
    <3>1. \A r \in t.relation : r.type = 2 => Abs(r.id) # e
      <4>1. Uses(t, 2, {e}) = {}
        BY <1>14, <1>16 DEF Uses
      <4> QED
        BY <1>2, <4>1, UnusedIsUnnamed
    <3> QED
      BY <1>2, <1>4, <1>14, <2>1, <3>1 DEF Named, Names
  <2>5. Base(u) /\ Anchored(u) /\ (Apart(t) => Apart(u))
    BY <1>1, <1>2, <1>14, <2>1, <2>2, <2>3, SplitIsSound, SplitIsApart
  <2> QED
    BY <1>1, <2>4, <2>5, FinishKeepsInv DEF t, Sound
<1> QED
  BY <1>15, <1>16

-----------------------------------------------------------------------------
(* Curves that are walked backward and joined.                             *)

\* A curve walked backward meets the same
LEMMA BackwardFacts ==
  ASSUME NEW c, OnGrid(c)
  PROVE  LET b == Backward(c)
         IN  /\ OnGrid(b) /\ Len(b) = Len(c)
             /\ \A j \in 1 .. Len(c) : b[j] = c[Len(c) + 1 - j]
             /\ Points(b) = Points(c) /\ SegmentMids(b) = SegmentMids(c)
             /\ InteriorVertices(b) = InteriorVertices(c)
             /\ IsSimple(c) => IsSimple(b)
<1> DEFINE b == Backward(c)
           k == Len(c)
<1>1. /\ c \in Seq(LatticePoints) /\ k \in Nat /\ k > 1 /\ DOMAIN c = 1 .. k /\ Len(c) = k
      /\ \A j \in 1 .. k : c[j][1] \in Int /\ c[j][2] \in Int
  BY GridFacts DEF OnGrid
<1>2. \A j \in 1 .. k - 1 : <<c[j + 1][1] - c[j][1], c[j + 1][2] - c[j][2]>>
                              \in {<<2, 0>>, <<-2, 0>>, <<0, 2>>, <<0, -2>>}
  BY DEF OnGrid, IsCurve
<1>3. b = [j \in 1 .. k |-> c[k + 1 - j]]
  BY <1>1 DEF Backward
<1>4. \A j \in 1 .. k : k + 1 - j \in 1 .. k
  BY <1>1
<1>5. b \in Seq(LatticePoints) /\ Len(b) = k /\ DOMAIN b = 1 .. k
  <2> HIDE DEF b, k
  <2>1. \A j \in 1 .. k : c[k + 1 - j] \in LatticePoints
    BY <1>1, <1>4
  <2>2. b \in [1 .. k -> LatticePoints]
    BY <1>3, <2>1
  <2> QED
    BY <1>1, <2>2
<1>6. \A j \in 1 .. k : b[j] = c[k + 1 - j]
  BY <1>3
<1> HIDE DEF b, k
<1>7. \A j \in 1 .. k - 1 : /\ k - j \in 1 .. k - 1 /\ j \in 1 .. k /\ j + 1 \in 1 .. k
                            /\ k - j \in 1 .. k /\ k - j + 1 \in 1 .. k
                            /\ k + 1 - j = k - j + 1 /\ k + 1 - (j + 1) = k - j
  BY <1>1
<1>8. \A j \in 1 .. k - 1 : b[j] = c[k - j + 1] /\ b[j + 1] = c[k - j]
  BY <1>6, <1>7
<1>9. OnGrid(b)
  <2>1. ASSUME NEW j \in 1 .. k - 1
        PROVE  <<b[j + 1][1] - b[j][1], b[j + 1][2] - b[j][2]>>
                 \in {<<2, 0>>, <<-2, 0>>, <<0, 2>>, <<0, -2>>}
    <3> DEFINE h == k - j
    <3>1. h \in 1 .. k - 1 /\ h \in 1 .. k /\ h + 1 \in 1 .. k /\ b[j] = c[h + 1] /\ b[j + 1] = c[h]
      BY <1>7, <1>8
    <3> HIDE DEF h
    <3>2. <<c[h + 1][1] - c[h][1], c[h + 1][2] - c[h][2]>>
            \in {<<2, 0>>, <<-2, 0>>, <<0, 2>>, <<0, -2>>}
      BY <1>2, <3>1
    <3>3. /\ c[h][1] \in Int /\ c[h][2] \in Int /\ c[h + 1][1] \in Int /\ c[h + 1][2] \in Int
      BY <1>1, <3>1
    <3> QED
      BY <3>1, <3>2, <3>3
  <2>2. IsCurve(b)
    <3>1. Len(b) = k /\ k > 1
      BY <1>1, <1>5
    <3> QED
      BY <2>1, <3>1 DEF IsCurve
  <2> QED
    BY <1>5, <2>2 DEF OnGrid
<1>10. Points(b) = Points(c)
  <2>1. Points(b) = {b[j] : j \in 1 .. k} /\ Points(c) = {c[j] : j \in 1 .. k}
    BY <1>1, <1>5 DEF Points
  <2>2. \A j \in 1 .. k : b[j] = c[k + 1 - j] /\ c[j] = b[k + 1 - j] /\ k + 1 - j \in 1 .. k
    <3> TAKE j \in 1 .. k
    <3>1. k + 1 - j \in 1 .. k /\ k + 1 - (k + 1 - j) = j
      BY <1>1
    <3> QED
      BY <1>6, <3>1
  <2> QED
    BY <2>1, <2>2
<1>11. InteriorVertices(b) = InteriorVertices(c)
  <2>1. InteriorVertices(b) = {b[j] : j \in 2 .. k - 1} /\ InteriorVertices(c) = {c[j] : j \in 2 .. k - 1}
    BY <1>1, <1>5 DEF InteriorVertices
  <2>2. \A j \in 2 .. k - 1 : b[j] = c[k + 1 - j] /\ c[j] = b[k + 1 - j] /\ k + 1 - j \in 2 .. k - 1
    <3> TAKE j \in 2 .. k - 1
    <3>1. j \in 1 .. k /\ k + 1 - j \in 2 .. k - 1 /\ k + 1 - j \in 1 .. k /\ k + 1 - (k + 1 - j) = j
      BY <1>1
    <3> QED
      BY <1>6, <3>1
  <2> QED
    BY <2>1, <2>2
<1>12. SegmentMids(b) = SegmentMids(c)
  <2>1. /\ SegmentMids(b) = {Mid(b[j], b[j + 1]) : j \in 1 .. k - 1}
        /\ SegmentMids(c) = {Mid(c[j], c[j + 1]) : j \in 1 .. k - 1}
    BY <1>1, <1>5 DEF SegmentMids
  <2>2. ASSUME NEW j \in 1 .. k - 1
        PROVE  k - j \in 1 .. k - 1 /\ Mid(b[j], b[j + 1]) = Mid(c[k - j], c[k - j + 1])
    <3> DEFINE h == k - j
    <3>1. h \in 1 .. k - 1 /\ h \in 1 .. k /\ h + 1 \in 1 .. k /\ b[j] = c[h + 1] /\ b[j + 1] = c[h]
      BY <1>7, <1>8
    <3> HIDE DEF h
    <3>2. /\ c[h][1] \in Int /\ c[h][2] \in Int /\ c[h + 1][1] \in Int /\ c[h + 1][2] \in Int
      BY <1>1, <3>1
    <3>3. Mid(c[h + 1], c[h]) = Mid(c[h], c[h + 1])
      BY <3>2 DEF Mid
    <3> QED
      BY <3>1, <3>3 DEF h
  <2>3. ASSUME NEW j \in 1 .. k - 1
        PROVE  \E h \in 1 .. k - 1 : Mid(c[j], c[j + 1]) = Mid(b[h], b[h + 1])
    <3> DEFINE h == k - j
    <3>1. h \in 1 .. k - 1 /\ k - h = j
      BY <1>1
    <3> HIDE DEF h
    <3> QED
      BY <2>2, <3>1
  <2> QED
    BY <2>1, <2>2, <2>3
<1>13. ASSUME IsSimple(c) PROVE IsSimple(b)
  <2> SUFFICES ASSUME NEW x \in 1 .. k, NEW y \in 1 .. k, x < y, b[x] = b[y]
               PROVE  x = 1 /\ y = k /\ y > 3
    BY <1>5 DEF IsSimple
  <2> DEFINE z == k + 1 - y
             w == k + 1 - x
  <2>1. z \in 1 .. k /\ w \in 1 .. k /\ z < w /\ c[z] = c[w]
    BY <1>1, <1>6
  <2>2. z \in 1 .. k /\ w \in 1 .. k /\ x = k + 1 - w /\ y = k + 1 - z
    BY <1>1
  <2> HIDE DEF z, w
  <2>3. z = 1 /\ w = k /\ w > 3
    BY <1>1, <1>13, <2>1 DEF IsSimple
  <2> QED
    BY <1>1, <2>2, <2>3
<1> QED
  BY <1>5, <1>6, <1>9, <1>10, <1>11, <1>12, <1>13 DEF b, k

\* A curve and the one that goes on where it ends, as one
LEMMA JoinFacts ==
  ASSUME NEW c, OnGrid(c), NEW d, OnGrid(d), c[Len(c)] = d[1]
  PROVE  LET g == Join(c, d)
         IN  /\ OnGrid(g) /\ Len(g) = Len(c) + Len(d) - 1
             /\ \A x \in 1 .. Len(c) : g[x] = c[x]
             /\ \A y \in 1 .. Len(d) : g[Len(c) + y - 1] = d[y]
<1> DEFINE g == Join(c, d)
           k == Len(c)
           m == Len(d)
           l == k + m - 1
<1>1. /\ c \in Seq(LatticePoints) /\ k \in Nat /\ k > 1
      /\ d \in Seq(LatticePoints) /\ m \in Nat /\ m > 1 /\ l \in Nat /\ l > 1
  BY GridFacts DEF OnGrid
<1>2. Tail(d) \in Seq(LatticePoints) /\ Len(Tail(d)) = m - 1 /\ d # << >>
      /\ \A y \in 1 .. m - 1 : Tail(d)[y] = d[y + 1]
  BY <1>1
<1>3. g \in Seq(LatticePoints) /\ Len(g) = l
  BY <1>1, <1>2 DEF Join
<1>4. \A x \in 1 .. k : g[x] = c[x]
  BY <1>1, <1>2 DEF Join
<1>5. \A y \in 2 .. m : g[k + y - 1] = d[y]
  <2> TAKE y \in 2 .. m
  <2>1. /\ y - 1 \in 1 .. m - 1 /\ k + y - 1 \in k + 1 .. k + (m - 1) /\ (k + y - 1) - k = y - 1
        /\ y - 1 + 1 = y
    BY <1>1
  <2>2. g[k + y - 1] = Tail(d)[(k + y - 1) - k]
    BY <1>1, <1>2, <2>1 DEF Join
  <2>3. Tail(d)[y - 1] = d[y - 1 + 1]
    BY <1>2, <2>1
  <2> HIDE DEF g
  <2> QED
    BY <2>1, <2>2, <2>3
<1> HIDE DEF g
<1>6. g[k + 1 - 1] = d[1]
  <2>1. k + 1 - 1 = k /\ k \in 1 .. k
    BY <1>1
  <2> QED
    BY <1>4, <2>1
<1>7. \A y \in 1 .. m : g[k + y - 1] = d[y]
  <2> TAKE y \in 1 .. m
  <2>1. y = 1 \/ y \in 2 .. m
    OBVIOUS
  <2> QED
    BY <1>5, <1>6, <2>1
<1>8. /\ \A j \in 1 .. k - 1 : <<c[j + 1][1] - c[j][1], c[j + 1][2] - c[j][2]>>
                                 \in {<<2, 0>>, <<-2, 0>>, <<0, 2>>, <<0, -2>>}
      /\ \A j \in 1 .. m - 1 : <<d[j + 1][1] - d[j][1], d[j + 1][2] - d[j][2]>>
                                 \in {<<2, 0>>, <<-2, 0>>, <<0, 2>>, <<0, -2>>}
  BY DEF OnGrid, IsCurve
<1>9. l = k + m - 1
  OBVIOUS
<1> HIDE DEF k, m, l
<1>10. ASSUME NEW j \in 1 .. l - 1
       PROVE  <<g[j + 1][1] - g[j][1], g[j + 1][2] - g[j][2]>>
                \in {<<2, 0>>, <<-2, 0>>, <<0, 2>>, <<0, -2>>}
  <2>1. CASE j < k
    <3>1. j \in 1 .. k - 1 /\ j \in 1 .. k /\ j + 1 \in 1 .. k
      BY <1>1, <2>1
    <3>2. g[j] = c[j] /\ g[j + 1] = c[j + 1]
      BY <1>4, <3>1
    <3> QED
      BY <1>8, <3>1, <3>2
  <2>2. CASE j >= k
    <3> DEFINE h == j - k + 1
    <3>1. /\ h \in 1 .. m - 1 /\ h \in 1 .. m /\ h + 1 \in 1 .. m
          /\ k + h - 1 = j /\ k + (h + 1) - 1 = j + 1
      BY <1>1, <1>9, <2>2
    <3> HIDE DEF h
    <3>2. g[k + h - 1] = d[h] /\ g[k + (h + 1) - 1] = d[h + 1]
      BY <1>7, <3>1
    <3>3. g[j] = d[h] /\ g[j + 1] = d[h + 1]
      BY <3>1, <3>2
    <3> QED
      BY <1>8, <3>1, <3>3
  <2> QED
    BY <1>1, <2>1, <2>2
<1>11. OnGrid(g)
  BY <1>1, <1>3, <1>10, IsCurveIf DEF OnGrid
<1> QED
  BY <1>3, <1>4, <1>7, <1>9, <1>11 DEF g, k, m, l

\* What a joined curve meets
LEMMA JoinMeets ==
  ASSUME NEW c, OnGrid(c), NEW d, OnGrid(d), c[Len(c)] = d[1]
  PROVE  LET g == Join(c, d)
         IN  /\ Points(g) \subseteq Points(c) \cup Points(d)
             /\ SegmentMids(g) \subseteq SegmentMids(c) \cup SegmentMids(d)
             /\ InteriorVertices(g) \subseteq InteriorVertices(c) \cup InteriorVertices(d) \cup {d[1]}
             /\ StartPoint(g) = StartPoint(c) /\ EndPoint(g) = EndPoint(d)
<1> DEFINE g == Join(c, d)
           k == Len(c)
           m == Len(d)
           l == k + m - 1
<1>1. k \in Nat /\ k > 1 /\ m \in Nat /\ m > 1 /\ l \in Nat /\ l > 1 /\ l = k + m - 1
  BY GridFacts
<1>2. /\ OnGrid(g) /\ Len(g) = l /\ Len(c) = k /\ Len(d) = m
      /\ \A x \in 1 .. k : g[x] = c[x]
      /\ \A y \in 1 .. m : g[k + y - 1] = d[y]
  BY JoinFacts
<1> HIDE DEF g, k, m, l
<1>3. ASSUME NEW j \in 1 .. l
      PROVE  (j \in 1 .. k /\ g[j] = c[j]) \/ \E h \in 2 .. m : j = k + h - 1 /\ g[j] = d[h]
  <2>1. CASE j <= k
    <3>1. j \in 1 .. k
      BY <2>1
    <3> QED
      BY <1>2, <3>1
  <2>2. CASE j > k
    <3> DEFINE h == j - k + 1
    <3>1. h \in 2 .. m /\ h \in 1 .. m /\ k + h - 1 = j
      BY <1>1, <2>2
    <3> HIDE DEF h
    <3>2. g[k + h - 1] = d[h]
      BY <1>2, <3>1
    <3> QED
      BY <3>1, <3>2
  <2> QED
    BY <1>1, <2>1, <2>2
<1>4. Points(g) \subseteq Points(c) \cup Points(d)
  <2>1. /\ Points(g) = {g[j] : j \in 1 .. l} /\ Points(c) = {c[j] : j \in 1 .. k}
        /\ Points(d) = {d[j] : j \in 1 .. m}
    BY <1>2, CurveSets
  <2>2. \A h \in 2 .. m : h \in 1 .. m
    BY <1>1
  <2> QED
    BY <1>3, <2>1, <2>2
<1>5. SegmentMids(g) \subseteq SegmentMids(c) \cup SegmentMids(d)
  <2> SUFFICES ASSUME NEW j \in 1 .. l - 1
               PROVE  Mid(g[j], g[j + 1]) \in SegmentMids(c) \cup SegmentMids(d)
    BY <1>2 DEF SegmentMids
  <2>1. CASE j < k
    <3>1. j \in 1 .. k - 1 /\ j \in 1 .. k /\ j + 1 \in 1 .. k
      BY <1>1, <2>1
    <3>2. g[j] = c[j] /\ g[j + 1] = c[j + 1]
      BY <1>2, <3>1
    <3> QED
      BY <1>2, <3>1, <3>2 DEF SegmentMids
  <2>2. CASE j >= k
    <3> DEFINE h == j - k + 1
    <3>1. /\ h \in 1 .. m - 1 /\ h \in 1 .. m /\ h + 1 \in 1 .. m
          /\ k + h - 1 = j /\ k + (h + 1) - 1 = j + 1
      BY <1>1, <2>2
    <3> HIDE DEF h
    <3>2. g[k + h - 1] = d[h] /\ g[k + (h + 1) - 1] = d[h + 1]
      BY <1>2, <3>1
    <3>3. g[j] = d[h] /\ g[j + 1] = d[h + 1]
      BY <3>1, <3>2
    <3> QED
      BY <1>2, <3>1, <3>3 DEF SegmentMids
  <2> QED
    BY <1>1, <2>1, <2>2
<1>6. InteriorVertices(g) \subseteq InteriorVertices(c) \cup InteriorVertices(d) \cup {d[1]}
  <2> SUFFICES ASSUME NEW j \in 2 .. l - 1
               PROVE  g[j] \in InteriorVertices(c) \cup InteriorVertices(d) \cup {d[1]}
    BY <1>2 DEF InteriorVertices
  <2>1. j \in 1 .. l /\ j # 1 /\ j # l
    BY <1>1
  <2>2. CASE j \in 1 .. k /\ g[j] = c[j]
    <3>1. j = k \/ j \in 2 .. k - 1
      BY <1>1, <2>1, <2>2
    <3> QED
      BY <1>2, <2>2, <3>1 DEF InteriorVertices
  <2>3. CASE \E h \in 2 .. m : j = k + h - 1 /\ g[j] = d[h]
    <3>1. PICK h \in 2 .. m : j = k + h - 1 /\ g[j] = d[h]
      BY <2>3
    <3>2. h \in 2 .. m - 1
      BY <1>1, <2>1, <3>1
    <3> QED
      BY <1>2, <3>1, <3>2 DEF InteriorVertices
  <2> QED
    BY <1>3, <2>1, <2>2, <2>3
<1>7. StartPoint(g) = StartPoint(c) /\ EndPoint(g) = EndPoint(d)
  <2>1. 1 \in 1 .. k /\ m \in 1 .. m /\ k + m - 1 = l
    BY <1>1
  <2>2. g[1] = c[1] /\ g[k + m - 1] = d[m]
    BY <1>2, <2>1
  <2> QED
    BY <1>2, <2>1, <2>2 DEF StartPoint, EndPoint
<1> QED
  BY <1>4, <1>5, <1>6, <1>7 DEF g

\* Two simple open curves that meet at their ends only join to a simple one
LEMMA JoinIsSimple ==
  ASSUME NEW c, OnGrid(c), NEW d, OnGrid(d), c[Len(c)] = d[1],
         IsSimple(c), IsSimple(d), c[1] # c[Len(c)], d[1] # d[Len(d)],
         ~InteriorsMeet(c, d),
         c[1] \notin InteriorVertices(d), d[Len(d)] \notin InteriorVertices(c)
  PROVE  IsSimple(Join(c, d))
<1> DEFINE g == Join(c, d)
           k == Len(c)
           m == Len(d)
           l == k + m - 1
<1>1. k \in Nat /\ k > 1 /\ m \in Nat /\ m > 1 /\ l \in Nat /\ l > 1 /\ l = k + m - 1
  BY GridFacts
<1>2. /\ Len(g) = l /\ DOMAIN g = 1 .. l /\ Len(c) = k /\ Len(d) = m
      /\ DOMAIN c = 1 .. k /\ DOMAIN d = 1 .. m
      /\ \A x \in 1 .. k : g[x] = c[x]
      /\ \A y \in 1 .. m : g[k + y - 1] = d[y]
  BY JoinFacts, GridFacts
<1>3. /\ c[k] = d[1] /\ c[1] # c[k] /\ d[1] # d[m]
      /\ c[1] \notin InteriorVertices(d) /\ d[m] \notin InteriorVertices(c)
      /\ InteriorVertices(c) = {c[j] : j \in 2 .. k - 1}
      /\ InteriorVertices(d) = {d[j] : j \in 2 .. m - 1}
  BY DEF InteriorVertices
<1> HIDE DEF g, k, m, l
<1>4. \A x, y \in 1 .. k : x < y => c[x] # c[y]
  BY <1>1, <1>2, <1>3 DEF IsSimple
<1>5. \A x, y \in 1 .. m : x < y => d[x] # d[y]
  BY <1>1, <1>2, <1>3 DEF IsSimple
<1>6. ASSUME NEW x \in 1 .. k, NEW h \in 1 .. m, x < k, 1 < h, c[x] = d[h]
      PROVE  x = 1 /\ h = m
  <2>1. x = 1 \/ x \in 2 .. k - 1
    BY <1>1, <1>6
  <2>2. h = m \/ h \in 2 .. m - 1
    BY <1>1, <1>6
  <2>3. ~(x \in 2 .. k - 1 /\ h \in 2 .. m - 1)
    BY <1>3, <1>6 DEF InteriorsMeet
  <2>4. ~(x = 1 /\ h \in 2 .. m - 1)
    BY <1>3, <1>6
  <2>5. ~(x \in 2 .. k - 1 /\ h = m)
    BY <1>3, <1>6
  <2> QED
    BY <2>1, <2>2, <2>3, <2>4, <2>5
<1>7. ASSUME c[1] = d[m] PROVE l > 3
  <2> SUFFICES ASSUME ~(l > 3) PROVE FALSE
    OBVIOUS
  <2>1. k = 2 /\ m = 2
    BY <1>1
  <2>2. c[2] = d[1] /\ c[1] = d[2]
    BY <1>3, <1>7, <2>1
  <2>3. d[1][1] \in Int /\ d[1][2] \in Int /\ d[2][1] \in Int /\ d[2][2] \in Int
    <3>1. 1 \in 1 .. Len(d) /\ 2 \in 1 .. Len(d)
      BY <1>2, <2>1
    <3> QED
      BY <3>1, GridFacts
  <2>4. Mid(d[1], d[2]) = Mid(d[2], d[1])
    BY <2>3 DEF Mid
  <2>5. Mid(c[1], c[2]) = Mid(d[1], d[2])
    BY <2>2, <2>4
  <2>6. 1 \in 1 .. Len(c) - 1 /\ 1 \in 1 .. Len(d) - 1 /\ 1 + 1 = 2
    BY <1>2, <2>1
  <2>7. Mid(c[1], c[2]) \in SegmentMids(c) /\ Mid(d[1], d[2]) \in SegmentMids(d)
    BY <2>6 DEF SegmentMids
  <2> QED
    BY <2>5, <2>7 DEF InteriorsMeet
<1>8. ASSUME NEW x \in 1 .. l, NEW y \in 1 .. l, x < y, g[x] = g[y]
      PROVE  x = 1 /\ y = l /\ y > 3
  <2>1. CASE y <= k
    <3>1. x \in 1 .. k /\ y \in 1 .. k
      BY <1>1, <1>8, <2>1
    <3> QED
      BY <1>2, <1>4, <1>8, <3>1
  <2>2. CASE x >= k
    <3> DEFINE v == x - k + 1
               w == y - k + 1
    <3>1. v \in 1 .. m /\ w \in 1 .. m /\ v < w /\ k + v - 1 = x /\ k + w - 1 = y
      BY <1>1, <1>8, <2>2
    <3> HIDE DEF v, w
    <3>2. g[k + v - 1] = d[v] /\ g[k + w - 1] = d[w]
      BY <1>2, <3>1
    <3> QED
      BY <1>5, <1>8, <3>1, <3>2
  <2>3. CASE x < k /\ y > k
    <3> DEFINE w == y - k + 1
    <3>1. x \in 1 .. k /\ w \in 1 .. m /\ 1 < w /\ k + w - 1 = y
      BY <1>1, <1>8, <2>3
    <3> HIDE DEF w
    <3>2. g[k + w - 1] = d[w] /\ g[x] = c[x]
      BY <1>2, <3>1
    <3>3. c[x] = d[w]
      BY <1>8, <3>1, <3>2
    <3>4. x = 1 /\ w = m
      BY <1>6, <2>3, <3>1, <3>3
    <3>5. y = l
      BY <1>1, <3>1, <3>4
    <3>6. l > 3
      BY <1>7, <3>3, <3>4
    <3> QED
      BY <3>4, <3>5, <3>6
  <2> QED
    BY <1>1, <2>1, <2>2, <2>3
<1> QED
  BY <1>2, <1>8 DEF IsSimple, g

-----------------------------------------------------------------------------
(* Healing two edges.                                                      *)

\* The curve of a dart, from its node to the one it reaches
LEMMA PathFacts ==
  ASSUME NEW t, Base(t), NEW d \in Darts(t)
  PROVE  LET c == Path(t, d)
             r == t.edge[Abs(d)]
         IN  /\ Abs(d) \in DOMAIN t.edge
             /\ OnGrid(c) /\ c[1] = t.node[From(t, d)].geom /\ c[Len(c)] = t.node[To(t, d)].geom
             /\ From(t, d) \in DOMAIN t.node /\ To(t, d) \in DOMAIN t.node
             /\ {From(t, d), To(t, d)} = {r.start_node, r.end_node}
             /\ Points(c) = Points(r.geom) /\ SegmentMids(c) = SegmentMids(r.geom)
             /\ InteriorVertices(c) = InteriorVertices(r.geom)
             /\ IsSimple(r.geom) => IsSimple(c)
<1> DEFINE c == Path(t, d)
           r == t.edge[Abs(d)]
<1>1. d \in Int /\ d # 0 /\ Abs(d) \in DOMAIN t.edge
  BY DartFacts
<1>2. /\ OnGrid(r.geom) /\ r.start_node \in DOMAIN t.node /\ r.end_node \in DOMAIN t.node
      /\ r.geom[1] = t.node[r.start_node].geom /\ r.geom[Len(r.geom)] = t.node[r.end_node].geom
  BY <1>1 DEF Base, Drawn, EndsAtNodes, StartPoint, EndPoint
<1>3. CASE d > 0
  <2>1. Abs(d) = d /\ c = r.geom /\ From(t, d) = r.start_node /\ To(t, d) = r.end_node
    BY <1>1, <1>3 DEF Abs, Path, From, To
  <2> QED
    BY <1>1, <1>2, <2>1
<1>4. CASE d < 0
  <2>1. /\ Abs(d) = -d /\ c = Backward(r.geom)
        /\ From(t, d) = r.end_node /\ To(t, d) = r.start_node
    BY <1>1, <1>4 DEF Abs, Path, From, To
  <2> DEFINE b == r.geom
             k == Len(b)
  <2>2. /\ OnGrid(c) /\ Len(c) = k /\ \A j \in 1 .. k : c[j] = b[k + 1 - j]
        /\ Points(c) = Points(b) /\ SegmentMids(c) = SegmentMids(b)
        /\ InteriorVertices(c) = InteriorVertices(b)
        /\ IsSimple(b) => IsSimple(c)
    BY <1>2, <2>1, BackwardFacts
  <2>3. k \in Nat /\ k > 1
    BY <1>2, GridFacts
  <2> HIDE DEF c, b, k, r
  <2>4. c[1] = b[k] /\ c[k] = b[1]
    <3>1. 1 \in 1 .. k /\ k \in 1 .. k /\ k + 1 - 1 = k /\ k + 1 - k = 1
      BY <2>3
    <3>2. c[1] = b[k + 1 - 1] /\ c[k] = b[k + 1 - k]
      BY <2>2, <3>1
    <3> QED
      BY <3>1, <3>2
  <2>5. c[Len(c)] = b[1] /\ r.geom = b /\ r.geom[1] = b[1] /\ r.geom[Len(r.geom)] = b[k]
    BY <2>2, <2>4 DEF b, k
  <2>6. {From(t, d), To(t, d)} = {r.start_node, r.end_node}
    BY <2>1
  <2>7. c[1] = t.node[From(t, d)].geom /\ c[Len(c)] = t.node[To(t, d)].geom
    BY <1>2, <2>1, <2>4, <2>5
  <2>8. From(t, d) \in DOMAIN t.node /\ To(t, d) \in DOMAIN t.node
    BY <1>2, <2>1
  <2> QED
    BY <1>1, <2>2, <2>5, <2>6, <2>7, <2>8 DEF r, c
<1>5. d > 0 \/ d < 0
  BY <1>1
<1> HIDE DEF c, r
<1> QED
  BY <1>3, <1>4, <1>5

\* Darts first and last meet at a node that no other edge touches
MeetAlone(t, first, last) ==
  LET n == To(t, first)
  IN  /\ first \in Darts(t) /\ last \in Darts(t)
      /\ Abs(first) # Abs(last) /\ From(t, last) = n
      /\ From(t, first) # n /\ To(t, last) # n
      /\ IncidentEdges(t, {n}) = {Abs(first), Abs(last)}

\* u is t with the edges of two such darts made one, id, and their node gone
Heals(t, u, first, last, id) ==
  LET n == To(t, first)
      both == {Abs(first), Abs(last)}
  IN  /\ id \notin DOMAIN t.edge \ both
      /\ u.seq.face = t.seq.face
      /\ DOMAIN u.node = DOMAIN t.node \ {n}
      /\ \A x \in DOMAIN u.node : u.node[x] = t.node[x]
      /\ DOMAIN u.edge = (DOMAIN t.edge \ both) \cup {id}
      /\ \A x \in DOMAIN t.edge \ both :
           /\ u.edge[x].start_node = t.edge[x].start_node
           /\ u.edge[x].end_node = t.edge[x].end_node
           /\ u.edge[x].face_left = t.edge[x].face_left
           /\ u.edge[x].face_right = t.edge[x].face_right
           /\ u.edge[x].geom = t.edge[x].geom
      /\ u.edge[id].face_left \in -1 .. t.seq.face /\ u.edge[id].face_right \in -1 .. t.seq.face
      /\ u.edge[id].start_node = From(t, first) /\ u.edge[id].end_node = To(t, last)
      /\ u.edge[id].geom = Join(Path(t, first), Path(t, last))

\* Two edges that are healed leave sound tables
LEMMA HealIsSound ==
  ASSUME NEW t, Base(t), Anchored(t), NEW u, Shaped(u), Numbered(u),
         NEW first, NEW last, NEW id, MeetAlone(t, first, last), Heals(t, u, first, last, id)
  PROVE  Base(u) /\ Anchored(u)
<1> DEFINE n == To(t, first)
           both == {Abs(first), Abs(last)}
           c == Path(t, first)
           d == Path(t, last)
           g == Join(c, d)
           sn == From(t, first)
           en == To(t, last)
<1>1. first \in Darts(t) /\ last \in Darts(t) /\ From(t, last) = n /\ sn # n /\ en # n
  BY DEF MeetAlone
<1>2. /\ OnGrid(c) /\ OnGrid(d) /\ c[Len(c)] = d[1]
      /\ c[1] = t.node[sn].geom /\ d[Len(d)] = t.node[en].geom
      /\ sn \in DOMAIN t.node /\ en \in DOMAIN t.node
      /\ sn \in {t.edge[Abs(first)].start_node, t.edge[Abs(first)].end_node}
      /\ en \in {t.edge[Abs(last)].start_node, t.edge[Abs(last)].end_node}
      /\ Abs(first) \in DOMAIN t.edge /\ Abs(last) \in DOMAIN t.edge
  <2>1. /\ OnGrid(c) /\ c[Len(c)] = t.node[n].geom /\ c[1] = t.node[sn].geom
        /\ sn \in DOMAIN t.node /\ Abs(first) \in DOMAIN t.edge
        /\ {sn, n} = {t.edge[Abs(first)].start_node, t.edge[Abs(first)].end_node}
    BY <1>1, PathFacts
  <2>2. /\ OnGrid(d) /\ d[Len(d)] = t.node[en].geom /\ d[1] = t.node[n].geom
        /\ en \in DOMAIN t.node /\ Abs(last) \in DOMAIN t.edge
        /\ {n, en} = {t.edge[Abs(last)].start_node, t.edge[Abs(last)].end_node}
    BY <1>1, PathFacts
  <2> QED
    BY <2>1, <2>2
<1>3. OnGrid(g) /\ StartPoint(g) = c[1] /\ EndPoint(g) = d[Len(d)]
  BY <1>2, JoinFacts, JoinMeets DEF StartPoint, EndPoint
<1>4. \A x \in DOMAIN t.edge \ both : t.edge[x].start_node # n /\ t.edge[x].end_node # n
  BY DEF MeetAlone, IncidentEdges
<1> HIDE DEF c, d, g, sn, en, n, both
<1>5. /\ u.seq.face = t.seq.face
      /\ DOMAIN u.node = DOMAIN t.node \ {n}
      /\ \A x \in DOMAIN u.node : u.node[x] = t.node[x]
      /\ DOMAIN u.edge = (DOMAIN t.edge \ both) \cup {id}
      /\ \A x \in DOMAIN t.edge \ both :
           /\ u.edge[x].start_node = t.edge[x].start_node
           /\ u.edge[x].end_node = t.edge[x].end_node
           /\ u.edge[x].face_left = t.edge[x].face_left
           /\ u.edge[x].face_right = t.edge[x].face_right
           /\ u.edge[x].geom = t.edge[x].geom
      /\ u.edge[id].face_left \in -1 .. t.seq.face /\ u.edge[id].face_right \in -1 .. t.seq.face
      /\ u.edge[id].start_node = sn /\ u.edge[id].end_node = en /\ u.edge[id].geom = g
  BY DEF Heals, n, both, sn, en, c, d, g
<1>6. Sided(u)
  BY <1>5 DEF Base, Sided
<1>7. \A x \in DOMAIN u.node : u.node[x].geom \in Int \X Int
  BY <1>5 DEF Base, Drawn
<1>8. t.node[sn].containing_face = Nowhere /\ t.node[en].containing_face = Nowhere
  BY <1>2 DEF Anchored
<1>9. ASSUME NEW x \in DOMAIN u.edge
      PROVE  /\ u.edge[x].start_node \in DOMAIN u.node /\ u.edge[x].end_node \in DOMAIN u.node
             /\ OnGrid(u.edge[x].geom)
             /\ EndsAtNodes(u, u.edge[x].start_node, u.edge[x].end_node, u.edge[x].geom)
             /\ u.node[u.edge[x].start_node].containing_face = Nowhere
             /\ u.node[u.edge[x].end_node].containing_face = Nowhere
  <2>1. CASE x \in DOMAIN t.edge \ both
    BY <1>4, <1>5, <2>1 DEF Base, Drawn, EndsAtNodes, Anchored
  <2>2. CASE x = id
    BY <1>1, <1>2, <1>3, <1>5, <1>8, <2>2 DEF EndsAtNodes
  <2> QED
    BY <1>5, <2>1, <2>2
<1> QED
  BY <1>6, <1>7, <1>9 DEF Base, Drawn, Anchored

\* Two edges that are healed leave the drawing planar
LEMMA HealIsApart ==
  ASSUME NEW t, Base(t), Apart(t), NEW u,
         NEW first, NEW last, NEW id, MeetAlone(t, first, last), Heals(t, u, first, last, id)
  PROVE  Apart(u)
<1> DEFINE n == To(t, first)
           e == Abs(first)
           f == Abs(last)
           c == Path(t, first)
           d == Path(t, last)
           g == Join(c, d)
           sn == From(t, first)
           en == To(t, last)
<1>1. /\ first \in Darts(t) /\ last \in Darts(t) /\ From(t, last) = n /\ sn # n /\ en # n /\ e # f
      /\ \A x \in DOMAIN t.edge \ {e, f} : t.edge[x].start_node # n /\ t.edge[x].end_node # n
  BY DEF MeetAlone, IncidentEdges
<1>2. /\ OnGrid(c) /\ c[Len(c)] = t.node[n].geom /\ c[1] = t.node[sn].geom
      /\ sn \in DOMAIN t.node /\ n \in DOMAIN t.node /\ e \in DOMAIN t.edge
      /\ {sn, n} = {t.edge[e].start_node, t.edge[e].end_node}
      /\ Points(c) = Points(t.edge[e].geom) /\ SegmentMids(c) = SegmentMids(t.edge[e].geom)
      /\ InteriorVertices(c) = InteriorVertices(t.edge[e].geom)
      /\ IsSimple(t.edge[e].geom) => IsSimple(c)
  BY <1>1, PathFacts
<1>3. /\ OnGrid(d) /\ d[Len(d)] = t.node[en].geom /\ d[1] = t.node[n].geom
      /\ en \in DOMAIN t.node /\ f \in DOMAIN t.edge
      /\ {n, en} = {t.edge[f].start_node, t.edge[f].end_node}
      /\ Points(d) = Points(t.edge[f].geom) /\ SegmentMids(d) = SegmentMids(t.edge[f].geom)
      /\ InteriorVertices(d) = InteriorVertices(t.edge[f].geom)
      /\ IsSimple(t.edge[f].geom) => IsSimple(d)
  BY <1>1, PathFacts
<1>4. /\ id \notin DOMAIN t.edge \ {e, f}
      /\ DOMAIN u.node = DOMAIN t.node \ {n}
      /\ \A x \in DOMAIN u.node : u.node[x] = t.node[x]
      /\ DOMAIN u.edge = (DOMAIN t.edge \ {e, f}) \cup {id}
      /\ \A x \in DOMAIN t.edge \ {e, f} :
           /\ u.edge[x].start_node = t.edge[x].start_node
           /\ u.edge[x].end_node = t.edge[x].end_node
           /\ u.edge[x].geom = t.edge[x].geom
      /\ u.edge[id].start_node = sn /\ u.edge[id].end_node = en /\ u.edge[id].geom = g
  BY DEF Heals
<1> HIDE DEF c, d, g, sn, en, n, e, f
<1>5. /\ IsSimple(c) /\ IsSimple(d) /\ c[Len(c)] = d[1]
      /\ \A x \in DOMAIN t.node \ {sn, n} : t.node[x].geom \notin Points(c)
      /\ \A x \in DOMAIN t.node \ {en, n} : t.node[x].geom \notin Points(d)
      /\ c[1] # c[Len(c)] /\ d[1] # d[Len(d)]
  <2>1. \A x \in DOMAIN t.node \ {sn, n} : t.node[x].geom \notin Points(c)
    BY <1>2 DEF Apart, CheckEdgeCrossing
  <2>2. \A x \in DOMAIN t.node \ {en, n} : t.node[x].geom \notin Points(d)
    BY <1>3 DEF Apart, CheckEdgeCrossing
  <2> QED
    BY <1>1, <1>2, <1>3, <2>1, <2>2 DEF Apart
<1>6. ~InteriorsMeet(c, d)
  BY <1>1, <1>2, <1>3 DEF Apart, CheckEdgeCrossing, InteriorsMeet
<1>7. ASSUME NEW x \in DOMAIN t.edge \ {e, f}
      PROVE  /\ ~InteriorsMeet(t.edge[x].geom, c) /\ ~InteriorsMeet(t.edge[x].geom, d)
             /\ t.node[n].geom \notin Points(t.edge[x].geom)
  BY <1>1, <1>2, <1>3 DEF Apart, CheckEdgeCrossing, InteriorsMeet
<1>8. c[1] \notin InteriorVertices(d)
  <2> SUFFICES ASSUME c[1] \in InteriorVertices(d) PROVE FALSE
    OBVIOUS
  <2>1. c[1] \in Points(d)
    BY <1>3, CurveSets
  <2>2. sn = en
    BY <1>1, <1>2, <1>5, <2>1
  <2> DEFINE k == Len(d)
  <2>3. k \in Nat /\ k > 1 /\ DOMAIN d = 1 .. k
    BY <1>3, GridFacts
  <2>4. PICK j \in 2 .. k - 1 : d[j] = c[1]
    BY DEF InteriorVertices
  <2>5. d[j] = d[k]
    BY <1>2, <1>3, <2>2, <2>4
  <2>6. j \in 1 .. k /\ k \in 1 .. k /\ j < k /\ j # 1
    BY <2>3
  <2> QED
    BY <1>5, <2>3, <2>5, <2>6 DEF IsSimple
<1>9. d[Len(d)] \notin InteriorVertices(c)
  <2> SUFFICES ASSUME d[Len(d)] \in InteriorVertices(c) PROVE FALSE
    OBVIOUS
  <2>1. d[Len(d)] \in Points(c)
    BY <1>2, CurveSets
  <2>2. sn = en
    BY <1>1, <1>3, <1>5, <2>1
  <2> DEFINE k == Len(c)
  <2>3. k \in Nat /\ k > 1 /\ DOMAIN c = 1 .. k
    BY <1>2, GridFacts
  <2>4. PICK j \in 2 .. k - 1 : c[j] = d[Len(d)]
    BY DEF InteriorVertices
  <2>5. c[j] = c[1]
    BY <1>2, <1>3, <2>2, <2>4
  <2> HIDE DEF k
  <2>6. j \in 1 .. k /\ 1 \in 1 .. k /\ 1 < j /\ j # k
    BY <2>3
  <2> QED
    BY <1>5, <2>3, <2>5, <2>6 DEF IsSimple, k
<1>10. IsSimple(g)
  BY <1>2, <1>3, <1>5, <1>6, <1>8, <1>9, JoinIsSimple DEF g
<1>11. /\ Points(g) \subseteq Points(c) \cup Points(d)
       /\ SegmentMids(g) \subseteq SegmentMids(c) \cup SegmentMids(d)
       /\ InteriorVertices(g) \subseteq InteriorVertices(c) \cup InteriorVertices(d) \cup {d[1]}
  BY <1>2, <1>3, <1>5, JoinMeets DEF g
<1>12. ASSUME NEW x \in DOMAIN t.edge \ {e, f}
       PROVE  ~InteriorsMeet(t.edge[x].geom, g) /\ ~InteriorsMeet(g, t.edge[x].geom)
  <2>1. OnGrid(t.edge[x].geom)
    BY DEF Base, Drawn
  <2>2. d[1] \notin InteriorVertices(t.edge[x].geom)
    BY <1>3, <1>7, <2>1, CurveSets
  <2> QED
    BY <1>7, <1>11, <2>2 DEF InteriorsMeet
<1>13. \A x, y \in DOMAIN u.node : u.node[x].geom = u.node[y].geom => x = y
  BY <1>4 DEF Apart
<1>14. \A x \in DOMAIN u.edge : IsSimple(u.edge[x].geom)
  BY <1>4, <1>10 DEF Apart
<1>15. ASSUME NEW x \in DOMAIN u.edge
       PROVE  \A y \in DOMAIN u.node \ {u.edge[x].start_node, u.edge[x].end_node} :
                u.node[y].geom \notin Points(u.edge[x].geom)
  <2>1. CASE x \in DOMAIN t.edge \ {e, f}
    BY <1>4, <2>1 DEF Apart, CheckEdgeCrossing
  <2>2. CASE x = id
    BY <1>4, <1>5, <1>11, <2>2
  <2> QED
    BY <1>4, <2>1, <2>2
<1>16. \A x \in DOMAIN u.edge : \A y \in DOMAIN u.edge \ {x} :
         ~InteriorsMeet(u.edge[x].geom, u.edge[y].geom)
  <2> TAKE x \in DOMAIN u.edge
  <2> TAKE y \in DOMAIN u.edge \ {x}
  <2>1. CASE x \in DOMAIN t.edge \ {e, f} /\ y \in DOMAIN t.edge \ {e, f}
    BY <1>4, <2>1 DEF Apart, CheckEdgeCrossing
  <2>2. CASE x \in DOMAIN t.edge \ {e, f} /\ y = id
    BY <1>4, <1>12, <2>2
  <2>3. CASE x = id /\ y \in DOMAIN t.edge \ {e, f}
    BY <1>4, <1>12, <2>3
  <2> QED
    BY <1>4, <2>1, <2>2, <2>3
<1> QED
  BY <1>13, <1>14, <1>15, <1>16 DEF Apart, CheckEdgeCrossing

\* The node two edges are healed at is an end of both, and of no other
LEMMA HealAtFacts ==
  ASSUME NEW e1, NEW e2, HealAt(e1, e2) # Nowhere
  PROVE  LET n == HealAt(e1, e2)
         IN  /\ n \in {edge[e1].start_node, edge[e1].end_node}
             /\ n \in {edge[e2].start_node, edge[e2].end_node}
             /\ IncidentEdges(Tables, {n}) = {e1, e2}
<1> DEFINE Only(n) == IncidentEdges(Tables, {n}) = {e1, e2}
           atEnd == edge[e1].end_node \in {edge[e2].start_node, edge[e2].end_node}
                    /\ Only(edge[e1].end_node)
           atStart == edge[e1].start_node \in {edge[e2].start_node, edge[e2].end_node}
                      /\ Only(edge[e1].start_node)
<1>1. HealAt(e1, e2) = CASE atEnd -> edge[e1].end_node
                         [] ~atEnd /\ atStart -> edge[e1].start_node
                         [] OTHER -> Nowhere
  BY DEF HealAt
<1>2. CASE atEnd
  <2>1. HealAt(e1, e2) = edge[e1].end_node
    BY <1>1, <1>2
  <2> QED
    BY <1>2, <2>1
<1>3. CASE ~atEnd /\ atStart
  <2>1. HealAt(e1, e2) = edge[e1].start_node
    BY <1>1, <1>3
  <2> QED
    BY <1>3, <2>1
<1>4. CASE ~atEnd /\ ~atStart
  <2>1. HealAt(e1, e2) = Nowhere
    BY <1>1, <1>4
  <2> QED
    BY <2>1
<1> QED
  BY <1>2, <1>3, <1>4

\* r is the record of an edge made of those of two darts, e1 and e2, that meet at node n
MadeOf(t, r, first, last, e1, e2, n) ==
  /\ MeetAlone(t, first, last) /\ {Abs(first), Abs(last)} = {e1, e2}
  /\ To(t, first) = n
  /\ r.start_node = From(t, first) /\ r.end_node = To(t, last)
  /\ r.geom = Join(Path(t, first), Path(t, last))

\* The healed edge is made of two darts that meet at the node
LEMMA HealedFacts ==
  ASSUME NEW t, Base(t), NEW e1 \in DOMAIN t.edge, NEW e2 \in DOMAIN t.edge, e1 # e2,
         t.edge[e1].start_node # t.edge[e1].end_node, t.edge[e2].start_node # t.edge[e2].end_node,
         NEW n, n \in {t.edge[e1].start_node, t.edge[e1].end_node},
         n \in {t.edge[e2].start_node, t.edge[e2].end_node}, IncidentEdges(t, {n}) = {e1, e2}
  PROVE  LET r == Healed(t, e1, e2, n).edge
         IN  /\ DOMAIN r = {"start_node", "end_node", "next_left", "next_right",
                            "face_left", "face_right", "geom"}
             /\ r.face_left = t.edge[e1].face_left /\ r.face_right = t.edge[e1].face_right
             /\ \E first, last : MadeOf(t, r, first, last, e1, e2, n)
<1> DEFINE atEnd == t.edge[e1].end_node = n
           sameWay == IF atEnd THEN t.edge[e2].start_node = n ELSE t.edge[e2].end_node = n
           d2 == IF sameWay THEN e2 ELSE -e2
           first == IF atEnd THEN e1 ELSE d2
           last == IF atEnd THEN d2 ELSE e1
           r == Healed(t, e1, e2, n).edge
<1>1. r = [t.edge[e1] EXCEPT
             !.start_node = From(t, first), !.end_node = To(t, last),
             !.next_left = NextDart(t, last), !.next_right = NextDart(t, -first),
             !.geom = HealedGeom(t, first, last)]
  BY DEF Healed
<1>2. DOMAIN t.edge[e1] = {"start_node", "end_node", "next_left", "next_right",
                           "face_left", "face_right", "geom"}
  BY DEF Base, Shaped
<1>3. /\ DOMAIN r = {"start_node", "end_node", "next_left", "next_right",
                     "face_left", "face_right", "geom"}
      /\ r.face_left = t.edge[e1].face_left /\ r.face_right = t.edge[e1].face_right
      /\ r.start_node = From(t, first) /\ r.end_node = To(t, last)
      /\ r.geom = Join(Path(t, first), Path(t, last))
  <2> HIDE DEF r, first, last
  <2> QED
    BY <1>1, <1>2 DEF HealedGeom
<1>4. /\ e1 \in Int /\ e1 > 0 /\ e2 \in Int /\ e2 > 0
      /\ e1 \in Darts(t) /\ e2 \in Darts(t) /\ -e2 \in Darts(t)
      /\ Abs(e1) = e1 /\ Abs(e2) = e2 /\ Abs(-e2) = e2
  BY DEF Base, Numbered, Darts, Abs
<1>5. /\ From(t, e1) = t.edge[e1].start_node /\ To(t, e1) = t.edge[e1].end_node
      /\ From(t, e2) = t.edge[e2].start_node /\ To(t, e2) = t.edge[e2].end_node
      /\ From(t, -e2) = t.edge[e2].end_node /\ To(t, -e2) = t.edge[e2].start_node
  BY <1>4 DEF From, To
<1>6. /\ MeetAlone(t, first, last) /\ {Abs(first), Abs(last)} = {e1, e2} /\ To(t, first) = n
  <2>1. CASE atEnd /\ t.edge[e2].start_node = n
    <3>1. first = e1 /\ last = e2
      BY <2>1
    <3> HIDE DEF first, last
    <3> QED
      BY <1>4, <1>5, <2>1, <3>1 DEF MeetAlone
  <2>2. CASE atEnd /\ t.edge[e2].start_node # n
    <3>1. first = e1 /\ last = -e2 /\ t.edge[e2].end_node = n
      BY <2>2
    <3> HIDE DEF first, last
    <3> QED
      BY <1>4, <1>5, <2>2, <3>1 DEF MeetAlone
  <2>3. CASE ~atEnd /\ t.edge[e2].end_node = n
    <3>1. first = e2 /\ last = e1 /\ t.edge[e1].start_node = n
      BY <2>3
    <3> HIDE DEF first, last
    <3> QED
      BY <1>4, <1>5, <2>3, <3>1 DEF MeetAlone
  <2>4. CASE ~atEnd /\ t.edge[e2].end_node # n
    <3>1. first = -e2 /\ last = e1 /\ t.edge[e1].start_node = n /\ t.edge[e2].start_node = n
      BY <2>4
    <3> HIDE DEF first, last
    <3> QED
      BY <1>4, <1>5, <2>4, <3>1 DEF MeetAlone
  <2> QED
    BY <2>1, <2>2, <2>3, <2>4
<1> HIDE DEF r, first, last
<1>7. MadeOf(t, r, first, last, e1, e2, n)
  BY <1>3, <1>6 DEF MadeOf
<1> QED
  BY <1>3, <1>7 DEF r

\* v is t with edge id, as r says, in place of e1 and e2, and without node n
LeavesOne(t, v, e1, e2, n, id, r) ==
  /\ id \in Nat /\ id > 0 /\ id \notin DOMAIN t.edge \ {e1, e2}
  /\ v.relation = t.relation /\ v.face = t.face
  /\ v.seq.node = t.seq.node /\ v.seq.face = t.seq.face /\ v.seq.edge \in Nat
  /\ t.seq.edge <= v.seq.edge /\ id <= v.seq.edge
  /\ DOMAIN v.node = DOMAIN t.node \ {n} /\ \A x \in DOMAIN v.node : v.node[x] = t.node[x]
  /\ DOMAIN v.edge = (DOMAIN t.edge \ {e1, e2}) \cup {id}
  /\ \A x \in DOMAIN t.edge \ {e1, e2} : /\ v.edge[x].start_node = t.edge[x].start_node
                                         /\ v.edge[x].end_node = t.edge[x].end_node
                                         /\ v.edge[x].face_left = t.edge[x].face_left
                                         /\ v.edge[x].face_right = t.edge[x].face_right
                                         /\ v.edge[x].geom = t.edge[x].geom
  /\ v.edge[id].start_node = r.start_node /\ v.edge[id].end_node = r.end_node
  /\ v.edge[id].face_left = r.face_left /\ v.edge[id].face_right = r.face_right
  /\ v.edge[id].geom = r.geom

\* Rows name the healed edge in place of the two, and none names the node
LEMMA EdgeHealKeepsNames ==
  ASSUME NEW t, Numbered(t), Named(t), NEW e1, NEW e2, NEW n, Uses(t, 1, {n}) = {},
         NEW v, Shaped(v), NEW id, NEW r, LeavesOne(t, v, e1, e2, n, id, r)
  PROVE  LET u == UpdateTopoGeomEdgeHeal(v, e1, e2, id)
         IN  /\ Named(u) /\ DOMAIN u = DOMAIN v /\ u.err = v.err
             /\ u.node = v.node /\ u.edge = v.edge /\ u.face = v.face /\ u.seq = v.seq
<1> DEFINE u == UpdateTopoGeomEdgeHeal(v, e1, e2, id)
<1>0. /\ v.relation = t.relation /\ DOMAIN t.face \subseteq DOMAIN v.face
      /\ DOMAIN v.node = DOMAIN t.node \ {n}
      /\ DOMAIN v.edge = (DOMAIN t.edge \ {e1, e2}) \cup {id} /\ id \in Nat
  BY DEF LeavesOne
<1>1. /\ DOMAIN u = DOMAIN v /\ u.err = v.err
      /\ u.node = v.node /\ u.edge = v.edge /\ u.face = v.face /\ u.seq = v.seq
      /\ u.relation = IF id = e1 THEN v.relation \ Uses(v, 2, {e2})
                      ELSE (v.relation \ Uses(v, 2, {e1, e2}))
                             \cup {WithId(q, id) : q \in Uses(v, 2, {e1})}
  BY DEF UpdateTopoGeomEdgeHeal, Shaped
<1> HIDE DEF u
<1>2. \A q \in t.relation : q.type = 1 => q.id # n
  BY UnusedIsUnnamed
<1>3. \A q \in t.relation : /\ DOMAIN q = {"tg", "type", "id"} /\ q.type = Kind[q.tg]
                            /\ q.id \in Int
  BY RowFacts
<1>4. ASSUME NEW q \in t.relation, q.type = 2 /\ Abs(q.id) \in {e1, e2} => Abs(q.id) = id
      PROVE  Names(u, q)
  BY <1>0, <1>1, <1>2, <1>4 DEF Named, Names
<1>5. ASSUME id = e1 PROVE Named(u)
  <2>1. \A q \in u.relation : q \in t.relation /\ ~(q.type = 2 /\ Abs(q.id) = e2)
    BY <1>0, <1>1, <1>3, <1>5 DEF Uses
  <2> QED
    BY <1>1, <1>3, <1>4, <1>5, <2>1 DEF Named
<1>6. ASSUME id # e1 PROVE Named(u)
  <2>1. ASSUME NEW q \in v.relation \ Uses(v, 2, {e1, e2})
        PROVE  DOMAIN q = {"tg", "type", "id"} /\ q.type = Kind[q.tg] /\ Names(u, q)
    <3>1. q \in t.relation /\ ~(q.type = 2 /\ Abs(q.id) \in {e1, e2})
      BY <1>0, <1>3, <2>1 DEF Uses
    <3> QED
      BY <1>3, <1>4, <3>1
  <2>2. ASSUME NEW q \in Uses(v, 2, {e1})
        PROVE  LET w == WithId(q, id) IN DOMAIN w = {"tg", "type", "id"} /\ w.type = Kind[w.tg]
                                         /\ Names(u, w)
    <3>1. /\ DOMAIN q = {"tg", "type", "id"} /\ q.type = Kind[q.tg] /\ q.id \in Int
          /\ q.type = 2
      BY <1>0, <1>3 DEF Uses
    <3>2. WithId(q, id) \in {[q EXCEPT !.id = id], [q EXCEPT !.id = -id]}
      BY <3>1 DEF WithId
    <3>3. id \in DOMAIN u.edge /\ id \in Nat /\ Abs(id) = id /\ Abs(-id) = id
      BY <1>0, <1>1 DEF Abs
    <3>4. /\ DOMAIN WithId(q, id) = {"tg", "type", "id"} /\ WithId(q, id).type = 2
          /\ WithId(q, id).tg = q.tg /\ WithId(q, id).id \in {id, -id}
      BY <3>1, <3>2
    <3>5. WithId(q, id).id \in Int /\ Abs(WithId(q, id).id) = id
      BY <3>3, <3>4
    <3> HIDE DEF WithId
    <3> QED
      BY <3>1, <3>3, <3>4, <3>5 DEF Names
  <2>3. u.relation = (v.relation \ Uses(v, 2, {e1, e2}))
                       \cup {WithId(q, id) : q \in Uses(v, 2, {e1})}
    BY <1>1, <1>6
  <2>4. ASSUME NEW w \in u.relation
        PROVE  DOMAIN w = {"tg", "type", "id"} /\ w.type = Kind[w.tg] /\ Names(u, w)
    <3>1. CASE w \in v.relation \ Uses(v, 2, {e1, e2})
      BY <2>1, <3>1
    <3>2. CASE w \in {WithId(q, id) : q \in Uses(v, 2, {e1})}
      BY <2>2, <3>2
    <3> QED
      BY <2>3, <3>1, <3>2
  <2> QED
    BY <2>4 DEF Named
<1> QED
  BY <1>1, <1>5, <1>6 DEF u

\* What a healing call knows of the edges and their node
LEMMA HealEdgesFacts ==
  ASSUME Inv, NEW e1 \in DOMAIN edge, NEW e2 \in DOMAIN edge, NEW modEdge,
         HealEdges(e1, e2, modEdge)
  PROVE  LET t == Tables
             n == HealAt(e1, e2)
             r == Healed(t, e1, e2, n).edge
         IN  /\ Base(t) /\ Shaped(t) /\ Numbered(t) /\ Named(t) /\ Anchored(t)
             /\ e1 \in DOMAIN t.edge /\ e2 \in DOMAIN t.edge /\ e1 # e2
             /\ Uses(t, 1, {n}) = {}
             /\ DOMAIN r = {"start_node", "end_node", "next_left", "next_right",
                            "face_left", "face_right", "geom"}
             /\ r.face_left \in -1 .. t.seq.face /\ r.face_right \in -1 .. t.seq.face
             /\ \E first, last : MadeOf(t, r, first, last, e1, e2, n)
<1> DEFINE t == Tables
           n == HealAt(e1, e2)
           r == Healed(t, e1, e2, n).edge
<1>1. Base(t) /\ Shaped(t) /\ Numbered(t) /\ Named(t) /\ Anchored(t)
  BY DEF Inv, Sound, Base
<1>2. /\ e1 # e2 /\ n # Nowhere /\ Uses(t, 1, {n}) = {}
      /\ t.edge[e1].start_node # t.edge[e1].end_node
      /\ t.edge[e2].start_node # t.edge[e2].end_node
      /\ e1 \in DOMAIN t.edge /\ e2 \in DOMAIN t.edge
  BY TablesFacts DEF HealEdges, NodeRemovable
<1>3. /\ n \in {t.edge[e1].start_node, t.edge[e1].end_node}
      /\ n \in {t.edge[e2].start_node, t.edge[e2].end_node}
      /\ IncidentEdges(t, {n}) = {e1, e2}
  BY <1>2, HealAtFacts, TablesFacts
<1> HIDE DEF t, n
<1>4. /\ DOMAIN r = {"start_node", "end_node", "next_left", "next_right",
                     "face_left", "face_right", "geom"}
      /\ r.face_left = t.edge[e1].face_left /\ r.face_right = t.edge[e1].face_right
      /\ \E first, last : MadeOf(t, r, first, last, e1, e2, n)
  BY <1>1, <1>2, <1>3, HealedFacts
<1> HIDE DEF r
<1>5. r.face_left \in -1 .. t.seq.face /\ r.face_right \in -1 .. t.seq.face
  BY <1>1, <1>2, <1>4 DEF Base, Sided
<1> QED
  BY <1>1, <1>2, <1>4, <1>5 DEF t, n, r

\* Such tables are sound, once the rows are put right
LEMMA HealedTablesAreSound ==
  ASSUME NEW t, Base(t), Named(t), Anchored(t),
         NEW e1 \in DOMAIN t.edge, NEW e2 \in DOMAIN t.edge, NEW n, Uses(t, 1, {n}) = {},
         NEW first, NEW last, NEW r, MadeOf(t, r, first, last, e1, e2, n),
         r.face_left \in -1 .. t.seq.face, r.face_right \in -1 .. t.seq.face,
         NEW id, NEW v, Shaped(v), LeavesOne(t, v, e1, e2, n, id, r)
  PROVE  LET u == UpdateTopoGeomEdgeHeal(v, e1, e2, id)
         IN  Sound(u) /\ (Apart(t) => Apart(u))
<1> DEFINE u == UpdateTopoGeomEdgeHeal(v, e1, e2, id)
<1>1. Numbered(t) /\ Shaped(t)
  BY DEF Base
<1>2. /\ Named(u) /\ DOMAIN u = DOMAIN v /\ u.err = v.err
      /\ u.node = v.node /\ u.edge = v.edge /\ u.face = v.face /\ u.seq = v.seq
  BY <1>1, EdgeHealKeepsNames
<1> HIDE DEF u
<1>3. Shaped(u)
  BY <1>2 DEF Shaped
<1>4. Numbered(u)
  BY <1>1, <1>2 DEF Numbered, LeavesOne
<1>5. Heals(t, u, first, last, id)
  <2>1. {Abs(first), Abs(last)} = {e1, e2} /\ To(t, first) = n
    BY DEF MadeOf
  <2> QED
    BY <1>2, <2>1 DEF Heals, LeavesOne, MadeOf
<1>6. MeetAlone(t, first, last)
  BY DEF MadeOf
<1>7. Base(u) /\ Anchored(u) /\ (Apart(t) => Apart(u))
  BY <1>3, <1>4, <1>5, <1>6, HealIsSound, HealIsApart
<1> QED
  BY <1>2, <1>7 DEF Sound, u

\* A node and edges that go
LEMMA DeleteNodeAndEdges ==
  ASSUME NEW t, Shaped(t), NEW E, NEW n
  PROVE  LET v == DeleteNode(DeleteEdges(t, E), n)
         IN  /\ Shaped(v) /\ v.seq = t.seq /\ v.face = t.face /\ v.relation = t.relation
             /\ v.err = t.err
             /\ DOMAIN v.node = DOMAIN t.node \ {n}
             /\ \A x \in DOMAIN v.node : v.node[x] = t.node[x]
             /\ DOMAIN v.edge = DOMAIN t.edge \ E
             /\ \A x \in DOMAIN v.edge : v.edge[x] = t.edge[x]
<1> DEFINE w == DeleteEdges(t, E)
           v == DeleteNode(w, n)
<1>1. /\ DOMAIN w = DOMAIN t /\ w.seq = t.seq /\ w.face = t.face /\ w.relation = t.relation
      /\ w.err = t.err /\ w.node = t.node
      /\ DOMAIN w.edge = DOMAIN t.edge \ E
      /\ \A x \in DOMAIN w.edge : w.edge[x] = t.edge[x]
  BY DEF Shaped, DeleteEdges, Without
<1> HIDE DEF w
<1>2. /\ DOMAIN v = DOMAIN t /\ v.seq = w.seq /\ v.face = w.face /\ v.relation = w.relation
      /\ v.err = w.err /\ v.edge = w.edge
      /\ DOMAIN v.node = DOMAIN w.node \ {n}
      /\ \A x \in DOMAIN v.node : v.node[x] = w.node[x]
  BY <1>1 DEF Shaped, DeleteNode, Without
<1> HIDE DEF v
<1>3. Shaped(v)
  BY <1>1, <1>2 DEF Shaped
<1> QED
  BY <1>1, <1>2, <1>3 DEF v, w

\* Two edges made one, under the id of the first
LEMMA ModEdgeHealKeepsInv ==
  ASSUME Inv, NEW e1 \in DOMAIN edge, NEW e2 \in DOMAIN edge, ModEdgeHeal(e1, e2)
  PROVE  Inv' /\ (Apart(Tables) => Apart(Tables)')
<1> DEFINE t == Tables
           n == HealAt(e1, e2)
           h == Healed(t, e1, e2, n)
           r == h.edge
           t1 == [t EXCEPT !.edge[e1] = r]
           t2 == RenameDart(t1, h.free2 * e2, h.free2 * e1 * h.sign2)
           v == DeleteNode(DeleteEdges(t2, {e2}), n)
           u == UpdateTopoGeomEdgeHeal(v, e1, e2, e1)
<1>1. Finish(u)
  BY DEF ModEdgeHeal, HealEdges
<1>2. /\ Base(t) /\ Shaped(t) /\ Numbered(t) /\ Named(t) /\ Anchored(t)
      /\ e1 \in DOMAIN t.edge /\ e2 \in DOMAIN t.edge /\ e1 # e2
      /\ Uses(t, 1, {n}) = {}
      /\ DOMAIN r = {"start_node", "end_node", "next_left", "next_right",
                     "face_left", "face_right", "geom"}
      /\ r.face_left \in -1 .. t.seq.face /\ r.face_right \in -1 .. t.seq.face
      /\ \E first, last : MadeOf(t, r, first, last, e1, e2, n)
  BY HealEdgesFacts DEF ModEdgeHeal
<1> HIDE DEF t, n, r
<1>3. PICK first, last : MadeOf(t, r, first, last, e1, e2, n)
  BY <1>2
<1>4. /\ DOMAIN t1 = DOMAIN t /\ t1.seq = t.seq /\ t1.node = t.node /\ t1.face = t.face
      /\ t1.relation = t.relation
      /\ DOMAIN t1.edge = DOMAIN t.edge /\ t1.edge[e1] = r
      /\ \A x \in DOMAIN t.edge \ {e1} : t1.edge[x] = t.edge[x]
  BY <1>2 DEF Shaped
<1> HIDE DEF t1
<1>5. Shaped(t1)
  BY <1>2, <1>4 DEF Shaped
<1> DEFINE a == h.free2 * e2
           b == h.free2 * e1 * h.sign2
<1> HIDE DEF h, a, b
<1>6. LinksOnly(t1, t2)
  <2>1. t2 = RenameDart(t1, a, b)
    BY DEF a, b
  <2> HIDE DEF t2
  <2> QED
    BY <1>5, <2>1, RenameDartLinksOnly
<1> HIDE DEF t2
<1>7. /\ Shaped(t2) /\ t2.seq = t.seq /\ t2.node = t.node /\ t2.face = t.face
      /\ t2.relation = t.relation /\ DOMAIN t2.edge = DOMAIN t.edge
      /\ \A x \in DOMAIN t.edge : /\ t2.edge[x].start_node = t1.edge[x].start_node
                                  /\ t2.edge[x].end_node = t1.edge[x].end_node
                                  /\ t2.edge[x].face_left = t1.edge[x].face_left
                                  /\ t2.edge[x].face_right = t1.edge[x].face_right
                                  /\ t2.edge[x].geom = t1.edge[x].geom
  BY <1>4, <1>6 DEF LinksOnly
<1>8. /\ Shaped(v) /\ v.seq = t2.seq /\ v.face = t2.face /\ v.relation = t2.relation
      /\ DOMAIN v.node = DOMAIN t2.node \ {n} /\ \A x \in DOMAIN v.node : v.node[x] = t2.node[x]
      /\ DOMAIN v.edge = DOMAIN t2.edge \ {e2} /\ \A x \in DOMAIN v.edge : v.edge[x] = t2.edge[x]
  BY <1>7, DeleteNodeAndEdges
<1> HIDE DEF v
<1>9. /\ DOMAIN v.edge = (DOMAIN t.edge \ {e1, e2}) \cup {e1}
      /\ e1 \in Nat /\ e1 > 0 /\ e1 \notin DOMAIN t.edge \ {e1, e2} /\ e1 <= t.seq.edge
      /\ t.seq.edge \in Nat /\ t.seq.edge <= t.seq.edge
  BY <1>2, <1>7, <1>8 DEF Numbered
<1>10. \A x \in DOMAIN t.edge \ {e1, e2} :
         /\ v.edge[x].start_node = t.edge[x].start_node
         /\ v.edge[x].end_node = t.edge[x].end_node
         /\ v.edge[x].face_left = t.edge[x].face_left
         /\ v.edge[x].face_right = t.edge[x].face_right
         /\ v.edge[x].geom = t.edge[x].geom
  BY <1>4, <1>7, <1>8
<1>11. /\ v.edge[e1].start_node = r.start_node /\ v.edge[e1].end_node = r.end_node
       /\ v.edge[e1].face_left = r.face_left /\ v.edge[e1].face_right = r.face_right
       /\ v.edge[e1].geom = r.geom
  BY <1>2, <1>4, <1>7, <1>8
<1>12. /\ v.relation = t.relation /\ v.face = t.face /\ v.seq = t.seq
       /\ DOMAIN v.node = DOMAIN t.node \ {n} /\ \A x \in DOMAIN v.node : v.node[x] = t.node[x]
  BY <1>7, <1>8
<1>13. LeavesOne(t, v, e1, e2, n, e1, r)
  BY <1>9, <1>10, <1>11, <1>12 DEF LeavesOne
<1>14. Sound(u) /\ (Apart(t) => Apart(u))
  BY <1>2, <1>3, <1>8, <1>13, HealedTablesAreSound
<1> HIDE DEF u
<1> QED
  BY <1>1, <1>14, FinishKeepsInv DEF t

\* Two edges made one, under a new id
LEMMA NewEdgeHealKeepsInv ==
  ASSUME Inv, NEW e1 \in DOMAIN edge, NEW e2 \in DOMAIN edge, NewEdgeHeal(e1, e2)
  PROVE  Inv' /\ (Apart(Tables) => Apart(Tables)')
<1> DEFINE t == Tables
           n == HealAt(e1, e2)
           h == Healed(t, e1, e2, n)
           r == h.edge
           id == NewEdge(t)
           t1 == InsertEdge(t, r)
           t2 == RenameDart(t1, h.free2 * e2, h.free2 * id * h.sign2)
           t3 == RenameDart(t2, h.free1 * e1, h.free1 * id)
           v == DeleteNode(DeleteEdges(t3, {e1, e2}), n)
           u == UpdateTopoGeomEdgeHeal(v, e1, e2, id)
<1>1. Finish(u)
  BY DEF NewEdgeHeal, HealEdges
<1>2. /\ Base(t) /\ Shaped(t) /\ Numbered(t) /\ Named(t) /\ Anchored(t)
      /\ e1 \in DOMAIN t.edge /\ e2 \in DOMAIN t.edge /\ e1 # e2
      /\ Uses(t, 1, {n}) = {}
      /\ DOMAIN r = {"start_node", "end_node", "next_left", "next_right",
                     "face_left", "face_right", "geom"}
      /\ r.face_left \in -1 .. t.seq.face /\ r.face_right \in -1 .. t.seq.face
      /\ \E first, last : MadeOf(t, r, first, last, e1, e2, n)
  BY HealEdgesFacts DEF NewEdgeHeal
<1> HIDE DEF t, n, r
<1>3. PICK first, last : MadeOf(t, r, first, last, e1, e2, n)
  BY <1>2
<1>4. /\ id \in Nat /\ id > 0 /\ id \notin DOMAIN t.edge /\ id = t.seq.edge + 1
      /\ t.seq.edge \in Nat
  BY <1>2, NewIdsAreNew DEF NewEdge, Numbered
<1>5. /\ DOMAIN t1 = DOMAIN t /\ DOMAIN t1.seq = DOMAIN t.seq
      /\ t1.seq.node = t.seq.node /\ t1.seq.edge = id /\ t1.seq.face = t.seq.face
      /\ t1.node = t.node /\ t1.face = t.face /\ t1.relation = t.relation
      /\ DOMAIN t1.edge = DOMAIN t.edge \cup {id} /\ t1.edge[id] = r
      /\ \A x \in DOMAIN t.edge : t1.edge[x] = t.edge[x]
  BY <1>2, <1>4 DEF Shaped, InsertEdge, NewEdge, With
<1> HIDE DEF t1, id
<1>6. Shaped(t1)
  BY <1>2, <1>5 DEF Shaped
<1> DEFINE a == h.free2 * e2
           b == h.free2 * id * h.sign2
           c == h.free1 * e1
           d == h.free1 * id
<1> HIDE DEF h, a, b, c, d
<1>7. LinksOnly(t1, t2) /\ Shaped(t2)
  <2>1. t2 = RenameDart(t1, a, b)
    BY DEF a, b
  <2> HIDE DEF t2
  <2> QED
    BY <1>6, <2>1, RenameDartLinksOnly DEF LinksOnly
<1> HIDE DEF t2
<1>8. LinksOnly(t1, t3)
  <2>1. t3 = RenameDart(t2, c, d)
    BY DEF c, d
  <2> HIDE DEF t3
  <2> QED
    BY <1>7, <2>1, RenameDartLinksOnly, LinksOnlyComposes
<1> HIDE DEF t3
<1>9. /\ Shaped(t3) /\ t3.seq = t1.seq /\ t3.node = t.node /\ t3.face = t.face
      /\ t3.relation = t.relation /\ DOMAIN t3.edge = DOMAIN t.edge \cup {id}
      /\ \A x \in DOMAIN t1.edge : /\ t3.edge[x].start_node = t1.edge[x].start_node
                                   /\ t3.edge[x].end_node = t1.edge[x].end_node
                                   /\ t3.edge[x].face_left = t1.edge[x].face_left
                                   /\ t3.edge[x].face_right = t1.edge[x].face_right
                                   /\ t3.edge[x].geom = t1.edge[x].geom
  BY <1>5, <1>8 DEF LinksOnly
<1>10. /\ Shaped(v) /\ v.seq = t3.seq /\ v.face = t3.face /\ v.relation = t3.relation
       /\ DOMAIN v.node = DOMAIN t3.node \ {n} /\ \A x \in DOMAIN v.node : v.node[x] = t3.node[x]
       /\ DOMAIN v.edge = DOMAIN t3.edge \ {e1, e2}
       /\ \A x \in DOMAIN v.edge : v.edge[x] = t3.edge[x]
  BY <1>9, DeleteNodeAndEdges
<1> HIDE DEF v
<1>11. DOMAIN v.edge = (DOMAIN t.edge \ {e1, e2}) \cup {id} /\ id \notin DOMAIN t.edge \ {e1, e2}
  BY <1>2, <1>4, <1>9, <1>10
<1>12. \A x \in DOMAIN t.edge \ {e1, e2} :
         /\ v.edge[x].start_node = t.edge[x].start_node
         /\ v.edge[x].end_node = t.edge[x].end_node
         /\ v.edge[x].face_left = t.edge[x].face_left
         /\ v.edge[x].face_right = t.edge[x].face_right
         /\ v.edge[x].geom = t.edge[x].geom
  BY <1>5, <1>9, <1>10, <1>11
<1>13. /\ v.edge[id].start_node = r.start_node /\ v.edge[id].end_node = r.end_node
       /\ v.edge[id].face_left = r.face_left /\ v.edge[id].face_right = r.face_right
       /\ v.edge[id].geom = r.geom
  BY <1>5, <1>9, <1>10, <1>11
<1>14. /\ v.relation = t.relation /\ v.face = t.face
       /\ v.seq.node = t.seq.node /\ v.seq.face = t.seq.face /\ v.seq.edge = id
       /\ DOMAIN v.node = DOMAIN t.node \ {n} /\ \A x \in DOMAIN v.node : v.node[x] = t.node[x]
  BY <1>5, <1>9, <1>10
<1>15. v.seq.edge \in Nat /\ t.seq.edge <= v.seq.edge /\ id <= v.seq.edge
  BY <1>4, <1>14
<1>16. LeavesOne(t, v, e1, e2, n, id, r)
  BY <1>4, <1>11, <1>12, <1>13, <1>14, <1>15 DEF LeavesOne
<1>17. Sound(u) /\ (Apart(t) => Apart(u))
  BY <1>2, <1>3, <1>10, <1>16, HealedTablesAreSound
<1> HIDE DEF u
<1> QED
  BY <1>1, <1>17, FinishKeepsInv DEF t

-----------------------------------------------------------------------------
(* TopoGeometries.                                                         *)

\* A call that only changes rows, to rows that name primitives
LEMMA RowsKeepInv ==
  ASSUME Inv, NEW R, Finish([Tables EXCEPT !.relation = R]),
         \A r \in R : \/ r \in relation
                      \/ \E tg \in TopoGeoms : \E i \in Primitives(Kind[tg]) : r = Row(tg, i)
  PROVE  Inv' /\ (Apart(Tables) => Apart(Tables)')
<1> DEFINE t == Tables
           u == [t EXCEPT !.relation = R]
<1>1. Sound(t) /\ Base(t) /\ Shaped(t) /\ Anchored(t) /\ Named(t) /\ Finish(u)
  BY DEF Inv, Sound, Base
<1>2. /\ t.node = node /\ t.edge = edge /\ t.face = face /\ t.relation = relation
  BY TablesFacts
<1> HIDE DEF t
<1>3. /\ DOMAIN u = DOMAIN t /\ u.node = t.node /\ u.edge = t.edge /\ u.face = t.face
      /\ u.seq = t.seq /\ u.relation = R
  BY <1>1 DEF Shaped
<1> HIDE DEF u
<1>4. SameDrawing(t, u) /\ KeepsAnchors(t, u)
  BY <1>1, <1>3, RowsDrawNothing
<1>5. Base(u) /\ Anchored(u) /\ (Apart(t) => Apart(u))
  BY <1>1, <1>4, SameDrawingIsSound
<1>6. ASSUME NEW r \in R
      PROVE  DOMAIN r = {"tg", "type", "id"} /\ r.type = Kind[r.tg] /\ Names(u, r)
  <2>1. CASE r \in relation
    BY <1>1, <1>2, <1>3, <2>1 DEF Named, Names
  <2>2. CASE \E tg \in TopoGeoms : \E i \in Primitives(Kind[tg]) : r = Row(tg, i)
    <3>0. PICK tg \in TopoGeoms : \E i \in Primitives(Kind[tg]) : r = Row(tg, i)
      BY <2>2
    <3>1. PICK i \in Primitives(Kind[tg]) : r = Row(tg, i)
      BY <3>0
    <3>2. DOMAIN r = {"tg", "type", "id"} /\ r.tg = tg /\ r.type = Kind[tg] /\ r.id = i
      BY <3>1 DEF Row
    <3>3. Kind[tg] \in 1 .. 3
      BY KindOfTopoGeoms
    <3>4. \/ Kind[tg] = 1 /\ i \in DOMAIN node
          \/ Kind[tg] = 2 /\ i \in DOMAIN edge
          \/ Kind[tg] = 3 /\ i \in DOMAIN face
      BY <3>1, <3>3 DEF Primitives
    <3>5. \A x \in DOMAIN edge : x \in Int /\ Abs(x) = x
      BY <1>1, <1>2 DEF Base, Numbered, Abs
    <3> QED
      BY <1>2, <1>3, <3>2, <3>4, <3>5 DEF Names
  <2> QED
    BY <2>1, <2>2
<1>7. Named(u)
  BY <1>3, <1>6 DEF Named
<1> QED
  BY <1>1, <1>5, <1>7, FinishKeepsInv DEF t, Sound

\* The calls on TopoGeometries
LEMMA TopoGeomsKeepInv ==
  ASSUME Inv, NEW tg \in TopoGeoms,
         \/ \E S \in SUBSET Primitives(Kind[tg]) : CreateTopoGeom(tg, S)
         \/ ClearTopoGeom(tg)
         \/ \E i \in Primitives(Kind[tg]) : AddElement(tg, i)
         \/ \E i \in Primitives(Kind[tg]) : RemElement(tg, i)
  PROVE  Inv' /\ (Apart(Tables) => Apart(Tables)')
<1>1. ASSUME NEW S \in SUBSET Primitives(Kind[tg]), CreateTopoGeom(tg, S)
      PROVE  Inv' /\ (Apart(Tables) => Apart(Tables)')
  <2> DEFINE R == relation \cup {Row(tg, i) : i \in S}
  <2>1. Finish([Tables EXCEPT !.relation = R])
    BY <1>1 DEF CreateTopoGeom, Tables
  <2>2. \A r \in R : \/ r \in relation
                     \/ \E g \in TopoGeoms : \E i \in Primitives(Kind[g]) : r = Row(g, i)
    OBVIOUS
  <2> HIDE DEF R
  <2> QED
    BY <2>1, <2>2, RowsKeepInv
<1>2. ASSUME ClearTopoGeom(tg)
      PROVE  Inv' /\ (Apart(Tables) => Apart(Tables)')
  <2> DEFINE R == {r \in relation : r.tg # tg}
  <2>1. Finish([Tables EXCEPT !.relation = R])
    BY <1>2 DEF ClearTopoGeom, Tables
  <2>2. \A r \in R : r \in relation
    OBVIOUS
  <2> HIDE DEF R
  <2> QED
    BY <2>1, <2>2, RowsKeepInv
<1>3. ASSUME NEW i \in Primitives(Kind[tg]), AddElement(tg, i)
      PROVE  Inv' /\ (Apart(Tables) => Apart(Tables)')
  <2> DEFINE R == relation \cup {Row(tg, i)}
  <2>1. Finish([Tables EXCEPT !.relation = R])
    BY <1>3 DEF AddElement, Tables
  <2>2. \A r \in R : \/ r \in relation
                     \/ \E g \in TopoGeoms : \E j \in Primitives(Kind[g]) : r = Row(g, j)
    OBVIOUS
  <2> HIDE DEF R
  <2> QED
    BY <2>1, <2>2, RowsKeepInv
<1>4. ASSUME NEW i \in Primitives(Kind[tg]), RemElement(tg, i)
      PROVE  Inv' /\ (Apart(Tables) => Apart(Tables)')
  <2> DEFINE R == relation \ {Row(tg, i)}
  <2>1. Finish([Tables EXCEPT !.relation = R])
    BY <1>4 DEF RemElement, Tables
  <2>2. \A r \in R : r \in relation
    OBVIOUS
  <2> HIDE DEF R
  <2> QED
    BY <2>1, <2>2, RowsKeepInv
<1> QED
  BY <1>1, <1>2, <1>3, <1>4

-----------------------------------------------------------------------------
(* The theorems.                                                           *)

\* A topology that was just created is sound and draws nothing
LEMMA InitIsPlanar == Init => PlanarInv
<1> SUFFICES ASSUME Init PROVE PlanarInv
  OBVIOUS
<1>1. /\ DOMAIN Tables.node = {} /\ DOMAIN Tables.edge = {} /\ DOMAIN Tables.face = {}
      /\ Tables.relation = {}
      /\ DOMAIN Tables = {"node", "edge", "face", "relation", "seq", "err"}
      /\ Tables.seq = [node |-> 0, edge |-> 0, face |-> 0]
  BY DEF Init, Tables, None
<1> QED
  BY <1>1 DEF PlanarInv, Inv, Sound, Base, Shaped, Numbered, Sided, Drawn, Anchored, Named, Apart

\* Every call keeps sound tables sound, and a planar drawing planar
LEMMA NextKeepsInv ==
  ASSUME Inv, [Next]_vars
  PROVE  Inv' /\ (Apart(Tables) => Apart(Tables)')
<1>1. CASE UNCHANGED vars
  BY <1>1
  DEF vars, Inv, Tables, Sound, Base, Shaped, Numbered, Sided, Drawn, EndsAtNodes, Anchored,
      Named, Names, Apart, CheckEdgeCrossing
<1>2. CASE \/ \E p \in Sites : AddIsoNode(p)
           \/ \E n \in DOMAIN node, p \in Sites : MoveIsoNode(n, p)
           \/ \E n \in DOMAIN node : RemoveIsoNode(n)
  BY <1>2, AddIsoNodeKeepsInv, MoveIsoNodeKeepsInv, RemoveIsoNodeKeepsInv
<1>3. CASE \E sn, en \in DOMAIN node, c \in Curves : AddIsoEdge(sn, en, c)
  BY <1>3, AddIsoEdgeKeepsInv
<1>4. CASE \/ \E sn, en \in DOMAIN node, c \in Curves : AddEdgeNewFaces(sn, en, c)
           \/ \E sn, en \in DOMAIN node, c \in Curves : AddEdgeModFace(sn, en, c)
  BY <1>4, AddEdgeKeepsInv DEF AddEdgeNewFaces, AddEdgeModFace
<1>5. CASE \/ \E e \in DOMAIN edge : \E i \in DOMAIN edge[e].geom : ModEdgeSplit(e, i)
           \/ \E e \in DOMAIN edge : \E i \in DOMAIN edge[e].geom : NewEdgesSplit(e, i)
  BY <1>5, ModEdgeSplitKeepsInv, NewEdgesSplitKeepsInv
<1>6. CASE \E e \in DOMAIN edge, c \in Curves : ChangeEdgeGeom(e, c)
  BY <1>6, ChangeEdgeGeomKeepsInv
<1>7. CASE \/ \E e \in DOMAIN edge : RemIsoEdge(e)
           \/ \E e \in DOMAIN edge : RemEdgeModFace(e)
           \/ \E e \in DOMAIN edge : RemEdgeNewFace(e)
  BY <1>7, RemIsoEdgeKeepsInv, RemEdgeKeepsInv DEF RemEdgeModFace, RemEdgeNewFace
<1>8. CASE \/ \E e1, e2 \in DOMAIN edge : ModEdgeHeal(e1, e2)
           \/ \E e1, e2 \in DOMAIN edge : NewEdgeHeal(e1, e2)
  BY <1>8, ModEdgeHealKeepsInv, NewEdgeHealKeepsInv
<1>9. CASE \/ \E tg \in TopoGeoms : \E S \in SUBSET Primitives(Kind[tg]) : CreateTopoGeom(tg, S)
           \/ \E tg \in TopoGeoms : ClearTopoGeom(tg)
           \/ \E tg \in TopoGeoms : \E i \in Primitives(Kind[tg]) : AddElement(tg, i)
           \/ \E tg \in TopoGeoms : \E i \in Primitives(Kind[tg]) : RemElement(tg, i)
  BY <1>9, TopoGeomsKeepInv
<1> QED
  BY <1>1, <1>2, <1>3, <1>4, <1>5, <1>6, <1>7, <1>8, <1>9 DEF Next

\* The tables are sound, and the drawing planar, after any calls
LEMMA InvHolds == Spec => []PlanarInv
<1>1. PlanarInv /\ [Next]_vars => PlanarInv'
  BY NextKeepsInv DEF PlanarInv
<1> QED
  BY <1>1, InitIsPlanar, PTL DEF Spec

\* ValidateTopologyRelation never has a row to report: whatever edits split, heal, remove or
\* renumber primitives, the rows of relation name ones that exist, of the layer's type
THEOREM RelationIsValid == Spec => []RelationsReferToPrimitives
<1>1. PlanarInv => RelationsReferToPrimitives
  <2> SUFFICES ASSUME PlanarInv, NEW r \in relation
               PROVE  r.type = Kind[r.tg] /\ Abs(r.id) \in Primitives(r.type)
    BY DEF RelationsReferToPrimitives
  <2>1. Numbered(Tables) /\ Named(Tables) /\ r \in Tables.relation
    BY TablesFacts DEF PlanarInv, Inv, Sound, Base
  <2>2. r.type = Kind[r.tg] /\ (r.type # 2 => Abs(r.id) = r.id) /\ Names(Tables, r)
    BY <2>1, RowFacts DEF Named
  <2> QED
    BY <2>2, TablesFacts DEF Names, Primitives
<1> QED
  BY <1>1, InvHolds, PTL

\* No call puts two nodes in one place, an edge across or onto another, or a node on an edge
\* that does not end there: what ValidateTopology calls coincident nodes, edge crosses edge,
\* edge crosses node and edge end node geometry mismatch
THEOREM DrawingStaysPlanar == Spec => []DrawingIsPlanar
<1>1. PlanarInv => DrawingIsPlanar
  BY TablesFacts
  DEF PlanarInv, Inv, Sound, Base, Drawn, Apart, DrawingIsPlanar
<1> QED
  BY <1>1, InvHolds, PTL
=============================================================================
