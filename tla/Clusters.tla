------------------------------ MODULE Clusters ------------------------------
(***************************************************************************)
(* Clusters of geometries: the union-find of lwunionfind.c and the two     *)
(* loops of lwgeom_geos_cluster.c over it, DBSCAN (union_dbscan_general)   *)
(* and connected geometries (union_dbscan_minpoints_1, for minPoints <= 1, *)
(* and union_intersecting_pairs, where near means that they meet).  A step *)
(* looks at one geometry that the index of boxes found for p, or joins one *)
(* of those set aside.                                                     *)
(***************************************************************************)
EXTENDS Integers, Sequences, FiniteSets

CONSTANTS Inputs,     \* the rows that are clustered: see InputType
          Done

\* near and boxes are the pairs of rows whose geometries, or whose boxes, are near enough;
\* a null row stands in the array as an empty geometry
InputType(x) ==
  /\ x.n \in Nat /\ x.minPoints \in Nat
  /\ x.null \subseteq x.empty /\ x.empty \subseteq 0 .. x.n - 1
  /\ x.near \subseteq x.boxes
  /\ \A e \in x.boxes : e \subseteq (0 .. x.n - 1) \ x.empty /\ Cardinality(e) = 2

ASSUME InputsHaveTheirType == \A x \in Inputs : InputType(x)
ASSUME DoneIsNoGeometry == Done \notin Nat

VARIABLES input, uf, inCluster, inCore,
          p,             \* the geometry whose neighbours are visited, or Done
          todo,          \* what the index found near p, still to look at
          neighbors,     \* near p, set aside until there are minPoints of them
          ids            \* geometry -> number of its cluster, when they are assigned

vars == <<input, uf, inCluster, inCore, p, todo, neighbors, ids>>

Geoms == 0 .. input.n - 1
Near(g, h) == g \notin input.empty /\ (g = h \/ {g, h} \in input.near)

\* dbscan_update_context: what the index of boxes finds, in any order
Found(g) == {h \in Geoms \ input.empty : g = h \/ {g, h} \in input.boxes}

-----------------------------------------------------------------------------
(* Union-find.                                                             *)

UF_create(n) ==
  [clusters |-> [i \in 0 .. n - 1 |-> i], sizes |-> [i \in 0 .. n - 1 |-> 1], num |-> n]

\* Following the links from i one comes by j: without j there is no set to stay in
LeadsTo(u, i, j) ==
  \A S \in SUBSET (DOMAIN u.clusters \ {j}) : i \in S => \E k \in S : u.clusters[k] \notin S

Root(u, i) == CHOOSE r \in DOMAIN u.clusters : u.clusters[r] = r /\ LeadsTo(u, i, r)

\* UF_find links all it passes to the root
UF_find(u, i) ==
  LET root == Root(u, i)
  IN  [u EXCEPT !.clusters =
         [j \in DOMAIN @ |-> IF LeadsTo(u, i, j) THEN root ELSE @[j]]]

\* Root a goes under root b
Attach(u, a, b) ==
  [u EXCEPT !.clusters[a] = b, !.sizes[b] = @ + u.sizes[a], !.sizes[a] = 0, !.num = @ - 1]

\* Faulty: the element goes under the other root, and leaves its cluster behind
UnionOfElement(u, i, j) ==
  IF Root(u, i) = Root(u, j) THEN u ELSE Attach(u, i, Root(u, j))

\* Faulty: the size of the cluster that is taken in is lost
UnionLosingSize(u, i, j) ==
  LET v == UF_find(UF_find(u, i), j)
      a == Root(u, i)
      b == Root(u, j)
  IN  IF a = b THEN v ELSE [Attach(v, a, b) EXCEPT !.sizes[b] = v.sizes[b]]

UF_union(u, i, j) ==
  LET v == UF_find(UF_find(u, i), j)
      a == Root(u, i)
      b == Root(u, j)
      under == u.sizes[a] < u.sizes[b] \/ (u.sizes[a] = u.sizes[b] /\ a > b)
  IN  IF a = b THEN v ELSE IF under THEN Attach(v, a, b) ELSE Attach(v, b, a)

-----------------------------------------------------------------------------
(* DBSCAN.                                                                 *)

\* Faulty: the cluster of q is joined though q may be on its border
UnionAlways(c, g, q) ==
  [c EXCEPT !.uf = UF_union(@, g, q), !.inCluster = @ \cup {q}]

\* c is the clusters so far: union-find, members and cores
UnionIfAvailable(c, g, q) ==
  IF q \notin c.inCluster
  THEN [c EXCEPT !.uf = UF_union(@, g, q), !.inCluster = @ \cup {q}]
  ELSE IF q \in c.inCore THEN [c EXCEPT !.uf = UF_union(@, g, q)]
  ELSE c

Clustered == [uf |-> uf, inCluster |-> inCluster, inCore |-> inCore]

Becomes(c) == uf' = c.uf /\ inCluster' = c.inCluster /\ inCore' = c.inCore

\* p is known to be core: minPoints are near it
Dense == p \in inCore

\* p takes what is free of the geometries that were set aside, before it looks further
Joining == Dense /\ neighbors # <<>>

\* What need not be measured: q is with p already, or on the border of another cluster
Skipped(q) == Dense /\ (Root(uf, p) = Root(uf, q) \/ q \in inCluster \ inCore)

Compare(q) == [Clustered EXCEPT !.uf = UF_find(UF_find(@, p), q)]

\* q is set aside; with minPoints of them p is core
SetAside(q) ==
  /\ neighbors' = Append(neighbors, q)
  /\ Becomes(IF Len(neighbors') < input.minPoints THEN Clustered
             ELSE [Clustered EXCEPT !.inCore = @ \cup {p}, !.inCluster = @ \cup {p}])

VisitGeneral(q) ==
  LET c == IF Dense THEN Compare(q) ELSE Clustered
  IN  IF Skipped(q) \/ ~Near(p, q) THEN Becomes(c) /\ UNCHANGED neighbors
      ELSE IF Dense THEN Becomes(UnionIfAvailable(c, p, q)) /\ UNCHANGED neighbors
      ELSE SetAside(q)

VisitConnected(q) ==
  /\ Becomes(IF Root(uf, p) # Root(uf, q) /\ Near(p, q)
             THEN [Compare(q) EXCEPT !.uf = UF_union(@, p, q)]
             ELSE Compare(q))
  /\ UNCHANGED neighbors

-----------------------------------------------------------------------------
(* The numbers of the clusters.                                            *)

\* Faulty: geometries that are in no cluster are counted too
CollapsedOfAll(u, members) ==
  [g \in members |->
     Cardinality({r \in DOMAIN u.clusters : u.clusters[r] = r /\ r < Root(u, g)})]

\* UF_get_collapsed_cluster_ids: clusters are numbered in the order of their roots
Collapsed(u, members) ==
  [g \in members |-> Cardinality({r \in {Root(u, h) : h \in members} : r < Root(u, g)})]

-----------------------------------------------------------------------------
Init ==
  /\ input \in Inputs
  /\ uf = UF_create(input.n)
  /\ inCluster = IF input.minPoints <= 1 THEN Geoms ELSE {}
  /\ inCore = {}
  /\ p = 0 /\ todo = {} /\ neighbors = <<>> /\ ids = <<>>

\* Too few geometries for a cluster, or for a pair
Bail == input.n < input.minPoints \/ (input.minPoints <= 1 /\ input.n <= 1)

\* The next turn of the loop over p, from the top
Searching == p \in Geoms /\ todo = {} /\ ~Joining /\ ~Bail

SkipEmpty ==
  /\ Searching /\ p \in input.empty
  /\ p' = p + 1
  /\ UNCHANGED <<input, uf, inCluster, inCore, todo, neighbors, ids>>

\* With too few boxes there is nothing to measure
Query ==
  /\ Searching /\ p \notin input.empty
  /\ neighbors' = <<>>
  /\ IF Cardinality(Found(p)) < input.minPoints THEN p' = p + 1 /\ UNCHANGED todo
     ELSE todo' = Found(p) /\ UNCHANGED p
  /\ UNCHANGED <<input, uf, inCluster, inCore, ids>>

\* The turn of p is over when all is looked at and joined
EndTurn == p' = IF todo' = {} /\ (p \in inCore' => neighbors' = <<>>) THEN p + 1 ELSE p

Visit(q) ==
  /\ q \in todo /\ ~Joining
  /\ IF input.minPoints <= 1 THEN VisitConnected(q) ELSE VisitGeneral(q)
  /\ todo' = todo \ {q}
  /\ EndTurn
  /\ UNCHANGED <<input, ids>>

Join ==
  /\ Joining
  /\ Becomes(UnionIfAvailable(Clustered, p, Head(neighbors)))
  /\ neighbors' = Tail(neighbors)
  /\ UNCHANGED <<input, todo, ids>>
  /\ EndTurn

\* A null row has no number, but had its share of them
Assign ==
  /\ p # Done /\ todo = {} /\ ~Joining /\ (Bail \/ p = input.n)
  /\ p' = Done
  /\ uf' = [uf EXCEPT !.clusters = [g \in Geoms |-> Root(uf, g)]]
  /\ LET numbers == Collapsed(uf, inCluster)
     IN  ids' = [g \in inCluster \ input.null |-> numbers[g]]
  /\ UNCHANGED <<input, inCluster, inCore, todo, neighbors>>

Next == SkipEmpty \/ Query \/ (\E q \in Geoms : Visit(q)) \/ Join \/ Assign

Spec == Init /\ [][Next]_vars

-----------------------------------------------------------------------------
(* Properties.                                                             *)

Blocks ==
  LET root == [g \in Geoms |-> Root(uf, g)]
  IN  {{h \in Geoms : root[h] = root[g]} : g \in Geoms}

P == INSTANCE Partition WITH elements <- Geoms, blocks <- Blocks

\* The arrays of the union-find are a partition of the rows, whose blocks only merge
UnionFindImplementsPartition == P!Spec

\* A root knows the size of its cluster, the others have none, and num_clusters counts the
\* clusters: combine_geometries makes room for that many
SizesAreOfBlocks ==
  /\ uf.num = Cardinality(Blocks)
  /\ \A B \in Blocks : \A g \in B :
       uf.sizes[g] = IF uf.clusters[g] = g THEN Cardinality(B) ELSE 0

\* What the documentation of ST_ClusterDBSCAN calls a core geometry
Cores == {g \in Geoms : Near(g, g) /\ Cardinality({h \in Geoms : Near(g, h)}) >= input.minPoints}

Chained(c, d) ==
  \A S \in SUBSET Cores :
    (c \in S /\ \A g \in S, h \in Cores : Near(g, h) => h \in S) => d \in S

\* Whatever the order of the rows and of the index: cores are together if a chain of near
\* cores links them and only then, any other member is with a core near it, and what is
\* near no core is in no cluster; of connected geometries, an empty one is by itself
ClustersAreDensityConnected ==
  p = Done =>
    LET alone == IF input.minPoints <= 1 THEN input.empty \ input.null ELSE {}
    IN  /\ DOMAIN ids = {g \in Geoms : \E c \in Cores : Near(c, g)} \cup alone
        /\ \A c, d \in Cores : ids[c] = ids[d] <=> Chained(c, d)
        /\ \A g \in DOMAIN ids \ (Cores \cup alone) : \E c \in Cores : Near(c, g) /\ ids[g] = ids[c]
        /\ \A e \in alone, g \in DOMAIN ids : ids[e] = ids[g] => e = g

\* The numbers tell the clusters apart, and leave none out unless a row is null
IdsNameClusters ==
  p = Done =>
    LET named == {B \in Blocks : B \cap inCluster # {}}
    IN  /\ \A g, h \in DOMAIN ids : ids[g] = ids[h] <=> Root(uf, g) = Root(uf, h)
        /\ \A g \in DOMAIN ids : ids[g] < Cardinality(named)
        /\ input.null = {} => {ids[g] : g \in DOMAIN ids} = 0 .. Cardinality(named) - 1
=============================================================================
