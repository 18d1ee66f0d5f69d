# TLA+ models of Yukon / PostGIS

This directory specifies, model-checks and in part proves the logic of this repository that is
hardest to test: the topology engine, which keeps a planar map in SQL tables through a sequence of
edits and loads; the long-transaction locks, which let clients hold rows across transactions; the
indexes that functions keep between the rows of a query; and the clustering of geometries.

Paths below are relative to the repository; `lwgeom_topo.c` is `liblwgeom/lwgeom_topo.c`,
`postgis_topology.c` is `topology/postgis_topology.c`, `long_xact.*` are in `postgis/`.

## 1. The system

The repository is PostGIS (an extension of PostgreSQL) with additions: a C geometry library
(`liblwgeom`), the SQL layer over it (`postgis`, `libpgcommon`), topology, raster, loaders, and
Yukon's own vector pyramid, GeoSOT grid coder and geomodel bindings. Most of it consists of functions
from values to values. The parts with state, and with behaviours a unit test hardly reaches:

| component | state | operations | interacts with | what is hard | what makes it correct |
|---|---|---|---|---|---|
| topology engine, `lwgeom_topo.c` | none between calls; works on the tables of one topology through callbacks | sixteen SQL/MM edits, face lookup, `TopoGeo_Add*`, `lwt_Polygonize` | backend callbacks; GEOS predicates | each edit relies on links, sides, boxes and containing faces that earlier edits left | the tables describe one planar map: links turn clockwise, sides of a ring name one face, faces tile the plane, isolated nodes and boxes are exact |
| topology backend, `postgis_topology.c` | tables `node`, `edge_data`, `face`, `relation`, the id sequences | one SQL statement per callback; five that keep TopoGeometries in step | SPI | the second copy (`relation`) of what an edit replaces | TopoGeometries keep their shape and refer to primitives that exist |
| validation and TopoGeometry functions, `topology/sql` | layers and `relation` | `ValidateTopology`, `clearTopoGeom`, `toTopoGeom`, element editing | the tables | long sequences of editing | as above |
| long transactions, `long_xact.sql.in`, `long_xact.c` | `authorization_table`, a temporary table per session, triggers | `LockRow`, `UnlockRows`, `AddAuth`, `CheckAuth`, enable/disable, trigger `check_authorization` | sessions through PostgreSQL transactions | interleaved transactions, expiry, tokens of earlier transactions, tables of other sessions | one holder per row; a holder's reads stay current |
| per-query caches, `libpgcommon`, `postgis/lwgeom_geos_prepared.c` and others | prepared geometries, trees and detoasted values in a function's memory; GEOS objects and a hash of them in the session | lookup, rebuild, release, end of the query | executor, memory contexts, TOAST | a stale entry taken for another value; copies with several users; objects outside the memory contexts | a result comes from its arguments; nothing is freed early, twice or never |
| history table, `extras/history_table` | current and history tables | rules and triggers on insert, update, delete | SQL clients | order of triggers | intervals of versions do not overlap |
| clustering, `lwunionfind.c`, `lwgeom_geos_cluster.c` | union-find arrays, members and cores | union, find, DBSCAN, numbering | GEOS trees, window functions | order of rows and of the index, borders of two clusters, shortcuts | the clusters of the definition, whatever the order |
| vector pyramid, `pyramid/` | tile tables | build, update | SPI | partial rebuild | tiles cover exactly the changed rows |
| index support, encodings, raster, loaders, geocoders, geometry functions | none beyond a call | - | PostgreSQL, GDAL, files | numeric | - |

`PROJECT.json` lists every component with the reason where it is not modelled, the hazards of the
modelled code line by line, and for every definition of a module the lines it models.

## 2. The modules

| module | what it is |
|---|---|
| `Lattice` | the plane geometry the engine relies on, exact on a lattice: azimuths, winding numbers, signed areas, boxes, crossing |
| `Topology` | the engine and its backend: sixteen edits, four TopoGeometry functions |
| `TopologyValid` | what the tables must satisfy; the refinement of `EdgeLinking` |
| `TopologyProof` | theorems about `Topology`: rows of `relation` name primitives, and the drawing stays planar |
| `TopologyLinksProof` | theorems about the links of `Topology`: they turn clockwise, and are edited as `EdgeLinking` promises; EXTENDS `TopologyProof` |
| `MCTopology` | small drawings for TLC, each with calls, curves and sites of its own |
| `TopoLoad` | loading points, lines, polygons and TopoGeometries, and `lwt_Polygonize`, one edit a step; EXTENDS `TopologyValid` |
| `MCTopoLoad` | small geometries to load |
| `TopoLoadProof` | theorems about `TopoLoad`: loads keep the drawing planar, links clockwise and rows valid, and the edges held cover the line; EXTENDS `TopologyLinksProof` |
| `EdgeLinking` | the abstract specification of the links of a topology, without geometry |
| `EdgeLinkingProof` | theorems about `EdgeLinking` for all sets of edges and nodes |
| `LongXact` | row locks and tokens of concurrent sessions over PostgreSQL transactions with savepoints |
| `MCLongXact` | scenarios, and symmetry |
| `LongXactProof` | theorems about `LongXact`: types, one holder of a row, and what a holder has read stays |
| `GeomCache` | the indexes and copies that functions keep between rows, and the GEOS objects of a session |
| `MCGeomCache` | scenarios: queries, functions and rows |
| `GeomCacheProof` | theorems about `GeomCache`: results, counts, indexes, hash |
| `Partition` | the abstract specification of a union-find |
| `PartitionProof` | theorems about `Partition` for any elements |
| `Clusters` | the union-find, and the loops of DBSCAN and of connected geometries over it |
| `MCClusters` | small sets of rows |
| `ClustersProof` | lemmas about the arrays of the union-find, and the theorems about `Clusters` |

### Topology

`node`, `edge`, `face` and `relation` are the four tables as functions (a set, for `relation`), with
the columns' names; `seq` holds the id sequences and `outcome` how the last call ended. The universal
face 0 is not stored. A signed edge id, as in `next_left`, is called a dart: +e walks edge e forward
with its left face on the left, -e walks it backward.

One action is one SQL call. Inside it the updates of the code are composed in their order on a record
of the tables (`Tables`, the `InsertEdge`, `RedirectLeft`, ... operators, one per callback), and
`Finish` writes the result. This is atomic because a call is one statement: an error rolls all of it
back. So a call that raises an error because of its arguments is not enabled, and one that raises
because it finds the topology corrupted, or because its SQL is wrong, sets `outcome` and leaves the
tables alone. The ids an aborted call drew are lost in PostgreSQL and drawn again here.

- `AddIsoNode`, `MoveIsoNode`, `RemoveIsoNode`, `AddIsoEdge`, `RemIsoEdge`: isolated primitives.
  Adding and moving use `GetFaceContainingPoint`, which asks the index for one closest edge: any of
  several at the same distance may come back, hence the `\E f`.
- `ModEdgeSplit`, `NewEdgesSplit`: the split, with the redirections of the neighbours' links.
- `AddEdgeNewFaces`, `AddEdgeModFace`: `AddEdge` finds the adjacent edge ends (`FindAdjacentEdges`),
  the face they agree on (`NewEdgeFace`), ties the edge (`InsertLinkedEdge`), and `AddFaceSplit` walks
  the ring of each of its sides, makes the new face and moves the sides and nodes in it (`MoveSides`,
  `MoveNodes`).
- `RemEdgeModFace`, `RemEdgeNewFace`: `LinkPast`, `HealFaces`, and the nodes left bare.
- `ModEdgeHeal`, `NewEdgeHeal`: `HealAt` finds the node, `Healed` the edge, `RenameDart` the links.
- `ChangeEdgeGeom`: `MotionIsFree`, `Disposition`, `UpdateFaceBoxes`.
- `CreateTopoGeom` (external: its SQL is not in the repository), `ClearTopoGeom`, `AddElement`,
  `RemElement`.

Geometry is on a lattice: a curve is a path of unit segments all of whose lattice points are vertices.
Predicates that are floating-point in the code are then exact integer facts, so the models say nothing
about rounding. Tolerance is zero, and TopoGeometries have positive element ids only.

### TopoLoad

A load (`load`) is one statement, but a long one: it reads the tables, cuts its geometry, and then adds
the pieces by the edits of `Topology`, each of which reads what the one before wrote. So each edit is a
step, and what the statement holds in memory between two of them is a variable: the pieces to add
(`todo`), the rings and parts to come, the ids of the edges it will return.

- `BeginLoad` takes a request; `NodeLine` is the first half of `_lwt_AddLine`, which breaks the line at
  itself, at edges (splitting them) and at nodes (`BreaksAt`, `Pieces`); `LoadPiece` is
  `_lwt_AddLineEdge` for one piece, with the reuse of an equal edge (`EqualEdge`); `LoadPoint` is
  `_lwt_AddPoint`.
- `WriteRows` ends one part of `toTopoGeom` with the rows it found, `FacesCovered` for a polygon.
- `BeginPolygonize`, `RegisterSide`, `AssignHole`, `EndPolygonize`: rings are walked one a step; holes are
  given to shells afterwards (`FaceContainingRing`).

An edit that fails undoes the load (`Continue`). Pieces are added in any order, since GEOS promises none.
Geometries meet exactly or not at all: the code replaces a tolerance of zero by a minimal one, and what a
tolerance does, snapping and moving vertices, is left out. Clients draw lines without faces only in a
topology that has none, and call `lwt_Polygonize` before anything that reads faces; those drawings have no
isolated nodes, whose containing face it does not set (`liblwgeom_topo.h:1101`). A line never runs back over
its own segment.

### EdgeLinking

The columns `next_left_edge` and `next_right_edge` as one function `next` on darts, with `org`, the
node a dart leaves. An edit ties an edge into one corner of each node, removes an edge, splits one or
heals two; which corner is left open. `TopologyValid` instantiates it with the darts of the tables, and
`EditsImplementLinking` says that every step of `Topology` is such an edit or leaves the links alone.

### LongXact

`locks` is `authorization_table` (of one guarded table), `temp` the sessions' `temp_lock_have_table`,
`tx` the open transactions with their snapshots and uncommitted changes, `done` the committed ones that
still matter. `row` records for each row the transaction that last wrote it and the tokens that
transaction had; `fetched` the versions holders of locks have read. These two only serve the properties.

The functions call nothing but SQL, so PostgreSQL is modelled as far as they rely on it, and every such
definition is marked external in the map: a statement sees its snapshot and its own changes; a change of
a row waits for another open transaction that changed it, and fails in a serializable transaction when
that one committed; a serializable commit fails when it would complete a dangerous structure of
read-write dependencies. A savepoint begins a subtransaction, with an id of its own until it is released;
rolling back to it takes back its changes. Reads of `authorization_table` depend on all of it, as with the sequential scan
of a table without index. `now()` is the time the transaction began. `EnableLongTransactions`,
`CheckAuth` and `DisableLongTransactions` take exclusive locks on the tables, and are
modelled only when no transaction is open (`Quiet`). This is a restriction: those locks keep them apart from
transactions that have used the tables, not from one that is open but has not, so no run says what happens to
a transaction that begins before support is switched and uses it after. `LockRow` and `UnlockRows` fail while
support is off (`Abort`). `Disconnect` drops the temporary table. A waiting statement is a disabled action;
`Rollback`, always possible, stands for what ends a wait.

### GeomCache

A site is a place in a query where a function is called: `site[s]` is what hangs from its `fn_extra`,
that is the copies in its memory context (`heap`, with their counts), the detoast cache, the three
indexes with their two keys each, and the context of the prepared geometry. `hash` and `geos` are of the
session. One action is one call of a function on a row, from detoasting to the index that answers: a
backend runs one call at a time, but sites of one query, and nested queries, interleave and end in any
order. `End` is the callback of the memory context, which also runs after an error. Addresses are numbers
and the smallest free one is handed out first, so that memory is used again at once. `last` keeps what the
last call was asked and what its result was computed from; only the properties read it. An operator on a
record (`GetGeomCache`, `BuildIndex`, `SetKeys`, ...) stands for each C function.

`Lookup` says which index a function asks for, from the kinds of its arguments: `contains`,
`ST_Intersects` and `ST_DistanceRectTreeCached` between them ask in every way the other predicates do
(`within` is `contains` with its arguments swapped). `contains` and `ST_Intersects` answer from the boxes
when these decide; the distance does not, and asks for no index only with an empty geometry or for two
points (`DistanceLookup`). Its SQL declaration is still a comment (`postgis.sql.in:1393`); the distance of
geographies calls `GetGeomCache` under the same conditions, with a tree that is freed the same way. The
branches of `GetGeomCache` for an empty geometry are left out, since callers return before, and those for a
failing builder, since the error ends the query.

### Partition and Clusters

`Clusters` runs one clustering of the rows of a partition. `p` is the row of the outer loop, `todo` what
the index found near it, `neighbors`, `inCluster` and `inCore` the arrays of the code. A step looks at one
row that was found (`Visit`), in any order; when p turns out to be core, the rows that were set aside until
then are joined one a step (`Join`), as in the loop of the code. The walk of `UF_find` to a root is said
without recursion: `LeadsTo(u, i, j)` holds if there is no way to follow the links from i and never come by
j. Nearness, of geometries and of boxes, is a relation that is
given; a null row is an empty geometry, as in `read_lwgeom_from_partition`. `Assign` numbers the clusters
(`Collapsed`). `minPoints` of 0 or 1 stands for the loops of `union_dbscan_minpoints_1` and
`union_intersecting_pairs`. The failure branches, a distance or a test that GEOS cannot compute, end the
statement and are left out. An empty geometry is near nothing. With `minPoints`
above 1 it is in no cluster; with 0 or 1 it is a cluster by itself, with a number of its own, as the code
has it, while `reference_cluster.xml` does not speak of empty geometries.

`Partition` is what a union-find promises: blocks that only merge. `UnionFindImplementsPartition` maps the
arrays to the sets of rows with one root.

## 3. The runs

Clients may stop at any time, and the bounds stop them, so `CHECK_DEADLOCK FALSE` except in `geom_cache`,
where a query can always end or begin. Symmetry is used for sessions and tokens only: ids are numbers,
coordinates and addresses are ordered. A run plays several small scenarios, each with calls and bounds
of its own, chosen at the start by an MC variable.

| run | scenarios | checks | distinct states |
|---|---|---|---|
| `topology_edits` | hole: an outer loop, an inner loop drawn either way, a bridge; yard: isolated nodes, a fence and a wall in a yard; plot: a plot in three sizes, an edge that is bent and split | `TypeOK`, `RingsBoundOneFace`, `FacesHaveOneShell`, `FacesTileThePlane`, `NeverCorrupted`, `IsolatedNodesKnowTheirFace`, `FaceLookupIsExact`, `LinksTurnClockwise` | 6 268 |
| `topology_links` | theta: a straight edge and two arcs between two nodes, isolated nodes, splits, heals; shapes: the same with one puntal, one lineal and one areal TopoGeometry over any elements | `LinksTurnClockwise`, `DrawingIsPlanar`, `RelationsReferToPrimitives`, `EditsImplementLinking`, `TopoGeomsKeepShape` | 10 258 |
| `topology_load` | crossing: two of five lines and points that cross, overlap and close; nested: three of four rings and bridges drawn without faces, then found, and a line over them; shaped: two of four TopoGeometries of several parts | `LoadsSucceed`, `FacesAreRightInLoads`, `LinksTurnClockwise`, `IdsCoverLine`, `LoadsKeepShapes`, `LoadsEnd` | 25 156 |
| `edge_linking` | 3 edges, 3 nodes | `TypeOK`, `LinksFollowNodes`, `LinksArePermutation` | 3 742 |
| `long_xact` | 2 sessions, 1 row, 3 transactions; contend: 2 tokens, times 0..2, support switched on and off; work: the holder changes the row and reads it, others try; save: the same with savepoints | `TypeOK`, `OneHolder`, `HolderReadsStayCurrent` | 245 944 |
| `geom_cache` | join: two polygons, one stored twice; points: polygons and a point; rest: a polygon, a line far from it and an empty geometry; nested: two sites that prepare geometries | `ResultsAreOfTheArguments`, `CountsAreUsers`, `IndexesStandOnTheirKeys`, `HashHoldsLiveObjects`, `RepeatsFindAnIndex` | 40 633 |
| `clusters` | four rows, near each other in every way, with every set of boxes that allows it; two rows that share three neighbours; chains with an empty or null row; too few rows | `SizesAreOfBlocks`, `ClustersAreDensityConnected`, `IdsNameClusters`, `UnionFindImplementsPartition` | 180 134 |

What the properties say:

- `LinksTurnClockwise` is the linking check of `ValidateTopology`: every edge links on each side to the
  edge end next met clockwise around the node it reaches. It fails long after the edit that broke it
  would have looked fine, hence the sequences of edits.
- `RingsBoundOneFace`, `FacesHaveOneShell` (with the exact box), `FacesTileThePlane`: sides and faces.
  The last is independent of the links: it looks from every cell in four directions at the nearest edge
  and demands the same face each time, which is what places holes and islands.
- `IsolatedNodesKnowTheirFace`, `FaceLookupIsExact`: copies of a face id, and the lookup behind them,
  agree with where the point is, whichever of the closest edges the index returns.
- `NeverCorrupted`: no legal call on a legally built topology raises "corrupted topology".
- `TopoGeomsKeepShape`: an edit that moves nothing, and does not name its elements, leaves every
  TopoGeometry the same set of points, segments or cells.
- `LoadsSucceed`: whatever is loaded over whatever, no edit of a load is refused. `FacesAreRightInLoads`:
  the faces are exact between any two edits of a load, and after `lwt_Polygonize`. `IdsCoverLine`: the
  edges whose ids are held, with the pieces to come, are the line, at every step. `LoadsKeepShapes`: a
  TopoGeometry covers what was loaded into it while later parts cut its primitives. `LoadsEnd`: liveness.
- `OneHolder`: two sessions never both believe they hold a row. `HolderReadsStayCurrent`: what the holder
  has read is not changed by others while its lock lives. With `Serializable = FALSE` TLC violates both
  at once, as the note in `doc/reference_transaction.xml:15-18` warns, so the runs use the serializable
  level.
- `ResultsAreOfTheArguments`: the index that answers is of the argument of this call.
  `IndexesStandOnTheirKeys`: it is built on the copy its key holds. `CountsAreUsers`: a copy is kept while,
  and only while, somebody refers to it. `HashHoldsLiveObjects`: GEOS objects, hash and contexts agree.
  `RepeatsFindAnIndex`: a repeated argument is worth an index at the second sight, on either side.
- `ClustersAreDensityConnected` is the definition in `doc/reference_cluster.xml:47-61`, stated over all
  rows at once: cores are together exactly if a chain of cores joins them, a border is with one of its
  cores. `IdsNameClusters`: numbers are dense, but for the gaps that null rows leave.
  `SizesAreOfBlocks`: the sizes and the count that `combine_geometries` allocates by.

Bounds. The drawings are chosen so that the interesting cases happen, and the passing runs take every
action: rings in rings in either direction; edges that share both nodes; loops and dangling edges, each
removed and redrawn with fresh ids, so that no property depends on the order of ids; nodes that become
isolated again. The last ids of a drawing (`Drawn`) are one to three edits beyond the complete drawing.
Two or three loads are enough for one to cut what another drew, and the third to cut the pieces; the
loads themselves have up to three parts and cross themselves. Three transactions are what a dangerous
structure needs, two sessions are what can be open at once in one, and time 0..2 has an expiry before, at
and after a reading of it. One token is enough for the scenarios with work on the row: to the trigger a
transaction with another token is one that added none. In `geom_cache` an index has two keys, so three
values are what makes one of them change while the other stays, and every state of a site is reached
without a bound on the number of rows; two sites are what shares the hash. In `clusters` four rows hold
a core, its border and a row that is near neither; five are the least for a border of two clusters, so
those are added for the graphs that have one.

### Disagreements with the documentation

Five runs end in a violation; each checks one property.

- `new_split_links`: `lwt_NewEdgesSplit` (`lwgeom_topo.c:1304`, `:1318`) moves `next_right` of the
  neighbours to the half that does not touch their node, where `next_left` is moved to the half that
  does. After two edges are drawn between the same nodes and one is split, the other links to an edge
  end at another node. The documentation has it update "all existing joined edges and relationships
  accordingly". The drawing `plot` of `topology_edits` has the case in which only `next_left` is
  involved and is right.
- `new_split_lineal`: `cb_updateTopoGeomEdgeSplit` (`postgis_topology.c:2273`) empties the statement
  before it appends the row of the second edge: splitting an edge of a lineal TopoGeometry by
  `ST_NewEdgesSplit` is an SQL error. The regression test that means to cover it calls `ST_ModEdgeSplit`.
- `reshape_flip`: `lwt_ChangeEdgeGeom` (`lwgeom_topo.c:3449`) compares the neighbours around each end
  node; with a single neighbour both sides of it look alike, and one of two parallel edges can be moved
  across the other, although the function "changes the shape of an edge without affecting the topology
  structure".
- `add_auth_refused`: `AddAuth` (`long_xact.sql.in:127`) finds the temporary table of another session in
  `pg_class`, does not create its own, and fails.
- `savepoint_refused`: the token of `AddAuth` is recorded with the id of the current subtransaction
  (`long_xact.c:190`), so after a savepoint is set the change it was to authorize is refused, although
  it is "an authorization token to be used in the current transaction"
  (`doc/reference_transaction.xml:26`).

Seen and not made a run: `DisableLongTransactions` drops the view that the comment above it
(`long_xact.sql.in:278`) says it keeps; a row locked again by its token keeps its old expiry.

### Faulty variants

For every property of a passing run `PROJECT.json` names a variant of one definition, written before it
in the module under a comment that begins "Faulty", which is the kind of slip an edit of that code could
make (one end of an edge forgotten, a box not updated, the boundary instant of an expiry excluded). With
the variant in place of the definition TLC finds the property violated under the run's own bounds: the
properties are not satisfied by shape alone.

### Fairness and liveness

`LoadsEnd` says that every load ends, `lwt_Polygonize` included, whose walks of rings have no bound: over
a link that leads into another ring a walk would never come back. It assumes weak fairness of the steps of
the load that runs (`Fairness` in `MCTopoLoad`): they are the statements of one C function, which runs to
its end once called. A step whose ring does not close is not possible, which stands for a walk that never
ends. The fairness is written out with `[]<>` and the condition under which a step is possible, which is
what `WF` means here, because TLC takes very long to find that out from the steps. Nothing is assumed of
clients: a load need not begin.

No other liveness is claimed. A client may stop, never unlock, and never commit; the only waits are those
of PostgreSQL, and what ends them (deadlock detection, timeouts) is outside this code.

## 4. The proofs

TLAPS proves the following for all values of the constants. Every theorem is an inductive invariant, or
follows from one.

| module | theorem | what it states |
|---|---|---|
| `TopologyProof` | `RelationIsValid` | `Spec => []RelationsReferToPrimitives` |
| | `DrawingStaysPlanar` | `Spec => []DrawingIsPlanar` |
| `TopologyLinksProof` | `LinksStayClockwise` | `NewSplitsAreLeftLinked` gives `Spec => []LinksTurnClockwise` |
| | `EditsAreThoseOfLinks` | `NewSplitsAreLeftLinked` gives `Spec => EditsImplementLinking`, the refinement of `EdgeLinking` |
| | `RingsClose` | `NewSplitsAreLeftLinked` gives `Spec => []LinksArePermutation` of the links of the tables |
| `TopoLoadProof` | `HeldEdgesCoverLine` | `LoadSpec => []IdsCoverLine` |
| | `LoadsKeepPlanarity` | `LoadSpec => []DrawingIsPlanar` |
| | `LoadedLinksAreClockwise` | `LoadSpec /\ NewSplitsAreLeftLinked => []LinksTurnClockwise` |
| | `RingsCloseInLoads` | `LoadSpec /\ NewSplitsAreLeftLinked => []Linking!LinksArePermutation` |
| | `LoadedRowsAreValid` | `LoadSpec => []RelationsReferToPrimitives` |
| `ClustersProof` | `ClustersAreThoseOfTheDefinition` | `Spec => []ClustersAreDensityConnected` |
| | `NumbersNameClusters` | `Spec => []IdsNameClusters` |
| | `UnionFindIsAPartition` | `Spec => UnionFindImplementsPartition`, the refinement of `Partition` |
| | `SizesAreThoseOfBlocks` | `Spec => []SizesAreOfBlocks` |
| `LongXactProof` | `TypesAreRight` | `Spec => []TypeOK` |
| | `OneHolderOnly` | `Serializable` gives `Spec => []OneHolder` |
| | `HolderReadsStay` | `Serializable` gives `Spec => []HolderReadsStayCurrent` |
| `GeomCacheProof` | `ResultsAreRight` | `Spec => []ResultsAreOfTheArguments` |
| | `SharedCopiesCountUsers` | `Spec => []CountsAreUsers` |
| | `IndexesStand` | `Spec => []IndexesStandOnTheirKeys` |
| | `HashIsExact` | `Spec => []HashHoldsLiveObjects` |
| | `RepeatsAreIndexed` | `Spec => RepeatsFindAnIndex`, an action property |
| `EdgeLinkingProof` | `TypeCorrect` | `Spec => []TypeOK` |
| | `LinksAlwaysFollowNodes` | a dart is followed by one that leaves the node it reaches |
| | `LinksAlwaysArePermutation` | `next` is one-to-one and onto, so a walk of the links, as `cb_getRingEdges` does in SQL without a bound, always comes back to where it began |
| `PartitionProof` | `AlwaysPartition` | `Spec => []BlocksPartition`, every element is in exactly one block |
| | `TogetherForGood` | `Spec => BlocksOnlyMerge`, elements that share a block always will |

### Topology: relation and drawing

Both theorems of `TopologyProof` are about the whole `Spec`: the sixteen edits, with any curves and sites, and the calls on
TopoGeometries. The invariant, `PlanarInv`, is said of the tables as one record, so that it can be followed
through the updates that make up a call. Its parts:

- `Base`: the columns; ids that their sequences have handed out (`Numbered`, without which a new node or edge
  might replace one); faces that nodes and edges name were handed out (`Sided`); and edges are curves on the
  lattice that begin and end where their nodes are (`Drawn`).
- `Anchored`: a node at which an edge ends has no containing face. A node is removed only if it has one, and
  an edge only together with the claim on its nodes, so this is why no call leaves an edge without a node.
- `Named`: what `RelationsReferToPrimitives` says, with the columns of a row. A heal or a split renumbers an
  edge and rewrites the rows; a face goes only after its rows were given another or found to be none.
- `Apart`: two nodes are in two places, an edge does not meet itself, and it meets another only at nodes of
  both. The check the code makes of a new curve (`CheckEdgeCrossing`) is of one edge against all others
  and of all nodes against it; `Apart` is that check of every edge, so it is also what keeps the next one right.

`DrawingIsPlanar` alone is not inductive: to see that an edge does not meet the two halves of another, one has
to know that those halves are on the lattice and meet in the new node only. Links are left out of this
invariant: after `NewEdgesSplit` they may lead to an edge end at another node (the run `new_split_links`), and
neither theorem needs them. Nor do faces have to be the right
ones, only to exist: a walk of a ring that went astray would move the wrong sides, and the rows would still name
faces. So the proof shows that what `new_split_links` finds does not spread to the drawing or to `relation`.

Updates that draw nothing (links, sides, containing faces, boxes: `SameDrawing`, `LinksOnly`, `FacesOnly`)
compose, and keep the invariant. The hard part is the geometry of splits and heals: a curve cut at one of its
inner points gives two curves that are simple, share that point only, and together have the points and
segments of the old one (`Splits`); two curves that share one node, which is of degree two, or two, give a
simple curve when joined, either of them turned round (`Heals`). When the nodes of the two are the same at both
ends, the result is a closed curve of four points or more.

This proof found a slip in the model: a path that goes to a neighbouring point and straight back was
called simple. Cut in the middle, it would give two edges that lie on each other. GEOS calls it not
simple, and now `IsSimple` does.

Assumed: `CurvesAreSimple` (the code refuses other curves), `OnLattice` (the lattice is how the model says
geometry: all that the proof uses of it is that a curve cut at an inner point has two parts), `KindOfTopoGeoms`.

### Topology: links

The theorems of `TopologyLinksProof` have the hypothesis `NewSplitsAreLeftLinked`: `ST_NewEdgesSplit` is not
called on an edge that a neighbour links to by `next_right` (`RightLinked`). In just that case the call writes the wrong link, which the run `new_split_links` finds.
Everything else is as in `Spec`, splits by that function of other edges included.

The tables are read as three functions on darts, `Origins`, `Follows` and `Azimuths`. The invariant `Turning`
says that they are `Clockwise`: the follower of a dart leaves from the node the dart reaches, and is the first
of the darts of that node met turning clockwise from the dart turned back (`After`; the dart itself is met last,
after a full turn, which covers an edge that ends alone). It needs that two darts of one node never leave in the same
direction (`Directed`), which follows from `PlanarInv`: on the lattice two edges that leave one node in the
same direction share a segment (`DrawingIsDirected`). So `PlanarInv /\ Turning(Tables)` is inductive.

An edit of the links is proved on the three functions, without tables and curves. `TieTurns` and
`LoopTurns` add an edge between nodes, `RemoveTurns`, `SplitTurns` and `HealTurns` remove, split and join, and
`RedrawTurns` gives an edge another shape. Then one lemma per call (`...Advances`) shows that the
tables change in just that way, and that the change is the edit of the same name in `EdgeLinking`. Most of the work is in four places:

- That the edge ends `FindAdjacentEdges` returns, which it finds by comparing angles in two directions at once,
  are the two sides of one corner (`OneMore` and the lemmas on turns), also for a closed curve, whose two ends are
  looked up before either is there.
- That a call which removes or heals redirects every link and no other: the code updates by value, "where
  `next_left_edge` is e", and needs that exactly one edge does, which the permutation gives.
- Splits write the links of neighbours by comparing edge ids, where an edge that follows itself, a closed
  edge, is its own neighbour.
- `lwt_ChangeEdgeGeom` writes no link. It compares the neighbours found around each end before and after
  (`Disposition`), and this is enough for the links, though it is not for the faces (the run
  `reshape_flip`): a neighbour that is the same on both sides leaves only one place to turn to
  (`FoundTurnsAreSame`, `FoundLoopTurnsAreSame`).

`RingsClose` takes `EdgeLinkingProof` by INSTANCE, with the functions of the tables for `org` and `next`.

### Topology: loads

`LoadInv` is `PlanarInv` with what the statement that runs holds in memory. It falls back to good tables
(`before`), so an edit that fails keeps the invariant; the ids it has collected are of nodes or edges that are
there, so the rows that `WriteRows` makes of them are valid; the shells of `lwt_Polygonize` have faces that were
handed out. Two more conjuncts serve `IdsCoverLine`:

- `EndsApart`: no piece still to draw ends in the middle of another one, or of an edge whose id is held. A piece
  is added by making nodes of its two ends, and a node in the middle of an edge cuts it: the edge would keep its
  id and lose a part, which nobody would tell the statement.
- `Covered`: the property itself, with the pieces still to draw.

A new edge has the inner points of its piece, and the pieces are cut at every point where another one ends
(`PieceFacts`). An equal edge may begin elsewhere if it is closed; but by then the ends of the piece are nodes, and
planarity says that no node is within an edge (`EqualEdgeFacts`). So here the planar drawing is what makes the ids
right.

The pieces of a line are the whole line (`PiecesCover`) because a line is cut at its start or is closed, and a closed
one that is not cut there is cut somewhere else (`BreaksExist`): if it ran along drawn edges all the way its
start would be a break, and where it leaves them it is cut (`LeavingBreaks`). The least and greatest break, and the
one on each side of a segment, exist because indexes are bounded numbers, from the theorem of the library that
the natural numbers are well-founded.

`TurnInv` says that the links of the tables, and of the tables the statement falls back to, are `Turning`. A point that
is added cuts an edge as `ST_ModEdgeSplit` does (`CutInTwoIsSplit`), a piece is tied in as `ST_AddEdgeModFace` ties
an edge in, and rows and sides are no links, so loads keep it without condition;
`NewSplitsAreLeftLinked` is there for what sessions do between loads. One load is many edits of `EdgeLinking`, so
`RingsCloseInLoads` does not go by that refinement: darts that turn clockwise are linked in closed
rings, whatever made them so (`ClockwiseIsPermutation`). That is what lets `lwt_Polygonize` walk its rings;
that the whole load then ends (`LoadsEnd`) is model-checked.

Assumed, besides the assumptions of `TopologyProof`: `RequestsAreLoads` (kinds, parts and lines of requests have
their types, and a line runs along no segment twice, not even by crossing itself).

### EdgeLinking

`LinksFollowNodes` alone is not inductive: `HealEdges` and `RemoveEdge` redirect whatever links to a dart,
and need that exactly one does; and the permutation alone is not, since removing an edge whose links do not
follow the nodes may tie two rings together. `Inv` is the conjunction of typing, `LinksFollowNodes` and the
permutation, and `LinkingInvariant` is `Spec => []Inv`. Injectivity is carried through the steps in its form
with quantifiers; that every dart has a predecessor is proved by naming it, case by case, and not by
counting. One lemma per action shows that it keeps `Inv`; `AddEdge` and `AddLoop` share `TieKeepsInv`. The
only assumption is `EdgesArePositive`, which makes e and -e different darts.

That `Topology` implements it is `EditsAreThoseOfLinks`, above; the run `topology_links` checks the same on
small drawings, and `new_split_links` shows that the hypothesis of that theorem is needed.

### Partition and Clusters

`BlocksPartition` is inductive as it stands; `MergeKeepsPartition` is the step, and also gives each block
its place in the next state, from which `TogetherForGood` follows. No assumption is needed.

The first half of `ClustersProof` has the facts about arrays. A `Forest` is an array of links among its elements in which
every walk ends at a root; it has one root per element (`RootFacts`, `OneRoot` and the like), which
`UF_find` leaves as it is though it redirects all it passes, and which `UF_union` changes for exactly the
elements of one of the two blocks. Because a walk is said with sets (`LeadsTo`), none of this needs an
induction.

The invariant of the clustering says, in the middle of the loops, what has been found out so far:
`Touched(c, q)` means that q was looked at in the turn of c, or set aside in it and joined since. The
cores are the rows whose turn found `minPoints`; a row is in a cluster exactly if it is a core, or some core
touched it; cores that touched each other are together; and whatever is together hangs together, that is,
two cores of a block are linked by a chain of near cores, and any other member of it is near one of its
cores. The last is what makes the shortcuts right: a distance that is not measured (`Skipped`) is between
rows that are together already, or to a border of another cluster, and neither may tie two clusters. It
has to be an invariant of every step, since a core that is still to come may be a border now. When p is
past the last row every core has touched all that is near it, and the clusters are those of the definition.
`SizesAreOfBlocks` is carried with them, because the union compares sizes. Assumed: `InputsHaveTheirType`
(boxes contain what they bound, and pairs are of rows), `DoneIsNoGeometry`.

### LongXact

`TypesAreRight` holds at either isolation level. The other theorems have the hypothesis `Serializable`,
which the note in `doc/reference_transaction.xml:15-18` demands of whoever uses the functions; at the read
committed level TLC violates both properties.

`LockInv` is the invariant behind `OneHolderOnly`. `LockRow` reads the locks and inserts one in two
statements, on a snapshot, so that `OneHolder` says nothing about what is about to be committed.
`PointsOK` does: if an open transaction committed on top of its snapshot, from its present state or from
its savepoint, each row would have one live token. `SnapshotsOK` says that its snapshot still is the table,
or a transaction that ran beside it has changed the locks; and in that case its commit is refused
(`ChangersSawAll`), because what changed locks has read them (`PointsOK`, `DoneOK`), so that the two
depend on each other both ways, which is a dangerous structure. The order of commits in `DoneOK` is needed to
see that the other one was the first to commit.

`HolderReadsStay` needs more (`ReadInv`), because the holder, who reads, and the transaction that changes
the row without knowing of the lock never touch the same row of a table. `WorkOK` says of every point of
an open transaction that its changes were authorized by the locks of its snapshot and its own, and
`MissedOK` and the conjuncts after it what a transaction that ran beside another has missed: a change that
does not know of the lock was made on a snapshot without it, so that it depends on the transaction which
took the lock; and the holder, who read the row before the change, depends on it. So the change is the pivot
of a dangerous structure, and whichever of the three would be the last to commit is refused (`Refused`). This is why `check_authorization` is enough though its query sees only a snapshot.

Assumed: `RowsAreNotTheTable` (a row is not the lock table), `TimeBounds`.

### GeomCache

`Inv` is `SitesOK /\ ContextsOK /\ LastOK /\ ResultsAreOfTheArguments`. `SitesOK` is `MemoryOK` of every
site that runs: its parts are the types, `Counted` (the count of a copy is the number of references to it
in the detoast cache and the keys), `ToastOK` (a remembered value is what its id detoasts to), `Stands`
(an index is of a copy its key holds), `PreparedOK` and `HashOK` (hash, context and GEOS object of the
site agree). `CountsAreUsers` cannot be proved alone: whether `Unref` may free a copy depends on all who
refer to it, so the set of references is carried through every operator of a call (`Ref` and `Unref` of one
key, then of the detoast cache, in the order of the code), also between two of them, where a key is about to
be replaced. An index has to stand on a copy that a key holds because its own key is released one row
later. `ContextsOK` says that two sites never share a context, so that the end of a query, or a rebuild,
leaves the entries of the others in the hash. `LastOK` remembers that the keys hold the arguments of a call
that found no index; `RepeatsFindAnIndex` is then a fact about one step. The lemmas follow the operators:
one per operator says what it does to the references, the values and the hash.

Addresses are handed out as the smallest free number (`Fresh`), which exists because the heap is finite;
`FreshIsFree` is the only place where the choice matters. Assumed: `GeometriesHaveKinds` and
`NoneIsNothing` (None is not an address, an id or a name).

### Only model-checked

- Of `TopologyValid`: `TypeOK`, whose part about links fails under `NewEdgesSplit` in drawings other than those
  of `topology_edits`; what is said with rings (`RingsBoundOneFace`, `FacesHaveOneShell`, `FacesTileThePlane`,
  `NeverCorrupted`) and with the nearest edge (`IsolatedNodesKnowTheirFace`, `FaceLookupIsExact`), because `Ring`,
  `RingShell` and `TwiceArea` are recursive definitions, and what those compute for every input needs an induction
  over data; and `TopoGeomsKeepShape`, whose areal part needs the faces of those.
- Of `TopoLoad`: `LoadsSucceed`, which says of the pieces of a line that they cross nothing but at nodes, however
  many edges there are; `FacesAreRightInLoads` and `LoadsKeepShapes`, for the reasons above.
- Liveness (`LoadsEnd`), which is out of the prover's reach.

## 5. Not modelled, and the plan

In order:

1. What a tolerance does in the loads: snapping to nodes and edges, and the reshaping of an edge whose
   projected point is not on it. It needs a geometry finer than the lattice.
2. Two sessions editing one topology: nothing locks it and nothing says what then holds, so there is no
   property to check; `AddEdge` and `RemEdge` would be cut into the queries and updates they make.
3. Several tables in `LongXact`, and the width of their oid.
4. The caches of projections and of SRS names, which outlive the query, with their eviction. No text says
   what a change of `spatial_ref_sys` should do to them.
5. GeoSOT codes and variable-length integers as algorithms; the history table's triggers; the vector
   pyramid.

Of the parts that are modelled, these operations are left out: hierarchical layers, `TopoGeom_addTopoGeom`
and negative element ids; the PL/pgSQL functions around the C entry points; k-means, which is numeric.

Left out for good, because nothing in them is state that a sequence of calls or an interleaving can
break: numerical geometry, encodings beyond integers, raster pixels, loaders, address parsing, vendored
code, upgrade scripts.
