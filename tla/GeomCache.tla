------------------------------ MODULE GeomCache ------------------------------
(***************************************************************************)
(* What a function keeps between the rows of a query: lwgeom_cache.c,      *)
(* shared_gserialized.c and the indexes that GetGeomCache builds, which    *)
(* are prepared geometries, R-trees of polygons, and the trees of          *)
(* distances.                                                              *)
(*                                                                         *)
(* A site is a place of a query where a function is called; it has a       *)
(* memory context of its own, which goes with the query.  A call is one    *)
(* step: a backend runs one at a time.  Addresses are numbers, and the     *)
(* least free one is handed out first, as an allocator may do.             *)
(***************************************************************************)
EXTENDS Integers, FiniteSets, Sequences

CONSTANTS Values,    \* geometries, told apart by their bytes
          Kind,      \* [Values -> Kinds]
          Toasted,   \* ids of values stored out of line
          ValueOf,   \* [Toasted -> Values]: two ids may hold equal values
          Sites,
          None

Kinds == {"polygon", "point", "line", "empty", "apart"}   \* apart: a line whose box meets no other
Functions == {"contains", "intersects", "distance"}
Indexes == {"prepared", "rtree", "tree"}

ASSUME GeometriesHaveKinds == Kind \in [Values -> Kinds] /\ ValueOf \in [Toasted -> Values]
ASSUME NoneIsNothing == None \notin Nat /\ None \notin Toasted /\ None \notin Functions \cup Indexes

VARIABLES site,      \* site -> the function called and the memory of its context
          hash,      \* PrepGeomHash: context -> GEOS object or None
          geos,      \* the GEOS objects allocated: address -> value
          last       \* the last call: its arguments, and the values its result came from

vars == <<site, hash, geos, last>>

NoCall == [site |-> None]
Ended == [fn |-> None]

Live == {s \in Sites : site[s] # Ended}

\* f, with v at a
Put(f, a, v) == [b \in DOMAIN f \cup {a} |-> IF b = a THEN v ELSE f[b]]

Fresh(used) == CHOOSE a \in 1 .. Cardinality(used) + 1 :
                 a \notin used /\ \A b \in 1 .. a - 1 : b \in used

NewContext == Fresh({site[s].context : s \in Live} \ {None})

-----------------------------------------------------------------------------
(* Shared geometries.  m is the memory of a site with hash and geos; a     *)
(* geometry is at an address of m.heap, or in the memory of the call (0).  *)

InCall(v) == [at |-> 0, value |-> v]
Cached(m, a) == [at |-> a, value |-> IF a \in DOMAIN m.heap THEN m.heap[a].value ELSE None]

NewCached(m, v) ==
  [m EXCEPT !.heap = Put(@, Fresh(DOMAIN @), [value |-> v, count |-> 1])]

\* shared_gserialized_ref: a copy in the context has one more user, any other is copied
Ref(m, g) == IF g.at = 0 THEN NewCached(m, g.value) ELSE [m EXCEPT !.heap[g.at].count = @ + 1]
RefAt(m, g) == IF g.at = 0 THEN Fresh(DOMAIN m.heap) ELSE g.at

Unref(m, a) ==
  IF a \notin DOMAIN m.heap THEN m
  ELSE IF m.heap[a].count > 1 THEN [m EXCEPT !.heap[a].count = @ - 1]
  ELSE [m EXCEPT !.heap = [b \in DOMAIN @ \ {a} |-> @[b]]]

Datums == Values \cup Toasted
ValueIn(d) == IF d \in Toasted THEN ValueOf[d] ELSE d

\* ToastCacheGetGeometry: a value out of line is detoasted when its id is not the last one seen
ToastCache(m, i, d) ==
  IF d \notin Toasted \/ m.toast[i].id = d THEN m
  ELSE LET u == Unref(m, m.toast[i].geom)
       IN  [NewCached(u, ValueIn(d)) EXCEPT !.toast[i] = [id |-> d, geom |-> Fresh(DOMAIN u.heap)]]

Argument(m, i, d) == IF d \in Toasted THEN Cached(m, m.toast[i].geom) ELSE InCall(d)

-----------------------------------------------------------------------------
(* Indexes.  A tree of distances points into the geometry it is built on,  *)
(* an R-tree holds a copy, a prepared geometry is a GEOS object, which     *)
(* PreparedCacheDelete finds in the hash when the context goes.            *)

BuildPrepared(m, arg) ==
  LET g == Fresh(DOMAIN m.geos)
      c == IF m.context = None THEN NewContext ELSE m.context
  IN  [m EXCEPT !.context = c,
                !.geos = Put(@, g, Cached(m, m.index["prepared"].key[arg]).value),
                !.hash = Put(@, c, g),
                !.index["prepared"].tree = g]

BuildIndex(m, x, arg) ==
  LET a == m.index[x].key[arg]
      built == CASE x = "prepared" -> BuildPrepared(m, arg)
                 [] x = "rtree" -> [m EXCEPT !.index[x].tree = Cached(m, a).value]
                 [] x = "tree" -> [m EXCEPT !.index[x].tree = a]
  IN  [built EXCEPT !.index[x].argnum = arg]

IndexedValue(m, x) ==
  LET t == m.index[x].tree
  IN  CASE x = "prepared" -> IF t \in DOMAIN m.geos THEN m.geos[t] ELSE None
        [] x = "rtree" -> t
        [] x = "tree" -> Cached(m, t).value

\* Faulty: the hash keeps the object
FreePreparedOnly(m) ==
  [m EXCEPT !.geos = [g \in DOMAIN @ \ {m.index["prepared"].tree} |-> @[g]]]

\* PrepGeomCacheCleaner
FreePrepared(m) ==
  [m EXCEPT !.hash[m.context] = None,
            !.geos = [g \in DOMAIN @ \ {m.index["prepared"].tree} |-> @[g]]]

\* Faulty: the index stays when the keys change
FreeIndexNever(m, x) == m

\* RectTreeFreer; what RTreeFreer and PrepGeomCacheCleaner do to the cache itself is the same
FreeTree(m, x) == [m EXCEPT !.index[x].argnum = 0, !.index[x].tree = None]

FreeIndex(m, x) ==
  IF m.index[x].argnum = 0 THEN m
  ELSE FreeTree(IF x = "prepared" THEN FreePrepared(m) ELSE m, x)

-----------------------------------------------------------------------------
(* GetGeomCache.                                                           *)

\* Faulty: whichever argument the index is of
MatchesAny(m, x, i, g) ==
  LET c == m.index[x] IN c.key[i] # None /\ Cached(m, c.key[i]).value = g.value

\* Argument i is the one seen last, and the index, if there is one, is not of the other
Matches(m, x, i, g) ==
  LET c == m.index[x]
  IN  /\ c.key[i] # None
      /\ c.argnum \in {0, i}
      /\ Cached(m, c.key[i]).value = g.value

\* Faulty: the old key is not released
SetKeyOnly(m, x, i, g) == [Ref(m, g) EXCEPT !.index[x].key[i] = RefAt(m, g)]

SetKey(m, x, i, g) ==
  LET u == Unref(m, m.index[x].key[i])
  IN  [Ref(u, g) EXCEPT !.index[x].key[i] = RefAt(u, g)]

\* Faulty: only the first argument is remembered
SetFirstKey(m, x, args) == SetKey(m, x, 1, args[1])

SetKeys(m, x, args) ==
  LET m1 == SetKey(m, x, 1, args[1])
  IN  IF Len(args) = 1 THEN m1 ELSE SetKey(m1, x, 2, args[2])

\* A hit builds the index if there is none, a miss frees it; the functions never ask with an
\* empty geometry, for which nothing is built
GetGeomCache(m, x, args) ==
  LET hits == {i \in DOMAIN args : Matches(m, x, i, args[i])}
      hit == IF 1 \in hits THEN 1 ELSE 2
  IN  IF hits = {} THEN SetKeys(FreeIndex(m, x), x, args)
      ELSE IF m.index[x].argnum = 0 THEN BuildIndex(m, x, hit)
      ELSE m

-----------------------------------------------------------------------------
(* Calls.                                                                  *)

NoIndex == [index |-> None, args |-> <<>>]

\* ST_DistanceRectTreeCached, which does not compare boxes
DistanceLookup(k) ==
  IF k = <<"point", "point">> THEN NoIndex ELSE [index |-> "tree", args |-> <<1, 2>>]

\* The index a function asks for, and of which of its arguments
Lookup(fn, v, w) ==
  LET k == <<Kind[v], Kind[w]>>
  IN  IF "empty" \in {k[1], k[2]} THEN NoIndex
      ELSE IF fn = "distance" THEN DistanceLookup(k)
      ELSE IF v # w /\ "apart" \in {k[1], k[2]} THEN NoIndex
      ELSE IF k = <<"polygon", "point">> THEN [index |-> "rtree", args |-> <<1>>]
      ELSE IF fn = "intersects" /\ k = <<"point", "polygon">>
      THEN [index |-> "rtree", args |-> <<2>>]
      ELSE [index |-> "prepared", args |-> IF fn = "contains" THEN <<1>> ELSE <<1, 2>>]

Memory(s) == [heap |-> site[s].heap, toast |-> site[s].toast, index |-> site[s].index,
              context |-> site[s].context, hash |-> hash, geos |-> geos]

Keep(s, m) ==
  /\ site' = [site EXCEPT ![s] = [fn |-> @.fn, heap |-> m.heap, toast |-> m.toast,
                                  index |-> m.index, context |-> m.context]]
  /\ hash' = m.hash /\ geos' = m.geos

Begin(s, fn) ==
  /\ site[s] = Ended
  /\ site' = [site EXCEPT ![s] =
                [fn |-> fn, heap |-> <<>>, context |-> None,
                 toast |-> [i \in 1 .. 2 |-> [id |-> None, geom |-> None]],
                 index |-> [x \in Indexes |-> [key |-> <<None, None>>, argnum |-> 0,
                                               tree |-> None]]]]
  /\ UNCHANGED <<hash, geos, last>>

Call(s, d, e) ==
  /\ site[s] # Ended
  /\ LET asked == <<ValueIn(d), ValueIn(e)>>
         m == ToastCache(ToastCache(Memory(s), 1, d), 2, e)
         given == <<Argument(m, 1, d), Argument(m, 2, e)>>
         l == Lookup(site[s].fn, asked[1], asked[2])
         args == [i \in DOMAIN l.args |-> given[l.args[i]]]
         n == IF l.index = None THEN m ELSE GetGeomCache(m, l.index, args)
         argnum == IF l.index = None THEN 0 ELSE n.index[l.index].argnum
         from(p) == IF argnum # 0 /\ l.args[argnum] = p THEN IndexedValue(n, l.index)
                    ELSE given[p].value
     IN  /\ Keep(s, n)
         /\ last' = [site |-> s, lookup |-> l, asked |-> asked,
                     used |-> <<from(1), from(2)>>, argnum |-> argnum]

\* The query ends, by itself or with an error
End(s) ==
  /\ site[s] # Ended
  /\ LET c == site[s].context
         held == IF c = None THEN {} ELSE {hash[c]}
     IN  /\ hash' = [b \in DOMAIN hash \ {c} |-> hash[b]]
         /\ geos' = [g \in DOMAIN geos \ held |-> geos[g]]
  /\ site' = [site EXCEPT ![s] = Ended]
  /\ last' = NoCall

Init ==
  /\ site = [s \in Sites |-> Ended]
  /\ hash = <<>> /\ geos = <<>>
  /\ last = NoCall

Next ==
  \E s \in Sites :
    \/ \E fn \in Functions : Begin(s, fn)
    \/ \E d, e \in Datums : Call(s, d, e)
    \/ End(s)

Spec == Init /\ [][Next]_vars

-----------------------------------------------------------------------------
(* Properties.                                                             *)

\* A result comes from the arguments of the call, whatever index was built before and
\* however memory was used again since
ResultsAreOfTheArguments == last # NoCall => last.used = last.asked

References(m) ==
  {<<"toast", i, m.toast[i].geom>> : i \in 1 .. 2}
    \cup {<<x, i, m.index[x].key[i]>> : x \in Indexes, i \in 1 .. 2}

\* Each shared copy counts its users, and only copies that have some are kept
CountsAreUsers ==
  \A s \in Live :
    LET used == {r \in References(site[s]) : r[3] # None}
    IN  /\ DOMAIN site[s].heap = {r[3] : r \in used}
        /\ \A a \in DOMAIN site[s].heap :
             site[s].heap[a].count = Cardinality({r \in used : r[3] = a})

\* An index is of the copy that its key still holds: a tree never outlives its points
IndexesStandOnTheirKeys ==
  \A s \in Live : \A x \in Indexes :
    LET c == site[s].index[x]
    IN  c.argnum # 0 =>
          /\ c.key[c.argnum] \in DOMAIN site[s].heap
          /\ x = "tree" => c.tree = c.key[c.argnum]
          /\ IndexedValue(Memory(s), x) = site[s].heap[c.key[c.argnum]].value

\* The hash knows every GEOS object of the queries that run, once, and nothing freed: what
\* the end of a query destroys is what exists
HashHoldsLiveObjects ==
  LET objects == {c \in DOMAIN hash : hash[c] # None}
  IN  /\ DOMAIN hash = {site[s].context : s \in Live} \ {None}
      /\ \A s, r \in Live : site[s].context = site[r].context /\ s # r => site[s].context = None
      /\ DOMAIN geos = {hash[c] : c \in objects}
      /\ Cardinality(objects) = Cardinality(DOMAIN geos)
      /\ \A s \in Live : site[s].context # None =>
           hash[site[s].context] = site[s].index["prepared"].tree

\* After a call that found no index, a call that repeats an argument it looked up has one
RepeatsFindAnIndex ==
  [][/\ NoCall \notin {last, last'}
     /\ last'.site = last.site /\ last'.lookup.index = last.lookup.index
     /\ last.argnum = 0
     /\ \E i \in DOMAIN last.lookup.args \cap DOMAIN last'.lookup.args :
          last'.asked[last'.lookup.args[i]] = last.asked[last.lookup.args[i]]
     => last'.argnum # 0]_last
=============================================================================
