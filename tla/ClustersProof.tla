---------------------------- MODULE ClustersProof ----------------------------
(***************************************************************************)
(* For any rows, in any order, and whatever the index answers: the union-  *)
(* find is a partition whose blocks merge, and what is left when the loops *)
(* are over is the clusters of the definition of DBSCAN, by their numbers. *)
(*                                                                         *)
(* The first part has the lemmas on the operators of the union-find: what  *)
(* they do to the roots, for any number of elements.                       *)
(***************************************************************************)
EXTENDS Clusters, FiniteSetTheorems, TLAPS

\* The links are among the elements of E, and end
Forest(u, E) ==
  /\ u \in [clusters : [E -> E], sizes : [E -> Nat], num : Int]
  /\ \A i \in E : \E r \in E : u.clusters[r] = r /\ LeadsTo(u, i, r)

-----------------------------------------------------------------------------
(* Roots.                                                                  *)

\* The walk of UF_find ends, and ends at a root
LEMMA RootFacts ==
  ASSUME NEW E, NEW u, Forest(u, E), NEW i \in E
  PROVE  Root(u, i) \in E /\ u.clusters[Root(u, i)] = Root(u, i) /\ LeadsTo(u, i, Root(u, i))
<1>1. DOMAIN u.clusters = E
  BY DEF Forest
<1>2. QED
  BY <1>1 DEF Forest, Root

\* What comes after an element leads to all that comes after
LEMMA NextLeads ==
  ASSUME NEW E, NEW u, Forest(u, E), NEW i \in E, NEW j \in E, i # j, LeadsTo(u, i, j)
  PROVE  LeadsTo(u, u.clusters[i], j)
<1>1. DOMAIN u.clusters = E
  BY DEF Forest
<1>2. SUFFICES ASSUME NEW S \in SUBSET (E \ {j}), u.clusters[i] \in S,
                      \A k \in S : u.clusters[k] \in S
               PROVE  FALSE
  BY <1>1 DEF LeadsTo
<1>3. S \cup {i} \in SUBSET (E \ {j}) /\ \A k \in S \cup {i} : u.clusters[k] \in S \cup {i}
  BY <1>2
<1>4. QED
  BY <1>1, <1>3 DEF LeadsTo

\* An element leads to one root only
LEMMA OneRoot ==
  ASSUME NEW E, NEW u, Forest(u, E), NEW i \in E,
         NEW r \in E, u.clusters[r] = r, LeadsTo(u, i, r)
  PROVE  Root(u, i) = r
<1> DEFINE s == Root(u, i)
           S == {j \in E : LeadsTo(u, j, r)}
<1>1. DOMAIN u.clusters = E /\ \A j \in E : u.clusters[j] \in E
  BY DEF Forest
<1>2. s \in E /\ u.clusters[s] = s /\ LeadsTo(u, i, s)
  BY RootFacts
<1>3. SUFFICES ASSUME s # r PROVE FALSE
  OBVIOUS
<1>4. s \notin S
  <2>1. {s} \in SUBSET (E \ {r}) /\ \A k \in {s} : u.clusters[k] \in {s}
    BY <1>2, <1>3
  <2>2. QED
    BY <1>1, <2>1 DEF LeadsTo
<1>5. \A k \in S : u.clusters[k] \in S
  BY <1>1, NextLeads
<1>6. S \in SUBSET (E \ {s}) /\ i \in S
  BY <1>4
<1> HIDE DEF s, S
<1>7. QED
  BY <1>1, <1>2, <1>5, <1>6 DEF LeadsTo

\* The root of the next element is the root; a root is its own
LEMMA RootOfNext ==
  ASSUME NEW E, NEW u, Forest(u, E), NEW i \in E
  PROVE  /\ u.clusters[i] \in E /\ Root(u, u.clusters[i]) = Root(u, i)
         /\ u.clusters[i] = i => Root(u, i) = i
<1>1. DOMAIN u.clusters = E /\ u.clusters[i] \in E
  BY DEF Forest
<1>2. u.clusters[i] = i => Root(u, i) = i
  <2>1. LeadsTo(u, i, i)
    BY DEF LeadsTo
  <2>2. QED
    BY <2>1, OneRoot
<1>3. Root(u, u.clusters[i]) = Root(u, i)
  <2>1. CASE Root(u, i) = i
    BY <2>1, RootFacts
  <2>2. CASE Root(u, i) # i
    BY <1>1, <2>2, RootFacts, NextLeads, OneRoot
  <2>3. QED
    BY <2>1, <2>2
<1>4. QED
  BY <1>1, <1>2, <1>3

\* A root is its own
LEMMA RootOfRoot ==
  ASSUME NEW E, NEW u, Forest(u, E), NEW i \in E
  PROVE  Root(u, Root(u, i)) = Root(u, i)
BY RootFacts, RootOfNext

\* All that is led to has the same root
LEMMA SameRoot ==
  ASSUME NEW E, NEW u, Forest(u, E), NEW i \in E, NEW j \in E, LeadsTo(u, i, j)
  PROVE  Root(u, j) = Root(u, i)
<1> DEFINE S == {k \in E : Root(u, k) = Root(u, i)}
<1>1. DOMAIN u.clusters = E
  BY DEF Forest
<1>2. \A k \in S : u.clusters[k] \in S
  BY RootOfNext
<1>3. i \in S /\ S \in SUBSET E
  OBVIOUS
<1>4. j \in S
  <2> HIDE DEF S
  <2>1. SUFFICES ASSUME j \notin S PROVE FALSE
    OBVIOUS
  <2>2. S \in SUBSET (E \ {j})
    BY <1>3, <2>1
  <2>3. QED
    BY <1>1, <1>2, <1>3, <2>2 DEF LeadsTo
<1>5. QED
  BY <1>4

\* A map to roots that are led to is the map to the root
LEMMA RootByMap ==
  ASSUME NEW E, NEW u \in [clusters : [E -> E], sizes : [E -> Nat], num : Int],
         NEW f, \A i \in E : f[i] \in E /\ u.clusters[f[i]] = f[i] /\ LeadsTo(u, i, f[i])
  PROVE  Forest(u, E) /\ \A i \in E : Root(u, i) = f[i]
<1>1. Forest(u, E)
  BY DEF Forest
<1>2. QED
  BY <1>1, OneRoot

-----------------------------------------------------------------------------
(* What the operations do to the roots.                                    *)

\* At first every element is a root
LEMMA CreateForest ==
  ASSUME NEW n \in Nat
  PROVE  /\ Forest(UF_create(n), 0 .. n - 1)
         /\ \A i \in 0 .. n - 1 : Root(UF_create(n), i) = i
<1> DEFINE E == 0 .. n - 1
           u == UF_create(n)
           f == [i \in E |-> i]
<1>1. u \in [clusters : [E -> E], sizes : [E -> Nat], num : Int]
  BY DEF UF_create
<1>2. \A i \in E : f[i] \in E /\ u.clusters[f[i]] = f[i] /\ LeadsTo(u, i, f[i])
  BY DEF UF_create, LeadsTo
<1>3. Forest(u, E) /\ \A i \in E : Root(u, i) = f[i]
  <2> HIDE DEF u, E, f
  <2>1. QED
    BY <1>1, <1>2, RootByMap
<1>4. QED
  BY <1>3

\* UF_find shortens paths, and changes no root
LEMMA FindKeepsRoots ==
  ASSUME NEW E, NEW u, Forest(u, E), NEW x \in E
  PROVE  /\ Forest(UF_find(u, x), E)
         /\ UF_find(u, x).sizes = u.sizes /\ UF_find(u, x).num = u.num
         /\ \A k \in E : /\ Root(UF_find(u, x), k) = Root(u, k)
                         /\ UF_find(u, x).clusters[k] = k <=> u.clusters[k] = k
<1> DEFINE v == UF_find(u, x)
           root == Root(u, x)
           f == [i \in E |-> Root(u, i)]
<1>1. /\ u \in [clusters : [E -> E], sizes : [E -> Nat], num : Int]
      /\ DOMAIN u.clusters = E
  BY DEF Forest
<1>2. root \in E /\ u.clusters[root] = root
  BY RootFacts
<1>3. /\ v \in [clusters : [E -> E], sizes : [E -> Nat], num : Int]
      /\ v.sizes = u.sizes /\ v.num = u.num
      /\ \A k \in E : v.clusters[k] = IF LeadsTo(u, x, k) THEN root ELSE u.clusters[k]
  BY <1>1, <1>2 DEF UF_find
<1>4. \A k \in E : LeadsTo(u, x, k) => Root(u, k) = root
  BY SameRoot
<1>5. \A k \in E : v.clusters[k] = k <=> u.clusters[k] = k
  BY <1>2, <1>3, <1>4, RootOfNext
<1>6. ASSUME NEW i \in E
      PROVE  f[i] \in E /\ v.clusters[f[i]] = f[i] /\ LeadsTo(v, i, f[i])
  <2>1. f[i] \in E /\ u.clusters[f[i]] = f[i] /\ LeadsTo(u, i, f[i]) /\ Root(u, f[i]) = f[i]
    BY RootFacts, RootOfNext
  <2>2. SUFFICES ASSUME NEW S \in SUBSET (E \ {f[i]}), i \in S,
                        \A k \in S : v.clusters[k] \in S
                 PROVE  FALSE
    BY <1>3, <1>5, <2>1 DEF LeadsTo
  <2> DEFINE T == {j \in E : j \in S \/ Root(u, j) \in S}
  <2>3. \A k \in T : u.clusters[k] \in T
    <3>1. SUFFICES ASSUME NEW k \in E, k \in S \/ Root(u, k) \in S
                   PROVE  u.clusters[k] \in S \/ Root(u, k) \in S
      BY RootOfNext
    <3>2. CASE k \in S /\ LeadsTo(u, x, k)
      BY <1>3, <1>4, <2>2, <3>2
    <3>3. CASE k \in S /\ ~LeadsTo(u, x, k)
      BY <1>3, <2>2, <3>3
    <3>4. QED
      BY <3>1, <3>2, <3>3
  <2>4. T \in SUBSET (E \ {f[i]}) /\ i \in T
    BY <2>1, <2>2
  <2>5. QED
    <3> HIDE DEF T, f
    <3>1. QED
      BY <1>1, <2>1, <2>3, <2>4 DEF LeadsTo
<1>7. Forest(v, E) /\ \A i \in E : Root(v, i) = f[i]
  <2> HIDE DEF f, v
  <2>1. QED
    BY <1>3, <1>6, RootByMap
<1>8. QED
  BY <1>3, <1>5, <1>7

\* What Attach leaves in the arrays
LEMMA AttachFields ==
  ASSUME NEW E, NEW u \in [clusters : [E -> E], sizes : [E -> Nat], num : Int],
         NEW a \in E, NEW b \in E, a # b
  PROVE  /\ Attach(u, a, b) \in [clusters : [E -> E], sizes : [E -> Nat], num : Int]
         /\ Attach(u, a, b).num = u.num - 1
         /\ \A k \in E :
              /\ Attach(u, a, b).clusters[k] = IF k = a THEN b ELSE u.clusters[k]
              /\ Attach(u, a, b).sizes[k] = IF k = a THEN 0
                                            ELSE IF k = b THEN u.sizes[b] + u.sizes[a]
                                            ELSE u.sizes[k]
<1> DEFINE u1 == [u EXCEPT !.clusters = [u.clusters EXCEPT ![a] = b]]
           u2 == [u1 EXCEPT !.sizes = [u1.sizes EXCEPT ![b] = u1.sizes[b] + u.sizes[a]]]
           u3 == [u2 EXCEPT !.sizes = [u2.sizes EXCEPT ![a] = 0]]
           v == [u3 EXCEPT !.num = u3.num - 1]
<1>1. Attach(u, a, b) = v
  BY DEF Attach
<1>2. /\ u1 \in [clusters : [E -> E], sizes : [E -> Nat], num : Int]
      /\ u1.sizes = u.sizes /\ u1.num = u.num
      /\ \A k \in E : u1.clusters[k] = IF k = a THEN b ELSE u.clusters[k]
  OBVIOUS
<1> HIDE DEF u1
<1>3. /\ u2 \in [clusters : [E -> E], sizes : [E -> Nat], num : Int]
      /\ u2.clusters = u1.clusters /\ u2.num = u.num
      /\ \A k \in E : u2.sizes[k] = IF k = b THEN u.sizes[b] + u.sizes[a] ELSE u.sizes[k]
  BY <1>2
<1> HIDE DEF u2
<1>4. /\ u3 \in [clusters : [E -> E], sizes : [E -> Nat], num : Int]
      /\ u3.clusters = u1.clusters /\ u3.num = u.num
      /\ \A k \in E : u3.sizes[k] = IF k = a THEN 0 ELSE u2.sizes[k]
  BY <1>3
<1> HIDE DEF u3
<1>5. /\ v \in [clusters : [E -> E], sizes : [E -> Nat], num : Int]
      /\ v.clusters = u1.clusters /\ v.num = u.num - 1 /\ v.sizes = u3.sizes
  BY <1>4
<1> HIDE DEF v
<1>6. QED
  BY <1>1, <1>2, <1>3, <1>4, <1>5

\* Of two roots one goes under the other, with all that leads to it
LEMMA AttachMovesBlock ==
  ASSUME NEW E, NEW u, Forest(u, E), NEW a \in E, NEW b \in E,
         u.clusters[a] = a, u.clusters[b] = b, a # b
  PROVE  /\ Forest(Attach(u, a, b), E)
         /\ \A k \in E : Root(Attach(u, a, b), k) = IF Root(u, k) = a THEN b ELSE Root(u, k)
<1> DEFINE v == Attach(u, a, b)
           f == [i \in E |-> IF Root(u, i) = a THEN b ELSE Root(u, i)]
<1>1. /\ u \in [clusters : [E -> E], sizes : [E -> Nat], num : Int]
      /\ DOMAIN u.clusters = E
  BY DEF Forest
<1>2. /\ v \in [clusters : [E -> E], sizes : [E -> Nat], num : Int]
      /\ DOMAIN v.clusters = E
      /\ \A k \in E : v.clusters[k] = IF k = a THEN b ELSE u.clusters[k]
  BY <1>1, AttachFields
<1>3. ASSUME NEW i \in E
      PROVE  f[i] \in E /\ v.clusters[f[i]] = f[i] /\ LeadsTo(v, i, f[i])
  <2>1. Root(u, i) \in E /\ u.clusters[Root(u, i)] = Root(u, i) /\ LeadsTo(u, i, Root(u, i))
    BY RootFacts
  <2>2. f[i] \in E /\ v.clusters[f[i]] = f[i]
    BY <1>2, <2>1
  <2>3. SUFFICES ASSUME NEW S \in SUBSET (E \ {f[i]}), i \in S,
                        \A k \in S : v.clusters[k] \in S
                 PROVE  FALSE
    BY <1>2, <2>2 DEF LeadsTo
  <2>4. \A k \in S : u.clusters[k] \in S
    BY <1>2, <2>3
  <2>5. Root(u, i) \in S
    BY <1>1, <2>1, <2>3, <2>4 DEF LeadsTo
  <2>6. Root(u, i) = a
    BY <2>3, <2>5
  <2>7. QED
    BY <1>2, <2>3, <2>5, <2>6
<1>4. Forest(v, E) /\ \A i \in E : Root(v, i) = f[i]
  <2> HIDE DEF f, v
  <2>1. QED
    BY <1>2, <1>3, RootByMap
<1>5. QED
  BY <1>4

-----------------------------------------------------------------------------
(* Sizes.                                                                  *)

Roots(u, E) == {r \in E : u.clusters[r] = r}

Block(u, E, r) == {k \in E : Root(u, k) = r}

\* num_clusters counts the roots, and a root has the size of its block
Sized(u, E) ==
  /\ u.num = Cardinality(Roots(u, E))
  /\ \A k \in E :
       u.sizes[k] = IF u.clusters[k] = k THEN Cardinality(Block(u, E, k)) ELSE 0

\* Each block has one element at first
LEMMA CreateSized ==
  ASSUME NEW n \in Nat
  PROVE  Sized(UF_create(n), 0 .. n - 1)
<1> DEFINE E == 0 .. n - 1
           u == UF_create(n)
<1>1. \A k \in E : Block(u, E, k) = {k}
  BY CreateForest DEF Block
<1>2. Roots(u, E) = E
  BY DEF Roots, UF_create
<1>3. Cardinality(E) = n
  BY FS_Interval
<1>4. \A k \in E : u.clusters[k] = k /\ u.sizes[k] = 1
  BY DEF UF_create
<1>5. u.num = n
  BY DEF UF_create
<1>6. \A k \in E : Cardinality(Block(u, E, k)) = 1
  BY <1>1, FS_Singleton
<1>7. Sized(u, E)
  <2> HIDE DEF u, E
  <2>1. QED
    BY <1>2, <1>3, <1>4, <1>5, <1>6 DEF Sized
<1>8. QED
  BY <1>7

\* A search, which shortens the paths, leaves the sizes
LEMMA FindSized ==
  ASSUME NEW E, NEW u, Forest(u, E), Sized(u, E), NEW x \in E
  PROVE  Sized(UF_find(u, x), E)
<1> DEFINE v == UF_find(u, x)
<1>1. /\ v.sizes = u.sizes /\ v.num = u.num
      /\ \A k \in E : Root(v, k) = Root(u, k) /\ (v.clusters[k] = k <=> u.clusters[k] = k)
  BY FindKeepsRoots
<1> HIDE DEF v
<1>2. Roots(v, E) = Roots(u, E) /\ \A k \in E : Block(v, E, k) = Block(u, E, k)
  BY <1>1 DEF Roots, Block
<1>3. QED
  BY <1>1, <1>2 DEF Sized, v

\* The block that is taken in is counted with the one that takes it
LEMMA AttachSized ==
  ASSUME NEW E, IsFiniteSet(E), NEW u, Forest(u, E), Sized(u, E), NEW a \in E, NEW b \in E,
         u.clusters[a] = a, u.clusters[b] = b, a # b
  PROVE  Sized(Attach(u, a, b), E)
<1> DEFINE v == Attach(u, a, b)
<1>1. /\ u \in [clusters : [E -> E], sizes : [E -> Nat], num : Int]
  BY DEF Forest
<1>2. /\ v.num = u.num - 1
      /\ \A k \in E : /\ v.clusters[k] = IF k = a THEN b ELSE u.clusters[k]
                      /\ v.sizes[k] = IF k = a THEN 0
                                      ELSE IF k = b THEN u.sizes[b] + u.sizes[a]
                                      ELSE u.sizes[k]
  BY <1>1, AttachFields
<1>3. \A k \in E : Root(v, k) = IF Root(u, k) = a THEN b ELSE Root(u, k)
  BY AttachMovesBlock
<1> HIDE DEF v
<1>4. v.num = Cardinality(Roots(v, E))
  <2>1. Roots(v, E) = Roots(u, E) \ {a} /\ a \in Roots(u, E)
    BY <1>2 DEF Roots
  <2>2. IsFiniteSet(Roots(u, E))
    BY FS_Subset DEF Roots
  <2>3. QED
    BY <1>2, <2>1, <2>2, FS_RemoveElement DEF Sized
<1>5. ASSUME NEW k \in E
      PROVE  v.sizes[k] = IF v.clusters[k] = k THEN Cardinality(Block(v, E, k)) ELSE 0
  <2>1. CASE k = a
    BY <1>2, <2>1
  <2>2. CASE k = b
    <3>1. Block(v, E, b) = Block(u, E, a) \cup Block(u, E, b)
      BY <1>3 DEF Block
    <3>2. Block(u, E, a) \cap Block(u, E, b) = {}
      BY DEF Block
    <3>3. IsFiniteSet(Block(u, E, a)) /\ IsFiniteSet(Block(u, E, b))
      BY FS_Subset DEF Block
    <3>4. Cardinality(Block(v, E, b)) = Cardinality(Block(u, E, a)) + Cardinality(Block(u, E, b))
      <4> DEFINE A == Block(u, E, a)
                 B == Block(u, E, b)
      <4> HIDE DEF A, B
      <4>1. IsFiniteSet(A) /\ IsFiniteSet(B) /\ A \cap B = {}
        BY <3>2, <3>3 DEF A, B
      <4>2. Cardinality(A) \in Nat /\ Cardinality(B) \in Nat /\ Cardinality(A \cap B) = 0
        BY <4>1, FS_CardinalityType, FS_EmptySet
      <4>3. Cardinality(A \cup B) = Cardinality(A) + Cardinality(B) - Cardinality(A \cap B)
        BY <4>1, FS_Union
      <4>4. Cardinality(A \cup B) = Cardinality(A) + Cardinality(B)
        BY <4>2, <4>3
      <4>5. QED
        BY <3>1, <4>4 DEF A, B
    <3>5. QED
      BY <1>2, <2>2, <3>3, <3>4, FS_CardinalityType DEF Sized
  <2>3. CASE k # a /\ k # b
    <3>1. Block(v, E, k) = Block(u, E, k)
      BY <1>3, <2>3 DEF Block
    <3>2. QED
      BY <1>2, <2>3, <3>1 DEF Sized
  <2>4. QED
    BY <2>1, <2>2, <2>3
<1>6. QED
  BY <1>4, <1>5 DEF Sized, v

-----------------------------------------------------------------------------
(* Union.                                                                  *)

\* Of the blocks of i and j the one goes into the other, and nothing else moves
Merged(u, v, E, i, j) ==
  \E a, b \in E :
    /\ (a = Root(u, i) /\ b = Root(u, j)) \/ (a = Root(u, j) /\ b = Root(u, i))
    /\ \A k \in E : Root(v, k) = IF Root(u, k) = a THEN b ELSE Root(u, k)

\* A union makes one block of two, and its size is their sum
LEMMA UnionMerges ==
  ASSUME NEW E, IsFiniteSet(E), NEW u, Forest(u, E), Sized(u, E), NEW i \in E, NEW j \in E
  PROVE  LET v == UF_union(u, i, j)
         IN  Forest(v, E) /\ Sized(v, E) /\ Merged(u, v, E, i, j)
<1> DEFINE w == UF_find(UF_find(u, i), j)
           a == Root(u, i)
           b == Root(u, j)
           v == UF_union(u, i, j)
<1>1. Forest(UF_find(u, i), E) /\ Sized(UF_find(u, i), E)
  BY FindKeepsRoots, FindSized
<1>2. /\ Forest(w, E) /\ Sized(w, E)
      /\ \A k \in E : Root(w, k) = Root(u, k) /\ (w.clusters[k] = k <=> u.clusters[k] = k)
  BY <1>1, FindKeepsRoots, FindSized
<1>3. a \in E /\ b \in E /\ w.clusters[a] = a /\ w.clusters[b] = b
  BY <1>2, RootFacts
<1>4. \/ a = b /\ v = w
      \/ a # b /\ v = Attach(w, a, b)
      \/ a # b /\ v = Attach(w, b, a)
  BY DEF UF_union
<1> HIDE DEF w, v
<1>5. CASE a = b /\ v = w
  <2>1. Merged(u, v, E, i, j)
    <3>1. \A k \in E : Root(v, k) = IF Root(u, k) = a THEN b ELSE Root(u, k)
      BY <1>2, <1>5
    <3>2. QED
      BY <1>3, <3>1 DEF Merged
  <2>2. QED
    BY <1>2, <1>5, <2>1 DEF v
<1>6. CASE a # b /\ v = Attach(w, a, b)
  <2>1. Merged(u, v, E, i, j)
    <3>1. \A k \in E : Root(v, k) = IF Root(u, k) = a THEN b ELSE Root(u, k)
      BY <1>2, <1>3, <1>6, AttachMovesBlock
    <3>2. QED
      BY <1>3, <3>1 DEF Merged
  <2>2. QED
    BY <1>2, <1>3, <1>6, <2>1, AttachMovesBlock, AttachSized DEF v
<1>7. CASE a # b /\ v = Attach(w, b, a)
  <2>1. Merged(u, v, E, i, j)
    <3>1. \A k \in E : Root(v, k) = IF Root(u, k) = b THEN a ELSE Root(u, k)
      BY <1>2, <1>3, <1>7, AttachMovesBlock
    <3>2. QED
      BY <1>3, <3>1 DEF Merged
  <2>2. QED
    BY <1>2, <1>3, <1>7, <2>1, AttachMovesBlock, AttachSized DEF v
<1>8. QED
  BY <1>4, <1>5, <1>6, <1>7

\* Elements are together after a union that were before, or that i and j bring together
LEMMA TogetherAfterMerge ==
  ASSUME NEW E, NEW u, NEW v, NEW i \in E, NEW j \in E, Merged(u, v, E, i, j),
         NEW k \in E, NEW l \in E
  PROVE  Root(v, k) = Root(v, l) <=>
           \/ Root(u, k) = Root(u, l)
           \/ Root(u, k) = Root(u, i) /\ Root(u, l) = Root(u, j)
           \/ Root(u, k) = Root(u, j) /\ Root(u, l) = Root(u, i)
<1>1. PICK a \in E, b \in E :
        /\ (a = Root(u, i) /\ b = Root(u, j)) \/ (a = Root(u, j) /\ b = Root(u, i))
        /\ \A m \in E : Root(v, m) = IF Root(u, m) = a THEN b ELSE Root(u, m)
  BY DEF Merged
<1>2. QED
  BY <1>1

-----------------------------------------------------------------------------
(* Numbers of clusters.                                                    *)

\* When all is found, all links are to roots
LEMMA FlattenKeepsRoots ==
  ASSUME NEW E, NEW u, Forest(u, E), Sized(u, E)
  PROVE  LET v == [u EXCEPT !.clusters = [g \in E |-> Root(u, g)]]
         IN  /\ Forest(v, E) /\ Sized(v, E)
             /\ \A k \in E : Root(v, k) = Root(u, k)
<1> DEFINE f == [g \in E |-> Root(u, g)]
           v == [u EXCEPT !.clusters = f]
<1>1. /\ u \in [clusters : [E -> E], sizes : [E -> Nat], num : Int]
      /\ \A k \in E : /\ Root(u, k) \in E /\ Root(u, Root(u, k)) = Root(u, k)
                      /\ Root(u, k) = k <=> u.clusters[k] = k
  BY RootFacts, RootOfNext DEF Forest
<1>2. /\ v \in [clusters : [E -> E], sizes : [E -> Nat], num : Int]
      /\ v.clusters = f /\ v.sizes = u.sizes /\ v.num = u.num
  BY <1>1
<1> HIDE DEF v
<1>3. ASSUME NEW i \in E
      PROVE  f[i] \in E /\ v.clusters[f[i]] = f[i] /\ LeadsTo(v, i, f[i])
  <2>1. f[i] \in E /\ v.clusters[f[i]] = f[i]
    BY <1>1, <1>2
  <2>2. DOMAIN v.clusters = E /\ v.clusters[i] = f[i]
    BY <1>2
  <2>3. QED
    BY <2>1, <2>2 DEF LeadsTo
<1>4. Forest(v, E) /\ \A i \in E : Root(v, i) = f[i]
  <2> HIDE DEF f
  <2>1. QED
    BY <1>2, <1>3, RootByMap
<1>5. \A k \in E : Root(v, k) = Root(u, k) /\ (v.clusters[k] = k <=> u.clusters[k] = k)
  BY <1>1, <1>2, <1>4
<1>6. Roots(v, E) = Roots(u, E) /\ \A k \in E : Block(v, E, k) = Block(u, E, k)
  BY <1>5 DEF Roots, Block
<1>7. Sized(v, E)
  BY <1>2, <1>5, <1>6 DEF Sized
<1>8. QED
  BY <1>4, <1>5, <1>7 DEF v

\* The numbers below a number of T tell the numbers of T apart, and leave none out
LEMMA RanksAreDense ==
  ASSUME NEW T \in SUBSET Nat, IsFiniteSet(T)
  PROVE  /\ \A r \in T : Cardinality({x \in T : x < r}) \in 0 .. Cardinality(T) - 1
         /\ \A r, s \in T : Cardinality({x \in T : x < r}) = Cardinality({x \in T : x < s}) => r = s
         /\ {Cardinality({x \in T : x < r}) : r \in T} = 0 .. Cardinality(T) - 1
<1> DEFINE below(r) == {x \in T : x < r}
           rank == [r \in T |-> Cardinality(below(r))]
           k == Cardinality(T)
<1>1. k \in Nat
  BY FS_CardinalityType
<1>2. ASSUME NEW S, NEW U \in SUBSET T, S \subseteq U, NEW r \in U, r \notin S
      PROVE  /\ Cardinality(S) \in Nat /\ Cardinality(U) \in Nat
             /\ Cardinality(S) < Cardinality(U)
  <2>1. IsFiniteSet(U)
    BY FS_Subset
  <2>2. /\ IsFiniteSet(S) /\ Cardinality(S) <= Cardinality(U)
        /\ Cardinality(U) = Cardinality(S) => U = S
    BY <1>2, <2>1, FS_Subset
  <2>3. Cardinality(S) \in Nat /\ Cardinality(U) \in Nat
    BY <2>1, <2>2, FS_CardinalityType
  <2>4. QED
    BY <1>2, <2>2, <2>3
<1>3. ASSUME NEW r \in T PROVE Cardinality(below(r)) \in 0 .. k - 1
  <2>1. below(r) \subseteq T /\ r \notin below(r)
    OBVIOUS
  <2>2. Cardinality(below(r)) \in Nat /\ Cardinality(below(r)) < k
    BY <1>2, <2>1
  <2>3. QED
    BY <1>1, <2>2
<1>4. ASSUME NEW r \in T, NEW s \in T, r < s
      PROVE  Cardinality(below(r)) # Cardinality(below(s))
  <2>1. below(r) \subseteq below(s) /\ r \in below(s) /\ r \notin below(r) /\ below(s) \subseteq T
    <3>1. r \in Nat /\ s \in Nat /\ \A x \in T : x \in Nat
      OBVIOUS
    <3>2. \A x \in T : x < r => x < s
      BY <1>4, <3>1
    <3>3. ~(r < r)
      BY <3>1
    <3>4. QED
      BY <1>4, <3>2, <3>3
  <2>2. /\ Cardinality(below(r)) \in Nat /\ Cardinality(below(s)) \in Nat
        /\ Cardinality(below(r)) < Cardinality(below(s))
    BY <1>2, <2>1
  <2>3. QED
    BY <2>2
<1>5. \A r, s \in T : Cardinality(below(r)) = Cardinality(below(s)) => r = s
  BY <1>4
<1>6. rank \in Injection(T, 0 .. k - 1)
  BY <1>3, <1>5 DEF Injection, IsInjective
<1>7. rank \in Surjection(T, 0 .. k - 1)
  <2>1. IsFiniteSet(0 .. k - 1) /\ Cardinality(0 .. k - 1) = k
    <3>1. 0 \in Int /\ k - 1 \in Int
      BY <1>1
    <3>2. IsFiniteSet(0 .. k - 1) /\ Cardinality(0 .. k - 1) = IF 0 > k - 1 THEN 0 ELSE k - 1 - 0 + 1
      BY ONLY <3>1, FS_Interval
    <3> HIDE DEF k
    <3>3. QED
      BY <1>1, <3>2
  <2>2. QED
    BY <1>6, <2>1, FS_Injection
<1>8. {Cardinality(below(r)) : r \in T} = 0 .. k - 1
  BY <1>3, <1>7 DEF Surjection
<1>9. QED
  BY <1>3, <1>5, <1>8

\* There are as many blocks as roots of theirs
LEMMA BlocksOfRoots ==
  ASSUME NEW E, IsFiniteSet(E), NEW u, Forest(u, E), NEW T \in SUBSET Roots(u, E)
  PROVE  Cardinality({Block(u, E, r) : r \in T}) = Cardinality(T)
<1> DEFINE B == {Block(u, E, r) : r \in T}
           f == [r \in T |-> Block(u, E, r)]
<1>1. IsFiniteSet(T)
  BY FS_Subset DEF Roots
<1>2. \A r \in T : r \in Block(u, E, r)
  BY RootOfNext DEF Roots, Block
<1>3. \A r, s \in T : Block(u, E, r) = Block(u, E, s) => r = s
  BY <1>2 DEF Block
<1>4. f \in Surjection(T, B) /\ f \in Injection(T, B)
  BY <1>3 DEF Surjection, Injection, IsInjective
<1>5. QED
  BY <1>1, <1>4, FS_Surjection

-----------------------------------------------------------------------------
Connected == input.minPoints <= 1

-----------------------------------------------------------------------------
(* The inductive invariant.                                                *)

TypeOK ==
  /\ input \in Inputs
  /\ inCluster \subseteq Geoms /\ inCore \subseteq Geoms
  /\ p \in 0 .. input.n \cup {Done}
  /\ todo \subseteq Geoms
  /\ neighbors \in Seq(Geoms)

Arrays == Forest(uf, Geoms) /\ Sized(uf, Geoms)

Together(g, h) == Root(uf, g) = Root(uf, h)

InTurn == todo # {} \/ p \in inCore

Elements(s) == {s[k] : k \in 1 .. Len(s)}

Distinct(s) == \A k, l \in 1 .. Len(s) : s[k] = s[l] => k = l

Waiting == Elements(neighbors)

\* c is known to be near q: it was its turn, or it is, and q was looked at and joined
Touched(c, q) ==
  Near(c, q) /\ (c = q \/ c < p \/ (c = p /\ InTurn /\ q \notin todo \cup Waiting))

\* A turn is that of a geometry, and is not over before all is looked at and joined
TurnOK ==
  /\ InTurn => p \in Geoms \ input.empty /\ ~Bail
  /\ todo # {} => todo \subseteq Found(p)
  /\ p \in inCore => todo # {} \/ neighbors # <<>>

\* Of connected geometries all are members, and together if a chain of what was found links them
ConnectedOK ==
  /\ inCluster = Geoms /\ inCore = {} /\ neighbors = <<>>
  /\ \A c, q \in Geoms : Touched(c, q) => Together(c, q)
  /\ \A c, q \in Geoms : Together(c, q) /\ c # q => c \in Cores /\ q \in Cores /\ Chained(c, q)

\* The cores are those whose turn was, and p when enough is near it
CoresOK ==
  /\ inCore \subseteq Cores /\ \A c \in inCore : c <= p
  /\ \A c \in Cores : c < p => c \in inCore

\* Some of what was found near p is set aside: all of it, and too little, while p is no core
AsideOK ==
  /\ InTurn => Waiting \subseteq {q \in Found(p) \ todo : Near(p, q)} /\ Distinct(neighbors)
  /\ todo # {} /\ p \notin inCore =>
       /\ {q \in Found(p) \ todo : Near(p, q)} \subseteq Waiting
       /\ Len(neighbors) = Cardinality(Waiting) /\ Len(neighbors) < input.minPoints

\* Members are what a core was found near to, and all others are alone
MembersOK ==
  /\ inCluster = {q \in Geoms : \E c \in inCore : Touched(c, q)}
  /\ \A q \in Geoms \ inCluster, h \in Geoms : Together(h, q) => h = q

\* A member on a border is with one core near it
BordersOK ==
  \A q \in inCluster \ inCore : \E c \in inCore : Near(c, q) /\ Together(c, q)

\* Cores are together if they were found near each other, and only if a chain links them
ChainsOK ==
  /\ \A c, d \in inCore : c < d /\ Touched(d, c) => Together(c, d)
  /\ \A c, d \in inCore : Together(c, d) => Chained(c, d)

GeneralOK == CoresOK /\ AsideOK /\ MembersOK /\ BordersOK /\ ChainsOK

Inv ==
  /\ TypeOK /\ Arrays
  /\ p # Done => TurnOK /\ IF Connected THEN ConnectedOK ELSE GeneralOK
  /\ p = Done => todo = {}
  /\ ClustersAreDensityConnected
  /\ IdsNameClusters

-----------------------------------------------------------------------------
(* Sequences of distinct elements.                                         *)

\* What Append adds
LEMMA AppendElements ==
  ASSUME NEW S, NEW s \in Seq(S), NEW e \in S
  PROVE  /\ Append(s, e) \in Seq(S) /\ Len(Append(s, e)) = Len(s) + 1
         /\ Elements(Append(s, e)) = Elements(s) \cup {e}
         /\ Distinct(s) /\ e \notin Elements(s) => Distinct(Append(s, e))
<1> DEFINE t == Append(s, e)
<1>1. /\ t \in Seq(S) /\ Len(s) \in Nat /\ Len(t) = Len(s) + 1
      /\ \A k \in 1 .. Len(s) : t[k] = s[k]
      /\ t[Len(s) + 1] = e
  OBVIOUS
<1> HIDE DEF t
<1>2. Elements(t) = Elements(s) \cup {e}
  BY <1>1 DEF Elements
<1>3. Distinct(s) /\ e \notin Elements(s) => Distinct(t)
  BY <1>1 DEF Elements, Distinct
<1>4. QED
  BY <1>1, <1>2, <1>3 DEF t

\* What Tail leaves out
LEMMA TailElements ==
  ASSUME NEW S, NEW s \in Seq(S), s # <<>>, Distinct(s)
  PROVE  /\ Tail(s) \in Seq(S) /\ Head(s) \in Elements(s)
         /\ Elements(Tail(s)) = Elements(s) \ {Head(s)}
         /\ Distinct(Tail(s))
<1> DEFINE t == Tail(s)
           h == Head(s)
<1>1. /\ t \in Seq(S) /\ Len(s) \in Nat \ {0} /\ Len(t) = Len(s) - 1
      /\ \A k \in 1 .. Len(t) : t[k] = s[k + 1]
      /\ h = s[1]
  OBVIOUS
<1> HIDE DEF t, h
<1>2. h \in Elements(s)
  BY <1>1 DEF Elements
<1>3. Elements(t) = Elements(s) \ {h}
  <2>1. \A e \in Elements(t) : e \in Elements(s) /\ e # h
    BY <1>1 DEF Elements, Distinct
  <2>2. ASSUME NEW e \in Elements(s), e # h PROVE e \in Elements(t)
    <3>1. PICK k \in 1 .. Len(s) : e = s[k]
      BY DEF Elements
    <3>2. k - 1 \in 1 .. Len(t) /\ t[k - 1] = e
      BY <1>1, <2>2, <3>1
    <3>3. QED
      BY <3>2 DEF Elements
  <2>3. QED
    BY <2>1, <2>2
<1>4. Distinct(t)
  BY <1>1 DEF Distinct
<1>5. QED
  BY <1>1, <1>2, <1>3, <1>4 DEF t, h

-----------------------------------------------------------------------------
(* What is near.                                                           *)

\* An input has finitely many geometries, numbered from 0
LEMMA InputFacts ==
  ASSUME input \in Inputs
  PROVE  /\ input.n \in Nat /\ input.minPoints \in Nat
         /\ input.null \subseteq input.empty /\ input.empty \subseteq Geoms
         /\ IsFiniteSet(Geoms) /\ Cardinality(Geoms) = input.n
<1>1. InputType(input)
  BY InputsHaveTheirType
<1>2. IsFiniteSet(Geoms) /\ Cardinality(Geoms) = input.n
  <2>1. input.n \in Nat /\ 0 \in Int /\ input.n - 1 \in Int
    BY <1>1 DEF InputType
  <2>2. /\ IsFiniteSet(0 .. input.n - 1)
        /\ Cardinality(0 .. input.n - 1) = IF 0 > input.n - 1 THEN 0 ELSE input.n - 1 - 0 + 1
    BY ONLY <2>1, FS_Interval
  <2>3. QED
    BY <2>1, <2>2 DEF Geoms
<1>3. QED
  BY <1>1, <1>2 DEF InputType, Geoms

\* Near geometries are near both ways, and the search of one finds the other
LEMMA NearFacts ==
  ASSUME input \in Inputs, NEW g \in Geoms, NEW h \in Geoms, Near(g, h)
  PROVE  Near(h, g) /\ g \notin input.empty /\ h \notin input.empty /\ h \in Found(g)
<1>1. InputType(input)
  BY InputsHaveTheirType
<1>2. CASE g = h
  BY <1>2 DEF Near, Found
<1>3. CASE g # h
  <2>1. {g, h} \in input.near /\ {g, h} \in input.boxes /\ {h, g} = {g, h}
    BY <1>1, <1>3 DEF InputType, Near
  <2>2. {g, h} \subseteq Geoms \ input.empty
    BY <1>1, <2>1 DEF InputType, Geoms
  <2>3. QED
    BY <2>1, <2>2 DEF Near, Found
<1>4. QED
  BY <1>2, <1>3

\* A geometry is chained to itself
LEMMA ChainedReflexive ==
  ASSUME NEW c
  PROVE  Chained(c, c)
BY DEF Chained

\* A chain goes on to a core that is near its last
LEMMA ChainedNear ==
  ASSUME NEW b, NEW c \in Cores, NEW d \in Cores, Chained(b, c), Near(c, d)
  PROVE  Chained(b, d)
BY DEF Chained

\* Chains join
LEMMA ChainedTransitive ==
  ASSUME NEW b, NEW c, NEW d, Chained(b, c), Chained(c, d)
  PROVE  Chained(b, d)
BY DEF Chained

\* Chains go both ways
LEMMA ChainedSymmetric ==
  ASSUME input \in Inputs, NEW c \in Cores, NEW d \in Cores, Chained(c, d)
  PROVE  Chained(d, c)
<1> DEFINE S == {x \in Cores : Chained(x, c)}
<1>1. c \in S
  BY ChainedReflexive
<1>2. ASSUME NEW g \in S, NEW h \in Cores, Near(g, h) PROVE h \in S
  <2>1. Near(h, g) /\ g \in Cores
    BY <1>2, NearFacts DEF Cores
  <2>2. Chained(h, g)
    BY <2>1, ChainedReflexive, ChainedNear
  <2>3. QED
    BY <2>2, ChainedTransitive
<1>3. d \in S
  <2> HIDE DEF S
  <2>1. S \in SUBSET Cores
    BY DEF S
  <2>2. QED
    BY <1>1, <1>2, <2>1 DEF Chained
<1>4. QED
  BY <1>3

\* None of this changes while the rows are clustered
LEMMA SameInput ==
  ASSUME input' = input
  PROVE  /\ Geoms' = Geoms /\ Cores' = Cores /\ (Connected' <=> Connected) /\ (Bail' <=> Bail)
         /\ \A g : Found(g)' = Found(g)
         /\ \A g, h : (Near(g, h)' <=> Near(g, h)) /\ (Chained(g, h)' <=> Chained(g, h))
BY DEF Geoms, Cores, Connected, Bail, Found, Near, Chained

-----------------------------------------------------------------------------
(* Steps of the general loop.                                              *)

\* While the loop runs, its position is a number, and the next one is not Done
LEMMA Position ==
  ASSUME TypeOK, p # Done
  PROVE  p \in Nat /\ p \in 0 .. input.n /\ p + 1 # Done /\ Done \notin Geoms
BY InputFacts, DoneIsNoGeometry DEF TypeOK, Geoms

\* A core p settles with q: it is found not near, left where it is, or joined
LEMMA SettleOne ==
  ASSUME TypeOK, Arrays, TurnOK, GeneralOK, p # Done, p \in inCore, NEW q \in Geoms,
         input' = input, inCore' = inCore,
         p' = p \/ (p' = p + 1 /\ todo' = {} /\ Waiting' = {}),
         todo' \cup Waiting' = (todo \cup Waiting) \ {q},
         \/ /\ \A g \in Geoms : Root(uf', g) = Root(uf, g)
            /\ inCluster' = inCluster
            /\ ~Near(p, q) \/ Together(p, q) \/ q \in inCluster \ inCore
         \/ /\ Near(p, q) /\ (q \notin inCluster \/ q \in inCore)
            /\ Merged(uf, uf', Geoms, p, q)
            /\ inCluster' = inCluster \cup {q}
  PROVE  CoresOK' /\ MembersOK' /\ BordersOK' /\ ChainsOK'
<1> USE SameInput
<1> DEFINE Kept == /\ \A g \in Geoms : Root(uf', g) = Root(uf, g)
                   /\ inCluster' = inCluster
                   /\ ~Near(p, q) \/ Together(p, q) \/ q \in inCluster \ inCore
           Joined == /\ Near(p, q) /\ (q \notin inCluster \/ q \in inCore)
                     /\ Merged(uf, uf', Geoms, p, q)
                     /\ inCluster' = inCluster \cup {q}
<1>1. /\ p \in Geoms /\ p \in Nat /\ Geoms \subseteq Nat /\ p' \in {p, p + 1}
      /\ inCore \subseteq Geoms /\ inCore \subseteq Cores /\ inCore \subseteq inCluster
      /\ Cores \subseteq Geoms
  <2>1. p \in Geoms /\ p \in Nat /\ Geoms \subseteq Nat
    BY Position DEF TypeOK, Geoms
  <2>2. inCore \subseteq Geoms /\ inCore \subseteq Cores
    BY DEF TypeOK, GeneralOK, CoresOK
  <2>3. inCore \subseteq inCluster
    BY <2>2 DEF GeneralOK, MembersOK, Touched, Cores
  <2>4. Cores \subseteq Geoms
    BY DEF Cores
  <2>5. QED
    BY <2>1, <2>2, <2>3, <2>4
<1>2. ASSUME NEW c \in inCore, NEW x \in Geoms
      PROVE  Touched(c, x)' <=> Touched(c, x) \/ (c = p /\ x = q /\ Near(p, q))
  <2>1. c \in Nat /\ c <= p /\ c \in Geoms
    BY <1>1 DEF GeneralOK, CoresOK
  <2>2. InTurn
    BY DEF InTurn
  <2>3. p' = p => InTurn'
    BY DEF InTurn
  <2>4. CASE c = x \/ c < p
    BY <1>1, <2>1, <2>4 DEF Touched
  <2>5. CASE c = p /\ c # x /\ p' = p
    BY <1>1, <2>1, <2>2, <2>3, <2>5 DEF Touched
  <2>6. CASE c = p /\ c # x /\ p' = p + 1
    BY <1>1, <2>1, <2>2, <2>6 DEF Touched
  <2>7. QED
    BY <1>1, <2>1, <2>4, <2>5, <2>6
<1>3. CoresOK'
  <2>1. Cores' = Cores
    OBVIOUS
  <2>2. \A c \in inCore : c <= p /\ c <= p'
    BY <1>1 DEF GeneralOK, CoresOK
  <2>3. \A c \in Cores : c < p' => c < p \/ c = p
    BY <1>1
  <2>4. \A c \in Cores : c < p' => c \in inCore
    BY <2>3 DEF GeneralOK, CoresOK
  <2>5. QED
    BY <1>1, <2>1, <2>2, <2>4 DEF CoresOK
<1>4. \A g, h \in Geoms : Together(g, h) => Together(g, h)'
  <2>1. CASE Kept
    BY <2>1 DEF Together
  <2>2. CASE Joined
    BY <1>1, <2>2, TogetherAfterMerge DEF Together
  <2>3. QED
    BY <2>1, <2>2
<1>5. MembersOK'
  <2>1. inCluster' = {x \in Geoms : \E c \in inCore : Touched(c, x)'}
    <3>1. CASE Kept
      <4>1. Near(p, q) => q \in inCluster
        BY <1>1, <3>1 DEF GeneralOK, MembersOK, Together
      <4>2. QED
        BY <1>2, <3>1, <4>1 DEF GeneralOK, MembersOK
    <3>2. CASE Joined
      BY <1>2, <3>2 DEF GeneralOK, MembersOK
    <3>3. QED
      BY <3>1, <3>2
  <2>2. ASSUME NEW x \in Geoms \ inCluster', NEW h \in Geoms, Together(h, x)' PROVE h = x
    <3>1. CASE Kept
      BY <2>2, <3>1 DEF GeneralOK, MembersOK, Together
    <3>2. CASE Joined
      <4>1. x \notin inCluster /\ x # q /\ x # p
        BY <1>1, <2>2, <3>2
      <4>2. ~Together(p, x) /\ ~Together(q, x)
        BY <1>1, <4>1 DEF GeneralOK, MembersOK
      <4>3. Together(h, x)
        BY <1>1, <2>2, <3>2, <4>2, TogetherAfterMerge DEF Together
      <4>4. QED
        BY <4>1, <4>3 DEF GeneralOK, MembersOK
    <3>3. QED
      BY <3>1, <3>2
  <2>3. QED
    BY <2>1, <2>2 DEF MembersOK
<1>6. BordersOK'
  <2>1. SUFFICES ASSUME NEW x \in inCluster' \ inCore
                 PROVE  \E c \in inCore : Near(c, x) /\ Together(c, x)'
    BY DEF BordersOK
  <2>2. CASE x \in inCluster
    <3>1. PICK c \in inCore : Near(c, x) /\ Together(c, x)
      BY <2>2 DEF GeneralOK, BordersOK
    <3>2. x \in Geoms
      BY <2>2 DEF TypeOK
    <3>3. QED
      BY <1>1, <1>4, <3>1, <3>2
  <2>3. CASE x \notin inCluster
    <3>1. Joined /\ x = q
      BY <2>3
    <3>2. Root(uf', p) = Root(uf', q)
      BY <1>1, <3>1, TogetherAfterMerge
    <3>3. QED
      BY <3>1, <3>2 DEF Together
  <2>4. QED
    BY <2>2, <2>3
<1>7. ChainsOK'
  <2>1. ASSUME NEW c \in inCore, NEW d \in inCore, c < d, Touched(d, c)'
        PROVE  Together(c, d)'
    <3>1. CASE Touched(d, c)
      BY <1>1, <1>4, <2>1, <3>1 DEF GeneralOK, ChainsOK
    <3>2. CASE d = p /\ c = q /\ Near(p, q)
      <4>1. CASE Kept
        BY <1>1, <1>4, <3>2, <4>1 DEF Together
      <4>2. CASE Joined
        BY <1>1, <3>2, <4>2, TogetherAfterMerge DEF Together
      <4>3. QED
        BY <4>1, <4>2
    <3>3. QED
      BY <1>1, <1>2, <2>1, <3>1, <3>2
  <2>2. ASSUME NEW c \in inCore, NEW d \in inCore, Together(c, d)'
        PROVE  Chained(c, d)
    <3>1. CASE Kept
      BY <1>1, <2>2, <3>1 DEF GeneralOK, ChainsOK, Together
    <3>2. CASE Joined
      <4>1. CASE Together(c, d)
        BY <4>1 DEF GeneralOK, ChainsOK
      <4>2. CASE q \notin inCluster
        <5>1. ~Together(c, q) /\ ~Together(d, q)
          BY <1>1, <4>2 DEF GeneralOK, MembersOK
        <5>2. QED
          BY <1>1, <2>2, <3>2, <4>1, <5>1, TogetherAfterMerge DEF Together
      <4>3. CASE q \in inCore
        <5>1. Chained(p, q) /\ Chained(q, p)
          <6>1. Near(p, q) /\ Near(q, p)
            BY <1>1, <3>2, NearFacts DEF TypeOK
          <6>2. QED
            BY <1>1, <4>3, <6>1, ChainedReflexive, ChainedNear
        <5>2. ASSUME NEW e \in inCore, NEW f \in inCore, Together(e, f) PROVE Chained(e, f)
          BY <5>2 DEF GeneralOK, ChainsOK
        <5>3. Together(c, d) \/ (Together(c, p) /\ Together(q, d))
                             \/ (Together(c, q) /\ Together(p, d))
          BY <1>1, <2>2, <3>2, TogetherAfterMerge DEF Together
        <5>4. QED
          BY <4>3, <5>1, <5>2, <5>3, ChainedTransitive
      <4>4. QED
        BY <3>2, <4>2, <4>3
    <3>3. QED
      BY <3>1, <3>2
  <2>3. QED
    BY <2>1, <2>2 DEF ChainsOK
<1>8. QED
  BY <1>3, <1>5, <1>6, <1>7

\* The turn of what is no core changes nothing
LEMMA PassOver ==
  ASSUME TypeOK, GeneralOK, p # Done, p \notin inCore,
         UNCHANGED <<input, uf, inCluster, inCore>>,
         p' = p \/ (p' = p + 1 /\ p \notin Cores)
  PROVE  CoresOK' /\ MembersOK' /\ BordersOK' /\ ChainsOK'
<1>1. /\ Geoms' = Geoms /\ Cores' = Cores
      /\ \A g, h : (Near(g, h)' <=> Near(g, h)) /\ (Chained(g, h)' <=> Chained(g, h))
      /\ \A g, h : Together(g, h)' <=> Together(g, h)
  BY SameInput DEF Together
<1>2. p \in Nat /\ Cores \subseteq Geoms /\ Geoms \subseteq Nat /\ inCore \subseteq Geoms
  BY Position DEF Geoms, Cores, TypeOK
<1>3. \A c \in inCore : c < p /\ c < p'
  BY <1>2 DEF GeneralOK, CoresOK
<1>4. \A c \in inCore, x \in Geoms : Touched(c, x)' <=> Touched(c, x)
  BY <1>1, <1>3 DEF Touched
<1>5. \A c \in Cores : c < p' => c < p
  BY <1>2
<1>6. CoresOK'
  BY <1>1, <1>2, <1>3, <1>5 DEF GeneralOK, CoresOK
<1>7. MembersOK'
  BY <1>1, <1>4 DEF GeneralOK, MembersOK
<1>8. BordersOK'
  BY <1>1 DEF GeneralOK, BordersOK
<1>9. ChainsOK'
  BY <1>1, <1>2, <1>4 DEF GeneralOK, ChainsOK
<1>10. QED
  BY <1>6, <1>7, <1>8, <1>9

\* What becomes a core brings its own cluster, if it was on the border of one
LEMMA CoreAdded ==
  ASSUME TypeOK, GeneralOK, p # Done, p \notin inCore, p \in Cores,
         UNCHANGED <<input, uf, p>>,
         inCore' = inCore \cup {p}, inCluster' = inCluster \cup {p},
         \A x \in Geoms : Near(p, x) => x \in todo' \cup Waiting'
  PROVE  CoresOK' /\ MembersOK' /\ BordersOK' /\ ChainsOK'
<1>1. /\ Geoms' = Geoms /\ Cores' = Cores
      /\ \A g, h : (Near(g, h)' <=> Near(g, h)) /\ (Chained(g, h)' <=> Chained(g, h))
      /\ \A g, h : Together(g, h)' <=> Together(g, h)
  BY SameInput DEF Together
<1>2. /\ p \in Nat /\ p \in Geoms /\ Cores \subseteq Geoms /\ Geoms \subseteq Nat
      /\ inCore \subseteq Geoms /\ Near(p, p) /\ inCluster \subseteq Geoms
  BY Position DEF Geoms, Cores, TypeOK
<1>3. \A c \in inCore : c < p
  BY <1>2 DEF GeneralOK, CoresOK
<1>4. \A c \in inCore, x \in Geoms : Touched(c, x)' <=> Touched(c, x)
  BY <1>1, <1>3 DEF Touched
<1>5. ASSUME NEW c \in Geoms, NEW x \in Geoms, c = p PROVE Touched(c, x)' <=> x = p
  BY <1>1, <1>2, <1>5 DEF Touched
<1>6. CoresOK'
  <2>1. \A c \in inCore' : c \in Cores /\ c <= p
    BY <1>2, <1>3 DEF GeneralOK, CoresOK
  <2>2. \A c \in Cores : c < p => c \in inCore'
    BY DEF GeneralOK, CoresOK
  <2>3. QED
    BY <1>1, <2>1, <2>2 DEF CoresOK
<1>7. MembersOK'
  BY <1>1, <1>2, <1>4, <1>5 DEF GeneralOK, MembersOK
<1>8. BordersOK'
  BY <1>1 DEF GeneralOK, BordersOK
<1>9. ASSUME NEW c \in inCore', NEW d \in inCore', c < d, Touched(d, c)'
      PROVE  Together(c, d)'
  <2>1. d # p
    BY <1>2, <1>5, <1>9
  <2>2. c # p
    BY <1>2, <1>3, <1>9, <2>1
  <2>3. QED
    BY <1>1, <1>2, <1>4, <1>9, <2>1, <2>2 DEF GeneralOK, ChainsOK
<1>10. ASSUME NEW d \in inCore, Together(p, d) PROVE Chained(p, d) /\ Chained(d, p)
  <2>1. p \in inCluster \ inCore
    BY <1>2, <1>10 DEF GeneralOK, MembersOK, Together
  <2>2. PICK b \in inCore : Near(b, p) /\ Together(b, p)
    BY <2>1 DEF GeneralOK, BordersOK
  <2>3. Chained(b, d) /\ b \in Cores /\ d \in Cores
    BY <1>10, <2>2 DEF GeneralOK, ChainsOK, CoresOK, Together
  <2>4. Chained(b, p)
    BY <2>2, <2>3, ChainedReflexive, ChainedNear
  <2>5. QED
    BY <2>3, <2>4, ChainedSymmetric, ChainedTransitive DEF TypeOK
<1>11. ASSUME NEW c \in inCore', NEW d \in inCore', Together(c, d)'
       PROVE  Chained(c, d)
  BY <1>1, <1>10, <1>11, ChainedReflexive DEF GeneralOK, ChainsOK, Together
<1>12. ChainsOK'
  BY <1>1, <1>9, <1>11 DEF ChainsOK
<1>13. QED
  BY <1>6, <1>7, <1>8, <1>12

-----------------------------------------------------------------------------
(* The actions of the general loop.                                        *)

\* union_if_available merges, unless the geometry is a border that is taken
LEMMA UnionIfAvailableFields ==
  ASSUME NEW u, NEW members, NEW cores, NEW g, NEW q
  PROVE  UnionIfAvailable([uf |-> u, inCluster |-> members, inCore |-> cores], g, q) =
           [uf |-> IF q \notin members \/ q \in cores THEN UF_union(u, g, q) ELSE u,
            inCluster |-> members \cup {q}, inCore |-> cores]
<1>1. CASE q \notin members
  BY <1>1 DEF UnionIfAvailable
<1>2. CASE q \in members
  <2>1. members \cup {q} = members
    BY <1>2
  <2>2. QED
    BY <1>2, <2>1 DEF UnionIfAvailable
<1>3. QED
  BY <1>1, <1>2

\* Measuring the distance to q finds p and q in the arrays
LEMMA CompareKeeps ==
  ASSUME TypeOK, Arrays, NEW q \in Geoms, p \in Geoms
  PROVE  LET u == UF_find(UF_find(uf, p), q)
         IN  /\ Compare(q) = [uf |-> u, inCluster |-> inCluster, inCore |-> inCore]
             /\ Forest(u, Geoms) /\ Sized(u, Geoms)
             /\ \A g \in Geoms : Root(u, g) = Root(uf, g)
<1>1. Compare(q) = [uf |-> UF_find(UF_find(uf, p), q), inCluster |-> inCluster, inCore |-> inCore]
  BY DEF Compare, Clustered
<1>2. /\ Forest(UF_find(uf, p), Geoms) /\ Sized(UF_find(uf, p), Geoms)
      /\ \A g \in Geoms : Root(UF_find(uf, p), g) = Root(uf, g)
  BY FindKeepsRoots, FindSized DEF Arrays
<1>3. QED
  BY <1>1, <1>2, FindKeepsRoots, FindSized

\* What Visit does to a geometry of the general loop
LEMMA VisitGeneralCases ==
  ASSUME TypeOK, Arrays, TurnOK, p # Done, ~Connected, NEW q \in Geoms, Visit(q)
  PROVE  \/ /\ p \in inCore /\ neighbors' = <<>> /\ neighbors = <<>> /\ inCore' = inCore
            /\ Arrays'
            /\ \/ /\ \A g \in Geoms : Root(uf', g) = Root(uf, g)
                  /\ inCluster' = inCluster
                  /\ ~Near(p, q) \/ Together(p, q) \/ q \in inCluster \ inCore
               \/ /\ Near(p, q) /\ (q \notin inCluster \/ q \in inCore)
                  /\ Merged(uf, uf', Geoms, p, q)
                  /\ inCluster' = inCluster \cup {q}
         \/ /\ p \notin inCore /\ ~Near(p, q)
            /\ UNCHANGED <<uf, inCluster, inCore, neighbors>>
         \/ /\ p \notin inCore /\ Near(p, q) /\ neighbors' = Append(neighbors, q)
            /\ UNCHANGED uf
            /\ IF Len(neighbors') < input.minPoints THEN UNCHANGED <<inCluster, inCore>>
               ELSE inCluster' = inCluster \cup {p} /\ inCore' = inCore \cup {p}
<1>1. q \in todo /\ ~Joining /\ VisitGeneral(q) /\ input' = input
  BY DEF Visit, Connected
<1>2. p \in Geoms /\ Geoms' = Geoms /\ IsFiniteSet(Geoms)
  BY <1>1, SameInput, InputFacts DEF TurnOK, InTurn, TypeOK
<1>3. CASE p \in inCore
  <2> DEFINE u == UF_find(UF_find(uf, p), q)
             c == [uf |-> u, inCluster |-> inCluster, inCore |-> inCore]
  <2>1. Compare(q) = c /\ Forest(u, Geoms) /\ Sized(u, Geoms)
        /\ \A g \in Geoms : Root(u, g) = Root(uf, g)
    BY <1>2, CompareKeeps
  <2>2. neighbors = <<>> /\ neighbors' = <<>>
    BY <1>1, <1>3 DEF VisitGeneral, Joining, Dense
  <2> HIDE DEF u
  <2>3. CASE Skipped(q) \/ ~Near(p, q)
    <3>1. uf' = u /\ inCluster' = inCluster /\ inCore' = inCore
      BY <1>1, <1>3, <2>1, <2>3 DEF VisitGeneral, Dense, Becomes
    <3>2. ~Near(p, q) \/ Together(p, q) \/ q \in inCluster \ inCore
      BY <2>3 DEF Skipped, Together
    <3>3. QED
      BY <1>2, <1>3, <2>1, <2>2, <3>1, <3>2 DEF Arrays
  <2>4. CASE ~Skipped(q) /\ Near(p, q)
    <3>1. /\ Becomes(UnionIfAvailable(c, p, q))
          /\ q \notin inCluster \/ q \in inCore
      BY <1>1, <1>3, <2>1, <2>4 DEF VisitGeneral, Dense, Skipped
    <3>2. uf' = UF_union(u, p, q) /\ inCluster' = inCluster \cup {q} /\ inCore' = inCore
      <4>1. UnionIfAvailable(c, p, q) =
              [uf |-> IF q \notin inCluster \/ q \in inCore THEN UF_union(u, p, q) ELSE u,
               inCluster |-> inCluster \cup {q}, inCore |-> inCore]
        BY UnionIfAvailableFields
      <4> HIDE DEF c
      <4>2. QED
        BY <3>1, <4>1 DEF Becomes
    <3>3. Forest(uf', Geoms) /\ Sized(uf', Geoms) /\ Merged(u, uf', Geoms, p, q)
      BY <1>2, <2>1, <3>2, UnionMerges
    <3>4. Merged(uf, uf', Geoms, p, q)
      BY <1>2, <2>1, <3>3 DEF Merged
    <3>5. QED
      BY <1>2, <1>3, <2>2, <2>4, <3>1, <3>2, <3>3, <3>4 DEF Arrays
  <2>5. QED
    BY <2>3, <2>4
<1>4. CASE p \notin inCore /\ ~Near(p, q)
  BY <1>1, <1>4 DEF VisitGeneral, Dense, Becomes, Clustered
<1>5. CASE p \notin inCore /\ Near(p, q)
  <2>1. SetAside(q)
    BY <1>1, <1>5 DEF VisitGeneral, Dense, Skipped
  <2>2. CASE Len(neighbors') < input.minPoints
    BY <1>5, <2>1, <2>2 DEF SetAside, Becomes, Clustered
  <2>3. CASE ~(Len(neighbors') < input.minPoints)
    BY <1>5, <2>1, <2>3 DEF SetAside, Becomes, Clustered
  <2>4. QED
    BY <1>5, <2>1, <2>2, <2>3 DEF SetAside
<1>6. QED
  BY <1>3, <1>4, <1>5

\* p moves on when all is looked at and joined, and only then
LEMMA EndTurnKeeps ==
  ASSUME TypeOK, TurnOK, p # Done, InTurn, input' = input, EndTurn,
         todo' \subseteq todo, inCore' \subseteq inCore \cup {p}, \A c \in inCore : c <= p
  PROVE  /\ TurnOK' /\ p' # Done /\ p' \in 0 .. input.n
         /\ p' = p \/ (p' = p + 1 /\ ~InTurn')
         /\ p' = p <=> todo' # {} \/ (p \in inCore' /\ neighbors' # <<>>)
<1>1. /\ p \in Geoms \ input.empty /\ ~Bail /\ p \in Nat /\ p + 1 # p /\ p + 1 # Done
      /\ p + 1 \in 0 .. input.n /\ p \in 0 .. input.n
  BY Position, InputFacts DEF TurnOK, Geoms, TypeOK
<1>2. Geoms' = Geoms /\ (Bail' <=> Bail) /\ \A g : Found(g)' = Found(g)
  BY SameInput
<1>3. CASE todo' = {} /\ (p \in inCore' => neighbors' = <<>>)
  <2>1. p' = p + 1
    BY <1>3 DEF EndTurn
  <2>2. p + 1 \notin inCore'
    BY <1>1
  <2>3. ~InTurn'
    BY <1>3, <2>1, <2>2 DEF InTurn
  <2>4. TurnOK'
    BY <1>3, <2>1, <2>2, <2>3 DEF TurnOK
  <2>5. QED
    BY <1>1, <1>3, <2>1, <2>3, <2>4
<1>4. CASE ~(todo' = {} /\ (p \in inCore' => neighbors' = <<>>))
  <2>1. p' = p
    BY <1>4 DEF EndTurn
  <2>2. todo' # {} => todo' \subseteq Found(p)
    BY DEF TurnOK
  <2>3. TurnOK'
    BY <1>1, <1>2, <1>4, <2>1, <2>2 DEF TurnOK
  <2>4. QED
    BY <1>1, <1>4, <2>1, <2>3
<1>5. QED
  BY <1>3, <1>4

\* With q there is one more near p, and with all of them p is core if they are enough
LEMMA Counted ==
  ASSUME TypeOK, p \in Geoms \ input.empty, NEW S \in SUBSET {h \in Geoms : Near(p, h)}
  PROVE  /\ IsFiniteSet(S) /\ Cardinality(S) \in Nat
         /\ Cardinality(S) >= input.minPoints => p \in Cores
         /\ S = {h \in Geoms : Near(p, h)} /\ Cardinality(S) < input.minPoints => p \notin Cores
<1> DEFINE N == {h \in Geoms : Near(p, h)}
<1>1. IsFiniteSet(N) /\ N \in SUBSET Geoms
  BY InputFacts, FS_Subset DEF TypeOK
<1>2. Near(p, p)
  BY DEF Near
<1>3. p \in Cores <=> Cardinality(N) >= input.minPoints
  BY <1>2 DEF Cores
<1>4. IsFiniteSet(S) /\ Cardinality(S) <= Cardinality(N)
  BY <1>1, FS_Subset
<1>5. Cardinality(S) \in Nat /\ Cardinality(N) \in Nat /\ input.minPoints \in Nat
  BY <1>1, <1>4, FS_CardinalityType, InputFacts DEF TypeOK
<1> HIDE DEF N
<1>6. QED
  BY <1>3, <1>4, <1>5 DEF N

\* A neighbour that is read and counted keeps the invariant of union_dbscan_general
LEMMA GeneralVisit ==
  ASSUME TypeOK, Arrays, TurnOK, GeneralOK, p # Done, ~Connected, NEW q \in todo, Visit(q)
  PROVE  TypeOK' /\ Arrays' /\ p' # Done /\ TurnOK' /\ GeneralOK'
<1> DEFINE N == {h \in Geoms : Near(p, h)}
           Seen == {h \in Found(p) \ todo : Near(p, h)}
<1>1. /\ q \in Geoms /\ todo' = todo \ {q} /\ input' = input /\ EndTurn /\ InTurn
      /\ todo # {} /\ p \in Geoms \ input.empty /\ todo \subseteq Found(p)
      /\ inCore \subseteq Geoms /\ inCluster \subseteq Geoms /\ neighbors \in Seq(Geoms)
      /\ todo \subseteq Geoms
  BY DEF Visit, InTurn, TurnOK, TypeOK
<1>2. /\ Geoms' = Geoms /\ \A g : Found(g)' = Found(g)
      /\ \A g, h : Near(g, h)' <=> Near(g, h)
  BY <1>1, SameInput
<1>3. /\ \A c \in inCore : c <= p
      /\ Waiting \subseteq Seen /\ Distinct(neighbors)
      /\ p \notin inCore => Waiting = Seen /\ Len(neighbors) = Cardinality(Waiting)
                            /\ Len(neighbors) < input.minPoints
  BY <1>1 DEF GeneralOK, CoresOK, AsideOK
<1>4. N \subseteq Found(p) /\ Found(p) \subseteq Geoms /\ Seen \subseteq N
  BY <1>1, NearFacts DEF TypeOK, Found
<1>5. input.minPoints \in Nat /\ Len(neighbors) \in Nat /\ p \in Nat /\ p + 1 # p
  BY <1>1, InputFacts, Position DEF TypeOK
<1> DEFINE Kept == /\ neighbors' \in Seq(Geoms) /\ inCore' \subseteq inCore \cup {p}
                   /\ inCluster' \subseteq Geoms /\ Arrays'
                   /\ AsideOK' /\ CoresOK' /\ MembersOK' /\ BordersOK' /\ ChainsOK'
<1>7. ASSUME p \in inCore PROVE Kept
  <2>1. /\ neighbors' = <<>> /\ neighbors = <<>> /\ inCore' = inCore /\ Arrays'
        /\ \/ /\ \A g \in Geoms : Root(uf', g) = Root(uf, g)
              /\ inCluster' = inCluster
              /\ ~Near(p, q) \/ Together(p, q) \/ q \in inCluster \ inCore
           \/ /\ Near(p, q) /\ (q \notin inCluster \/ q \in inCore)
              /\ Merged(uf, uf', Geoms, p, q)
              /\ inCluster' = inCluster \cup {q}
    BY <1>1, <1>7, VisitGeneralCases
  <2>2. Waiting = {} /\ Waiting' = {} /\ Distinct(neighbors)' /\ neighbors' \in Seq(Geoms)
    BY <2>1 DEF Waiting, Elements, Distinct
  <2>3. p' = p \/ (p' = p + 1 /\ ~InTurn')
    BY <1>1, <1>3, <2>1, EndTurnKeeps
  <2>4. AsideOK'
    BY <1>7, <2>1, <2>2, <2>3 DEF AsideOK, InTurn
  <2>5. CoresOK' /\ MembersOK' /\ BordersOK' /\ ChainsOK'
    <3>1. todo' \cup Waiting' = (todo \cup Waiting) \ {q}
      BY <1>1, <2>2
    <3>2. p' = p \/ (p' = p + 1 /\ todo' = {} /\ Waiting' = {})
      BY <2>2, <2>3 DEF InTurn
    <3>3. QED
      BY <1>1, <1>7, <2>1, <3>1, <3>2, SettleOne
  <2>6. QED
    BY <1>1, <2>1, <2>2, <2>4, <2>5
<1>8. ASSUME p \notin inCore, ~Near(p, q) PROVE Kept
  <2>1. UNCHANGED <<uf, inCluster, inCore, neighbors>>
    BY <1>1, <1>8, VisitGeneralCases
  <2>2. p' = p \/ (p' = p + 1 /\ todo' = {} /\ ~InTurn')
    BY <1>1, <1>3, <2>1, EndTurnKeeps DEF InTurn
  <2>3. Waiting' = Waiting /\ Waiting = {h \in Found(p) \ todo' : Near(p, h)}
    BY <1>1, <1>3, <1>8, <2>1 DEF Waiting
  <2>4. AsideOK'
    <3>1. CASE p' = p
      BY <1>1, <1>2, <1>3, <1>8, <2>1, <2>3, <3>1 DEF AsideOK, Distinct
    <3>2. CASE ~InTurn'
      BY <3>2 DEF AsideOK, InTurn
    <3>3. QED
      BY <2>2, <3>1, <3>2
  <2>5. p' = p + 1 => p \notin Cores
    <3>1. SUFFICES ASSUME todo' = {} PROVE p \notin Cores
      BY <1>5, <2>2
    <3>2. Waiting = N
      BY <1>4, <2>3, <3>1
    <3>3. QED
      BY <1>1, <1>3, <1>8, <3>2, Counted
  <2>6. Arrays'
    BY <1>2, <2>1 DEF Arrays
  <2>7. CoresOK' /\ MembersOK' /\ BordersOK' /\ ChainsOK'
    BY <1>1, <1>8, <2>1, <2>2, <2>5, PassOver
  <2>8. QED
    BY <1>1, <2>1, <2>4, <2>6, <2>7
<1>9. ASSUME p \notin inCore, Near(p, q) PROVE Kept
  <2>1. /\ neighbors' = Append(neighbors, q) /\ uf' = uf
        /\ IF Len(neighbors') < input.minPoints THEN UNCHANGED <<inCluster, inCore>>
           ELSE inCluster' = inCluster \cup {p} /\ inCore' = inCore \cup {p}
    BY <1>1, <1>9, VisitGeneralCases
  <2>2. q \notin Waiting
    BY <1>3
  <2>3. /\ neighbors' \in Seq(Geoms) /\ Len(neighbors') = Len(neighbors) + 1
        /\ Waiting' = Waiting \cup {q} /\ Distinct(neighbors)'
    BY <1>1, <1>3, <2>1, <2>2, AppendElements DEF Waiting, Distinct
  <2>4. Waiting' = {h \in Found(p) \ todo' : Near(p, h)} /\ Waiting' \subseteq N
    BY <1>1, <1>3, <1>4, <1>9, <2>3
  <2>5. IsFiniteSet(Waiting) /\ Cardinality(Waiting') = Len(neighbors')
    BY <1>1, <1>3, <1>4, <1>9, <2>2, <2>3, Counted, FS_AddElement
  <2>6. Arrays'
    BY <1>2, <2>1 DEF Arrays
  <2>7. CASE Len(neighbors') < input.minPoints
    <3>1. UNCHANGED <<uf, inCluster, inCore>>
      BY <2>1, <2>7
    <3>2. p' = p \/ (p' = p + 1 /\ todo' = {} /\ ~InTurn')
      BY <1>1, <1>3, <3>1, EndTurnKeeps DEF InTurn
    <3>3. AsideOK'
      <4>1. CASE p' = p
        BY <1>1, <1>2, <1>9, <2>3, <2>4, <2>5, <2>7, <3>1, <4>1 DEF AsideOK
      <4>2. CASE ~InTurn'
        BY <4>2 DEF AsideOK, InTurn
      <4>3. QED
        BY <3>2, <4>1, <4>2
    <3>4. p' = p + 1 => p \notin Cores
      <4>1. SUFFICES ASSUME todo' = {} PROVE p \notin Cores
        BY <1>5, <3>2
      <4>2. Waiting' = N
        BY <1>4, <2>4, <4>1
      <4>3. QED
        BY <1>1, <2>5, <2>7, <4>2, Counted
    <3>5. CoresOK' /\ MembersOK' /\ BordersOK' /\ ChainsOK'
      BY <1>1, <1>9, <3>1, <3>2, <3>4, PassOver
    <3>6. QED
      BY <1>1, <2>3, <2>6, <3>1, <3>3, <3>5
  <2>8. CASE ~(Len(neighbors') < input.minPoints)
    <3>1. inCluster' = inCluster \cup {p} /\ inCore' = inCore \cup {p}
      BY <2>1, <2>8
    <3>2. p \in Cores
      BY <1>1, <1>5, <2>3, <2>4, <2>5, <2>8, Counted
    <3>3. neighbors' # <<>>
      BY <1>1, <2>1
    <3>4. p' = p
      BY <1>1, <1>3, <3>1, <3>3, EndTurnKeeps
    <3>5. AsideOK'
      BY <1>2, <2>3, <2>4, <3>1, <3>4 DEF AsideOK
    <3>6. \A x \in Geoms : Near(p, x) => x \in todo' \cup Waiting'
      BY <1>4, <2>4
    <3>7. CoresOK' /\ MembersOK' /\ BordersOK' /\ ChainsOK'
      BY <1>1, <1>9, <2>1, <3>1, <3>2, <3>4, <3>6, CoreAdded
    <3>8. QED
      BY <1>1, <2>3, <2>6, <3>1, <3>5, <3>7
  <2>9. QED
    BY <2>7, <2>8
<1>10. Kept
  BY <1>7, <1>8, <1>9
<1>11. TypeOK' /\ TurnOK' /\ p' # Done
  BY <1>1, <1>2, <1>3, <1>10, EndTurnKeeps DEF TypeOK
<1>12. QED
  BY <1>10, <1>11 DEF GeneralOK

\* A neighbour that is joined keeps the invariant of union_dbscan_general
LEMMA GeneralJoin ==
  ASSUME TypeOK, Arrays, TurnOK, GeneralOK, p # Done, ~Connected, Join
  PROVE  TypeOK' /\ Arrays' /\ p' # Done /\ TurnOK' /\ GeneralOK'
<1> DEFINE q == Head(neighbors)
           c == [uf |-> uf, inCluster |-> inCluster, inCore |-> inCore]
<1>1. /\ todo' = todo /\ input' = input /\ EndTurn /\ p \in inCore /\ neighbors # <<>>
      /\ neighbors' = Tail(neighbors) /\ Becomes(UnionIfAvailable(c, p, q))
  BY DEF Join, Joining, Dense, Clustered
<1>2. InTurn /\ p \in Geoms \ input.empty /\ neighbors \in Seq(Geoms)
  BY <1>1 DEF InTurn, TurnOK, TypeOK
<1>3. /\ Waiting \subseteq {h \in Found(p) \ todo : Near(p, h)} /\ Distinct(neighbors)
      /\ \A g \in inCore : g <= p
  BY <1>2 DEF GeneralOK, AsideOK, CoresOK
<1>4. /\ neighbors' \in Seq(Geoms) /\ q \in Waiting /\ Waiting' = Waiting \ {q}
      /\ Distinct(neighbors)'
  BY <1>1, <1>2, <1>3, TailElements DEF Waiting, Distinct
<1>5. q \in Geoms /\ q \notin todo /\ Near(p, q)
  BY <1>3, <1>4 DEF Found
<1>6. /\ Geoms' = Geoms /\ IsFiniteSet(Geoms) /\ \A g : Found(g)' = Found(g)
      /\ \A g, h : Near(g, h)' <=> Near(g, h)
  BY <1>1, SameInput, InputFacts DEF TypeOK
<1>7. UnionIfAvailable(c, p, q) =
        [uf |-> IF q \notin inCluster \/ q \in inCore THEN UF_union(uf, p, q) ELSE uf,
         inCluster |-> inCluster \cup {q}, inCore |-> inCore]
  BY UnionIfAvailableFields
<1> HIDE DEF c, q
<1>8. /\ uf' = IF q \notin inCluster \/ q \in inCore THEN UF_union(uf, p, q) ELSE uf
      /\ inCluster' = inCluster \cup {q} /\ inCore' = inCore
  BY <1>1, <1>7 DEF Becomes
<1>9. /\ Arrays'
      /\ \/ /\ \A g \in Geoms : Root(uf', g) = Root(uf, g)
            /\ inCluster' = inCluster
            /\ q \in inCluster \ inCore
         \/ /\ q \notin inCluster \/ q \in inCore
            /\ Merged(uf, uf', Geoms, p, q)
            /\ inCluster' = inCluster \cup {q}
  <2>1. CASE q \notin inCluster \/ q \in inCore
    BY <1>2, <1>5, <1>6, <1>8, <2>1, UnionMerges DEF Arrays
  <2>2. CASE q \in inCluster \ inCore
    BY <1>6, <1>8, <2>2 DEF Arrays
  <2>3. QED
    BY <2>1, <2>2
<1>10. /\ TurnOK' /\ p' # Done /\ p' \in 0 .. input.n
       /\ p' = p \/ (p' = p + 1 /\ ~InTurn')
       /\ p' = p <=> todo' # {} \/ (p \in inCore' /\ neighbors' # <<>>)
  BY <1>1, <1>2, <1>3, <1>8, EndTurnKeeps
<1>11. p' = p \/ (p' = p + 1 /\ todo' = {} /\ Waiting' = {})
  <2>1. neighbors' = <<>> => Waiting' = {}
    BY DEF Waiting, Elements
  <2>2. QED
    BY <1>1, <1>8, <1>10, <2>1 DEF InTurn
<1>12. CoresOK' /\ MembersOK' /\ BordersOK' /\ ChainsOK'
  <2>1. todo' \cup Waiting' = (todo \cup Waiting) \ {q}
    BY <1>1, <1>4, <1>5
  <2>2. QED
    BY <1>1, <1>5, <1>8, <1>9, <1>11, <2>1, SettleOne
<1>13. AsideOK'
  <2>1. CASE p' = p
    BY <1>1, <1>3, <1>4, <1>6, <1>8, <2>1 DEF AsideOK
  <2>2. CASE ~InTurn'
    BY <2>2 DEF AsideOK, InTurn
  <2>3. QED
    BY <1>10, <2>1, <2>2
<1>14. TypeOK'
  BY <1>1, <1>4, <1>5, <1>6, <1>8, <1>10 DEF TypeOK
<1>15. QED
  BY <1>9, <1>10, <1>12, <1>13, <1>14 DEF GeneralOK

\* The next turn begins, or an empty geometry, or one with too few boxes near it, is passed over
LEMMA GeneralSearch ==
  ASSUME TypeOK, Arrays, TurnOK, GeneralOK, p # Done, ~Connected, SkipEmpty \/ Query
  PROVE  TypeOK' /\ Arrays' /\ p' # Done /\ TurnOK' /\ GeneralOK'
<1>1. /\ p \in Geoms /\ todo = {} /\ p \notin inCore /\ ~InTurn /\ ~Bail
      /\ UNCHANGED <<input, uf, inCluster, inCore>>
      /\ \/ p \in input.empty /\ p' = p + 1 /\ todo' = {} /\ neighbors' = neighbors
         \/ /\ p \notin input.empty /\ p' = p + 1 /\ todo' = {} /\ neighbors' = <<>>
            /\ Cardinality(Found(p)) < input.minPoints
         \/ p \notin input.empty /\ p' = p /\ todo' = Found(p) /\ neighbors' = <<>>
  BY DEF SkipEmpty, Query, Searching, Joining, Dense, InTurn, TurnOK
<1>2. /\ p \in Nat /\ p + 1 # Done /\ p + 1 \in 0 .. input.n /\ p \in 0 .. input.n
      /\ input.minPoints \in Nat \ {0} /\ p + 1 # p
  BY <1>1, Position, InputFacts DEF TypeOK, Connected, Geoms
<1>3. /\ Geoms' = Geoms /\ (Bail' <=> Bail) /\ \A g : Found(g)' = Found(g)
      /\ \A g, h : Near(g, h)' <=> Near(g, h)
  BY <1>1, SameInput
<1>4. inCore \subseteq Geoms /\ \A c \in inCore : c <= p
  BY DEF TypeOK, GeneralOK, CoresOK
<1>5. p' = p + 1 => ~InTurn' /\ p' \notin inCore'
  <2>1. p + 1 \notin inCore
    BY <1>2, <1>4
  <2>2. QED
    BY <1>1, <1>2, <2>1 DEF InTurn
<1>6. TypeOK' /\ Arrays' /\ p' # Done
  <2>1. todo' \subseteq Geoms /\ neighbors' \in Seq(Geoms)
    <3>1. neighbors' = neighbors \/ neighbors' = <<>>
      BY <1>1
    <3>2. neighbors \in Seq(Geoms) /\ <<>> \in Seq(Geoms)
      BY DEF TypeOK
    <3>3. todo' \subseteq Geoms
      BY <1>1 DEF Found
    <3>4. QED
      BY <3>1, <3>2, <3>3
  <2>2. QED
    BY <1>1, <1>2, <1>3, <2>1 DEF TypeOK, Arrays
<1>7. TurnOK'
  <2>1. CASE p' = p + 1
    BY <1>1, <1>2, <1>5, <2>1 DEF TurnOK
  <2>2. CASE p' = p
    BY <1>1, <1>2, <1>3, <2>2 DEF TurnOK
  <2>3. QED
    BY <1>1, <2>1, <2>2
<1>8. AsideOK'
  <2>1. CASE p' = p + 1
    BY <1>1, <1>2, <1>5, <2>1 DEF AsideOK
  <2>2. CASE p' = p
    <3>1. todo' = Found(p)' /\ neighbors' = <<>>
      BY <1>1, <1>2, <1>3, <2>2
    <3>2. Waiting' = {} /\ Distinct(neighbors)' /\ Len(neighbors') = 0
      BY <3>1 DEF Waiting, Elements, Distinct
    <3>3. Cardinality(Waiting') = 0
      BY <3>2, FS_EmptySet
    <3>4. QED
      BY <1>1, <1>2, <3>1, <3>2, <3>3 DEF AsideOK
  <2>3. QED
    BY <1>1, <2>1, <2>2
<1>9. p' = p \/ (p' = p + 1 /\ p \notin Cores)
  <2>1. CASE p \in input.empty
    BY <1>1, <2>1 DEF Cores, Near
  <2>2. CASE p \notin input.empty /\ p' = p + 1
    <3> DEFINE N == {h \in Geoms : Near(p, h)}
    <3>1. N \subseteq Found(p)
      BY <1>1, NearFacts DEF TypeOK
    <3>2. IsFiniteSet(Found(p))
      BY InputFacts, FS_Subset DEF TypeOK, Found
    <3>3. IsFiniteSet(N) /\ Cardinality(N) <= Cardinality(Found(p))
      BY <3>1, <3>2, FS_Subset
    <3>4. Cardinality(N) \in Nat /\ Cardinality(Found(p)) \in Nat
      BY <3>2, <3>3, FS_CardinalityType
    <3>5. Cardinality(N) < input.minPoints
      BY <1>1, <1>2, <2>2, <3>3, <3>4
    <3>6. QED
      BY <1>1, <2>2, <3>5, Counted
  <2>3. QED
    BY <1>1, <2>1, <2>2
<1>10. CoresOK' /\ MembersOK' /\ BordersOK' /\ ChainsOK'
  BY <1>1, <1>9, PassOver
<1>11. QED
  BY <1>6, <1>7, <1>8, <1>10 DEF GeneralOK

-----------------------------------------------------------------------------
(* Connected geometries.                                                   *)

\* Where every geometry is dense, the cores are those that are not empty
LEMMA ConnectedFacts ==
  ASSUME TypeOK, Connected
  PROVE  Cores = Geoms \ input.empty
<1>1. ASSUME NEW g \in Geoms \ input.empty PROVE g \in Cores
  <2> DEFINE N == {h \in Geoms : Near(g, h)}
  <2>1. Near(g, g)
    BY DEF Near
  <2>2. IsFiniteSet(N) /\ N # {}
    BY <2>1, InputFacts, FS_Subset DEF TypeOK
  <2>3. Cardinality(N) \in Nat /\ Cardinality(N) # 0
    BY <2>2, FS_CardinalityType, FS_EmptySet
  <2>4. Cardinality(N) >= input.minPoints
    BY <2>3, InputFacts DEF Connected, TypeOK
  <2>5. QED
    BY <2>1, <2>4 DEF Cores
<1>2. QED
  BY <1>1 DEF Cores, Near

\* A neighbour that is joined keeps the invariant of union_intersecting_pairs
LEMMA ConnectedVisit ==
  ASSUME TypeOK, Arrays, TurnOK, ConnectedOK, p # Done, Connected, NEW q \in todo, Visit(q)
  PROVE  /\ TypeOK' /\ Arrays' /\ p' # Done /\ TurnOK' /\ ConnectedOK'
         /\ (\A g \in Geoms : Root(uf', g) = Root(uf, g)) \/ Merged(uf, uf', Geoms, p, q)
<1>1. /\ q \in Geoms /\ todo' = todo \ {q} /\ input' = input /\ EndTurn /\ InTurn
      /\ p \in Geoms \ input.empty /\ VisitConnected(q)
      /\ inCore = {} /\ neighbors = <<>> /\ inCluster = Geoms
  BY DEF Visit, InTurn, TurnOK, TypeOK, ConnectedOK, Connected
<1>2. /\ Geoms' = Geoms /\ Cores' = Cores /\ IsFiniteSet(Geoms)
      /\ \A g, h : (Near(g, h)' <=> Near(g, h)) /\ (Chained(g, h)' <=> Chained(g, h))
  BY <1>1, SameInput, InputFacts DEF TypeOK
<1> DEFINE u == UF_find(UF_find(uf, p), q)
           Merges == Root(uf, p) # Root(uf, q) /\ Near(p, q)
<1>3. /\ Compare(q) = [uf |-> u, inCluster |-> inCluster, inCore |-> inCore]
      /\ Forest(u, Geoms) /\ Sized(u, Geoms)
      /\ \A g \in Geoms : Root(u, g) = Root(uf, g)
  BY <1>1, CompareKeeps
<1> HIDE DEF u
<1>4. /\ uf' = IF Merges THEN UF_union(u, p, q) ELSE u
      /\ inCluster' = inCluster /\ inCore' = inCore /\ neighbors' = neighbors
  BY <1>1, <1>3 DEF VisitConnected, Becomes
<1>5. /\ Arrays'
      /\ \/ ~Merges /\ \A g \in Geoms : Root(uf', g) = Root(uf, g)
         \/ Merges /\ Merged(uf, uf', Geoms, p, q)
  <2>1. CASE Merges
    <3>1. Forest(uf', Geoms) /\ Sized(uf', Geoms) /\ Merged(u, uf', Geoms, p, q)
      BY <1>1, <1>2, <1>3, <1>4, <2>1, UnionMerges
    <3>2. Merged(uf, uf', Geoms, p, q)
      BY <1>1, <1>3, <3>1 DEF Merged
    <3>3. QED
      BY <1>2, <2>1, <3>1, <3>2 DEF Arrays
  <2>2. CASE ~Merges
    BY <1>2, <1>3, <1>4, <2>2 DEF Arrays
  <2>3. QED
    BY <2>1, <2>2
<1>6. /\ TurnOK' /\ p' # Done /\ p' \in 0 .. input.n
      /\ p' = p \/ (p' = p + 1 /\ ~InTurn')
      /\ p' = p <=> todo' # {} \/ (p \in inCore' /\ neighbors' # <<>>)
  BY <1>1, <1>4, EndTurnKeeps
<1>7. TypeOK'
  BY <1>1, <1>2, <1>4, <1>6 DEF TypeOK
<1>8. p \in Nat /\ Geoms \subseteq Nat
  BY Position DEF Geoms
<1>9. ASSUME NEW c \in Geoms, NEW x \in Geoms, Touched(c, x)'
      PROVE  Touched(c, x) \/ (c = p /\ x = q /\ Near(p, q))
  <2>1. Waiting = {} /\ Waiting' = {}
    BY <1>1, <1>4 DEF Waiting, Elements
  <2>2. CASE p' = p
    BY <1>1, <1>2, <1>9, <2>1, <2>2 DEF Touched
  <2>3. CASE p' = p + 1 /\ ~InTurn'
    <3>1. todo' = {} /\ (c < p' => c < p \/ c = p)
      BY <1>8, <2>3 DEF InTurn
    <3>2. QED
      BY <1>1, <1>2, <1>9, <2>1, <2>3, <3>1 DEF Touched
  <2>4. QED
    BY <1>6, <2>2, <2>3
<1>10. ASSUME NEW c \in Geoms, NEW x \in Geoms, Touched(c, x)'
       PROVE  Root(uf', c) = Root(uf', x)
  <2>1. CASE Touched(c, x)
    <3>1. Root(uf, c) = Root(uf, x)
      BY <2>1 DEF ConnectedOK, Together
    <3>2. QED
      BY <1>1, <1>5, <3>1, TogetherAfterMerge
  <2>2. CASE c = p /\ x = q /\ Near(p, q)
    BY <1>1, <1>5, <2>2, TogetherAfterMerge
  <2>3. QED
    BY <1>9, <1>10, <2>1, <2>2
<1>11. ASSUME NEW c \in Geoms, NEW x \in Geoms, Root(uf', c) = Root(uf', x), c # x
       PROVE  c \in Cores /\ x \in Cores /\ Chained(c, x)
  <2>1. CASE Root(uf, c) = Root(uf, x)
    BY <1>11, <2>1 DEF ConnectedOK, Together
  <2>2. CASE Root(uf, c) # Root(uf, x)
    <3>1. /\ Near(p, q) /\ Near(q, p) /\ p \in Cores /\ q \in Cores
      BY <1>1, <1>5, <1>11, <2>2, NearFacts, ConnectedFacts DEF TypeOK
    <3>2. Chained(p, q) /\ Chained(q, p)
      BY <3>1, ChainedReflexive, ChainedNear
    <3>3. ASSUME NEW e \in Geoms, NEW f \in Cores, Root(uf, e) = Root(uf, f)
          PROVE  e \in Cores /\ Chained(e, f) /\ Chained(f, e)
      <4>1. f \in Geoms
        BY DEF Cores
      <4>2. QED
        BY <3>3, <4>1, ChainedReflexive DEF ConnectedOK, Together
    <3>4. \/ Root(uf, c) = Root(uf, p) /\ Root(uf, x) = Root(uf, q)
          \/ Root(uf, c) = Root(uf, q) /\ Root(uf, x) = Root(uf, p)
      BY <1>1, <1>5, <1>11, <2>2, TogetherAfterMerge
    <3>5. QED
      BY <3>1, <3>2, <3>3, <3>4, ChainedTransitive
  <2>3. QED
    BY <2>1, <2>2
<1>12. ConnectedOK'
  <2>1. inCluster' = Geoms /\ inCore' = {} /\ neighbors' = <<>>
    BY <1>1, <1>4
  <2>2. QED
    BY <1>2, <1>10, <1>11, <2>1 DEF ConnectedOK, Together
<1>13. QED
  BY <1>5, <1>6, <1>7, <1>12

\* A search, or an empty geometry, keeps the invariant of union_intersecting_pairs
LEMMA ConnectedSearch ==
  ASSUME TypeOK, Arrays, TurnOK, ConnectedOK, p # Done, Connected, SkipEmpty \/ Query
  PROVE  TypeOK' /\ Arrays' /\ p' # Done /\ TurnOK' /\ ConnectedOK'
<1>1. /\ p \in Geoms /\ todo = {} /\ ~InTurn /\ ~Bail
      /\ UNCHANGED <<input, uf, inCluster, inCore>>
      /\ inCore = {} /\ inCluster = Geoms /\ neighbors = <<>> /\ neighbors' = <<>>
      /\ \/ p \in input.empty /\ p' = p + 1 /\ todo' = {}
         \/ p \notin input.empty /\ Cardinality(Found(p)) < input.minPoints
         \/ p \notin input.empty /\ p' = p /\ todo' = Found(p)
  BY DEF SkipEmpty, Query, Searching, InTurn, ConnectedOK
<1>2. ~(p \notin input.empty /\ Cardinality(Found(p)) < input.minPoints)
  <2>1. SUFFICES ASSUME p \notin input.empty PROVE ~(Cardinality(Found(p)) < input.minPoints)
    OBVIOUS
  <2>2. p \in Found(p) /\ IsFiniteSet(Found(p))
    BY <1>1, <2>1, InputFacts, FS_Subset DEF Found, TypeOK
  <2>3. Cardinality(Found(p)) \in Nat /\ Cardinality(Found(p)) # 0
    BY <2>2, FS_CardinalityType, FS_EmptySet
  <2>4. QED
    BY <2>3, InputFacts DEF Connected, TypeOK
<1>3. /\ p \in Nat /\ p + 1 # Done /\ p + 1 \in 0 .. input.n /\ p \in 0 .. input.n
      /\ p + 1 # p /\ Geoms \subseteq Nat
  BY <1>1, Position, InputFacts DEF TypeOK, Geoms
<1>4. /\ Geoms' = Geoms /\ Cores' = Cores /\ (Bail' <=> Bail) /\ \A g : Found(g)' = Found(g)
      /\ \A g, h : (Near(g, h)' <=> Near(g, h)) /\ (Chained(g, h)' <=> Chained(g, h))
  BY <1>1, SameInput
<1>5. TypeOK' /\ Arrays' /\ p' # Done
  <2>1. todo' \subseteq Geoms
    BY <1>1, <1>2 DEF Found
  <2>2. neighbors' \in Seq(Geoms)
    BY <1>1 DEF TypeOK
  <2>3. QED
    BY <1>1, <1>2, <1>3, <1>4, <2>1, <2>2 DEF TypeOK, Arrays
<1>6. TurnOK'
  <2>1. CASE p' = p + 1 /\ todo' = {}
    BY <1>1, <2>1 DEF TurnOK, InTurn
  <2>2. CASE p \notin input.empty /\ p' = p /\ todo' = Found(p)
    BY <1>1, <1>4, <2>2 DEF TurnOK
  <2>3. QED
    BY <1>1, <1>2, <2>1, <2>2
<1>7. ASSUME NEW c \in Geoms, NEW x \in Geoms, Touched(c, x)' PROVE Touched(c, x)
  <2>1. Near(c, x) /\ c \notin input.empty /\ x \in Found(c)
    BY <1>4, <1>7, NearFacts DEF Touched, TypeOK
  <2>2. CASE p \in input.empty /\ p' = p + 1 /\ todo' = {}
    <3>1. c < p' => c < p \/ c = p
      BY <1>3, <2>2
    <3>2. ~InTurn'
      BY <1>1, <2>2 DEF InTurn
    <3>3. QED
      BY <1>7, <2>1, <2>2, <3>1, <3>2 DEF Touched
  <2>3. CASE p' = p /\ todo' = Found(p)
    BY <1>7, <2>1, <2>3 DEF Touched
  <2>4. QED
    BY <1>1, <1>2, <2>2, <2>3
<1>8. ConnectedOK'
  BY <1>1, <1>4, <1>7 DEF ConnectedOK, Together
<1>9. QED
  BY <1>5, <1>6, <1>8

-----------------------------------------------------------------------------
(* The numbers.                                                            *)

\* Assign numbers the members, and two alike if and only if they are together
LEMMA AssignNumbers ==
  ASSUME TypeOK, Arrays, Assign
  PROVE  /\ Arrays' /\ IdsNameClusters' /\ \A g \in Geoms : Root(uf', g) = Root(uf, g)
         /\ DOMAIN ids' = inCluster \ input.null
         /\ \A g, h \in DOMAIN ids' : ids'[g] = ids'[h] <=> Together(g, h)
<1> DEFINE T == {Root(uf, h) : h \in inCluster}
           rank(r) == Cardinality({x \in T : x < r})
<1>1. /\ p' = Done /\ input' = input /\ inCluster' = inCluster
      /\ uf' = [uf EXCEPT !.clusters = [g \in Geoms |-> Root(uf, g)]]
  BY DEF Assign
<1>2. Geoms' = Geoms /\ Geoms \subseteq Nat /\ IsFiniteSet(Geoms) /\ inCluster \subseteq Geoms
  BY <1>1, SameInput, InputFacts DEF TypeOK, Geoms
<1>3. Forest(uf', Geoms) /\ Sized(uf', Geoms) /\ \A g \in Geoms : Root(uf', g) = Root(uf, g)
  BY <1>1, FlattenKeepsRoots DEF Arrays
<1>4. /\ \A g \in Geoms : Root(uf, g) \in Geoms /\ Root(uf, Root(uf, g)) = Root(uf, g)
      /\ \A g \in Geoms : uf'.clusters[Root(uf, g)] = Root(uf, g)
  BY <1>3, RootFacts, RootOfRoot DEF Arrays
<1>5. T \subseteq Geoms /\ T \subseteq Nat /\ IsFiniteSet(T) /\ T \in SUBSET Roots(uf', Geoms)
  <2>1. T \subseteq Geoms /\ \A r \in T : uf'.clusters[r] = r
    BY <1>2, <1>4
  <2> HIDE DEF T
  <2>2. IsFiniteSet(T)
    BY <1>2, <2>1, FS_Subset
  <2>3. QED
    BY <1>2, <2>1, <2>2 DEF Roots
<1>6. /\ DOMAIN ids' = inCluster \ input.null
      /\ \A g \in inCluster \ input.null : ids'[g] = rank(Root(uf, g))
  BY DEF Assign, Collapsed
<1>7. /\ \A r \in T : rank(r) \in 0 .. Cardinality(T) - 1
      /\ \A r, s \in T : rank(r) = rank(s) => r = s
      /\ {rank(r) : r \in T} = 0 .. Cardinality(T) - 1
  <2> HIDE DEF T
  <2>1. QED
    BY <1>5, RanksAreDense
<1>8. \A g, h \in inCluster : rank(Root(uf, g)) = rank(Root(uf, h)) <=> Root(uf, g) = Root(uf, h)
  BY <1>7
<1> DEFINE named == {B \in Blocks' : B \cap inCluster # {}}
<1>9. Cardinality(named) = Cardinality(T)
  <2>1. Blocks' = {Block(uf', Geoms, Root(uf', g)) : g \in Geoms}
    BY <1>2 DEF Blocks, Block
  <2>2. named = {Block(uf', Geoms, r) : r \in T}
    <3>1. ASSUME NEW B \in named PROVE \E r \in T : B = Block(uf', Geoms, r)
      <4>1. PICK g \in Geoms : B = Block(uf', Geoms, Root(uf', g))
        BY <2>1
      <4>2. PICK h \in inCluster : h \in B
        OBVIOUS
      <4>3. Root(uf', g) = Root(uf, h)
        BY <1>2, <1>3, <4>1, <4>2 DEF Block
      <4>4. QED
        BY <4>1, <4>3
    <3>2. ASSUME NEW h \in inCluster PROVE Block(uf', Geoms, Root(uf, h)) \in named
      <4>1. h \in Block(uf', Geoms, Root(uf, h)) /\ Root(uf, h) = Root(uf', h)
        BY <1>2, <1>3 DEF Block
      <4>2. QED
        BY <1>2, <2>1, <4>1
    <3> HIDE DEF named
    <3>3. QED
      BY <3>1, <3>2
  <2>3. QED
    BY <1>2, <1>3, <1>5, <2>2, BlocksOfRoots
<1>10. Cardinality(T) \in Nat
  BY <1>5, FS_CardinalityType
<1> HIDE DEF T, rank, named
<1>11. IdsNameClusters'
  <2>1. \A g, h \in DOMAIN ids' : ids'[g] = ids'[h] <=> Root(uf', g) = Root(uf', h)
    BY <1>2, <1>3, <1>6, <1>8
  <2>2. \A g \in DOMAIN ids' : ids'[g] \in 0 .. Cardinality(T) - 1
    BY <1>6, <1>7 DEF T
  <2>3. \A g \in DOMAIN ids' : ids'[g] < Cardinality(named)
    BY <1>9, <1>10, <2>2
  <2>4. input.null = {} => {ids'[g] : g \in DOMAIN ids'} = 0 .. Cardinality(named) - 1
    <3>1. SUFFICES ASSUME input.null = {}
                   PROVE  {ids'[g] : g \in inCluster} = {rank(r) : r \in T}
      BY <1>6, <1>7, <1>9
    <3>2. \A g \in inCluster : ids'[g] = rank(Root(uf, g))
      BY <1>6, <3>1
    <3>3. QED
      BY <3>2 DEF T
  <2>5. QED
    BY <1>1, <2>1, <2>3, <2>4 DEF IdsNameClusters, named
<1>12. QED
  BY <1>2, <1>3, <1>6, <1>8, <1>11 DEF Arrays, Together

\* The definition of the clusters, for what the loops leave
LEMMA ClustersAreRight ==
  ASSUME TypeOK, Arrays, Assign, inCluster \subseteq Geoms,
         NEW alone,
         alone = IF Connected THEN input.empty \ input.null ELSE {},
         inCluster \ input.null = {g \in Geoms : \E c \in Cores : Near(c, g)} \cup alone,
         \A c, d \in Cores : Near(c, d) => Together(c, d),
         \A c, d \in Cores : Together(c, d) => Chained(c, d),
         \A g \in inCluster \ (input.null \cup Cores \cup alone) :
           \E c \in Cores : Near(c, g) /\ Together(g, c),
         \A e \in alone, g \in Geoms : Together(e, g) => e = g
  PROVE  ClustersAreDensityConnected'
<1>1. /\ DOMAIN ids' = inCluster \ input.null
      /\ \A g, h \in DOMAIN ids' : ids'[g] = ids'[h] <=> Together(g, h)
  BY AssignNumbers
<1>2. /\ input' = input /\ Geoms' = Geoms /\ Cores' = Cores /\ (Connected' <=> Connected)
      /\ \A g, h : (Near(g, h)' <=> Near(g, h)) /\ (Chained(g, h)' <=> Chained(g, h))
  BY SameInput DEF Assign
<1>3. Cores \subseteq Geoms /\ Cores \subseteq DOMAIN ids'
  BY <1>1 DEF Cores
<1>4. ASSUME NEW c \in Cores, NEW d \in Cores PROVE ids'[c] = ids'[d] <=> Chained(c, d)
  <2>1. Chained(c, d) => Together(c, d)
    <3> DEFINE S == {x \in Cores : Together(c, x)}
    <3>1. c \in S /\ \A g \in S, h \in Cores : Near(g, h) => h \in S
      BY DEF Together
    <3>2. S \in SUBSET Cores
      OBVIOUS
    <3>3. Chained(c, d) => d \in S
      <4> HIDE DEF S
      <4>1. QED
        BY <3>1, <3>2 DEF Chained
    <3>4. QED
      BY <3>3
  <2>2. QED
    BY <1>1, <1>3, <2>1
<1>5. ASSUME NEW g \in DOMAIN ids' \ (Cores \cup alone)
      PROVE  \E c \in Cores : Near(c, g) /\ ids'[g] = ids'[c]
  BY <1>1, <1>3
<1>6. ASSUME NEW e \in alone, NEW g \in DOMAIN ids', ids'[e] = ids'[g] PROVE e = g
  BY <1>1, <1>6
<1>7. QED
  BY <1>1, <1>2, <1>4, <1>5, <1>6 DEF ClustersAreDensityConnected, Connected

\* What union_dbscan_general has joined at the end are the clusters of the definition
LEMMA GeneralResult ==
  ASSUME TypeOK, Arrays, TurnOK, GeneralOK, p # Done, ~Connected, Assign
  PROVE  ClustersAreDensityConnected'
<1>1. Geoms \subseteq Nat /\ Cores \subseteq Geoms /\ IsFiniteSet(Geoms) /\ input.n \in Nat
  BY InputFacts DEF Geoms, Cores, TypeOK
<1>2. /\ inCore = Cores
      /\ inCluster = {g \in Geoms : \E c \in Cores : Near(c, g)}
      /\ \A c, d \in Cores : Near(c, d) => Together(c, d)
  <2>1. CASE Bail
    <3>1. input.n < input.minPoints
      BY <2>1 DEF Bail, Connected
    <3>2. ASSUME NEW g \in Geoms PROVE g \notin Cores
      <4> DEFINE N == {h \in Geoms : Near(g, h)}
      <4>1. IsFiniteSet(N) /\ Cardinality(N) <= input.n /\ Cardinality(Geoms) = input.n
        BY InputFacts, FS_Subset DEF TypeOK
      <4>2. Cardinality(N) \in Nat /\ input.minPoints \in Nat
        BY <4>1, FS_CardinalityType, InputFacts DEF TypeOK
      <4>3. ~(Cardinality(N) >= input.minPoints)
        BY <1>1, <3>1, <4>1, <4>2
      <4>4. QED
        BY <4>3 DEF Cores
    <3>3. Cores = {} /\ inCore = {}
      BY <1>1, <3>2 DEF GeneralOK, CoresOK
    <3>4. QED
      BY <3>3 DEF GeneralOK, MembersOK
  <2>2. CASE p = input.n
    <3>1. \A c \in Cores : c < p /\ c \in inCore
      BY <1>1, <2>2 DEF Geoms, GeneralOK, CoresOK
    <3>2. inCore = Cores
      BY <3>1 DEF GeneralOK, CoresOK
    <3>3. \A c \in Cores, x \in Geoms : Touched(c, x) <=> Near(c, x)
      BY <3>1 DEF Touched
    <3>4. inCluster = {g \in Geoms : \E c \in Cores : Near(c, g)}
      BY <3>2, <3>3 DEF GeneralOK, MembersOK
    <3>5. ASSUME NEW c \in Cores, NEW d \in Cores, Near(c, d) PROVE Together(c, d)
      <4>1. Touched(c, d) /\ Touched(d, c)
        BY <1>1, <3>3, <3>5, NearFacts DEF TypeOK
      <4>2. c < d \/ d < c \/ c = d
        BY <1>1
      <4>3. QED
        BY <3>2, <4>1, <4>2 DEF GeneralOK, ChainsOK, Together
    <3>6. QED
      BY <3>2, <3>4, <3>5
  <2>3. QED
    BY <2>1, <2>2 DEF Assign
<1>3. \A g \in inCluster : g \notin input.null
  BY <1>1, <1>2, NearFacts, InputFacts DEF TypeOK
<1>4. \A g \in inCluster \ Cores : \E c \in Cores : Near(c, g) /\ Together(g, c)
  BY <1>2 DEF GeneralOK, BordersOK, Together
<1>5. \A c, d \in Cores : Together(c, d) => Chained(c, d)
  BY <1>2 DEF GeneralOK, ChainsOK
<1>6. inCluster \subseteq Geoms
  BY DEF TypeOK
<1> DEFINE alone == {}
<1>7. /\ alone = IF Connected THEN input.empty \ input.null ELSE {}
      /\ inCluster \ input.null = {g \in Geoms : \E c \in Cores : Near(c, g)} \cup alone
      /\ \A g \in inCluster \ (input.null \cup Cores \cup alone) :
           \E c \in Cores : Near(c, g) /\ Together(g, c)
      /\ \A e \in alone, g \in Geoms : Together(e, g) => e = g
  BY <1>2, <1>3, <1>4
<1> HIDE DEF alone
<1>8. QED
  BY <1>2, <1>5, <1>6, <1>7, ClustersAreRight

\* What union_intersecting_pairs has joined at the end are the connected components
LEMMA ConnectedResult ==
  ASSUME TypeOK, Arrays, TurnOK, ConnectedOK, p # Done, Connected, Assign
  PROVE  ClustersAreDensityConnected'
<1> DEFINE alone == input.empty \ input.null
<1>1. /\ Geoms \subseteq Nat /\ Cores = Geoms \ input.empty /\ input.null \subseteq input.empty
      /\ input.empty \subseteq Geoms /\ input.n \in Nat /\ input.minPoints \in Nat
      /\ inCluster = Geoms
  BY InputFacts, ConnectedFacts DEF Geoms, TypeOK, ConnectedOK
<1>2. ASSUME NEW c \in Cores, NEW d \in Cores, Near(c, d) PROVE Together(c, d)
  <2>1. CASE Bail
    <3>1. c = d
      BY <1>1, <2>1 DEF Bail, Connected, Geoms
    <3>2. QED
      BY <3>1 DEF Together
  <2>2. CASE p = input.n
    <3>1. c < p
      BY <1>1, <2>2 DEF Geoms
    <3>2. QED
      BY <1>1, <1>2, <3>1 DEF ConnectedOK, Touched
  <2>3. QED
    BY <2>1, <2>2 DEF Assign
<1>3. Geoms \ input.null = {g \in Geoms : \E c \in Cores : Near(c, g)} \cup alone
  <2>1. \A g \in Geoms \ input.empty : Near(g, g)
    BY DEF Near
  <2>2. \A g \in Geoms, c \in Cores : Near(c, g) => g \notin input.empty
    BY <1>1, NearFacts DEF TypeOK
  <2>3. QED
    BY <1>1, <2>1, <2>2
<1>4. \A c, d \in Cores : Together(c, d) => Chained(c, d)
  BY <1>1, ChainedReflexive DEF ConnectedOK
<1>5. \A e \in alone, g \in Geoms : Together(e, g) => e = g
  BY <1>1 DEF ConnectedOK
<1>6. QED
  BY <1>1, <1>2, <1>3, <1>4, <1>5, ClustersAreRight
-----------------------------------------------------------------------------
(* Any state.                                                              *)

\* When nothing is clustered yet, every row is alone
LEMMA InitialState ==
  ASSUME Init
  PROVE  Inv
<1>1. /\ input \in Inputs /\ uf = UF_create(input.n) /\ inCore = {}
      /\ inCluster = IF Connected THEN Geoms ELSE {}
      /\ p = 0 /\ todo = {} /\ neighbors = <<>>
  BY DEF Init, Connected
<1>2. /\ input.n \in Nat /\ input.minPoints \in Nat /\ Geoms = 0 .. input.n - 1
      /\ p \in 0 .. input.n /\ p # Done /\ ~InTurn
  BY <1>1, InputFacts, DoneIsNoGeometry DEF Geoms, InTurn
<1>3. Arrays /\ \A g \in Geoms : Root(uf, g) = g
  BY <1>1, <1>2, CreateForest, CreateSized DEF Arrays
<1>4. TypeOK
  BY <1>1, <1>2 DEF TypeOK
<1>5. TurnOK
  BY <1>1, <1>2 DEF TurnOK
<1>6. Waiting = {} /\ Elements(neighbors) = {}
  BY <1>1 DEF Waiting, Elements
<1>7. \A c, q \in Geoms : ~(Touched(c, q) /\ c # q)
  BY <1>1, <1>2 DEF Touched, InTurn
<1>8. ASSUME Connected PROVE ConnectedOK
  <2>1. \A c, q \in Geoms : Touched(c, q) => Together(c, q)
    BY <1>3, <1>7 DEF Together
  <2>2. \A c, q \in Geoms : Together(c, q) => c = q
    BY <1>3 DEF Together
  <2>3. QED
    BY <1>1, <1>8, <2>1, <2>2 DEF ConnectedOK
<1>9. ASSUME ~Connected PROVE GeneralOK
  <2>1. CoresOK
    <3>1. Cores \subseteq Geoms
      BY DEF Cores
    <3>2. \A c \in Cores : ~(c < p)
      BY <1>1, <1>2, <3>1
    <3>3. QED
      BY <1>1, <3>2 DEF CoresOK
  <2>2. AsideOK
    BY <1>1, <1>2 DEF AsideOK
  <2>3. MembersOK /\ BordersOK /\ ChainsOK
    BY <1>1, <1>3, <1>9 DEF MembersOK, BordersOK, ChainsOK, Together
  <2>4. QED
    BY <2>1, <2>2, <2>3 DEF GeneralOK
<1>10. ClustersAreDensityConnected /\ IdsNameClusters
  BY <1>2 DEF ClustersAreDensityConnected, IdsNameClusters
<1>11. IF Connected THEN ConnectedOK ELSE GeneralOK
  BY <1>8, <1>9
<1>12. QED
  BY <1>1, <1>2, <1>3, <1>4, <1>5, <1>10, <1>11 DEF Inv

\* While the loops run the results are not there yet
LEMMA RunningStep ==
  ASSUME Inv, p # Done, SkipEmpty \/ Query \/ (\E q \in Geoms : Visit(q)) \/ Join
  PROVE  Inv'
<1>1. /\ TypeOK /\ Arrays /\ TurnOK
      /\ Connected => ConnectedOK
      /\ ~Connected => GeneralOK
  BY DEF Inv
<1>2. (Connected' <=> Connected)
  BY SameInput DEF SkipEmpty, Query, Visit, Join
<1>3. /\ TypeOK' /\ Arrays' /\ p' # Done /\ TurnOK'
      /\ IF Connected THEN ConnectedOK' ELSE GeneralOK'
  <2>1. (\E q \in Geoms : Visit(q)) => \E q \in todo : Visit(q)
    BY DEF Visit
  <2>2. CASE Connected
    <3>1. ConnectedOK /\ ~Join
      BY <1>1, <2>2 DEF ConnectedOK, Join, Joining, Dense
    <3>2. CASE SkipEmpty \/ Query
      BY <1>1, <2>2, <3>1, <3>2, ConnectedSearch
    <3>3. CASE \E q \in Geoms : Visit(q)
      <4>1. PICK q \in todo : Visit(q)
        BY <2>1, <3>3
      <4>2. TypeOK' /\ Arrays' /\ p' # Done /\ TurnOK' /\ ConnectedOK'
        BY <1>1, <2>2, <3>1, <4>1, ConnectedVisit
      <4>3. QED
        BY <2>2, <4>2
    <3>4. QED
      BY <3>1, <3>2, <3>3
  <2>3. CASE ~Connected
    <3>1. GeneralOK
      BY <1>1, <2>3
    <3>2. CASE SkipEmpty \/ Query
      BY <1>1, <2>3, <3>1, <3>2, GeneralSearch
    <3>3. CASE \E q \in Geoms : Visit(q)
      <4>1. PICK q \in todo : Visit(q)
        BY <2>1, <3>3
      <4>2. TypeOK' /\ Arrays' /\ p' # Done /\ TurnOK' /\ GeneralOK'
        BY <1>1, <2>3, <3>1, <4>1, GeneralVisit
      <4>3. QED
        BY <2>3, <4>2
    <3>4. CASE Join
      BY <1>1, <2>3, <3>1, <3>4, GeneralJoin
    <3>5. QED
      BY <3>2, <3>3, <3>4
  <2>4. QED
    BY <2>2, <2>3
<1>4. ClustersAreDensityConnected' /\ IdsNameClusters'
  BY <1>3 DEF ClustersAreDensityConnected, IdsNameClusters
<1>5. QED
  BY <1>2, <1>3, <1>4 DEF Inv

\* The last step leaves the clusters, by their numbers
LEMMA LastStep ==
  ASSUME Inv, Assign
  PROVE  Inv'
<1>1. /\ TypeOK /\ Arrays /\ TurnOK /\ p # Done
      /\ Connected => ConnectedOK
      /\ ~Connected => GeneralOK
  BY DEF Inv, Assign
<1>2. /\ p' = Done /\ todo' = {} /\ input' = input /\ neighbors' = neighbors
      /\ inCluster' = inCluster /\ inCore' = inCore
  BY DEF Assign
<1>3. TypeOK'
  BY <1>1, <1>2, SameInput DEF TypeOK
<1>4. Arrays' /\ IdsNameClusters'
  BY <1>1, AssignNumbers
<1>5. ClustersAreDensityConnected'
  BY <1>1, GeneralResult, ConnectedResult
<1>6. QED
  BY <1>2, <1>3, <1>4, <1>5 DEF Inv

\* Each step keeps the invariant
LEMMA NextKeepsInv ==
  ASSUME Inv, [Next]_vars
  PROVE  Inv'
<1>1. CASE UNCHANGED vars
  <2>1. /\ input' = input /\ uf' = uf /\ inCluster' = inCluster /\ inCore' = inCore
        /\ p' = p /\ todo' = todo /\ neighbors' = neighbors /\ ids' = ids
    BY <1>1 DEF vars
  <2>2. /\ Geoms' = Geoms /\ Cores' = Cores /\ (Connected' <=> Connected) /\ (Bail' <=> Bail)
        /\ \A g : Found(g)' = Found(g)
        /\ \A g, h : (Near(g, h)' <=> Near(g, h)) /\ (Chained(g, h)' <=> Chained(g, h))
    BY <2>1, SameInput
  <2>3. (TypeOK' <=> TypeOK) /\ (Arrays' <=> Arrays) /\ (TurnOK' <=> TurnOK) /\ Waiting' = Waiting
    BY <2>1, <2>2 DEF TypeOK, Arrays, TurnOK, InTurn, Waiting
  <2>4. /\ \A c, q : Touched(c, q)' <=> Touched(c, q)
        /\ \A c, q : Together(c, q)' <=> Together(c, q)
    BY <2>1, <2>2, <2>3 DEF Touched, Together, InTurn
  <2>5. ConnectedOK' <=> ConnectedOK
    BY <2>1, <2>2, <2>4 DEF ConnectedOK
  <2>6. (CoresOK' <=> CoresOK) /\ (AsideOK' <=> AsideOK)
    BY <2>1, <2>2, <2>3 DEF CoresOK, AsideOK, InTurn
  <2>7. (MembersOK' <=> MembersOK) /\ (BordersOK' <=> BordersOK) /\ (ChainsOK' <=> ChainsOK)
    BY <2>1, <2>2, <2>4 DEF MembersOK, BordersOK, ChainsOK
  <2>8. ClustersAreDensityConnected => ClustersAreDensityConnected'
    BY <2>1, <2>2 DEF ClustersAreDensityConnected
  <2>9. Blocks' = Blocks
    BY <2>1, <2>2 DEF Blocks
  <2>10. IdsNameClusters => IdsNameClusters'
    BY <2>1, <2>2, <2>9 DEF IdsNameClusters
  <2>11. QED
    BY <2>1, <2>2, <2>3, <2>5, <2>6, <2>7, <2>8, <2>10 DEF Inv, GeneralOK
<1>2. CASE p = Done
  <2>1. p \notin Geoms /\ p \notin inCore /\ todo = {}
    <3>1. input \in Inputs /\ inCore \subseteq Geoms /\ todo = {}
      BY <1>2 DEF Inv, TypeOK
    <3>2. Geoms \subseteq Nat
      BY <3>1, InputFacts DEF Geoms
    <3>3. QED
      BY <1>2, <3>1, <3>2, DoneIsNoGeometry
  <2>2. ~Next
    BY <1>2, <2>1 DEF Next, SkipEmpty, Query, Searching, Visit, Join, Joining, Dense, Assign
  <2>3. QED
    BY <1>1, <2>2
<1>3. CASE p # Done /\ Next
  BY <1>3, RunningStep, LastStep DEF Next
<1>4. QED
  BY <1>1, <1>2, <1>3

-----------------------------------------------------------------------------
(* Theorems.                                                               *)

\* The union-find, the members, the cores and what is set aside are as they should be in any
\* state of union_dbscan_general and union_dbscan_minpoints_1
THEOREM ClusteringIsSound == Spec => []Inv
<1>1. Init => Inv
  BY InitialState
<1>2. Inv /\ [Next]_vars => Inv'
  BY NextKeepsInv
<1>3. QED
  BY <1>1, <1>2, PTL DEF Spec

\* Cores of a cluster are linked by cores, borders are at a core, and nothing else is in a
\* cluster, whatever the order of the rows and of what the index finds
THEOREM ClustersAreThoseOfTheDefinition == Spec => []ClustersAreDensityConnected
<1>1. Inv => ClustersAreDensityConnected
  BY DEF Inv
<1>2. QED
  BY <1>1, ClusteringIsSound, PTL

\* UF_get_collapsed_cluster_ids numbers the clusters from 0, each by its own number
THEOREM NumbersNameClusters == Spec => []IdsNameClusters
<1>1. Inv => IdsNameClusters
  BY DEF Inv
<1>2. QED
  BY <1>1, ClusteringIsSound, PTL
-----------------------------------------------------------------------------
(* The sets of the union-find.                                             *)

\* The blocks are those of the roots
LEMMA BlocksAreOfRoots ==
  ASSUME TypeOK, Arrays
  PROVE  /\ Blocks = {Block(uf, Geoms, Root(uf, g)) : g \in Geoms}
         /\ Blocks = {Block(uf, Geoms, r) : r \in Roots(uf, Geoms)}
<1>1. Blocks = {Block(uf, Geoms, Root(uf, g)) : g \in Geoms}
  BY DEF Blocks, Block
<1>2. \A g \in Geoms : Root(uf, g) \in Roots(uf, Geoms)
  BY RootFacts DEF Arrays, Roots
<1>3. \A r \in Roots(uf, Geoms) : r \in Geoms /\ Root(uf, r) = r
  BY RootOfNext DEF Arrays, Roots
<1>4. QED
  BY <1>1, <1>2, <1>3

\* A step leaves the sets as they are, or one goes into another
LEMMA StepMoves ==
  ASSUME Inv, Next
  PROVE  /\ input' = input
         /\ \/ \A g \in Geoms : Root(uf', g) = Root(uf, g)
            \/ \E i, j \in Geoms : Merged(uf, uf', Geoms, i, j)
<1>1. input' = input
  BY DEF Next, SkipEmpty, Query, Visit, Join, Assign
<1>2. /\ TypeOK /\ Arrays /\ IsFiniteSet(Geoms)
      /\ p # Done => TurnOK /\ IF Connected THEN ConnectedOK ELSE GeneralOK
  BY InputFacts DEF Inv, TypeOK
<1>3. CASE SkipEmpty \/ Query
  BY <1>1, <1>3 DEF SkipEmpty, Query
<1>4. CASE Assign
  BY <1>1, <1>2, <1>4, AssignNumbers
<1>5. ASSUME NEW q \in Geoms, Visit(q)
      PROVE  \/ \A g \in Geoms : Root(uf', g) = Root(uf, g)
             \/ \E i, j \in Geoms : Merged(uf, uf', Geoms, i, j)
  <2>1. q \in todo /\ p # Done /\ TurnOK /\ p \in Geoms
    BY <1>2, <1>5 DEF Visit, Inv, TurnOK, InTurn
  <2>2. CASE Connected
    BY <1>2, <1>5, <2>1, <2>2, ConnectedVisit
  <2>3. CASE ~Connected
    BY <1>2, <1>5, <2>1, <2>3, VisitGeneralCases
  <2>4. QED
    BY <2>2, <2>3
<1>6. CASE Join
  <2> DEFINE q == Head(neighbors)
             c == [uf |-> uf, inCluster |-> inCluster, inCore |-> inCore]
  <2>1. p \in inCore /\ neighbors # <<>> /\ Becomes(UnionIfAvailable(c, p, q))
    BY <1>6 DEF Join, Joining, Dense, Clustered
  <2>2. p \in Geoms /\ q \in Geoms
    BY <1>2, <2>1 DEF TypeOK
  <2>3. UnionIfAvailable(c, p, q) =
          [uf |-> IF q \notin inCluster \/ q \in inCore THEN UF_union(uf, p, q) ELSE uf,
           inCluster |-> inCluster \cup {q}, inCore |-> inCore]
    BY UnionIfAvailableFields
  <2> HIDE DEF c, q
  <2>4. uf' = UF_union(uf, p, q) \/ uf' = uf
    BY <2>1, <2>3 DEF Becomes
  <2>5. Merged(uf, UF_union(uf, p, q), Geoms, p, q)
    BY <1>2, <2>2, UnionMerges DEF Arrays
  <2>6. QED
    BY <1>1, <2>2, <2>4, <2>5
<1>7. QED
  BY <1>1, <1>3, <1>4, <1>5, <1>6 DEF Next

\* A block that goes into another is a merge of the partition
LEMMA MergedIsMerge ==
  ASSUME TypeOK, Arrays, Arrays', TypeOK', input' = input,
         NEW i \in Geoms, NEW j \in Geoms, Merged(uf, uf', Geoms, i, j)
  PROVE  P!Next
<1>1. Geoms' = Geoms
  BY SameInput
<1>2. PICK a, b \in Geoms :
        /\ (a = Root(uf, i) /\ b = Root(uf, j)) \/ (a = Root(uf, j) /\ b = Root(uf, i))
        /\ \A k \in Geoms : Root(uf', k) = IF Root(uf, k) = a THEN b ELSE Root(uf, k)
  BY DEF Merged
<1> DEFINE B(r) == Block(uf, Geoms, r)
           S == {B(a), B(b)}
<1>3. Root(uf, a) = a /\ Root(uf, b) = b
  BY <1>2, RootOfRoot DEF Arrays
<1>4. Blocks = {B(Root(uf, g)) : g \in Geoms}
  BY BlocksAreOfRoots
<1>5. Blocks' = {Block(uf', Geoms, Root(uf', g)) : g \in Geoms}
  BY <1>1 DEF Blocks, Block
<1>6. S \in SUBSET Blocks /\ S # {} /\ UNION S = B(a) \cup B(b)
  BY <1>3, <1>4
<1>7. \A g \in Geoms : g \in B(Root(uf, g))
  BY DEF Block
<1>8. Block(uf', Geoms, b) = UNION S
  BY <1>2, <1>6 DEF Block
<1>9. ASSUME NEW g \in Geoms, Root(uf, g) \notin {a, b}
      PROVE  Block(uf', Geoms, Root(uf', g)) = B(Root(uf, g)) /\ B(Root(uf, g)) \notin S
  <2>1. Root(uf', g) = Root(uf, g)
    BY <1>2, <1>9
  <2>2. \A k \in Geoms : Root(uf', k) = Root(uf, g) <=> Root(uf, k) = Root(uf, g)
    BY <1>2, <1>9
  <2>3. B(Root(uf, g)) \notin S
    BY <1>3, <1>7, <1>9 DEF Block
  <2>4. QED
    BY <2>1, <2>2, <2>3 DEF Block
<1>10. ASSUME NEW g \in Geoms, Root(uf, g) \in {a, b}
       PROVE  Block(uf', Geoms, Root(uf', g)) = UNION S /\ B(Root(uf, g)) \in S
  BY <1>2, <1>8, <1>10
<1> HIDE DEF S, B
<1>11. Blocks' = (Blocks \ S) \cup {UNION S}
  <2>1. \A X \in Blocks' : X \in (Blocks \ S) \cup {UNION S}
    BY <1>4, <1>5, <1>9, <1>10
  <2>2. \A X \in Blocks \ S : X \in Blocks'
    BY <1>4, <1>5, <1>9, <1>10
  <2>3. UNION S \in Blocks'
    BY <1>2, <1>3, <1>5, <1>10
  <2>4. QED
    BY <2>1, <2>2, <2>3
<1>12. QED
  BY <1>1, <1>6, <1>11 DEF P!Next, P!Merge

\* The arrays of lwunionfind.c are a partition of the rows: union merges two of its blocks,
\* and find and the last pass over the links change none
THEOREM UnionFindIsAPartition == Spec => UnionFindImplementsPartition
<1>1. Init => P!Init
  <2> SUFFICES ASSUME Init PROVE P!Init
    OBVIOUS
  <2>1. uf = UF_create(input.n) /\ input.n \in Nat /\ Geoms = 0 .. input.n - 1
    BY InputFacts DEF Init, Geoms
  <2>2. \A g \in Geoms : Root(uf, g) = g
    BY <2>1, CreateForest
  <2>3. Blocks = {{g} : g \in Geoms}
    <3>1. Blocks = {{h \in Geoms : Root(uf, h) = Root(uf, g)} : g \in Geoms}
      BY DEF Blocks
    <3>2. \A g \in Geoms : {h \in Geoms : Root(uf, h) = Root(uf, g)} = {g}
      BY <2>2
    <3>3. QED
      BY <3>1, <3>2
  <2>4. QED
    BY <2>3 DEF P!Init
<1>2. Inv /\ Inv' /\ [Next]_vars => [P!Next]_P!vars
  <2> SUFFICES ASSUME Inv, Inv', [Next]_vars PROVE [P!Next]_P!vars
    OBVIOUS
  <2>1. CASE UNCHANGED vars
    BY <2>1 DEF vars, P!vars, Geoms, Blocks
  <2>2. CASE Next /\ \A g \in Geoms : Root(uf', g) = Root(uf, g)
    <3>1. Geoms' = Geoms
      BY <2>2, StepMoves, SameInput
    <3>2. Blocks' = Blocks
      BY <2>2, <3>1 DEF Blocks
    <3>3. QED
      BY <3>1, <3>2 DEF P!vars
  <2>3. CASE Next /\ \E i, j \in Geoms : Merged(uf, uf', Geoms, i, j)
    BY <2>3, StepMoves, MergedIsMerge DEF Inv
  <2>4. QED
    BY <2>1, <2>2, <2>3, StepMoves
<1>3. QED
  BY <1>1, <1>2, ClusteringIsSound, PTL DEF Spec, P!Spec, UnionFindImplementsPartition

\* What combine_geometries reads, num_clusters and the sizes, is right in any state
THEOREM SizesAreThoseOfBlocks == Spec => []SizesAreOfBlocks
<1>1. Inv => SizesAreOfBlocks
  <2> SUFFICES ASSUME Inv PROVE SizesAreOfBlocks
    OBVIOUS
  <2>1. TypeOK /\ Forest(uf, Geoms) /\ Sized(uf, Geoms) /\ IsFiniteSet(Geoms)
    BY InputFacts DEF Inv, Arrays, TypeOK
  <2>2. Blocks = {Block(uf, Geoms, r) : r \in Roots(uf, Geoms)}
    BY <2>1, BlocksAreOfRoots DEF Arrays
  <2>3. uf.num = Cardinality(Blocks)
    BY <2>1, <2>2, BlocksOfRoots DEF Sized
  <2>4. ASSUME NEW B \in Blocks, NEW g \in B
        PROVE  uf.sizes[g] = IF uf.clusters[g] = g THEN Cardinality(B) ELSE 0
    <3>1. PICK r \in Roots(uf, Geoms) : B = Block(uf, Geoms, r)
      BY <2>2
    <3>2. g \in Geoms /\ Root(uf, g) = r
      BY <3>1 DEF Block
    <3>3. uf.clusters[g] = g => g = r
      BY <2>1, <3>2, RootOfNext
    <3>4. QED
      BY <2>1, <3>1, <3>2, <3>3 DEF Sized
  <2>5. QED
    BY <2>3, <2>4 DEF SizesAreOfBlocks
<1>2. QED
  BY <1>1, ClusteringIsSound, PTL
=============================================================================
