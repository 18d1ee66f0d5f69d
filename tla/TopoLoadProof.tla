--------------------------- MODULE TopoLoadProof ---------------------------
(***************************************************************************)
(* Proofs about TopoLoad for any requests, curves and TopoGeometries: the  *)
(* drawing is planar between any two edits of a load, whatever geometries  *)
(* are loaded over it and whichever loads fail half way, the edges whose   *)
(* ids a load of a line holds cover what has been drawn of it, and links   *)
(* turn clockwise, so that every ring that a load walks is closed.         *)
(***************************************************************************)
EXTENDS TopoLoad, TopologyLinksProof, FiniteSetTheorems, NaturalsInduction, WellFoundedInduction

-----------------------------------------------------------------------------
(* Sets of numbers.                                                        *)

\* A set of numbers has a least
LEMMA LeastOf ==
  ASSUME NEW S, S \subseteq Nat, S # {}
  PROVE  \E m \in S : \A x \in S : m <= x
<1> DEFINE less == {ss \in Nat \X Nat : ss[1] < ss[2]}
<1>1. IsWellFoundedOn(less, Nat)
  BY NatLessThanWellFounded DEF OpToRel
<1> HIDE DEF less
<1>2. PICK m \in S : \A x \in S : <<x, m>> \notin less
  BY <1>1, WFMin
<1>3. ASSUME NEW x \in S PROVE m <= x
  <2>1. <<x, m>> \notin less /\ x \in Nat /\ m \in Nat
    BY <1>2
  <2> QED
    BY <2>1 DEF less
<1> QED
  BY <1>3

\* A bounded one has a greatest
LEMMA GreatestOf ==
  ASSUME NEW k \in Nat, NEW S, S \subseteq 0 .. k, S # {}
  PROVE  \E m \in S : \A x \in S : x <= m
<1> DEFINE T == {k - x : x \in S}
<1>1. T \subseteq Nat /\ T # {}
  <2>1. \A x \in S : k - x \in Nat
    OBVIOUS
  <2>2. PICK x \in S : TRUE
    OBVIOUS
  <2>3. k - x \in T
    BY <2>2
  <2> QED
    BY <2>1, <2>3
<1>2. PICK y \in T : \A x \in T : y <= x
  <2> HIDE DEF T
  <2> QED
    BY <1>1, LeastOf
<1>3. PICK m \in S : y = k - m
  BY <1>2
<1>4. \A x \in S : k - m <= k - x
  BY <1>2, <1>3
<1> QED
  BY <1>4

\* The bounds of a set of indices
LEMMA IndexBounds ==
  ASSUME NEW k \in Nat, NEW B, B \subseteq 1 .. k, B # {}
  PROVE  /\ Min(B) \in B /\ \A x \in B : Min(B) <= x
         /\ Max(B) \in B /\ \A x \in B : x <= Max(B)
<1>1. \E m \in B : \A x \in B : m <= x
  <2>1. B \subseteq Nat
    OBVIOUS
  <2> QED
    BY <2>1, LeastOf
<1>2. \E m \in B : \A x \in B : m >= x
  <2>1. B \subseteq 0 .. k
    OBVIOUS
  <2>2. PICK m \in B : \A x \in B : x <= m
    BY <2>1, GreatestOf
  <2> QED
    BY <2>2
<1>3. Min(B) \in B /\ \A x \in B : Min(B) <= x
  BY <1>1 DEF Min
<1>4. Max(B) \in B /\ \A x \in B : Max(B) >= x
  BY <1>2 DEF Max
<1> QED
  BY <1>3, <1>4

\* Three things are not two
LEMMA ThreeAreNotTwo ==
  ASSUME NEW S, IsFiniteSet(S), NEW x \in S, NEW y \in S, NEW z \in S, x # y, x # z, y # z
  PROVE  Cardinality(S) # 2
<1>1. IsFiniteSet({x}) /\ Cardinality({x}) = 1
  BY FS_Singleton
<1>2. IsFiniteSet({x, y}) /\ Cardinality({x, y}) = 2
  <2>1. IsFiniteSet({x} \cup {y}) /\ Cardinality({x} \cup {y}) = Cardinality({x}) + 1
    BY <1>1, FS_AddElement
  <2>2. {x, y} = {x} \cup {y}
    OBVIOUS
  <2> QED
    BY <1>1, <2>1, <2>2
<1>3. IsFiniteSet({x, y, z}) /\ Cardinality({x, y, z}) = 3
  <2>1. IsFiniteSet({x, y} \cup {z}) /\ Cardinality({x, y} \cup {z}) = Cardinality({x, y}) + 1
    BY <1>2, FS_AddElement
  <2>2. {x, y, z} = {x, y} \cup {z}
    OBVIOUS
  <2> QED
    BY <1>2, <2>1, <2>2
<1>4. {x, y, z} \subseteq S
  OBVIOUS
<1>5. Cardinality({x, y, z}) <= Cardinality(S)
  BY <1>4, FS_Subset
<1> QED
  BY <1>3, <1>5

-----------------------------------------------------------------------------
(* Where a line is cut.                                                    *)

\* A line that runs along no segment twice
Loadable(c) == OnGrid(c) /\ Cardinality(SegmentMids(c)) = Len(c) - 1

\* Its segments have a middle each
LEMMA NoSegmentTwice ==
  ASSUME NEW c, Loadable(c)
  PROVE  /\ IsFiniteSet(SegmentMids(c))
         /\ \A i, j \in 1 .. Len(c) - 1 : Mid(c[i], c[i + 1]) = Mid(c[j], c[j + 1]) => i = j
<1> DEFINE S == 1 .. Len(c) - 1
           f == [i \in S |-> Mid(c[i], c[i + 1])]
<1>1. Len(c) \in Nat /\ Len(c) - 1 \in Nat
  BY GridFacts DEF Loadable
<1>2. IsFiniteSet(S) /\ Cardinality(S) = Len(c) - 1
  BY <1>1, FS_Interval
<1>3. f \in Surjection(S, SegmentMids(c))
  BY DEF Surjection, SegmentMids
<1> HIDE DEF f
<1>4. IsFiniteSet(SegmentMids(c)) /\ f \in Injection(S, SegmentMids(c))
  <2> HIDE DEF S
  <2> QED
    BY <1>2, <1>3, FS_Surjection DEF Loadable
<1>5. \A i, j \in S : f[i] = f[j] => i = j
  BY <1>4 DEF Injection, IsInjective
<1> QED
  BY <1>4, <1>5 DEF f

\* A segment at one of its points
LEMMA SegmentsAtFacts ==
  ASSUME NEW c, OnGrid(c), NEW p
  PROVE  /\ SegmentsAt(c, p) \subseteq SegmentMids(c)
         /\ \A i \in 1 .. Len(c) - 1 :
              c[i] = p \/ c[i + 1] = p => Mid(c[i], c[i + 1]) \in SegmentsAt(c, p)
BY DEF SegmentsAt, SegmentMids

\* A line that does not close is cut where it begins and where it ends
LEMMA OpenEndsBreak ==
  ASSUME NEW c, Loadable(c), c[1] # c[Len(c)], NEW t
  PROVE  BreaksAt(t, c, c[1]) /\ BreaksAt(t, c, c[Len(c)])
<1> DEFINE k == Len(c)
<1>1. k \in Nat /\ k > 1 /\ OnGrid(c) /\ \A i \in 1 .. k - 1 : c[i] # c[i + 1]
  BY GridFacts DEF Loadable
<1>2. ASSUME NEW p PROVE IsFiniteSet(SegmentsAt(c, p))
  BY <1>1, NoSegmentTwice, SegmentsAtFacts, FS_Subset
<1>3. ASSUME NEW p, NEW h \in 1 .. k - 1, NEW i \in 2 .. k - 1, c[i] = p, h # i, h # i - 1,
             c[h] = p \/ c[h + 1] = p
      PROVE  Cardinality(SegmentsAt(c, p)) # 2
  <2>1. i \in 1 .. k - 1 /\ i - 1 \in 1 .. k - 1 /\ (i - 1) + 1 = i /\ i - 1 # i
    BY <1>1
  <2> DEFINE x == Mid(c[h], c[h + 1])
             y == Mid(c[i], c[i + 1])
             z == Mid(c[i - 1], c[i])
  <2>2. x \in SegmentsAt(c, p) /\ y \in SegmentsAt(c, p) /\ z \in SegmentsAt(c, p)
    BY <1>1, <1>3, <2>1, SegmentsAtFacts
  <2>3. x # y /\ x # z /\ y # z
    BY <1>3, <2>1, NoSegmentTwice
  <2> HIDE DEF x, y, z
  <2> QED
    BY <1>2, <2>2, <2>3, ThreeAreNotTwo
<1>4. ASSUME NEW p, NEW h \in 1 .. k - 1, \A i \in 1 .. k - 1 : c[i] = p \/ c[i + 1] = p => i = h
      PROVE  Cardinality(SegmentsAt(c, p)) # 2
  <2>1. SegmentsAt(c, p) \subseteq {Mid(c[h], c[h + 1])}
    BY <1>4 DEF SegmentsAt
  <2>2. IsFiniteSet({Mid(c[h], c[h + 1])}) /\ Cardinality({Mid(c[h], c[h + 1])}) = 1
    BY FS_Singleton
  <2>3. Cardinality(SegmentsAt(c, p)) <= 1
    BY <2>1, <2>2, FS_Subset
  <2> QED
    BY <2>3
<1>5. Cardinality(SegmentsAt(c, c[1])) # 2
  <2>1. CASE \E i \in 2 .. k - 1 : c[i] = c[1]
    <3>1. PICK i \in 2 .. k - 1 : c[i] = c[1]
      BY <2>1
    <3>2. 1 \in 1 .. k - 1 /\ i # 2
      BY <1>1, <3>1
    <3> QED
      BY <1>3, <3>1, <3>2
  <2>2. CASE \A i \in 2 .. k - 1 : c[i] # c[1]
    <3>1. ASSUME NEW i \in 1 .. k - 1, c[i] = c[1] \/ c[i + 1] = c[1], i # 1 PROVE FALSE
      <4>1. i \in 2 .. k - 1 /\ (i + 1 = k \/ i + 1 \in 2 .. k - 1)
        BY <1>1, <3>1
      <4> QED
        BY <2>2, <3>1, <4>1
    <3>2. 1 \in 1 .. k - 1
      BY <1>1
    <3> QED
      BY <1>4, <3>1, <3>2
  <2> QED
    BY <2>1, <2>2
<1>6. Cardinality(SegmentsAt(c, c[k])) # 2
  <2>0. k - 1 \in 1 .. k - 1 /\ (k - 1) + 1 = k
    BY <1>1
  <2>1. CASE \E i \in 2 .. k - 1 : c[i] = c[k]
    <3>1. PICK i \in 2 .. k - 1 : c[i] = c[k]
      BY <2>1
    <3>2. c[k - 1] # c[k]
      BY <1>1, <2>0
    <3>3. i # k - 1 /\ k - 1 # i - 1
      BY <1>1, <3>1, <3>2
    <3> QED
      BY <1>3, <2>0, <3>1, <3>3
  <2>2. CASE \A i \in 2 .. k - 1 : c[i] # c[k]
    <3>1. ASSUME NEW i \in 1 .. k - 1, c[i] = c[k] \/ c[i + 1] = c[k], i # k - 1 PROVE FALSE
      <4>1. (i = 1 \/ i \in 2 .. k - 1) /\ i + 1 \in 2 .. k - 1
        BY <1>1, <3>1
      <4> QED
        BY <2>2, <3>1, <4>1
    <3> QED
      BY <1>4, <2>0, <3>1
  <2> QED
    BY <2>1, <2>2
<1> QED
  BY <1>5, <1>6 DEF BreaksAt

\* The points where a line is cut
Breaks(t, c) == {i \in DOMAIN c : BreaksAt(t, c, c[i])}

\* Where a line leaves what is drawn it is cut
LEMMA LeavingBreaks ==
  ASSUME NEW t, Base(t), NEW c, OnGrid(c), NEW j \in 2 .. Len(c) - 1,
         Mid(c[j - 1], c[j]) \in DrawnSegments(t), Mid(c[j], c[j + 1]) \notin DrawnSegments(t)
  PROVE  BreaksAt(t, c, c[j])
<1>1. Len(c) \in Nat /\ j \in 1 .. Len(c) - 1 /\ j - 1 \in 1 .. Len(c) - 1 /\ (j - 1) + 1 = j
  BY GridFacts
<1>2. PICK e \in DOMAIN t.edge : Mid(c[j - 1], c[j]) \in SegmentMids(t.edge[e].geom)
  BY DEF DrawnSegments
<1> DEFINE g == t.edge[e].geom
<1>3. OnGrid(g)
  BY DEF Base, Drawn
<1>4. PICK i \in 1 .. Len(g) - 1 : Mid(c[j - 1], c[j]) = Mid(g[i], g[i + 1])
  BY <1>2 DEF SegmentMids
<1>5. Len(g) \in Nat /\ DOMAIN g = 1 .. Len(g)
  BY <1>3, GridFacts
<1>6. c[j] = g[i] \/ c[j] = g[i + 1]
  <2> HIDE DEF g
  <2> QED
    BY <1>1, <1>3, <1>4, SegmentsWithOneMid
<1>7. c[j] \in Points(g)
  <2>1. i \in DOMAIN g /\ i + 1 \in DOMAIN g
    BY <1>5
  <2> QED
    BY <1>6, <2>1 DEF Points
<1>8. ~RunsAlong(t, c, c[j])
  <2>1. Mid(c[j], c[j + 1]) \in SegmentsAt(c, c[j])
    BY <1>1, SegmentsAtFacts
  <2> QED
    BY <2>1 DEF RunsAlong, DrawnSegments
<1> QED
  BY <1>7, <1>8 DEF BreaksAt

\* A line is cut somewhere, and where it begins if it is not closed
LEMMA BreaksExist ==
  ASSUME NEW t, Base(t), NEW c, Loadable(c)
  PROVE  /\ Breaks(t, c) \subseteq 1 .. Len(c) /\ Breaks(t, c) # {}
         /\ 1 \in Breaks(t, c) <=> Len(c) \in Breaks(t, c)
         /\ 1 \notin Breaks(t, c) => c[1] = c[Len(c)]
<1> DEFINE k == Len(c)
           B == Breaks(t, c)
<1>1. OnGrid(c) /\ k \in Nat /\ k > 1 /\ DOMAIN c = 1 .. k /\ 1 \in 1 .. k /\ k \in 1 .. k
  BY GridFacts DEF Loadable
<1>2. \A i \in 1 .. k : i \in B <=> BreaksAt(t, c, c[i])
  BY <1>1 DEF Breaks
<1>3. B \subseteq 1 .. k
  BY <1>1 DEF Breaks
<1>4. 1 \in B <=> k \in B
  <2>1. c[1] # c[k] => BreaksAt(t, c, c[1]) /\ BreaksAt(t, c, c[k])
    BY OpenEndsBreak
  <2> HIDE DEF B
  <2> QED
    BY <1>1, <1>2, <2>1
<1>5. 1 \notin B => c[1] = c[k]
  <2>1. c[1] # c[k] => BreaksAt(t, c, c[1])
    BY OpenEndsBreak
  <2> HIDE DEF B
  <2> QED
    BY <1>1, <1>2, <2>1
<1>6. ASSUME 1 \notin B PROVE B # {}
  <2> DEFINE N == {j \in 1 .. k - 1 : Mid(c[j], c[j + 1]) \notin DrawnSegments(t)}
  <2>1. ~BreaksAt(t, c, c[1])
    BY <1>1, <1>2, <1>6
  <2>2. RunsAlong(t, c, c[1]) /\ ~(SegmentMids(c) \subseteq DrawnSegments(t))
    BY <2>1 DEF BreaksAt, StartPoint
  <2>3. N # {} /\ N \subseteq Nat
    BY <1>1, <2>2 DEF SegmentMids
  <2>4. PICK j \in N : \A x \in N : j <= x
    <3> HIDE DEF N
    <3> QED
      BY <2>3, LeastOf
  <2>5. 1 \notin N
    <3>1. 1 \in 1 .. k - 1
      BY <1>1
    <3>2. Mid(c[1], c[1 + 1]) \in SegmentsAt(c, c[1])
      BY <1>1, <3>1, SegmentsAtFacts
    <3> QED
      BY <2>2, <3>2 DEF RunsAlong, DrawnSegments
  <2>6. j \in 2 .. k - 1 /\ j \in 1 .. k /\ j - 1 \in 1 .. k - 1 /\ (j - 1) + 1 = j /\ ~(j <= j - 1)
    BY <1>1, <2>4, <2>5
  <2>7. j - 1 \notin N
    <3> HIDE DEF N
    <3> QED
      BY <2>4, <2>6
  <2>8. Mid(c[j - 1], c[j]) \in DrawnSegments(t) /\ Mid(c[j], c[j + 1]) \notin DrawnSegments(t)
    BY <2>6, <2>7
  <2>9. BreaksAt(t, c, c[j])
    BY <1>1, <2>6, <2>8, LeavingBreaks
  <2> QED
    BY <1>2, <2>6, <2>9
<1> QED
  BY <1>3, <1>4, <1>5, <1>6

\* A piece of a line
LEMMA SubCurve ==
  ASSUME NEW c, OnGrid(c), NEW a \in 1 .. Len(c), NEW b \in 1 .. Len(c), a < b
  PROVE  LET d == SubSeq(c, a, b)
         IN  /\ OnGrid(d) /\ Len(d) = b - a + 1 /\ \A j \in 1 .. b - a + 1 : d[j] = c[a + j - 1]
             /\ StartPoint(d) = c[a] /\ EndPoint(d) = c[b]
             /\ SegmentMids(d) = {Mid(c[j], c[j + 1]) : j \in a .. b - 1}
             /\ InteriorVertices(d) = {c[j] : j \in a + 1 .. b - 1}
<1> DEFINE d == SubSeq(c, a, b)
           m == b - a + 1
<1>1. c \in Seq(LatticePoints) /\ Len(c) \in Nat /\ m \in Nat /\ m > 1
  BY GridFacts DEF OnGrid
<1>2. d \in Seq(LatticePoints) /\ Len(d) = m /\ \A j \in 1 .. m : d[j] = c[a + j - 1]
  BY <1>1
<1> HIDE DEF d
<1>3. \A j \in 1 .. Len(c) - 1 : <<c[j + 1][1] - c[j][1], c[j + 1][2] - c[j][2]>>
                                   \in {<<2, 0>>, <<-2, 0>>, <<0, 2>>, <<0, -2>>}
  BY DEF OnGrid, IsCurve
<1>4. \A j \in 1 .. m - 1 : /\ a + j - 1 \in a .. b - 1 /\ a + j - 1 \in 1 .. Len(c) - 1
                            /\ j \in 1 .. m /\ j + 1 \in 1 .. m
                            /\ a + (j + 1) - 1 = (a + j - 1) + 1
  BY <1>1
<1>5. \A j \in 1 .. m - 1 : d[j] = c[a + j - 1] /\ d[j + 1] = c[(a + j - 1) + 1]
  <2> HIDE DEF m
  <2> SUFFICES ASSUME NEW j \in 1 .. m - 1
               PROVE  d[j] = c[a + j - 1] /\ d[j + 1] = c[(a + j - 1) + 1]
    OBVIOUS
  <2>1. d[j + 1] = c[a + (j + 1) - 1] /\ d[j] = c[a + j - 1]
    BY <1>2, <1>4
  <2> QED
    BY <1>4, <2>1
<1>6. IsCurve(d)
  <2>1. ASSUME NEW j \in 1 .. m - 1
        PROVE  <<d[j + 1][1] - d[j][1], d[j + 1][2] - d[j][2]>>
                 \in {<<2, 0>>, <<-2, 0>>, <<0, 2>>, <<0, -2>>}
    BY <1>3, <1>4, <1>5
  <2> HIDE DEF m
  <2> QED
    BY <1>1, <1>2, <2>1 DEF IsCurve
<1>7. StartPoint(d) = c[a] /\ EndPoint(d) = c[b]
  BY <1>1, <1>2 DEF StartPoint, EndPoint
<1>8. \A h \in a .. b - 1 : h - a + 1 \in 1 .. m - 1 /\ a + (h - a + 1) - 1 = h
  BY <1>1
<1>9. SegmentMids(d) = {Mid(c[j], c[j + 1]) : j \in a .. b - 1}
  <2>1. SegmentMids(d) = {Mid(c[a + j - 1], c[(a + j - 1) + 1]) : j \in 1 .. m - 1}
    <3> HIDE DEF m
    <3> QED
      BY <1>2, <1>5 DEF SegmentMids
  <2> HIDE DEF m
  <2> QED
    BY <1>4, <1>8, <2>1
<1>10. InteriorVertices(d) = {c[j] : j \in a + 1 .. b - 1}
  <2>1. \A j \in 2 .. m - 1 : j \in 1 .. m /\ a + j - 1 \in a + 1 .. b - 1
    BY <1>1
  <2>2. \A h \in a + 1 .. b - 1 : h - a + 1 \in 2 .. m - 1 /\ a + (h - a + 1) - 1 = h
    BY <1>1
  <2>3. InteriorVertices(d) = {c[a + j - 1] : j \in 2 .. m - 1}
    <3> HIDE DEF m
    <3> QED
      BY <1>2, <2>1 DEF InteriorVertices
  <2> HIDE DEF m
  <2> QED
    BY <2>1, <2>2, <2>3
<1> QED
  BY <1>2, <1>6, <1>7, <1>9, <1>10 DEF OnGrid, d

\* Joined curves run along what both run along
LEMMA JoinCovers ==
  ASSUME NEW c, OnGrid(c), NEW d, OnGrid(d), c[Len(c)] = d[1]
  PROVE  SegmentMids(c) \cup SegmentMids(d) \subseteq SegmentMids(Join(c, d))
<1> DEFINE g == Join(c, d)
           k == Len(c)
           m == Len(d)
<1>1. k \in Nat /\ k > 1 /\ m \in Nat /\ m > 1
  BY GridFacts
<1>2. /\ Len(g) = k + m - 1
      /\ \A x \in 1 .. k : g[x] = c[x]
      /\ \A y \in 1 .. m : g[k + y - 1] = d[y]
  BY JoinFacts
<1> HIDE DEF g, k, m
<1>3. ASSUME NEW x \in 1 .. k - 1 PROVE Mid(c[x], c[x + 1]) \in SegmentMids(g)
  <2>1. x \in 1 .. k /\ x + 1 \in 1 .. k /\ x \in 1 .. Len(g) - 1
    BY <1>1, <1>2
  <2>2. g[x] = c[x] /\ g[x + 1] = c[x + 1]
    BY <1>2, <2>1
  <2> QED
    BY <2>1, <2>2 DEF SegmentMids
<1>4. ASSUME NEW y \in 1 .. m - 1 PROVE Mid(d[y], d[y + 1]) \in SegmentMids(g)
  <2> DEFINE x == k + y - 1
  <2>1. y \in 1 .. m /\ y + 1 \in 1 .. m /\ x \in 1 .. Len(g) - 1 /\ k + (y + 1) - 1 = x + 1
    BY <1>1, <1>2
  <2>2. g[x] = d[y]
    BY <1>2, <2>1
  <2>3. g[k + (y + 1) - 1] = d[y + 1]
    BY <1>2, <2>1
  <2> HIDE DEF x
  <2> QED
    BY <2>1, <2>2, <2>3 DEF SegmentMids
<1> QED
  BY <1>3, <1>4 DEF SegmentMids, k, m, g

\* The piece through the start of a closed line that is not cut there
Wrap(t, c) ==
  LET B == Breaks(t, c)
  IN  Join(SubSeq(c, Max(B), Len(c)), SubSeq(c, 1, Min(B)))

\* A piece runs from a cut to the next, or through the start of the line
LEMMA PieceIs ==
  ASSUME NEW t, NEW c, NEW d
  PROVE  d \in Pieces(t, c) <=>
           \/ \E a, b \in Breaks(t, c) :
                a < b /\ (\A i \in Breaks(t, c) : i <= a \/ b <= i) /\ d = SubSeq(c, a, b)
           \/ 1 \notin Breaks(t, c) /\ d = Wrap(t, c)
<1> DEFINE B == Breaks(t, c)
           ends == {x \in B \X B : x[1] < x[2] /\ \A i \in B : i <= x[1] \/ x[2] <= i}
<1>1. Pieces(t, c) = {SubSeq(c, x[1], x[2]) : x \in ends} \cup
                       IF 1 \in B THEN {} ELSE {Wrap(t, c)}
  BY DEF Pieces, Breaks, Wrap
<1>2. d \in {SubSeq(c, x[1], x[2]) : x \in ends} <=>
        \E a, b \in B : a < b /\ (\A i \in B : i <= a \/ b <= i) /\ d = SubSeq(c, a, b)
  <2> HIDE DEF B
  <2>1. ASSUME NEW x \in ends, d = SubSeq(c, x[1], x[2])
        PROVE  \E a, b \in B : a < b /\ (\A i \in B : i <= a \/ b <= i) /\ d = SubSeq(c, a, b)
    BY <2>1
  <2>2. ASSUME NEW a \in B, NEW b \in B, a < b, \A i \in B : i <= a \/ b <= i, d = SubSeq(c, a, b)
        PROVE  \E x \in ends : d = SubSeq(c, x[1], x[2])
    <3>1. <<a, b>> \in ends /\ d = SubSeq(c, <<a, b>>[1], <<a, b>>[2])
      BY <2>2
    <3> HIDE DEF ends
    <3> QED
      BY <3>1
  <2> HIDE DEF ends
  <2> QED
    BY <2>1, <2>2
<1> HIDE DEF B, ends
<1> QED
  BY <1>1, <1>2 DEF B

\* A piece is a curve of the line, cut at its ends and nowhere else
LEMMA PieceFacts ==
  ASSUME NEW t, Base(t), NEW c, Loadable(c), NEW d \in Pieces(t, c)
  PROVE  /\ OnGrid(d) /\ SegmentMids(d) \subseteq SegmentMids(c)
         /\ BreaksAt(t, c, StartPoint(d)) /\ BreaksAt(t, c, EndPoint(d))
         /\ \A p \in InteriorVertices(d) : ~BreaksAt(t, c, p)
<1> DEFINE B == Breaks(t, c)
           k == Len(c)
<1>1. /\ OnGrid(c) /\ k \in Nat /\ k > 1 /\ 1 \in 1 .. k /\ k \in 1 .. k
      /\ \A i \in 1 .. k : i \in B <=> BreaksAt(t, c, c[i])
  BY GridFacts DEF Loadable, Breaks
<1>2. /\ B \subseteq 1 .. k /\ B # {} /\ (1 \in B <=> k \in B)
      /\ 1 \notin B => c[1] = c[k]
  BY BreaksExist
<1> HIDE DEF B, k
<1>3. ASSUME NEW a \in 1 .. k, NEW b \in 1 .. k, a < b
      PROVE  LET x == SubSeq(c, a, b)
             IN  /\ OnGrid(x) /\ SegmentMids(x) \subseteq SegmentMids(c)
                 /\ StartPoint(x) = c[a] /\ EndPoint(x) = c[b] /\ x[1] = c[a] /\ x[Len(x)] = c[b]
                 /\ (\A i \in B : i <= a \/ b <= i)
                      => \A p \in InteriorVertices(x) : ~BreaksAt(t, c, p)
  <2> DEFINE x == SubSeq(c, a, b)
  <2>1. /\ OnGrid(x) /\ StartPoint(x) = c[a] /\ EndPoint(x) = c[b]
        /\ SegmentMids(x) = {Mid(c[j], c[j + 1]) : j \in a .. b - 1}
        /\ InteriorVertices(x) = {c[j] : j \in a + 1 .. b - 1}
    BY <1>1, <1>3, SubCurve DEF k
  <2> HIDE DEF x
  <2>2. \A j \in a .. b - 1 : j \in 1 .. k - 1
    BY <1>1
  <2>3. \A j \in a + 1 .. b - 1 : j \in 1 .. k /\ ~(j <= a \/ b <= j)
    BY <1>1
  <2>4. SegmentMids(x) \subseteq SegmentMids(c)
    BY <2>1, <2>2 DEF SegmentMids, k
  <2>5. (\A i \in B : i <= a \/ b <= i) => \A p \in InteriorVertices(x) : ~BreaksAt(t, c, p)
    BY <1>1, <2>1, <2>3
  <2> QED
    BY <2>1, <2>4, <2>5 DEF x, StartPoint, EndPoint
<1>4. CASE \E a, b \in B : a < b /\ (\A i \in B : i <= a \/ b <= i) /\ d = SubSeq(c, a, b)
  <2>1. PICK a \in B, b \in B : a < b /\ (\A i \in B : i <= a \/ b <= i) /\ d = SubSeq(c, a, b)
    BY <1>4
  <2>2. a \in 1 .. k /\ b \in 1 .. k /\ BreaksAt(t, c, c[a]) /\ BreaksAt(t, c, c[b])
    BY <1>1, <1>2
  <2> QED
    BY <1>3, <2>1, <2>2
<1>5. CASE 1 \notin B /\ d = Wrap(t, c)
  <2> DEFINE M == Max(B)
             m == Min(B)
             x == SubSeq(c, M, k)
             y == SubSeq(c, 1, m)
  <2>1. M \in B /\ m \in B /\ \A i \in B : m <= i /\ i <= M
    BY <1>1, <1>2, IndexBounds
  <2>2. /\ M \in 1 .. k /\ m \in 1 .. k /\ M < k /\ 1 < m
        /\ BreaksAt(t, c, c[M]) /\ BreaksAt(t, c, c[m]) /\ ~BreaksAt(t, c, c[1])
    <3> HIDE DEF M, m
    <3> QED
      BY <1>1, <1>2, <1>5, <2>1
  <2>3. d = Join(x, y)
    BY <1>5 DEF Wrap, B, k
  <2> HIDE DEF M, m, x, y
  <2>4. /\ OnGrid(x) /\ SegmentMids(x) \subseteq SegmentMids(c)
        /\ StartPoint(x) = c[M] /\ x[Len(x)] = c[k]
        /\ \A p \in InteriorVertices(x) : ~BreaksAt(t, c, p)
    BY <1>1, <1>3, <2>1, <2>2 DEF x
  <2>5. /\ OnGrid(y) /\ SegmentMids(y) \subseteq SegmentMids(c)
        /\ EndPoint(y) = c[m] /\ y[1] = c[1]
        /\ \A p \in InteriorVertices(y) : ~BreaksAt(t, c, p)
    BY <1>1, <1>3, <2>1, <2>2 DEF y
  <2>6. x[Len(x)] = y[1]
    BY <1>2, <1>5, <2>4, <2>5
  <2>7. /\ OnGrid(d)
        /\ SegmentMids(d) \subseteq SegmentMids(x) \cup SegmentMids(y)
        /\ InteriorVertices(d) \subseteq InteriorVertices(x) \cup InteriorVertices(y) \cup {y[1]}
        /\ StartPoint(d) = StartPoint(x) /\ EndPoint(d) = EndPoint(y)
    BY <2>3, <2>4, <2>5, <2>6, JoinFacts, JoinMeets
  <2> QED
    BY <2>2, <2>4, <2>5, <2>7
<1> QED
  BY <1>4, <1>5, PieceIs DEF B

\* The pieces are the whole line
LEMMA PiecesCover ==
  ASSUME NEW t, Base(t), NEW c, Loadable(c)
  PROVE  UNION {SegmentMids(d) : d \in Pieces(t, c)} = SegmentMids(c)
<1> DEFINE B == Breaks(t, c)
           k == Len(c)
<1>1. OnGrid(c) /\ k \in Nat /\ k > 1 /\ 1 \in 1 .. k /\ k \in 1 .. k
  BY GridFacts DEF Loadable
<1>2. /\ B \subseteq 1 .. k /\ B # {} /\ (1 \in B <=> k \in B)
      /\ 1 \notin B => c[1] = c[k]
  BY BreaksExist
<1> HIDE DEF B
<1>3. ASSUME NEW j \in 1 .. k - 1
      PROVE  \E d \in Pieces(t, c) : Mid(c[j], c[j + 1]) \in SegmentMids(d)
  <2> DEFINE L == {b \in B : b <= j}
             R == {b \in B : j < b}
  <2>1. CASE L # {} /\ R # {}
    <3>1. PICK a \in L : \A x \in L : x <= a
      <4>1. L \subseteq 0 .. k
        <5>1. \A i \in 1 .. k : i \in 0 .. k
          BY <1>1
        <5> HIDE DEF k
        <5> QED
          BY <1>2, <5>1
      <4> HIDE DEF L
      <4> QED
        BY <1>1, <2>1, <4>1, GreatestOf
    <3>2. PICK b \in R : \A x \in R : b <= x
      <4>1. R \subseteq Nat
        <5>1. \A i \in 1 .. k : i \in Nat
          BY <1>1
        <5> HIDE DEF k
        <5> QED
          BY <1>2, <5>1
      <4> HIDE DEF R
      <4> QED
        BY <2>1, <4>1, LeastOf
    <3>3. /\ a \in B /\ b \in B /\ a \in 1 .. k /\ b \in 1 .. k
          /\ a < b /\ j \in a .. b - 1 /\ \A i \in B : i <= a \/ b <= i
      BY <1>1, <1>2, <3>1, <3>2
    <3>4. Mid(c[j], c[j + 1]) \in SegmentMids(SubSeq(c, a, b))
      BY <1>1, <3>3, SubCurve
    <3> QED
      BY <3>3, <3>4, PieceIs DEF B
  <2>2. CASE L = {} \/ R = {}
    <3> DEFINE M == Max(B)
               m == Min(B)
               x == SubSeq(c, M, k)
               y == SubSeq(c, 1, m)
    <3>1. 1 \notin B
      <4>1. 1 \in B => 1 \in L /\ k \in R
        BY <1>1, <1>2
      <4> QED
        BY <2>2, <4>1
    <3>2. M \in B /\ m \in B /\ \A i \in B : m <= i /\ i <= M
      BY <1>1, <1>2, IndexBounds
    <3>3. M \in 1 .. k /\ m \in 1 .. k /\ M < k /\ 1 < m
      <4> HIDE DEF M, m, k
      <4> QED
        BY <1>1, <1>2, <3>1, <3>2
    <3>4. j \in M .. k - 1 \/ j \in 1 .. m - 1
      <4>1. ~(M <= j) => M \in R
        BY <1>1, <3>2, <3>3
      <4>2. ~(j < m) => m \in L
        BY <1>1, <3>2, <3>3
      <4> HIDE DEF M, m, k, L, R
      <4> QED
        BY <1>1, <2>2, <3>3, <4>1, <4>2
    <3> HIDE DEF M, m
    <3>5. /\ OnGrid(x) /\ x[Len(x)] = c[k]
          /\ SegmentMids(x) = {Mid(c[h], c[h + 1]) : h \in M .. k - 1}
      BY <1>1, <3>3, SubCurve DEF EndPoint
    <3>6. /\ OnGrid(y) /\ y[1] = c[1]
          /\ SegmentMids(y) = {Mid(c[h], c[h + 1]) : h \in 1 .. m - 1}
      BY <1>1, <3>3, SubCurve DEF StartPoint
    <3> HIDE DEF x, y
    <3>7. SegmentMids(x) \cup SegmentMids(y) \subseteq SegmentMids(Join(x, y))
      BY <1>2, <3>1, <3>5, <3>6, JoinCovers
    <3>8. Join(x, y) \in Pieces(t, c)
      BY <3>1, PieceIs DEF Wrap, B, x, y, M, m
    <3> QED
      BY <3>4, <3>5, <3>6, <3>7, <3>8
  <2> QED
    BY <2>1, <2>2
<1>4. SegmentMids(c) \subseteq UNION {SegmentMids(d) : d \in Pieces(t, c)}
  BY <1>3 DEF SegmentMids
<1>5. \A d \in Pieces(t, c) : SegmentMids(d) \subseteq SegmentMids(c)
  BY PieceFacts
<1> QED
  BY <1>4, <1>5

-----------------------------------------------------------------------------
(* The steps of a load over the tables.                                    *)

\* Sound tables of a planar drawing
Good(t) == Sound(t) /\ Apart(t)

\* Point p has become a node: an edge it is in the middle of is cut, the others are as they were
PointAdded(t, u, p) ==
  /\ Good(u)
  /\ u.err = "done" => t.err = "done" /\ NodesAt(u, p) # {}
  /\ DOMAIN t.node \subseteq DOMAIN u.node
  /\ \A n \in DOMAIN t.node : u.node[n].geom = t.node[n].geom
  /\ DOMAIN t.edge \subseteq DOMAIN u.edge
  /\ \A e \in DOMAIN t.edge :
       p \notin InteriorVertices(t.edge[e].geom) => u.edge[e].geom = t.edge[e].geom

\* An error leaves the tables as they are
LEMMA FailKeepsGood ==
  ASSUME NEW t, Good(t), NEW why, why # "done"
  PROVE  /\ Good(Fail(t, why)) /\ Fail(t, why).err # "done"
         /\ Fail(t, why).node = t.node /\ Fail(t, why).edge = t.edge
<1> DEFINE u == Fail(t, why)
<1>1. Shaped(t)
  BY DEF Good, Sound, Base
<1>2. /\ DOMAIN u = DOMAIN t /\ u.node = t.node /\ u.edge = t.edge /\ u.face = t.face
      /\ u.relation = t.relation /\ u.seq = t.seq /\ u.err # "done"
  BY <1>1 DEF Fail, Shaped
<1> HIDE DEF u
<1>3. Shaped(u) /\ Numbered(u) /\ Sided(u)
  BY <1>2 DEF Good, Sound, Base, Shaped, Numbered, Sided
<1>4. Drawn(u) /\ Anchored(u) /\ Named(u)
  BY <1>2 DEF Good, Sound, Base, Drawn, EndsAtNodes, Anchored, Named, Names
<1>5. Apart(u)
  BY <1>2 DEF Good, Apart, CheckEdgeCrossing
<1> QED
  BY <1>2, <1>3, <1>4, <1>5 DEF u, Good, Sound, Base

\* A point of an edge that is no node is one of its inner points
LEMMA CutWithin ==
  ASSUME NEW t, Drawn(t), NEW e \in DOMAIN t.edge, NEW i \in DOMAIN t.edge[e].geom,
         NodesAt(t, t.edge[e].geom[i]) = {}
  PROVE  i \in 2 .. Len(t.edge[e].geom) - 1
<1> DEFINE c == t.edge[e].geom
<1>1. /\ OnGrid(c) /\ c[1] = t.node[t.edge[e].start_node].geom
      /\ c[Len(c)] = t.node[t.edge[e].end_node].geom
      /\ t.edge[e].start_node \in DOMAIN t.node /\ t.edge[e].end_node \in DOMAIN t.node
  BY DEF Drawn, EndsAtNodes, StartPoint, EndPoint
<1>2. Len(c) \in Nat /\ DOMAIN c = 1 .. Len(c)
  BY <1>1, GridFacts
<1>3. i \in 1 .. Len(c) /\ c[i] # c[1] /\ c[i] # c[Len(c)]
  BY <1>1, <1>2 DEF NodesAt
<1> HIDE DEF c
<1>4. i \in 2 .. Len(c) - 1
  BY <1>2, <1>3
<1> QED
  BY <1>4 DEF c

\* _lwt_AddPoint leaves a sound topology with a node in the point, or fails
LEMMA AddPointFacts ==
  ASSUME NEW t, Good(t), NEW p \in LatticePoints, NEW findFace \in BOOLEAN,
         NEW u \in AddPoint(t, p, findFace)
  PROVE  PointAdded(t, u, p)
<1> DEFINE cut == {x \in UNION {{e} \X DOMAIN t.edge[e].geom : e \in DOMAIN t.edge} :
                     t.edge[x[1]].geom[x[2]] = p}
<1>1. Sound(t) /\ Base(t) /\ Shaped(t) /\ Numbered(t) /\ Drawn(t) /\ Apart(t) /\ p \in Int \X Int
  BY DEF Good, Sound, Base, LatticePoints, Even
<1>2. CASE NodesAt(t, p) # {}
  <2>1. u = t
    BY <1>2 DEF AddPoint
  <2> QED
    BY <1>2, <2>1 DEF PointAdded
<1>3. CASE NodesAt(t, p) = {} /\ cut # {}
  <2>1. PICK x \in cut : u = CutInTwo(t, x[1], x[2])
    BY <1>3 DEF AddPoint
  <2>2. PICK e \in DOMAIN t.edge :
          \E i \in DOMAIN t.edge[e].geom : t.edge[e].geom[i] = p /\ u = CutInTwo(t, e, i)
    BY <2>1
  <2>0. PICK i \in DOMAIN t.edge[e].geom : t.edge[e].geom[i] = p /\ u = CutInTwo(t, e, i)
    BY <2>2
  <2> HIDE DEF cut
  <2> DEFINE c == t.edge[e].geom
  <2>3. i \in 2 .. Len(c) - 1
    BY <1>1, <1>3, <2>0, CutWithin
  <2>7. p \in InteriorVertices(c)
    BY <2>0, <2>3 DEF InteriorVertices
  <2>8. /\ Sound(u) /\ Apart(u) /\ u.err = t.err
        /\ Splits(t, u, e, i, NewNode(t), e, NewEdge(t))
    BY <1>1, <2>0, <2>3, CutInTwoFacts
  <2>9. NewNode(t) \in NodesAt(u, p)
    BY <2>0, <2>8 DEF Splits, NodesAt
  <2>10. /\ DOMAIN t.node \subseteq DOMAIN u.node
         /\ \A n \in DOMAIN t.node : u.node[n].geom = t.node[n].geom
         /\ DOMAIN t.edge \subseteq DOMAIN u.edge
         /\ \A y \in DOMAIN t.edge \ {e} : u.edge[y].geom = t.edge[y].geom
    BY <2>8 DEF Splits
  <2> QED
    BY <2>7, <2>8, <2>9, <2>10 DEF PointAdded, Good
<1>4. CASE NodesAt(t, p) = {} /\ cut = {}
  <2>1. PICK f : /\ f \in IF findFace THEN GetFaceContainingPoint(t, p) ELSE {Nowhere}
                 /\ u = IF findFace /\ f = Nowhere THEN Fail(t, "corrupted topology")
                        ELSE InsertNode(t, p, f)
    BY <1>4 DEF AddPoint
  <2>2. ASSUME NEW e \in DOMAIN t.edge PROVE p \notin Points(t.edge[e].geom)
    <3>1. \A i \in DOMAIN t.edge[e].geom : <<e, i>> \in cut <=> t.edge[e].geom[i] = p
      OBVIOUS
    <3> HIDE DEF cut
    <3> QED
      BY <1>4, <3>1 DEF Points
  <2>3. \A n \in DOMAIN t.node : t.node[n].geom # p
    BY <1>4 DEF NodesAt
  <2> HIDE DEF cut
  <2>4. f \in -1 .. t.seq.face
    <3>1. f \in IF findFace THEN GetFaceContainingPoint(t, p) ELSE {Nowhere}
      BY <2>1
    <3>2. CASE findFace
      BY <1>1, <2>2, <3>1, <3>2, FaceOfPointIsKnown
    <3>3. CASE ~findFace
      BY <1>1, <3>1, <3>3 DEF Numbered, Nowhere
    <3> QED
      BY <3>2, <3>3
  <2>5. CASE u = Fail(t, "corrupted topology")
    BY <2>5, FailKeepsGood DEF PointAdded
  <2>6. CASE u = InsertNode(t, p, f)
    <3>1. Good(u)
      BY <1>1, <2>2, <2>3, <2>4, <2>6, InsertNodeFacts DEF Good
    <3>2. /\ u.err = t.err /\ u.edge = t.edge
          /\ u.node = With(t.node, NewNode(t), [geom |-> p, containing_face |-> f])
      BY <1>1, <2>6 DEF InsertNode, Shaped
    <3>3. /\ DOMAIN u.node = DOMAIN t.node \cup {NewNode(t)} /\ NewNode(t) \notin DOMAIN t.node
          /\ u.node[NewNode(t)].geom = p /\ \A n \in DOMAIN t.node : u.node[n] = t.node[n]
      BY <1>1, <3>2, NewIdsAreNew DEF With
    <3>4. NewNode(t) \in NodesAt(u, p)
      BY <3>3 DEF NodesAt
    <3> QED
      BY <3>1, <3>2, <3>3, <3>4 DEF PointAdded
  <2> QED
    BY <2>1, <2>5, <2>6
<1> QED
  BY <1>2, <1>3, <1>4

\* _lwt_AddEdge draws the edge or fails, with faces or without
LEMMA NewLineEdgeFacts ==
  ASSUME NEW t, Good(t), NEW sn \in DOMAIN t.node, NEW en \in DOMAIN t.node, NEW c, OnGrid(c),
         NEW faces \in BOOLEAN,
         NewLineEdge(t, sn, en, c, EndsAround(t, sn, en, c), faces).err = "done"
  PROVE  LET u == NewLineEdge(t, sn, en, c, EndsAround(t, sn, en, c), faces)
         IN  Good(u) /\ DrawsEdge(t, u, c)
<1> DEFINE ends == EndsAround(t, sn, en, c)
           u == NewLineEdge(t, sn, en, c, ends, faces)
           first == FirstAzimuth(c)
           last == LastAzimuth(c)
           drawn == InsertLinkedEdge(t, sn, en, c, Nowhere, ends.span, ends.epan)
<1>1. Sound(t) /\ Base(t) /\ Anchored(t) /\ Apart(t) /\ t.seq.face \in Nat
  BY DEF Good, Sound, Base, Numbered
<1>2. \/ faces /\ CanAddEdge(t, sn, en, c) /\ u = AddedEdge(t, sn, en, c, ends, TRUE)
      \/ ~faces /\ CanDrawEdge(t, sn, en, c) /\ u = drawn
  <2>1. Fail(t, "refused").err # "done" /\ Fail(t, "corrupted topology").err # "done"
    BY FailKeepsGood
  <2> QED
    BY <2>1 DEF NewLineEdge
<1>3. first \in 0 .. 7 /\ last \in 0 .. 7
  BY AzimuthsOfCurve
<1>4. /\ (IF sn = en THEN last ELSE NoAzimuth) \in -1 .. 7
      /\ (IF sn = en THEN first ELSE NoAzimuth) \in -1 .. 7
  BY <1>3 DEF NoAzimuth
<1>5. /\ ends.span = FindAdjacentEdges(t, sn, first, IF sn = en THEN last ELSE NoAzimuth, 0)
      /\ ends.epan = FindAdjacentEdges(t, en, last, IF sn = en THEN first ELSE NoAzimuth, 0)
  BY DEF EndsAround
<1> HIDE DEF first, last, ends
<1>6. /\ ends.span.found => \E e \in DOMAIN t.edge : sn \in {t.edge[e].start_node, t.edge[e].end_node}
      /\ ends.epan.found => \E e \in DOMAIN t.edge : en \in {t.edge[e].start_node, t.edge[e].end_node}
  <2>1. FindAdjacentEdges(t, sn, first, IF sn = en THEN last ELSE NoAzimuth, 0).found
          => \E e \in DOMAIN t.edge : sn \in {t.edge[e].start_node, t.edge[e].end_node}
    BY <1>1, <1>3, <1>4, AdjacentEdgesFacts
  <2>2. FindAdjacentEdges(t, en, last, IF sn = en THEN first ELSE NoAzimuth, 0).found
          => \E e \in DOMAIN t.edge : en \in {t.edge[e].start_node, t.edge[e].end_node}
    BY <1>1, <1>3, <1>4, AdjacentEdgesFacts
  <2> QED
    BY <1>5, <2>1, <2>2
<1>7. /\ ends.span.found => t.node[sn].containing_face = Nowhere
      /\ ends.epan.found => t.node[en].containing_face = Nowhere
  BY <1>1, <1>6 DEF Anchored
<1>8. CASE faces /\ CanAddEdge(t, sn, en, c) /\ u = AddedEdge(t, sn, en, c, ends, TRUE)
  <2>1. EndsAtNodes(t, sn, en, c) /\ IsSimple(c) /\ CheckEdgeCrossing(t, sn, en, c, 0)
    BY <1>8 DEF CanAddEdge, CanDrawEdge
  <2>2. u.err = "done"
    BY DEF ends
  <2> HIDE DEF u
  <2>3. Sound(u) /\ DrawsEdge(t, u, c) /\ Apart(u)
    BY <1>1, <1>8, <2>1, <2>2, AddedEdgeIsSound DEF ends
  <2> QED
    BY <2>3 DEF Good, u, ends
<1>9. CASE ~faces /\ CanDrawEdge(t, sn, en, c) /\ u = drawn
  <2>1. EndsAtNodes(t, sn, en, c) /\ IsSimple(c) /\ CheckEdgeCrossing(t, sn, en, c, 0)
    BY <1>9 DEF CanDrawEdge
  <2>2. Nowhere \in -1 .. t.seq.face
    BY <1>1 DEF Nowhere
  <2> HIDE DEF u
  <2>3. Sound(u) /\ DrawsEdge(t, u, c) /\ Apart(u)
    BY <1>1, <1>7, <1>9, <2>1, <2>2, InsertLinkedEdgeIsSound
  <2> QED
    BY <2>3 DEF Good, u, ends
<1> QED
  BY <1>2, <1>8, <1>9

\* No node is in the middle of an edge
LEMMA NodesAreEnds ==
  ASSUME NEW t, Good(t), NEW n \in DOMAIN t.node, NEW e \in DOMAIN t.edge
  PROVE  t.node[n].geom \notin InteriorVertices(t.edge[e].geom)
<1> DEFINE g == t.edge[e].geom
<1>1. /\ OnGrid(g) /\ IsSimple(g)
      /\ t.node[t.edge[e].start_node].geom = g[1] /\ t.node[t.edge[e].end_node].geom = g[Len(g)]
      /\ CheckEdgeCrossing(t, t.edge[e].start_node, t.edge[e].end_node, g, e)
  BY DEF Good, Sound, Base, Drawn, EndsAtNodes, StartPoint, EndPoint, Apart
<1>2. Len(g) \in Nat /\ DOMAIN g = 1 .. Len(g)
  BY <1>1, GridFacts
<1>3. CASE n \notin {t.edge[e].start_node, t.edge[e].end_node}
  <2>1. t.node[n].geom \notin Points(g)
    BY <1>1, <1>3 DEF CheckEdgeCrossing
  <2>2. InteriorVertices(g) \subseteq Points(g)
    <3> HIDE DEF g
    <3> QED
      BY <1>2 DEF InteriorVertices, Points
  <2> QED
    BY <2>1, <2>2
<1>4. CASE n \in {t.edge[e].start_node, t.edge[e].end_node}
  <2>1. t.node[n].geom \in {g[1], g[Len(g)]}
    BY <1>1, <1>4
  <2> HIDE DEF g
  <2>2. ASSUME NEW j \in 2 .. Len(g) - 1 PROVE g[j] # g[1] /\ g[j] # g[Len(g)]
    <3>1. 1 \in DOMAIN g /\ j \in DOMAIN g /\ Len(g) \in DOMAIN g /\ 1 < j /\ j < Len(g)
      BY <1>2
    <3> QED
      BY <1>1, <1>2, <3>1 DEF IsSimple
  <2>3. t.node[n].geom \notin InteriorVertices(g)
    BY <2>1, <2>2 DEF InteriorVertices
  <2> QED
    BY <2>3 DEF g
<1> QED
  BY <1>3, <1>4

\* The edge that is equal to a piece runs along it and has its ends where the piece has
LEMMA EqualEdgeFacts ==
  ASSUME NEW t, Good(t), NEW c, OnGrid(c),
         NodesAt(t, StartPoint(c)) # {}, NodesAt(t, EndPoint(c)) # {}, NEW d \in EqualEdge(t, c)
  PROVE  /\ d \in Int /\ Abs(d) \in DOMAIN t.edge
         /\ SegmentMids(t.edge[Abs(d)].geom) = SegmentMids(c)
         /\ InteriorVertices(t.edge[Abs(d)].geom) \subseteq InteriorVertices(c)
<1> DEFINE g == t.edge[Abs(d)].geom
<1>1. d \in Darts(t) /\ SegmentMids(g) = SegmentMids(c)
  BY DEF EqualEdge
<1>2. d \in Int /\ Abs(d) \in DOMAIN t.edge
  BY <1>1, DartFacts DEF Good, Sound
<1>3. OnGrid(g)
  BY <1>2 DEF Good, Sound, Base, Drawn
<1>4. PICK m \in DOMAIN t.node, n \in DOMAIN t.node :
        t.node[m].geom = c[1] /\ t.node[n].geom = c[Len(c)]
  BY DEF NodesAt, StartPoint, EndPoint
<1>5. c[1] \notin InteriorVertices(g) /\ c[Len(c)] \notin InteriorVertices(g)
  BY <1>2, <1>4, NodesAreEnds
<1> HIDE DEF g
<1>6. Len(g) \in Nat /\ Len(c) \in Nat /\ DOMAIN c = 1 .. Len(c)
  BY <1>3, GridFacts
<1>7. ASSUME NEW j \in 2 .. Len(g) - 1 PROVE g[j] \in InteriorVertices(c)
  <2>1. j \in 1 .. Len(g) - 1
    BY <1>6
  <2>2. Mid(g[j], g[j + 1]) \in SegmentMids(c)
    BY <1>1, <2>1 DEF SegmentMids
  <2>3. PICK i \in 1 .. Len(c) - 1 : Mid(c[i], c[i + 1]) = Mid(g[j], g[j + 1])
    BY <2>2 DEF SegmentMids
  <2>4. g[j] = c[i] \/ g[j] = c[i + 1]
    BY <1>3, <2>1, <2>3, SegmentsWithOneMid
  <2>5. i \in DOMAIN c /\ i + 1 \in DOMAIN c
    BY <1>6
  <2>6. g[j] \in Points(c)
    BY <2>4, <2>5 DEF Points
  <2>7. g[j] \in InteriorVertices(g)
    BY DEF InteriorVertices
  <2> QED
    BY <1>5, <2>6, <2>7, CurveSets
<1>8. InteriorVertices(g) \subseteq InteriorVertices(c)
  BY <1>7 DEF InteriorVertices
<1> QED
  BY <1>1, <1>2, <1>8 DEF g

\* Dart d runs along piece c; edges that the piece does not end in the middle of are as they were
PieceDrawn(t, u, c, d) ==
  /\ Good(u)
  /\ d \in Int /\ Abs(d) \in DOMAIN u.edge
  /\ SegmentMids(u.edge[Abs(d)].geom) = SegmentMids(c)
  /\ InteriorVertices(u.edge[Abs(d)].geom) \subseteq InteriorVertices(c)
  /\ DOMAIN t.edge \subseteq DOMAIN u.edge
  /\ \A e \in DOMAIN t.edge :
       {StartPoint(c), EndPoint(c)} \cap InteriorVertices(t.edge[e].geom) = {}
         => u.edge[e].geom = t.edge[e].geom

\* Links are of edges only
LEMMA TurningOfEdges ==
  ASSUME NEW t, NEW u, u.edge = t.edge, Turning(t)
  PROVE  Turning(u)
<1>1. Darts(u) = Darts(t)
  BY DEF Darts
<1>2. Origins(u) = Origins(t) /\ Follows(u) = Follows(t) /\ Azimuths(u) = Azimuths(t)
  BY <1>1 DEF Origins, Follows, Azimuths, From, NextDart, DartAzimuth
<1> QED
  BY <1>2 DEF Turning

\* The ends of edges of good tables leave a node in different directions
LEMMA GoodIsDirected ==
  ASSUME NEW t, Good(t)
  PROVE  Directed(Origins(t), Azimuths(t))
BY DrawingIsDirected DEF Good, Sound

\* A node is inserted or an edge cut in two
LEMMA AddPointTurns ==
  ASSUME NEW t, Good(t), Turning(t), NEW p \in LatticePoints, NEW findFace \in BOOLEAN,
         NEW u \in AddPoint(t, p, findFace)
  PROVE  Turning(u)
<1> DEFINE cut == {x \in UNION {{e} \X DOMAIN t.edge[e].geom : e \in DOMAIN t.edge} :
                     t.edge[x[1]].geom[x[2]] = p}
<1>1. Sound(t) /\ Base(t) /\ Shaped(t) /\ Drawn(t)
  BY DEF Good, Sound, Base
<1>2. CASE NodesAt(t, p) # {}
  BY <1>2 DEF AddPoint
<1>3. CASE NodesAt(t, p) = {} /\ cut # {}
  <2>1. PICK x \in cut : u = CutInTwo(t, x[1], x[2])
    BY <1>3 DEF AddPoint
  <2>2. PICK e \in DOMAIN t.edge :
          \E i \in DOMAIN t.edge[e].geom : t.edge[e].geom[i] = p /\ u = CutInTwo(t, e, i)
    BY <2>1
  <2>3. PICK i \in DOMAIN t.edge[e].geom : t.edge[e].geom[i] = p /\ u = CutInTwo(t, e, i)
    BY <2>2
  <2> HIDE DEF cut
  <2>4. i \in 2 .. Len(t.edge[e].geom) - 1
    BY <1>1, <1>3, <2>3, CutWithin
  <2>5. Good(u)
    BY AddPointFacts DEF PointAdded
  <2>6. /\ Directed(Origins(t), Azimuths(t)) /\ Directed(Origins(u), Azimuths(u))
        /\ Clockwise(Origins(t), Follows(t), Azimuths(t))
    BY <2>5, GoodIsDirected DEF Turning
  <2>7. EdgeSplit(Origins(t), Follows(t), Azimuths(t),
                  Origins(u), Follows(u), Azimuths(u), e, e, NewEdge(t), NewNode(t))
    BY <1>1, <2>3, <2>4, <2>6, CutInTwoIsSplit
  <2>8. Clockwise(Origins(u), Follows(u), Azimuths(u))
    BY <2>6, <2>7, SplitTurns
  <2> QED
    BY <2>8 DEF Turning
<1>4. CASE NodesAt(t, p) = {} /\ cut = {}
  <2>1. PICK f : u = IF findFace /\ f = Nowhere THEN Fail(t, "corrupted topology")
                     ELSE InsertNode(t, p, f)
    BY <1>4 DEF AddPoint
  <2>2. u.edge = t.edge
    BY <1>1, <2>1 DEF Fail, InsertNode, Shaped
  <2> QED
    BY <2>2, TurningOfEdges
<1> QED
  BY <1>2, <1>3, <1>4

\* An edge is drawn
LEMMA NewLineEdgeTurns ==
  ASSUME NEW t, Good(t), Turning(t), NEW sn \in DOMAIN t.node, NEW en \in DOMAIN t.node,
         NEW c, OnGrid(c), NEW faces \in BOOLEAN,
         NewLineEdge(t, sn, en, c, EndsAround(t, sn, en, c), faces).err = "done"
  PROVE  Turning(NewLineEdge(t, sn, en, c, EndsAround(t, sn, en, c), faces))
<1> DEFINE ends == EndsAround(t, sn, en, c)
           u == NewLineEdge(t, sn, en, c, ends, faces)
           Tied(f) == InsertLinkedEdge(t, sn, en, c, f, ends.span, ends.epan)
<1>1. Good(u)
  BY NewLineEdgeFacts
<1>2. Sound(t) /\ Base(t)
  BY DEF Good, Sound
<1>3. \/ faces /\ CanAddEdge(t, sn, en, c) /\ u = AddedEdge(t, sn, en, c, ends, TRUE)
      \/ u = Tied(Nowhere)
  <2>1. Fail(t, "refused").err # "done" /\ Fail(t, "corrupted topology").err # "done"
    BY FailKeepsGood
  <2> QED
    BY <2>1 DEF NewLineEdge
<1>4. \E f : /\ Origins(u) = Origins(Tied(f)) /\ Follows(u) = Follows(Tied(f))
             /\ Azimuths(u) = Azimuths(Tied(f))
  <2>1. CASE faces /\ CanAddEdge(t, sn, en, c) /\ u = AddedEdge(t, sn, en, c, ends, TRUE)
    <3>1. EndsAtNodes(t, sn, en, c) /\ u.err = "done"
      BY <2>1 DEF CanAddEdge, CanDrawEdge
    <3>2. AddedEdge(t, sn, en, c, EndsAround(t, sn, en, c), TRUE).err = "done"
      BY <2>1, <3>1
    <3>3. TRUE \in BOOLEAN
      OBVIOUS
    <3> DEFINE w == AddedEdge(t, sn, en, c, ends, TRUE)
    <3>4. u = w /\ w.err = "done"
      BY <2>1, <3>2
    <3> HIDE DEF w
    <3>5. PICK f : LET v == InsertLinkedEdge(t, sn, en, c, f, ends.span, ends.epan)
                   IN  /\ Origins(w) = Origins(v) /\ Follows(w) = Follows(v)
                       /\ Azimuths(w) = Azimuths(v)
                       /\ w.seq.node = v.seq.node /\ w.seq.edge = v.seq.edge
      BY <1>2, <3>1, <3>3, <3>4, AddedEdgeLinks DEF w
    <3>6. /\ Origins(w) = Origins(Tied(f)) /\ Follows(w) = Follows(Tied(f))
          /\ Azimuths(w) = Azimuths(Tied(f))
      BY <3>5
    <3> HIDE DEF u, Tied
    <3> QED
      BY <3>4, <3>6
  <2>2. CASE u = Tied(Nowhere)
    BY <2>2
  <2> QED
    BY <1>3, <2>1, <2>2
<1>5. PICK f : /\ Origins(u) = Origins(Tied(f)) /\ Follows(u) = Follows(Tied(f))
               /\ Azimuths(u) = Azimuths(Tied(f))
  BY <1>4
<1> DEFINE v == Tied(f)
<1>6. Directed(Origins(t), Azimuths(t)) /\ Directed(Origins(v), Azimuths(v))
  BY <1>1, <1>5, GoodIsDirected
<1>7. Clockwise(Origins(t), Follows(t), Azimuths(t))
  BY DEF Turning
<1>8. Clockwise(Origins(v), Follows(v), Azimuths(v))
  <2>1. CASE sn = en
    <3>1. v = InsertLinkedEdge(t, sn, sn, c, f, ends.span, ends.epan) /\ ends = EndsAround(t, sn, sn, c)
      BY <2>1
    <3> HIDE DEF v, ends
    <3>2. LoopTied(Origins(t), Follows(t), Azimuths(t),
                   Origins(v), Follows(v), Azimuths(v), NewEdge(t), sn)
      BY <1>2, <1>6, <3>1, LinkedLoopIsTied
    <3> QED
      BY <1>6, <1>7, <3>2, LoopTurns
  <2>2. CASE sn # en
    <3>1. v = InsertLinkedEdge(t, sn, en, c, f, ends.span, ends.epan) /\ ends = EndsAround(t, sn, en, c)
      OBVIOUS
    <3> HIDE DEF v, ends
    <3>2. EdgeTied(Origins(t), Follows(t), Azimuths(t),
                   Origins(v), Follows(v), Azimuths(v), NewEdge(t), sn, en)
      BY <1>2, <1>6, <2>2, <3>1, LinkedEdgeIsTied
    <3> QED
      BY <1>6, <1>7, <3>2, TieTurns
  <2> QED
    BY <2>1, <2>2
<1>9. Turning(u)
  BY <1>5, <1>8 DEF Turning
<1> QED
  BY <1>9

\* _lwt_AddLineEdge draws the piece or finds it drawn, or fails
LEMMA AddPieceFacts ==
  ASSUME Good(Tables), NEW c, OnGrid(c), load.faces \in BOOLEAN, AddPiece(c)
  PROVE  \E u, next :
           /\ Continue(u, next)
           /\ u.err = "done" =>
                /\ Turning(Tables) => Turning(u)
                /\ \E d : /\ PieceDrawn(Tables, u, c, d)
                          /\ next = [load EXCEPT !.todo = @ \ {c}, !.ids = @ \cup {d}]
<1> DEFINE p == StartPoint(c)
           q == EndPoint(c)
           t0 == Tables
<1>1. PICK t1 \in AddPoint(t0, p, load.faces) : \E t \in AddPoint(t1, q, load.faces) :
        LET sn == NodeAt(t, p)
            en == NodeAt(t, q)
            Held(d) == [load EXCEPT !.todo = @ \ {c}, !.ids = @ \cup {d}]
        IN  IF t.err # "done" THEN Continue(t, load)
            ELSE IF EqualEdge(t, c) # {} THEN \E d \in EqualEdge(t, c) : Continue(t, Held(d))
            ELSE \E ends \in {EndsAround(t, sn, en, c)} :
                   Continue(NewLineEdge(t, sn, en, c, ends, load.faces), Held(NewEdge(t)))
  BY DEF AddPiece
<1>2. PICK t \in AddPoint(t1, q, load.faces) :
        LET sn == NodeAt(t, p)
            en == NodeAt(t, q)
            Held(d) == [load EXCEPT !.todo = @ \ {c}, !.ids = @ \cup {d}]
        IN  IF t.err # "done" THEN Continue(t, load)
            ELSE IF EqualEdge(t, c) # {} THEN \E d \in EqualEdge(t, c) : Continue(t, Held(d))
            ELSE \E ends \in {EndsAround(t, sn, en, c)} :
                   Continue(NewLineEdge(t, sn, en, c, ends, load.faces), Held(NewEdge(t)))
  BY <1>1
<1> DEFINE sn == NodeAt(t, p)
           en == NodeAt(t, q)
           Held(d) == [load EXCEPT !.todo = @ \ {c}, !.ids = @ \cup {d}]
           u == NewLineEdge(t, sn, en, c, EndsAround(t, sn, en, c), load.faces)
<1>3. \/ t.err # "done" /\ Continue(t, load)
      \/ t.err = "done" /\ \E d \in EqualEdge(t, c) : Continue(t, Held(d))
      \/ t.err = "done" /\ Continue(u, Held(NewEdge(t)))
  BY <1>2
<1>4. p \in LatticePoints /\ q \in LatticePoints
  <2>1. Len(c) \in Nat /\ Len(c) > 1 /\ c \in Seq(LatticePoints)
    BY GridFacts DEF OnGrid
  <2> QED
    BY <2>1 DEF StartPoint, EndPoint
<1> HIDE DEF p, q, t0, u
<1>5. PointAdded(t0, t1, p)
  BY <1>4, AddPointFacts DEF t0
<1>6. PointAdded(t1, t, q)
  <2>1. Good(t1)
    BY <1>5 DEF PointAdded
  <2> QED
    BY <1>4, <2>1, AddPointFacts
<1>7. ASSUME t.err = "done"
      PROVE  /\ Good(t) /\ NodesAt(t, p) # {} /\ NodesAt(t, q) # {}
             /\ sn \in DOMAIN t.node /\ en \in DOMAIN t.node
  <2>1. Good(t) /\ NodesAt(t, q) # {} /\ NodesAt(t1, p) # {}
    BY <1>5, <1>6, <1>7 DEF PointAdded
  <2>2. NodesAt(t1, p) \subseteq NodesAt(t, p)
    BY <1>6 DEF PointAdded, NodesAt
  <2>3. sn \in NodesAt(t, p) /\ en \in NodesAt(t, q)
    BY <2>1, <2>2 DEF NodeAt
  <2> QED
    BY <2>1, <2>2, <2>3 DEF NodesAt
<1>8. /\ DOMAIN t0.edge \subseteq DOMAIN t.edge
      /\ \A e \in DOMAIN t0.edge : {p, q} \cap InteriorVertices(t0.edge[e].geom) = {}
                                     => t.edge[e].geom = t0.edge[e].geom
  BY <1>5, <1>6 DEF PointAdded
<1>9. Turning(t0) => Turning(t)
  <2>1. Good(t0) /\ Good(t1)
    BY <1>5 DEF PointAdded, t0
  <2> QED
    BY <1>4, <2>1, AddPointTurns
<1>10. CASE t.err # "done" /\ Continue(t, load)
  BY <1>10
<1>11. CASE t.err = "done" /\ \E d \in EqualEdge(t, c) : Continue(t, Held(d))
  <2>1. PICK d \in EqualEdge(t, c) : Continue(t, Held(d))
    BY <1>11
  <2>2. PieceDrawn(t0, t, c, d)
    BY <1>7, <1>8, <1>11, EqualEdgeFacts DEF PieceDrawn, p, q
  <2> QED
    BY <1>9, <2>1, <2>2 DEF t0
<1>12. CASE t.err = "done" /\ Continue(u, Held(NewEdge(t)))
  <2>1. ASSUME u.err = "done" PROVE PieceDrawn(t0, u, c, NewEdge(t))
    <3>1. Good(u) /\ DrawsEdge(t, u, c)
      BY <1>7, <1>12, <2>1, NewLineEdgeFacts DEF u
    <3>2. Abs(NewEdge(t)) = NewEdge(t)
      BY <3>1 DEF Abs, DrawsEdge
    <3>3. \A e \in DOMAIN t.edge : u.edge[e].geom = t.edge[e].geom
      BY <3>1 DEF DrawsEdge
    <3>4. /\ NewEdge(t) \in Int /\ NewEdge(t) \in DOMAIN u.edge /\ DOMAIN t.edge \subseteq DOMAIN u.edge
          /\ u.edge[NewEdge(t)].geom = c
      BY <3>1 DEF DrawsEdge
    <3> QED
      BY <1>8, <3>1, <3>2, <3>3, <3>4 DEF PieceDrawn, p, q
  <2>2. ASSUME u.err = "done", Turning(t0) PROVE Turning(u)
    BY <1>7, <1>9, <1>12, <2>2, NewLineEdgeTurns DEF u
  <2> QED
    BY <1>12, <2>1, <2>2 DEF t0
<1> QED
  BY <1>3, <1>10, <1>11, <1>12

-----------------------------------------------------------------------------
(* The invariant of a load.                                                *)

LoadableLines == {c \in Seq(LatticePoints) : Loadable(c)}
PartsOf(kind) ==
  IF kind = 1 THEN LatticePoints ELSE {part \in Seq(LoadableLines) : kind = 2 => Len(part) = 1}

\* What a statement was asked for, and what it falls back to
Requested(l) ==
  /\ DOMAIN l = {"step", "kind", "faces", "tg", "parts", "lines", "todo", "ids", "before", "shape"}
  /\ l.step = "load" /\ l.kind \in 1 .. 3 /\ l.faces \in BOOLEAN
  /\ l.tg # NoGeom => Kind[l.tg] = l.kind
  /\ l.parts \in Seq(PartsOf(l.kind)) /\ l.lines \in Seq(LoadableLines)
  /\ Good(l.before)

\* What it has collected is in the tables of nodes and edges
Collected(l, nodes, edges) ==
  /\ l.kind = 1 => l.lines = <<>> /\ l.todo = {} /\ l.ids \subseteq DOMAIN nodes
  /\ l.kind # 1 => \A i \in l.ids : i \in Int /\ Abs(i) \in DOMAIN edges

\* No piece still to draw ends in the middle of another one or of an edge that is held
EndsApart(l, edges) ==
  \A c \in l.todo :
    /\ OnGrid(c)
    /\ \A d \in l.todo : {StartPoint(c), EndPoint(c)} \cap InteriorVertices(d) = {}
    /\ \A i \in l.ids : {StartPoint(c), EndPoint(c)} \cap InteriorVertices(edges[Abs(i)].geom) = {}

\* The edges held and what is still to draw are the line
Covered(l, edges) ==
  (UNION {SegmentMids(edges[Abs(d)].geom) : d \in l.ids})
    \cup (UNION {SegmentMids(c) : c \in l.todo \cup Range(l.lines)})
  = UNION {SegmentMids(c) : c \in Range(Head(l.parts))}

OneLine(l, edges) ==
  l.kind = 2 =>
    /\ l.parts # <<>> => Covered(l, edges)
    /\ l.lines # <<>> => l.parts # <<>> /\ l.lines = Head(l.parts) /\ l.todo = {} /\ l.ids = {}

LineLoad(l, nodes, edges) ==
  Requested(l) /\ Collected(l, nodes, edges) /\ EndsApart(l, edges) /\ OneLine(l, edges)

\* lwt_Polygonize gives rings the faces it has made
SideLoad(l, k) ==
  /\ DOMAIN l = {"step", "todo", "shells", "holes", "before"}
  /\ l.step = "sides" /\ Good(l.before)
  /\ \A s \in l.shells : s.face \in 0 .. k

LoadInv ==
  /\ PlanarInv
  /\ load = Idle \/ LineLoad(load, node, edge) \/ SideLoad(load, seq.face)

\* The three kinds of statement
LEMMA LoadSteps ==
  ASSUME LoadInv
  PROVE  /\ load = Idle => load.step = "idle"
         /\ load.step = "load" => LineLoad(load, node, edge)
         /\ load.step = "sides" => SideLoad(load, seq.face)
         /\ load.step \in {"idle", "load", "sides"}
         /\ Good(Tables)
<1>1. load = Idle => load.step = "idle"
  BY DEF Idle
<1>2. LineLoad(load, node, edge) => load.step = "load"
  BY DEF LineLoad, Requested
<1>3. SideLoad(load, seq.face) => load.step = "sides"
  BY DEF SideLoad
<1> QED
  BY <1>1, <1>2, <1>3 DEF LoadInv, PlanarInv, Inv, Good

\* Tables that are stored are the tables
LEMMA StoreFacts ==
  ASSUME NEW t, Good(t), Store(t)
  PROVE  PlanarInv' /\ node' = t.node /\ edge' = t.edge /\ seq' = t.seq
<1>1. /\ Tables'.node = t.node /\ Tables'.edge = t.edge /\ Tables'.face = t.face
      /\ Tables'.relation = t.relation /\ Tables'.seq = t.seq /\ DOMAIN Tables' = DOMAIN t
  BY DEF Store, Tables, Good, Sound, Base, Shaped
<1>2. Inv'
  <2>1. Shaped(Tables)' /\ Numbered(Tables)' /\ Sided(Tables)'
    BY <1>1 DEF Good, Sound, Base, Shaped, Numbered, Sided
  <2>2. Drawn(Tables)' /\ Anchored(Tables)' /\ Named(Tables)'
    BY <1>1 DEF Good, Sound, Base, Drawn, EndsAtNodes, Anchored, Named, Names
  <2> QED
    BY <2>1, <2>2 DEF Inv, Sound, Base
<1>3. Apart(Tables)'
  BY <1>1 DEF Good, Apart, CheckEdgeCrossing
<1> QED
  BY <1>2, <1>3 DEF PlanarInv, Store

\* An edit that succeeds leaves its tables, one that fails those the statement began with
LEMMA ContinueFacts ==
  ASSUME NEW u, NEW next, Continue(u, next), u.err = "done" => Good(u), Good(load.before)
  PROVE  /\ PlanarInv'
         /\ \/ load' = Idle
            \/ u.err = "done" /\ load' = next /\ node' = u.node /\ edge' = u.edge /\ seq' = u.seq
<1>1. CASE u.err = "done"
  BY <1>1, StoreFacts DEF Continue
<1>2. CASE u.err # "done"
  BY <1>2, StoreFacts DEF Continue
<1> QED
  BY <1>1, <1>2

\* Nothing changes while no table is written
LEMMA UnchangedTables ==
  ASSUME PlanarInv, UNCHANGED vars
  PROVE  PlanarInv'
BY DEF vars, PlanarInv, Inv, Tables, Sound, Base, Shaped, Numbered, Sided, Drawn, EndsAtNodes,
       Anchored, Named, Names, Apart, CheckEdgeCrossing

\* A sequence of members of a set is one of members of a larger set
LEMMA SeqOfMore ==
  ASSUME NEW S, NEW T, NEW s \in Seq(S), \A x \in Range(s) : x \in T
  PROVE  s \in Seq(T)
<1>1. \A i \in 1 .. Len(s) : s[i] \in Range(s)
  BY DEF Range
<1> QED
  BY <1>1

\* The parts of a request are points or sequences of lines
LEMMA RequestFacts ==
  ASSUME NEW r \in Requests
  PROVE  /\ r.kind \in 1 .. 3 /\ r.faces \in BOOLEAN
         /\ r.tg # NoGeom => Kind[r.tg] = r.kind
         /\ r.parts \in Seq(PartsOf(r.kind)) /\ r.parts # <<>>
<1>1. /\ r.kind \in 1 .. 3 /\ r.faces \in BOOLEAN
      /\ r.tg # NoGeom => Kind[r.tg] = r.kind
      /\ r.parts \in Seq(Range(r.parts)) /\ r.parts # <<>>
  BY RequestsAreLoads
<1>2. ASSUME NEW part \in Range(r.parts) PROVE part \in PartsOf(r.kind)
  <2>1. CASE r.kind = 1
    BY <2>1, RequestsAreLoads DEF PartsOf
  <2>2. CASE r.kind # 1
    <3>1. /\ part \in Seq(Range(part)) /\ (r.kind = 2 => Len(part) = 1)
          /\ \A c \in Range(part) : /\ c \in Seq(LatticePoints) /\ IsCurve(c)
                                    /\ Cardinality(SegmentMids(c)) = Len(c) - 1
      BY <2>2, RequestsAreLoads DEF Lines
    <3>2. \A c \in Range(part) : c \in LoadableLines
      BY <3>1 DEF LoadableLines, Loadable, OnGrid
    <3>3. part \in Seq(LoadableLines)
      BY <3>1, <3>2, SeqOfMore
    <3> QED
      BY <2>2, <3>1, <3>3 DEF PartsOf
  <2> QED
    BY <2>1, <2>2
<1>3. r.parts \in Seq(PartsOf(r.kind))
  BY <1>1, <1>2, SeqOfMore
<1> QED
  BY <1>1, <1>3

\* The lines of a part
LEMMA PartFacts ==
  ASSUME NEW kind \in 1 .. 3, NEW parts \in Seq(PartsOf(kind)), parts # <<>>
  PROVE  /\ Head(parts) \in PartsOf(kind) /\ Tail(parts) \in Seq(PartsOf(kind))
         /\ Lines(kind, Head(parts)) \in Seq(LoadableLines)
         /\ kind = 1 => Lines(kind, Head(parts)) = <<>>
         /\ kind = 2 => Lines(kind, Head(parts)) = Head(parts) /\ Len(Head(parts)) = 1
<1>1. Head(parts) \in PartsOf(kind) /\ Tail(parts) \in Seq(PartsOf(kind))
  OBVIOUS
<1>2. <<>> \in Seq(LoadableLines)
  OBVIOUS
<1> QED
  BY <1>1, <1>2 DEF PartsOf, Lines

\* A sequence with one member
LEMMA OneMember ==
  ASSUME NEW S, NEW s \in Seq(S), Len(s) = 1
  PROVE  Range(s) = {Head(s)} /\ Tail(s) = <<>>
<1>1. DOMAIN s = {1} /\ Head(s) = s[1]
  OBVIOUS
<1>2. Range(s) = {s[1]}
  BY <1>1 DEF Range
<1>3. Tail(s) \in Seq(S) /\ Len(Tail(s)) = 0
  OBVIOUS
<1>4. \A x \in Seq(S) : Len(x) = 0 => x = <<>>
  OBVIOUS
<1> QED
  BY <1>1, <1>2, <1>3, <1>4

\* What it is to cover, segment by segment
LEMMA CoveredIs ==
  ASSUME NEW l, NEW edges
  PROVE  Covered(l, edges) <=>
           \A m : \/ \E d \in l.ids : m \in SegmentMids(edges[Abs(d)].geom)
                  \/ \E c \in l.todo : m \in SegmentMids(c)
                  \/ \E c \in Range(l.lines) : m \in SegmentMids(c)
                <=> \E c \in Range(Head(l.parts)) : m \in SegmentMids(c)
<1> DEFINE H == UNION {SegmentMids(edges[Abs(d)].geom) : d \in l.ids}
           D == UNION {SegmentMids(c) : c \in l.todo \cup Range(l.lines)}
           L == UNION {SegmentMids(c) : c \in Range(Head(l.parts))}
<1>1. \A m : m \in H <=> \E d \in l.ids : m \in SegmentMids(edges[Abs(d)].geom)
  OBVIOUS
<1>2. \A m : m \in D <=> \/ \E c \in l.todo : m \in SegmentMids(c)
                         \/ \E c \in Range(l.lines) : m \in SegmentMids(c)
  OBVIOUS
<1>3. \A m : m \in L <=> \E c \in Range(Head(l.parts)) : m \in SegmentMids(c)
  OBVIOUS
<1>4. Covered(l, edges) <=> H \cup D = L
  BY DEF Covered
<1> HIDE DEF H, D, L
<1>5. H \cup D = L <=> \A m : m \in H \/ m \in D <=> m \in L
  <2>1. ASSUME \A m : m \in H \/ m \in D <=> m \in L PROVE H \cup D = L
    BY <2>1
  <2>2. ASSUME H \cup D = L PROVE \A m : m \in H \/ m \in D <=> m \in L
    BY <2>2
  <2> QED
    BY <2>1, <2>2
<1> QED
  BY <1>1, <1>2, <1>3, <1>4, <1>5

\* A statement that has nothing in its hands has kept what it should
LEMMA FreshLoad ==
  ASSUME NEW l, NEW nodes, NEW edges, Requested(l), l.ids = {}, l.todo = {},
         l.parts # <<>> => l.lines = Lines(l.kind, Head(l.parts)),
         l.parts = <<>> => l.lines = <<>>
  PROVE  LineLoad(l, nodes, edges)
<1>1. l.kind \in 1 .. 3 /\ l.parts \in Seq(PartsOf(l.kind))
  BY DEF Requested
<1>2. Collected(l, nodes, edges)
  BY <1>1, PartFacts DEF Collected
<1>3. EndsApart(l, edges)
  BY DEF EndsApart
<1>4. OneLine(l, edges)
  <2>1. ASSUME l.kind = 2, l.parts # <<>> PROVE l.lines = Head(l.parts)
    BY <1>1, <2>1, PartFacts
  <2>2. ASSUME l.kind = 2, l.parts # <<>> PROVE Covered(l, edges)
    BY <2>1, <2>2, CoveredIs
  <2> QED
    BY <2>1, <2>2 DEF OneLine
<1> QED
  BY <1>2, <1>3, <1>4 DEF LineLoad

\* A statement begins
LEMMA BeginLoadKeepsInv ==
  ASSUME LoadInv, NEW r \in Requests, BeginLoad(r)
  PROVE  LoadInv'
<1>1. PlanarInv'
  BY UnchangedTables DEF BeginLoad, LoadInv
<1>2. Good(Tables)
  BY LoadSteps
<1>3. /\ r.kind \in 1 .. 3 /\ r.faces \in BOOLEAN
      /\ r.tg # NoGeom => Kind[r.tg] = r.kind
      /\ r.parts \in Seq(PartsOf(r.kind)) /\ r.parts # <<>>
  BY RequestFacts
<1>4. Lines(r.kind, Head(r.parts)) \in Seq(LoadableLines)
  BY <1>3, PartFacts
<1>5. /\ DOMAIN load' = {"step", "kind", "faces", "tg", "parts", "lines", "todo", "ids",
                         "before", "shape"}
      /\ load'.step = "load" /\ load'.kind = r.kind /\ load'.faces = r.faces
      /\ load'.tg = r.tg /\ load'.parts = r.parts /\ load'.lines = Lines(r.kind, Head(r.parts))
      /\ load'.todo = {} /\ load'.ids = {} /\ load'.before = Tables
  BY DEF BeginLoad
<1>6. Requested(load')
  BY <1>2, <1>3, <1>4, <1>5 DEF Requested
<1>7. LineLoad(load', node', edge')
  BY <1>3, <1>5, <1>6, FreshLoad
<1> QED
  BY <1>1, <1>7 DEF LoadInv

\* A point becomes a node
LEMMA LoadPointKeepsInv ==
  ASSUME LoadInv, LoadPoint
  PROVE  LoadInv'
<1> DEFINE p == Head(load.parts)
<1>1. LineLoad(load, node, edge) /\ Good(Tables) /\ Good(load.before)
  BY LoadSteps DEF LoadPoint, Loading, LineLoad, Requested
<1>2. p \in LatticePoints /\ load.kind = 1 /\ load.todo = {} /\ load.lines = <<>>
  BY <1>1 DEF LoadPoint, LineLoad, Requested, Collected, PartsOf
<1>3. PICK u \in AddPoint(Tables, p, TRUE) : Continue(u, [load EXCEPT !.ids = NodesAt(u, p)])
  BY DEF LoadPoint
<1>4. Good(u)
  BY <1>1, <1>2, <1>3, AddPointFacts DEF PointAdded
<1> HIDE DEF p
<1>5. /\ PlanarInv'
      /\ \/ load' = Idle
         \/ load' = [load EXCEPT !.ids = NodesAt(u, p)] /\ node' = u.node
  BY <1>1, <1>3, <1>4, ContinueFacts
<1>6. ASSUME load' = [load EXCEPT !.ids = NodesAt(u, p)], node' = u.node
      PROVE  LineLoad(load', node', edge')
  <2>1. /\ DOMAIN load' = DOMAIN load
        /\ \A x \in DOMAIN load \ {"ids"} : load'[x] = load[x]
    BY <1>6
  <2>2. Requested(load) /\ load'.ids = NodesAt(u, p)
    BY <1>1, <1>6 DEF LineLoad, Requested
  <2>3. Requested(load')
    BY <2>1, <2>2 DEF Requested
  <2>4. load'.kind = 1 /\ load'.todo = {} /\ load'.lines = <<>>
    BY <1>2, <2>1, <2>2 DEF Requested
  <2>5. NodesAt(u, p) \subseteq DOMAIN node'
    BY <1>6 DEF NodesAt
  <2> QED
    BY <2>2, <2>3, <2>4, <2>5 DEF LineLoad, Collected, EndsApart, OneLine
<1> QED
  BY <1>5, <1>6 DEF LoadInv

\* A line is cut into pieces
LEMMA NodeLineKeepsInv ==
  ASSUME LoadInv, NodeLine
  PROVE  LoadInv'
<1> DEFINE c == Head(load.lines)
           P == Pieces(Tables, c)
<1>1. LineLoad(load, node, edge) /\ Base(Tables)
  BY LoadSteps DEF NodeLine, Loading, Good, Sound
<1>2. PlanarInv'
  BY UnchangedTables DEF NodeLine, LoadInv
<1>3. Loadable(c) /\ Tail(load.lines) \in Seq(LoadableLines)
  <2>1. load.lines \in Seq(LoadableLines) /\ load.lines # <<>>
    BY <1>1 DEF NodeLine, LineLoad, Requested
  <2>2. c \in LoadableLines /\ Tail(load.lines) \in Seq(LoadableLines)
    BY <2>1
  <2> QED
    BY <2>2 DEF LoadableLines
<1> HIDE DEF c
<1>4. /\ \A d \in P : /\ OnGrid(d) /\ BreaksAt(Tables, c, StartPoint(d))
                      /\ BreaksAt(Tables, c, EndPoint(d))
                      /\ \A p \in InteriorVertices(d) : ~BreaksAt(Tables, c, p)
      /\ UNION {SegmentMids(d) : d \in P} = SegmentMids(c)
  BY <1>1, <1>3, PieceFacts, PiecesCover
<1> HIDE DEF P
<1>5. load' = [load EXCEPT !.lines = Tail(@), !.todo = P, !.ids = {}]
  BY DEF NodeLine, P, c
<1>6. /\ DOMAIN load' = DOMAIN load
      /\ \A x \in DOMAIN load \ {"lines", "todo", "ids"} : load'[x] = load[x]
  BY <1>5
<1>7. Requested(load) /\ load'.lines = Tail(load.lines) /\ load'.todo = P /\ load'.ids = {}
  BY <1>1, <1>5 DEF LineLoad, Requested
<1>8. Requested(load')
  BY <1>3, <1>6, <1>7 DEF Requested
<1>9. load'.kind = load.kind /\ load'.parts = load.parts
  BY <1>6, <1>7 DEF Requested
<1>10. Collected(load', node', edge')
  BY <1>1, <1>7, <1>9 DEF LineLoad, Collected, NodeLine
<1>11. EndsApart(load', edge')
  BY <1>4, <1>7 DEF EndsApart
<1>12. OneLine(load', edge')
  <2> SUFFICES ASSUME load.kind = 2 PROVE OneLine(load', edge')
    BY <1>9 DEF OneLine
  <2>1. load.parts # <<>> /\ load.lines = Head(load.parts)
    BY <1>1 DEF LineLoad, OneLine, NodeLine
  <2>2. Len(load.lines) = 1 /\ load.lines \in Seq(LoadableLines)
    BY <1>7, <2>1, PartFacts DEF Requested
  <2>3. Range(load.lines) = {c} /\ Tail(load.lines) = <<>> /\ Range(Tail(load.lines)) = {}
    <3>1. Range(load.lines) = {c} /\ Tail(load.lines) = <<>>
      BY <2>2, OneMember DEF c
    <3>2. Range(<<>>) = {}
      BY DEF Range
    <3> QED
      BY <3>1, <3>2
  <2>4. Covered(load', edge')
    <3>1. \A m : m \in SegmentMids(c) <=> \E d \in P : m \in SegmentMids(d)
      BY <1>4
    <3>2. /\ load'.ids = {} /\ load'.todo = P /\ Range(load'.lines) = {}
          /\ Range(Head(load'.parts)) = {c}
      BY <1>7, <1>9, <2>1, <2>3
    <3>3. \A m : \/ \E d \in load'.ids : m \in SegmentMids(edge'[Abs(d)].geom)
                 \/ \E d \in load'.todo : m \in SegmentMids(d)
                 \/ \E d \in Range(load'.lines) : m \in SegmentMids(d)
               <=> \E d \in Range(Head(load'.parts)) : m \in SegmentMids(d)
      BY <3>1, <3>2
    <3> DEFINE l == load'
               E == edge'
    <3>4. \A m : \/ \E d \in l.ids : m \in SegmentMids(E[Abs(d)].geom)
                 \/ \E d \in l.todo : m \in SegmentMids(d)
                 \/ \E d \in Range(l.lines) : m \in SegmentMids(d)
               <=> \E d \in Range(Head(l.parts)) : m \in SegmentMids(d)
      BY <3>3
    <3> HIDE DEF l, E
    <3>5. Covered(l, E)
      BY <3>4, CoveredIs
    <3> QED
      BY <3>5 DEF l, E
  <2> QED
    BY <1>7, <2>3, <2>4 DEF OneLine
<1> QED
  BY <1>2, <1>8, <1>10, <1>11, <1>12 DEF LoadInv, LineLoad

\* A piece is drawn
LEMMA LoadPieceKeepsInv ==
  ASSUME LoadInv, LoadPiece
  PROVE  LoadInv'
<1>1. /\ LineLoad(load, node, edge) /\ Good(Tables) /\ Good(load.before) /\ load.faces \in BOOLEAN
      /\ Requested(load)
  BY LoadSteps DEF LoadPiece, Loading, LineLoad, Requested
<1>2. PICK c \in load.todo : AddPiece(c)
  BY DEF LoadPiece
<1>3. OnGrid(c)
  BY <1>1 DEF LineLoad, EndsApart
<1>4. PICK u, next : /\ Continue(u, next)
                     /\ u.err = "done" =>
                          \E d : /\ PieceDrawn(Tables, u, c, d)
                                 /\ next = [load EXCEPT !.todo = @ \ {c}, !.ids = @ \cup {d}]
  BY <1>1, <1>2, <1>3, AddPieceFacts
<1>5. u.err = "done" => Good(u)
  BY <1>4 DEF PieceDrawn
<1>6. /\ PlanarInv'
      /\ \/ load' = Idle
         \/ u.err = "done" /\ load' = next /\ node' = u.node /\ edge' = u.edge
  BY <1>1, <1>4, <1>5, ContinueFacts
<1>7. ASSUME u.err = "done", load' = next, node' = u.node, edge' = u.edge
      PROVE  LineLoad(load', node', edge')
  <2>1. PICK d : /\ PieceDrawn(Tables, u, c, d)
                 /\ load' = [load EXCEPT !.todo = @ \ {c}, !.ids = @ \cup {d}]
    BY <1>4, <1>7
  <2>2. /\ DOMAIN load' = DOMAIN load
        /\ \A x \in DOMAIN load \ {"todo", "ids"} : load'[x] = load[x]
    BY <2>1
  <2>3. load'.todo = load.todo \ {c} /\ load'.ids = load.ids \cup {d}
    BY <1>1, <2>1 DEF Requested
  <2>4. Requested(load')
    BY <1>1, <2>2 DEF Requested
  <2>5. load'.kind = load.kind /\ load'.parts = load.parts /\ load'.lines = load.lines
    BY <1>1, <2>2 DEF Requested
  <2>6. load.kind # 1
    BY <1>1, <1>2 DEF LineLoad, Collected
  <2>7. /\ d \in Int /\ Abs(d) \in DOMAIN edge' /\ DOMAIN edge \subseteq DOMAIN edge'
        /\ SegmentMids(edge'[Abs(d)].geom) = SegmentMids(c)
        /\ InteriorVertices(edge'[Abs(d)].geom) \subseteq InteriorVertices(c)
        /\ \A e \in DOMAIN edge :
             {StartPoint(c), EndPoint(c)} \cap InteriorVertices(edge[e].geom) = {}
               => edge'[e].geom = edge[e].geom
    BY <1>7, <2>1, TablesFacts DEF PieceDrawn
  <2>8. \A i \in load.ids : i \in Int /\ Abs(i) \in DOMAIN edge
    BY <1>1, <2>6 DEF LineLoad, Collected
  <2>9. \A i \in load.ids : edge'[Abs(i)].geom = edge[Abs(i)].geom
    <3>1. \A i \in load.ids :
            {StartPoint(c), EndPoint(c)} \cap InteriorVertices(edge[Abs(i)].geom) = {}
      BY <1>1, <1>2 DEF LineLoad, EndsApart
    <3> QED
      BY <2>7, <2>8, <3>1
  <2>10. Collected(load', node', edge')
    BY <2>3, <2>5, <2>6, <2>7, <2>8 DEF Collected
  <2>11. EndsApart(load', edge')
    <3> SUFFICES ASSUME NEW c1 \in load.todo
                 PROVE  /\ OnGrid(c1)
                        /\ \A d1 \in load.todo :
                             {StartPoint(c1), EndPoint(c1)} \cap InteriorVertices(d1) = {}
                        /\ \A i \in load.ids \cup {d} :
                             {StartPoint(c1), EndPoint(c1)}
                               \cap InteriorVertices(edge'[Abs(i)].geom) = {}
      BY <2>3 DEF EndsApart
    <3>1. /\ OnGrid(c1)
          /\ \A d1 \in load.todo : {StartPoint(c1), EndPoint(c1)} \cap InteriorVertices(d1) = {}
          /\ \A i \in load.ids :
               {StartPoint(c1), EndPoint(c1)} \cap InteriorVertices(edge[Abs(i)].geom) = {}
      BY <1>1 DEF LineLoad, EndsApart
    <3>2. {StartPoint(c1), EndPoint(c1)} \cap InteriorVertices(edge'[Abs(d)].geom) = {}
      BY <1>2, <2>7, <3>1
    <3> QED
      BY <2>9, <3>1, <3>2
  <2>12. OneLine(load', edge')
    <3> SUFFICES ASSUME load.kind = 2 PROVE OneLine(load', edge')
      BY <2>5 DEF OneLine
    <3>1. load.lines = <<>> /\ (load.parts # <<>> => Covered(load, edge))
      BY <1>1, <1>2 DEF LineLoad, OneLine
    <3>2. ASSUME load.parts # <<>> PROVE Covered(load', edge')
      <4>1. \A m : \/ \E i \in load.ids : m \in SegmentMids(edge[Abs(i)].geom)
                   \/ \E x \in load.todo : m \in SegmentMids(x)
                   \/ \E x \in Range(load.lines) : m \in SegmentMids(x)
                 <=> \E x \in Range(Head(load.parts)) : m \in SegmentMids(x)
        BY <3>1, <3>2, CoveredIs
      <4>2. \A m : (\E i \in load'.ids : m \in SegmentMids(edge'[Abs(i)].geom))
                     <=> \/ \E i \in load.ids : m \in SegmentMids(edge[Abs(i)].geom)
                         \/ m \in SegmentMids(c)
        BY <2>3, <2>7, <2>9
      <4>3. \A m : (\E x \in load.todo : m \in SegmentMids(x))
                     <=> (\E x \in load'.todo : m \in SegmentMids(x)) \/ m \in SegmentMids(c)
        BY <1>2, <2>3
      <4> DEFINE l == load'
                 E == edge'
      <4>4. \A m : \/ \E i \in l.ids : m \in SegmentMids(E[Abs(i)].geom)
                   \/ \E x \in l.todo : m \in SegmentMids(x)
                   \/ \E x \in Range(l.lines) : m \in SegmentMids(x)
                 <=> \E x \in Range(Head(l.parts)) : m \in SegmentMids(x)
        BY <2>5, <4>1, <4>2, <4>3
      <4> HIDE DEF l, E
      <4>5. Covered(l, E)
        BY <4>4, CoveredIs
      <4> QED
        BY <4>5 DEF l, E
    <3> QED
      BY <2>5, <3>1, <3>2 DEF OneLine
  <2> QED
    BY <2>4, <2>10, <2>11, <2>12 DEF LineLoad
<1> QED
  BY <1>6, <1>7 DEF LoadInv

\* Rows that name what is there are sound
LEMMA RowsAreGood ==
  ASSUME NEW t, Good(t), NEW kind \in 1 .. 3, NEW tg, tg # NoGeom => Kind[tg] = kind,
         NEW ids, kind = 1 => ids \subseteq DOMAIN t.node,
         kind = 2 => \A i \in ids : i \in Int /\ Abs(i) \in DOMAIN t.edge,
         kind = 3 => ids \subseteq DOMAIN t.face
  PROVE  Good([t EXCEPT !.relation = @ \cup Rows(tg, kind, ids)])
<1> DEFINE R == Rows(tg, kind, ids)
           u == [t EXCEPT !.relation = @ \cup R]
<1>1. Sound(t) /\ Base(t) /\ Shaped(t) /\ Anchored(t) /\ Named(t) /\ Apart(t)
  BY DEF Good, Sound, Base
<1>2. ASSUME NEW r \in R
      PROVE  DOMAIN r = {"tg", "type", "id"} /\ r.type = Kind[r.tg] /\ Names(t, r)
  <2>1. tg # NoGeom /\ \E i \in ids : r = [tg |-> tg, type |-> kind, id |-> i]
    BY DEF Rows
  <2>2. PICK i \in ids : r = [tg |-> tg, type |-> kind, id |-> i]
    BY <2>1
  <2>3. DOMAIN r = {"tg", "type", "id"} /\ r.tg = tg /\ r.type = kind /\ r.id = i
    BY <2>2
  <2> QED
    BY <2>1, <2>3 DEF Names
<1> HIDE DEF R
<1>3. /\ DOMAIN u = DOMAIN t /\ u.node = t.node /\ u.edge = t.edge /\ u.face = t.face
      /\ u.seq = t.seq /\ u.relation = t.relation \cup R
  BY <1>1 DEF Shaped
<1> HIDE DEF u
<1>4. SameDrawing(t, u) /\ KeepsAnchors(t, u)
  BY <1>1, <1>3, RowsDrawNothing
<1>5. Base(u) /\ Anchored(u) /\ Apart(u)
  BY <1>1, <1>4, SameDrawingIsSound
<1>6. Named(u)
  BY <1>1, <1>2, <1>3 DEF Named, Names
<1>7. Good(u)
  BY <1>5, <1>6 DEF Good, Sound
<1> QED
  BY <1>7 DEF u, R

\* toTopoGeom writes the rows of a part and turns to the next
LEMMA WriteRowsKeepsInv ==
  ASSUME LoadInv, WriteRows
  PROVE  LoadInv'
<1> DEFINE u == [Tables EXCEPT !.relation = @ \cup Rows(load.tg, load.kind, PartIds)]
<1>1. /\ LineLoad(load, node, edge) /\ Good(Tables) /\ Requested(load)
  BY LoadSteps DEF WriteRows, PartDone, Loading, LineLoad
<1>2. /\ load.kind \in 1 .. 3 /\ (load.tg # NoGeom => Kind[load.tg] = load.kind)
      /\ load.parts \in Seq(PartsOf(load.kind)) /\ Good(load.before)
  BY <1>1 DEF Requested
<1>3. load.parts # <<>> /\ load.todo = {} /\ load.lines = <<>> /\ Continue(u, NextPart)
  BY DEF WriteRows, PartDone
<1>4. Good(u)
  <2>1. Tables.node = node /\ Tables.edge = edge /\ Tables.face = face
    BY TablesFacts
  <2>2. load.kind = 1 => PartIds \subseteq DOMAIN Tables.node
    BY <1>1, <2>1 DEF LineLoad, Collected, PartIds
  <2>3. load.kind = 2 => \A i \in PartIds : i \in Int /\ Abs(i) \in DOMAIN Tables.edge
    BY <1>1, <2>1 DEF LineLoad, Collected, PartIds
  <2>4. load.kind = 3 => PartIds \subseteq DOMAIN Tables.face
    BY DEF PartIds, FacesCovered
  <2> QED
    BY <1>1, <1>2, <2>2, <2>3, <2>4, RowsAreGood
<1> HIDE DEF u
<1>5. PlanarInv' /\ (load' = Idle \/ load' = NextPart)
  BY <1>2, <1>3, <1>4, ContinueFacts
<1>6. ASSUME load' = NextPart PROVE LineLoad(load', node', edge')
  <2> DEFINE rest == Tail(load.parts)
             lines == IF rest = <<>> THEN <<>> ELSE Lines(load.kind, Head(rest))
             l == load'
  <2>1. /\ DOMAIN l = DOMAIN load
        /\ \A x \in DOMAIN load \ {"parts", "ids", "lines", "shape"} : l[x] = load[x]
    BY <1>6 DEF NextPart
  <2>2. l.parts = rest /\ l.ids = {} /\ l.lines = lines
    BY <1>1, <1>6 DEF NextPart, Requested
  <2>3. rest \in Seq(PartsOf(load.kind))
    BY <1>2, <1>3, PartFacts
  <2> HIDE DEF rest
  <2>4. lines \in Seq(LoadableLines)
    <3>1. <<>> \in Seq(LoadableLines)
      OBVIOUS
    <3> QED
      BY <1>2, <2>3, <3>1, PartFacts
  <2> HIDE DEF lines
  <2>5. Requested(l) /\ l.kind = load.kind /\ l.todo = {}
    BY <1>1, <1>3, <2>1, <2>2, <2>3, <2>4 DEF Requested
  <2> HIDE DEF l
  <2>6. LineLoad(l, node', edge')
    BY <2>2, <2>5, FreshLoad DEF lines
  <2> QED
    BY <2>6 DEF l
<1> QED
  BY <1>5, <1>6 DEF LoadInv

\* The sides along a ring get a face that was handed out
LEMMA SetSidesFacts ==
  ASSUME NEW t, Good(t), NEW ring, NEW f \in 0 .. t.seq.face
  PROVE  LET u == SetSides(t, ring, f)
         IN  Good(u) /\ u.seq = t.seq
<1> DEFINE u == SetSides(t, ring, f)
<1>1. Sound(t) /\ Base(t) /\ Shaped(t) /\ Sided(t) /\ Numbered(t) /\ Apart(t)
  BY DEF Good, Sound, Base
<1>2. /\ DOMAIN u = DOMAIN t /\ u.node = t.node /\ u.face = t.face /\ u.relation = t.relation
      /\ u.seq = t.seq /\ DOMAIN u.edge = DOMAIN t.edge
      /\ \A e \in DOMAIN t.edge :
           u.edge[e] = [t.edge[e] EXCEPT !.face_left = IF e \in Range(ring) THEN f ELSE @,
                                         !.face_right = IF -e \in Range(ring) THEN f ELSE @]
  BY <1>1 DEF SetSides, Shaped
<1> HIDE DEF u
<1>3. ASSUME NEW e \in DOMAIN t.edge
      PROVE  /\ DOMAIN u.edge[e] = DOMAIN t.edge[e]
             /\ u.edge[e].start_node = t.edge[e].start_node
             /\ u.edge[e].end_node = t.edge[e].end_node
             /\ u.edge[e].geom = t.edge[e].geom
             /\ u.edge[e].face_left \in {f, t.edge[e].face_left}
             /\ u.edge[e].face_right \in {f, t.edge[e].face_right}
  BY <1>1, <1>2 DEF Shaped
<1>4. \A e \in DOMAIN t.edge : /\ u.edge[e].face_left \in -1 .. t.seq.face
                               /\ u.edge[e].face_right \in -1 .. t.seq.face
  BY <1>1, <1>3 DEF Sided, Numbered
<1>5. FacesOnly(t, u)
  BY <1>1, <1>2, <1>3, <1>4, SidesAreFacesOnly
<1>6. Good(u)
  BY <1>1, <1>5, FacesOnlyIsSound DEF Good
<1> QED
  BY <1>2, <1>6 DEF u

\* lwt_Polygonize begins
LEMMA BeginPolygonizeKeepsInv ==
  ASSUME LoadInv, BeginPolygonize
  PROVE  LoadInv'
<1>1. PlanarInv'
  BY UnchangedTables DEF BeginPolygonize, LoadInv
<1>2. Good(Tables)
  BY LoadSteps
<1>3. /\ DOMAIN load' = {"step", "todo", "shells", "holes", "before"}
      /\ load'.step = "sides" /\ load'.shells = {} /\ load'.before = Tables
  BY DEF BeginPolygonize
<1>4. SideLoad(load', seq'.face)
  BY <1>2, <1>3 DEF SideLoad
<1> QED
  BY <1>1, <1>4 DEF LoadInv

\* A side gets a new face, or is left for later
LEMMA RegisterSideKeepsInv ==
  ASSUME LoadInv, RegisterSide
  PROVE  LoadInv'
<1>1. /\ SideLoad(load, seq.face) /\ Good(Tables) /\ Good(load.before)
      /\ Base(Tables) /\ Sound(Tables) /\ Apart(Tables)
  BY LoadSteps DEF RegisterSide, SideLoad, Good, Sound
<1>2. Tables.seq = seq /\ seq.face \in Nat
  BY <1>1, TablesFacts DEF Base, Numbered
<1>3. PICK ring :
        LET shell == RingShell(Tables, ring)
            box == Box(Range(shell))
            f == NewFace(Tables)
            visited == [load EXCEPT !.todo = @ \ Range(ring)]
        IN  IF TwiceArea(shell) > 0
            THEN Continue(SetSides(InsertFace(Tables, box), ring, f),
                          [visited EXCEPT !.shells = @ \cup
                             {[ring |-> ring, box |-> box, face |-> f]}])
            ELSE Continue(Tables, [visited EXCEPT !.holes = Append(@, ring)])
  BY DEF RegisterSide
<1> DEFINE shell == RingShell(Tables, ring)
           box == Box(Range(shell))
           f == NewFace(Tables)
           visited == [load EXCEPT !.todo = @ \ Range(ring)]
           t == InsertFace(Tables, box)
           u == SetSides(t, ring, f)
           made == [ring |-> ring, box |-> box, face |-> f]
           next == [visited EXCEPT !.shells = @ \cup {made}]
           passed == [visited EXCEPT !.holes = Append(@, ring)]
<1>4. Continue(u, next) \/ Continue(Tables, passed)
  BY <1>3
<1>5. made.face = f
  OBVIOUS
<1> HIDE DEF shell, box, made
<1>6. /\ DOMAIN next = DOMAIN load /\ next.shells = load.shells \cup {made}
      /\ next.step = load.step /\ next.before = load.before
      /\ DOMAIN passed = DOMAIN load /\ passed.shells = load.shells
      /\ passed.step = load.step /\ passed.before = load.before
  BY <1>1 DEF SideLoad
<1> HIDE DEF visited, next, passed
<1>7. FacesOnly(Tables, t) /\ t.seq.face = seq.face + 1 /\ f = seq.face + 1
  BY <1>1, <1>2, InsertFaceFacts DEF NewFace
<1> HIDE DEF t, f
<1>8. Good(t)
  BY <1>1, <1>7, FacesOnlyIsSound DEF Good
<1>9. f \in 0 .. t.seq.face
  BY <1>2, <1>7
<1>10. Good(u) /\ u.seq = t.seq
  BY <1>8, <1>9, SetSidesFacts
<1> HIDE DEF u
<1>11. CASE Continue(u, next)
  <2>1. PlanarInv' /\ (load' = Idle \/ (load' = next /\ seq' = u.seq))
    BY <1>1, <1>10, <1>11, ContinueFacts
  <2>2. ASSUME load' = next, seq' = u.seq PROVE SideLoad(load', seq'.face)
    <3>1. seq'.face = seq.face + 1
      BY <1>7, <1>10, <2>2
    <3>2. \A s \in load'.shells : s.face \in 0 .. seq'.face
      BY <1>1, <1>2, <1>5, <1>6, <1>7, <2>2, <3>1 DEF SideLoad
    <3> QED
      BY <1>1, <1>6, <2>2, <3>2 DEF SideLoad
  <2> QED
    BY <2>1, <2>2 DEF LoadInv
<1>12. CASE Continue(Tables, passed)
  <2>1. PlanarInv' /\ (load' = Idle \/ (load' = passed /\ seq' = seq))
    BY <1>1, <1>2, <1>12, ContinueFacts
  <2>2. ASSUME load' = passed, seq' = seq PROVE SideLoad(load', seq'.face)
    BY <1>1, <1>6, <2>2 DEF SideLoad
  <2> QED
    BY <2>1, <2>2 DEF LoadInv
<1> QED
  BY <1>4, <1>11, <1>12

\* A hole gets the face of the shell around it
LEMMA AssignHoleKeepsInv ==
  ASSUME LoadInv, AssignHole
  PROVE  LoadInv'
<1>1. SideLoad(load, seq.face) /\ Good(Tables) /\ Good(load.before) /\ Base(Tables)
  BY LoadSteps DEF AssignHole, SideLoad, Good, Sound
<1>2. Tables.seq = seq /\ seq.face \in Nat
  BY <1>1, TablesFacts DEF Base, Numbered
<1> DEFINE ring == Head(load.holes)
           next == [load EXCEPT !.holes = Tail(@)]
<1>3. PICK f \in FaceContainingRing(ring) : Continue(SetSides(Tables, ring, f), next)
  BY DEF AssignHole
<1>4. /\ DOMAIN next = DOMAIN load /\ next.shells = load.shells
      /\ next.step = load.step /\ next.before = load.before
  BY <1>1 DEF SideLoad
<1> HIDE DEF next, ring
<1>5. f = Universe \/ \E s \in load.shells : f = s.face
  BY DEF FaceContainingRing
<1>6. f \in 0 .. Tables.seq.face
  BY <1>1, <1>2, <1>5 DEF SideLoad, Universe
<1> DEFINE u == SetSides(Tables, ring, f)
<1>7. Good(u) /\ u.seq = seq
  BY <1>1, <1>2, <1>6, SetSidesFacts
<1> HIDE DEF u
<1>8. PlanarInv' /\ (load' = Idle \/ (load' = next /\ seq' = seq))
  BY <1>1, <1>3, <1>7, ContinueFacts DEF u
<1>9. ASSUME load' = next, seq' = seq PROVE SideLoad(load', seq'.face)
  BY <1>1, <1>4, <1>9 DEF SideLoad
<1> QED
  BY <1>8, <1>9 DEF LoadInv

\* Every step of a load, and every call between two, keeps the invariant
LEMMA LoadInvHolds == LoadSpec => []LoadInv
<1>1. LoadInit => LoadInv
  BY InitIsPlanar DEF LoadInit, LoadInv
<1>2. LoadInv /\ [LoadNext]_loadVars => LoadInv'
  <2> SUFFICES ASSUME LoadInv, [LoadNext]_loadVars PROVE LoadInv'
    OBVIOUS
  <2>1. ASSUME UNCHANGED vars, load' = load \/ load' = Idle PROVE LoadInv'
    <3>1. PlanarInv'
      BY <2>1, UnchangedTables DEF LoadInv
    <3>2. node' = node /\ edge' = edge /\ seq' = seq
      BY <2>1 DEF vars
    <3>3. CASE load' = Idle
      BY <3>1, <3>3 DEF LoadInv
    <3>4. CASE load' = load
      BY <3>1, <3>2, <3>4 DEF LoadInv
    <3> QED
      BY <2>1, <3>3, <3>4
  <2>2. CASE UNCHANGED loadVars
    BY <2>1, <2>2 DEF loadVars
  <2>3. CASE EndLoad \/ EndPolygonize
    BY <2>1, <2>3 DEF EndLoad, EndPolygonize
  <2>4. CASE \/ \E r \in Requests : BeginLoad(r)
             \/ BeginPolygonize
    BY <2>4, BeginLoadKeepsInv, BeginPolygonizeKeepsInv
  <2>5. CASE LoadPoint \/ NodeLine \/ LoadPiece \/ WriteRows
    BY <2>5, LoadPointKeepsInv, NodeLineKeepsInv, LoadPieceKeepsInv, WriteRowsKeepsInv
  <2>6. CASE RegisterSide \/ AssignHole
    BY <2>6, RegisterSideKeepsInv, AssignHoleKeepsInv
  <2>7. CASE load = Idle /\ Next /\ UNCHANGED load
    <3>1. PlanarInv'
      BY <2>7, NextKeepsInv DEF LoadInv, PlanarInv
    <3>2. load' = Idle
      BY <2>7
    <3> QED
      BY <3>1, <3>2 DEF LoadInv
  <2> QED
    BY <2>2, <2>3, <2>4, <2>5, <2>6, <2>7 DEF LoadNext, LoadStep
<1> QED
  BY <1>1, <1>2, PTL DEF LoadSpec

-----------------------------------------------------------------------------
(* What loads promise.                                                     *)

\* Whatever geometries are loaded, over whatever is drawn, and wherever a load fails, there are
\* never two nodes in one place, an edge across or onto another, or a node within an edge: not
\* between two edits of a load either
THEOREM LoadsKeepPlanarity == LoadSpec => []DrawingIsPlanar
<1>1. LoadInv => DrawingIsPlanar
  BY TablesFacts
  DEF LoadInv, PlanarInv, Inv, Sound, Base, Drawn, Apart, DrawingIsPlanar
<1> QED
  BY <1>1, LoadInvHolds, PTL

\* The rows that toTopoGeom writes name primitives that are there, and no later part, load or
\* failure leaves one that names something else
THEOREM LoadedRowsAreValid == LoadSpec => []RelationsReferToPrimitives
<1>1. LoadInv => RelationsReferToPrimitives
  <2> SUFFICES ASSUME LoadInv, NEW r \in relation
               PROVE  r.type = Kind[r.tg] /\ Abs(r.id) \in Primitives(r.type)
    BY DEF RelationsReferToPrimitives
  <2>1. Numbered(Tables) /\ Named(Tables) /\ r \in Tables.relation
    BY TablesFacts DEF LoadInv, PlanarInv, Inv, Sound, Base
  <2>2. r.type = Kind[r.tg] /\ (r.type # 2 => Abs(r.id) = r.id) /\ Names(Tables, r)
    BY <2>1, RowFacts DEF Named
  <2> QED
    BY <2>2, TablesFacts DEF Names, Primitives
<1> QED
  BY <1>1, LoadInvHolds, PTL

\* The edges whose ids a load of a line has collected, with what it still has to draw, are the
\* line, at every step: no edit of the load takes from an edge whose id is held
THEOREM HeldEdgesCoverLine == LoadSpec => []IdsCoverLine
<1>1. LoadInv => IdsCoverLine
  <2> SUFFICES ASSUME LoadInv, load.step = "load", load.kind = 2, load.parts # <<>>
               PROVE  Covered(load, edge)
    BY DEF IdsCoverLine, Covered, Loading
  <2> QED
    BY LoadSteps DEF LineLoad, OneLine
<1> QED
  BY <1>1, LoadInvHolds, PTL

-----------------------------------------------------------------------------
(* The links of loads.                                                     *)

\* Every link turns clockwise, and did in the tables a statement falls back to
TurnInv == Turning(Tables) /\ (load # Idle => Turning(load.before))

\* An edit that keeps the links so, or fails
LEMMA ContinueTurns ==
  ASSUME NEW u, NEW next, Continue(u, next), u.err = "done" => Turning(u),
         Turning(load.before), next.before = load.before
  PROVE  TurnInv'
<1>1. CASE u.err = "done"
  <2>1. edge' = u.edge /\ load' = next /\ Turning(u)
    BY <1>1 DEF Continue, Store
  <2>2. Tables'.edge = u.edge
    BY <2>1 DEF Tables
  <2>3. Turning(Tables')
    BY <2>1, <2>2, TurningOfEdges
  <2> QED
    BY <2>1, <2>3 DEF TurnInv
<1>2. CASE u.err # "done"
  <2>1. edge' = load.before.edge /\ load' = Idle
    BY <1>2 DEF Continue, Store
  <2>2. Tables'.edge = load.before.edge
    BY <2>1 DEF Tables
  <2>3. Turning(Tables')
    BY <2>2, TurningOfEdges
  <2> QED
    BY <2>1, <2>3 DEF TurnInv
<1> QED
  BY <1>1, <1>2

\* Nothing is drawn
LEMMA UnchangedTurns ==
  ASSUME TurnInv, UNCHANGED vars, load' = Idle \/ load'.before = Tables
                                  \/ (load # Idle /\ load'.before = load.before)
  PROVE  TurnInv'
<1>1. Tables' = Tables
  BY DEF vars, Tables
<1>2. Turning(Tables')
  BY <1>1 DEF TurnInv
<1> QED
  BY <1>2 DEF TurnInv

\* A load of a point or a piece
LEMMA DrawingTurns ==
  ASSUME LoadInv, TurnInv, LoadPoint \/ LoadPiece
  PROVE  TurnInv'
<1>1. /\ LineLoad(load, node, edge) /\ Good(Tables) /\ Requested(load) /\ load # Idle
      /\ load.faces \in BOOLEAN
  BY LoadSteps DEF LoadPoint, LoadPiece, Loading, LineLoad, Requested
<1>2. Turning(Tables) /\ Turning(load.before)
  BY <1>1 DEF TurnInv
<1>3. CASE LoadPoint
  <2> DEFINE p == Head(load.parts)
  <2>1. p \in LatticePoints
    BY <1>1, <1>3 DEF LoadPoint, Requested, PartsOf
  <2>2. PICK u \in AddPoint(Tables, p, TRUE) : Continue(u, [load EXCEPT !.ids = NodesAt(u, p)])
    BY <1>3 DEF LoadPoint
  <2> HIDE DEF p
  <2>3. Turning(u)
    BY <1>1, <1>2, <2>1, <2>2, AddPointTurns
  <2>4. [load EXCEPT !.ids = NodesAt(u, p)].before = load.before
    BY <1>1 DEF Requested
  <2> QED
    BY <1>2, <2>2, <2>3, <2>4, ContinueTurns
<1>4. CASE LoadPiece
  <2>1. PICK c \in load.todo : AddPiece(c)
    BY <1>4 DEF LoadPiece
  <2>2. OnGrid(c)
    BY <1>1, <2>1 DEF LineLoad, EndsApart
  <2>3. PICK u, next :
          /\ Continue(u, next)
          /\ u.err = "done" =>
               /\ Turning(Tables) => Turning(u)
               /\ \E d : next = [load EXCEPT !.todo = @ \ {c}, !.ids = @ \cup {d}]
    BY <1>1, <2>1, <2>2, AddPieceFacts
  <2>4. CASE u.err = "done"
    <3>1. next.before = load.before
      BY <1>1, <2>3, <2>4 DEF Requested
    <3> QED
      BY <1>2, <2>3, <3>1, ContinueTurns
  <2>5. CASE u.err # "done"
    <3>1. Continue(u, load)
      BY <2>3, <2>5 DEF Continue
    <3> QED
      BY <1>2, <2>5, <3>1, ContinueTurns
  <2> QED
    BY <2>4, <2>5
<1> QED
  BY <1>3, <1>4

\* The sides of edges are no links
LEMMA SidesKeepTurning ==
  ASSUME NEW t, Base(t), Turning(t), NEW ring, NEW f
  PROVE  Turning(SetSides(t, ring, f))
<1> DEFINE u == SetSides(t, ring, f)
<1>1. Shaped(t)
  BY DEF Base
<1>2. /\ DOMAIN u.edge = DOMAIN t.edge
      /\ \A e \in DOMAIN t.edge :
           /\ u.edge[e].start_node = t.edge[e].start_node
           /\ u.edge[e].end_node = t.edge[e].end_node
           /\ u.edge[e].next_left = t.edge[e].next_left
           /\ u.edge[e].next_right = t.edge[e].next_right
           /\ u.edge[e].geom = t.edge[e].geom
  BY <1>1 DEF SetSides, Shaped
<1> HIDE DEF u
<1>3. SameLinks(t, u)
  BY <1>2 DEF SameLinks
<1>4. \A e \in DOMAIN t.edge : e \in Nat /\ e > 0
  BY DEF Base, Numbered
<1>5. Origins(u) = Origins(t) /\ Follows(u) = Follows(t) /\ Azimuths(u) = Azimuths(t)
  BY <1>3, <1>4, SameLinksSameDarts
<1>6. Turning(u)
  BY <1>5 DEF Turning
<1> QED
  BY <1>6 DEF u

\* Rows are written, or faces set
LEMMA LabellingTurns ==
  ASSUME LoadInv, TurnInv, WriteRows \/ RegisterSide \/ AssignHole
  PROVE  TurnInv'
<1>1. load # Idle /\ Turning(Tables) /\ Turning(load.before) /\ Base(Tables) /\ Good(Tables)
  BY LoadSteps DEF WriteRows, PartDone, Loading, RegisterSide, AssignHole, TurnInv, Good, Sound
<1>2. CASE WriteRows
  <2> DEFINE u == [Tables EXCEPT !.relation = @ \cup Rows(load.tg, load.kind, PartIds)]
  <2>1. Requested(load)
    BY <1>2, LoadSteps DEF WriteRows, PartDone, Loading, LineLoad
  <2>2. NextPart.before = load.before
    BY <2>1 DEF Requested, NextPart
  <2>3. u.edge = Tables.edge
    BY DEF Tables
  <2>4. Continue(u, NextPart)
    BY <1>2 DEF WriteRows
  <2> HIDE DEF u
  <2> QED
    BY <1>1, <2>2, <2>3, <2>4, TurningOfEdges, ContinueTurns
<1>3. CASE RegisterSide
  <2>1. SideLoad(load, seq.face)
    BY <1>3, LoadSteps DEF RegisterSide
  <2>2. PICK ring :
          LET shell == RingShell(Tables, ring)
              box == Box(Range(shell))
              f == NewFace(Tables)
              visited == [load EXCEPT !.todo = @ \ Range(ring)]
          IN  IF TwiceArea(shell) > 0
              THEN Continue(SetSides(InsertFace(Tables, box), ring, f),
                            [visited EXCEPT !.shells = @ \cup
                               {[ring |-> ring, box |-> box, face |-> f]}])
              ELSE Continue(Tables, [visited EXCEPT !.holes = Append(@, ring)])
    BY <1>3 DEF RegisterSide
  <2> DEFINE box == Box(Range(RingShell(Tables, ring)))
             f == NewFace(Tables)
             visited == [load EXCEPT !.todo = @ \ Range(ring)]
             t == InsertFace(Tables, box)
             u == SetSides(t, ring, f)
             next == [visited EXCEPT !.shells = @ \cup {[ring |-> ring, box |-> box, face |-> f]}]
             passed == [visited EXCEPT !.holes = Append(@, ring)]
  <2>3. Continue(u, next) \/ Continue(Tables, passed)
    BY <2>2
  <2>4. next.before = load.before /\ passed.before = load.before
    BY <2>1 DEF SideLoad
  <2> HIDE DEF next, passed, visited, box
  <2>5. t.edge = Tables.edge /\ Base(t)
    <3>1. FacesOnly(Tables, t) /\ t.edge = Tables.edge
      BY <1>1, InsertFaceFacts
    <3> HIDE DEF t
    <3>2. Sound(t)
      BY <1>1, <3>1, FacesOnlyIsSound DEF Good
    <3> QED
      BY <3>1, <3>2 DEF Sound
  <2>6. Turning(u)
    <3> HIDE DEF t, f
    <3>1. Turning(t)
      BY <1>1, <2>5, TurningOfEdges
    <3> QED
      BY <2>5, <3>1, SidesKeepTurning
  <2> HIDE DEF u
  <2> QED
    BY <1>1, <2>3, <2>4, <2>6, ContinueTurns
<1>4. CASE AssignHole
  <2>1. SideLoad(load, seq.face)
    BY <1>4, LoadSteps DEF AssignHole
  <2> DEFINE ring == Head(load.holes)
             next == [load EXCEPT !.holes = Tail(@)]
  <2>2. PICK f \in FaceContainingRing(ring) : Continue(SetSides(Tables, ring, f), next)
    BY <1>4 DEF AssignHole
  <2>3. next.before = load.before
    BY <2>1 DEF SideLoad
  <2> HIDE DEF next, ring
  <2>4. Turning(SetSides(Tables, ring, f))
    BY <1>1, SidesKeepTurning
  <2> QED
    BY <1>1, <2>2, <2>3, <2>4, ContinueTurns
<1> QED
  BY <1>2, <1>3, <1>4

\* Every step of a load keeps the links turning clockwise, and so does every call between two
LEMMA TurnInvHolds == LoadSpec /\ NewSplitsAreLeftLinked => [](LoadInv /\ TurnInv)
<1> DEFINE Allowed == \A e \in DOMAIN edge : \A i \in DOMAIN edge[e].geom :
                        NewEdgesSplit(e, i) => ~RightLinked(e)
<1>1. LoadInit => TurnInv
  BY InitTurns DEF LoadInit, TurnInv
<1>2. LoadInv /\ TurnInv /\ [LoadNext]_loadVars /\ [Allowed]_vars /\ LoadInv' => TurnInv'
  <2> SUFFICES ASSUME LoadInv, TurnInv, [LoadNext]_loadVars, [Allowed]_vars, LoadInv'
               PROVE  TurnInv'
    OBVIOUS
  <2>1. CASE UNCHANGED loadVars
    <3>1. UNCHANGED vars /\ load' = load
      BY <2>1 DEF loadVars
    <3> QED
      BY <3>1, UnchangedTurns
  <2>2. CASE EndLoad \/ EndPolygonize
    BY <2>2, UnchangedTurns DEF EndLoad, EndPolygonize
  <2>3. CASE (\E r \in Requests : BeginLoad(r)) \/ BeginPolygonize
    <3>1. UNCHANGED vars /\ load'.before = Tables
      BY <2>3 DEF BeginLoad, BeginPolygonize
    <3> QED
      BY <3>1, UnchangedTurns
  <2>4. CASE NodeLine
    <3>1. LineLoad(load, node, edge) /\ load # Idle /\ Requested(load)
      BY <2>4, LoadSteps DEF NodeLine, Loading, LineLoad, Requested
    <3>2. UNCHANGED vars /\ load'.before = load.before
      BY <2>4, <3>1 DEF NodeLine, Requested
    <3> QED
      BY <3>1, <3>2, UnchangedTurns
  <2>5. CASE LoadPoint \/ LoadPiece
    BY <2>5, DrawingTurns
  <2>6. CASE WriteRows \/ RegisterSide \/ AssignHole
    BY <2>6, LabellingTurns
  <2>7. CASE load = Idle /\ Next /\ UNCHANGED load
    <3>1. PlanarInv /\ Turning(Tables)
      BY DEF LoadInv, TurnInv
    <3>2. Turning(Tables)'
      BY <2>7, <3>1, StepAdvances
    <3> QED
      BY <2>7, <3>2 DEF TurnInv
  <2> QED
    BY <2>1, <2>2, <2>3, <2>4, <2>5, <2>6, <2>7 DEF LoadNext, LoadStep
<1> QED
  BY <1>1, <1>2, LoadInvHolds, PTL DEF LoadSpec, NewSplitsAreLeftLinked

\* Whatever loads draw over whatever is drawn, next_left_edge and next_right_edge lead to the
\* next edge end met turning clockwise around the node, between two edits of a load as well: a
\* point that is added cuts an edge as ST_ModEdgeSplit does, and links both halves right.  Only
\* what sessions may do to links between loads with ST_NewEdgesSplit is left out
THEOREM LoadedLinksAreClockwise == LoadSpec /\ NewSplitsAreLeftLinked => []LinksTurnClockwise
<1>1. LoadInv /\ TurnInv => LinksTurnClockwise
  BY TurningIsClockwise DEF LoadInv, TurnInv, PlanarInv, Inv, Sound
<1> QED
  BY <1>1, TurnInvHolds, PTL

\* So every walk of a ring that lwt_Polygonize or a face lookup makes during a load comes back
\* to where it began: no two edge ends go on to the same one
THEOREM RingsCloseInLoads == LoadSpec /\ NewSplitsAreLeftLinked => []Linking!LinksArePermutation
<1>1. LoadInv /\ TurnInv => Linking!LinksArePermutation
  <2> SUFFICES ASSUME LoadInv, TurnInv PROVE Linking!LinksArePermutation
    OBVIOUS
  <2>1. /\ Directed(Origins(Tables), Azimuths(Tables))
        /\ Clockwise(Origins(Tables), Follows(Tables), Azimuths(Tables))
    BY LoadSteps, GoodIsDirected DEF TurnInv, Turning
  <2>2. Linking!Darts = DOMAIN Origins(Tables)
    BY LinkingShows
  <2> QED
    BY <2>1, <2>2, ClockwiseIsPermutation DEF Linking!LinksArePermutation
<1> QED
  BY <1>1, TurnInvHolds, PTL
=============================================================================
