--------------------------- MODULE GeomCacheProof ---------------------------
(***************************************************************************)
(* For any geometries, sites and addresses: what GeomCache promises.  A    *)
(* result comes from the arguments of its call; the shared copies count    *)
(* their users; an index stands on a copy that its key holds; the hash of  *)
(* the prepared geometries knows what exists, no more and no less; and a   *)
(* call that repeats an argument finds or builds an index.                 *)
(***************************************************************************)
EXTENDS GeomCache, FiniteSetTheorems, FunctionTheorems, WellFoundedInduction, TLAPS

-----------------------------------------------------------------------------
(* The inductive invariant.                                                *)

Slot == Nat \cup {None}
Copy == [value : Values, count : Nat]
Seen == [id : Toasted \cup {None}, geom : Slot]
Index == [key : [1 .. 2 -> Slot], argnum : 0 .. 2, tree : Slot \cup Values]

\* f has values of V at finitely many addresses
Addressed(f, V) ==
  /\ IsFiniteSet(DOMAIN f) /\ DOMAIN f \subseteq Nat \ {0}
  /\ f \in [DOMAIN f -> V]

Types(m) ==
  /\ m = [heap |-> m.heap, toast |-> m.toast, index |-> m.index, context |-> m.context,
          hash |-> m.hash, geos |-> m.geos]
  /\ Addressed(m.heap, Copy)
  /\ m.toast \in [1 .. 2 -> Seen]
  /\ m.index \in [Indexes -> Index]
  /\ m.context \in Slot \ {0}
  /\ Addressed(m.hash, Slot) /\ Addressed(m.geos, Values)

Users(R, a) == {r \in R : r[3] = a}

\* The copies of heap h are those that the references R name, and they count them
Counted(h, R) ==
  /\ IsFiniteSet(R)
  /\ DOMAIN h = {r[3] : r \in R} \ {None}
  /\ \A a \in DOMAIN h : h[a].count = Cardinality(Users(R, a))

\* The copy of a value seen out of line is the value
ToastOK(m) ==
  \A i \in 1 .. 2 :
    m.toast[i].id # None =>
      /\ m.toast[i].geom \in DOMAIN m.heap
      /\ m.heap[m.toast[i].geom].value = ValueOf[m.toast[i].id]

\* An index is of the copy that its key holds
Stands(m, x) ==
  LET c == m.index[x]
  IN  c.argnum # 0 =>
        /\ c.key[c.argnum] \in DOMAIN m.heap
        /\ x = "tree" => c.tree = c.key[c.argnum]
        /\ IndexedValue(m, x) = m.heap[c.key[c.argnum]].value

\* The GEOS object of a prepared geometry is the one in the hash
PreparedOK(m) ==
  LET c == m.index["prepared"]
  IN  /\ c.argnum = 0 <=> c.tree = None
      /\ m.context = None => c.tree = None
      /\ m.context # None => m.context \in DOMAIN m.hash /\ m.hash[m.context] = c.tree

\* The objects are those in the hash, each once
HashOK(h, g) ==
  /\ \A b, c \in DOMAIN h : h[b] = h[c] /\ h[b] # None => b = c
  /\ DOMAIN g = {h[c] : c \in DOMAIN h} \ {None}

MemoryOK(m) ==
  /\ Types(m) /\ Counted(m.heap, References(m)) /\ ToastOK(m)
  /\ \A x \in Indexes : Stands(m, x)
  /\ PreparedOK(m) /\ HashOK(m.hash, m.geos)
-----------------------------------------------------------------------------
(* Addresses.                                                              *)

\* There is a least number of any
LEMMA LeastNumber ==
  ASSUME NEW S \in SUBSET Nat, S # {}
  PROVE  \E a \in S : \A b \in S : a <= b
<1> DEFINE R == {ss \in Nat \X Nat : ss[1] < ss[2]}
<1>1. IsWellFoundedOn(R, Nat)
  BY NatLessThanWellFounded DEF OpToRel
<1>2. \E a \in S : \A b \in S : ~(<<b, a>> \in R)
  <2> HIDE DEF R
  <2>1. QED
    BY <1>1, WFMin
<1>3. PICK a \in S : \A b \in S : ~(<<b, a>> \in R)
  BY <1>2
<1>4. \A b \in S : ~(b < a)
  BY <1>3
<1>5. QED
  BY <1>4

\* The address handed out is free
LEMMA FreshIsFree ==
  ASSUME NEW U \in SUBSET Nat, IsFiniteSet(U)
  PROVE  Fresh(U) \in Nat \ {0} /\ Fresh(U) \notin U
<1> DEFINE n == Cardinality(U) + 1
           S == (1 .. n) \ U
<1>1. n \in Nat /\ n # 0
  BY FS_CardinalityType
<1>2. S # {}
  <2>1. SUFFICES ASSUME 1 .. n \subseteq U PROVE FALSE
    OBVIOUS
  <2>2. Cardinality(1 .. n) = n
    BY <1>1, FS_Interval
  <2>3. Cardinality(1 .. n) <= Cardinality(U)
    BY <2>1, FS_Subset
  <2>4. QED
    BY <2>2, <2>3, FS_CardinalityType
<1>3. S \in SUBSET Nat
  BY <1>1
<1>4. PICK a \in S : \A b \in S : a <= b
  BY <1>2, <1>3, LeastNumber
<1>5. a \in 1 .. n /\ a \notin U /\ \A b \in 1 .. a - 1 : b \in U
  BY <1>1, <1>4
<1>6. Fresh(U) \in 1 .. n /\ Fresh(U) \notin U
  BY <1>5 DEF Fresh
<1>7. QED
  BY <1>1, <1>6

\* What Put makes
LEMMA PutFields ==
  ASSUME NEW f, NEW a, NEW v
  PROVE  /\ DOMAIN Put(f, a, v) = DOMAIN f \cup {a} /\ Put(f, a, v)[a] = v
         /\ \A b \in DOMAIN f : b # a => Put(f, a, v)[b] = f[b]
BY DEF Put

\* One value more
LEMMA PutAddressed ==
  ASSUME NEW V, NEW f, Addressed(f, V), NEW a \in Nat \ {0}, NEW v \in V
  PROVE  Addressed(Put(f, a, v), V)
<1>1. IsFiniteSet(DOMAIN f \cup {a}) /\ DOMAIN f \cup {a} \subseteq Nat \ {0}
  BY FS_AddElement DEF Addressed
<1>2. Put(f, a, v) \in [DOMAIN f \cup {a} -> V]
  BY DEF Put, Addressed
<1>3. QED
  BY <1>1, <1>2, PutFields DEF Addressed

\* One value less
LEMMA DropAddressed ==
  ASSUME NEW V, NEW f, Addressed(f, V), NEW a
  PROVE  Addressed([b \in DOMAIN f \ {a} |-> f[b]], V)
<1>1. IsFiniteSet(DOMAIN f \ {a}) /\ DOMAIN f \ {a} \subseteq Nat \ {0}
  BY FS_RemoveElement DEF Addressed
<1>2. QED
  BY <1>1 DEF Addressed
-----------------------------------------------------------------------------
(* References to shared copies.                                            *)

ToastRef(m, i) == <<"toast", i, m.toast[i].geom>>
KeyRef(m, x, i) == <<x, i, m.index[x].key[i]>>

\* A reference is of a value seen out of line or of a key
LEMMA ReferenceCases ==
  ASSUME NEW m
  PROVE  \A r : r \in References(m) <=>
           \/ \E i \in 1 .. 2 : r = ToastRef(m, i)
           \/ \E x \in Indexes, i \in 1 .. 2 : r = KeyRef(m, x, i)
BY DEF References, ToastRef, KeyRef

\* A place has one reference
LEMMA OneReference ==
  /\ "toast" \notin Indexes
  /\ \A m, n, i, j : ToastRef(m, i) = ToastRef(n, j) => i = j
  /\ \A m, n, x, i, j : x \in Indexes => ToastRef(m, i) # KeyRef(n, x, j)
  /\ \A m, n, x, y, i, j : KeyRef(m, x, i) = KeyRef(n, y, j) => x = y /\ i = j
BY DEF ToastRef, KeyRef, Indexes

\* Another copy at one place
LEMMA ToastMoved ==
  ASSUME NEW m, NEW n, NEW i \in 1 .. 2, n.index = m.index,
         \A j \in 1 .. 2 : j # i => n.toast[j].geom = m.toast[j].geom
  PROVE  /\ References(n) = (References(m) \ {ToastRef(m, i)}) \cup {ToastRef(n, i)}
         /\ ToastRef(n, i) \notin References(m) \ {ToastRef(m, i)}
<1>1. \A j \in 1 .. 2 : j # i => ToastRef(n, j) = ToastRef(m, j)
  BY DEF ToastRef
<1>2. \A x, j : KeyRef(n, x, j) = KeyRef(m, x, j)
  BY DEF KeyRef
<1>3. \A r : r \in References(n) <=>
        \/ r = ToastRef(n, i)
        \/ r \in References(m) /\ r # ToastRef(m, i)
  BY <1>1, <1>2, ReferenceCases, OneReference
<1>4. ToastRef(n, i) \in References(m) => ToastRef(n, i) = ToastRef(m, i)
  BY ReferenceCases, OneReference
<1>5. QED
  BY <1>3, <1>4

\* Another copy at one key
LEMMA KeyMoved ==
  ASSUME NEW m, NEW n, NEW x \in Indexes, NEW i \in 1 .. 2, n.toast = m.toast,
         \A y \in Indexes, j \in 1 .. 2 :
           y # x \/ j # i => n.index[y].key[j] = m.index[y].key[j]
  PROVE  /\ References(n) = (References(m) \ {KeyRef(m, x, i)}) \cup {KeyRef(n, x, i)}
         /\ KeyRef(n, x, i) \notin References(m) \ {KeyRef(m, x, i)}
<1>1. \A y \in Indexes, j \in 1 .. 2 : y # x \/ j # i => KeyRef(n, y, j) = KeyRef(m, y, j)
  BY DEF KeyRef
<1>2. \A j : ToastRef(n, j) = ToastRef(m, j)
  BY DEF ToastRef
<1>3. \A r : r \in References(n) <=>
        \/ r = KeyRef(n, x, i)
        \/ r \in References(m) /\ r # KeyRef(m, x, i)
  BY <1>1, <1>2, ReferenceCases, OneReference
<1>4. KeyRef(n, x, i) \in References(m) => KeyRef(n, x, i) = KeyRef(m, x, i)
  BY ReferenceCases, OneReference
<1>5. QED
  BY <1>3, <1>4

\* What a reference names is there
LEMMA ReferredIsThere ==
  ASSUME NEW h, NEW R, Counted(h, R), NEW r \in R, r[3] # None
  PROVE  r[3] \in DOMAIN h
BY DEF Counted

\* One user less, and the copy goes with its last
Released(h, a) ==
  IF a \notin DOMAIN h THEN h
  ELSE IF h[a].count > 1 THEN [h EXCEPT ![a].count = @ - 1]
  ELSE [b \in DOMAIN h \ {a} |-> h[b]]

\* A copy that loses a reference is counted by those that are left
LEMMA ReleasedIsCounted ==
  ASSUME NEW h, Addressed(h, Copy), NEW R, Counted(h, R), NEW r \in R
  PROVE  /\ Addressed(Released(h, r[3]), Copy) /\ Counted(Released(h, r[3]), R \ {r})
         /\ \A b \in DOMAIN Released(h, r[3]) :
              b \in DOMAIN h /\ Released(h, r[3])[b].value = h[b].value
<1> DEFINE a == r[3]
           k == Released(h, a)
           S == R \ {r}
<1>1. IsFiniteSet(R) /\ IsFiniteSet(S) /\ None \notin DOMAIN h
  BY FS_RemoveElement, NoneIsNothing DEF Counted, Addressed
<1>2. \A b : b # a => Users(S, b) = Users(R, b)
  BY DEF Users
<1>3. Users(S, a) = Users(R, a) \ {r} /\ r \in Users(R, a) /\ IsFiniteSet(Users(R, a))
  <2>1. Users(R, a) \in SUBSET R
    BY DEF Users
  <2>2. QED
    BY <1>1, <2>1, FS_Subset DEF Users
<1>4. /\ Cardinality(Users(R, a)) \in Nat /\ Cardinality(Users(R, a)) # 0
      /\ Cardinality(Users(S, a)) = Cardinality(Users(R, a)) - 1
      /\ Cardinality(Users(R, a)) = 1 <=> Users(S, a) = {}
  <2>1. IsFiniteSet(Users(S, a)) /\ Cardinality(Users(S, a)) = Cardinality(Users(R, a)) - 1
    BY <1>3, FS_RemoveElement
  <2>2. QED
    <3>1. IsFiniteSet(Users(R, a)) /\ Users(R, a) # {}
      BY <1>3
    <3>2. /\ Cardinality(Users(R, a)) \in Nat /\ Cardinality(Users(R, a)) # 0
          /\ Cardinality(Users(S, a)) = 0 <=> Users(S, a) = {}
      <4> HIDE DEF S, a
      <4>1. QED
        BY <2>1, <3>1, FS_CardinalityType, FS_EmptySet
    <3>3. QED
      BY <2>1, <3>2
<1>9. /\ {q[3] : q \in R} = {q[3] : q \in S} \cup {a}
      /\ a \in {q[3] : q \in S} <=> Users(S, a) # {}
  BY DEF Users
<1> HIDE DEF S
<1>5. CASE a \notin DOMAIN h
  <2>1. a = None /\ k = h
    BY <1>5 DEF Counted, Released
  <2>2. DOMAIN h = {q[3] : q \in S} \ {None}
    BY <1>9, <2>1 DEF Counted
  <2>3. Counted(k, S)
    <3>1. \A b \in DOMAIN h : h[b].count = Cardinality(Users(S, b))
      BY <1>1, <1>2, <2>1 DEF Counted
    <3>2. QED
      BY <1>1, <2>1, <2>2, <3>1 DEF Counted
  <2>4. QED
    BY <2>1, <2>3 DEF S
<1>6. CASE a \in DOMAIN h /\ h[a].count > 1
  <2>1. k = [h EXCEPT ![a].count = @ - 1] /\ h \in [DOMAIN h -> Copy]
    BY <1>6 DEF Released, Addressed
  <2>2. h[a].count = Cardinality(Users(R, a)) /\ h[a] \in Copy
    BY <1>6, <2>1 DEF Counted
  <2>3. [h[a] EXCEPT !.count = @ - 1] = [value |-> h[a].value, count |-> h[a].count - 1]
    BY <2>2 DEF Copy
  <2>4. /\ DOMAIN k = DOMAIN h
        /\ k[a] = [value |-> h[a].value, count |-> h[a].count - 1]
        /\ \A b \in DOMAIN h : b # a => k[b] = h[b]
        /\ k = [b \in DOMAIN h |-> k[b]]
    BY <1>6, <2>1, <2>3
  <2>5. k[a] \in Copy
    BY <1>4, <2>2, <2>4 DEF Copy
  <2>6. Addressed(k, Copy)
    <3>1. \A b \in DOMAIN h : k[b] \in Copy
      BY <2>1, <2>4, <2>5
    <3>2. k \in [DOMAIN h -> Copy]
      BY <2>4, <3>1
    <3>3. QED
      BY <2>4, <3>2 DEF Addressed
  <2> HIDE DEF k
  <2>7. DOMAIN k = {q[3] : q \in S} \ {None}
    <3>1. Users(S, a) # {}
      BY <1>4, <1>6, <2>2
    <3>2. DOMAIN h = {q[3] : q \in R} \ {None}
      BY DEF Counted
    <3>3. QED
      BY <1>9, <2>4, <3>1, <3>2
  <2>8. \A b \in DOMAIN k : k[b].count = Cardinality(Users(S, b))
    BY <1>2, <1>4, <2>2, <2>4 DEF Counted
  <2>9. Counted(k, S)
    BY <1>1, <2>7, <2>8 DEF Counted
  <2>10. QED
    BY <2>4, <2>6, <2>9 DEF k, S
<1>7. CASE a \in DOMAIN h /\ ~(h[a].count > 1)
  <2>1. k = [b \in DOMAIN h \ {a} |-> h[b]]
    BY <1>7 DEF Released
  <2>2. Addressed(k, Copy)
    BY <2>1, DropAddressed
  <2>3. h[a].count = Cardinality(Users(R, a))
    BY <1>7 DEF Counted
  <2>4. Users(S, a) = {}
    <3>1. Cardinality(Users(R, a)) = 1
      BY <1>4, <1>7, <2>3
    <3>2. QED
      BY <1>4, <3>1
  <2>5. {q[3] : q \in S} = {q[3] : q \in R} \ {a}
    BY <1>9, <2>4
  <2>6. DOMAIN k = {q[3] : q \in S} \ {None}
    BY <2>1, <2>5 DEF Counted
  <2>7. \A b \in DOMAIN k : k[b].count = Cardinality(Users(S, b))
    BY <1>2, <2>1 DEF Counted
  <2>8. Counted(k, S)
    <3> HIDE DEF k
    <3>1. QED
      BY <1>1, <2>6, <2>7 DEF Counted
  <2>9. QED
    BY <2>1, <2>2, <2>8 DEF S
<1>8. QED
  BY <1>5, <1>6, <1>7

\* A user more, of a copy there is or of a new one
Referred(h, g) ==
  IF g.at = 0 THEN Put(h, Fresh(DOMAIN h), [value |-> g.value, count |-> 1])
  ELSE [h EXCEPT ![g.at].count = @ + 1]
PlaceOf(h, g) == IF g.at = 0 THEN Fresh(DOMAIN h) ELSE g.at

\* A copy that gains a reference is counted with it
LEMMA ReferredIsCounted ==
  ASSUME NEW h, Addressed(h, Copy), NEW R, Counted(h, R), NEW g, NEW r, r \notin R,
         r[3] = PlaceOf(h, g),
         g.at = 0 => g.value \in Values,
         g.at # 0 => g.at \in DOMAIN h /\ h[g.at].value = g.value
  PROVE  /\ Addressed(Referred(h, g), Copy) /\ Counted(Referred(h, g), R \cup {r})
         /\ r[3] \in DOMAIN Referred(h, g) /\ Referred(h, g)[r[3]].value = g.value
         /\ \A b \in DOMAIN h :
              b \in DOMAIN Referred(h, g) /\ Referred(h, g)[b].value = h[b].value
<1> DEFINE a == r[3]
           k == Referred(h, g)
           S == R \cup {r}
<1>1. IsFiniteSet(R) /\ IsFiniteSet(S) /\ None \notin DOMAIN h
  BY FS_AddElement, NoneIsNothing DEF Counted, Addressed
<1>2. \A b : b # a => Users(S, b) = Users(R, b)
  BY DEF Users
<1>3. /\ Cardinality(Users(R, a)) \in Nat
      /\ Cardinality(Users(S, a)) = Cardinality(Users(R, a)) + 1
  <2>1. Users(R, a) \in SUBSET R /\ Users(S, a) = Users(R, a) \cup {r} /\ r \notin Users(R, a)
    BY DEF Users
  <2>2. IsFiniteSet(Users(R, a))
    BY <1>1, <2>1, FS_Subset
  <2>3. QED
    BY <2>1, <2>2, FS_AddElement, FS_CardinalityType
<1>4. {q[3] : q \in S} = {q[3] : q \in R} \cup {a}
  OBVIOUS
<1> HIDE DEF S
<1>5. CASE g.at = 0
  <2>1. a \in Nat \ {0} /\ a \notin DOMAIN h /\ a = Fresh(DOMAIN h)
    BY <1>5, FreshIsFree DEF Addressed, PlaceOf
  <2>2. a # None
    BY <2>1, NoneIsNothing
  <2>3. k = Put(h, a, [value |-> g.value, count |-> 1])
    BY <1>5, <2>1 DEF Referred
  <2>4. [value |-> g.value, count |-> 1] \in Copy
    BY <1>5 DEF Copy
  <2>5. /\ DOMAIN k = DOMAIN h \cup {a} /\ k[a] = [value |-> g.value, count |-> 1]
        /\ \A b \in DOMAIN h : k[b] = h[b]
    <3> DEFINE v == [value |-> g.value, count |-> 1]
               put == Put(h, a, v)
    <3>1. DOMAIN put = DOMAIN h \cup {a} /\ put[a] = v /\ \A b \in DOMAIN h : b # a => put[b] = h[b]
      <4> HIDE DEF v, a
      <4>1. QED
        BY DEF Put
    <3>2. k = put
      BY <2>3
    <3> HIDE DEF put, k, v, a
    <3>3. k[a] = v /\ DOMAIN k = DOMAIN h \cup {a} /\ \A b \in DOMAIN h : k[b] = h[b]
      BY <2>1, <3>1, <3>2
    <3>4. QED
      BY <3>3 DEF v
  <2>6. Addressed(k, Copy)
    BY <2>1, <2>3, <2>4, PutAddressed
  <2>7. Users(R, a) = {}
    BY <2>1, <2>2 DEF Users, Counted
  <2>8. Cardinality(Users(S, a)) = 1
    BY <1>3, <2>7, FS_EmptySet
  <2> HIDE DEF k
  <2>9. Counted(k, S)
    <3>1. DOMAIN k = {q[3] : q \in S} \ {None}
      BY <1>4, <2>2, <2>5 DEF Counted
    <3>2. \A b \in DOMAIN k : k[b].count = Cardinality(Users(S, b))
      BY <1>2, <2>1, <2>5, <2>8 DEF Counted
    <3>3. QED
      BY <1>1, <3>1, <3>2 DEF Counted
  <2>10. QED
    BY <2>5, <2>6, <2>9 DEF k, S
<1>6. CASE g.at # 0
  <2>1. a = g.at /\ a \in DOMAIN h /\ h[a].value = g.value
    BY <1>6 DEF PlaceOf
  <2>2. k = [h EXCEPT ![a].count = @ + 1] /\ h \in [DOMAIN h -> Copy] /\ h[a] \in Copy
    BY <1>6, <2>1 DEF Referred, Addressed
  <2>3. [h[a] EXCEPT !.count = @ + 1] = [value |-> h[a].value, count |-> h[a].count + 1]
    BY <2>2 DEF Copy
  <2>4. /\ DOMAIN k = DOMAIN h
        /\ k[a] = [value |-> h[a].value, count |-> h[a].count + 1]
        /\ \A b \in DOMAIN h : b # a => k[b] = h[b]
        /\ k = [b \in DOMAIN h |-> k[b]]
    BY <2>1, <2>2, <2>3
  <2>5. k[a] \in Copy
    BY <2>2, <2>4 DEF Copy
  <2>6. Addressed(k, Copy)
    <3>1. \A b \in DOMAIN h : k[b] \in Copy
      BY <2>2, <2>4, <2>5
    <3>2. k \in [DOMAIN h -> Copy]
      BY <2>4, <3>1
    <3>3. QED
      BY <2>4, <3>2 DEF Addressed
  <2> HIDE DEF k
  <2>7. Counted(k, S)
    <3>1. DOMAIN k = {q[3] : q \in S} \ {None}
      BY <1>1, <1>4, <2>1, <2>4 DEF Counted
    <3>2. \A b \in DOMAIN k : k[b].count = Cardinality(Users(S, b))
      BY <1>2, <1>3, <2>1, <2>4 DEF Counted
    <3>3. QED
      BY <1>1, <3>1, <3>2 DEF Counted
  <2>8. QED
    BY <2>1, <2>4, <2>6, <2>7 DEF k, S
<1>7. QED
  BY <1>5, <1>6
-----------------------------------------------------------------------------
(* A shared copy takes the place of another.                               *)

WithHeap(m, h) ==
  [heap |-> h, toast |-> m.toast, index |-> m.index, context |-> m.context,
   hash |-> m.hash, geos |-> m.geos]

Without(R, r) == R \ {r}
With(R, r) == R \cup {r}
Names(R, a) == \E r \in R : r[3] = a

\* The copies that R names in h are in n
Kept(R, h, n) ==
  \A r \in R : r[3] # None =>
    r[3] \in DOMAIN h /\ r[3] \in DOMAIN n /\ n[r[3]].value = h[r[3]].value

\* A reference moves from its copy to that of g, which another reference names if it is shared
LEMMA CopyMoved ==
  ASSUME NEW h, Addressed(h, Copy), NEW R, Counted(h, R), NEW r \in R, NEW g, NEW q,
         ~(q \in Without(R, r)), q[3] = PlaceOf(Released(h, r[3]), g),
         g.at = 0 => g.value \in Values,
         g.at # 0 => g.at # None /\ h[g.at].value = g.value /\ Names(Without(R, r), g.at)
  PROVE  LET n == Referred(Released(h, r[3]), g)
         IN  /\ Addressed(n, Copy) /\ Counted(n, With(Without(R, r), q))
             /\ q[3] \in DOMAIN n /\ n[q[3]].value = g.value
             /\ Kept(Without(R, r), h, n)
<1> DEFINE k == Released(h, r[3])
           S == Without(R, r)
           n == Referred(k, g)
<1>1. /\ Addressed(k, Copy) /\ Counted(k, S)
      /\ \A b \in DOMAIN k : b \in DOMAIN h /\ k[b].value = h[b].value
  BY ReleasedIsCounted DEF Without
<1>2. q \notin S /\ q[3] = PlaceOf(k, g)
  OBVIOUS
<1> HIDE DEF k, S
<1>3. \A o \in S : o[3] # None => o[3] \in DOMAIN k
  BY <1>1, ReferredIsThere
<1>4. g.at # 0 => g.at \in DOMAIN k /\ k[g.at].value = g.value
  BY <1>1, <1>3 DEF Names, S
<1>5. /\ Addressed(n, Copy) /\ Counted(n, S \cup {q})
      /\ q[3] \in DOMAIN n /\ n[q[3]].value = g.value
      /\ \A b \in DOMAIN k : b \in DOMAIN n /\ n[b].value = k[b].value
  BY <1>1, <1>2, <1>4, ReferredIsCounted
<1> HIDE DEF n
<1>6. Kept(S, h, n)
  BY <1>1, <1>3, <1>5 DEF Kept
<1>7. Counted(n, With(S, q))
  BY <1>5 DEF With
<1>8. QED
  BY <1>5, <1>6, <1>7 DEF n, k, S

\* What Unref and Ref make of the memory
LEMMA UnrefIs ==
  ASSUME NEW m, m = WithHeap(m, m.heap), NEW a
  PROVE  Unref(m, a) = WithHeap(m, Released(m.heap, a))
<1> DEFINE h == m.heap
<1>1. CASE a \notin DOMAIN h
  BY <1>1 DEF Unref, Released
<1>2. CASE a \in DOMAIN h /\ h[a].count > 1
  <2>1. Unref(m, a) = [m EXCEPT !.heap = [h EXCEPT ![a].count = @ - 1]]
    BY <1>2 DEF Unref
  <2>2. Released(h, a) = [h EXCEPT ![a].count = @ - 1]
    BY <1>2 DEF Released
  <2> DEFINE k == Released(h, a)
  <2>3. Unref(m, a) = [m EXCEPT !.heap = k]
    BY <2>1, <2>2
  <2> HIDE DEF k
  <2>4. QED
    BY <2>3 DEF WithHeap, k
<1>3. CASE a \in DOMAIN h /\ ~(h[a].count > 1)
  <2> DEFINE k == Released(h, a)
  <2>1. Unref(m, a) = [m EXCEPT !.heap = k]
    BY <1>3 DEF Unref, Released
  <2> HIDE DEF k
  <2>2. QED
    BY <2>1 DEF WithHeap, k
<1>4. QED
  BY <1>1, <1>2, <1>3

\* Ref changes the heap, and names the place of the copy
LEMMA RefIs ==
  ASSUME NEW m, m = WithHeap(m, m.heap), NEW g
  PROVE  Ref(m, g) = WithHeap(m, Referred(m.heap, g)) /\ RefAt(m, g) = PlaceOf(m.heap, g)
<1> DEFINE h == m.heap
           k == Referred(h, g)
<1>1. Ref(m, g) = [m EXCEPT !.heap = k]
  BY DEF Ref, NewCached, Referred
<1> HIDE DEF k
<1>2. QED
  BY <1>1 DEF WithHeap, RefAt, PlaceOf, k

\* Unref, then Ref
LEMMA RefAfterUnref ==
  ASSUME NEW m, m = WithHeap(m, m.heap), NEW a, NEW g
  PROVE  LET u == Unref(m, a)
             k == Released(m.heap, a)
         IN  Ref(u, g) = WithHeap(m, Referred(k, g)) /\ RefAt(u, g) = PlaceOf(k, g)
<1> DEFINE k == Released(m.heap, a)
           u == WithHeap(m, k)
<1>1. Unref(m, a) = u
  BY UnrefIs
<1>2. u.heap = k /\ \A h : WithHeap(u, h) = WithHeap(m, h)
  BY DEF WithHeap
<1>3. u = WithHeap(u, u.heap)
  BY <1>2
<1> HIDE DEF u, k
<1>4. Ref(u, g) = WithHeap(u, Referred(u.heap, g)) /\ RefAt(u, g) = PlaceOf(u.heap, g)
  BY <1>3, RefIs
<1>5. QED
  BY <1>1, <1>2, <1>4 DEF k
-----------------------------------------------------------------------------
(* Arguments seen out of line.                                             *)

\* An index that is left alone still stands when its copy is still there
LEMMA StandsStill ==
  ASSUME NEW m, NEW n, NEW x \in Indexes, Stands(m, x), n.index[x] = m.index[x],
         n.geos = m.geos,
         LET c == m.index[x]
         IN  c.argnum # 0 => /\ c.key[c.argnum] \in DOMAIN n.heap
                             /\ n.heap[c.key[c.argnum]].value = m.heap[c.key[c.argnum]].value
  PROVE  Stands(n, x)
<1>1. x # "tree" => IndexedValue(n, x) = IndexedValue(m, x)
  BY DEF IndexedValue, Indexes
<1>2. x = "tree" => /\ IndexedValue(n, x) = Cached(n, n.index[x].tree).value
                    /\ IndexedValue(m, x) = Cached(m, m.index[x].tree).value
  BY DEF IndexedValue
<1>3. CASE x # "tree"
  BY <1>1, <1>3 DEF Stands
<1>4. CASE x = "tree"
  BY <1>2, <1>4 DEF Stands, Cached
<1>5. QED
  BY <1>3, <1>4

\* What the calls leave of the references they do not move
SameCopies(m, n, x) ==
  \A i \in 1 .. 2 : m.index[x].key[i] # None =>
    /\ m.index[x].key[i] \in DOMAIN m.heap /\ m.index[x].key[i] \in DOMAIN n.heap
    /\ n.heap[m.index[x].key[i]].value = m.heap[m.index[x].key[i]].value

\* ToastCacheGetGeometry leaves the indexes as they stand, and the copy of the value it is
\* given, if that is out of line
LEMMA ToastCacheKeeps ==
  ASSUME NEW m, MemoryOK(m), NEW i \in 1 .. 2, NEW d \in Datums
  PROVE  LET n == ToastCache(m, i, d)
         IN  /\ MemoryOK(n)
             /\ n.index = m.index /\ n.context = m.context /\ n.hash = m.hash /\ n.geos = m.geos
             /\ \A j \in 1 .. 2 : j # i => n.toast[j] = m.toast[j]
             /\ d \in Toasted => n.toast[i].id = d
             /\ \A x \in Indexes : SameCopies(m, n, x)
<1> DEFINE n == ToastCache(m, i, d)
           R == References(m)
           r == ToastRef(m, i)
<1>1. /\ m = WithHeap(m, m.heap) /\ Addressed(m.heap, Copy) /\ Counted(m.heap, R)
      /\ m.toast \in [1 .. 2 -> Seen] /\ m.index \in [Indexes -> Index]
  BY DEF MemoryOK, Types, WithHeap
<1>2. CASE d \notin Toasted \/ m.toast[i].id = d
  <2>1. n = m
    BY <1>2 DEF ToastCache
  <2>2. ASSUME NEW x \in Indexes, NEW j \in 1 .. 2, m.index[x].key[j] # None
        PROVE  m.index[x].key[j] \in DOMAIN m.heap
    <3>1. KeyRef(m, x, j) \in R /\ KeyRef(m, x, j)[3] = m.index[x].key[j]
      BY ReferenceCases DEF KeyRef
    <3> HIDE DEF R
    <3>2. QED
      BY <1>1, <2>2, <3>1, ReferredIsThere
  <2>3. \A x \in Indexes : SameCopies(m, m, x)
    BY <2>2 DEF SameCopies
  <2>4. QED
    BY <1>2, <2>1, <2>3
<1>3. CASE d \in Toasted /\ m.toast[i].id # d
  <2> DEFINE a == m.toast[i].geom
             g == InCall(ValueOf[d])
             k == Released(m.heap, a)
             h == Referred(k, g)
             b == PlaceOf(k, g)
             toast == [m.toast EXCEPT ![i] = [id |-> d, geom |-> b]]
  <2>1. g.at = 0 /\ g.value = ValueOf[d] /\ ValueOf[d] \in Values
    BY <1>3, GeometriesHaveKinds DEF InCall
  <2>2. n = [heap |-> h, toast |-> toast, index |-> m.index, context |-> m.context,
             hash |-> m.hash, geos |-> m.geos]
    <3> DEFINE u == Unref(m, a)
    <3>1. NewCached(u, ValueOf[d]) = Ref(u, g) /\ Fresh(DOMAIN u.heap) = RefAt(u, g)
      BY <2>1 DEF Ref, RefAt
    <3>2. Ref(u, g) = WithHeap(m, h) /\ RefAt(u, g) = b
      BY <1>1, RefAfterUnref
    <3>3. n = [NewCached(u, ValueOf[d]) EXCEPT !.toast[i] = [id |-> d, geom |-> Fresh(DOMAIN u.heap)]]
      BY <1>3 DEF ToastCache, ValueIn
    <3> HIDE DEF u, h, b
    <3>4. n = [WithHeap(m, h) EXCEPT !.toast[i] = [id |-> d, geom |-> b]]
      BY <3>1, <3>2, <3>3
    <3>5. n = [WithHeap(m, h) EXCEPT !.toast = toast]
      BY <3>4 DEF WithHeap
    <3> HIDE DEF toast
    <3>6. QED
      BY <3>5 DEF WithHeap
  <2>3. r[3] = a /\ r \in R
    BY ReferenceCases DEF ToastRef
  <2> DEFINE q == ToastRef(n, i)
  <2>4. /\ n.heap = h /\ n.toast = toast /\ n.index = m.index /\ n.context = m.context
        /\ n.hash = m.hash /\ n.geos = m.geos
        /\ toast[i] = [id |-> d, geom |-> b] /\ \A j \in 1 .. 2 : j # i => toast[j] = m.toast[j]
    <3> HIDE DEF h
    <3>1. toast[i] = [id |-> d, geom |-> b] /\ \A j \in 1 .. 2 : j # i => toast[j] = m.toast[j]
      <4> HIDE DEF b
      <4>1. QED
        BY <1>1
    <3> HIDE DEF n, toast
    <3>2. QED
      BY <2>2, <3>1
  <2> HIDE DEF toast, n
  <2>5. q[3] = b
    BY <2>4 DEF ToastRef
  <2>6. References(n) = (R \ {r}) \cup {q} /\ q \notin R \ {r}
    BY <2>4, ToastMoved
  <2> HIDE DEF q, R, r
  <2>7. /\ Addressed(h, Copy) /\ Counted(h, (R \ {r}) \cup {q})
        /\ q[3] \in DOMAIN h /\ h[q[3]].value = g.value
        /\ \A o \in R \ {r} : o[3] # None =>
             o[3] \in DOMAIN m.heap /\ o[3] \in DOMAIN h /\ h[o[3]].value = m.heap[o[3]].value
    <3>1. ~(q \in Without(R, r)) /\ Addressed(m.heap, Copy) /\ Counted(m.heap, R) /\ r \in R
      BY <1>1, <2>3, <2>6 DEF Without
    <3>2. q[3] = PlaceOf(Released(m.heap, r[3]), g) /\ h = Referred(Released(m.heap, r[3]), g)
      BY <2>3, <2>5
    <3> HIDE DEF g, h, b, k, a
    <3>3. /\ Addressed(h, Copy) /\ Counted(h, With(Without(R, r), q))
          /\ q[3] \in DOMAIN h /\ h[q[3]].value = g.value
          /\ Kept(Without(R, r), m.heap, h)
      BY <2>1, <3>1, <3>2, CopyMoved
    <3>4. QED
      BY <3>3 DEF With, Without, Kept
  <2> HIDE DEF h, b, g
  <2>8. /\ b \in DOMAIN h /\ b \in Slot /\ h[b].value = ValueOf[d]
    BY <2>1, <2>5, <2>7 DEF Addressed, Slot
  <2>9. ASSUME NEW x \in Indexes, NEW j \in 1 .. 2, m.index[x].key[j] # None
        PROVE  /\ m.index[x].key[j] \in DOMAIN m.heap /\ m.index[x].key[j] \in DOMAIN h
               /\ h[m.index[x].key[j]].value = m.heap[m.index[x].key[j]].value
    <3>1. KeyRef(m, x, j) \in R \ {r} /\ KeyRef(m, x, j)[3] = m.index[x].key[j]
      BY ReferenceCases, OneReference DEF KeyRef, R, r
    <3>2. QED
      BY <2>7, <2>9, <3>1
  <2>10. \A x \in Indexes : SameCopies(m, n, x)
    BY <2>4, <2>9 DEF SameCopies
  <2>11. Types(n)
    <3>1. [id |-> d, geom |-> b] \in Seen
      BY <1>3, <2>8 DEF Seen
    <3>2. n.toast \in [1 .. 2 -> Seen]
      BY <1>1, <2>4, <3>1 DEF toast
    <3>3. n = [heap |-> n.heap, toast |-> n.toast, index |-> n.index, context |-> n.context,
               hash |-> n.hash, geos |-> n.geos]
      BY <2>2, <2>4 DEF toast
    <3>4. QED
      BY <1>1, <2>4, <2>7, <3>2, <3>3 DEF Types, MemoryOK
  <2>12. ToastOK(n)
    <3>1. SUFFICES ASSUME NEW j \in 1 .. 2, n.toast[j].id # None
                   PROVE  /\ n.toast[j].geom \in DOMAIN h
                          /\ h[n.toast[j].geom].value = ValueOf[n.toast[j].id]
      BY <2>4 DEF ToastOK
    <3>2. CASE j = i
      BY <2>4, <2>8, <3>2
    <3>3. CASE j # i
      <4>1. /\ n.toast[j] = m.toast[j] /\ m.toast[j].geom \in DOMAIN m.heap
            /\ m.heap[m.toast[j].geom].value = ValueOf[m.toast[j].id]
        BY <2>4, <3>1, <3>3 DEF MemoryOK, ToastOK
      <4>2. m.toast[j].geom # None
        BY <1>1, <4>1, NoneIsNothing DEF Addressed
      <4>3. ToastRef(m, j) \in R \ {r} /\ ToastRef(m, j)[3] = m.toast[j].geom
        BY <3>3, ReferenceCases, OneReference DEF ToastRef, R, r
      <4>4. QED
        BY <2>7, <4>1, <4>2, <4>3
    <3>4. QED
      BY <3>2, <3>3
  <2>13. \A x \in Indexes : Stands(n, x)
    <3>1. SUFFICES ASSUME NEW x \in Indexes PROVE Stands(n, x)
      OBVIOUS
    <3>2. m.index[x] \in Index /\ Stands(m, x)
      BY <1>1 DEF MemoryOK
    <3>3. m.index[x].argnum # 0 =>
            /\ m.index[x].argnum \in 1 .. 2
            /\ m.index[x].key[m.index[x].argnum] \in DOMAIN m.heap
      BY <3>2 DEF Index, Stands
    <3>4. m.index[x].argnum # 0 => m.index[x].key[m.index[x].argnum] # None
      BY <1>1, <3>3, NoneIsNothing DEF Addressed
    <3>5. QED
      BY <2>4, <2>9, <3>2, <3>3, <3>4, StandsStill
  <2>14. PreparedOK(n) /\ HashOK(n.hash, n.geos)
    BY <2>4 DEF MemoryOK, PreparedOK
  <2>15. MemoryOK(n)
    BY <2>4, <2>6, <2>7, <2>11, <2>12, <2>13, <2>14 DEF MemoryOK
  <2>16. QED
    BY <2>4, <2>10, <2>15 DEF n
<1>4. QED
  BY <1>2, <1>3

\* An argument is a value of the call, or a copy of a value seen out of line
Good(m, g) ==
  /\ g.at = 0 => g.value \in Values
  /\ g.at # 0 => /\ g.at # None /\ g.at \in DOMAIN m.heap /\ m.heap[g.at].value = g.value
                 /\ \E i \in 1 .. 2 : m.toast[i].geom = g.at

\* An argument has the value it was asked for with
LEMMA ArgumentIs ==
  ASSUME NEW m, MemoryOK(m), NEW i \in 1 .. 2, NEW d \in Datums,
         d \in Toasted => m.toast[i].id = d
  PROVE  /\ Good(m, Argument(m, i, d)) /\ Argument(m, i, d).value = ValueIn(d)
         /\ ValueIn(d) \in Values
<1> DEFINE g == Argument(m, i, d)
<1>1. CASE d \notin Toasted
  <2>1. d \in Values /\ g = InCall(d) /\ ValueIn(d) = d
    BY <1>1 DEF Datums, Argument, ValueIn
  <2>2. QED
    BY <2>1 DEF InCall, Good
<1>2. CASE d \in Toasted
  <2> DEFINE a == m.toast[i].geom
  <2>1. a \in DOMAIN m.heap /\ m.heap[a].value = ValueOf[d]
    BY <1>2, NoneIsNothing DEF MemoryOK, ToastOK
  <2>2. a # None /\ a # 0
    BY <2>1, NoneIsNothing DEF MemoryOK, Types, Addressed
  <2>3. g = [at |-> a, value |-> ValueOf[d]]
    BY <1>2, <2>1 DEF Argument, Cached
  <2>4. ValueOf[d] \in Values
    BY <1>2, GeometriesHaveKinds
  <2>5. Good(m, g)
    <3> HIDE DEF g
    <3>1. QED
      BY <2>1, <2>2, <2>3 DEF Good
  <2>6. QED
    BY <1>2, <2>3, <2>4, <2>5 DEF ValueIn
<1>3. QED
  BY <1>1, <1>2
-----------------------------------------------------------------------------
(* Keys.                                                                   *)

\* Key i of x is a copy of v
KeyHolds(m, x, i, v) ==
  m.index[x].key[i] \in DOMAIN m.heap /\ m.heap[m.index[x].key[i]].value = v

\* m and n differ in the heap and in the index of x, which is of no argument
SameButKeys(m, n, x) ==
  /\ n.toast = m.toast /\ n.context = m.context /\ n.hash = m.hash /\ n.geos = m.geos
  /\ \A y \in Indexes : y # x => n.index[y] = m.index[y]
  /\ n.index[x].argnum = 0 /\ n.index[x].tree = m.index[x].tree
  /\ \A g : Good(m, g) => Good(n, g)

\* A key that is set holds its argument, and what else is referred to stays
LEMMA SetKeyKeeps ==
  ASSUME NEW m, MemoryOK(m), NEW x \in Indexes, m.index[x].argnum = 0, NEW i \in 1 .. 2,
         NEW g, Good(m, g)
  PROVE  LET n == SetKey(m, x, i, g)
         IN  /\ MemoryOK(n) /\ SameButKeys(m, n, x)
             /\ KeyHolds(n, x, i, g.value)
             /\ \A j \in 1 .. 2 : \A v : j # i /\ KeyHolds(m, x, j, v) => KeyHolds(n, x, j, v)
<1> DEFINE n == SetKey(m, x, i, g)
           R == References(m)
           r == KeyRef(m, x, i)
           c == m.index[x]
           a == c.key[i]
           k == Released(m.heap, a)
           h == Referred(k, g)
           b == PlaceOf(k, g)
           z == [key |-> [c.key EXCEPT ![i] = b], argnum |-> 0, tree |-> c.tree]
           index == [m.index EXCEPT ![x] = z]
<1>1. /\ m = WithHeap(m, m.heap) /\ Addressed(m.heap, Copy) /\ Counted(m.heap, R)
      /\ m.toast \in [1 .. 2 -> Seen] /\ m.index \in [Indexes -> Index] /\ c \in Index
  BY DEF MemoryOK, Types, WithHeap
<1>2. /\ c = [key |-> c.key, argnum |-> 0, tree |-> c.tree]
      /\ c.key \in [1 .. 2 -> Slot]
  BY <1>1 DEF Index
<1>3. n = [heap |-> h, toast |-> m.toast, index |-> index, context |-> m.context,
           hash |-> m.hash, geos |-> m.geos]
  <2> DEFINE u == Unref(m, a)
  <2>1. Ref(u, g) = WithHeap(m, h) /\ RefAt(u, g) = b
    BY <1>1, RefAfterUnref
  <2>2. n = [Ref(u, g) EXCEPT !.index[x].key[i] = RefAt(u, g)]
    BY DEF SetKey
  <2> HIDE DEF u, h, b
  <2>3. n = [WithHeap(m, h) EXCEPT !.index[x].key[i] = b]
    BY <2>1, <2>2
  <2>4. n = [WithHeap(m, h) EXCEPT !.index = [m.index EXCEPT ![x].key[i] = b]]
    BY <2>3 DEF WithHeap
  <2>5. [c EXCEPT !.key[i] = b] = z
    <3> HIDE DEF c
    <3>1. QED
      BY <1>2
  <2>6. [m.index EXCEPT ![x].key[i] = b] = [m.index EXCEPT ![x] = [c EXCEPT !.key[i] = b]]
    BY <1>1
  <2>7. n = [WithHeap(m, h) EXCEPT !.index = index]
    BY <2>4, <2>5, <2>6
  <2> HIDE DEF index
  <2>8. QED
    BY <2>7 DEF WithHeap
<1>4. /\ index[x] = z /\ z.key[i] = b /\ \A j \in 1 .. 2 : j # i => z.key[j] = c.key[j]
      /\ \A y \in Indexes : y # x => index[y] = m.index[y]
  <2>1. index[x] = z /\ \A y \in Indexes : y # x => index[y] = m.index[y]
    <3> HIDE DEF z
    <3>1. QED
      BY <1>1
  <2>2. z.key[i] = b /\ \A j \in 1 .. 2 : j # i => z.key[j] = c.key[j]
    <3> HIDE DEF b, c
    <3>1. QED
      BY <1>2
  <2>3. QED
    BY <2>1, <2>2
<1>5. /\ n.heap = h /\ n.toast = m.toast /\ n.index = index /\ n.context = m.context
      /\ n.hash = m.hash /\ n.geos = m.geos
  <2> HIDE DEF n, h, index
  <2>1. QED
    BY <1>3
<1>6. z.argnum = 0 /\ z.tree = c.tree
  OBVIOUS
<1> HIDE DEF n, index
<1>7. r[3] = a /\ r \in R
  BY ReferenceCases DEF KeyRef
<1> DEFINE q == KeyRef(n, x, i)
<1>8. q[3] = b
  BY <1>4, <1>5 DEF KeyRef
<1>9. References(n) = (R \ {r}) \cup {q} /\ q \notin R \ {r}
  <2>1. \A y \in Indexes, j \in 1 .. 2 :
          y # x \/ j # i => n.index[y].key[j] = m.index[y].key[j]
    <3> HIDE DEF z, b
    <3>1. QED
      BY <1>4, <1>5
  <2>2. QED
    BY <1>5, <2>1, KeyMoved
<1>10. g.at # 0 => Names(Without(R, r), g.at)
  <2>1. SUFFICES ASSUME g.at # 0 PROVE Names(Without(R, r), g.at)
    OBVIOUS
  <2>2. PICK j \in 1 .. 2 : m.toast[j].geom = g.at
    BY <2>1 DEF Good
  <2>3. ToastRef(m, j) \in R \ {r} /\ ToastRef(m, j)[3] = g.at
    BY <2>2, ReferenceCases, OneReference DEF ToastRef
  <2>4. QED
    BY <2>3 DEF Names, Without
<1> HIDE DEF q, R, r, z, c
<1>11. /\ Addressed(h, Copy) /\ Counted(h, (R \ {r}) \cup {q})
       /\ q[3] \in DOMAIN h /\ h[q[3]].value = g.value
       /\ \A o \in R \ {r} : o[3] # None =>
            o[3] \in DOMAIN m.heap /\ o[3] \in DOMAIN h /\ h[o[3]].value = m.heap[o[3]].value
  <2>1. Addressed(m.heap, Copy) /\ Counted(m.heap, R) /\ r \in R
    BY <1>1, <1>7
  <2>2. /\ g.at = 0 => g.value \in Values
        /\ g.at # 0 => /\ g.at # None /\ m.heap[g.at].value = g.value
                       /\ Names(Without(R, r), g.at)
    BY <1>10 DEF Good
  <2>3. q[3] = PlaceOf(Released(m.heap, r[3]), g) /\ h = Referred(Released(m.heap, r[3]), g)
    BY <1>7, <1>8
  <2>4. ~(q \in Without(R, r))
    BY <1>9 DEF Without
  <2> HIDE DEF h, b, k, a
  <2>5. /\ Addressed(h, Copy) /\ Counted(h, With(Without(R, r), q))
        /\ q[3] \in DOMAIN h /\ h[q[3]].value = g.value
        /\ Kept(Without(R, r), m.heap, h)
    BY <2>1, <2>2, <2>3, <2>4, CopyMoved
  <2>6. QED
    BY <2>5 DEF With, Without, Kept
<1> HIDE DEF h, b, k, a
<1>12. b \in DOMAIN h /\ b \in Slot /\ h[b].value = g.value
  BY <1>8, <1>11 DEF Addressed, Slot
<1>13. ASSUME NEW y \in Indexes, NEW j \in 1 .. 2, y # x \/ j # i, m.index[y].key[j] # None
       PROVE  /\ m.index[y].key[j] \in DOMAIN m.heap /\ m.index[y].key[j] \in DOMAIN h
              /\ h[m.index[y].key[j]].value = m.heap[m.index[y].key[j]].value
  <2>1. KeyRef(m, y, j) \in R \ {r} /\ KeyRef(m, y, j)[3] = m.index[y].key[j]
    BY <1>13, ReferenceCases, OneReference DEF KeyRef, R, r
  <2>2. QED
    BY <1>11, <1>13, <2>1
<1>14. ASSUME NEW j \in 1 .. 2, m.toast[j].geom # None
       PROVE  /\ m.toast[j].geom \in DOMAIN m.heap /\ m.toast[j].geom \in DOMAIN h
              /\ h[m.toast[j].geom].value = m.heap[m.toast[j].geom].value
  <2>1. ToastRef(m, j) \in R \ {r} /\ ToastRef(m, j)[3] = m.toast[j].geom
    BY ReferenceCases, OneReference DEF ToastRef, R, r
  <2>2. QED
    BY <1>11, <1>14, <2>1
<1>15. None \notin DOMAIN m.heap
  BY <1>1, NoneIsNothing DEF Addressed
<1>16. Types(n)
  <2>1. z \in Index
    <3>1. [c.key EXCEPT ![i] = b] \in [1 .. 2 -> Slot]
      BY <1>2, <1>12
    <3>2. c.tree \in Slot \cup Values
      BY <1>1 DEF Index, c
    <3> DEFINE key == [c.key EXCEPT ![i] = b]
    <3>3. z = [key |-> key, argnum |-> 0, tree |-> c.tree]
      BY DEF z
    <3> HIDE DEF key
    <3>4. QED
      BY <3>1, <3>2, <3>3 DEF Index, key
  <2>2. n.index \in [Indexes -> Index]
    BY <1>1, <1>5, <2>1 DEF index
  <2>3. n = [heap |-> n.heap, toast |-> n.toast, index |-> n.index, context |-> n.context,
             hash |-> n.hash, geos |-> n.geos]
    BY <1>3, <1>5
  <2>4. QED
    BY <1>1, <1>5, <1>11, <2>2, <2>3 DEF Types, MemoryOK
<1>17. ToastOK(n)
  BY <1>5, <1>14, <1>15 DEF ToastOK, MemoryOK
<1>18. \A y \in Indexes : Stands(n, y)
  <2>1. SUFFICES ASSUME NEW y \in Indexes PROVE Stands(n, y)
    OBVIOUS
  <2>2. CASE y = x
    BY <1>4, <1>5, <1>6, <2>2 DEF Stands
  <2>3. CASE y # x
    <3>1. m.index[y] \in Index /\ Stands(m, y)
      BY <1>1 DEF MemoryOK
    <3>2. m.index[y].argnum # 0 =>
            /\ m.index[y].argnum \in 1 .. 2
            /\ m.index[y].key[m.index[y].argnum] \in DOMAIN m.heap
      BY <3>1 DEF Index, Stands
    <3>3. QED
      BY <1>4, <1>5, <1>13, <1>15, <2>3, <3>1, <3>2, StandsStill
  <2>4. QED
    BY <2>2, <2>3
<1>19. PreparedOK(n) /\ HashOK(n.hash, n.geos)
  <2>1. /\ n.index["prepared"].argnum = m.index["prepared"].argnum
        /\ n.index["prepared"].tree = m.index["prepared"].tree
    BY <1>4, <1>5, <1>6 DEF Indexes, c
  <2>2. QED
    BY <1>5, <2>1 DEF PreparedOK, MemoryOK
<1>20. MemoryOK(n)
  BY <1>5, <1>9, <1>11, <1>16, <1>17, <1>18, <1>19 DEF MemoryOK
<1>21. SameButKeys(m, n, x)
  <2>1. ASSUME NEW f, Good(m, f) PROVE Good(n, f)
    BY <1>5, <1>14, <2>1 DEF Good
  <2>2. QED
    BY <1>4, <1>5, <1>6, <2>1 DEF SameButKeys, c
<1>22. KeyHolds(n, x, i, g.value)
  BY <1>4, <1>5, <1>12 DEF KeyHolds
<1>23. \A j \in 1 .. 2 : \A v : j # i /\ KeyHolds(m, x, j, v) => KeyHolds(n, x, j, v)
  BY <1>4, <1>5, <1>13, <1>15 DEF KeyHolds, c
<1>24. QED
  BY <1>20, <1>21, <1>22, <1>23 DEF n

\* The arguments of a lookup, one or two
Arguments(m, args) ==
  /\ DOMAIN args = 1 .. Len(args) /\ Len(args) \in 1 .. 2
  /\ \A i \in 1 .. Len(args) : Good(m, args[i])

\* After a miss, the keys hold the arguments
LEMMA SetKeysKeeps ==
  ASSUME NEW m, MemoryOK(m), NEW x \in Indexes, m.index[x].argnum = 0,
         NEW args, Arguments(m, args)
  PROVE  LET n == SetKeys(m, x, args)
         IN  /\ MemoryOK(n) /\ SameButKeys(m, n, x)
             /\ \A i \in 1 .. Len(args) : KeyHolds(n, x, i, args[i].value)
<1> DEFINE m1 == SetKey(m, x, 1, args[1])
<1>1. Good(m, args[1]) /\ Len(args) \in 1 .. 2
  BY DEF Arguments
<1>2. /\ MemoryOK(m1) /\ SameButKeys(m, m1, x) /\ KeyHolds(m1, x, 1, args[1].value)
  BY <1>1, SetKeyKeeps
<1>3. CASE Len(args) = 1
  <2>1. SetKeys(m, x, args) = m1
    BY <1>3 DEF SetKeys
  <2> HIDE DEF m1
  <2>2. QED
    BY <1>2, <1>3, <2>1
<1>4. CASE Len(args) = 2
  <2> DEFINE n == SetKey(m1, x, 2, args[2])
  <2>1. SetKeys(m, x, args) = n
    BY <1>4 DEF SetKeys
  <2> HIDE DEF m1
  <2>2. Good(m1, args[2]) /\ m1.index[x].argnum = 0
    BY <1>2, <1>4 DEF Arguments, SameButKeys
  <2>3. /\ MemoryOK(n) /\ SameButKeys(m1, n, x) /\ KeyHolds(n, x, 2, args[2].value)
        /\ \A j \in 1 .. 2 : \A v : j # 2 /\ KeyHolds(m1, x, j, v) => KeyHolds(n, x, j, v)
    BY <1>2, <2>2, SetKeyKeeps
  <2> HIDE DEF n
  <2>4. KeyHolds(n, x, 1, args[1].value)
    BY <1>2, <2>3
  <2>5. SameButKeys(m, n, x)
    BY <1>2, <2>3 DEF SameButKeys
  <2>6. QED
    BY <1>4, <2>1, <2>3, <2>4, <2>5
<1>5. QED
  BY <1>1, <1>3, <1>4
-----------------------------------------------------------------------------
(* Indexes built and freed.                                                *)

\* What one site does to the objects of the others, and to the hash
Frame(m, n) ==
  /\ n.context # m.context => m.context = None /\ n.context = NewContext
  /\ DOMAIN n.hash = DOMAIN m.hash \cup ({n.context} \ {None})
  /\ \A c \in DOMAIN m.hash : c # n.context => n.hash[c] = m.hash[c]
  /\ \A o \in DOMAIN m.geos : o # m.index["prepared"].tree =>
       o \in DOMAIN n.geos /\ n.geos[o] = m.geos[o]

\* m and n differ in the index of x, which keeps its keys
SameButIndex(m, n, x) ==
  /\ n.heap = m.heap /\ n.toast = m.toast
  /\ \A y \in Indexes : y # x => n.index[y] = m.index[y]
  /\ n.index[x].key = m.index[x].key

\* What does not depend on the index that is built
LEMMA OnlyIndexMoved ==
  ASSUME NEW m, MemoryOK(m), NEW x \in Indexes, NEW n, SameButIndex(m, n, x)
  PROVE  /\ Counted(n.heap, References(n)) /\ ToastOK(n)
         /\ Addressed(n.heap, Copy) /\ n.toast \in [1 .. 2 -> Seen]
         /\ \A g : Good(m, g) => Good(n, g)
<1>1. References(n) = References(m)
  <2>1. \A i : ToastRef(n, i) = ToastRef(m, i)
    BY DEF ToastRef, SameButIndex
  <2>2. \A y \in Indexes : \A i : KeyRef(n, y, i) = KeyRef(m, y, i)
    BY DEF KeyRef, SameButIndex
  <2>3. \A r : r \in References(n) <=> r \in References(m)
    BY <2>1, <2>2, ReferenceCases
  <2>4. QED
    BY <2>3
<1>2. QED
  BY <1>1 DEF SameButIndex, MemoryOK, Types, ToastOK, Good

\* A miss frees the index, and the object of a prepared geometry
LEMMA FreeIndexKeeps ==
  ASSUME NEW m, MemoryOK(m), NEW x \in Indexes
  PROVE  LET n == FreeIndex(m, x)
         IN  /\ MemoryOK(n) /\ SameButIndex(m, n, x) /\ Frame(m, n)
             /\ n.index[x].argnum = 0 /\ n.context = m.context
<1> DEFINE n == FreeIndex(m, x)
           c == m.index[x]
<1>1. /\ m.index \in [Indexes -> Index] /\ c \in Index
      /\ m = [heap |-> m.heap, toast |-> m.toast, index |-> m.index, context |-> m.context,
              hash |-> m.hash, geos |-> m.geos]
      /\ None \notin Nat
  BY NoneIsNothing DEF MemoryOK, Types
<1>2. /\ c = [key |-> c.key, argnum |-> c.argnum, tree |-> c.tree]
      /\ c.key \in [1 .. 2 -> Slot]
  BY <1>1 DEF Index
<1>3. m.context # None => m.context \in DOMAIN m.hash
  BY DEF MemoryOK, PreparedOK
<1>4. CASE c.argnum = 0
  <2>1. n = m
    BY <1>4 DEF FreeIndex, FreeTree
  <2>2. QED
    BY <1>3, <1>4, <2>1 DEF SameButIndex, Frame
<1>5. CASE c.argnum # 0
  <2> DEFINE z == [key |-> c.key, argnum |-> 0, tree |-> None]
             index == [m.index EXCEPT ![x] = z]
             t == m.index["prepared"].tree
             hash1 == IF x = "prepared" THEN [m.hash EXCEPT ![m.context] = None] ELSE m.hash
             geos1 == IF x = "prepared" THEN [o \in DOMAIN m.geos \ {t} |-> m.geos[o]]
                                        ELSE m.geos
             f == IF x = "prepared" THEN FreePrepared(m) ELSE m
  <2>1. f = [heap |-> m.heap, toast |-> m.toast, index |-> m.index, context |-> m.context,
             hash |-> hash1, geos |-> geos1]
    <3>1. CASE x # "prepared"
      BY <1>1, <3>1
    <3>2. CASE x = "prepared"
      <4>1. f = [m EXCEPT !.hash = hash1, !.geos = geos1]
        BY <3>2 DEF FreePrepared
      <4> HIDE DEF f, hash1, geos1
      <4>2. QED
        BY <1>1, <4>1
    <3>3. QED
      BY <3>1, <3>2
  <2>2. n = [heap |-> m.heap, toast |-> m.toast, index |-> index, context |-> m.context,
             hash |-> hash1, geos |-> geos1]
    <3>1. n = [f EXCEPT !.index[x].argnum = 0, !.index[x].tree = None]
      BY <1>5 DEF FreeIndex, FreeTree
    <3> HIDE DEF f, hash1, geos1
    <3>2. [[c EXCEPT !.argnum = 0] EXCEPT !.tree = None] = z
      <4> DEFINE e == [c EXCEPT !.argnum = 0]
      <4>1. e = [key |-> c.key, argnum |-> 0, tree |-> c.tree]
        <5> HIDE DEF c
        <5>1. QED
          BY <1>2
      <4> HIDE DEF e, c
      <4>2. [e EXCEPT !.tree = None] = z
        BY <4>1
      <4>3. QED
        BY <4>2 DEF e
    <3>3. [[m.index EXCEPT ![x].argnum = 0] EXCEPT ![x].tree = None] = index
      <4> DEFINE e == [c EXCEPT !.argnum = 0]
                 k == [m.index EXCEPT ![x] = e]
      <4>1. [m.index EXCEPT ![x].argnum = 0] = k
        BY <1>1
      <4>2. k[x] = e /\ DOMAIN k = Indexes
        <5> HIDE DEF e
        <5>1. QED
          BY <1>1
      <4> HIDE DEF k
      <4>3. [k EXCEPT ![x].tree = None] = [k EXCEPT ![x] = [e EXCEPT !.tree = None]]
        <5> HIDE DEF e
        <5>1. QED
          BY <4>2
      <4>4. [k EXCEPT ![x].tree = None] = [k EXCEPT ![x] = z]
        BY <3>2, <4>3
      <4> HIDE DEF z, e
      <4>5. [k EXCEPT ![x] = z] = index
        BY <1>1 DEF k
      <4>6. QED
        BY <4>1, <4>4, <4>5
    <3>4. n = [f EXCEPT !.index = [[m.index EXCEPT ![x].argnum = 0] EXCEPT ![x].tree = None]]
      BY <2>1, <3>1
    <3> HIDE DEF index
    <3>5. n = [f EXCEPT !.index = index]
      BY <3>3, <3>4
    <3>6. QED
      BY <2>1, <3>5
  <2>3. index[x] = z /\ \A y \in Indexes : y # x => index[y] = m.index[y]
    <3> HIDE DEF z
    <3>1. QED
      BY <1>1
  <2>4. z.key = c.key /\ z.argnum = 0 /\ z.tree = None /\ z \in Index
    BY <1>2 DEF Index, Slot
  <2>5. n.index \in [Indexes -> Index]
    <3> HIDE DEF z
    <3>1. QED
      BY <1>1, <2>2, <2>4
  <2> HIDE DEF index, z, f
  <2>6. /\ n.heap = m.heap /\ n.toast = m.toast /\ n.index = index /\ n.context = m.context
        /\ n.hash = hash1 /\ n.geos = geos1
    <3> HIDE DEF n, hash1, geos1
    <3>1. QED
      BY <2>2
  <2> HIDE DEF n
  <2>7. SameButIndex(m, n, x)
    BY <2>3, <2>4, <2>6 DEF SameButIndex
  <2>8. /\ Addressed(m.hash, Slot) /\ Addressed(m.geos, Values) /\ HashOK(m.hash, m.geos)
        /\ PreparedOK(m) /\ m.context \in Slot \ {0}
    BY DEF MemoryOK, Types
  <2>9. x = "prepared" =>
          /\ t = c.tree /\ t # None /\ m.context # None /\ m.context \in DOMAIN m.hash
          /\ m.hash[m.context] = t
    BY <1>5, <2>8 DEF PreparedOK
  <2>10. Addressed(hash1, Slot) /\ Addressed(geos1, Values) /\ DOMAIN hash1 = DOMAIN m.hash
    <3>1. CASE x # "prepared"
      BY <2>8, <3>1
    <3>2. CASE x = "prepared"
      <4>1. hash1 \in [DOMAIN m.hash -> Slot]
        <5>1. m.hash \in [DOMAIN m.hash -> Slot] /\ hash1 = [m.hash EXCEPT ![m.context] = None]
          BY <2>8, <3>2 DEF Addressed
        <5> HIDE DEF hash1
        <5>2. QED
          BY <5>1 DEF Slot
      <4>2. Addressed(hash1, Slot) /\ DOMAIN hash1 = DOMAIN m.hash
        <5> HIDE DEF hash1
        <5>1. QED
          BY <2>8, <4>1 DEF Addressed
      <4>3. Addressed(geos1, Values)
        BY <2>8, <3>2, DropAddressed
      <4>4. QED
        BY <4>2, <4>3
    <3>3. QED
      BY <3>1, <3>2
  <2>11. x = "prepared" =>
           /\ hash1[m.context] = None
           /\ \A b \in DOMAIN m.hash : b # m.context => hash1[b] = m.hash[b]
           /\ DOMAIN geos1 = DOMAIN m.geos \ {t}
           /\ \A o \in DOMAIN geos1 : geos1[o] = m.geos[o]
    BY <2>9
  <2>12. x # "prepared" => hash1 = m.hash /\ geos1 = m.geos
    OBVIOUS
  <2> HIDE DEF hash1, geos1
  <2>13. HashOK(hash1, geos1)
    <3>1. CASE x # "prepared"
      BY <2>8, <2>12, <3>1
    <3>2. CASE x = "prepared"
      <4>1. /\ \A b, d \in DOMAIN m.hash : m.hash[b] = m.hash[d] /\ m.hash[b] # None => b = d
            /\ DOMAIN m.geos = {m.hash[b] : b \in DOMAIN m.hash} \ {None}
        BY <2>8 DEF HashOK
      <4>2. \A b \in DOMAIN m.hash : b # m.context => m.hash[b] # t
        BY <2>9, <3>2, <4>1
      <4>3. \A b, d \in DOMAIN hash1 : hash1[b] = hash1[d] /\ hash1[b] # None => b = d
        BY <2>10, <2>11, <3>2, <4>1
      <4>4. DOMAIN geos1 = {hash1[b] : b \in DOMAIN hash1} \ {None}
        <5>1. ASSUME NEW o \in DOMAIN geos1
              PROVE  o \in {hash1[b] : b \in DOMAIN hash1} \ {None}
          BY <2>9, <2>10, <2>11, <3>2, <4>1
        <5>2. ASSUME NEW b \in DOMAIN hash1, hash1[b] # None PROVE hash1[b] \in DOMAIN geos1
          BY <2>9, <2>10, <2>11, <3>2, <4>1, <4>2, <5>2
        <5>3. QED
          BY <5>1, <5>2
      <4>5. QED
        BY <4>3, <4>4 DEF HashOK
    <3>3. QED
      BY <3>1, <3>2
  <2>14. PreparedOK(n)
    <3>1. CASE x # "prepared"
      BY <2>3, <2>6, <2>8, <2>12, <3>1 DEF PreparedOK, Indexes
    <3>2. CASE x = "prepared"
      BY <2>3, <2>4, <2>6, <2>9, <2>10, <2>11, <3>2 DEF PreparedOK
    <3>3. QED
      BY <3>1, <3>2
  <2>15. Types(n)
    <3>1. n = [heap |-> n.heap, toast |-> n.toast, index |-> n.index, context |-> n.context,
               hash |-> n.hash, geos |-> n.geos]
      BY <2>2, <2>6
    <3>2. QED
      BY <2>5, <2>6, <2>7, <2>8, <2>10, <3>1, OnlyIndexMoved DEF Types
  <2>16. ASSUME NEW y \in Indexes PROVE Stands(n, y)
    <3>1. CASE y = x
      BY <2>3, <2>4, <2>6, <3>1 DEF Stands
    <3>2. CASE y # x
      <4>1. n.index[y] = m.index[y] /\ n.heap = m.heap /\ Stands(m, y)
        BY <2>3, <2>6, <3>2 DEF MemoryOK
      <4>2. CASE x # "prepared"
        BY <2>6, <2>12, <4>1, <4>2, StandsStill DEF Stands
      <4>3. CASE x = "prepared"
        <5>1. IndexedValue(n, y) = IndexedValue(m, y)
          BY <3>2, <4>1, <4>3 DEF IndexedValue, Cached, Indexes
        <5>2. QED
          BY <4>1, <5>1 DEF Stands
      <4>4. QED
        BY <4>2, <4>3
    <3>3. QED
      BY <3>1, <3>2
  <2>17. MemoryOK(n)
    BY <2>6, <2>7, <2>13, <2>14, <2>15, <2>16, OnlyIndexMoved DEF MemoryOK
  <2>18. Frame(m, n)
    <3>1. DOMAIN n.hash = DOMAIN m.hash \cup ({n.context} \ {None})
      BY <1>3, <2>6, <2>10
    <3>2. QED
      BY <2>6, <2>11, <2>12, <3>1 DEF Frame
  <2>19. QED
    BY <2>3, <2>4, <2>6, <2>7, <2>17, <2>18 DEF n
<1>6. QED
  BY <1>4, <1>5

\* A hit builds the index on the copy that its key holds
LEMMA BuildIndexKeeps ==
  ASSUME NEW m, MemoryOK(m), NEW x \in Indexes, m.index[x].argnum = 0, NEW arg \in 1 .. 2,
         m.index[x].key[arg] # None,
         NewContext \in Nat \ {0}, NewContext \notin DOMAIN m.hash
  PROVE  LET n == BuildIndex(m, x, arg)
         IN  /\ MemoryOK(n) /\ SameButIndex(m, n, x) /\ Frame(m, n)
             /\ n.index[x].argnum = arg
<1> DEFINE n == BuildIndex(m, x, arg)
           c == m.index[x]
           a == c.key[arg]
           v == m.heap[a].value
           o == Fresh(DOMAIN m.geos)
           b == IF m.context = None THEN NewContext ELSE m.context
           tree1 == IF x = "prepared" THEN o ELSE IF x = "rtree" THEN v ELSE a
           context1 == IF x = "prepared" THEN b ELSE m.context
           hash1 == IF x = "prepared" THEN Put(m.hash, b, o) ELSE m.hash
           geos1 == IF x = "prepared" THEN Put(m.geos, o, v) ELSE m.geos
           z == [key |-> c.key, argnum |-> arg, tree |-> tree1]
           index == [m.index EXCEPT ![x] = z]
<1>1. /\ m.index \in [Indexes -> Index] /\ c \in Index
      /\ m = [heap |-> m.heap, toast |-> m.toast, index |-> m.index, context |-> m.context,
              hash |-> m.hash, geos |-> m.geos]
      /\ None \notin Nat
      /\ Addressed(m.hash, Slot) /\ Addressed(m.geos, Values) /\ Addressed(m.heap, Copy)
      /\ HashOK(m.hash, m.geos) /\ PreparedOK(m) /\ m.context \in Slot \ {0}
      /\ Counted(m.heap, References(m))
  BY NoneIsNothing DEF MemoryOK, Types
<1>2. /\ c = [key |-> c.key, argnum |-> 0, tree |-> c.tree]
      /\ c.key \in [1 .. 2 -> Slot]
  BY <1>1 DEF Index
<1>3. a \in DOMAIN m.heap /\ a \in Nat
  <2>1. KeyRef(m, x, arg) \in References(m) /\ KeyRef(m, x, arg)[3] = a
    BY ReferenceCases DEF KeyRef
  <2>2. a \in DOMAIN m.heap
    BY <1>1, <2>1, ReferredIsThere
  <2>3. QED
    BY <1>1, <2>2 DEF Addressed
<1>4. v \in Values /\ Cached(m, a).value = v
  BY <1>1, <1>3 DEF Addressed, Copy, Cached
<1>5. o \in Nat \ {0} /\ o \notin DOMAIN m.geos /\ o # None
  BY <1>1, FreshIsFree DEF Addressed
<1>6. b \in Nat \ {0} /\ b # None /\ (m.context # None => b = m.context)
  BY <1>1 DEF Slot
<1>7. n = [heap |-> m.heap, toast |-> m.toast, index |-> index, context |-> context1,
           hash |-> hash1, geos |-> geos1]
  <2> DEFINE y == [key |-> c.key, argnum |-> 0, tree |-> tree1]
             index0 == [m.index EXCEPT ![x] = y]
             e == [heap |-> m.heap, toast |-> m.toast, index |-> index0, context |-> context1,
                   hash |-> hash1, geos |-> geos1]
  <2>1. [c EXCEPT !.tree = tree1] = y
    <3> HIDE DEF c, tree1
    <3>1. QED
      BY <1>2
  <2>2. [m.index EXCEPT ![x].tree = tree1] = index0
    <3>1. [m.index EXCEPT ![x].tree = tree1] = [m.index EXCEPT ![x] = [c EXCEPT !.tree = tree1]]
      <4> HIDE DEF tree1
      <4>1. QED
        BY <1>1
    <3> HIDE DEF tree1, y, c
    <3>2. QED
      BY <2>1, <3>1
  <2>3. x = "prepared" => n = [e EXCEPT !.index[x].argnum = arg]
    <3>1. SUFFICES ASSUME x = "prepared" PROVE n = [e EXCEPT !.index[x].argnum = arg]
      OBVIOUS
    <3>2. n = [BuildPrepared(m, arg) EXCEPT !.index[x].argnum = arg]
      BY <3>1 DEF BuildIndex
    <3>3. BuildPrepared(m, arg) = [m EXCEPT !.context = context1, !.geos = geos1,
                                            !.hash = hash1, !.index[x].tree = tree1]
      BY <1>4, <3>1 DEF BuildPrepared
    <3> DEFINE i1 == [m.index EXCEPT ![x].tree = tree1]
               m1 == [m EXCEPT !.context = context1]
               m2 == [m1 EXCEPT !.geos = geos1]
               m3 == [m2 EXCEPT !.hash = hash1]
    <3>4. i1 = index0
      BY <2>2
    <3>5. BuildPrepared(m, arg) = [m3 EXCEPT !.index = i1]
      <4> HIDE DEF context1, geos1, hash1, tree1
      <4>1. QED
        BY <3>3
    <3> HIDE DEF context1, geos1, hash1, tree1, index0, i1, n, c
    <3>6. m1 = [heap |-> m.heap, toast |-> m.toast, index |-> m.index, context |-> context1,
                hash |-> m.hash, geos |-> m.geos]
      BY <1>1
    <3> HIDE DEF m1
    <3>7. m2 = [heap |-> m.heap, toast |-> m.toast, index |-> m.index, context |-> context1,
                hash |-> m.hash, geos |-> geos1]
      BY <3>6
    <3> HIDE DEF m2
    <3>8. m3 = [heap |-> m.heap, toast |-> m.toast, index |-> m.index, context |-> context1,
                hash |-> hash1, geos |-> geos1]
      BY <3>7
    <3> HIDE DEF m3
    <3>9. [m3 EXCEPT !.index = i1] = e
      BY <3>4, <3>8
    <3> HIDE DEF e
    <3>10. QED
      BY <3>2, <3>5, <3>9
  <2>4. x # "prepared" => n = [e EXCEPT !.index[x].argnum = arg]
    <3>1. SUFFICES ASSUME x # "prepared" PROVE n = [e EXCEPT !.index[x].argnum = arg]
      OBVIOUS
    <3> DEFINE w == [m EXCEPT !.index[x].tree = tree1]
    <3>2. n = [w EXCEPT !.index[x].argnum = arg]
      BY <1>4, <3>1 DEF BuildIndex, Indexes
    <3>3. context1 = m.context /\ hash1 = m.hash /\ geos1 = m.geos
      BY <3>1
    <3> DEFINE i1 == [m.index EXCEPT ![x].tree = tree1]
    <3>4. w = [m EXCEPT !.index = i1] /\ i1 = index0
      BY <2>2
    <3> HIDE DEF tree1, index0, i1, w, context1, hash1, geos1, n, c
    <3>5. w = e
      BY <1>1, <3>3, <3>4
    <3>6. QED
      BY <3>2, <3>5
  <2>5. n = [e EXCEPT !.index[x].argnum = arg]
    <3> HIDE DEF e, n
    <3>1. QED
      BY <2>3, <2>4
  <2>6. n = [e EXCEPT !.index = [index0 EXCEPT ![x].argnum = arg]]
    <3> HIDE DEF index0, context1, hash1, geos1, n
    <3>1. QED
      BY <2>5 DEF e
  <2>7. [index0 EXCEPT ![x].argnum = arg] = index
    <3>1. index0[x] = y /\ DOMAIN index0 = Indexes
      <4> HIDE DEF y
      <4>1. QED
        BY <1>1
    <3>2. [y EXCEPT !.argnum = arg] = z
      <4> HIDE DEF tree1, c
      <4>1. QED
        OBVIOUS
    <3> DEFINE i0 == index0
    <3>3. [i0 EXCEPT ![x].argnum = arg] = [i0 EXCEPT ![x] = z]
      <4> HIDE DEF z, y, index0
      <4>1. QED
        BY <3>1, <3>2
    <3>4. [i0 EXCEPT ![x] = z] = index
      <4> HIDE DEF z, y
      <4>1. QED
        BY <1>1
    <3>5. QED
      BY <3>3, <3>4
  <2> HIDE DEF index, index0, context1, hash1, geos1, n
  <2>8. QED
    BY <2>6, <2>7 DEF e
<1>8. /\ index[x] = z /\ z.key = c.key /\ z.argnum = arg /\ z.tree = tree1 /\ z \in Index
      /\ \A y \in Indexes : y # x => index[y] = m.index[y]
      /\ index \in [Indexes -> Index]
  <2>1. tree1 \in Slot \cup Values
    BY <1>3, <1>4, <1>5 DEF Slot
  <2> HIDE DEF tree1
  <2>2. z \in Index /\ z.key = c.key /\ z.argnum = arg /\ z.tree = tree1
    BY <1>2, <2>1 DEF Index
  <2> HIDE DEF z
  <2>3. QED
    BY <1>1, <2>2
<1> HIDE DEF index, z
<1>9. /\ n.heap = m.heap /\ n.toast = m.toast /\ n.index = index /\ n.context = context1
      /\ n.hash = hash1 /\ n.geos = geos1
  <2> HIDE DEF n, context1, hash1, geos1
  <2>1. QED
    BY <1>7
<1> HIDE DEF n
<1>10. SameButIndex(m, n, x)
  BY <1>8, <1>9 DEF SameButIndex
<1>11. x = "prepared" =>
         (m.context # None => m.context \in DOMAIN m.hash /\ m.hash[m.context] = None)
  BY <1>1 DEF PreparedOK
<1>12. /\ DOMAIN hash1 = IF x = "prepared" THEN DOMAIN m.hash \cup {b} ELSE DOMAIN m.hash
       /\ x = "prepared" => hash1[b] = o
       /\ \A d \in DOMAIN m.hash : x # "prepared" \/ d # b => hash1[d] = m.hash[d]
  <2> HIDE DEF o, b
  <2>1. QED
    BY DEF Put
<1>13. /\ DOMAIN geos1 = IF x = "prepared" THEN DOMAIN m.geos \cup {o} ELSE DOMAIN m.geos
       /\ x = "prepared" => geos1[o] = v
       /\ \A d \in DOMAIN m.geos : geos1[d] = m.geos[d]
  <2> HIDE DEF o, v
  <2>1. QED
    BY <1>5 DEF Put
<1>14. Addressed(hash1, Slot) /\ Addressed(geos1, Values)
  <2>1. o \in Slot
    BY <1>5 DEF Slot
  <2> HIDE DEF o, v, b
  <2>2. QED
    BY <1>1, <1>4, <1>5, <1>6, <2>1, PutAddressed
<1> HIDE DEF hash1, geos1, v
<1>15. /\ \A d, e \in DOMAIN m.hash : m.hash[d] = m.hash[e] /\ m.hash[d] # None => d = e
       /\ DOMAIN m.geos = {m.hash[d] : d \in DOMAIN m.hash} \ {None}
  BY <1>1 DEF HashOK
<1>16. x = "prepared" => (b \in DOMAIN m.hash => m.hash[b] = None)
  BY <1>11
<1> HIDE DEF o, b
<1>17. HashOK(hash1, geos1)
  <2>1. CASE x # "prepared"
    <3>1. hash1 = m.hash /\ geos1 = m.geos
      BY <2>1 DEF hash1, geos1
    <3>2. QED
      BY <1>1, <3>1
  <2>2. CASE x = "prepared"
    <3>1. \A d \in DOMAIN m.hash : m.hash[d] # None => m.hash[d] \in DOMAIN m.geos
      BY <1>15
    <3>2. \A d, e \in DOMAIN hash1 : hash1[d] = hash1[e] /\ hash1[d] # None => d = e
      BY <1>5, <1>12, <1>15, <2>2, <3>1
    <3>3. \A d \in DOMAIN hash1 : hash1[d] # None => hash1[d] \in DOMAIN geos1
      BY <1>12, <1>13, <2>2, <3>1
    <3>4. ASSUME NEW e \in DOMAIN geos1 PROVE e \in {hash1[d] : d \in DOMAIN hash1} \ {None}
      <4>1. CASE e = o
        BY <1>5, <1>12, <2>2, <4>1
      <4>2. CASE e # o
        <5>1. PICK d \in DOMAIN m.hash : e = m.hash[d] /\ e # None
          BY <1>13, <1>15, <2>2, <4>2
        <5>2. d # b
          BY <1>16, <2>2, <5>1
        <5>3. QED
          BY <1>12, <2>2, <5>1, <5>2
      <4>3. QED
        BY <4>1, <4>2
    <3>5. DOMAIN geos1 = {hash1[d] : d \in DOMAIN hash1} \ {None}
      BY <3>3, <3>4
    <3>6. QED
      BY <3>2, <3>5 DEF HashOK
  <2>3. QED
    BY <2>1, <2>2
<1>18. PreparedOK(n)
  <2>1. CASE x # "prepared"
    <3>1. n.index["prepared"] = m.index["prepared"] /\ n.hash = m.hash /\ n.context = m.context
      BY <1>8, <1>9, <2>1 DEF Indexes, hash1
    <3>2. QED
      BY <1>1, <3>1 DEF PreparedOK
  <2>2. CASE x = "prepared"
    <3>1. n.index["prepared"].tree = o /\ n.index["prepared"].argnum = arg /\ n.context = b
      BY <1>8, <1>9, <2>2
    <3>2. b \in DOMAIN n.hash /\ n.hash[b] = o
      BY <1>9, <1>12, <2>2
    <3>3. QED
      BY <1>5, <1>6, <3>1, <3>2 DEF PreparedOK
  <2>3. QED
    BY <2>1, <2>2
<1>19. Types(n)
  <2>1. n = [heap |-> n.heap, toast |-> n.toast, index |-> n.index, context |-> n.context,
             hash |-> n.hash, geos |-> n.geos]
    BY <1>7, <1>9
  <2>2. n.context \in Slot \ {0}
    BY <1>1, <1>6, <1>9 DEF Slot
  <2>3. QED
    BY <1>8, <1>9, <1>10, <1>14, <2>1, <2>2, OnlyIndexMoved DEF Types
<1>20. ASSUME NEW y \in Indexes PROVE Stands(n, y)
  <2>1. CASE y = x
    <3>1. /\ n.index[y].argnum = arg /\ n.index[y].key[arg] = a /\ n.index[y].tree = tree1
          /\ n.heap = m.heap
      BY <1>8, <1>9, <2>1
    <3>2. n.heap[a].value = v
      BY <3>1 DEF v
    <3>3. IndexedValue(n, y) = v
      <4>1. CASE x = "prepared"
        BY <1>9, <1>13, <2>1, <3>1, <4>1 DEF IndexedValue
      <4>2. CASE x = "rtree"
        BY <2>1, <3>1, <4>2 DEF IndexedValue
      <4>3. CASE x = "tree"
        BY <1>3, <2>1, <3>1, <3>2, <4>3 DEF IndexedValue, Cached
      <4>4. QED
        BY <4>1, <4>2, <4>3 DEF Indexes
    <3>4. y = "tree" => n.index[y].tree = a
      BY <2>1, <3>1
    <3> HIDE DEF a, v, tree1
    <3>5. QED
      BY <1>3, <3>1, <3>2, <3>3, <3>4 DEF Stands
  <2>2. CASE y # x
    <3>1. n.index[y] = m.index[y] /\ n.heap = m.heap /\ Stands(m, y)
      BY <1>8, <1>9, <2>2 DEF MemoryOK
    <3>2. CASE x # "prepared"
      BY <1>9, <3>1, <3>2, StandsStill DEF Stands, geos1
    <3>3. CASE x = "prepared"
      <4>1. IndexedValue(n, y) = IndexedValue(m, y)
        BY <2>2, <3>1, <3>3 DEF IndexedValue, Cached, Indexes
      <4>2. QED
        BY <3>1, <4>1 DEF Stands
    <3>4. QED
      BY <3>2, <3>3
  <2>3. QED
    BY <2>1, <2>2
<1>21. MemoryOK(n)
  BY <1>9, <1>10, <1>17, <1>18, <1>19, <1>20, OnlyIndexMoved DEF MemoryOK
<1>22. Frame(m, n)
  <2>1. n.context # m.context => m.context = None /\ n.context = NewContext
    BY <1>9 DEF b
  <2>2. DOMAIN n.hash = DOMAIN m.hash \cup ({n.context} \ {None})
    <3>1. CASE x = "prepared"
      BY <1>6, <1>9, <1>12, <3>1
    <3>2. CASE x # "prepared"
      <4>1. n.context # None => n.context \in DOMAIN m.hash
        BY <1>1, <1>9, <3>2 DEF PreparedOK
      <4>2. QED
        BY <1>9, <1>12, <3>2, <4>1
    <3>3. QED
      BY <3>1, <3>2
  <2>3. \A d \in DOMAIN m.hash : d # n.context => n.hash[d] = m.hash[d]
    BY <1>9, <1>12
  <2>4. \A d \in DOMAIN m.geos : d \in DOMAIN n.geos /\ n.geos[d] = m.geos[d]
    BY <1>9, <1>13
  <2>5. QED
    BY <2>1, <2>2, <2>3, <2>4 DEF Frame
<1>23. QED
  BY <1>8, <1>9, <1>10, <1>21, <1>22 DEF n

\* GetGeomCache: an index is of the argument it was found or built for, and stands on an equal
\* copy; without one, the keys hold the arguments, so that an equal one finds the index next
LEMMA GetGeomCacheKeeps ==
  ASSUME NEW m, MemoryOK(m), NEW x \in Indexes, NEW args, Arguments(m, args),
         NewContext \in Nat \ {0}, NewContext \notin DOMAIN m.hash
  PROVE  LET n == GetGeomCache(m, x, args)
             argnum == n.index[x].argnum
         IN  /\ MemoryOK(n) /\ Frame(m, n)
             /\ argnum # 0 => argnum \in 1 .. Len(args) /\ KeyHolds(n, x, argnum, args[argnum].value)
             /\ argnum = 0 => \A i \in 1 .. Len(args) : KeyHolds(n, x, i, args[i].value)
             /\ (m.index[x].argnum = 0 /\ \E i \in 1 .. Len(args) : KeyHolds(m, x, i, args[i].value))
                  => argnum # 0
<1> DEFINE n == GetGeomCache(m, x, args)
           c == m.index[x]
           hits == {i \in DOMAIN args : Matches(m, x, i, args[i])}
           hit == IF 1 \in hits THEN 1 ELSE 2
<1>1. DOMAIN args = 1 .. Len(args) /\ Len(args) \in 1 .. 2
  BY DEF Arguments
<1>2. /\ c \in Index /\ None \notin DOMAIN m.heap
      /\ m.context # None => m.context \in DOMAIN m.hash
  BY NoneIsNothing DEF MemoryOK, Types, Addressed, PreparedOK
<1>3. ASSUME NEW i \in 1 .. Len(args)
      PROVE  i \in hits <=> c.argnum \in {0, i} /\ KeyHolds(m, x, i, args[i].value)
  <2>1. c.key[i] # None <=> c.key[i] \in DOMAIN m.heap
    <3>1. KeyRef(m, x, i) \in References(m) /\ KeyRef(m, x, i)[3] = c.key[i]
      BY <1>1, ReferenceCases DEF KeyRef
    <3>2. QED
      BY <1>2, <3>1, ReferredIsThere DEF MemoryOK
  <2>2. QED
    BY <1>1, <2>1 DEF Matches, KeyHolds, Cached
<1>4. CASE hits = {}
  <2> DEFINE f == FreeIndex(m, x)
             k == SetKeys(f, x, args)
  <2>1. n = k
    BY <1>4 DEF GetGeomCache
  <2>2. /\ MemoryOK(f) /\ SameButIndex(m, f, x) /\ Frame(m, f)
        /\ f.index[x].argnum = 0 /\ f.context = m.context
    BY FreeIndexKeeps
  <2> HIDE DEF f
  <2>3. Arguments(f, args)
    BY <2>2, OnlyIndexMoved DEF Arguments
  <2>4. /\ MemoryOK(k) /\ SameButKeys(f, k, x)
        /\ \A i \in 1 .. Len(args) : KeyHolds(k, x, i, args[i].value)
    BY <2>2, <2>3, SetKeysKeeps
  <2> HIDE DEF k, n, hits
  <2>5. Frame(m, n) /\ n.index[x].argnum = 0
    BY <2>1, <2>2, <2>4 DEF Frame, SameButKeys
  <2>6. c.argnum = 0 => ~ \E i \in 1 .. Len(args) : KeyHolds(m, x, i, args[i].value)
    BY <1>3, <1>4
  <2>7. QED
    BY <2>1, <2>4, <2>5, <2>6 DEF n
<1>5. CASE hits # {}
  <2>1. hit \in hits /\ hit \in 1 .. Len(args) /\ hit \in 1 .. 2
    BY <1>1, <1>5
  <2> HIDE DEF hits, hit
  <2>2. c.argnum \in {0, hit} /\ KeyHolds(m, x, hit, args[hit].value)
    BY <1>3, <2>1
  <2>3. CASE c.argnum = 0
    <3> DEFINE k == BuildIndex(m, x, hit)
    <3>1. n = k
      BY <1>5, <2>3 DEF GetGeomCache, hits, hit
    <3>2. m.index[x].key[hit] # None
      BY <1>2, <2>2 DEF KeyHolds
    <3>3. MemoryOK(k) /\ SameButIndex(m, k, x) /\ Frame(m, k) /\ k.index[x].argnum = hit
      BY <2>1, <2>3, <3>2, BuildIndexKeeps
    <3> HIDE DEF k, n
    <3>4. KeyHolds(n, x, hit, args[hit].value)
      BY <2>2, <3>1, <3>3 DEF KeyHolds, SameButIndex
    <3>5. hit # 0
      BY <2>1
    <3>6. QED
      BY <2>1, <3>1, <3>3, <3>4, <3>5 DEF n
  <2>4. CASE c.argnum # 0
    <3>1. n = m /\ c.argnum = hit
      BY <1>5, <2>2, <2>4 DEF GetGeomCache, hits, hit
    <3> HIDE DEF n
    <3>2. Frame(m, n)
      BY <1>2, <3>1 DEF Frame
    <3>3. QED
      BY <2>1, <2>2, <2>4, <3>1, <3>2 DEF n
  <2>5. QED
    BY <2>3, <2>4
<1>6. QED
  BY <1>4, <1>5
-----------------------------------------------------------------------------
(* The inductive invariant.                                                *)

Running(s) ==
  /\ site[s].fn \in Functions
  /\ site[s] = [fn |-> site[s].fn, heap |-> site[s].heap, toast |-> site[s].toast,
                index |-> site[s].index, context |-> site[s].context]
  /\ MemoryOK(Memory(s))

SitesOK ==
  /\ site = [s \in Sites |-> site[s]]
  /\ \A s \in Sites : site[s] # Ended => Running(s)

\* The hash has an entry for each context that ever had a prepared geometry, and no other
ContextsOK ==
  /\ Addressed(hash, Slot) /\ Addressed(geos, Values) /\ HashOK(hash, geos)
  /\ \A s \in Live : site[s].context # None => site[s].context \in DOMAIN hash
  /\ \A c \in DOMAIN hash : \E s \in Live : site[s].context = c
  /\ \A s, r \in Live : site[s].context = site[r].context /\ s # r => site[s].context = None

\* After a call that found no index, the keys hold what it looked up
LastOK ==
  last # NoCall /\ last.lookup.index # None /\ last.argnum = 0 =>
    /\ last.site \in Live /\ last.lookup.index \in Indexes
    /\ site[last.site].index[last.lookup.index].argnum = 0
    /\ \A i \in DOMAIN last.lookup.args :
         KeyHolds(Memory(last.site), last.lookup.index, i, last.asked[last.lookup.args[i]])

Inv == SitesOK /\ ContextsOK /\ LastOK /\ ResultsAreOfTheArguments
-----------------------------------------------------------------------------
(* Sites and the hash.                                                     *)

\* The hash and the objects may change where a site has nothing
LEMMA OtherMemory ==
  ASSUME NEW m, MemoryOK(m), NEW n,
         n = [heap |-> m.heap, toast |-> m.toast, index |-> m.index, context |-> m.context,
              hash |-> n.hash, geos |-> n.geos],
         Addressed(n.hash, Slot), Addressed(n.geos, Values), HashOK(n.hash, n.geos),
         m.context # None =>
           m.context \in DOMAIN n.hash /\ n.hash[m.context] = m.hash[m.context],
         LET t == m.index["prepared"].tree
         IN  t # None => n.geos[t] = m.geos[t]
  PROVE  MemoryOK(n)
<1>1. n.heap = m.heap /\ n.toast = m.toast /\ n.index = m.index /\ n.context = m.context
  OBVIOUS
<1>2. References(n) = References(m)
  BY <1>1 DEF References
<1>3. Types(n) /\ Counted(n.heap, References(n)) /\ ToastOK(n)
  BY <1>1, <1>2 DEF MemoryOK, Types, ToastOK
<1>4. PreparedOK(n)
  BY <1>1 DEF PreparedOK, MemoryOK
<1>5. ASSUME NEW x \in Indexes PROVE Stands(n, x)
  <2>1. Stands(m, x)
    BY DEF MemoryOK
  <2>2. CASE x # "prepared"
    <3>1. IndexedValue(n, x) = IndexedValue(m, x)
      BY <1>1, <2>2 DEF IndexedValue, Cached, Indexes
    <3>2. QED
      BY <1>1, <2>1, <3>1 DEF Stands
  <2>3. CASE x = "prepared" /\ m.index[x].argnum # 0
    <3> DEFINE t == m.index[x].tree
    <3>1. t # None /\ m.context # None
      BY <2>3 DEF MemoryOK, PreparedOK
    <3>2. m.context \in DOMAIN m.hash /\ m.hash[m.context] = t /\ n.hash[m.context] = t
      BY <2>3, <3>1 DEF MemoryOK, PreparedOK
    <3>3. t \in DOMAIN m.geos
      BY <3>1, <3>2 DEF MemoryOK, HashOK
    <3>4. t \in DOMAIN n.geos /\ n.geos[t] = m.geos[t]
      BY <2>3, <3>1, <3>2 DEF HashOK
    <3>5. IndexedValue(n, x) = IndexedValue(m, x)
      BY <1>1, <2>3, <3>3, <3>4 DEF IndexedValue
    <3>6. QED
      BY <1>1, <2>1, <3>5 DEF Stands
  <2>4. CASE m.index[x].argnum = 0
    BY <1>1, <2>4 DEF Stands
  <2>5. QED
    BY <2>2, <2>3, <2>4
<1>6. QED
  BY <1>3, <1>4, <1>5 DEF MemoryOK

\* The fields of the memory of a site
LEMMA MemoryFields ==
  \A s : /\ Memory(s).heap = site[s].heap /\ Memory(s).toast = site[s].toast
         /\ Memory(s).index = site[s].index /\ Memory(s).context = site[s].context
         /\ Memory(s).hash = hash /\ Memory(s).geos = geos
BY DEF Memory

\* A context made for a site is new to the hash
LEMMA NewContextIsNew ==
  ASSUME ContextsOK
  PROVE  /\ DOMAIN hash = {site[s].context : s \in Live} \ {None}
         /\ NewContext \in Nat \ {0} /\ NewContext \notin DOMAIN hash
<1>1. None \notin DOMAIN hash
  BY NoneIsNothing DEF ContextsOK, Addressed
<1>2. DOMAIN hash = {site[s].context : s \in Live} \ {None}
  <2>1. \A s \in Live : site[s].context # None => site[s].context \in DOMAIN hash
    BY DEF ContextsOK
  <2>2. \A c \in DOMAIN hash : c # None /\ \E s \in Live : site[s].context = c
    BY <1>1 DEF ContextsOK
  <2>3. \A c : c \in DOMAIN hash <=> c # None /\ \E s \in Live : site[s].context = c
    BY <2>1, <2>2
  <2>4. QED
    BY <2>3
<1>3. NewContext = Fresh(DOMAIN hash)
  BY <1>2 DEF NewContext
<1>4. QED
  BY <1>2, <1>3, FreshIsFree DEF ContextsOK, Addressed

\* An object belongs to one site
LEMMA OwnObjects ==
  ASSUME SitesOK, ContextsOK, NEW s \in Sites, NEW r \in Sites, s # r,
         site[s] # Ended, site[r] # Ended, site[r].context # None
  PROVE  /\ site[r].context \in DOMAIN hash /\ site[r].context # site[s].context
         /\ site[r].index["prepared"].tree = hash[site[r].context]
         /\ site[r].index["prepared"].tree # None =>
              /\ site[r].index["prepared"].tree \in DOMAIN geos
              /\ site[r].index["prepared"].tree # site[s].index["prepared"].tree
<1>1. s \in Live /\ r \in Live
  BY DEF Live
<1>2. PreparedOK(Memory(s)) /\ PreparedOK(Memory(r))
  BY DEF SitesOK, Running, MemoryOK
<1>3. site[r].context \in DOMAIN hash /\ site[r].context # site[s].context
  BY <1>1 DEF ContextsOK
<1>4. site[r].index["prepared"].tree = hash[site[r].context]
  BY <1>2, MemoryFields DEF PreparedOK
<1>5. \/ site[s].index["prepared"].tree = None
      \/ /\ site[s].context \in DOMAIN hash
         /\ site[s].index["prepared"].tree = hash[site[s].context]
  BY <1>2, MemoryFields DEF PreparedOK
<1>6. QED
  BY <1>3, <1>4, <1>5 DEF ContextsOK, HashOK

\* What a call does to one site leaves the others as they are
LEMMA KeepKeeps ==
  ASSUME SitesOK, ContextsOK, NEW s \in Sites, site[s] # Ended,
         NEW n, MemoryOK(n), Frame(Memory(s), n), Keep(s, n)
  PROVE  /\ SitesOK' /\ ContextsOK' /\ Memory(s)' = n /\ site'[s] # Ended
         /\ \A r \in Sites : r # s => site'[r] = site[r]
<1>1. /\ site' = [site EXCEPT ![s] = [fn |-> site[s].fn, heap |-> n.heap, toast |-> n.toast,
                                      index |-> n.index, context |-> n.context]]
      /\ hash' = n.hash /\ geos' = n.geos
  BY DEF Keep
<1> DEFINE z == [fn |-> site[s].fn, heap |-> n.heap, toast |-> n.toast, index |-> n.index,
                 context |-> n.context]
<1>2. site'[s] = z /\ (\A r \in Sites : r # s => site'[r] = site[r]) /\ DOMAIN site' = Sites
  <2>1. DOMAIN site = Sites
    BY DEF SitesOK
  <2> HIDE DEF z
  <2>2. QED
    BY <1>1, <2>1 DEF z
<1>3. site' = [r \in Sites |-> site'[r]]
  <2> HIDE DEF z
  <2>1. site' = [site EXCEPT ![s] = z]
    BY <1>1 DEF z
  <2>2. site = [r \in Sites |-> site[r]]
    BY DEF SitesOK
  <2>3. QED
    BY <2>1, <2>2
<1>4. site[s].fn \in Functions /\ MemoryOK(Memory(s)) /\ s \in Live
  BY DEF SitesOK, Running, Live
<1>5. z # Ended /\ site'[s] # Ended
  <2>1. z.fn \in Functions /\ Ended.fn \notin Functions
    BY <1>4, NoneIsNothing DEF Ended
  <2> HIDE DEF z
  <2>2. QED
    BY <1>2, <2>1
<1>6. Memory(s)' = n
  <2>1. Memory(s)' = [heap |-> z.heap, toast |-> z.toast, index |-> z.index,
                      context |-> z.context, hash |-> n.hash, geos |-> n.geos]
    BY <1>1, <1>2 DEF Memory
  <2>2. n = [heap |-> n.heap, toast |-> n.toast, index |-> n.index, context |-> n.context,
             hash |-> n.hash, geos |-> n.geos]
    BY DEF MemoryOK, Types
  <2>3. QED
    BY <2>1, <2>2
<1>7. Live' = Live
  BY <1>2, <1>4, <1>5 DEF Live
<1>8. /\ Addressed(hash', Slot) /\ Addressed(geos', Values) /\ HashOK(hash', geos')
  BY <1>1 DEF MemoryOK, Types
<1>9. /\ n.context # site[s].context => site[s].context = None /\ n.context = NewContext
      /\ DOMAIN hash' = DOMAIN hash \cup ({n.context} \ {None})
      /\ \A c \in DOMAIN hash : c # n.context => hash'[c] = hash[c]
      /\ \A o \in DOMAIN geos : o # site[s].index["prepared"].tree =>
           o \in DOMAIN geos' /\ geos'[o] = geos[o]
  BY <1>1, MemoryFields DEF Frame
<1>10. NewContext \notin DOMAIN hash /\ NewContext \in Nat /\ None \notin Nat
  BY NewContextIsNew, NoneIsNothing
<1>11. ASSUME NEW r \in Sites, r # s, site[r] # Ended, site[r].context # None
       PROVE  /\ site[r].context \in DOMAIN hash /\ site[r].context # n.context
              /\ hash'[site[r].context] = hash[site[r].context]
              /\ site[r].index["prepared"].tree # None =>
                   geos'[site[r].index["prepared"].tree] = geos[site[r].index["prepared"].tree]
  <2>1. /\ site[r].context \in DOMAIN hash /\ site[r].context # site[s].context
        /\ site[r].index["prepared"].tree # None =>
              /\ site[r].index["prepared"].tree \in DOMAIN geos
              /\ site[r].index["prepared"].tree # site[s].index["prepared"].tree
    BY <1>11, OwnObjects
  <2>2. site[r].context # n.context
    BY <1>9, <1>10, <2>1
  <2>3. QED
    BY <1>9, <2>1, <2>2
<1>12. ASSUME NEW r \in Sites, site'[r] # Ended PROVE Running(r)'
  <2>1. CASE r = s
    <3>1. site'[s].fn \in Functions
      BY <1>2, <1>4
    <3>2. site'[s] = [fn |-> site'[s].fn, heap |-> site'[s].heap, toast |-> site'[s].toast,
                      index |-> site'[s].index, context |-> site'[s].context]
      BY <1>2
    <3> HIDE DEF z
    <3>3. QED
      BY <1>6, <2>1, <3>1, <3>2 DEF Running
  <2>2. CASE r # s
    <3>1. site'[r] = site[r] /\ Running(r)
      BY <1>2, <1>12, <2>2 DEF SitesOK
    <3> DEFINE m == Memory(r)
               k == Memory(r)'
    <3>2. /\ m.heap = site[r].heap /\ m.toast = site[r].toast /\ m.index = site[r].index
          /\ m.context = site[r].context /\ m.hash = hash /\ m.geos = geos
      BY MemoryFields
    <3>3. k = [heap |-> m.heap, toast |-> m.toast, index |-> m.index, context |-> m.context,
               hash |-> hash', geos |-> geos']
      BY <3>1, <3>2 DEF Memory
    <3>4. k.hash = hash' /\ k.geos = geos'
      BY <3>3
    <3>5. MemoryOK(m)
      BY <3>1 DEF Running
    <3> DEFINE t == m.index["prepared"].tree
    <3>6. m.context = None => t = None
      BY <3>5 DEF MemoryOK, PreparedOK
    <3>7. /\ m.context # None =>
               m.context \in DOMAIN k.hash /\ k.hash[m.context] = m.hash[m.context]
          /\ t # None => k.geos[t] = m.geos[t]
      BY <1>9, <1>11, <1>12, <2>2, <3>1, <3>2, <3>4, <3>6
    <3> HIDE DEF m, k
    <3>8. MemoryOK(k)
      BY <1>8, <3>3, <3>4, <3>5, <3>7, OtherMemory
    <3>9. QED
      BY <3>1, <3>8 DEF Running, k
  <2>3. QED
    BY <2>1, <2>2
<1>13. SitesOK'
  BY <1>3, <1>12 DEF SitesOK
<1>14. ContextsOK'
  <2>1. site'[s].context = n.context
    BY <1>2
  <2> HIDE DEF z
  <2>2. \A r \in Live : site'[r].context # None => site'[r].context \in DOMAIN hash'
    BY <1>2, <1>9, <2>1 DEF ContextsOK, Live
  <2>3. \A c \in DOMAIN hash' : \E r \in Live : site'[r].context = c
    <3>1. ASSUME NEW c \in DOMAIN hash' PROVE \E r \in Live : site'[r].context = c
      <4>1. CASE c = n.context
        BY <1>4, <2>1, <4>1
      <4>2. CASE c # n.context
        <5>1. PICK r \in Live : site[r].context = c
          BY <1>9, <4>2 DEF ContextsOK
        <5>2. r # s
          BY <1>9, <1>10, <4>2, <5>1, NoneIsNothing DEF ContextsOK, Addressed
        <5>3. QED
          BY <1>2, <5>1, <5>2 DEF Live
      <4>3. QED
        BY <4>1, <4>2
    <3>2. QED
      BY <3>1
  <2>4. \A r, q \in Live : site'[r].context = site'[q].context /\ r # q => site'[r].context = None
    <3>1. SUFFICES ASSUME NEW r \in Live, NEW q \in Live, r # q,
                          site'[r].context = site'[q].context, site'[r].context # None
                   PROVE  FALSE
      OBVIOUS
    <3>2. r \in Sites /\ q \in Sites /\ site[r] # Ended /\ site[q] # Ended
      BY DEF Live
    <3>3. CASE r # s /\ q # s
      BY <1>2, <3>1, <3>2, <3>3 DEF ContextsOK
    <3>4. CASE r = s
      BY <1>2, <1>11, <2>1, <3>1, <3>2, <3>4
    <3>5. CASE q = s
      BY <1>2, <1>11, <2>1, <3>1, <3>2, <3>5
    <3>6. QED
      BY <3>3, <3>4, <3>5
  <2>5. QED
    BY <1>7, <1>8, <2>2, <2>3, <2>4 DEF ContextsOK
<1>15. QED
  BY <1>2, <1>5, <1>6, <1>13, <1>14

\* A function asks for no index, or for one of an argument or of both
LEMMA LookupCases ==
  ASSUME NEW fn, NEW v, NEW w
  PROVE  LET l == Lookup(fn, v, w)
         IN  \/ l.index = None /\ l.args = <<>>
             \/ l.index \in Indexes /\ l.args \in {<<1>>, <<2>>, <<1, 2>>}
<1> DEFINE k == <<Kind[v], Kind[w]>>
<1>1. Lookup(fn, v, w) \in
        {[index |-> None, args |-> <<>>], [index |-> "tree", args |-> <<1, 2>>],
         [index |-> "rtree", args |-> <<1>>], [index |-> "rtree", args |-> <<2>>],
         [index |-> "prepared", args |-> <<1>>], [index |-> "prepared", args |-> <<1, 2>>]}
  BY DEF Lookup, DistanceLookup, NoIndex
<1>2. QED
  BY <1>1 DEF Indexes

Positions(p) == p \in {<<1>>, <<2>>, <<1, 2>>}
Chosen(given, p) == [i \in DOMAIN p |-> given[p[i]]]

\* The arguments of a lookup are those of the call
LEMMA LookupArguments ==
  ASSUME NEW m, NEW given, Good(m, given[1]), Good(m, given[2]),
         NEW p, Positions(p)
  PROVE  LET args == Chosen(given, p)
         IN  Arguments(m, args) /\ DOMAIN p = 1 .. Len(args)
<1> DEFINE args == Chosen(given, p)
<1>1. PICK n \in 1 .. 2 : DOMAIN p = 1 .. n
  BY DOMAIN <<1>> = 1 .. 1, DOMAIN <<2>> = 1 .. 1, DOMAIN <<1, 2>> = 1 .. 2 DEF Positions
<1>2. \A i \in DOMAIN p : p[i] \in 1 .. 2
  BY DOMAIN <<1>> = 1 .. 1, DOMAIN <<2>> = 1 .. 1, DOMAIN <<1, 2>> = 1 .. 2 DEF Positions
<1> DEFINE S == {given[1], given[2]}
<1>3. args \in [1 .. n -> S]
  BY <1>1, <1>2 DEF Chosen
<1>4. args \in Seq(S) /\ Len(args) = n
  <2> HIDE DEF args, S
  <2>1. QED
    BY <1>3
<1>5. \A i \in 1 .. n : args[i] = given[p[i]]
  BY <1>1 DEF Chosen
<1> HIDE DEF args
<1>6. \A i \in 1 .. n : Good(m, args[i])
  BY <1>1, <1>2, <1>5
<1>7. Arguments(m, args)
  BY <1>3, <1>4, <1>6 DEF Arguments
<1>8. QED
  BY <1>1, <1>2, <1>4, <1>5, <1>7 DEF args

\* What a repeated argument finds
RepeatFinds ==
  NoCall \notin {last, last'} /\ last'.site = last.site
    /\ last'.lookup.index = last.lookup.index /\ last.argnum = 0
    /\ (\E i \in DOMAIN last.lookup.args \cap DOMAIN last'.lookup.args :
          last'.asked[last'.lookup.args[i]] = last.asked[last.lookup.args[i]])
  => last'.argnum # 0

\* A call keeps the invariant, and has an index if it repeats an argument of a call without one
LEMMA CallKeeps ==
  ASSUME Inv, NEW s \in Sites, NEW d \in Datums, NEW e \in Datums, Call(s, d, e)
  PROVE  Inv' /\ RepeatFinds
<1> DEFINE asked == <<ValueIn(d), ValueIn(e)>>
           m0 == Memory(s)
           m1 == ToastCache(m0, 1, d)
           m == ToastCache(m1, 2, e)
           given == <<Argument(m, 1, d), Argument(m, 2, e)>>
           l == Lookup(site[s].fn, asked[1], asked[2])
           args == [i \in DOMAIN l.args |-> given[l.args[i]]]
           n == IF l.index = None THEN m ELSE GetGeomCache(m, l.index, args)
           argnum == IF l.index = None THEN 0 ELSE n.index[l.index].argnum
           from(p) == IF argnum # 0 /\ l.args[argnum] = p THEN IndexedValue(n, l.index)
                      ELSE given[p].value
<1>1. /\ site[s] # Ended /\ Keep(s, n)
      /\ last' = [site |-> s, lookup |-> l, asked |-> asked, used |-> <<from(1), from(2)>>,
                  argnum |-> argnum]
  BY DEF Call
<1> HIDE DEF n, argnum, args, l, given, asked
<1>2. SitesOK /\ ContextsOK /\ LastOK /\ MemoryOK(m0) /\ s \in Live
  BY <1>1 DEF Inv, SitesOK, Running, Live
<1>3. /\ m0.index = site[s].index /\ m0.context = site[s].context
      /\ m0.hash = hash /\ m0.geos = geos /\ m0.heap = site[s].heap
  BY MemoryFields
<1> HIDE DEF m0
<1>4. /\ MemoryOK(m1)
      /\ m1.index = m0.index /\ m1.context = m0.context /\ m1.hash = m0.hash /\ m1.geos = m0.geos
      /\ d \in Toasted => m1.toast[1].id = d
      /\ \A x \in Indexes : SameCopies(m0, m1, x)
  BY <1>2, ToastCacheKeeps
<1> HIDE DEF m1
<1>5. /\ MemoryOK(m)
      /\ m.index = m1.index /\ m.context = m1.context /\ m.hash = m1.hash /\ m.geos = m1.geos
      /\ m.toast[1] = m1.toast[1]
      /\ e \in Toasted => m.toast[2].id = e
      /\ \A x \in Indexes : SameCopies(m1, m, x)
  BY <1>4, ToastCacheKeeps
<1> HIDE DEF m
<1>6. /\ Good(m, given[1]) /\ given[1].value = asked[1]
      /\ Good(m, given[2]) /\ given[2].value = asked[2]
  BY <1>4, <1>5, ArgumentIs DEF given, asked
<1>7. NewContext \in Nat \ {0} /\ NewContext \notin DOMAIN m.hash
  BY <1>2, <1>3, <1>4, <1>5, NewContextIsNew
<1>8. \/ l.index = None /\ l.args = <<>>
      \/ l.index \in Indexes /\ l.args \in {<<1>>, <<2>>, <<1, 2>>}
  BY LookupCases DEF l
<1>9. None \notin Indexes
  BY NoneIsNothing
<1>10. m.context # None => m.context \in DOMAIN m.hash
  BY <1>5 DEF MemoryOK, PreparedOK
<1>11. l.index # None =>
         /\ Arguments(m, args) /\ DOMAIN l.args = 1 .. Len(args)
         /\ \A i \in 1 .. Len(args) : l.args[i] \in 1 .. 2 /\ args[i] = given[l.args[i]]
  <2>1. SUFFICES ASSUME l.index # None
                 PROVE  /\ Arguments(m, args) /\ DOMAIN l.args = 1 .. Len(args)
                        /\ \A i \in 1 .. Len(args) :
                             l.args[i] \in 1 .. 2 /\ args[i] = given[l.args[i]]
    OBVIOUS
  <2> DEFINE p == l.args
             f == Chosen(given, p)
  <2>2. Positions(p) /\ args = f
    BY <1>8, <2>1 DEF args, Chosen, Positions
  <2> HIDE DEF p
  <2>3. /\ Arguments(m, f) /\ DOMAIN p = 1 .. Len(f)
        /\ \A i \in 1 .. Len(f) : p[i] \in 1 .. 2 /\ f[i] = given[p[i]]
    <3>1. Good(m, given[1]) /\ Good(m, given[2]) /\ Positions(p)
      BY <1>6, <2>2
    <3>2. Arguments(m, f)
      BY <3>1, LookupArguments
    <3>3. DOMAIN p = 1 .. Len(f)
      BY <3>1, LookupArguments
    <3>4. ASSUME NEW i \in 1 .. Len(f) PROVE p[i] \in 1 .. 2 /\ f[i] = given[p[i]]
      <4>1. i \in DOMAIN p
        BY <3>3
      <4>2. QED
        BY <2>2, <4>1 DEF Chosen, Positions
    <3>5. QED
      BY <3>2, <3>3, <3>4
  <2> HIDE DEF f
  <2>4. QED
    BY <2>2, <2>3 DEF p
<1>12. /\ MemoryOK(n) /\ Frame(m, n)
       /\ l.index # None =>
            /\ argnum = n.index[l.index].argnum
            /\ argnum # 0 =>
                 argnum \in 1 .. Len(args) /\ KeyHolds(n, l.index, argnum, args[argnum].value)
            /\ argnum = 0 => \A i \in 1 .. Len(args) : KeyHolds(n, l.index, i, args[i].value)
            /\ (/\ m.index[l.index].argnum = 0
                /\ \E i \in 1 .. Len(args) : KeyHolds(m, l.index, i, args[i].value))
                 => argnum # 0
  <2>1. CASE l.index = None
    <3>1. n = m
      BY <2>1 DEF n
    <3>2. Frame(m, m)
      BY <1>10 DEF Frame
    <3>3. QED
      BY <1>5, <2>1, <3>1, <3>2
  <2>2. CASE l.index # None
    <3> DEFINE x == l.index
               k == GetGeomCache(m, x, args)
    <3>1. x \in Indexes /\ n = k /\ argnum = n.index[x].argnum
      BY <1>8, <2>2 DEF n, argnum
    <3> HIDE DEF x
    <3>2. /\ MemoryOK(k) /\ Frame(m, k)
          /\ k.index[x].argnum # 0 =>
               /\ k.index[x].argnum \in 1 .. Len(args)
               /\ KeyHolds(k, x, k.index[x].argnum, args[k.index[x].argnum].value)
          /\ k.index[x].argnum = 0 => \A i \in 1 .. Len(args) : KeyHolds(k, x, i, args[i].value)
          /\ (m.index[x].argnum = 0 /\ \E i \in 1 .. Len(args) : KeyHolds(m, x, i, args[i].value))
               => k.index[x].argnum # 0
      BY <1>5, <1>7, <1>11, <2>2, <3>1, GetGeomCacheKeeps
    <3> HIDE DEF k
    <3>3. QED
      BY <3>1, <3>2 DEF x
  <2>3. QED
    BY <2>1, <2>2
<1>13. Frame(Memory(s), n)
  BY <1>4, <1>5, <1>12 DEF Frame, m0
<1>14. /\ SitesOK' /\ ContextsOK' /\ Memory(s)' = n /\ site'[s] # Ended
       /\ \A r \in Sites : r # s => site'[r] = site[r]
  BY <1>1, <1>2, <1>12, <1>13, KeepKeeps
<1>15. /\ last'.site = s /\ last'.lookup = l /\ last'.asked = asked /\ last'.argnum = argnum
       /\ last'.used = <<from(1), from(2)>>
  BY <1>1
<1>16. ResultsAreOfTheArguments'
  <2>1. ASSUME NEW p \in 1 .. 2 PROVE from(p) = asked[p]
    <3>1. CASE ~(argnum # 0 /\ l.args[argnum] = p)
      BY <1>6, <3>1
    <3>2. CASE argnum # 0 /\ l.args[argnum] = p
      <4> DEFINE x == l.index
      <4>1. x # None /\ x \in Indexes
        BY <1>8, <3>2 DEF argnum
      <4>2. /\ argnum = n.index[x].argnum /\ argnum \in 1 .. Len(args)
            /\ KeyHolds(n, x, argnum, args[argnum].value) /\ args[argnum] = given[p]
        BY <1>11, <1>12, <3>2, <4>1
      <4>3. Stands(n, x)
        BY <1>12, <4>1 DEF MemoryOK
      <4>4. IndexedValue(n, x) = given[p].value
        BY <3>2, <4>2, <4>3 DEF Stands, KeyHolds
      <4>5. QED
        BY <1>6, <3>2, <4>4
    <3>3. QED
      BY <3>1, <3>2
  <2>2. <<from(1), from(2)>> = asked
    BY <2>1 DEF asked
  <2>3. QED
    BY <1>15, <2>2 DEF ResultsAreOfTheArguments
<1>17. LastOK'
  <2>1. SUFFICES ASSUME l.index # None, argnum = 0
                 PROVE  /\ s \in Live' /\ l.index \in Indexes
                        /\ site'[s].index[l.index].argnum = 0
                        /\ \A i \in DOMAIN l.args :
                             KeyHolds(Memory(s)', l.index, i, asked[l.args[i]])
    BY <1>15 DEF LastOK
  <2>2. s \in Live' /\ l.index \in Indexes
    BY <1>8, <1>14, <2>1 DEF Live
  <2>3. site'[s].index = n.index
    BY <1>14, MemoryFields DEF Memory
  <2>4. \A i \in DOMAIN l.args : KeyHolds(n, l.index, i, asked[l.args[i]])
    BY <1>6, <1>11, <1>12, <2>1
  <2>5. QED
    BY <1>12, <1>14, <2>1, <2>2, <2>3, <2>4
<1>18. RepeatFinds
  <2>1. SUFFICES ASSUME last # NoCall, s = last.site, l.index = last.lookup.index, last.argnum = 0,
                        NEW i \in DOMAIN last.lookup.args \cap DOMAIN l.args,
                        asked[l.args[i]] = last.asked[last.lookup.args[i]]
                 PROVE  argnum # 0
    BY <1>15 DEF RepeatFinds
  <2>2. l.index # None
    <3>1. l.args # <<>>
      BY <2>1, DOMAIN <<>> = {}
    <3>2. QED
      BY <1>8, <1>9, <3>1
  <2>3. /\ m0.index[l.index].argnum = 0 /\ l.index \in Indexes
        /\ KeyHolds(m0, l.index, i, asked[l.args[i]])
    BY <1>2, <1>3, <2>1, <2>2 DEF LastOK, m0
  <2>4. i \in 1 .. Len(args) /\ args[i].value = asked[l.args[i]] /\ i \in 1 .. 2
    BY <1>6, <1>11, <2>1, <2>2 DEF Arguments
  <2>5. m0.index[l.index].key[i] # None
    BY <1>2, <2>3, NoneIsNothing DEF KeyHolds, MemoryOK, Types, Addressed
  <2>6. KeyHolds(m, l.index, i, args[i].value)
    <3> DEFINE x == l.index
               a == m0.index[x].key[i]
    <3>1. a \in DOMAIN m1.heap /\ m1.heap[a].value = m0.heap[a].value
      BY <1>4, <2>3, <2>4, <2>5 DEF SameCopies
    <3>2. m1.index[x].key[i] = a /\ m.index[x].key[i] = a
      BY <1>4, <1>5
    <3>3. a \in DOMAIN m.heap /\ m.heap[a].value = m1.heap[a].value
      BY <1>5, <2>3, <2>4, <2>5, <3>2 DEF SameCopies
    <3> HIDE DEF x, a
    <3>4. KeyHolds(m, x, i, asked[l.args[i]])
      BY <2>3, <3>1, <3>2, <3>3 DEF KeyHolds, x, a
    <3>5. QED
      BY <2>4, <3>4 DEF x
  <2>7. m.index[l.index].argnum = 0
    BY <1>4, <1>5, <2>3
  <2>8. QED
    BY <1>12, <2>2, <2>4, <2>6, <2>7
<1>19. QED
  BY <1>14, <1>16, <1>17, <1>18 DEF Inv

\* A site begins with nothing
LEMMA NewMemory ==
  ASSUME NEW m, Addressed(m.hash, Slot), Addressed(m.geos, Values), HashOK(m.hash, m.geos),
         m = [heap |-> <<>>, toast |-> [i \in 1 .. 2 |-> [id |-> None, geom |-> None]],
              index |-> [x \in Indexes |-> [key |-> <<None, None>>, argnum |-> 0,
                                            tree |-> None]],
              context |-> None, hash |-> m.hash, geos |-> m.geos]
  PROVE  MemoryOK(m)
<1>1. /\ m.heap = <<>> /\ m.context = None
      /\ m.toast = [i \in 1 .. 2 |-> [id |-> None, geom |-> None]]
      /\ m.index = [x \in Indexes |-> [key |-> <<None, None>>, argnum |-> 0, tree |-> None]]
  OBVIOUS
<1>2. Addressed(<<>>, Copy) /\ DOMAIN <<>> = {}
  <2>1. DOMAIN <<>> = {} /\ <<>> \in [{} -> Copy]
    OBVIOUS
  <2>2. QED
    BY <2>1, FS_EmptySet DEF Addressed
<1>3. m.toast \in [1 .. 2 -> Seen] /\ m.index \in [Indexes -> Index]
  <2>1. [id |-> None, geom |-> None] \in Seen
    BY DEF Seen, Slot
  <2>2. [key |-> <<None, None>>, argnum |-> 0, tree |-> None] \in Index
    <3>1. <<None, None>> \in [1 .. 2 -> Slot]
      BY DEF Slot
    <3>2. QED
      BY <3>1 DEF Index, Slot
  <2>3. QED
    BY <1>1, <2>1, <2>2
<1>4. Types(m)
  <2>1. None \in Slot \ {0}
    BY NoneIsNothing DEF Slot
  <2>2. m = [heap |-> m.heap, toast |-> m.toast, index |-> m.index, context |-> m.context,
             hash |-> m.hash, geos |-> m.geos]
    OBVIOUS
  <2>3. QED
    BY <1>1, <1>2, <1>3, <2>1, <2>2 DEF Types
<1>5. \A r : r \in References(m) <=>
        \E y \in Indexes \cup {"toast"}, i \in 1 .. 2 : r = <<y, i, None>>
  <2>1. \A i \in 1 .. 2 : ToastRef(m, i) = <<"toast", i, None>>
    BY <1>1 DEF ToastRef
  <2>2. \A x \in Indexes, i \in 1 .. 2 : KeyRef(m, x, i) = <<x, i, None>>
    BY <1>1 DEF KeyRef
  <2>3. \A r : r \in References(m) <=>
          \/ \E i \in 1 .. 2 : r = <<"toast", i, None>>
          \/ \E x \in Indexes, i \in 1 .. 2 : r = <<x, i, None>>
    <3>1. ASSUME NEW r
          PROVE  r \in References(m) <=>
                   \/ \E i \in 1 .. 2 : r = <<"toast", i, None>>
                   \/ \E x \in Indexes, i \in 1 .. 2 : r = <<x, i, None>>
      <4>1. r \in References(m) <=>
              \/ \E i \in 1 .. 2 : r = ToastRef(m, i)
              \/ \E x \in Indexes, i \in 1 .. 2 : r = KeyRef(m, x, i)
        BY ReferenceCases
      <4>2. (\E i \in 1 .. 2 : r = ToastRef(m, i)) <=> \E i \in 1 .. 2 : r = <<"toast", i, None>>
        BY <2>1
      <4>3. (\E x \in Indexes, i \in 1 .. 2 : r = KeyRef(m, x, i))
              <=> \E x \in Indexes, i \in 1 .. 2 : r = <<x, i, None>>
        BY <2>2
      <4>4. QED
        BY <4>1, <4>2, <4>3
    <3>2. QED
      BY <3>1
  <2>4. QED
    BY <2>3
<1>6. IsFiniteSet(References(m))
  <2> DEFINE D == (Indexes \cup {"toast"}) \X (1 .. 2)
             f == [p \in D |-> <<p[1], p[2], None>>]
             R == References(m)
  <2>1. IsFiniteSet({"prepared"} \cup {"rtree"} \cup {"tree"} \cup {"toast"})
    BY FS_Singleton, FS_Union
  <2>2. {"prepared"} \cup {"rtree"} \cup {"tree"} \cup {"toast"} = Indexes \cup {"toast"}
    BY DEF Indexes
  <2>3. IsFiniteSet(1 .. 2)
    <3>1. IsFiniteSet({1} \cup {2})
      BY FS_Singleton, FS_Union
    <3>2. {1} \cup {2} = 1 .. 2
      OBVIOUS
    <3>3. QED
      BY <3>1, <3>2
  <2>4. IsFiniteSet(D)
    BY <2>1, <2>2, <2>3, FS_Product
  <2>5. f \in Surjection(D, R)
    <3>1. \A p \in D : f[p] \in R
      BY <1>5
    <3>2. \A r \in R : \E p \in D : f[p] = r
      <4>1. ASSUME NEW r \in R PROVE \E p \in D : f[p] = r
        <5>1. PICK y \in Indexes \cup {"toast"}, i \in 1 .. 2 : r = <<y, i, None>>
          BY <1>5
        <5>2. <<y, i>> \in D /\ f[<<y, i>>] = r
          BY <5>1
        <5>3. QED
          BY <5>2
      <4>2. QED
        BY <4>1
    <3> HIDE DEF D, R
    <3>3. f \in [D -> R]
      BY <3>1
    <3> HIDE DEF f
    <3>4. QED
      BY <3>2, <3>3 DEF Surjection
  <2> HIDE DEF f, D, R
  <2>6. IsFiniteSet(R)
    BY <2>4, <2>5, FS_Surjection
  <2>7. QED
    BY <2>6 DEF R
<1>7. Counted(m.heap, References(m))
  <2>1. {r[3] : r \in References(m)} \ {None} = {}
    BY <1>5
  <2>2. QED
    BY <1>1, <1>2, <1>6, <2>1 DEF Counted
<1>8. ToastOK(m) /\ PreparedOK(m) /\ \A x \in Indexes : Stands(m, x)
  BY <1>1 DEF ToastOK, PreparedOK, Stands, Indexes
<1>9. QED
  BY <1>4, <1>7, <1>8 DEF MemoryOK

\* A query begins
LEMMA BeginKeeps ==
  ASSUME Inv, NEW s \in Sites, NEW fn \in Functions, Begin(s, fn)
  PROVE  Inv' /\ last' = last
<1> DEFINE z == [fn |-> fn, heap |-> <<>>, context |-> None,
                 toast |-> [i \in 1 .. 2 |-> [id |-> None, geom |-> None]],
                 index |-> [x \in Indexes |-> [key |-> <<None, None>>, argnum |-> 0,
                                               tree |-> None]]]
<1>1. /\ site[s] = Ended /\ site' = [site EXCEPT ![s] = z]
      /\ hash' = hash /\ geos' = geos /\ last' = last
  BY DEF Begin
<1>2. site = [r \in Sites |-> site[r]]
  BY DEF Inv, SitesOK
<1>3. /\ site'[s] = z /\ (\A r \in Sites : r # s => site'[r] = site[r])
      /\ site' = [r \in Sites |-> site'[r]]
  <2> HIDE DEF z
  <2>1. QED
    BY <1>1, <1>2
<1>4. z.fn = fn /\ z.context = None /\ z # Ended
  <2>1. z.fn = fn /\ z.context = None
    OBVIOUS
  <2>2. Ended.fn # fn
    BY NoneIsNothing DEF Ended
  <2> HIDE DEF z
  <2>3. QED
    BY <2>1, <2>2
<1>5. Addressed(hash, Slot) /\ Addressed(geos, Values) /\ HashOK(hash, geos)
  BY DEF Inv, ContextsOK
<1>6. Running(s)'
  <2> DEFINE m == Memory(s)'
  <2>1. m = [heap |-> <<>>, toast |-> z.toast, index |-> z.index, context |-> None,
             hash |-> hash, geos |-> geos]
    BY <1>1, <1>3 DEF Memory
  <2>2. m.hash = hash /\ m.geos = geos
    BY <2>1
  <2>3. m = [heap |-> <<>>, toast |-> [i \in 1 .. 2 |-> [id |-> None, geom |-> None]],
             index |-> [x \in Indexes |-> [key |-> <<None, None>>, argnum |-> 0,
                                           tree |-> None]],
             context |-> None, hash |-> m.hash, geos |-> m.geos]
    BY <2>1, <2>2
  <2> HIDE DEF m
  <2>4. MemoryOK(m)
    BY <1>5, <2>2, <2>3, NewMemory
  <2>5. /\ site'[s] = [fn |-> site'[s].fn, heap |-> site'[s].heap, toast |-> site'[s].toast,
                       index |-> site'[s].index, context |-> site'[s].context]
    BY <1>3
  <2> HIDE DEF z
  <2>6. QED
    BY <1>3, <1>4, <2>4, <2>5 DEF Running, m
<1> HIDE DEF z
<1>7. ASSUME NEW r \in Sites, r # s
      PROVE  Memory(r)' = Memory(r) /\ (Running(r) => Running(r)')
  <2>1. Memory(r)' = Memory(r)
    BY <1>1, <1>3, <1>7 DEF Memory
  <2>2. QED
    BY <1>3, <1>7, <2>1 DEF Running
<1>8. SitesOK'
  BY <1>3, <1>6, <1>7 DEF Inv, SitesOK
<1>9. Live' = Live \cup {s} /\ s \notin Live /\ Live \subseteq Sites
  BY <1>1, <1>3, <1>4 DEF Live
<1>10. ContextsOK'
  <2>1. \A r \in Live : site'[r] = site[r]
    BY <1>3, <1>9
  <2>2. site'[s].context = None
    BY <1>3, <1>4
  <2>3. QED
    BY <1>1, <1>9, <2>1, <2>2 DEF Inv, ContextsOK
<1>11. LastOK'
  <2>1. SUFFICES ASSUME last # NoCall, last.lookup.index # None, last.argnum = 0
                 PROVE  /\ last.site \in Live' /\ last.lookup.index \in Indexes
                        /\ site'[last.site].index[last.lookup.index].argnum = 0
                        /\ \A i \in DOMAIN last.lookup.args :
                             KeyHolds(Memory(last.site)', last.lookup.index, i,
                                      last.asked[last.lookup.args[i]])
    BY <1>1 DEF LastOK
  <2> DEFINE r == last.site
  <2>2. /\ r \in Live /\ last.lookup.index \in Indexes
        /\ site[r].index[last.lookup.index].argnum = 0
        /\ \A i \in DOMAIN last.lookup.args :
             KeyHolds(Memory(r), last.lookup.index, i, last.asked[last.lookup.args[i]])
    BY <2>1 DEF Inv, LastOK
  <2>3. r \in Sites /\ r # s /\ r \in Live'
    BY <1>9, <2>2
  <2>4. site'[r] = site[r]
    BY <1>3, <2>3
  <2>5. [heap |-> site'[r].heap, toast |-> site'[r].toast, index |-> site'[r].index,
         context |-> site'[r].context, hash |-> hash', geos |-> geos'] = Memory(r)
    BY <1>1, <2>4 DEF Memory
  <2>6. Memory(last.site)' = Memory(r)
    BY <1>1, <2>5 DEF Memory
  <2>7. QED
    BY <2>2, <2>3, <2>4, <2>6
<1>12. QED
  BY <1>1, <1>8, <1>10, <1>11 DEF Inv, ResultsAreOfTheArguments

\* A query ends, and its prepared geometry goes
LEMMA EndKeeps ==
  ASSUME Inv, NEW s \in Sites, End(s)
  PROVE  Inv' /\ last' = NoCall
<1> DEFINE c == site[s].context
           held == IF c = None THEN {} ELSE {hash[c]}
<1>1. /\ site[s] # Ended /\ site' = [site EXCEPT ![s] = Ended] /\ last' = NoCall
      /\ hash' = [b \in DOMAIN hash \ {c} |-> hash[b]]
      /\ geos' = [g \in DOMAIN geos \ held |-> geos[g]]
  BY DEF End
<1>2. site = [r \in Sites |-> site[r]] /\ SitesOK /\ ContextsOK
  BY DEF Inv, SitesOK
<1>3. /\ site'[s] = Ended /\ (\A r \in Sites : r # s => site'[r] = site[r])
      /\ site' = [r \in Sites |-> site'[r]]
  BY <1>1, <1>2
<1>4. Live' = Live \ {s} /\ s \in Live
  BY <1>1, <1>3 DEF Live
<1>5. /\ Addressed(hash, Slot) /\ Addressed(geos, Values) /\ HashOK(hash, geos)
      /\ None \notin DOMAIN hash
      /\ c # None => c \in DOMAIN hash
  BY <1>2, <1>4, NoneIsNothing DEF ContextsOK, Addressed
<1>6. Addressed(hash', Slot)
  BY <1>1, <1>5, DropAddressed
<1>7. /\ DOMAIN hash' = DOMAIN hash \ {c} /\ (\A b \in DOMAIN hash' : hash'[b] = hash[b])
      /\ DOMAIN geos' = DOMAIN geos \ held /\ (\A g \in DOMAIN geos' : geos'[g] = geos[g])
  <2> HIDE DEF c, held
  <2>1. QED
    BY <1>1
<1>8. Addressed(geos', Values)
  <2>1. CASE c = None
    <3>1. geos' = [g \in DOMAIN geos \ {None} |-> geos[g]]
      BY <1>1, <1>5, <2>1, NoneIsNothing DEF Addressed
    <3>2. QED
      BY <1>5, <3>1, DropAddressed
  <2>2. CASE c # None
    <3>1. geos' = [g \in DOMAIN geos \ {hash[c]} |-> geos[g]]
      BY <1>1, <2>2
    <3>2. QED
      BY <1>5, <3>1, DropAddressed
  <2>3. QED
    BY <2>1, <2>2
<1> HIDE DEF c
<1>9. HashOK(hash', geos')
  <2>1. /\ \A b, d \in DOMAIN hash : hash[b] = hash[d] /\ hash[b] # None => b = d
        /\ DOMAIN geos = {hash[b] : b \in DOMAIN hash} \ {None}
    BY <1>5 DEF HashOK
  <2>2. \A b, d \in DOMAIN hash' : hash'[b] = hash'[d] /\ hash'[b] # None => b = d
    BY <1>7, <2>1
  <2>3. ASSUME NEW b \in DOMAIN hash', hash'[b] # None PROVE hash'[b] \in DOMAIN geos'
    <3>1. hash[b] \in DOMAIN geos /\ b # c /\ b \in DOMAIN hash /\ hash'[b] = hash[b]
      BY <1>7, <2>1, <2>3
    <3>2. hash[b] \notin held
      BY <1>5, <2>1, <2>3, <3>1
    <3>3. QED
      BY <1>7, <3>1, <3>2
  <2>4. ASSUME NEW g \in DOMAIN geos' PROVE g # None /\ \E b \in DOMAIN hash' : hash'[b] = g
    <3>1. g \in DOMAIN geos /\ g \notin held
      BY <1>7
    <3>2. PICK b \in DOMAIN hash : g = hash[b] /\ g # None
      BY <2>1, <3>1
    <3>3. b # c
      BY <1>5, <3>1, <3>2
    <3>4. b \in DOMAIN hash' /\ hash'[b] = g
      BY <1>7, <3>2, <3>3
    <3>5. QED
      BY <3>2, <3>4
  <2>5. DOMAIN geos' = {hash'[b] : b \in DOMAIN hash'} \ {None}
    <3>1. \A g \in DOMAIN geos' : g \in {hash'[b] : b \in DOMAIN hash'} \ {None}
      BY <2>4
    <3>2. \A g \in {hash'[b] : b \in DOMAIN hash'} \ {None} : g \in DOMAIN geos'
      BY <2>3
    <3>3. QED
      BY <3>1, <3>2
  <2>6. QED
    BY <2>2, <2>5 DEF HashOK
<1>10. ASSUME NEW r \in Sites, site'[r] # Ended PROVE Running(r)'
  <2>1. r # s
    BY <1>3, <1>10
  <2>2. site'[r] = site[r] /\ Running(r)
    BY <1>2, <1>3, <1>10, <2>1 DEF SitesOK
  <2> DEFINE m == Memory(r)
             k == Memory(r)'
             t == m.index["prepared"].tree
  <2>3. /\ m.heap = site[r].heap /\ m.toast = site[r].toast /\ m.index = site[r].index
        /\ m.context = site[r].context /\ m.hash = hash /\ m.geos = geos
    BY MemoryFields
  <2>4. k = [heap |-> m.heap, toast |-> m.toast, index |-> m.index, context |-> m.context,
             hash |-> hash', geos |-> geos']
    BY <2>2, <2>3 DEF Memory
  <2>5. k.hash = hash' /\ k.geos = geos'
    BY <2>4
  <2>6. MemoryOK(m)
    BY <2>2 DEF Running
  <2>7. m.context = None => t = None
    BY <2>6 DEF MemoryOK, PreparedOK
  <2>8. m.context # None =>
          /\ m.context \in DOMAIN hash /\ m.context # c /\ t = hash[m.context]
          /\ t # None => t \in DOMAIN geos
    BY <1>1, <1>2, <2>1, <2>2, <2>3, <1>10, OwnObjects DEF c
  <2>9. m.context # None => m.context \in DOMAIN k.hash /\ k.hash[m.context] = m.hash[m.context]
    BY <1>7, <2>3, <2>5, <2>8
  <2>10. t # None => k.geos[t] = m.geos[t]
    <3>1. SUFFICES ASSUME t # None PROVE geos'[t] = geos[t]
      BY <2>3, <2>5
    <3>2. t \in DOMAIN geos /\ t \notin held
      BY <1>5, <2>7, <2>8, <3>1 DEF HashOK
    <3>3. QED
      BY <1>7, <3>2
  <2> HIDE DEF m, k
  <2>11. MemoryOK(k)
    BY <1>6, <1>8, <1>9, <2>4, <2>5, <2>6, <2>9, <2>10, OtherMemory
  <2>12. QED
    BY <2>2, <2>11 DEF Running, k
<1>11. SitesOK'
  BY <1>3, <1>10 DEF SitesOK
<1>12. ContextsOK'
  <2>1. \A r \in Live' : r \in Live /\ r # s /\ site'[r] = site[r]
    BY <1>3, <1>4 DEF Live
  <2>2. \A r \in Live' : site'[r].context # None => site'[r].context \in DOMAIN hash'
    BY <1>2, <1>4, <1>7, <2>1 DEF ContextsOK, c
  <2>3. \A b \in DOMAIN hash' : \E r \in Live' : site'[r].context = b
    BY <1>2, <1>4, <1>7, <2>1 DEF ContextsOK, c
  <2>4. \A r, q \in Live' : site'[r].context = site'[q].context /\ r # q => site'[r].context = None
    BY <1>2, <2>1 DEF ContextsOK
  <2>5. QED
    BY <1>6, <1>8, <1>9, <2>2, <2>3, <2>4 DEF ContextsOK
<1>13. LastOK' /\ ResultsAreOfTheArguments'
  BY <1>1 DEF LastOK, ResultsAreOfTheArguments
<1>14. QED
  BY <1>1, <1>11, <1>12, <1>13 DEF Inv

\* Nothing has been called
LEMMA InitialInv == Init => Inv
<1> SUFFICES ASSUME Init PROVE Inv
  OBVIOUS
<1>1. \A s \in Sites : site[s] = Ended
  BY DEF Init
<1>2. site = [s \in Sites |-> site[s]] /\ Live = {}
  BY <1>1 DEF Init, Live
<1>3. Addressed(hash, Slot) /\ Addressed(geos, Values) /\ DOMAIN hash = {} /\ DOMAIN geos = {}
  <2>1. DOMAIN hash = {} /\ hash \in [{} -> Slot] /\ DOMAIN geos = {} /\ geos \in [{} -> Values]
    BY DEF Init
  <2>2. QED
    BY <2>1, FS_EmptySet DEF Addressed
<1>4. ContextsOK
  BY <1>2, <1>3 DEF ContextsOK, HashOK
<1>5. QED
  BY <1>1, <1>2, <1>4 DEF Init, Inv, SitesOK, LastOK, ResultsAreOfTheArguments

\* A step keeps the invariant, and a call that repeats an argument has an index
LEMMA NextKeepsInv == Inv /\ [Next]_vars => Inv' /\ (last' = last \/ RepeatFinds)
<1> SUFFICES ASSUME Inv, [Next]_vars PROVE Inv' /\ (last' = last \/ RepeatFinds)
  OBVIOUS
<1>1. CASE \E s \in Sites, fn \in Functions : Begin(s, fn)
  BY <1>1, BeginKeeps
<1>2. CASE \E s \in Sites, d, e \in Datums : Call(s, d, e)
  BY <1>2, CallKeeps
<1>3. CASE \E s \in Sites : End(s)
  <2>1. Inv' /\ last' = NoCall
    BY <1>3, EndKeeps
  <2>2. QED
    BY <2>1 DEF RepeatFinds
<1>4. CASE UNCHANGED vars
  <2>1. site' = site /\ hash' = hash /\ geos' = geos /\ last' = last
    BY <1>4 DEF vars
  <2>2. Live' = Live
    BY <2>1 DEF Live
  <2>3. \A s : Memory(s)' = Memory(s)
    BY <2>1 DEF Memory
  <2>4. SitesOK'
    BY <2>1, <2>3 DEF Inv, SitesOK, Running
  <2>5. ContextsOK'
    BY <2>1, <2>2 DEF Inv, ContextsOK
  <2>6. LastOK' /\ ResultsAreOfTheArguments'
    BY <2>1, <2>2, <2>3 DEF Inv, LastOK, ResultsAreOfTheArguments, Memory
  <2>7. QED
    BY <2>1, <2>4, <2>5, <2>6 DEF Inv
<1>5. QED
  BY <1>1, <1>2, <1>3, <1>4 DEF Next

\* The invariant holds in every state
LEMMA InvHolds == Spec => []Inv
<1>1. Init => Inv
  BY InitialInv
<1>2. Inv /\ [Next]_vars => Inv'
  BY NextKeepsInv
<1>3. QED
  BY <1>1, <1>2, PTL DEF Spec
-----------------------------------------------------------------------------
(* What holds of the caches.                                               *)

\* The references of a site are those of its memory
LEMMA ReferencesOfSite ==
  \A s : References(site[s]) = References(Memory(s))
BY MemoryFields DEF References

\* Sound answers: whatever was cached before, evicted, and put at the same address since, a
\* result is computed from the two arguments of its own call
THEOREM ResultsAreRight == Spec => []ResultsAreOfTheArguments
<1>1. Inv => ResultsAreOfTheArguments
  BY DEF Inv
<1>2. QED
  BY <1>1, InvHolds, PTL

\* Sharing: the reference count of each shared geometry is the number of places that name it,
\* and a place never names a copy that was freed
THEOREM SharedCopiesCountUsers == Spec => []CountsAreUsers
<1>1. Inv => CountsAreUsers
  <2>1. SUFFICES ASSUME Inv, NEW s \in Live
                 PROVE  LET used == {r \in References(site[s]) : r[3] # None}
                        IN  /\ DOMAIN site[s].heap = {r[3] : r \in used}
                            /\ \A a \in DOMAIN site[s].heap :
                                 site[s].heap[a].count = Cardinality({r \in used : r[3] = a})
    BY DEF CountsAreUsers
  <2> DEFINE R == References(site[s])
             h == site[s].heap
             used == {r \in R : r[3] # None}
  <2>2. s \in Sites /\ site[s] # Ended
    BY DEF Live
  <2>3. MemoryOK(Memory(s))
    BY <2>1, <2>2 DEF Inv, SitesOK, Running
  <2>4. Counted(h, R) /\ None \notin DOMAIN h
    BY <2>3, ReferencesOfSite, MemoryFields, NoneIsNothing DEF MemoryOK, Types, Addressed
  <2> HIDE DEF R, h
  <2>5. DOMAIN h = {r[3] : r \in used}
    BY <2>4 DEF Counted
  <2>6. ASSUME NEW a \in DOMAIN h PROVE h[a].count = Cardinality({r \in used : r[3] = a})
    <3>1. {r \in used : r[3] = a} = Users(R, a)
      BY <2>4, <2>6 DEF Users
    <3>2. QED
      BY <2>4, <3>1 DEF Counted
  <2>7. QED
    BY <2>5, <2>6 DEF R, h
<1>2. QED
  BY <1>1, InvHolds, PTL

\* No dangling index: an index that can be used is of a copy that its key still holds, so that
\* the tree of distances, which points into it, never points at freed memory
THEOREM IndexesStand == Spec => []IndexesStandOnTheirKeys
<1>1. Inv => IndexesStandOnTheirKeys
  <2>1. SUFFICES ASSUME Inv, NEW s \in Live, NEW x \in Indexes
                 PROVE  LET c == site[s].index[x]
                        IN  c.argnum # 0 =>
                              /\ c.key[c.argnum] \in DOMAIN site[s].heap
                              /\ x = "tree" => c.tree = c.key[c.argnum]
                              /\ IndexedValue(Memory(s), x) = site[s].heap[c.key[c.argnum]].value
    BY DEF IndexesStandOnTheirKeys
  <2>2. Stands(Memory(s), x)
    BY <2>1 DEF Inv, SitesOK, Running, MemoryOK, Live
  <2>3. QED
    BY <2>2, MemoryFields DEF Stands
<1>2. QED
  BY <1>1, InvHolds, PTL

\* No leak and no double free: the hash of prepared geometries has one entry for each context
\* that ever held one, and the GEOS objects that exist are those entries, each once
THEOREM HashIsExact == Spec => []HashHoldsLiveObjects
<1>1. Inv => HashHoldsLiveObjects
  <2>1. SUFFICES ASSUME Inv PROVE HashHoldsLiveObjects
    OBVIOUS
  <2> DEFINE objects == {c \in DOMAIN hash : hash[c] # None}
             f == [c \in objects |-> hash[c]]
             G == DOMAIN geos
  <2>2. ContextsOK /\ DOMAIN hash = {site[s].context : s \in Live} \ {None}
    BY <2>1, NewContextIsNew DEF Inv
  <2>3. /\ \A b, c \in DOMAIN hash : hash[b] = hash[c] /\ hash[b] # None => b = c
        /\ G = {hash[c] : c \in DOMAIN hash} \ {None}
        /\ IsFiniteSet(DOMAIN hash)
    BY <2>2 DEF ContextsOK, HashOK, Addressed
  <2>4. G = {hash[c] : c \in objects}
    BY <2>3
  <2>5. f \in Bijection(objects, G)
    <3>1. \A c \in objects : f[c] \in G /\ f[c] = hash[c]
      BY <2>4
    <3>2. f \in [objects -> G]
      <4> HIDE DEF objects, G
      <4>1. QED
        BY <3>1
    <3>3. \A b, c \in objects : f[b] = f[c] => b = c
      BY <2>3, <3>1
    <3>4. \A g \in G : \E c \in objects : f[c] = g
      BY <2>4, <3>1
    <3> HIDE DEF f, objects, G
    <3>5. QED
      BY <3>2, <3>3, <3>4 DEF Bijection, Injection, Surjection, IsInjective
  <2>6. IsFiniteSet(objects)
    BY <2>3, FS_Subset
  <2> HIDE DEF f, objects, G
  <2>7. Cardinality(objects) = Cardinality(G)
    BY <2>5, <2>6, FS_Bijection DEF ExistsBijection
  <2>8. ASSUME NEW s \in Live, site[s].context # None
        PROVE  hash[site[s].context] = site[s].index["prepared"].tree
    <3>1. PreparedOK(Memory(s))
      BY <2>1 DEF Inv, SitesOK, Running, MemoryOK, Live
    <3>2. QED
      BY <2>8, <3>1, MemoryFields DEF PreparedOK
  <2>9. QED
    BY <2>2, <2>4, <2>7, <2>8 DEF HashHoldsLiveObjects, ContextsOK, objects, G
<1>2. QED
  BY <1>1, InvHolds, PTL

\* The caches are of use: after a call that found no index, the next call of the site that
\* repeats an argument finds or builds one, however often its values were detoasted
THEOREM RepeatsAreIndexed == Spec => RepeatsFindAnIndex
<1>1. Inv /\ [Next]_vars =>
        [/\ NoCall \notin {last, last'}
         /\ last'.site = last.site /\ last'.lookup.index = last.lookup.index
         /\ last.argnum = 0
         /\ \E i \in DOMAIN last.lookup.args \cap DOMAIN last'.lookup.args :
              last'.asked[last'.lookup.args[i]] = last.asked[last.lookup.args[i]]
         => last'.argnum # 0]_last
  BY NextKeepsInv DEF RepeatFinds
<1>2. QED
  BY <1>1, InvHolds, PTL DEF Spec, RepeatsFindAnIndex
=============================================================================
