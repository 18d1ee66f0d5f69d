------------------------- MODULE TopologyLinksProof -------------------------
(***************************************************************************)
(* Proofs about the links of Topology for any curves and sites: every edge *)
(* goes on to the next edge end met turning clockwise around the node it   *)
(* reaches, and every call edits the links as EdgeLinking promises.        *)
(*                                                                         *)
(* Both hold of the behaviours in which ST_NewEdgesSplit is not called on  *)
(* an edge that a neighbour links to by next_right: there it writes a link *)
(* to the wrong half.                                                      *)
(*                                                                         *)
(* The tables are seen as three functions on darts: the node a dart        *)
(* leaves, the dart that follows it and the azimuth it leaves in.          *)
(***************************************************************************)
EXTENDS TopologyProof

-----------------------------------------------------------------------------
(* The order of the edge ends around a node.                               *)

\* How far clockwise from azimuth a azimuth b is; a full turn back to a itself
Gap(a, b) == IF b > a THEN b - a ELSE b - a + 8

\* Of the edge ends in S, o is the first met turning clockwise from b
After(S, az, b, o) == o \in S /\ \A x \in S : Gap(az[b], az[o]) <= Gap(az[b], az[x])

\* Of the edge ends in S, o is the last met turning clockwise from b
Before(S, az, b, o) == o \in S /\ \A x \in S : Gap(az[b], az[o]) >= Gap(az[b], az[x])

\* The edge ends in S leave in different directions
Spread(S, az) ==
  /\ \A x \in S : az[x] \in 0 .. 7
  /\ \A x, y \in S : az[x] = az[y] => x = y

\* Two azimuths are one to eight sectors apart, and no two are as far from a third
LEMMA GapFacts ==
  ASSUME NEW a \in 0 .. 7, NEW b \in 0 .. 7, NEW c \in 0 .. 7
  PROVE  /\ Gap(a, b) \in 1 .. 8
         /\ Gap(a, b) = Gap(a, c) => b = c
         /\ a # b => Gap(a, b) = ClockwiseTurn(a, b)
         /\ Gap(a, a) = 8
BY DEF Gap, ClockwiseTurn

\* One end is first after another
LEMMA FollowerIsOne ==
  ASSUME NEW S, NEW az, Spread(S, az), NEW b, az[b] \in 0 .. 7,
         NEW o, After(S, az, b, o), NEW p, After(S, az, b, p)
  PROVE  o = p
BY GapFacts DEF Spread, After

\* Some end is
LEMMA FollowerExists ==
  ASSUME NEW S, NEW az, Spread(S, az), S # {}, NEW b, az[b] \in 0 .. 7
  PROVE  \E o : After(S, az, b, o)
<1> DEFINE f == [x \in S |-> Gap(az[b], az[x]) - 1]
<1>1. \A x \in S : f[x] \in 0 .. 7
  BY GapFacts DEF Spread
<1>2. PICK o \in S : \A x \in S : f[o] <= f[x]
  <2> HIDE DEF f
  <2> QED
    BY <1>1, TurnsAreBounded
<1> QED
  BY <1>2, GapFacts DEF Spread, After

\* An end that comes between the one last met from it and the one first met
LEMMA OneMore ==
  ASSUME NEW S, NEW az, NEW q, q \notin S, Spread(S \cup {q}, az),
         NEW cw, After(S, az, q, cw), NEW ccw, Before(S, az, q, ccw)
  PROVE  /\ After(S \cup {q}, az, q, cw)
         /\ After(S \cup {q}, az, ccw, q)
         /\ After(S, az, ccw, cw)
         /\ \A b \in S : \A o : b # ccw /\ After(S, az, b, o) => After(S \cup {q}, az, b, o)
<1> DEFINE T == S \cup {q}
<1>1. \A x \in T : az[x] \in 0 .. 7
  BY DEF Spread
<1>2. \A x, y \in T : az[x] = az[y] => x = y
  BY DEF Spread
<1>3. cw \in S /\ ccw \in S
  BY DEF After, Before
<1>4. \A x \in S : Gap(az[q], az[cw]) <= Gap(az[q], az[x])
                   /\ Gap(az[q], az[ccw]) >= Gap(az[q], az[x]) /\ az[x] # az[q]
  BY <1>2 DEF After, Before
<1>5. After(T, az, q, cw)
  BY <1>1, <1>3, <1>4 DEF After, Gap
<1>6. After(T, az, ccw, q)
  BY <1>1, <1>2, <1>3, <1>4 DEF After, Gap
<1>7. After(S, az, ccw, cw)
  BY <1>1, <1>2, <1>3, <1>4 DEF After, Gap
<1>8. ASSUME NEW b \in S, NEW o, b # ccw, After(S, az, b, o) PROVE After(T, az, b, o)
  <2>1. o \in S /\ \A x \in S : Gap(az[b], az[o]) <= Gap(az[b], az[x])
    BY <1>8 DEF After
  <2>2. Gap(az[b], az[o]) <= Gap(az[b], az[ccw])
    BY <1>3, <2>1
  <2>3. az[b] # az[ccw] /\ az[b] # az[q] /\ az[ccw] # az[q] /\ az[o] # az[q]
    BY <1>2, <1>3, <1>4, <1>8, <2>1
  <2>4. Gap(az[q], az[ccw]) >= Gap(az[q], az[b])
    BY <1>4, <1>8
  <2>5. Gap(az[b], az[o]) <= Gap(az[b], az[q])
    <3>1. az[b] \in 0 .. 7 /\ az[o] \in 0 .. 7 /\ az[q] \in 0 .. 7 /\ az[ccw] \in 0 .. 7
      BY <1>1, <1>3, <1>8, <2>1
    <3> QED
      BY <2>2, <2>3, <2>4, <3>1 DEF Gap
  <2> QED
    BY <2>1, <2>5 DEF After
<1> QED
  BY <1>5, <1>6, <1>7, <1>8

\* The ends met between q and r, turning clockwise from q, and those met after r
Between(S, az, q, r) == {x \in S : Gap(az[q], az[x]) < Gap(az[q], az[r])}
Beyond(S, az, q, r) == {x \in S : Gap(az[q], az[x]) > Gap(az[q], az[r])}

\* Beyond r from q is between r and q
LEMMA BetweenIsBeyond ==
  ASSUME NEW S, NEW az, NEW q, NEW r, q # r, q \notin S, r \notin S, Spread(S \cup {q, r}, az)
  PROVE  /\ Between(S, az, r, q) = Beyond(S, az, q, r)
         /\ Beyond(S, az, r, q) = Between(S, az, q, r)
         /\ S = Between(S, az, q, r) \cup Beyond(S, az, q, r)
<1>1. az[q] \in 0 .. 7 /\ az[r] \in 0 .. 7 /\ az[q] # az[r]
  BY DEF Spread
<1>2. \A x \in S : az[x] \in 0 .. 7 /\ az[x] # az[q] /\ az[x] # az[r]
  BY DEF Spread
<1> QED
  BY <1>1, <1>2 DEF Between, Beyond, Gap

\* The two ends q and r of a loop that come among those in S
LEMMA TwoMore ==
  ASSUME NEW S, NEW az, NEW q, NEW r, q # r, q \notin S, r \notin S, Spread(S \cup {q, r}, az),
         NEW c1, NEW b1, NEW c2, NEW b2,
         LET near == Between(S, az, q, r)
             far == Beyond(S, az, q, r)
         IN  /\ near # {} => After(near, az, q, c1) /\ Before(near, az, r, b2)
             /\ far # {} => After(far, az, r, c2) /\ Before(far, az, q, b1)
  PROVE  LET near == Between(S, az, q, r)
             far == Beyond(S, az, q, r)
             T == S \cup {q, r}
         IN  /\ After(T, az, q, IF near = {} THEN r ELSE c1)
             /\ After(T, az, r, IF far = {} THEN q ELSE c2)
             /\ near # {} => After(T, az, b2, r) /\ After(S, az, b2, IF far = {} THEN c1 ELSE c2)
             /\ far # {} => After(T, az, b1, q) /\ After(S, az, b1, IF near = {} THEN c2 ELSE c1)
             /\ \A b \in S : \A o :
              (near # {} => b # b2) /\ (far # {} => b # b1) /\ After(S, az, b, o)
                => After(T, az, b, o)
<1> DEFINE near == Between(S, az, q, r)
           far == Beyond(S, az, q, r)
           T == S \cup {q, r}
<1>1. /\ az[q] \in 0 .. 7 /\ az[r] \in 0 .. 7 /\ az[q] # az[r]
      /\ \A x \in S : az[x] \in 0 .. 7 /\ az[x] # az[q] /\ az[x] # az[r]
      /\ \A x, y \in S : az[x] = az[y] => x = y
  BY DEF Spread
<1>2. /\ near \subseteq S /\ far \subseteq S /\ S = near \cup far
      /\ \A x \in near : Gap(az[q], az[x]) < Gap(az[q], az[r])
      /\ \A x \in far : Gap(az[q], az[x]) > Gap(az[q], az[r])
  BY BetweenIsBeyond DEF Between, Beyond
<1>3. near # {} => /\ c1 \in near /\ b2 \in near
                   /\ \A x \in near : Gap(az[q], az[c1]) <= Gap(az[q], az[x])
                   /\ \A x \in near : Gap(az[r], az[b2]) >= Gap(az[r], az[x])
  BY DEF After, Before
<1>4. far # {} => /\ c2 \in far /\ b1 \in far
                  /\ \A x \in far : Gap(az[r], az[c2]) <= Gap(az[r], az[x])
                  /\ \A x \in far : Gap(az[q], az[b1]) >= Gap(az[q], az[x])
  BY DEF After, Before
<1> HIDE DEF near, far
<1>5. After(T, az, q, IF near = {} THEN r ELSE c1)
  <2>1. CASE near = {}
    BY <1>1, <1>2, <2>1 DEF After, Gap
  <2>2. CASE near # {}
    BY <1>1, <1>2, <1>3, <2>2 DEF After, Gap
  <2> QED
    BY <2>1, <2>2
<1>6. After(T, az, r, IF far = {} THEN q ELSE c2)
  <2>1. CASE far = {}
    BY <1>1, <1>2, <2>1 DEF After, Gap
  <2>2. CASE far # {}
    BY <1>1, <1>2, <1>4, <2>2 DEF After, Gap
  <2> QED
    BY <2>1, <2>2
<1>7. ASSUME near # {}
      PROVE  After(T, az, b2, r) /\ After(S, az, b2, IF far = {} THEN c1 ELSE c2)
  <2>1. After(T, az, b2, r)
    BY <1>1, <1>2, <1>3, <1>7 DEF After, Gap
  <2>2. far = {} => After(S, az, b2, c1)
    BY <1>1, <1>2, <1>3, <1>7 DEF After, Gap
  <2>3. far # {} => After(S, az, b2, c2)
    BY <1>1, <1>2, <1>3, <1>4, <1>7 DEF After, Gap
  <2> QED
    BY <2>1, <2>2, <2>3
<1>8. ASSUME far # {}
      PROVE  After(T, az, b1, q) /\ After(S, az, b1, IF near = {} THEN c2 ELSE c1)
  <2>1. After(T, az, b1, q)
    BY <1>1, <1>2, <1>4, <1>8 DEF After, Gap
  <2>2. near = {} => After(S, az, b1, c2)
    BY <1>1, <1>2, <1>4, <1>8 DEF After, Gap
  <2>3. near # {} => After(S, az, b1, c1)
    BY <1>1, <1>2, <1>3, <1>4, <1>8 DEF After, Gap
  <2> QED
    BY <2>1, <2>2, <2>3
<1>9. ASSUME NEW b \in S, NEW o, near # {} => b # b2, far # {} => b # b1, After(S, az, b, o)
      PROVE  After(T, az, b, o)
  <2>1. o \in S /\ \A x \in S : Gap(az[b], az[o]) <= Gap(az[b], az[x])
    BY <1>9 DEF After
  <2>2. Gap(az[b], az[o]) <= Gap(az[b], az[r]) /\ Gap(az[b], az[o]) <= Gap(az[b], az[q])
    <3>1. CASE b \in near
      <4>1. b2 \in near /\ b # b2 /\ az[b] # az[b2] /\ Gap(az[r], az[b2]) >= Gap(az[r], az[b])
        BY <1>1, <1>2, <1>3, <1>9, <3>1
      <4>2. Gap(az[b], az[o]) <= Gap(az[b], az[b2])
        BY <1>2, <2>1, <4>1
      <4>3. Gap(az[q], az[b]) < Gap(az[q], az[r]) /\ Gap(az[q], az[b2]) < Gap(az[q], az[r])
        BY <1>2, <3>1, <4>1
      <4>4. az[b] \in 0 .. 7 /\ az[b2] \in 0 .. 7 /\ az[o] \in 0 .. 7
        BY <1>1, <1>2, <1>9, <2>1, <4>1
      <4> QED
        BY <1>1, <4>1, <4>2, <4>3, <4>4 DEF Gap
    <3>2. CASE b \in far
      <4>1. b1 \in far /\ b # b1 /\ az[b] # az[b1] /\ Gap(az[q], az[b1]) >= Gap(az[q], az[b])
        BY <1>1, <1>2, <1>4, <1>9, <3>2
      <4>2. Gap(az[b], az[o]) <= Gap(az[b], az[b1])
        BY <1>2, <2>1, <4>1
      <4>3. Gap(az[q], az[b]) > Gap(az[q], az[r]) /\ Gap(az[q], az[b1]) > Gap(az[q], az[r])
        BY <1>2, <3>2, <4>1
      <4>4. az[b] \in 0 .. 7 /\ az[b1] \in 0 .. 7 /\ az[o] \in 0 .. 7
        BY <1>1, <1>2, <1>9, <2>1, <4>1
      <4> QED
        BY <1>1, <4>1, <4>2, <4>3, <4>4 DEF Gap
    <3> QED
      BY <1>2, <1>9, <3>1, <3>2
  <2> QED
    BY <2>1, <2>2 DEF After
<1> QED
  BY <1>5, <1>6, <1>7, <1>8, <1>9 DEF near, far

\* An end that goes: what came before it goes on to what came after it
LEMMA OneLess ==
  ASSUME NEW S, NEW az, Spread(S, az), NEW q \in S, NEW o, After(S, az, q, o)
  PROVE  \A b \in S \ {q} : \A x : After(S, az, b, x) =>
           After(S \ {q}, az, b, IF x = q THEN o ELSE x)
<1> SUFFICES ASSUME NEW b \in S \ {q}, NEW x, After(S, az, b, x)
             PROVE  After(S \ {q}, az, b, IF x = q THEN o ELSE x)
  OBVIOUS
<1>1. \A y \in S : az[y] \in 0 .. 7
  BY DEF Spread
<1>2. \A y, z \in S : az[y] = az[z] => y = z
  BY DEF Spread
<1>3. x \in S /\ o \in S
  BY DEF After
<1>4. \A y \in S : Gap(az[b], az[x]) <= Gap(az[b], az[y]) /\ Gap(az[q], az[o]) <= Gap(az[q], az[y])
  BY DEF After
<1>5. CASE x # q
  BY <1>5 DEF After
<1>6. CASE x = q
  <2>1. o # q
    BY <1>1, <1>2, <1>3, <1>4 DEF Gap
  <2>2. ASSUME NEW y \in S \ {q} PROVE Gap(az[b], az[o]) <= Gap(az[b], az[y])
    <3>1. /\ Gap(az[b], az[q]) <= Gap(az[b], az[y]) /\ Gap(az[b], az[q]) <= Gap(az[b], az[o])
          /\ Gap(az[q], az[o]) <= Gap(az[q], az[y]) /\ Gap(az[b], az[q]) <= Gap(az[b], az[b])
          /\ Gap(az[q], az[o]) <= Gap(az[q], az[b])
      BY <1>3, <1>4, <1>6
    <3>2. az[y] # az[q] /\ az[b] # az[q] /\ az[o] # az[q]
      BY <1>2, <1>3, <2>1
    <3>3. az[b] \in 0 .. 7 /\ az[q] \in 0 .. 7 /\ az[y] \in 0 .. 7 /\ az[o] \in 0 .. 7
      BY <1>1, <1>3
    <3> QED
      BY <3>1, <3>2, <3>3 DEF Gap
  <2> QED
    BY <1>3, <1>6, <2>1, <2>2 DEF After
<1> QED
  BY <1>5, <1>6

\* The order depends on the azimuths of the ends only
LEMMA SameAzimuthsSameOrder ==
  ASSUME NEW S, NEW az, NEW az2, \A x \in S : az[x] = az2[x], NEW b \in S
  PROVE  \A o : After(S, az, b, o) => After(S, az2, b, o)
BY DEF After

-----------------------------------------------------------------------------
(* The links as functions on darts.                                        *)

Azimuths(t) == [d \in Darts(t) |-> DartAzimuth(t, d)]

Around(org, n) == {d \in DOMAIN org : org[d] = n}

\* Darts come in pairs, and no two leave a node in one direction
Directed(org, az) ==
  /\ \A d \in DOMAIN org : d \in Int /\ d # 0 /\ -d \in DOMAIN org /\ az[d] \in 0 .. 7
  /\ \A c, d \in DOMAIN org : org[c] = org[d] /\ az[c] = az[d] => c = d

\* The darts in S, that leave one node, and what follows the way back along them
TurnsAt(S, az, next) == \A x \in S : After(S, az, x, next[-x])

\* Each dart goes on to the first met turning clockwise around the node it reaches
Clockwise(org, next, az) == \A d \in DOMAIN org : TurnsAt(Around(org, org[d]), az, next)

Turning(t) == Clockwise(Origins(t), Follows(t), Azimuths(t))

\* The darts that leave a node leave it in different directions
LEMMA DirectedSpreads ==
  ASSUME NEW org, NEW az, Directed(org, az), NEW n, NEW S \in SUBSET Around(org, n)
  PROVE  Spread(S, az)
BY DEF Directed, Around, Spread

\* A dart among those that leave its node
LEMMA TurnsAtNode ==
  ASSUME NEW org, NEW next, NEW az, Clockwise(org, next, az), NEW n
  PROVE  TurnsAt(Around(org, n), az, next)
BY DEF Clockwise, Around, TurnsAt

\* The way back along a dart is followed by one that leaves where the dart does
LEMMA FollowsNode ==
  ASSUME NEW org, NEW next, NEW az, Directed(org, az), Clockwise(org, next, az),
         NEW d \in DOMAIN org
  PROVE  next[d] \in DOMAIN org /\ org[next[d]] = org[-d]
<1>1. -d \in DOMAIN org /\ -(-d) = d
  BY DEF Directed
<1>2. After(Around(org, org[-d]), az, -d, next[d])
  BY <1>1 DEF Clockwise, TurnsAt, Around
<1> QED
  BY <1>2 DEF After, Around

\* Some end is followed by a given one
LEMMA FollowedExists ==
  ASSUME NEW S, NEW az, Spread(S, az), NEW o \in S
  PROVE  \E b \in S : After(S, az, b, o)
<1> DEFINE f == [x \in S |-> Gap(az[x], az[o]) - 1]
<1>1. \A x \in S : az[x] \in 0 .. 7
  BY DEF Spread
<1>2. \A x \in S : f[x] \in 0 .. 7
  BY <1>1, GapFacts
<1>3. PICK b \in S : \A x \in S : f[b] <= f[x]
  <2> HIDE DEF f
  <2> QED
    BY <1>2, TurnsAreBounded
<1>4. \A x \in S : Gap(az[b], az[o]) <= Gap(az[x], az[o])
  BY <1>1, <1>3, GapFacts
<1>5. ASSUME NEW x \in S PROVE Gap(az[b], az[o]) <= Gap(az[b], az[x])
  <2>1. Gap(az[b], az[o]) <= Gap(az[x], az[o]) /\ Gap(az[b], az[o]) <= Gap(az[o], az[o])
    BY <1>4
  <2>2. az[b] \in 0 .. 7 /\ az[o] \in 0 .. 7 /\ az[x] \in 0 .. 7
    BY <1>1
  <2> QED
    BY <2>1, <2>2 DEF Gap
<1> QED
  BY <1>5 DEF After

\* And two ends are followed by different ones
LEMMA FollowedIsOne ==
  ASSUME NEW S, NEW az, Spread(S, az), NEW o, NEW a \in S, NEW b \in S,
         After(S, az, a, o), After(S, az, b, o)
  PROVE  a = b
<1>1. az[a] \in 0 .. 7 /\ az[b] \in 0 .. 7 /\ az[o] \in 0 .. 7
  BY DEF Spread, After
<1>2. /\ Gap(az[a], az[o]) <= Gap(az[a], az[b]) /\ Gap(az[b], az[o]) <= Gap(az[b], az[a])
  BY DEF After
<1>3. az[a] = az[b]
  BY <1>1, <1>2 DEF Gap
<1> QED
  BY <1>3 DEF Spread

\* So the darts that turn clockwise are linked in closed rings
LEMMA ClockwiseIsPermutation ==
  ASSUME NEW org, NEW next, NEW az, Directed(org, az), Clockwise(org, next, az)
  PROVE  /\ \A c, d \in DOMAIN org : next[c] = next[d] => c = d
         /\ \A d \in DOMAIN org : \E c \in DOMAIN org : next[c] = d
<1>1. \A d \in DOMAIN org : d \in Int /\ -d \in DOMAIN org /\ -(-d) = d
  BY DEF Directed
<1>2. ASSUME NEW c \in DOMAIN org, NEW d \in DOMAIN org, next[c] = next[d] PROVE c = d
  <2> DEFINE S == Around(org, org[-c])
  <2>1. /\ next[c] \in DOMAIN org /\ org[next[c]] = org[-c] /\ org[next[d]] = org[-d]
    BY FollowsNode
  <2>2. -c \in S /\ -d \in S
    BY <1>1, <1>2, <2>1 DEF Around
  <2>3. Spread(S, az) /\ TurnsAt(S, az, next)
    BY DirectedSpreads, TurnsAtNode
  <2> HIDE DEF S
  <2>4. After(S, az, -c, next[c]) /\ After(S, az, -d, next[c])
    BY <1>1, <1>2, <2>2, <2>3 DEF TurnsAt
  <2>5. -c = -d
    BY <2>2, <2>3, <2>4, FollowedIsOne
  <2> QED
    BY <1>1, <2>5
<1>3. ASSUME NEW d \in DOMAIN org PROVE \E c \in DOMAIN org : next[c] = d
  <2> DEFINE S == Around(org, org[d])
  <2>1. Spread(S, az) /\ TurnsAt(S, az, next)
    BY DirectedSpreads, TurnsAtNode
  <2>2. d \in S /\ \A x \in S : x \in DOMAIN org
    BY DEF Around
  <2> HIDE DEF S
  <2>3. PICK b \in S : After(S, az, b, d)
    BY <2>1, <2>2, FollowedExists
  <2>4. After(S, az, b, next[-b]) /\ az[b] \in 0 .. 7
    BY <2>1 DEF TurnsAt, Spread
  <2>5. next[-b] = d
    BY <2>1, <2>3, <2>4, FollowerIsOne
  <2> QED
    BY <1>1, <2>2, <2>5
<1> QED
  BY <1>2, <1>3

\* A new dart q is tied in among the darts S that leave its node
TiedIn(S, az, q, next, next2) ==
  IF S = {} THEN next2[-q] = q
  ELSE \E cw, ccw : /\ After(S, az, q, cw) /\ Before(S, az, q, ccw)
                    /\ next2[-q] = cw /\ next2[-ccw] = q
                    /\ \A x \in S \ {ccw} : next2[-x] = next[-x]

\* Then they still turn clockwise, and q is followed by what followed the dart before it
LEMMA TieAtNode ==
  ASSUME NEW S, NEW az, NEW az2, NEW q, NEW next, NEW next2, q \notin S,
         Spread(S \cup {q}, az2), \A x \in S : az[x] = az2[x],
         TurnsAt(S, az, next), TiedIn(S, az2, q, next, next2)
  PROVE  /\ TurnsAt(S \cup {q}, az2, next2)
         /\ S # {} => \E ccw \in S : /\ next2[-ccw] = q /\ next2[-q] = next[-ccw]
                                     /\ \A x \in S \ {ccw} : next2[-x] = next[-x]
<1>1. Spread(S, az2)
  BY DEF Spread
<1>2. CASE S = {}
  <2>1. \A x \in S \cup {q} : x = q
    BY <1>2
  <2>2. q \in S \cup {q}
    OBVIOUS
  <2>3. next2[-q] = q
    BY <1>2 DEF TiedIn
  <2>4. Gap(az2[q], az2[q]) <= Gap(az2[q], az2[q])
    BY GapFacts DEF Spread
  <2>5. After(S \cup {q}, az2, q, q)
    BY <2>1, <2>2, <2>4 DEF After
  <2> QED
    BY <1>2, <2>1, <2>3, <2>5 DEF TurnsAt
<1>3. CASE S # {}
  <2>1. PICK cw, ccw : /\ After(S, az2, q, cw) /\ Before(S, az2, q, ccw)
                       /\ next2[-q] = cw /\ next2[-ccw] = q
                       /\ \A x \in S \ {ccw} : next2[-x] = next[-x]
    BY <1>3 DEF TiedIn
  <2>2. /\ After(S \cup {q}, az2, q, cw)
        /\ After(S \cup {q}, az2, ccw, q)
        /\ After(S, az2, ccw, cw)
        /\ \A b \in S : \A o : b # ccw /\ After(S, az2, b, o) => After(S \cup {q}, az2, b, o)
    BY <2>1, OneMore
  <2>3. ccw \in S
    BY <2>1 DEF Before
  <2>4. \A x \in S : After(S, az2, x, next[-x])
    BY SameAzimuthsSameOrder DEF TurnsAt
  <2>5. next[-ccw] = cw
    <3>1. az2[ccw] \in 0 .. 7
      BY <1>1, <2>3 DEF Spread
    <3> QED
      BY <1>1, <2>2, <2>3, <2>4, <3>1, FollowerIsOne
  <2>6. TurnsAt(S \cup {q}, az2, next2)
    BY <2>1, <2>2, <2>3, <2>4 DEF TurnsAt
  <2> QED
    BY <2>1, <2>3, <2>5, <2>6
<1> QED
  BY <1>2, <1>3

\* A loop with darts q and r is tied in behind b1 and b2, before c1 and c2, of the darts S
\* that leave its node
LoopTiedBehind(S, az, q, r, next, next2, c1, b1, c2, b2) ==
  LET near == Between(S, az, q, r)
      far == Beyond(S, az, q, r)
  IN  /\ near # {} => /\ After(near, az, q, c1) /\ Before(near, az, r, b2)
                      /\ next2[-q] = c1 /\ next2[-b2] = r
      /\ near = {} => next2[-q] = r
      /\ far # {} => /\ After(far, az, r, c2) /\ Before(far, az, q, b1)
                     /\ next2[-r] = c2 /\ next2[-b1] = q
      /\ far = {} => next2[-r] = q
      /\ \A x \in S : (near # {} => x # b2) /\ (far # {} => x # b1) => next2[-x] = next[-x]

LoopTiedIn(S, az, q, r, next, next2) ==
  \E c1, b1, c2, b2 : LoopTiedBehind(S, az, q, r, next, next2, c1, b1, c2, b2)

\* Then they still turn clockwise; with nothing on one side of the loop, the other side is
\* followed by what followed the dart before it, and else each side
LEMMA LoopAtNode ==
  ASSUME NEW S, NEW az, NEW az2, NEW q, NEW r, NEW next, NEW next2, q # r, q \notin S, r \notin S,
         Spread(S \cup {q, r}, az2), \A x \in S : az[x] = az2[x],
         TurnsAt(S, az, next), LoopTiedIn(S, az2, q, r, next, next2)
  PROVE  /\ TurnsAt(S \cup {q, r}, az2, next2)
         /\ \/ S = {} /\ next2[-q] = r /\ next2[-r] = q
            \/ \E b1, b2 \in S : /\ b1 # b2
                                 /\ next2[-b1] = q /\ next2[-q] = next[-b1]
                                 /\ next2[-b2] = r /\ next2[-r] = next[-b2]
                                 /\ \A x \in S \ {b1, b2} : next2[-x] = next[-x]
            \/ \E b \in S : /\ next2[-q] = r /\ next2[-b] = q /\ next2[-r] = next[-b]
                            /\ \A x \in S \ {b} : next2[-x] = next[-x]
            \/ \E b \in S : /\ next2[-r] = q /\ next2[-b] = r /\ next2[-q] = next[-b]
                            /\ \A x \in S \ {b} : next2[-x] = next[-x]
<1> DEFINE near == Between(S, az2, q, r)
           far == Beyond(S, az2, q, r)
           T == S \cup {q, r}
<1>1. PICK c1, b1, c2, b2 :
        /\ near # {} => /\ After(near, az2, q, c1) /\ Before(near, az2, r, b2)
                        /\ next2[-q] = c1 /\ next2[-b2] = r
        /\ near = {} => next2[-q] = r
        /\ far # {} => /\ After(far, az2, r, c2) /\ Before(far, az2, q, b1)
                       /\ next2[-r] = c2 /\ next2[-b1] = q
        /\ far = {} => next2[-r] = q
        /\ \A x \in S : (near # {} => x # b2) /\ (far # {} => x # b1) => next2[-x] = next[-x]
  BY DEF LoopTiedIn, LoopTiedBehind
<1>2. /\ After(T, az2, q, IF near = {} THEN r ELSE c1)
      /\ After(T, az2, r, IF far = {} THEN q ELSE c2)
      /\ near # {} => After(T, az2, b2, r) /\ After(S, az2, b2, IF far = {} THEN c1 ELSE c2)
      /\ far # {} => After(T, az2, b1, q) /\ After(S, az2, b1, IF near = {} THEN c2 ELSE c1)
      /\ \A b \in S : \A o :
              (near # {} => b # b2) /\ (far # {} => b # b1) /\ After(S, az2, b, o)
                => After(T, az2, b, o)
  <2>1. /\ near # {} => After(near, az2, q, c1) /\ Before(near, az2, r, b2)
        /\ far # {} => After(far, az2, r, c2) /\ Before(far, az2, q, b1)
    BY <1>1
  <2> QED
    BY <2>1, TwoMore
<1>3. near # {} => b2 \in near
  BY <1>1 DEF Before
<1>4. far # {} => b1 \in far
  BY <1>1 DEF Before
<1>5. near \subseteq S /\ far \subseteq S /\ S = near \cup far /\ near \cap far = {}
  <2>1. \A x \in S : Gap(az2[q], az2[x]) \in Int /\ Gap(az2[q], az2[r]) \in Int
    BY GapFacts DEF Spread
  <2> QED
    BY <2>1, BetweenIsBeyond DEF Between, Beyond
<1>6. \A x \in S : After(S, az2, x, next[-x])
  BY SameAzimuthsSameOrder DEF TurnsAt
<1> HIDE DEF near, far
<1>7. TurnsAt(T, az2, next2)
  BY <1>1, <1>2, <1>6 DEF TurnsAt
<1>8. \A b \in S : \A o : After(S, az2, b, o) => next[-b] = o
  <2>1. Spread(S, az2)
    BY DEF Spread
  <2> QED
    BY <1>6, <2>1, FollowerIsOne DEF Spread
<1>9. CASE near # {} /\ far # {}
  <2>1. next[-b2] = c2 /\ next[-b1] = c1
    BY <1>2, <1>3, <1>4, <1>5, <1>8, <1>9
  <2>2. b1 # b2
    BY <1>3, <1>4, <1>5, <1>9
  <2> QED
    BY <1>1, <1>3, <1>4, <1>5, <1>7, <1>9, <2>1, <2>2
<1>10. CASE near = {} /\ far # {}
  <2>1. next[-b1] = c2
    BY <1>2, <1>4, <1>5, <1>8, <1>10
  <2>2. /\ b1 \in S /\ next2[-q] = r /\ next2[-b1] = q /\ next2[-r] = next[-b1]
        /\ \A x \in S \ {b1} : next2[-x] = next[-x]
    BY <1>1, <1>4, <1>5, <1>10, <2>1
  <2> QED
    BY <1>7, <2>2
<1>11. CASE near # {} /\ far = {}
  <2>1. next[-b2] = c1
    BY <1>2, <1>3, <1>5, <1>8, <1>11
  <2>2. /\ b2 \in S /\ next2[-r] = q /\ next2[-b2] = r /\ next2[-q] = next[-b2]
        /\ \A x \in S \ {b2} : next2[-x] = next[-x]
    BY <1>1, <1>3, <1>5, <1>11, <2>1
  <2> QED
    BY <1>7, <2>2
<1>12. CASE near = {} /\ far = {}
  BY <1>1, <1>5, <1>7, <1>12
<1> QED
  BY <1>9, <1>10, <1>11, <1>12

\* No end follows itself while there are others
LEMMA OthersComeFirst ==
  ASSUME NEW S, NEW az, Spread(S, az), NEW q \in S, NEW b \in S, b # q
  PROVE  ~After(S, az, q, q)
<1>1. az[q] \in 0 .. 7 /\ az[b] \in 0 .. 7 /\ az[q] # az[b]
  BY DEF Spread
<1> QED
  BY <1>1 DEF After, Gap

\* The links that led to an edge lead past it
SkipEdge(next, e, x) ==
  IF x = e THEN IF next[-e] # -e THEN next[-e] ELSE next[e]
  ELSE IF x = -e THEN IF next[e] # e THEN next[e] ELSE next[-e]
  ELSE x

\* The darts that are left turn clockwise when their links lead past the edge that goes
LEMMA RemoveAtNode ==
  ASSUME NEW S, NEW az, NEW next, NEW next2, NEW e \in Int, e # -e, Spread(S, az),
         TurnsAt(S, az, next),
         \A x \in S \ {e, -e} : next2[-x] = SkipEdge(next, e, next[-x])
  PROVE  TurnsAt(S \ {e, -e}, az, next2)
<1> SUFFICES ASSUME NEW b \in S \ {e, -e} PROVE After(S \ {e, -e}, az, b, next2[-b])
  BY DEF TurnsAt
<1>1. \A x \in S : After(S, az, x, next[-x]) /\ next[-x] \in S
  BY DEF TurnsAt, After
<1>2. next2[-b] = SkipEdge(next, e, next[-b]) /\ -(-e) = e
  OBVIOUS
<1>3. CASE e \notin S /\ -e \notin S
  <2>1. next2[-b] = next[-b]
    BY <1>1, <1>2, <1>3 DEF SkipEdge
  <2>2. S \ {e, -e} = S
    BY <1>3
  <2> QED
    BY <1>1, <2>1, <2>2
<1>4. CASE e \in S /\ -e \notin S
  <2>1. next[-e] # -e /\ next[-b] # -e
    BY <1>1, <1>4
  <2>2. next2[-b] = IF next[-b] = e THEN next[-e] ELSE next[-b]
    BY <1>2, <2>1 DEF SkipEdge
  <2>3. S \ {e, -e} = S \ {e}
    BY <1>4
  <2> QED
    BY <1>1, <1>4, <2>2, <2>3, OneLess
<1>5. CASE e \notin S /\ -e \in S
  <2>1. next[e] # e /\ next[-b] # e
    BY <1>1, <1>2, <1>5
  <2>2. next2[-b] = IF next[-b] = -e THEN next[e] ELSE next[-b]
    BY <1>2, <2>1 DEF SkipEdge
  <2>3. S \ {e, -e} = S \ {-e}
    BY <1>5
  <2>4. After(S, az, -e, next[e])
    BY <1>1, <1>2, <1>5
  <2> QED
    BY <1>1, <1>5, <2>2, <2>3, <2>4, OneLess
<1>6. CASE e \in S /\ -e \in S
  <2> DEFINE S1 == S \ {e}
             back == IF next[e] = e THEN next[-e] ELSE next[e]
             x1 == IF next[-b] = e THEN next[-e] ELSE next[-b]
  <2>1. Spread(S1, az) /\ b \in S1 /\ -e \in S1
    BY <1>6 DEF Spread
  <2>2. After(S1, az, -e, back)
    <3>1. After(S, az, -e, next[e])
      BY <1>1, <1>2, <1>6
    <3> QED
      BY <1>1, <1>6, <2>1, <3>1, OneLess
  <2>3. After(S1, az, b, x1)
    BY <1>1, <1>6, <2>1, OneLess
  <2>4. back # -e
    BY <2>1, <2>2, OthersComeFirst
  <2>5. After(S1 \ {-e}, az, b, IF x1 = -e THEN back ELSE x1)
    <3> HIDE DEF S1, back, x1
    <3> QED
      BY <2>1, <2>2, <2>3, OneLess
  <2>6. next2[-b] = IF x1 = -e THEN back ELSE x1
    BY <1>2, <2>4 DEF SkipEdge
  <2>7. S \ {e, -e} = S1 \ {-e}
    OBVIOUS
  <2> QED
    BY <2>5, <2>6, <2>7
<1> QED
  BY <1>3, <1>4, <1>5, <1>6

\* Darts that are given other names turn as before
LEMMA RenameAtNode ==
  ASSUME NEW S, NEW r, NEW az, NEW az2, NEW next, NEW next2, TurnsAt(S, az, next),
         \A x \in S : az2[r[x]] = az[x] /\ next2[-r[x]] = r[next[-x]]
  PROVE  TurnsAt({r[x] : x \in S}, az2, next2)
<1> SUFFICES ASSUME NEW x \in S PROVE After({r[y] : y \in S}, az2, r[x], next2[-r[x]])
  BY DEF TurnsAt
<1>1. After(S, az, x, next[-x])
  BY DEF TurnsAt
<1> QED
  BY <1>1 DEF After

\* An end that is drawn anew between the same two turns as before
LEMMA RedrawAtNode ==
  ASSUME NEW S, NEW az, NEW az2, NEW q, NEW next, q \notin S,
         Spread(S \cup {q}, az), Spread(S \cup {q}, az2), \A x \in S : az[x] = az2[x],
         TurnsAt(S \cup {q}, az, next),
         S # {} => \E cw, ccw : /\ After(S, az, q, cw) /\ Before(S, az, q, ccw)
                                /\ After(S, az2, q, cw) /\ Before(S, az2, q, ccw)
  PROVE  TurnsAt(S \cup {q}, az2, next)
<1> DEFINE T == S \cup {q}
<1>1. \A x \in T : After(T, az, x, next[-x])
  BY DEF TurnsAt
<1>2. CASE S = {}
  <2>1. \A x \in T : x = q /\ next[-x] = q
    BY <1>1, <1>2 DEF After
  <2>2. Gap(az2[q], az2[q]) <= Gap(az2[q], az2[q])
    BY GapFacts DEF Spread
  <2> QED
    BY <2>1, <2>2 DEF TurnsAt, After
<1>3. CASE S # {}
  <2>1. PICK cw, ccw : /\ After(S, az, q, cw) /\ Before(S, az, q, ccw)
                       /\ After(S, az2, q, cw) /\ Before(S, az2, q, ccw)
    BY <1>3
  <2>2. /\ After(T, az, q, cw) /\ After(T, az, ccw, q)
        /\ \A b \in S : \A o : b # ccw /\ After(S, az, b, o) => After(T, az, b, o)
    BY <2>1, OneMore
  <2>3. /\ After(T, az2, q, cw) /\ After(T, az2, ccw, q)
        /\ \A b \in S : \A o : b # ccw /\ After(S, az2, b, o) => After(T, az2, b, o)
    BY <2>1, OneMore
  <2>4. ccw \in S
    BY <2>1 DEF Before
  <2>5. \A x \in T : \A o : After(T, az, x, o) => o = next[-x]
    <3>1. \A x \in T : az[x] \in 0 .. 7
      BY DEF Spread
    <3> QED
      BY <1>1, <3>1, FollowerIsOne
  <2> SUFFICES ASSUME NEW b \in T PROVE After(T, az2, b, next[-b])
    BY DEF TurnsAt
  <2>6. CASE b = q
    BY <2>2, <2>3, <2>5, <2>6
  <2>7. CASE b = ccw
    BY <2>2, <2>3, <2>4, <2>5, <2>7
  <2>8. CASE b # q /\ b # ccw
    <3>1. b \in S /\ Spread(S, az) /\ az[b] \in 0 .. 7
      BY <2>8 DEF Spread
    <3>2. PICK o : After(S, az, b, o)
      BY <1>3, <3>1, FollowerExists
    <3>3. After(S, az2, b, o)
      BY <3>1, <3>2, SameAzimuthsSameOrder
    <3> QED
      BY <2>2, <2>3, <2>5, <2>8, <3>1, <3>2, <3>3
  <2> QED
    BY <2>6, <2>7, <2>8
<1> QED
  BY <1>2, <1>3

\* What turns are next to the two ends of a loop: first from q and last from r on the one
\* side, first from r and last from q on the other
NextToLoop(S, az, q, r, c1, b1, c2, b2) ==
  LET near == Between(S, az, q, r)
      far == Beyond(S, az, q, r)
  IN  /\ near # {} => After(near, az, q, c1) /\ Before(near, az, r, b2)
      /\ far # {} => After(far, az, r, c2) /\ Before(far, az, q, b1)

\* A loop that is drawn anew next to the same turns
LEMMA RedrawLoopAtNode ==
  ASSUME NEW S, NEW az, NEW az2, NEW q, NEW r, NEW next, q # r, q \notin S, r \notin S,
         Spread(S \cup {q, r}, az), Spread(S \cup {q, r}, az2), \A x \in S : az[x] = az2[x],
         TurnsAt(S \cup {q, r}, az, next),
         NEW c1, NEW b1, NEW c2, NEW b2,
         NextToLoop(S, az, q, r, c1, b1, c2, b2), NextToLoop(S, az2, q, r, c1, b1, c2, b2),
         Between(S, az, q, r) = {} <=> Between(S, az2, q, r) = {},
         Beyond(S, az, q, r) = {} <=> Beyond(S, az2, q, r) = {}
  PROVE  TurnsAt(S \cup {q, r}, az2, next)
<1> DEFINE T == S \cup {q, r}
           near == Between(S, az, q, r)
           far == Beyond(S, az, q, r)
<1>1. \A x \in T : After(T, az, x, next[-x])
  BY DEF TurnsAt
<1>2. \A x \in T : \A o : After(T, az, x, o) => o = next[-x]
  <2>1. \A x \in T : az[x] \in 0 .. 7
    BY DEF Spread
  <2> QED
    BY <1>1, <2>1, FollowerIsOne
<1> DEFINE Steps(a) ==
             /\ After(T, a, q, IF near = {} THEN r ELSE c1)
             /\ After(T, a, r, IF far = {} THEN q ELSE c2)
             /\ near # {} => After(T, a, b2, r)
             /\ far # {} => After(T, a, b1, q)
             /\ \A b \in S : \A o :
                  (near # {} => b # b2) /\ (far # {} => b # b1) /\ After(S, a, b, o)
                    => After(T, a, b, o)
<1>3. Steps(az)
  BY TwoMore DEF NextToLoop
<1>4. Steps(az2)
  <2>1. /\ After(T, az2, q, IF Between(S, az2, q, r) = {} THEN r ELSE c1)
        /\ After(T, az2, r, IF Beyond(S, az2, q, r) = {} THEN q ELSE c2)
        /\ Between(S, az2, q, r) # {} => After(T, az2, b2, r)
        /\ Beyond(S, az2, q, r) # {} => After(T, az2, b1, q)
        /\ \A b \in S : \A o :
             /\ (Between(S, az2, q, r) # {} => b # b2)
             /\ (Beyond(S, az2, q, r) # {} => b # b1)
             /\ After(S, az2, b, o)
             => After(T, az2, b, o)
    BY TwoMore DEF NextToLoop
  <2> QED
    BY <2>1
<1>5. (near # {} => b2 \in S) /\ (far # {} => b1 \in S)
  <2>1. (near # {} => b2 \in near) /\ (far # {} => b1 \in far)
    BY DEF NextToLoop, Before
  <2> QED
    BY <2>1 DEF Between, Beyond
<1> HIDE DEF near, far
<1> SUFFICES ASSUME NEW b \in T PROVE After(T, az2, b, next[-b])
  BY DEF TurnsAt
<1>6. CASE b = q \/ b = r
  BY <1>2, <1>3, <1>4, <1>6
<1>7. CASE (near # {} /\ b = b2) \/ (far # {} /\ b = b1)
  BY <1>2, <1>3, <1>4, <1>5, <1>7
<1>8. CASE b \in S /\ (near # {} => b # b2) /\ (far # {} => b # b1)
  <2>1. Spread(S, az) /\ az[b] \in 0 .. 7 /\ S # {}
    BY <1>8 DEF Spread
  <2>2. PICK o : After(S, az, b, o)
    BY <2>1, FollowerExists
  <2>3. After(S, az2, b, o)
    BY <1>8, <2>2, SameAzimuthsSameOrder
  <2> QED
    BY <1>2, <1>3, <1>4, <1>8, <2>2, <2>3
<1> QED
  BY <1>6, <1>7, <1>8

-----------------------------------------------------------------------------
(* Edge ends of a planar drawing leave their node in different directions. *)

\* The point of the lattice that a dart comes to first
Second(t, d) ==
  IF d > 0 THEN t.edge[d].geom[2] ELSE t.edge[-d].geom[Len(t.edge[-d].geom) - 1]

Beside(p, q) ==
  /\ p[1] \in Int /\ p[2] \in Int /\ q[1] \in Int /\ q[2] \in Int
  /\ p = <<p[1], p[2]>> /\ q = <<q[1], q[2]>>
  /\ \/ q[1] - p[1] = 2 /\ q[2] - p[2] = 0
     \/ q[1] - p[1] = -2 /\ q[2] - p[2] = 0
     \/ q[1] - p[1] = 0 /\ q[2] - p[2] = 2
     \/ q[1] - p[1] = 0 /\ q[2] - p[2] = -2

\* Two points beside a third, in one direction, are the same
LEMMA OneDirectionOnePoint ==
  ASSUME NEW p, NEW q, NEW s, Beside(p, q), Beside(p, s), Azimuth(p, q) = Azimuth(p, s)
  PROVE  q = s
<1>1. q[1] = s[1] /\ q[2] = s[2]
  BY DEF Beside, Azimuth
<1> QED
  BY <1>1 DEF Beside

\* The first step along a dart, from its node, is on the line of its edge
LEMMA FirstStep ==
  ASSUME NEW t, Base(t), NEW d \in Darts(t)
  PROVE  LET p == t.node[From(t, d)].geom
             s == Second(t, d)
         IN  /\ Beside(p, s) /\ DartAzimuth(t, d) = Azimuth(p, s)
             /\ Mid(p, s) \in SegmentMids(t.edge[Abs(d)].geom)
<1> DEFINE e == Abs(d)
           c == t.edge[e].geom
           k == Len(c)
<1>1. d \in Int /\ d # 0 /\ e \in DOMAIN t.edge
  BY DartFacts
<1>2. OnGrid(c) /\ EndsAtNodes(t, t.edge[e].start_node, t.edge[e].end_node, c)
  BY <1>1 DEF Base, Drawn
<1>3. /\ k \in Nat /\ k > 1
      /\ \A i \in 1 .. k : c[i] \in Int \X Int /\ c[i][1] \in Int /\ c[i][2] \in Int
  BY <1>2, GridFacts
<1>4. \A i \in 1 .. k - 1 : Beside(c[i], c[i + 1]) /\ Beside(c[i + 1], c[i])
  <2> SUFFICES ASSUME NEW i \in 1 .. k - 1
               PROVE  Beside(c[i], c[i + 1]) /\ Beside(c[i + 1], c[i])
    OBVIOUS
  <2>1. <<c[i + 1][1] - c[i][1], c[i + 1][2] - c[i][2]>>
          \in {<<2, 0>>, <<-2, 0>>, <<0, 2>>, <<0, -2>>}
    BY <1>2 DEF OnGrid, IsCurve
  <2>2. i \in 1 .. k /\ i + 1 \in 1 .. k
    BY <1>3
  <2>3. c[i] = <<c[i][1], c[i][2]>> /\ c[i + 1] = <<c[i + 1][1], c[i + 1][2]>>
    BY <1>3, <2>2
  <2> HIDE DEF c
  <2> QED
    BY <1>3, <2>1, <2>2, <2>3 DEF Beside
<1>5. \A i \in 1 .. k - 1 : Mid(c[i], c[i + 1]) \in SegmentMids(c)
  BY DEF SegmentMids
<1>6. CASE d > 0
  <2>1. e = d
    BY <1>1, <1>6 DEF Abs
  <2>2. From(t, d) = t.edge[e].start_node /\ DartAzimuth(t, d) = FirstAzimuth(c)
        /\ Second(t, d) = c[2]
    BY <1>6, <2>1 DEF From, DartAzimuth, Second
  <2>3. t.node[From(t, d)].geom = c[1]
    BY <1>2, <2>2 DEF EndsAtNodes, StartPoint
  <2> HIDE DEF c, e, k
  <2>4. 1 \in 1 .. k - 1 /\ 1 + 1 = 2
    BY <1>3
  <2>5. Beside(c[1], c[2]) /\ Mid(c[1], c[2]) \in SegmentMids(c)
    BY <1>4, <1>5, <2>4
  <2> QED
    BY <2>2, <2>3, <2>5 DEF FirstAzimuth, e, c
<1>7. CASE d < 0
  <2>1. e = -d
    BY <1>1, <1>7 DEF Abs
  <2>2. From(t, d) = t.edge[e].end_node /\ DartAzimuth(t, d) = LastAzimuth(c)
        /\ Second(t, d) = c[k - 1]
    BY <1>1, <1>7, <2>1 DEF From, DartAzimuth, Second
  <2>3. t.node[From(t, d)].geom = c[k]
    BY <1>2, <2>2 DEF EndsAtNodes, EndPoint
  <2>4. LastAzimuth(c) = Azimuth(c[k], c[k - 1])
    BY DEF LastAzimuth
  <2> HIDE DEF c, e, k
  <2>5. k - 1 \in 1 .. k - 1 /\ (k - 1) + 1 = k /\ k \in 1 .. k /\ k - 1 \in 1 .. k
    BY <1>3
  <2>6. Beside(c[k], c[k - 1]) /\ Mid(c[k - 1], c[k]) \in SegmentMids(c)
    BY <1>4, <1>5, <2>5
  <2>7. Mid(c[k - 1], c[k]) = Mid(c[k], c[k - 1])
    <3>1. /\ c[k][1] + c[k - 1][1] = c[k - 1][1] + c[k][1]
          /\ c[k][2] + c[k - 1][2] = c[k - 1][2] + c[k][2]
      BY <1>3, <2>5
    <3> QED
      BY <3>1 DEF Mid
  <2> QED
    BY <2>2, <2>3, <2>4, <2>6, <2>7 DEF e, c
<1> QED
  BY <1>1, <1>6, <1>7

\* The three functions of tables that are sound
LEMMA DartFunctions ==
  ASSUME NEW t
  PROVE  /\ DOMAIN Origins(t) = Darts(t) /\ DOMAIN Follows(t) = Darts(t)
         /\ DOMAIN Azimuths(t) = Darts(t)
         /\ \A d \in Darts(t) : /\ Origins(t)[d] = From(t, d)
                                /\ Follows(t)[d] = NextDart(t, d)
                                /\ Azimuths(t)[d] = DartAzimuth(t, d)
BY DEF Origins, Follows, Azimuths

\* In a planar drawing the darts that leave a node leave it in different directions
LEMMA DrawingIsDirected ==
  ASSUME NEW t, Base(t), Apart(t)
  PROVE  Directed(Origins(t), Azimuths(t))
<1>1. \A d \in Darts(t) : d \in Int /\ d # 0 /\ -d \in Darts(t) /\ DartAzimuth(t, d) \in 0 .. 7
  BY DartFacts
<1>2. ASSUME NEW a \in Darts(t), NEW b \in Darts(t), From(t, a) = From(t, b),
             DartAzimuth(t, a) = DartAzimuth(t, b), a # b
      PROVE  FALSE
  <2> DEFINE p == t.node[From(t, a)].geom
             e == Abs(a)
             f == Abs(b)
  <2>1. /\ Beside(p, Second(t, a)) /\ DartAzimuth(t, a) = Azimuth(p, Second(t, a))
        /\ Mid(p, Second(t, a)) \in SegmentMids(t.edge[e].geom)
    BY FirstStep
  <2>2. /\ Beside(p, Second(t, b)) /\ DartAzimuth(t, b) = Azimuth(p, Second(t, b))
        /\ Mid(p, Second(t, b)) \in SegmentMids(t.edge[f].geom)
    BY <1>2, FirstStep
  <2>3. Second(t, a) = Second(t, b)
    BY <1>2, <2>1, <2>2, OneDirectionOnePoint
  <2>4. e \in DOMAIN t.edge /\ f \in DOMAIN t.edge
    BY DartFacts
  <2>5. e = f
    <3>1. InteriorsMeet(t.edge[e].geom, t.edge[f].geom)
      BY <2>1, <2>2, <2>3 DEF InteriorsMeet
    <3> QED
      BY <2>4, <3>1 DEF Apart, CheckEdgeCrossing
  <2>6. b = -a
    BY <1>1, <1>2, <2>5 DEF Abs
  <2> DEFINE c == t.edge[e].geom
             k == Len(c)
  <2>7. OnGrid(c) /\ EndsAtNodes(t, t.edge[e].start_node, t.edge[e].end_node, c) /\ IsSimple(c)
    BY <2>4 DEF Base, Drawn, Apart
  <2>8. k \in Nat /\ k > 1 /\ DOMAIN c = 1 .. k
    BY <2>7, GridFacts
  <2>9. t.edge[e].start_node = t.edge[e].end_node /\ c[2] = c[k - 1]
    <3>1. CASE a > 0
      <4>1. e = a /\ b < 0 /\ -b = a
        BY <1>1, <2>6, <3>1 DEF Abs
      <4> QED
        BY <1>1, <1>2, <2>3, <3>1, <4>1 DEF From, Second
    <3>2. CASE a < 0
      <4>1. e = -a /\ b > 0 /\ -a = b
        BY <1>1, <2>6, <3>2 DEF Abs
      <4> QED
        BY <1>1, <1>2, <2>3, <3>2, <4>1 DEF From, Second
    <3> QED
      BY <1>1, <3>1, <3>2
  <2>10. c[1] = c[k]
    BY <2>7, <2>9 DEF EndsAtNodes, StartPoint, EndPoint
  <2>11. k > 3
    <3>1. 1 \in DOMAIN c /\ k \in DOMAIN c /\ 1 < k
      BY <2>8
    <3> HIDE DEF c
    <3> QED
      BY <2>7, <2>10, <3>1 DEF IsSimple
  <2>12. 2 \in DOMAIN c /\ k - 1 \in DOMAIN c /\ 2 < k - 1 /\ 2 # 1
    <3> HIDE DEF c, k
    <3> QED
      BY <2>8, <2>11
  <2> HIDE DEF c
  <2> QED
    BY <2>7, <2>9, <2>12 DEF IsSimple
<1> QED
  BY <1>1, <1>2, DartFunctions DEF Directed

\* Then the dart first met turning clockwise is the one that LinksTurnClockwise means
LEMMA TurningIsClockwise ==
  ASSUME Base(Tables), Apart(Tables), Turning(Tables)
  PROVE  LinksTurnClockwise
<1> DEFINE t == Tables
           org == Origins(t)
           az == Azimuths(t)
<1>1. Directed(org, az)
  BY DrawingIsDirected
<1> SUFFICES ASSUME NEW d \in Darts(t) PROVE NextDart(t, d) = FirstClockwise(d)
  BY DEF LinksTurnClockwise
<1> DEFINE n == To(t, d)
           S == Around(org, n)
           next == NextDart(t, d)
           others == Star(n) \ {-d}
<1>2. -d \in Darts(t) /\ -(-d) = d
  BY DartFacts
<1>3. S = Star(n) /\ -d \in S
  BY <1>2, DartFunctions DEF Around, Star, To
<1>4. \A x \in S : az[x] = DartAzimuth(t, x) /\ az[x] \in 0 .. 7
  BY DartFunctions, DartFacts DEF Around
<1>5. After(S, az, -d, next)
  BY <1>2, <1>3, DartFunctions, TurnsAtNode DEF Turning, TurnsAt
<1>6. Spread(S, az)
  BY <1>1, DirectedSpreads
<1>7. \A x \in others : ClockwiseTurn(DartAzimuth(t, -d), DartAzimuth(t, x)) = Gap(az[-d], az[x])
  BY <1>3, <1>4, <1>6, GapFacts DEF Spread
<1>8. CASE others = {}
  <2>1. next = -d
    BY <1>3, <1>5, <1>8 DEF After
  <2> QED
    BY <1>8, <2>1 DEF FirstClockwise
<1>9. CASE others # {}
  <2> DEFINE Turn(o) == ClockwiseTurn(DartAzimuth(t, -d), DartAzimuth(t, o))
             first == CHOOSE o \in others : \A x \in others : Turn(o) <= Turn(x)
  <2>1. next \in others
    BY <1>3, <1>5, <1>6, <1>9, OthersComeFirst DEF After
  <2>2. \A x \in others : Turn(next) <= Turn(x)
    <3> HIDE DEF others
    <3> QED
      BY <1>3, <1>5, <1>7, <2>1 DEF After, others
  <2>3. first \in others /\ \A x \in others : Turn(first) <= Turn(x)
    <3> HIDE DEF others, Turn
    <3> QED
      BY <2>1, <2>2
  <2>4. Gap(az[-d], az[first]) = Gap(az[-d], az[next])
    <3>1. Turn(first) <= Turn(next) /\ Turn(next) <= Turn(first)
      BY <2>1, <2>2, <2>3
    <3>2. Gap(az[-d], az[first]) \in 1 .. 8 /\ Gap(az[-d], az[next]) \in 1 .. 8
      BY <1>3, <1>4, <2>1, <2>3, GapFacts
    <3> HIDE DEF first, next, others
    <3> QED
      BY <1>7, <2>1, <2>3, <3>1, <3>2
  <2>5. first = next
    BY <1>3, <1>4, <1>6, <2>1, <2>3, <2>4, GapFacts DEF Spread
  <2>6. FirstClockwise(d) = first
    BY <1>9 DEF FirstClockwise
  <2> QED
    BY <2>5, <2>6
<1> QED
  BY <1>8, <1>9

-----------------------------------------------------------------------------
(* Updates that leave the edges as they are, but for the faces they name.  *)

SameLinks(t, u) ==
  /\ DOMAIN u.edge = DOMAIN t.edge
  /\ \A e \in DOMAIN t.edge : /\ u.edge[e].start_node = t.edge[e].start_node
                              /\ u.edge[e].end_node = t.edge[e].end_node
                              /\ u.edge[e].next_left = t.edge[e].next_left
                              /\ u.edge[e].next_right = t.edge[e].next_right
                              /\ u.edge[e].geom = t.edge[e].geom

\* Their darts are the same
LEMMA SameLinksSameDarts ==
  ASSUME NEW t, NEW u, SameLinks(t, u), \A e \in DOMAIN t.edge : e \in Nat /\ e > 0
  PROVE  Origins(u) = Origins(t) /\ Follows(u) = Follows(t) /\ Azimuths(u) = Azimuths(t)
<1>1. Darts(u) = Darts(t)
  BY DEF SameLinks, Darts
<1>2. \A d \in Darts(t) :
        (d \in DOMAIN t.edge /\ d > 0) \/ (-d \in DOMAIN t.edge /\ ~(d > 0))
  BY DEF Darts
<1>3. \A d \in Darts(t) : /\ From(u, d) = From(t, d) /\ NextDart(u, d) = NextDart(t, d)
                          /\ DartAzimuth(u, d) = DartAzimuth(t, d)
  BY <1>2 DEF SameLinks, From, NextDart, DartAzimuth
<1> QED
  BY <1>1, <1>3 DEF Origins, Follows, Azimuths

\* Two such updates are one
LEMMA SameLinksComposes ==
  ASSUME NEW t, NEW u, NEW v, SameLinks(t, u), SameLinks(u, v)
  PROVE  SameLinks(t, v)
BY DEF SameLinks

\* What a call does to the links when it commits tables t, and when it does not
LEMMA FinishShows ==
  ASSUME NEW t, Finish(t)
  PROVE  /\ t.err = "done" =>
              /\ Origins(Tables)' = Origins(t) /\ Follows(Tables)' = Follows(t)
              /\ Azimuths(Tables)' = Azimuths(t)
              /\ t.seq.node <= MaxNode /\ t.seq.edge <= MaxEdge
         /\ t.err # "done" =>
              /\ Origins(Tables)' = Origins(Tables) /\ Follows(Tables)' = Follows(Tables)
              /\ Azimuths(Tables)' = Azimuths(Tables)
<1>1. ASSUME t.err = "done"
      PROVE  /\ Origins(Tables)' = Origins(t) /\ Follows(Tables)' = Follows(t)
             /\ Azimuths(Tables)' = Azimuths(t)
             /\ t.seq.node <= MaxNode /\ t.seq.edge <= MaxEdge
  <2>1. edge' = t.edge /\ t.seq.node <= MaxNode /\ t.seq.edge <= MaxEdge
    BY <1>1 DEF Finish, Store
  <2>2. Tables'.edge = t.edge
    BY <2>1 DEF Tables
  <2>3. /\ Origins(Tables') = Origins(t) /\ Follows(Tables') = Follows(t)
        /\ Azimuths(Tables') = Azimuths(t)
    BY <2>2 DEF Origins, Follows, Azimuths, Darts, From, NextDart, DartAzimuth
  <2> QED
    BY <2>1, <2>3
<1>2. ASSUME t.err # "done"
      PROVE  /\ Origins(Tables)' = Origins(Tables) /\ Follows(Tables)' = Follows(Tables)
             /\ Azimuths(Tables)' = Azimuths(Tables)
  <2>1. edge' = edge
    BY <1>2 DEF Finish
  <2>2. Tables'.edge = Tables.edge
    BY <2>1 DEF Tables
  <2> QED
    BY <2>2 DEF Origins, Follows, Azimuths, Darts, From, NextDart, DartAzimuth
<1> QED
  BY <1>1, <1>2

\* The links still turn clockwise, and were edited as EdgeLinking promises
Advances == Turning(Tables)' /\ [Linking!Next]_(Linking!vars)

\* A call that commits the same links, or none
LEMMA SameLinksAdvance ==
  ASSUME Inv, Turning(Tables), NEW u, Finish(u), u.err = "done" => SameLinks(Tables, u)
  PROVE  Advances
<1>1. \A e \in DOMAIN Tables.edge : e \in Nat /\ e > 0
  BY DEF Inv, Sound, Base, Numbered
<1>2. /\ Origins(Tables)' = Origins(Tables) /\ Follows(Tables)' = Follows(Tables)
      /\ Azimuths(Tables)' = Azimuths(Tables)
  BY <1>1, FinishShows, SameLinksSameDarts
<1>3. Turning(Tables)'
  BY <1>2 DEF Turning
<1>4. UNCHANGED Linking!vars
  BY <1>2 DEF Linking!vars
<1> QED
  BY <1>3, <1>4 DEF Advances

\* A call that does not touch the edges
LEMMA OtherTablesAdvance ==
  ASSUME Inv, Turning(Tables), NEW u, Finish(u), u.err = "done" => u.edge = Tables.edge
  PROVE  Advances
BY SameLinksAdvance DEF SameLinks

\* Edge sides and isolated nodes that go to a new face
LEMMA SplitLinks ==
  ASSUME NEW t, Base(t), NEW d, NEW f \in 0 .. t.seq.face, NEW mbrOnly \in BOOLEAN
  PROVE  SameLinks(t, AddFaceSplit(t, d, f, mbrOnly).t)
<1> DEFINE ring == Ring(t, d)
           shell == RingShell(t, ring)
           ccw == IsCCW(shell)
           box == Box(Range(shell))
           outside == f # Universe /\ ~ccw
           g == NewFace(t)
           grown == InsertFace(t, IF outside THEN t.face[f] ELSE box)
           moved == MoveSides(grown, ring, shell, f, g, outside)
           split == MoveNodes(moved, shell, f, g, outside)
           s == AddFaceSplit(t, d, f, mbrOnly)
<1> HIDE DEF ring, shell, ccw, box
<1>1. grown.edge = t.edge /\ Base(grown) /\ g \in 0 .. grown.seq.face
  <2>1. FacesOnly(t, grown) /\ grown.edge = t.edge /\ grown.seq.face = t.seq.face + 1
    BY InsertFaceFacts
  <2>2. Base(grown)
    <3> HIDE DEF grown
    <3> QED
      BY <2>1, SameDrawingIsSound DEF FacesOnly
  <2> QED
    BY <2>1, <2>2 DEF NewFace, Base, Numbered
<1>2. SameLinks(t, moved)
  <2> HIDE DEF grown, g, outside
  <2> QED
    BY <1>1 DEF SameLinks, MoveSides, Base, Shaped
<1>3. Base(moved)
  <2>1. FacesOnly(grown, moved)
    <3> HIDE DEF grown, g, outside
    <3> QED
      BY <1>1, MoveSidesFacts
  <2> HIDE DEF grown, moved
  <2> QED
    BY <1>1, <2>1, SameDrawingIsSound DEF FacesOnly
<1>4. split.edge = moved.edge
  <2> HIDE DEF moved, g, outside
  <2> QED
    BY <1>3 DEF MoveNodes, SetContainingFace, Base, Shaped
<1>5. SameLinks(t, split)
  <2> HIDE DEF split, moved
  <2> QED
    BY <1>2, <1>4 DEF SameLinks
<1>6. \/ s.t = t
      \/ s.t = Fail(t, "corrupted topology")
      \/ s.t = [t EXCEPT !.face[f] = box]
      \/ s.t = split
  <2> HIDE DEF split
  <2> QED
    BY DEF AddFaceSplit, ring, shell, ccw, box, outside, g, grown, moved, split
<1>7. /\ Fail(t, "corrupted topology").edge = t.edge
      /\ [t EXCEPT !.face[f] = box].edge = t.edge
  BY DEF Fail, Base, Shaped
<1> HIDE DEF split, s
<1> QED
  BY <1>5, <1>6, <1>7 DEF SameLinks, s

\* The split of a face by a new edge
LEMMA SplitFaceLinks ==
  ASSUME NEW t, Base(t), NEW id, NEW f \in 0 .. t.seq.face, NEW modFace \in BOOLEAN
  PROVE  SameLinks(t, SplitFace(t, id, f, modFace))
<1> DEFINE d == IF modFace THEN id ELSE -id
           first == AddFaceSplit(t, d, f, FALSE)
           mbrOnly == modFace /\ first.ret > 0
           second == AddFaceSplit(first.t, -d, f, mbrOnly)
           split == AddFaceSplits(t, d, f, modFace)
           u == SplitFace(t, id, f, modFace)
<1>1. FacesOnly(t, first.t) /\ SameLinks(t, first.t)
  <2> HIDE DEF d
  <2> QED
    BY AddFaceSplitFacts, SplitLinks
<1>2. Base(first.t) /\ f \in 0 .. first.t.seq.face
  <2> HIDE DEF first
  <2> QED
    BY <1>1, SameDrawingIsSound DEF FacesOnly, SameDrawing, Base, Numbered
<1>3. FacesOnly(first.t, second.t) /\ SameLinks(first.t, second.t)
  <2>1. mbrOnly \in BOOLEAN
    OBVIOUS
  <2> HIDE DEF first, mbrOnly
  <2> QED
    BY <1>2, <2>1, AddFaceSplitFacts, SplitLinks
<1>4. split.t = first.t \/ split.t = second.t
  <2> HIDE DEF first, second
  <2> QED
    BY DEF AddFaceSplits, ThenOtherSide, BothSides, first, second
<1> HIDE DEF first, second
<1>5. SameLinks(t, split.t) /\ Shaped(split.t)
  BY <1>1, <1>2, <1>3, <1>4, SameLinksComposes DEF FacesOnly, SameDrawing
<1>6. u.edge = split.t.edge
  <2> HIDE DEF split
  <2> QED
    BY <1>5 DEF SplitFace, ReplaceFace, UpdateTopoGeomFaceSplit, DeleteFaces, Shaped, split
<1> HIDE DEF split, u
<1> QED
  BY <1>5, <1>6 DEF SameLinks, u

-----------------------------------------------------------------------------
(* The edits of EdgeLinking keep the order, if the geometry is right.      *)

\* Dart p goes on to e, and q to -e, which go on to what followed them
TieOf(next, e, p, q, d) ==
  IF d = p THEN e
  ELSE IF d = q THEN -e
  ELSE IF d = -e THEN next[p]
  ELSE IF d = e THEN next[q] ELSE next[d]

\* The darts behind which a new dart d may be tied in at node n
Behind(org, n, d) ==
  IF Around(org, n) = {} THEN {-d} ELSE {c \in DOMAIN org : org[-c] = n}

\* Edge e is new, and tied in at two nodes m and n in the place its azimuths give it
EdgeTied(org, next, az, org2, next2, az2, e, m, n) ==
  /\ e \in Int /\ e # -e /\ e \notin DOMAIN org /\ -e \notin DOMAIN org /\ m # n
  /\ DOMAIN org2 = DOMAIN org \cup {e, -e} /\ org2[e] = m /\ org2[-e] = n
  /\ \A d \in DOMAIN org : org2[d] = org[d] /\ az2[d] = az[d]
  /\ TiedIn(Around(org, m), az2, e, next, next2) /\ TiedIn(Around(org, n), az2, -e, next, next2)
  /\ \A d \in DOMAIN org : org[-d] \notin {m, n} => next2[d] = next[d]

\* Then links turn clockwise, and are those of EdgeLinking
LEMMA TieTurns ==
  ASSUME NEW org, NEW next, NEW az, NEW org2, NEW next2, NEW az2,
         Directed(org, az), Clockwise(org, next, az), Directed(org2, az2),
         NEW e, NEW m, NEW n, EdgeTied(org, next, az, org2, next2, az2, e, m, n)
  PROVE  /\ Clockwise(org2, next2, az2)
         /\ \E p \in Behind(org, m, e), q \in Behind(org, n, -e) :
              \A d \in DOMAIN org2 : next2[d] = TieOf(next, e, p, q, d)
<1> USE DEF EdgeTied
<1> DEFINE D == DOMAIN org
           M == Around(org, m)
           N == Around(org, n)
<1>1. -(-e) = e /\ \A d \in D : d \in Int /\ -d \in D /\ -(-d) = d
  BY DEF Directed
<1>2. e \notin M /\ -e \notin M /\ e \notin N /\ -e \notin N
  BY DEF Around
<1>3. Around(org2, m) = M \cup {e} /\ Around(org2, n) = N \cup {-e}
  BY DEF Around
<1>4. \A k : k \notin {m, n} => Around(org2, k) = Around(org, k)
  BY DEF Around
<1>5. \A k : TurnsAt(Around(org, k), az, next)
  BY TurnsAtNode
<1>6. \A k : \A x \in Around(org, k) : az[x] = az2[x] /\ x \in D
  BY DEF Around
<1>7. Spread(M \cup {e}, az2) /\ Spread(N \cup {-e}, az2)
  <2>1. \A k : Spread(Around(org2, k), az2)
    BY DirectedSpreads
  <2> QED
    BY <1>3, <2>1
<1> HIDE DEF M, N
<1>8. /\ TurnsAt(M \cup {e}, az2, next2)
      /\ M # {} => \E b \in M : /\ next2[-b] = e /\ next2[-e] = next[-b]
                                /\ \A x \in M \ {b} : next2[-x] = next[-x]
  BY <1>2, <1>5, <1>6, <1>7, TieAtNode DEF M
<1>9. /\ TurnsAt(N \cup {-e}, az2, next2)
      /\ N # {} => \E b \in N : /\ next2[-b] = -e /\ next2[-(-e)] = next[-b]
                                /\ \A x \in N \ {b} : next2[-x] = next[-x]
  BY <1>2, <1>5, <1>6, <1>7, TieAtNode DEF N
<1>10. \A k : k \notin {m, n} => TurnsAt(Around(org, k), az2, next2)
  <2> SUFFICES ASSUME NEW k, k \notin {m, n}, NEW x \in Around(org, k)
               PROVE  After(Around(org, k), az2, x, next2[-x])
    BY DEF TurnsAt
  <2>1. x \in D /\ org[x] = k
    BY DEF Around
  <2>2. next2[-x] = next[-x]
    BY <1>1, <2>1
  <2>3. After(Around(org, k), az, x, next[-x])
    BY <1>5 DEF TurnsAt
  <2> QED
    BY <1>6, <2>2, <2>3, SameAzimuthsSameOrder
<1>11. Clockwise(org2, next2, az2)
  BY <1>3, <1>4, <1>8, <1>9, <1>10 DEF Clockwise
<1>12. PICK p \in Behind(org, m, e) :
         /\ next2[p] = e
         /\ p # -e => next2[-e] = next[p]
         /\ \A d \in D \ {p} : org[-d] = m => next2[d] = next[d]
  <2>1. CASE M = {}
    <3>1. next2[-e] = e
      BY <2>1 DEF TiedIn, M
    <3>2. \A d \in D : org[-d] # m
      BY <1>1, <2>1 DEF M, Around
    <3> QED
      BY <2>1, <3>1, <3>2 DEF Behind, M
  <2>2. CASE M # {}
    <3>1. PICK b \in M : /\ next2[-b] = e /\ next2[-e] = next[-b]
                         /\ \A x \in M \ {b} : next2[-x] = next[-x]
      BY <1>8, <2>2
    <3>2. b \in D /\ org[b] = m
      BY DEF M, Around
    <3>3. -b \in Behind(org, m, e)
      BY <1>1, <2>2, <3>2 DEF Behind, M
    <3>4. \A d \in D \ {-b} : org[-d] = m => -d \in M \ {b}
      BY <1>1 DEF M, Around
    <3> QED
      BY <1>1, <3>1, <3>3, <3>4
  <2> QED
    BY <2>1, <2>2
<1>13. PICK q \in Behind(org, n, -e) :
         /\ next2[q] = -e
         /\ q # e => next2[e] = next[q]
         /\ \A d \in D \ {q} : org[-d] = n => next2[d] = next[d]
  <2>1. CASE N = {}
    <3>1. next2[e] = -e
      BY <1>1, <2>1 DEF TiedIn, N
    <3>2. \A d \in D : org[-d] # n
      BY <1>1, <2>1 DEF N, Around
    <3> QED
      BY <1>1, <2>1, <3>1, <3>2 DEF Behind, N
  <2>2. CASE N # {}
    <3>1. PICK b \in N : /\ next2[-b] = -e /\ next2[e] = next[-b]
                         /\ \A x \in N \ {b} : next2[-x] = next[-x]
      BY <1>1, <1>9, <2>2
    <3>2. b \in D /\ org[b] = n
      BY DEF N, Around
    <3>3. -b \in Behind(org, n, -e)
      BY <1>1, <2>2, <3>2 DEF Behind, N
    <3>4. \A d \in D \ {-b} : org[-d] = n => -d \in N \ {b}
      BY <1>1 DEF N, Around
    <3> QED
      BY <1>1, <3>1, <3>3, <3>4
  <2> QED
    BY <2>1, <2>2
<1>14. (p = -e \/ (p \in D /\ org[-p] = m)) /\ (q = e \/ (q \in D /\ org[-q] = n))
  BY <1>1 DEF Behind
<1>15. ASSUME NEW d \in DOMAIN org2 PROVE next2[d] = TieOf(next, e, p, q, d)
  <2>1. CASE d \in {p, q, e, -e}
    BY <1>12, <1>13, <1>14, <2>1 DEF TieOf
  <2>2. CASE d \notin {p, q, e, -e}
    BY <1>12, <1>13, <2>2 DEF TieOf
  <2> QED
    BY <2>1, <2>2
<1> QED
  BY <1>11, <1>15

\* Loop e is new, and tied in at its node n in the two places its azimuths give it
LoopTied(org, next, az, org2, next2, az2, e, n) ==
  /\ e \in Int /\ e # -e /\ e \notin DOMAIN org /\ -e \notin DOMAIN org
  /\ DOMAIN org2 = DOMAIN org \cup {e, -e} /\ org2[e] = n /\ org2[-e] = n
  /\ \A d \in DOMAIN org : org2[d] = org[d] /\ az2[d] = az[d]
  /\ LoopTiedIn(Around(org, n), az2, e, -e, next, next2)
  /\ \A d \in DOMAIN org : org[-d] # n => next2[d] = next[d]

\* Then links turn clockwise, and the edit is one of those EdgeLinking has for loops
LEMMA LoopTurns ==
  ASSUME NEW org, NEW next, NEW az, NEW org2, NEW next2, NEW az2,
         Directed(org, az), Clockwise(org, next, az), Directed(org2, az2),
         NEW e, NEW n, LoopTied(org, next, az, org2, next2, az2, e, n)
  PROVE  /\ Clockwise(org2, next2, az2)
         /\ \/ /\ \A d \in DOMAIN org : org[d] # n
               /\ \A d \in DOMAIN org2 : next2[d] = IF d \in {e, -e} THEN d ELSE next[d]
            \/ \E p \in DOMAIN org, s \in {e, -e} :
                 /\ org[-p] = n
                 /\ \A d \in DOMAIN org2 : next2[d] =
                      IF d = p THEN -s ELSE IF d = -s THEN next[p] ELSE IF d = s THEN s ELSE next[d]
            \/ \E p, q \in DOMAIN org :
                 /\ org[-p] = n /\ org[-q] = n /\ p # q
                 /\ \A d \in DOMAIN org2 : next2[d] = TieOf(next, e, p, q, d)
<1> USE DEF LoopTied
<1> DEFINE D == DOMAIN org
           S == Around(org, n)
<1>1. -(-e) = e /\ \A d \in D : d \in Int /\ -d \in D /\ -(-d) = d
  BY DEF Directed
<1>2. e \notin S /\ -e \notin S
  BY DEF Around
<1>3. Around(org2, n) = S \cup {e, -e}
  BY DEF Around
<1>4. \A k : k # n => Around(org2, k) = Around(org, k)
  BY DEF Around
<1>5. \A k : TurnsAt(Around(org, k), az, next)
  BY TurnsAtNode
<1>6. \A k : \A x \in Around(org, k) : az[x] = az2[x] /\ x \in D
  BY DEF Around
<1>7. Spread(S \cup {e, -e}, az2)
  <2>1. \A k : Spread(Around(org2, k), az2)
    BY DirectedSpreads
  <2> QED
    BY <1>3, <2>1
<1> HIDE DEF S
<1>8. /\ TurnsAt(S \cup {e, -e}, az2, next2)
      /\ \/ S = {} /\ next2[-e] = -e /\ next2[-(-e)] = e
         \/ \E b1, b2 \in S : /\ b1 # b2
                              /\ next2[-b1] = e /\ next2[-e] = next[-b1]
                              /\ next2[-b2] = -e /\ next2[-(-e)] = next[-b2]
                              /\ \A x \in S \ {b1, b2} : next2[-x] = next[-x]
         \/ \E b \in S : /\ next2[-e] = -e /\ next2[-b] = e /\ next2[-(-e)] = next[-b]
                         /\ \A x \in S \ {b} : next2[-x] = next[-x]
         \/ \E b \in S : /\ next2[-(-e)] = e /\ next2[-b] = -e /\ next2[-e] = next[-b]
                         /\ \A x \in S \ {b} : next2[-x] = next[-x]
  <2> DEFINE r == -e
  <2>1. /\ e # r /\ e \notin S /\ r \notin S /\ Spread(S \cup {e, r}, az2)
        /\ \A x \in S : az[x] = az2[x]
        /\ TurnsAt(S, az, next) /\ LoopTiedIn(S, az2, e, r, next, next2)
    BY <1>2, <1>5, <1>6, <1>7 DEF S
  <2> HIDE DEF r
  <2>2. /\ TurnsAt(S \cup {e, r}, az2, next2)
        /\ \/ S = {} /\ next2[-e] = r /\ next2[-r] = e
           \/ \E b1, b2 \in S : /\ b1 # b2
                                /\ next2[-b1] = e /\ next2[-e] = next[-b1]
                                /\ next2[-b2] = r /\ next2[-r] = next[-b2]
                                /\ \A x \in S \ {b1, b2} : next2[-x] = next[-x]
           \/ \E b \in S : /\ next2[-e] = r /\ next2[-b] = e /\ next2[-r] = next[-b]
                           /\ \A x \in S \ {b} : next2[-x] = next[-x]
           \/ \E b \in S : /\ next2[-r] = e /\ next2[-b] = r /\ next2[-e] = next[-b]
                           /\ \A x \in S \ {b} : next2[-x] = next[-x]
    BY <2>1, LoopAtNode
  <2> QED
    BY <2>2 DEF r
<1>9. \A k : k # n => TurnsAt(Around(org, k), az2, next2)
  <2> SUFFICES ASSUME NEW k, k # n, NEW x \in Around(org, k)
               PROVE  After(Around(org, k), az2, x, next2[-x])
    BY DEF TurnsAt
  <2>1. x \in D /\ org[x] = k
    BY DEF Around
  <2>2. next2[-x] = next[-x]
    BY <1>1, <2>1
  <2>3. After(Around(org, k), az, x, next[-x])
    BY <1>5 DEF TurnsAt
  <2> QED
    BY <1>6, <2>2, <2>3, SameAzimuthsSameOrder
<1>10. Clockwise(org2, next2, az2)
  BY <1>3, <1>4, <1>8, <1>9 DEF Clockwise
<1>11. \A b \in S : -b \in D /\ org[-(-b)] = n /\ -b # e /\ -b # -e
  BY <1>1 DEF S, Around
<1>12. \A d \in D : -d \notin S => next2[d] = next[d]
  BY <1>1 DEF S, Around
<1>13. CASE S = {} /\ next2[-e] = -e /\ next2[e] = e
  <2>1. \A d \in D : org[d] # n
    BY <1>13 DEF S, Around
  <2>2. \A d \in DOMAIN org2 : next2[d] = IF d \in {e, -e} THEN d ELSE next[d]
    BY <1>12, <1>13
  <2> QED
    BY <1>10, <2>1, <2>2
<1>14. ASSUME NEW b1 \in S, NEW b2 \in S, b1 # b2,
              next2[-b1] = e, next2[-e] = next[-b1], next2[-b2] = -e, next2[e] = next[-b2],
              \A x \in S \ {b1, b2} : next2[-x] = next[-x]
       PROVE  \E p, q \in D :
                /\ org[-p] = n /\ org[-q] = n /\ p # q
                /\ \A d \in DOMAIN org2 : next2[d] = TieOf(next, e, p, q, d)
  <2>1. b1 \in Int /\ b2 \in Int /\ -b1 # -b2
    BY <1>1, <1>6, <1>14 DEF S
  <2>2. \A d \in D \ {-b1, -b2} : next2[d] = next[d]
    BY <1>1, <1>12, <1>14
  <2>3. \A d \in DOMAIN org2 : next2[d] = TieOf(next, e, -b1, -b2, d)
    BY <1>11, <1>14, <2>1, <2>2 DEF TieOf
  <2> QED
    BY <1>11, <2>1, <2>3
<1>15. ASSUME NEW b \in S, NEW s \in {e, -e},
              next2[s] = s, next2[-b] = -s, next2[-s] = next[-b],
              \A x \in S \ {b} : next2[-x] = next[-x]
       PROVE  \E p \in D, r \in {e, -e} :
                /\ org[-p] = n
                /\ \A d \in DOMAIN org2 : next2[d] =
                     IF d = p THEN -r ELSE IF d = -r THEN next[p] ELSE IF d = r THEN r ELSE next[d]
  <2>1. \A d \in D \ {-b} : next2[d] = next[d]
    BY <1>1, <1>12, <1>15
  <2>2. \A d \in DOMAIN org2 : next2[d] =
          IF d = -b THEN -s ELSE IF d = -s THEN next[-b] ELSE IF d = s THEN s ELSE next[d]
    BY <1>1, <1>11, <1>15, <2>1
  <2> QED
    BY <1>11, <2>2
<1> QED
  BY <1>1, <1>8, <1>10, <1>13, <1>14, <1>15

\* Edge e goes
EdgeRemoved(org, next, az, org2, next2, az2, e) ==
  /\ e \in DOMAIN org /\ DOMAIN org2 = DOMAIN org \ {e, -e}
  /\ \A d \in DOMAIN org2 : /\ org2[d] = org[d] /\ az2[d] = az[d]
                             /\ next2[d] = SkipEdge(next, e, next[d])

\* Then the links of the others turn clockwise
LEMMA RemoveTurns ==
  ASSUME NEW org, NEW next, NEW az, NEW org2, NEW next2, NEW az2,
         Directed(org, az), Clockwise(org, next, az),
         NEW e, EdgeRemoved(org, next, az, org2, next2, az2, e)
  PROVE  Clockwise(org2, next2, az2)
<1> USE DEF EdgeRemoved
<1> SUFFICES ASSUME NEW d \in DOMAIN org2 PROVE TurnsAt(Around(org2, org2[d]), az2, next2)
  BY DEF Clockwise
<1> DEFINE n == org2[d]
           S == Around(org, n)
<1>1. \A x \in DOMAIN org : x \in Int /\ x # 0 /\ -x \in DOMAIN org /\ -(-x) = x
  BY DEF Directed
<1>2. Around(org2, n) = S \ {e, -e}
  BY DEF Around
<1>3. Spread(S, az) /\ TurnsAt(S, az, next)
  BY DirectedSpreads, TurnsAtNode
<1>4. \A x \in S \ {e, -e} : next2[-x] = SkipEdge(next, e, next[-x])
  BY <1>1 DEF Around
<1>5. TurnsAt(S \ {e, -e}, az, next2)
  <2> HIDE DEF S
  <2> QED
    BY <1>1, <1>3, <1>4, RemoveAtNode
<1>6. \A x \in S \ {e, -e} : az[x] = az2[x]
  BY DEF Around
<1> QED
  BY <1>2, <1>5, <1>6, SameAzimuthsSameOrder DEF TurnsAt

\* The halves of an edge take the places of its darts
HalfOf(e, f, g, x) == IF x = e THEN f ELSE IF x = -e THEN -g ELSE x

\* Edge e is split at node n, which is of no other edge, in halves f and g
EdgeSplit(org, next, az, org2, next2, az2, e, f, g, n) ==
  /\ e \in DOMAIN org /\ f \in Int /\ g \in Int /\ f # g /\ f # -g
  /\ \A x \in {f, -f} : x \notin DOMAIN org \ {e, -e}
  /\ g \notin DOMAIN org /\ -g \notin DOMAIN org
  /\ \A x \in DOMAIN org : org[x] # n
  /\ DOMAIN org2 = (DOMAIN org \ {e, -e}) \cup {f, -f, g, -g}
  /\ org2[f] = org[e] /\ az2[f] = az[e] /\ org2[-g] = org[-e] /\ az2[-g] = az[-e]
  /\ org2[g] = n /\ org2[-f] = n
  /\ \A x \in DOMAIN org \ {e, -e} : org2[x] = org[x] /\ az2[x] = az[x]
  /\ next2[f] = g /\ next2[-g] = -f
  /\ next2[g] = HalfOf(e, f, g, next[e]) /\ next2[-f] = HalfOf(e, f, g, next[-e])
  /\ \A x \in DOMAIN org \ {e, -e} : next2[x] = HalfOf(e, f, g, next[x])

\* Then links turn clockwise
LEMMA SplitTurns ==
  ASSUME NEW org, NEW next, NEW az, NEW org2, NEW next2, NEW az2,
         Directed(org, az), Clockwise(org, next, az), Directed(org2, az2),
         NEW e, NEW f, NEW g, NEW n, EdgeSplit(org, next, az, org2, next2, az2, e, f, g, n)
  PROVE  Clockwise(org2, next2, az2)
<1> USE DEF EdgeSplit
<1> DEFINE D == DOMAIN org
<1>1. \A x \in D : x \in Int /\ x # 0 /\ -x \in D /\ -(-x) = x
  BY DEF Directed
<1>2. \A x \in DOMAIN org2 : x \in Int /\ x # 0
  BY DEF Directed
<1>3. f # 0 /\ g # 0 /\ f # -f /\ g # -g /\ -(-f) = f /\ -(-g) = g /\ e # -e
  BY <1>1, <1>2
<1> SUFFICES ASSUME NEW d \in DOMAIN org2 PROVE TurnsAt(Around(org2, org2[d]), az2, next2)
  BY DEF Clockwise
<1>4. CASE org2[d] = n
  <2>1. Around(org2, n) = {g, -f}
    BY <1>1, <1>3 DEF Around
  <2>2. az2[g] \in 0 .. 7 /\ az2[-f] \in 0 .. 7 /\ az2[g] # az2[-f] /\ g # -f
    BY <1>3 DEF Directed
  <2>3. next2[-g] = -f /\ next2[-(-f)] = g
    BY <1>3
  <2> QED
    BY <1>4, <2>1, <2>2, <2>3 DEF TurnsAt, After, Gap
<1>5. CASE org2[d] # n
  <2> DEFINE k == org2[d]
             S == Around(org, k)
             r == [x \in S |-> HalfOf(e, f, g, x)]
  <2>1. TurnsAt(S, az, next)
    BY TurnsAtNode
  <2>2. \A x \in S : x \in D /\ org[x] = k
    BY DEF Around
  <2>3. Around(org2, k) = {r[x] : x \in S}
    <3>1. \A x \in S : HalfOf(e, f, g, x) \in Around(org2, k)
      BY <1>1, <1>3, <2>2 DEF HalfOf, Around
    <3>2. \A y \in Around(org2, k) : \E x \in S : y = HalfOf(e, f, g, x)
      <4> SUFFICES ASSUME NEW y \in Around(org2, k) PROVE \E x \in S : y = HalfOf(e, f, g, x)
        OBVIOUS
      <4>1. y \in DOMAIN org2 /\ org2[y] = k
        BY DEF Around
      <4>2. CASE y = f
        <5>1. e \in S /\ HalfOf(e, f, g, e) = f
          BY <4>1, <4>2 DEF Around, HalfOf
        <5> QED
          BY <4>2, <5>1
      <4>3. CASE y = -g
        <5>1. -e \in S /\ HalfOf(e, f, g, -e) = -g
          BY <1>1, <1>3, <4>1, <4>3 DEF Around, HalfOf
        <5> QED
          BY <4>3, <5>1
      <4>4. CASE y \in D \ {e, -e}
        <5>1. y \in S /\ HalfOf(e, f, g, y) = y
          BY <4>1, <4>4 DEF Around, HalfOf
        <5> QED
          BY <5>1
      <4> QED
        BY <1>5, <4>1, <4>2, <4>3, <4>4
    <3> HIDE DEF S
    <3> QED
      BY <3>1, <3>2
  <2>4. \A x \in S : az2[r[x]] = az[x] /\ next2[-r[x]] = r[next[-x]]
    <3> SUFFICES ASSUME NEW x \in S PROVE az2[r[x]] = az[x] /\ next2[-r[x]] = r[next[-x]]
      OBVIOUS
    <3>1. next[-x] \in S
      BY <2>1 DEF TurnsAt, After
    <3>2. r[next[-x]] = HalfOf(e, f, g, next[-x]) /\ r[x] = HalfOf(e, f, g, x)
      BY <3>1
    <3> HIDE DEF r, S
    <3>3. CASE x = e
      BY <3>2, <3>3 DEF HalfOf
    <3>4. CASE x = -e
      BY <1>1, <1>3, <3>2, <3>4 DEF HalfOf
    <3>5. CASE x \notin {e, -e}
      <4>1. -x \in D \ {e, -e} /\ x \in D \ {e, -e}
        BY <1>1, <2>2, <3>5
      <4> QED
        BY <3>2, <3>5, <4>1 DEF HalfOf
    <3> QED
      BY <3>3, <3>4, <3>5
  <2>5. TurnsAt({r[x] : x \in S}, az2, next2)
    <3> HIDE DEF r, S
    <3> QED
      BY <2>1, <2>4, RenameAtNode
  <2> QED
    BY <2>3, <2>5
<1> QED
  BY <1>4, <1>5

\* The darts of the first and the last of two edges become those of the whole
WholeOf(c, d, h, x) == IF x = c THEN h ELSE IF x = -d THEN -h ELSE x

\* Darts c and d meet at node n of no other edge and become dart h
EdgesHealed(org, next, az, org2, next2, az2, c, d, h, n) ==
  /\ c \in DOMAIN org /\ d \in DOMAIN org /\ c # d /\ c # -d /\ Around(org, n) = {-c, d}
  /\ h \in Int /\ (h = c \/ (h \notin DOMAIN org /\ -h \notin DOMAIN org))
  /\ DOMAIN org2 = (DOMAIN org \ {c, -c, d, -d}) \cup {h, -h}
  /\ org2[h] = org[c] /\ az2[h] = az[c] /\ org2[-h] = org[-d] /\ az2[-h] = az[-d]
  /\ \A x \in DOMAIN org \ {c, -c, d, -d} : org2[x] = org[x] /\ az2[x] = az[x]
  /\ next2[h] = WholeOf(c, d, h, next[d]) /\ next2[-h] = WholeOf(c, d, h, next[-c])
  /\ \A x \in DOMAIN org \ {c, -c, d, -d} : next2[x] = WholeOf(c, d, h, next[x])

\* Then links turn clockwise, and did at n
LEMMA HealTurns ==
  ASSUME NEW org, NEW next, NEW az, NEW org2, NEW next2, NEW az2,
         Directed(org, az), Clockwise(org, next, az), Directed(org2, az2),
         NEW c, NEW d, NEW h, NEW n, EdgesHealed(org, next, az, org2, next2, az2, c, d, h, n)
  PROVE  /\ Clockwise(org2, next2, az2)
         /\ next[c] = d /\ next[-d] = -c
<1> USE DEF EdgesHealed
<1> DEFINE D == DOMAIN org
<1>1. \A x \in D : x \in Int /\ x # 0 /\ -x \in D /\ -(-x) = x
  BY DEF Directed
<1>2. h # 0 /\ h # -h /\ -(-h) = h
  BY DEF Directed
<1>3. org[-c] = n /\ org[d] = n /\ org[c] # n /\ org[-d] # n
  <2>1. org[-c] = n /\ org[d] = n
    BY DEF Around
  <2>2. c \notin Around(org, n) /\ -d \notin Around(org, n)
    BY <1>1
  <2> QED
    BY <1>1, <2>1, <2>2 DEF Around
<1>4. next[c] = d /\ next[-d] = -c
  <2>1. TurnsAt({-c, d}, az, next) /\ Spread({-c, d}, az)
    BY TurnsAtNode, DirectedSpreads
  <2>2. After({-c, d}, az, -c, next[c]) /\ After({-c, d}, az, d, next[-d])
    BY <1>1, <2>1 DEF TurnsAt
  <2>3. next[c] # -c
    BY <1>1, <2>1, <2>2, OthersComeFirst
  <2>4. next[-d] # d
    BY <1>1, <2>1, <2>2, OthersComeFirst
  <2> QED
    BY <2>2, <2>3, <2>4 DEF After
<1>5. \A x \in DOMAIN org2 : org2[x] # n
  <2>1. \A x \in D \ {c, -c, d, -d} : org[x] # n
    BY DEF Around
  <2> QED
    BY <1>3, <2>1
<1> SUFFICES ASSUME NEW b \in DOMAIN org2 PROVE TurnsAt(Around(org2, org2[b]), az2, next2)
  BY <1>4 DEF Clockwise
<1> DEFINE k == org2[b]
           S == Around(org, k)
           r == [x \in S |-> WholeOf(c, d, h, x)]
<1>6. TurnsAt(S, az, next)
  BY TurnsAtNode
<1>7. \A x \in S : x \in D /\ org[x] = k /\ x # -c /\ x # d
  BY <1>3, <1>5 DEF Around
<1>8. Around(org2, k) = {r[x] : x \in S}
  <2>1. \A x \in S : WholeOf(c, d, h, x) \in Around(org2, k)
    <3> SUFFICES ASSUME NEW x \in S PROVE WholeOf(c, d, h, x) \in Around(org2, k)
      OBVIOUS
    <3>1. CASE x = c
      BY <1>7, <3>1 DEF WholeOf, Around
    <3>2. CASE x = -d
      BY <1>1, <1>7, <3>2 DEF WholeOf, Around
    <3>3. CASE x # c /\ x # -d
      BY <1>7, <3>3 DEF WholeOf, Around
    <3> QED
      BY <3>1, <3>2, <3>3
  <2>2. \A y \in Around(org2, k) : \E x \in S : y = WholeOf(c, d, h, x)
    <3> SUFFICES ASSUME NEW y \in Around(org2, k) PROVE \E x \in S : y = WholeOf(c, d, h, x)
      OBVIOUS
    <3>1. y \in DOMAIN org2 /\ org2[y] = k
      BY DEF Around
    <3>2. CASE y = h
      <4>1. c \in S /\ WholeOf(c, d, h, c) = h
        BY <3>1, <3>2 DEF Around, WholeOf
      <4> QED
        BY <3>2, <4>1
    <3>3. CASE y = -h
      <4>1. -d \in S /\ WholeOf(c, d, h, -d) = -h
        BY <1>1, <3>1, <3>3 DEF Around, WholeOf
      <4> QED
        BY <3>3, <4>1
    <3>4. CASE y \in D \ {c, -c, d, -d}
      <4>1. y \in S /\ WholeOf(c, d, h, y) = y
        BY <3>1, <3>4 DEF Around, WholeOf
      <4> QED
        BY <4>1
    <3> QED
      BY <3>1, <3>2, <3>3, <3>4
  <2> HIDE DEF S
  <2> QED
    BY <2>1, <2>2
<1>9. \A x \in S : az2[r[x]] = az[x] /\ next2[-r[x]] = r[next[-x]]
  <2> SUFFICES ASSUME NEW x \in S PROVE az2[r[x]] = az[x] /\ next2[-r[x]] = r[next[-x]]
    OBVIOUS
  <2>1. next[-x] \in S
    BY <1>6 DEF TurnsAt, After
  <2>2. r[next[-x]] = WholeOf(c, d, h, next[-x]) /\ r[x] = WholeOf(c, d, h, x)
    BY <2>1
  <2> HIDE DEF r, S
  <2>3. CASE x = c
    BY <2>2, <2>3 DEF WholeOf
  <2>4. CASE x = -d
    BY <1>1, <1>2, <2>2, <2>4 DEF WholeOf
  <2>5. CASE x \notin {c, -d}
    <3>1. -x \in D \ {c, -c, d, -d} /\ x \in D \ {c, -c, d, -d}
      BY <1>1, <1>7, <2>5
    <3> QED
      BY <2>2, <2>5, <3>1 DEF WholeOf
  <2> QED
    BY <2>3, <2>4, <2>5
<1>10. TurnsAt({r[x] : x \in S}, az2, next2)
  <2> HIDE DEF r, S
  <2> QED
    BY <1>6, <1>9, RenameAtNode
<1> QED
  BY <1>8, <1>10

-----------------------------------------------------------------------------
(* The steps of the calls, as steps of EdgeLinking.                        *)

\* The drawing is directed before and after a call
LEMMA CallsKeepDirected ==
  ASSUME PlanarInv, PlanarInv'
  PROVE  /\ Directed(Origins(Tables), Azimuths(Tables))
         /\ Directed(Origins(Tables)', Azimuths(Tables)')
BY DrawingIsDirected DEF PlanarInv, Inv, Sound

\* The variables of EdgeLinking are those functions
LEMMA LinkingShows ==
  /\ Linking!Darts = DOMAIN Origins(Tables)
  /\ \A n : Linking!Bare(n) <=> Around(Origins(Tables), n) = {}
  /\ \A n : Linking!Corners(n) = {d \in DOMAIN Origins(Tables) : Origins(Tables)[-d] = n}
BY DEF Linking!Darts, Linking!Bare, Linking!Corners, Origins, Around

\* A call that ties a new edge e in, between nodes m and n
LEMMA TieAdvances ==
  ASSUME PlanarInv, PlanarInv', Turning(Tables), NEW u, Finish(u), u.err = "done",
         NEW e, e = seq.edge + 1, u.seq.edge = e, u.seq.node = seq.node,
         NEW m \in DOMAIN node, NEW n \in DOMAIN node,
         EdgeTied(Origins(Tables), Follows(Tables), Azimuths(Tables),
                  Origins(u), Follows(u), Azimuths(u), e, m, n)
  PROVE  Advances
<1> DEFINE org == Origins(Tables)
           next == Follows(Tables)
           az == Azimuths(Tables)
           org2 == Origins(u)
           next2 == Follows(u)
           az2 == Azimuths(u)
<1>1. org' = org2 /\ next' = next2 /\ az' = az2 /\ u.seq.node <= MaxNode /\ u.seq.edge <= MaxEdge
  BY FinishShows
<1>2. Directed(org, az) /\ Directed(org2, az2) /\ Clockwise(org, next, az)
  BY <1>1, CallsKeepDirected DEF Turning
<1>3. e \in 1 .. MaxEdge /\ m \in 1 .. MaxNode /\ n \in 1 .. MaxNode
  <2>1. seq.edge \in Nat /\ seq.node \in Nat /\ DOMAIN node \subseteq 1 .. seq.node
    BY TablesFacts DEF PlanarInv, Inv, Sound, Base, Numbered
  <2> QED
    BY <1>1, <2>1, Bounds
<1>4. EdgeTied(org, next, az, org2, next2, az2, e, m, n)
  OBVIOUS
<1>5. org2 = [d \in DOMAIN org2 |-> org2[d]] /\ next2 = [d \in DOMAIN org2 |-> next2[d]]
  BY DEF Origins, Follows
<1> HIDE DEF org, next, az, org2, next2, az2
<1>6. /\ Clockwise(org2, next2, az2)
      /\ \E p \in Behind(org, m, e), q \in Behind(org, n, -e) :
           \A d \in DOMAIN org2 : next2[d] = TieOf(next, e, p, q, d)
  BY <1>2, <1>4, TieTurns
<1>7. PICK p \in Behind(org, m, e), q \in Behind(org, n, -e) :
        \A d \in DOMAIN org2 : next2[d] = TieOf(next, e, p, q, d)
  BY <1>6
<1>8. /\ org2 = [d \in DOMAIN org \cup {e, -e} |->
                    IF d = e THEN m ELSE IF d = -e THEN n ELSE org[d]]
      /\ next2 = [d \in DOMAIN org \cup {e, -e} |-> TieOf(next, e, p, q, d)]
  <2>1. DOMAIN org2 = DOMAIN org \cup {e, -e}
    BY <1>4 DEF EdgeTied
  <2>2. \A d \in DOMAIN org2 : org2[d] = IF d = e THEN m ELSE IF d = -e THEN n ELSE org[d]
    BY <1>4 DEF EdgeTied
  <2>3. org2 = [d \in DOMAIN org2 |-> IF d = e THEN m ELSE IF d = -e THEN n ELSE org[d]]
    BY <1>5, <2>2, Zenon
  <2>4. next2 = [d \in DOMAIN org2 |-> TieOf(next, e, p, q, d)]
    BY <1>5, <1>7, Zenon
  <2> QED
    BY <2>1, <2>3, <2>4
<1>9. Linking!Tie(e, m, n, p, q)
  BY <1>1, <1>8, LinkingShows DEF Linking!Tie, TieOf, org, next
<1>10. Linking!AddEdge(e, m, n)
  <2>1. Linking!Free(e) /\ m # n
    BY <1>3, <1>4, LinkingShows DEF Linking!Free, org, EdgeTied
  <2>2. /\ p \in IF Linking!Bare(m) THEN {-e} ELSE Linking!Corners(m)
        /\ q \in IF Linking!Bare(n) THEN {e} ELSE Linking!Corners(n)
    BY <1>3, LinkingShows DEF Behind, org
  <2> QED
    BY <1>9, <2>1, <2>2 DEF Linking!AddEdge
<1>11. Linking!Next
  BY <1>3, <1>10 DEF Linking!Next
<1>12. Turning(Tables)'
  BY <1>1, <1>6 DEF Turning, org, next, az
<1> QED
  BY <1>11, <1>12 DEF Advances

\* A call that ties a new loop e in at node n
LEMMA LoopAdvances ==
  ASSUME PlanarInv, PlanarInv', Turning(Tables), NEW u, Finish(u), u.err = "done",
         NEW e, e = seq.edge + 1, u.seq.edge = e, u.seq.node = seq.node, NEW n \in DOMAIN node,
         LoopTied(Origins(Tables), Follows(Tables), Azimuths(Tables),
                  Origins(u), Follows(u), Azimuths(u), e, n)
  PROVE  Advances
<1> DEFINE org == Origins(Tables)
           next == Follows(Tables)
           az == Azimuths(Tables)
           org2 == Origins(u)
           next2 == Follows(u)
           az2 == Azimuths(u)
           all == DOMAIN org \cup {e, -e}
<1>1. org' = org2 /\ next' = next2 /\ az' = az2 /\ u.seq.node <= MaxNode /\ u.seq.edge <= MaxEdge
  BY FinishShows
<1>2. Directed(org, az) /\ Directed(org2, az2) /\ Clockwise(org, next, az)
  BY <1>1, CallsKeepDirected DEF Turning
<1>3. e \in 1 .. MaxEdge /\ n \in 1 .. MaxNode
  <2>1. seq.edge \in Nat /\ seq.node \in Nat /\ DOMAIN node \subseteq 1 .. seq.node
    BY TablesFacts DEF PlanarInv, Inv, Sound, Base, Numbered
  <2> QED
    BY <1>1, <2>1, Bounds
<1>4. LoopTied(org, next, az, org2, next2, az2, e, n)
  OBVIOUS
<1>5. /\ org2 = [d \in DOMAIN org2 |-> org2[d]] /\ next2 = [d \in DOMAIN org2 |-> next2[d]]
      /\ DOMAIN next = DOMAIN org
  BY DEF Origins, Follows
<1>6. /\ Linking!Darts = DOMAIN org
      /\ \A k : Linking!Bare(k) <=> Around(org, k) = {}
      /\ \A k : Linking!Corners(k) = {d \in DOMAIN org : org[-d] = k}
  BY LinkingShows
<1>7. Linking!Free(e)
  BY <1>3, <1>4, <1>6 DEF Linking!Free, LoopTied
<1> HIDE DEF org, next, az, org2, next2, az2
<1>8. /\ Clockwise(org2, next2, az2)
      /\ \/ /\ \A d \in DOMAIN org : org[d] # n
            /\ \A d \in DOMAIN org2 : next2[d] = IF d \in {e, -e} THEN d ELSE next[d]
         \/ \E p \in DOMAIN org, s \in {e, -e} :
              /\ org[-p] = n
              /\ \A d \in DOMAIN org2 : next2[d] =
                   IF d = p THEN -s ELSE IF d = -s THEN next[p] ELSE IF d = s THEN s ELSE next[d]
         \/ \E p, q \in DOMAIN org :
              /\ org[-p] = n /\ org[-q] = n /\ p # q
              /\ \A d \in DOMAIN org2 : next2[d] = TieOf(next, e, p, q, d)
  BY <1>2, <1>4, LoopTurns
<1>9. org2 = [d \in all |-> IF d \in {e, -e} THEN n ELSE org[d]] /\ DOMAIN org2 = all
  <2>1. DOMAIN org2 = all
    BY <1>4 DEF LoopTied
  <2>2. \A d \in DOMAIN org2 : org2[d] = IF d \in {e, -e} THEN n ELSE org[d]
    BY <1>4 DEF LoopTied
  <2>3. org2 = [d \in DOMAIN org2 |-> IF d \in {e, -e} THEN n ELSE org[d]]
    BY <1>5, <2>2, Zenon
  <2> QED
    BY <2>1, <2>3
<1>10. ASSUME \A d \in DOMAIN org : org[d] # n,
              \A d \in DOMAIN org2 : next2[d] = IF d \in {e, -e} THEN d ELSE next[d]
       PROVE  Linking!Next
  <2>1. next2 = [d \in DOMAIN org2 |-> IF d \in {e, -e} THEN d ELSE next[d]]
    BY <1>5, <1>10, Zenon
  <2>2. next2 = [d \in all |-> IF d \in {e, -e} THEN d ELSE next[d]]
    BY <1>9, <2>1
  <2>3. Linking!Bare(n)
    BY <1>6, <1>10 DEF Around
  <2>4. Linking!AddEmptyLoop(e, n)
    BY <1>1, <1>6, <1>7, <1>9, <2>2, <2>3 DEF Linking!AddEmptyLoop, org, next
  <2> QED
    BY <1>3, <2>4 DEF Linking!Next
<1>11. ASSUME NEW p \in DOMAIN org, NEW s \in {e, -e}, org[-p] = n,
              \A d \in DOMAIN org2 : next2[d] =
                IF d = p THEN -s ELSE IF d = -s THEN next[p] ELSE IF d = s THEN s ELSE next[d]
       PROVE  Linking!Next
  <2>1. next2 = [d \in DOMAIN org2 |->
                   IF d = p THEN -s ELSE IF d = -s THEN next[p] ELSE IF d = s THEN s ELSE next[d]]
    BY <1>5, <1>11, Zenon
  <2>2. next2 = [d \in all |->
                   IF d = p THEN -s ELSE IF d = -s THEN next[p] ELSE IF d = s THEN s ELSE next[d]]
    BY <1>9, <2>1
  <2>3. p \in Linking!Corners(n)
    BY <1>6, <1>11
  <2>4. Linking!AddEmptyLoop(e, n)
    BY <1>1, <1>6, <1>7, <1>9, <2>2, <2>3 DEF Linking!AddEmptyLoop, org, next
  <2> QED
    BY <1>3, <2>4 DEF Linking!Next
<1>12. ASSUME NEW p \in DOMAIN org, NEW q \in DOMAIN org, org[-p] = n, org[-q] = n, p # q,
              \A d \in DOMAIN org2 : next2[d] = TieOf(next, e, p, q, d)
       PROVE  Linking!Next
  <2>1. next2 = [d \in DOMAIN org2 |-> TieOf(next, e, p, q, d)]
    BY <1>5, <1>12, Zenon
  <2>2. next2 = [d \in all |-> TieOf(next, e, p, q, d)]
    BY <1>9, <2>1
  <2>3. p \in Linking!Corners(n) /\ q \in Linking!Corners(n)
    BY <1>6, <1>12
  <2>4. org2 = [d \in all |-> IF d = e THEN n ELSE IF d = -e THEN n ELSE org[d]]
    BY <1>9
  <2>5. Linking!Tie(e, n, n, p, q)
    BY <1>1, <2>2, <2>4, LinkingShows DEF Linking!Tie, TieOf, org, next
  <2>6. Linking!AddLoop(e, n)
    BY <1>7, <1>12, <2>3, <2>5 DEF Linking!AddLoop
  <2> QED
    BY <1>3, <2>6 DEF Linking!Next
<1>13. Linking!Next
  BY <1>8, <1>10, <1>11, <1>12
<1>14. Turning(Tables)'
  BY <1>1, <1>8 DEF Turning, org, next, az
<1> QED
  BY <1>13, <1>14 DEF Advances

\* A call that removes edge e
LEMMA RemoveAdvances ==
  ASSUME PlanarInv, PlanarInv', Turning(Tables), NEW u, Finish(u), u.err = "done", NEW e, e > 0,
         EdgeRemoved(Origins(Tables), Follows(Tables), Azimuths(Tables),
                     Origins(u), Follows(u), Azimuths(u), e),
         e \in 1 .. MaxEdge
  PROVE  Advances
<1> DEFINE org == Origins(Tables)
           next == Follows(Tables)
           az == Azimuths(Tables)
           org2 == Origins(u)
           next2 == Follows(u)
           az2 == Azimuths(u)
           all == DOMAIN org \ {e, -e}
<1>1. org' = org2 /\ next' = next2 /\ az' = az2
  BY FinishShows
<1>2. Directed(org, az) /\ Clockwise(org, next, az)
  BY CallsKeepDirected DEF Turning
<1>3. EdgeRemoved(org, next, az, org2, next2, az2, e)
  OBVIOUS
<1>4. org2 = [d \in DOMAIN org2 |-> org2[d]] /\ next2 = [d \in DOMAIN org2 |-> next2[d]]
  BY DEF Origins, Follows
<1> HIDE DEF org, next, az, org2, next2, az2
<1>5. Clockwise(org2, next2, az2)
  BY <1>2, <1>3, RemoveTurns
<1>6. DOMAIN org2 = all /\ e \in DOMAIN org
  BY <1>3 DEF EdgeRemoved
<1>7. org2 = [d \in all |-> org[d]]
  <2>1. \A d \in DOMAIN org2 : org2[d] = org[d]
    BY <1>3 DEF EdgeRemoved
  <2>2. org2 = [d \in DOMAIN org2 |-> org[d]]
    BY <1>4, <2>1, Zenon
  <2> QED
    BY <1>6, <2>2
<1>8. next2 = [d \in all |-> SkipEdge(next, e, next[d])]
  <2>1. \A d \in DOMAIN org2 : next2[d] = SkipEdge(next, e, next[d])
    BY <1>3 DEF EdgeRemoved
  <2>2. next2 = [d \in DOMAIN org2 |-> SkipEdge(next, e, next[d])]
    BY <1>4, <2>1, Zenon
  <2> QED
    BY <1>6, <2>2
<1>9. Linking!Darts = DOMAIN org
  BY LinkingShows DEF org
<1>10. Linking!RemoveEdge(e)
  BY <1>1, <1>6, <1>7, <1>8, <1>9 DEF Linking!RemoveEdge, SkipEdge, org, next
<1>11. Linking!Next
  BY <1>10 DEF Linking!Next
<1>12. Turning(Tables)'
  BY <1>1, <1>5 DEF Turning, org, next, az
<1> QED
  BY <1>11, <1>12 DEF Advances

\* A call that splits edge e in halves f and g at the new node n
LEMMA SplitAdvances ==
  ASSUME PlanarInv, PlanarInv', Turning(Tables), NEW u, Finish(u), u.err = "done",
         NEW e, NEW f, NEW g, NEW n, n \in 1 .. MaxNode,
         e \in 1 .. MaxEdge, f \in 1 .. MaxEdge, g \in 1 .. MaxEdge,
         f = e \/ f \notin DOMAIN Origins(Tables),
         EdgeSplit(Origins(Tables), Follows(Tables), Azimuths(Tables),
                   Origins(u), Follows(u), Azimuths(u), e, f, g, n)
  PROVE  Advances
<1> DEFINE org == Origins(Tables)
           next == Follows(Tables)
           az == Azimuths(Tables)
           org2 == Origins(u)
           next2 == Follows(u)
           az2 == Azimuths(u)
           all == (DOMAIN org \ {e, -e}) \cup {f, -f, g, -g}
           Half(x) == HalfOf(e, f, g, x)
<1>1. org' = org2 /\ next' = next2 /\ az' = az2
  BY FinishShows
<1>2. Directed(org, az) /\ Directed(org2, az2) /\ Clockwise(org, next, az)
  BY <1>1, CallsKeepDirected DEF Turning
<1>3. EdgeSplit(org, next, az, org2, next2, az2, e, f, g, n) /\ (f = e \/ f \notin DOMAIN org)
  OBVIOUS
<1>4. org2 = [d \in DOMAIN org2 |-> org2[d]] /\ next2 = [d \in DOMAIN org2 |-> next2[d]]
  BY DEF Origins, Follows
<1> HIDE DEF org, next, az, org2, next2, az2
<1>5. Clockwise(org2, next2, az2)
  BY <1>2, <1>3, SplitTurns
<1>6. /\ DOMAIN org2 = all /\ e \in DOMAIN org /\ g \notin DOMAIN org /\ f # g /\ f # -g
      /\ \A x \in DOMAIN org : org[x] # n
  BY <1>3 DEF EdgeSplit
<1>7. org2 = [d \in all |-> IF d = f THEN org[e]
                            ELSE IF d = -g THEN org[-e]
                            ELSE IF d \in {g, -f} THEN n ELSE org[d]]
  <2>1. \A d \in DOMAIN org2 : org2[d] = IF d = f THEN org[e]
                                         ELSE IF d = -g THEN org[-e]
                                         ELSE IF d \in {g, -f} THEN n ELSE org[d]
    BY <1>3 DEF EdgeSplit
  <2>2. org2 = [d \in DOMAIN org2 |-> IF d = f THEN org[e]
                                      ELSE IF d = -g THEN org[-e]
                                      ELSE IF d \in {g, -f} THEN n ELSE org[d]]
    BY <1>4, <2>1, Zenon
  <2> QED
    BY <1>6, <2>2
<1>8. next2 = [d \in all |-> IF d = f THEN g
                             ELSE IF d = -g THEN -f
                             ELSE IF d = g THEN Half(next[e])
                             ELSE IF d = -f THEN Half(next[-e]) ELSE Half(next[d])]
  <2>1. \A d \in DOMAIN org2 : next2[d] = IF d = f THEN g
                                          ELSE IF d = -g THEN -f
                                          ELSE IF d = g THEN Half(next[e])
                                          ELSE IF d = -f THEN Half(next[-e]) ELSE Half(next[d])
    <3> HIDE DEF Half
    <3> SUFFICES ASSUME NEW d \in DOMAIN org2
                 PROVE  next2[d] = IF d = f THEN g
                                   ELSE IF d = -g THEN -f
                                   ELSE IF d = g THEN Half(next[e])
                                   ELSE IF d = -f THEN Half(next[-e]) ELSE Half(next[d])
      OBVIOUS
    <3>1. CASE d \in {f, -g}
      BY <1>3, <3>1 DEF EdgeSplit
    <3>2. CASE d \notin {f, -g}
      <4>1. next2[g] = Half(next[e]) /\ next2[-f] = Half(next[-e])
        BY <1>3 DEF EdgeSplit, Half
      <4>2. \A x \in DOMAIN org \ {e, -e} : next2[x] = Half(next[x])
        BY <1>3 DEF EdgeSplit, Half
      <4> QED
        BY <1>6, <3>2, <4>1, <4>2
    <3> QED
      BY <3>1, <3>2
  <2>2. next2 = [d \in DOMAIN org2 |-> IF d = f THEN g
                                       ELSE IF d = -g THEN -f
                                       ELSE IF d = g THEN Half(next[e])
                                       ELSE IF d = -f THEN Half(next[-e]) ELSE Half(next[d])]
    <3> HIDE DEF Half
    <3> QED
      BY <1>4, <2>1, Zenon
  <2> QED
    BY <1>6, <2>2
<1>9. Linking!Darts = DOMAIN org /\ Linking!Bare(n)
  <2>1. Linking!Darts = DOMAIN org /\ (Linking!Bare(n) <=> Around(org, n) = {})
    BY LinkingShows DEF org
  <2> QED
    BY <1>6, <2>1 DEF Around
<1>10. Linking!SplitEdge(e, f, g, n)
  <2>1. (f = e \/ Linking!Free(f)) /\ Linking!Free(g)
    BY <1>3, <1>6, <1>9 DEF Linking!Free
  <2> QED
    BY <1>1, <1>6, <1>7, <1>8, <1>9, <2>1 DEF Linking!SplitEdge, HalfOf, org, next
<1>11. Linking!Next
  BY <1>10 DEF Linking!Next
<1>12. Turning(Tables)'
  BY <1>1, <1>5 DEF Turning, org, next, az
<1> QED
  BY <1>11, <1>12 DEF Advances

\* A call that heals darts c and d, that meet at node n, to dart h
LEMMA HealAdvances ==
  ASSUME PlanarInv, PlanarInv', Turning(Tables), NEW u, Finish(u), u.err = "done",
         NEW c, NEW d, NEW h, NEW n, h \in 1 .. MaxEdge \/ -h \in 1 .. MaxEdge,
         EdgesHealed(Origins(Tables), Follows(Tables), Azimuths(Tables),
                     Origins(u), Follows(u), Azimuths(u), c, d, h, n)
  PROVE  Advances
<1> DEFINE org == Origins(Tables)
           next == Follows(Tables)
           az == Azimuths(Tables)
           org2 == Origins(u)
           next2 == Follows(u)
           az2 == Azimuths(u)
           all == (DOMAIN org \ {c, -c, d, -d}) \cup {h, -h}
           Whole(x) == WholeOf(c, d, h, x)
<1>1. org' = org2 /\ next' = next2 /\ az' = az2
  BY FinishShows
<1>2. Directed(org, az) /\ Directed(org2, az2) /\ Clockwise(org, next, az)
  BY <1>1, CallsKeepDirected DEF Turning
<1>3. EdgesHealed(org, next, az, org2, next2, az2, c, d, h, n)
  OBVIOUS
<1>4. org2 = [x \in DOMAIN org2 |-> org2[x]] /\ next2 = [x \in DOMAIN org2 |-> next2[x]]
  BY DEF Origins, Follows
<1> HIDE DEF org, next, az, org2, next2, az2
<1>5. Clockwise(org2, next2, az2) /\ next[c] = d /\ next[-d] = -c
  BY <1>2, <1>3, HealTurns
<1>6. /\ DOMAIN org2 = all /\ c \in DOMAIN org /\ d \in DOMAIN org /\ c # d /\ c # -d
      /\ h \in Int /\ (h = c \/ (h \notin DOMAIN org /\ -h \notin DOMAIN org))
  BY <1>3 DEF EdgesHealed
<1>7. org2 = [x \in all |-> IF x = h THEN org[c] ELSE IF x = -h THEN org[-d] ELSE org[x]]
  <2>1. \A x \in DOMAIN org2 :
          org2[x] = IF x = h THEN org[c] ELSE IF x = -h THEN org[-d] ELSE org[x]
    BY <1>3 DEF EdgesHealed
  <2>2. org2 = [x \in DOMAIN org2 |->
                  IF x = h THEN org[c] ELSE IF x = -h THEN org[-d] ELSE org[x]]
    BY <1>4, <2>1, Zenon
  <2> QED
    BY <1>6, <2>2
<1>8. next2 = [x \in all |-> IF x = h THEN Whole(next[d])
                             ELSE IF x = -h THEN Whole(next[-c]) ELSE Whole(next[x])]
  <2> HIDE DEF Whole
  <2>1. \A x \in DOMAIN org2 : next2[x] = IF x = h THEN Whole(next[d])
                                          ELSE IF x = -h THEN Whole(next[-c]) ELSE Whole(next[x])
    BY <1>3 DEF EdgesHealed, Whole
  <2>2. next2 = [x \in DOMAIN org2 |-> IF x = h THEN Whole(next[d])
                                       ELSE IF x = -h THEN Whole(next[-c]) ELSE Whole(next[x])]
    BY <1>4, <2>1, Zenon
  <2> QED
    BY <1>6, <2>2
<1>9. Linking!Darts = DOMAIN org
  BY LinkingShows DEF org
<1>10. Linking!HealEdges(c, d, h)
  <2>1. h = c \/ Linking!Free(h) \/ Linking!Free(-h)
    BY <1>6, <1>9 DEF Linking!Free
  <2> QED
    BY <1>1, <1>5, <1>6, <1>7, <1>8, <1>9, <2>1 DEF Linking!HealEdges, WholeOf, org, next
<1>11. Linking!Next
  <2>1. h \in 1 .. MaxEdge \cup {-x : x \in 1 .. MaxEdge}
    <3>1. h = -(-h)
      BY <1>6
    <3> QED
      BY <3>1
  <2> QED
    BY <1>6, <1>9, <1>10, <2>1 DEF Linking!Next
<1>12. Turning(Tables)'
  BY <1>1, <1>5 DEF Turning, org, next, az
<1> QED
  BY <1>11, <1>12 DEF Advances

-----------------------------------------------------------------------------
(* The calls.                                                              *)

\* The call fails, and nothing changes
LEMMA FailureAdvances ==
  ASSUME Inv, Turning(Tables), NEW u, Finish(u), u.err # "done"
  PROVE  Advances
BY SameLinksAdvance

\* Calls on isolated nodes
LEMMA IsoNodesAdvance ==
  ASSUME Inv, Turning(Tables),
         \/ \E p \in Sites : AddIsoNode(p)
         \/ \E n \in DOMAIN node, p \in Sites : MoveIsoNode(n, p)
         \/ \E n \in DOMAIN node : RemoveIsoNode(n)
  PROVE  Advances
<1>1. Shaped(Tables)
  BY DEF Inv, Sound, Base
<1>2. Fail(Tables, "corrupted topology").edge = Tables.edge
  BY <1>1 DEF Fail, Shaped
<1>3. ASSUME NEW p \in Sites, AddIsoNode(p) PROVE Advances
  <2>1. PICK f : Finish(IF f = Nowhere THEN Fail(Tables, "corrupted topology")
                        ELSE InsertNode(Tables, p, f))
    BY <1>3 DEF AddIsoNode
  <2>2. InsertNode(Tables, p, f).edge = Tables.edge
    BY <1>1 DEF InsertNode, Shaped
  <2> QED
    BY <1>2, <2>1, <2>2, OtherTablesAdvance
<1>4. ASSUME NEW n \in DOMAIN node, NEW p \in Sites, MoveIsoNode(n, p) PROVE Advances
  <2>1. \/ Finish(Fail(Tables, "corrupted topology"))
        \/ Finish([Tables EXCEPT !.node[n].geom = p])
    BY <1>4 DEF MoveIsoNode
  <2>2. [Tables EXCEPT !.node[n].geom = p].edge = Tables.edge
    BY <1>1 DEF Shaped
  <2> QED
    BY <1>2, <2>1, <2>2, OtherTablesAdvance
<1>5. ASSUME NEW n \in DOMAIN node, RemoveIsoNode(n) PROVE Advances
  <2>1. Finish(DeleteNode(Tables, n)) /\ DeleteNode(Tables, n).edge = Tables.edge
    BY <1>1, <1>5 DEF RemoveIsoNode, DeleteNode, Shaped
  <2> QED
    BY <2>1, OtherTablesAdvance
<1> QED
  BY <1>3, <1>4, <1>5

\* Calls on TopoGeometries
LEMMA TopoGeomsAdvance ==
  ASSUME Inv, Turning(Tables), NEW tg,
         \/ \E S \in SUBSET Primitives(Kind[tg]) : CreateTopoGeom(tg, S)
         \/ ClearTopoGeom(tg)
         \/ \E i \in Primitives(Kind[tg]) : AddElement(tg, i)
         \/ \E i \in Primitives(Kind[tg]) : RemElement(tg, i)
  PROVE  Advances
<1>1. \E R : Finish([Tables EXCEPT !.relation = R])
  BY DEF CreateTopoGeom, ClearTopoGeom, AddElement, RemElement, Tables
<1>2. \A R : [Tables EXCEPT !.relation = R].edge = Tables.edge
  BY DEF Tables
<1> QED
  BY <1>1, <1>2, OtherTablesAdvance

\* adj names the first and the last of the darts S met from q, the first of those in near
\* and the last of those in far
Adjacent(S, near, far, az, q, adj) ==
  /\ adj.found <=> S # {}
  /\ near = {} => adj.nextCW = 0
  /\ near # {} => After(near, az, q, adj.nextCW) /\ adj.nextCW # 0 /\ adj.nextCW \in S
  /\ far = {} => adj.nextCCW = 0
  /\ far # {} => Before(far, az, q, adj.nextCCW) /\ adj.nextCCW # 0 /\ adj.nextCCW \in S

\* The edge ends that FindAdjacentEdges finds next to azimuth az[q]
LEMMA AdjacentEdgesAre ==
  ASSUME NEW t, Base(t), NEW n, NEW myself, NEW az, NEW q, az[q] \in 0 .. 7,
         NEW S, \A d : d \in S <=> d \in Darts(t) /\ From(t, d) = n /\ Abs(d) # myself,
         \A x \in S : az[x] = DartAzimuth(t, x) /\ az[x] # az[q]
  PROVE  Adjacent(S, S, S, az, q, FindAdjacentEdges(t, n, az[q], NoAzimuth, myself))
<1> DEFINE Turn(d) == ClockwiseTurn(az[q], DartAzimuth(t, d))
           adj == FindAdjacentEdges(t, n, az[q], NoAzimuth, myself)
           cw == CHOOSE d \in S : \A o \in S : Turn(d) <= Turn(o)
           ccw == CHOOSE d \in S : \A o \in S : Turn(d) >= Turn(o)
           f == [x \in S |-> Turn(x)]
<1>0. S = {d \in Darts(t) : From(t, d) = n /\ Abs(d) # myself}
  OBVIOUS
<1>1. \A x \in S : az[x] \in 0 .. 7 /\ Turn(x) = Gap(az[q], az[x]) /\ Turn(x) \in 0 .. 7
  BY DartFacts, GapFacts, TurnIsKnown
<1>2. adj.found <=> S # {}
  BY <1>0 DEF FindAdjacentEdges
<1>3. /\ S # {} => adj.nextCW = cw /\ adj.nextCCW = ccw
      /\ S = {} => adj.nextCW = 0 /\ adj.nextCCW = 0
  BY <1>0 DEF FindAdjacentEdges, NoAzimuth
<1>4. ASSUME S # {} PROVE /\ \E d \in S : \A o \in S : Turn(d) <= Turn(o)
                          /\ \E d \in S : \A o \in S : Turn(d) >= Turn(o)
  <2>1. /\ \E d \in S : \A o \in S : f[d] <= f[o]
        /\ \E d \in S : \A o \in S : f[d] >= f[o]
    <3>1. \A d \in S : f[d] \in 0 .. 7
      BY <1>1
    <3> HIDE DEF f
    <3> QED
      BY <1>4, <3>1, TurnsAreBounded
  <2> QED
    BY <2>1
<1>5. ASSUME S # {} PROVE /\ cw \in S /\ \A o \in S : Turn(cw) <= Turn(o)
                          /\ ccw \in S /\ \A o \in S : Turn(ccw) >= Turn(o)
  <2> HIDE DEF Turn
  <2> QED
    BY <1>4, <1>5
<1>6. S # {} => After(S, az, q, cw) /\ Before(S, az, q, ccw)
  <2> HIDE DEF Turn, cw, ccw
  <2> QED
    BY <1>1, <1>5 DEF After, Before
<1> HIDE DEF adj, cw, ccw
<1>7. S # {} => /\ After(S, az, q, adj.nextCW) /\ Before(S, az, q, adj.nextCCW)
                /\ adj.nextCW \in S /\ adj.nextCCW \in S
  BY <1>3, <1>5, <1>6
<1>8. \A x \in S : x # 0
  BY DartFacts
<1> QED
  BY <1>2, <1>3, <1>7, <1>8 DEF adj, Adjacent

\* And those next to azimuth az[q], up to the other end r of a loop
LEMMA AdjacentEdgesToLoop ==
  ASSUME NEW t, Base(t), NEW n, NEW myself, NEW az, NEW q, NEW r,
         az[q] \in 0 .. 7, az[r] \in 0 .. 7, az[q] # az[r],
         NEW S, \A d : d \in S <=> d \in Darts(t) /\ From(t, d) = n /\ Abs(d) # myself,
         \A x \in S : az[x] = DartAzimuth(t, x) /\ az[x] # az[q]
  PROVE  Adjacent(S, Between(S, az, q, r), Beyond(S, az, q, r), az, q,
                  FindAdjacentEdges(t, n, az[q], az[r], myself))
<1> DEFINE Turn(d) == ClockwiseTurn(az[q], DartAzimuth(t, d))
           adj == FindAdjacentEdges(t, n, az[q], az[r], myself)
           near == Between(S, az, q, r)
           far == Beyond(S, az, q, r)
           cw == CHOOSE d \in near : \A o \in near : Turn(d) <= Turn(o)
           ccw == CHOOSE d \in far : \A o \in far : Turn(d) >= Turn(o)
<1>0. S = {d \in Darts(t) : From(t, d) = n /\ Abs(d) # myself}
  OBVIOUS
<1>1. \A x \in S : /\ az[x] \in 0 .. 7 /\ Turn(x) = Gap(az[q], az[x]) /\ Turn(x) \in 0 .. 7
                   /\ x \in Int /\ x # 0
  BY DartFacts, GapFacts, TurnIsKnown
<1>2. az[r] # NoAzimuth /\ ClockwiseTurn(az[q], az[r]) = Gap(az[q], az[r])
  BY GapFacts DEF NoAzimuth
<1>3. /\ near = {x \in S : Turn(x) < ClockwiseTurn(az[q], az[r])}
      /\ far = {x \in S : Turn(x) > ClockwiseTurn(az[q], az[r])}
      /\ near \subseteq S /\ far \subseteq S
  <2> HIDE DEF Turn
  <2> QED
    BY <1>1, <1>2 DEF Between, Beyond
<1>4. adj.found <=> S # {}
  BY <1>0 DEF FindAdjacentEdges
<1>5. /\ adj.nextCW = IF near = {} THEN 0 ELSE cw
      /\ adj.nextCCW = IF far = {} THEN 0 ELSE ccw
  <2> HIDE DEF near, far
  <2> QED
    BY <1>0, <1>2, <1>3 DEF FindAdjacentEdges
<1>6. ASSUME near # {} PROVE cw \in near /\ \A o \in near : Turn(cw) <= Turn(o)
  <2> DEFINE g == [x \in near |-> Turn(x)]
  <2>1. \E d \in near : \A o \in near : Turn(d) <= Turn(o)
    <3>1. \A d \in near : g[d] \in 0 .. 7
      BY <1>1, <1>3
    <3> HIDE DEF g, near
    <3>2. \E d \in near : \A o \in near : g[d] <= g[o]
      BY <1>6, <3>1, TurnsAreBounded
    <3> QED
      BY <3>2 DEF g
  <2> HIDE DEF Turn, near
  <2> QED
    BY <2>1
<1>7. ASSUME far # {} PROVE ccw \in far /\ \A o \in far : Turn(ccw) >= Turn(o)
  <2> DEFINE g == [x \in far |-> Turn(x)]
  <2>1. \E d \in far : \A o \in far : Turn(d) >= Turn(o)
    <3>1. \A d \in far : g[d] \in 0 .. 7
      BY <1>1, <1>3
    <3> HIDE DEF g, far
    <3>2. \E d \in far : \A o \in far : g[d] >= g[o]
      BY <1>7, <3>1, TurnsAreBounded
    <3> QED
      BY <3>2 DEF g
  <2> HIDE DEF Turn, far
  <2> QED
    BY <2>1
<1> HIDE DEF Turn, near, far, cw, ccw, adj
<1>8. near # {} => After(near, az, q, cw) /\ cw # 0 /\ cw \in S
  BY <1>1, <1>3, <1>6 DEF After
<1>9. far # {} => Before(far, az, q, ccw) /\ ccw # 0 /\ ccw \in S
  BY <1>1, <1>3, <1>7 DEF Before
<1>10. /\ near = {} => adj.nextCW = 0
       /\ near # {} => After(near, az, q, adj.nextCW) /\ adj.nextCW # 0 /\ adj.nextCW \in S
       /\ far = {} => adj.nextCCW = 0
       /\ far # {} => Before(far, az, q, adj.nextCCW) /\ adj.nextCCW # 0 /\ adj.nextCCW \in S
  BY <1>5, <1>8, <1>9
<1> QED
  BY <1>4, <1>10 DEF adj, near, far, Adjacent

\* Edge e is new, from node m to node n
EdgeAdded(org, az, org2, az2, e, m, n) ==
  /\ e \in Int /\ e # -e /\ e \notin DOMAIN org /\ -e \notin DOMAIN org
  /\ DOMAIN org2 = DOMAIN org \cup {e, -e} /\ org2[e] = m /\ org2[-e] = n
  /\ \A d \in DOMAIN org : org2[d] = org[d] /\ az2[d] = az[d]

\* Its links and those to it are written
Written(org, next, next2, e, links) ==
  /\ next2[e] = links.next_left /\ next2[-e] = links.next_right
  /\ \A d \in DOMAIN org : next2[d] = IF d = links.prev_right THEN -e
                                      ELSE IF d = links.prev_left THEN e ELSE next[d]

\* One more edge is drawn, the others stay where they are
OneMoreEdge(t, u) ==
  /\ DOMAIN u.edge = DOMAIN t.edge \cup {NewEdge(t)}
  /\ \A e \in DOMAIN t.edge : /\ u.edge[e].start_node = t.edge[e].start_node
                              /\ u.edge[e].end_node = t.edge[e].end_node
                              /\ u.edge[e].geom = t.edge[e].geom

\* Its darts are new
LEMMA NewEdgeDarts ==
  ASSUME NEW t, NEW u, Base(t), OneMoreEdge(t, u)
  PROVE  LET id == NewEdge(t)
             org == Origins(t)
             az == Azimuths(t)
             org2 == Origins(u)
             az2 == Azimuths(u)
         IN  /\ EdgeAdded(org, az, org2, az2, id, u.edge[id].start_node, u.edge[id].end_node)
             /\ id > 0
             /\ az2[id] = FirstAzimuth(u.edge[id].geom) /\ az2[-id] = LastAzimuth(u.edge[id].geom)
             /\ DOMAIN Follows(u) = DOMAIN org2
             /\ Follows(u)[id] = u.edge[id].next_left /\ Follows(u)[-id] = u.edge[id].next_right
<1> DEFINE id == NewEdge(t)
<1> USE DEF OneMoreEdge
<1>1. /\ \A e \in DOMAIN t.edge : e \in Nat /\ e > 0 /\ e # id /\ e # -id
      /\ id \in Nat /\ id > 0 /\ -(-id) = id /\ ~(-id > 0)
  BY NewIdsAreNew DEF Base, Numbered, NewEdge
<1>2. Darts(u) = Darts(t) \cup {id, -id}
  BY DEF Darts
<1>3. id \notin Darts(t) /\ -id \notin Darts(t)
  BY <1>1 DEF Darts
<1>4. /\ From(u, id) = u.edge[id].start_node /\ From(u, -id) = u.edge[id].end_node
      /\ DartAzimuth(u, id) = FirstAzimuth(u.edge[id].geom)
      /\ DartAzimuth(u, -id) = LastAzimuth(u.edge[id].geom)
      /\ NextDart(u, id) = u.edge[id].next_left /\ NextDart(u, -id) = u.edge[id].next_right
  BY <1>1 DEF From, DartAzimuth, NextDart
<1>5. \A d \in Darts(t) : From(u, d) = From(t, d) /\ DartAzimuth(u, d) = DartAzimuth(t, d)
  <2>1. \A d \in Darts(t) : IF d > 0 THEN d \in DOMAIN t.edge ELSE -d \in DOMAIN t.edge
    BY <1>1 DEF Darts
  <2> QED
    BY <2>1 DEF From, DartAzimuth
<1>6. /\ DOMAIN Origins(t) = Darts(t)
      /\ \A d \in Darts(t) : Origins(t)[d] = From(t, d) /\ Azimuths(t)[d] = DartAzimuth(t, d)
  BY DartFunctions
<1>7. /\ DOMAIN Origins(u) = Darts(u) /\ DOMAIN Follows(u) = Darts(u)
      /\ \A d \in Darts(u) : /\ Origins(u)[d] = From(u, d) /\ Azimuths(u)[d] = DartAzimuth(u, d)
                             /\ Follows(u)[d] = NextDart(u, d)
  BY DartFunctions
<1>8. id # -id
  BY <1>1
<1> QED
  BY <1>1, <1>2, <1>3, <1>4, <1>5, <1>6, <1>7, <1>8 DEF EdgeAdded

\* The darts of a node that FindAdjacentEdges looks at
LEMMA StarIsAround ==
  ASSUME NEW t, Base(t), NEW n
  PROVE  Around(Origins(t), n) = {d \in Darts(t) : From(t, d) = n /\ Abs(d) # 0}
<1>1. \A d \in Darts(t) : d \in Int /\ d # 0
  BY DartFacts
<1> QED
  BY <1>1, DartFunctions DEF Around, Abs

\* No dart leaves an isolated node
LEMMA IsolatedIsBare ==
  ASSUME NEW t, Base(t), Anchored(t), NEW n, t.node[n].containing_face # Nowhere
  PROVE  Around(Origins(t), n) = {}
<1>1. \A d \in Darts(t) : From(t, d) # n
  BY DartFacts DEF Anchored
<1> QED
  BY <1>1, DartFunctions DEF Around

\* ST_AddIsoEdge
LEMMA AddIsoEdgeAdvances ==
  ASSUME PlanarInv, PlanarInv', Turning(Tables), NEW sn \in DOMAIN node, NEW en \in DOMAIN node,
         NEW c, AddIsoEdge(sn, en, c)
  PROVE  Advances
<1> DEFINE t == Tables
           id == NewEdge(t)
           f == t.node[sn].containing_face
           r == [start_node |-> sn, end_node |-> en, next_left |-> -id, next_right |-> id,
                 face_left |-> f, face_right |-> f, geom |-> c]
           v == InsertEdge(t, r)
           u == SetContainingFace(v, {sn, en}, Nowhere)
<1>1. Base(t) /\ Anchored(t) /\ Shaped(t) /\ id = seq.edge + 1 /\ t.err = "done"
  BY TablesFacts DEF PlanarInv, Inv, Sound, Base, NewEdge
<1>2. /\ f # Nowhere /\ t.node[en].containing_face # Nowhere /\ sn # en
      /\ Finish(u)
  BY TablesFacts DEF AddIsoEdge
<1>3. /\ u.edge = With(t.edge, id, r) /\ u.seq.edge = id /\ u.seq.node = seq.node
      /\ u.err = "done"
  <2> HIDE DEF r, f
  <2> QED
    BY <1>1, TablesFacts DEF InsertEdge, SetContainingFace, Shaped, NewEdge
<1> HIDE DEF t, u, id
<1>4. /\ DOMAIN u.edge = DOMAIN t.edge \cup {id} /\ id \notin DOMAIN t.edge
      /\ u.edge[id] = r /\ \A e \in DOMAIN t.edge : u.edge[e] = t.edge[e]
  <2>1. id \notin DOMAIN t.edge
    BY <1>1, NewIdsAreNew DEF Base, id
  <2> HIDE DEF r
  <2> QED
    BY <1>3, <2>1 DEF With
<1> DEFINE org == Origins(t)
           next == Follows(t)
           az == Azimuths(t)
           org2 == Origins(u)
           next2 == Follows(u)
           az2 == Azimuths(u)
<1>5. /\ id \in Int /\ id > 0 /\ id # -id /\ id \notin DOMAIN org /\ -id \notin DOMAIN org
      /\ DOMAIN org2 = DOMAIN org \cup {id, -id}
      /\ org2[id] = sn /\ org2[-id] = en
      /\ \A d \in DOMAIN org : org2[d] = org[d] /\ az2[d] = az[d]
      /\ next2[id] = -id /\ next2[-id] = id
  <2>1. /\ r.start_node = sn /\ r.end_node = en /\ r.next_left = -id /\ r.next_right = id
        /\ id = NewEdge(t)
    BY DEF id
  <2> HIDE DEF r
  <2>2. OneMoreEdge(t, u) /\ u.edge[id] = r
    BY <1>4, <2>1 DEF OneMoreEdge
  <2>3. /\ EdgeAdded(org, az, org2, az2, id, sn, en) /\ id > 0
        /\ next2[id] = -id /\ next2[-id] = id
    BY <1>1, <2>1, <2>2, NewEdgeDarts
  <2> QED
    BY <2>3 DEF EdgeAdded
<1>6. Around(org, sn) = {} /\ Around(org, en) = {}
  BY <1>1, <1>2, IsolatedIsBare
<1>7. \A d \in DOMAIN org : next2[d] = next[d]
  <2>1. \A d \in Darts(t) : IF d > 0 THEN d \in DOMAIN t.edge ELSE -d \in DOMAIN t.edge
    BY <1>1 DEF Darts, Base, Numbered
  <2>2. \A d \in Darts(t) : NextDart(u, d) = NextDart(t, d)
    BY <1>4, <2>1 DEF NextDart
  <2> QED
    BY <1>5, <2>2, DartFunctions
<1>8. EdgeTied(org, next, az, org2, next2, az2, id, sn, en)
  <2>1. -(-id) = id
    BY <1>5
  <2>2. TiedIn({}, az2, id, next, next2) /\ TiedIn({}, az2, -id, next, next2)
    BY <1>5, <2>1 DEF TiedIn
  <2> HIDE DEF org, next, az, org2, next2, az2
  <2> QED
    BY <1>2, <1>5, <1>6, <1>7, <2>2 DEF EdgeTied
<1> QED
  BY <1>1, <1>2, <1>3, <1>8, TieAdvances DEF t

\* Tying dart d to dart prev changes what follows prev, if that is of another edge
LEMMA LinkToFollows ==
  ASSUME NEW t, Shaped(t), \A e \in DOMAIN t.edge : e \in Nat /\ e > 0,
         NEW prev \in Darts(t), NEW d \in Int
  PROVE  LET u == LinkTo(t, prev, d)
         IN  /\ Darts(u) = Darts(t)
             /\ \A x \in Darts(t) : NextDart(u, x) =
                  IF x = prev /\ Abs(prev) # Abs(d) THEN d ELSE NextDart(t, x)
<1> DEFINE u == LinkTo(t, prev, d)
<1>1. \A x \in Darts(t) : /\ x \in Int /\ x # 0
                          /\ IF x > 0 THEN x \in DOMAIN t.edge ELSE -x \in DOMAIN t.edge
  BY DEF Darts
<1>2. CASE Abs(prev) = Abs(d)
  BY <1>2 DEF LinkTo
<1>3. CASE Abs(prev) # Abs(d) /\ prev > 0
  <2>1. u = [t EXCEPT !.edge[prev].next_left = d] /\ prev \in DOMAIN t.edge
    BY <1>1, <1>3 DEF LinkTo, SetNext
  <2>2. /\ DOMAIN u.edge = DOMAIN t.edge
        /\ u.edge[prev].next_left = d /\ u.edge[prev].next_right = t.edge[prev].next_right
        /\ \A e \in DOMAIN t.edge \ {prev} : u.edge[e] = t.edge[e]
    BY <2>1 DEF Shaped
  <2> HIDE DEF u
  <2> QED
    BY <1>1, <1>3, <2>1, <2>2 DEF Darts, NextDart, u
<1>4. CASE Abs(prev) # Abs(d) /\ ~(prev > 0)
  <2> DEFINE p == -prev
  <2>1. u = [t EXCEPT !.edge[p].next_right = d] /\ p \in DOMAIN t.edge
    BY <1>1, <1>4 DEF LinkTo, SetNext
  <2> HIDE DEF p
  <2>2. /\ DOMAIN u.edge = DOMAIN t.edge
        /\ u.edge[p].next_right = d /\ u.edge[p].next_left = t.edge[p].next_left
        /\ \A e \in DOMAIN t.edge \ {p} : u.edge[e] = t.edge[e]
    BY <2>1 DEF Shaped
  <2>3. \A x \in Darts(t) : -x = p => x = prev
    BY <1>1 DEF p
  <2> HIDE DEF u
  <2>4. Darts(u) = Darts(t)
    BY <2>2 DEF Darts
  <2>5. \A x \in Darts(t) : NextDart(u, x) = IF x = prev THEN d ELSE NextDart(t, x)
    BY <1>1, <1>4, <2>2, <2>3 DEF NextDart, p
  <2> QED
    BY <1>4, <2>4, <2>5 DEF u
<1> QED
  BY <1>2, <1>3, <1>4

\* The links of a new edge and of those it is tied to
LEMMA InsertLinkedEdgeFollows ==
  ASSUME NEW t, Base(t), NEW sn, NEW en, NEW c, NEW f, NEW span, NEW epan,
         LET links == NewEdgeLinks(NewEdge(t), sn = en, span, epan)
         IN  {links.prev_left, links.prev_right} \subseteq
               Darts(t) \cup {NewEdge(t), -NewEdge(t)}
  PROVE  LET id == NewEdge(t)
             links == NewEdgeLinks(id, sn = en, span, epan)
             u == InsertLinkedEdge(t, sn, en, c, f, span, epan)
         IN  Written(Origins(t), Follows(t), Follows(u), id, links)
<1> DEFINE id == NewEdge(t)
           links == NewEdgeLinks(id, sn = en, span, epan)
           r == [start_node |-> sn, end_node |-> en,
                 next_left |-> links.next_left, next_right |-> links.next_right,
                 face_left |-> f, face_right |-> f, geom |-> c]
           t1 == InsertEdge(t, r)
           t2 == LinkTo(t1, links.prev_left, id)
           t3 == LinkTo(t2, links.prev_right, -id)
           alone == (IF span.found THEN {} ELSE {sn}) \cup (IF epan.found THEN {} ELSE {en})
           u == InsertLinkedEdge(t, sn, en, c, f, span, epan)
<1>1. u = SetContainingFace(t3, alone, Nowhere)
  BY DEF InsertLinkedEdge
<1>2. /\ r.start_node = sn /\ r.end_node = en /\ r.geom = c
      /\ r.next_left = links.next_left /\ r.next_right = links.next_right
      /\ DOMAIN r = {"start_node", "end_node", "next_left", "next_right",
                     "face_left", "face_right", "geom"}
  OBVIOUS
<1>3. links.prev_left \in Darts(t) \cup {id, -id} /\ links.prev_right \in Darts(t) \cup {id, -id}
  OBVIOUS
<1>4. /\ \A e \in DOMAIN t.edge : e \in Nat /\ e > 0 /\ e # id /\ e # -id
      /\ id \in Nat /\ id > 0 /\ id # -id /\ ~(-id > 0) /\ -(-id) = id /\ -id \in Int
  BY NewIdsAreNew DEF Base, Numbered, NewEdge
<1> HIDE DEF links, r, alone, u
<1>5. /\ Shaped(t1) /\ DOMAIN t1.edge = DOMAIN t.edge \cup {id} /\ t1.edge[id] = r
      /\ \A e \in DOMAIN t.edge : t1.edge[e] = t.edge[e]
      /\ t1.seq.edge = id /\ t1.seq.node = t.seq.node
  <2>1. t1.edge = With(t.edge, id, r) /\ t1.seq.edge = id /\ t1.seq.node = t.seq.node
    BY DEF InsertEdge, NewEdge, Base, Shaped
  <2>2. DOMAIN t1 = DOMAIN t /\ DOMAIN t1.seq = DOMAIN t.seq /\ t1.node = t.node
    BY DEF InsertEdge, Base, Shaped
  <2> HIDE DEF id, t1
  <2>3. /\ DOMAIN t1.edge = DOMAIN t.edge \cup {id} /\ t1.edge[id] = r
        /\ \A e \in DOMAIN t.edge : t1.edge[e] = t.edge[e]
    BY <1>4, <2>1 DEF With
  <2> QED
    BY <1>2, <2>1, <2>2, <2>3 DEF Base, Shaped
<1> HIDE DEF id, t1
<1>6. \A e \in DOMAIN t1.edge : e \in Nat /\ e > 0
  BY <1>4, <1>5
<1>7. Darts(t1) = Darts(t) \cup {id, -id}
  BY <1>5 DEF Darts
<1>8. LinksOnly(t1, t2) /\ Shaped(t2)
  BY <1>5, LinkToLinksOnly DEF LinksOnly
<1>9. /\ Darts(t2) = Darts(t1)
      /\ \A x \in Darts(t1) : NextDart(t2, x) =
           IF x = links.prev_left /\ Abs(links.prev_left) # Abs(id) THEN id ELSE NextDart(t1, x)
  BY <1>3, <1>4, <1>5, <1>6, <1>7, LinkToFollows
<1> HIDE DEF t2
<1>10. LinksOnly(t2, t3) /\ Shaped(t3) /\ LinksOnly(t1, t3)
  BY <1>8, LinkToLinksOnly, LinksOnlyComposes DEF LinksOnly
<1>11. \A e \in DOMAIN t2.edge : e \in Nat /\ e > 0
  BY <1>6, <1>8 DEF LinksOnly
<1>12. /\ Darts(t3) = Darts(t2)
       /\ \A x \in Darts(t2) : NextDart(t3, x) =
            IF x = links.prev_right /\ Abs(links.prev_right) # Abs(-id) THEN -id
            ELSE NextDart(t2, x)
  <2>1. links.prev_right \in Darts(t2)
    BY <1>3, <1>7, <1>9
  <2> QED
    BY <1>4, <1>8, <1>11, <2>1, LinkToFollows
<1> HIDE DEF t3
<1>13. u.edge = t3.edge /\ u.seq = t3.seq
  BY <1>1, <1>10 DEF SetContainingFace, Shaped
<1>15. /\ Follows(u) = Follows(t3)
       /\ \A x \in Darts(t1) : Follows(u)[x] = NextDart(t3, x)
  <2>1. Darts(u) = Darts(t3) /\ \A x : NextDart(u, x) = NextDart(t3, x)
    BY <1>13 DEF Darts, NextDart
  <2> QED
    BY <1>9, <1>12, <2>1 DEF Follows
<1>16. /\ NextDart(t1, id) = links.next_left /\ NextDart(t1, -id) = links.next_right
       /\ \A d \in Darts(t) : NextDart(t1, d) = NextDart(t, d)
  <2>1. \A d \in Darts(t) : IF d > 0 THEN d \in DOMAIN t.edge ELSE -d \in DOMAIN t.edge
    BY <1>4 DEF Darts
  <2> QED
    BY <1>2, <1>4, <1>5, <2>1 DEF NextDart
<1>17. \A d \in Darts(t) : d \in Int /\ d # 0 /\ d # id /\ d # -id /\ Abs(d) # Abs(id)
  BY <1>4 DEF Darts, Abs
<1>18. Abs(-id) = Abs(id)
  BY <1>4 DEF Abs
<1>19. Follows(u)[id] = links.next_left /\ Follows(u)[-id] = links.next_right
  BY <1>3, <1>7, <1>9, <1>12, <1>15, <1>16, <1>17, <1>18
<1>20. \A d \in Darts(t) : Follows(u)[d] = IF d = links.prev_right THEN -id
                                           ELSE IF d = links.prev_left THEN id
                                           ELSE Follows(t)[d]
  BY <1>3, <1>7, <1>9, <1>12, <1>15, <1>16, <1>17, <1>18, DartFunctions
<1> QED
  BY <1>19, <1>20, DartFunctions DEF Written, id, links, u

\* The links that _lwt_AddEdge writes tie an edge between two nodes in where it belongs
LEMMA LinkedIsTied ==
  ASSUME NEW org, NEW next, NEW az, NEW org2, NEW next2, NEW az2, NEW e, NEW m, NEW n,
         NEW span, NEW epan, Directed(org, az), m # n, EdgeAdded(org, az, org2, az2, e, m, n),
         Adjacent(Around(org, m), Around(org, m), Around(org, m), az2, e, span),
         Adjacent(Around(org, n), Around(org, n), Around(org, n), az2, -e, epan),
         Written(org, next, next2, e, NewEdgeLinks(e, FALSE, span, epan))
  PROVE  EdgeTied(org, next, az, org2, next2, az2, e, m, n)
<1> DEFINE M == Around(org, m)
           N == Around(org, n)
           links == NewEdgeLinks(e, FALSE, span, epan)
<1> USE DEF Adjacent, EdgeAdded, Written
<1>1. /\ -(-e) = e
      /\ \A d \in DOMAIN org : d \in Int /\ d # 0 /\ -d \in DOMAIN org /\ -(-d) = d
  BY DEF Directed
<1>2. /\ \A x \in M : x \in DOMAIN org /\ org[x] = m
      /\ \A x \in N : x \in DOMAIN org /\ org[x] = n
  BY DEF Around
<1> HIDE DEF M, N
<1>3. M = {} => links.next_right = e /\ links.prev_left = -e
  BY DEF NewEdgeLinks, Linked, M
<1>4. ASSUME M # {}
      PROVE  /\ span.nextCW \in M /\ span.nextCCW \in M
             /\ links.next_right = span.nextCW /\ links.prev_left = -span.nextCCW
  <2>1. span.nextCW \in M /\ span.nextCCW \in M
    BY <1>4 DEF After, Before, M
  <2>2. span.nextCW # 0 /\ -span.nextCCW # 0 /\ span.found
    BY <1>1, <1>2, <1>4, <2>1 DEF M
  <2> QED
    BY <2>1, <2>2 DEF NewEdgeLinks, Linked
<1>5. N = {} => links.next_left = -e /\ links.prev_right = e
  BY DEF NewEdgeLinks, Linked, N
<1>6. ASSUME N # {}
      PROVE  /\ epan.nextCW \in N /\ epan.nextCCW \in N
             /\ links.next_left = epan.nextCW /\ links.prev_right = -epan.nextCCW
  <2>1. epan.nextCW \in N /\ epan.nextCCW \in N
    BY <1>6 DEF After, Before, N
  <2>2. epan.nextCW # 0 /\ -epan.nextCCW # 0 /\ epan.found
    BY <1>1, <1>2, <1>6, <2>1 DEF N
  <2> QED
    BY <2>1, <2>2 DEF NewEdgeLinks, Linked
<1>7. /\ \A d \in DOMAIN org : d = links.prev_left => M # {} /\ d = -span.nextCCW /\ org[-d] = m
      /\ \A d \in DOMAIN org : d = links.prev_right => N # {} /\ d = -epan.nextCCW /\ org[-d] = n
  <2>1. ASSUME NEW d \in DOMAIN org, d = links.prev_left
        PROVE  M # {} /\ d = -span.nextCCW /\ org[-d] = m
    <3>1. M # {}
      BY <1>3, <2>1
    <3>2. d = -span.nextCCW /\ span.nextCCW \in M
      BY <1>4, <2>1, <3>1
    <3>3. -d = span.nextCCW
      BY <1>1, <1>2, <3>2
    <3> QED
      BY <1>2, <3>1, <3>2, <3>3
  <2>2. ASSUME NEW d \in DOMAIN org, d = links.prev_right
        PROVE  N # {} /\ d = -epan.nextCCW /\ org[-d] = n
    <3>1. N # {}
      BY <1>5, <2>2
    <3>2. d = -epan.nextCCW /\ epan.nextCCW \in N
      BY <1>6, <2>2, <3>1
    <3>3. -d = epan.nextCCW
      BY <1>1, <1>2, <3>2
    <3> QED
      BY <1>2, <3>1, <3>2, <3>3
  <2> QED
    BY <2>1, <2>2
<1>8. TiedIn(M, az2, e, next, next2)
  <2>1. CASE M = {}
    BY <1>3, <2>1 DEF TiedIn
  <2>2. CASE M # {}
    <3>1. next2[-e] = span.nextCW
      BY <1>4, <2>2
    <3> DEFINE b == span.nextCCW
    <3>2. b \in M /\ links.prev_left = -b
      BY <1>4, <2>2
    <3> HIDE DEF b
    <3>3. \A x \in M : x \in Int /\ -x \in DOMAIN org /\ -x # links.prev_right
      <4> SUFFICES ASSUME NEW x \in M PROVE x \in Int /\ -x \in DOMAIN org /\ -x # links.prev_right
        OBVIOUS
      <4>1. x \in Int /\ -x \in DOMAIN org /\ org[-(-x)] # n
        BY <1>1, <1>2
      <4> QED
        BY <1>7, <4>1
    <3>4. next2[-b] = e
      <4>1. -b \in DOMAIN org /\ -b # links.prev_right
        BY <3>2, <3>3
      <4> QED
        BY <3>2, <4>1
    <3>5. \A x \in M \ {b} : next2[-x] = next[-x]
      <4> SUFFICES ASSUME NEW x \in M \ {b} PROVE next2[-x] = next[-x]
        OBVIOUS
      <4>1. b \in Int /\ x \in Int
        BY <3>2, <3>3
      <4>2. -x # -b
        BY <4>1
      <4>3. -x \in DOMAIN org /\ -x # links.prev_right
        BY <3>3
      <4> QED
        BY <3>2, <4>2, <4>3
    <3>6. After(M, az2, e, span.nextCW) /\ Before(M, az2, e, b)
      BY <2>2 DEF M, b
    <3> QED
      BY <2>2, <3>1, <3>4, <3>5, <3>6 DEF TiedIn
  <2> QED
    BY <2>1, <2>2
<1>9. TiedIn(N, az2, -e, next, next2)
  <2>1. CASE N = {}
    BY <1>1, <1>5, <2>1 DEF TiedIn
  <2>2. CASE N # {}
    <3>1. next2[-(-e)] = epan.nextCW
      BY <1>1, <1>6, <2>2
    <3> DEFINE b == epan.nextCCW
    <3>2. b \in N /\ links.prev_right = -b
      BY <1>6, <2>2
    <3> HIDE DEF b
    <3>3. \A x \in N : x \in Int /\ -x \in DOMAIN org /\ -x # links.prev_left
      <4> SUFFICES ASSUME NEW x \in N PROVE x \in Int /\ -x \in DOMAIN org /\ -x # links.prev_left
        OBVIOUS
      <4>1. x \in Int /\ -x \in DOMAIN org /\ org[-(-x)] # m
        BY <1>1, <1>2
      <4> QED
        BY <1>7, <4>1
    <3>4. next2[-b] = -e
      <4>1. -b \in DOMAIN org /\ -b # links.prev_left
        BY <3>2, <3>3
      <4> QED
        BY <3>2, <4>1
    <3>5. \A x \in N \ {b} : next2[-x] = next[-x]
      <4> SUFFICES ASSUME NEW x \in N \ {b} PROVE next2[-x] = next[-x]
        OBVIOUS
      <4>1. b \in Int /\ x \in Int
        BY <3>2, <3>3
      <4>2. -x # -b
        BY <4>1
      <4>3. -x \in DOMAIN org /\ -x # links.prev_left
        BY <3>3
      <4> QED
        BY <3>2, <4>2, <4>3
    <3>6. After(N, az2, -e, epan.nextCW) /\ Before(N, az2, -e, b)
      BY <2>2 DEF N, b
    <3> QED
      BY <2>2, <3>1, <3>4, <3>5, <3>6 DEF TiedIn
  <2> QED
    BY <2>1, <2>2
<1>10. \A d \in DOMAIN org : org[-d] \notin {m, n} => next2[d] = next[d]
  BY <1>7
<1> QED
  BY <1>8, <1>9, <1>10 DEF EdgeTied, M, N

\* And so do those it writes for a loop
LEMMA LinkedIsLoopTied ==
  ASSUME NEW org, NEW next, NEW az, NEW org2, NEW next2, NEW az2, NEW e, NEW n,
         NEW S, NEW near, NEW far, NEW span, NEW epan,
         Directed(org, az), EdgeAdded(org, az, org2, az2, e, n, n),
         S = Around(org, n), Spread(S \cup {e, -e}, az2),
         near = Between(S, az2, e, -e), far = Beyond(S, az2, e, -e),
         Adjacent(S, near, far, az2, e, span), Adjacent(S, far, near, az2, -e, epan),
         Written(org, next, next2, e, NewEdgeLinks(e, TRUE, span, epan))
  PROVE  LoopTied(org, next, az, org2, next2, az2, e, n)
<1> DEFINE links == NewEdgeLinks(e, TRUE, span, epan)
<1> USE DEF Adjacent, EdgeAdded, Written
<1>1. /\ -(-e) = e
      /\ \A d \in DOMAIN org : d \in Int /\ d # 0 /\ -d \in DOMAIN org /\ -(-d) = d
  BY DEF Directed
<1>2. /\ near \subseteq S /\ far \subseteq S
      /\ \A x \in S : x \in DOMAIN org /\ org[x] = n
  BY DEF Around, Between, Beyond
<1>3. near \cap far = {}
  <2>1. \A x \in S : Gap(az2[e], az2[x]) \in Int /\ Gap(az2[e], az2[-e]) \in Int
    BY GapFacts DEF Spread
  <2> QED
    BY <2>1 DEF Between, Beyond
<1>4. near = {} => links.next_right = -e /\ links.prev_right = -e
  BY DEF NewEdgeLinks, Linked
<1>5. ASSUME near # {}
      PROVE  /\ span.nextCW \in near /\ epan.nextCCW \in near
             /\ links.next_right = span.nextCW /\ links.prev_right = -epan.nextCCW
  <2>1. span.nextCW \in near /\ epan.nextCCW \in near /\ S # {}
    BY <1>2, <1>5 DEF After, Before
  <2>2. span.nextCW # 0 /\ -epan.nextCCW # 0
    BY <1>1, <1>2, <1>5, <2>1
  <2> QED
    BY <2>1, <2>2 DEF NewEdgeLinks, Linked
<1>6. far = {} => links.next_left = e /\ links.prev_left = e
  BY DEF NewEdgeLinks, Linked
<1>7. ASSUME far # {}
      PROVE  /\ epan.nextCW \in far /\ span.nextCCW \in far
             /\ links.next_left = epan.nextCW /\ links.prev_left = -span.nextCCW
  <2>1. epan.nextCW \in far /\ span.nextCCW \in far /\ S # {}
    BY <1>2, <1>7 DEF After, Before
  <2>2. epan.nextCW # 0 /\ -span.nextCCW # 0
    BY <1>1, <1>2, <1>7, <2>1
  <2> QED
    BY <2>1, <2>2 DEF NewEdgeLinks, Linked
<1>8. /\ \A d \in DOMAIN org : d = links.prev_left => far # {} /\ d = -span.nextCCW /\ org[-d] = n
      /\ \A d \in DOMAIN org : d = links.prev_right => near # {} /\ d = -epan.nextCCW /\ org[-d] = n
  <2>1. ASSUME NEW d \in DOMAIN org, d = links.prev_left
        PROVE  far # {} /\ d = -span.nextCCW /\ org[-d] = n
    <3>1. far # {}
      BY <1>6, <2>1
    <3>2. d = -span.nextCCW /\ span.nextCCW \in S
      BY <1>2, <1>7, <2>1, <3>1
    <3>3. -d = span.nextCCW
      BY <1>1, <1>2, <3>2
    <3> QED
      BY <1>2, <3>1, <3>2, <3>3
  <2>2. ASSUME NEW d \in DOMAIN org, d = links.prev_right
        PROVE  near # {} /\ d = -epan.nextCCW /\ org[-d] = n
    <3>1. near # {}
      BY <1>4, <2>2
    <3>2. d = -epan.nextCCW /\ epan.nextCCW \in S
      BY <1>2, <1>5, <2>2, <3>1
    <3>3. -d = epan.nextCCW
      BY <1>1, <1>2, <3>2
    <3> QED
      BY <1>2, <3>1, <3>2, <3>3
  <2> QED
    BY <2>1, <2>2
<1>9. LoopTiedIn(S, az2, e, -e, next, next2)
  <2>1. near # {} => next2[-e] = span.nextCW /\ next2[-epan.nextCCW] = -e
    BY <1>1, <1>2, <1>5, <1>8
  <2>2. near = {} => next2[-e] = -e
    BY <1>4
  <2>3. far # {} => next2[-(-e)] = epan.nextCW /\ next2[-span.nextCCW] = e
    <3> SUFFICES ASSUME far # {} PROVE next2[-(-e)] = epan.nextCW /\ next2[-span.nextCCW] = e
      OBVIOUS
    <3>1. span.nextCCW \in far /\ span.nextCCW \in DOMAIN org
      BY <1>2, <1>7
    <3>2. -span.nextCCW # links.prev_right
      <4> SUFFICES ASSUME -span.nextCCW = links.prev_right PROVE FALSE
        OBVIOUS
      <4>1. near # {} /\ -span.nextCCW = -epan.nextCCW
        BY <1>1, <1>8, <3>1
      <4>2. epan.nextCCW \in near /\ epan.nextCCW \in DOMAIN org
        BY <1>2, <1>5, <4>1
      <4> QED
        BY <1>1, <1>3, <3>1, <4>1, <4>2
    <3> QED
      BY <1>1, <1>7, <3>1, <3>2
  <2>4. far = {} => next2[-(-e)] = e
    BY <1>1, <1>6
  <2>5. \A x \in S : (near # {} => x # epan.nextCCW) /\ (far # {} => x # span.nextCCW)
                        => next2[-x] = next[-x]
    <3> SUFFICES ASSUME NEW x \in S, near # {} => x # epan.nextCCW, far # {} => x # span.nextCCW
                 PROVE  next2[-x] = next[-x]
      OBVIOUS
    <3>1. -x \in DOMAIN org /\ x \in Int
      BY <1>1, <1>2
    <3>2. -x # links.prev_left
      <4> SUFFICES ASSUME -x = links.prev_left PROVE FALSE
        OBVIOUS
      <4>1. far # {} /\ -x = -span.nextCCW
        BY <1>8, <3>1
      <4>2. span.nextCCW \in DOMAIN org
        BY <1>2, <1>7, <4>1
      <4> QED
        BY <1>1, <3>1, <4>1, <4>2
    <3>3. -x # links.prev_right
      <4> SUFFICES ASSUME -x = links.prev_right PROVE FALSE
        OBVIOUS
      <4>1. near # {} /\ -x = -epan.nextCCW
        BY <1>8, <3>1
      <4>2. epan.nextCCW \in DOMAIN org
        BY <1>2, <1>5, <4>1
      <4> QED
        BY <1>1, <3>1, <4>1, <4>2
    <3> QED
      BY <3>1, <3>2, <3>3
  <2> DEFINE c1 == span.nextCW
             b1 == span.nextCCW
             c2 == epan.nextCW
             b2 == epan.nextCCW
  <2>6. /\ near # {} => /\ After(near, az2, e, c1) /\ Before(near, az2, -e, b2)
                        /\ next2[-e] = c1 /\ next2[-b2] = -e
        /\ near = {} => next2[-e] = -e
        /\ far # {} => /\ After(far, az2, -e, c2) /\ Before(far, az2, e, b1)
                       /\ next2[-(-e)] = c2 /\ next2[-b1] = e
        /\ far = {} => next2[-(-e)] = e
        /\ \A x \in S : (near # {} => x # b2) /\ (far # {} => x # b1) => next2[-x] = next[-x]
    BY <2>1, <2>2, <2>3, <2>4, <2>5
  <2> HIDE DEF c1, b1, c2, b2
  <2>7. LoopTiedBehind(S, az2, e, -e, next, next2, c1, b1, c2, b2)
    BY <2>6 DEF LoopTiedBehind
  <2> QED
    BY <2>7 DEF LoopTiedIn
<1>10. \A d \in DOMAIN org : org[-d] # n => next2[d] = next[d]
  BY <1>8
<1> QED
  BY <1>9, <1>10 DEF LoopTied

\* The split of a face that follows leaves the links of the new edge as they are
LEMMA AddedEdgeLinks ==
  ASSUME NEW t, Sound(t), NEW sn \in DOMAIN t.node, NEW en \in DOMAIN t.node, NEW c,
         OnGrid(c), EndsAtNodes(t, sn, en, c), NEW modFace \in BOOLEAN
  PROVE  LET ends == EndsAround(t, sn, en, c)
             u == AddedEdge(t, sn, en, c, ends, modFace)
         IN  u.err = "done" =>
               \E f : LET v == InsertLinkedEdge(t, sn, en, c, f, ends.span, ends.epan)
                      IN  /\ Origins(u) = Origins(v) /\ Follows(u) = Follows(v)
                          /\ Azimuths(u) = Azimuths(v)
                          /\ u.seq.node = v.seq.node /\ u.seq.edge = v.seq.edge
<1> DEFINE first == FirstAzimuth(c)
           last == LastAzimuth(c)
           span == FindAdjacentEdges(t, sn, first, IF sn = en THEN last ELSE NoAzimuth, 0)
           epan == FindAdjacentEdges(t, en, last, IF sn = en THEN first ELSE NoAzimuth, 0)
           ends == EndsAround(t, sn, en, c)
           iso == IsoFaces(t, {sn, en})
           side == NewEdgeFace(iso, span, epan)
           f == side.face
           v == InsertLinkedEdge(t, sn, en, c, f, span, epan)
           split == SplitFace(v, NewEdge(t), f, modFace)
           u == AddedEdge(t, sn, en, c, ends, modFace)
<1>1. Base(t) /\ Shaped(t) /\ t.seq.face \in Nat
  BY DEF Sound, Base, Numbered
<1>2. ends.span = span /\ ends.epan = epan
  BY DEF EndsAround
<1>3. first \in 0 .. 7 /\ last \in 0 .. 7
  BY AzimuthsOfCurve
<1>4. /\ (IF sn = en THEN last ELSE NoAzimuth) \in -1 .. 7
      /\ (IF sn = en THEN first ELSE NoAzimuth) \in -1 .. 7
  BY <1>3 DEF NoAzimuth
<1>5. /\ span.cwFace \in -1 .. t.seq.face /\ span.ccwFace \in -1 .. t.seq.face
      /\ span.found => \E e \in DOMAIN t.edge : sn \in {t.edge[e].start_node, t.edge[e].end_node}
  <2> HIDE DEF first, last
  <2> QED
    BY <1>1, <1>3, <1>4, AdjacentEdgesFacts
<1>6. /\ epan.cwFace \in -1 .. t.seq.face /\ epan.ccwFace \in -1 .. t.seq.face
      /\ epan.found => \E e \in DOMAIN t.edge : en \in {t.edge[e].start_node, t.edge[e].end_node}
  <2> HIDE DEF first, last
  <2> QED
    BY <1>1, <1>3, <1>4, AdjacentEdgesFacts
<1> HIDE DEF ends, span, epan
<1>7. /\ span.found => t.node[sn].containing_face = Nowhere
      /\ epan.found => t.node[en].containing_face = Nowhere
  BY <1>5, <1>6 DEF Sound, Anchored
<1>8. iso \in SUBSET (0 .. t.seq.face)
  BY <1>1 DEF IsoFaces, Nowhere, Base, Sided
<1> HIDE DEF iso
<1>9. \/ side.corrupt /\ u = Fail(t, "corrupted topology")
      \/ ~side.corrupt /\ u = v
      \/ ~side.corrupt /\ u = split
  BY <1>2 DEF AddedEdge, iso
<1> HIDE DEF side, u
<1>10. SUFFICES ASSUME u.err = "done"
                PROVE  /\ Origins(u) = Origins(v) /\ Follows(u) = Follows(v)
                       /\ Azimuths(u) = Azimuths(v)
                       /\ u.seq.node = v.seq.node /\ u.seq.edge = v.seq.edge
  BY <1>2 DEF u, ends
<1>11. ~side.corrupt
  BY <1>1, <1>9, <1>10, FailIsNotDone
<1>12. f \in 0 .. t.seq.face
  BY <1>1, <1>5, <1>6, <1>8, <1>11, NewEdgeFaceIsKnown DEF side
<1> HIDE DEF f
<1>13. Sound(v) /\ v.seq.face = t.seq.face
  BY <1>7, <1>12, InsertLinkedEdgeIsSound
<1> HIDE DEF v
<1>14. SameLinks(v, split) /\ SameDrawing(v, split)
  BY <1>12, <1>13, SplitFaceLinks, SplitFaceIsSound DEF Sound
<1>15. \A e \in DOMAIN v.edge : e \in Nat /\ e > 0
  BY <1>13 DEF Sound, Base, Numbered
<1>16. /\ Origins(split) = Origins(v) /\ Follows(split) = Follows(v)
       /\ Azimuths(split) = Azimuths(v)
  <2> HIDE DEF split
  <2> QED
    BY <1>14, <1>15, SameLinksSameDarts
<1> HIDE DEF split
<1> QED
  BY <1>9, <1>11, <1>14, <1>16 DEF SameDrawing

\* What the links do not change when a new edge is tied in
LEMMA InsertLinkedEdgeColumns ==
  ASSUME NEW t, Base(t), NEW sn, NEW en, NEW c, NEW f, NEW span, NEW epan
  PROVE  LET id == NewEdge(t)
             u == InsertLinkedEdge(t, sn, en, c, f, span, epan)
         IN  /\ OneMoreEdge(t, u)
             /\ u.edge[id].start_node = sn /\ u.edge[id].end_node = en /\ u.edge[id].geom = c
             /\ u.seq.edge = id /\ u.seq.node = t.seq.node
<1> DEFINE id == NewEdge(t)
           links == NewEdgeLinks(id, sn = en, span, epan)
           r == [start_node |-> sn, end_node |-> en,
                 next_left |-> links.next_left, next_right |-> links.next_right,
                 face_left |-> f, face_right |-> f, geom |-> c]
           t1 == InsertEdge(t, r)
           t2 == LinkTo(t1, links.prev_left, id)
           t3 == LinkTo(t2, links.prev_right, -id)
           alone == (IF span.found THEN {} ELSE {sn}) \cup (IF epan.found THEN {} ELSE {en})
           u == InsertLinkedEdge(t, sn, en, c, f, span, epan)
<1>1. u = SetContainingFace(t3, alone, Nowhere)
  BY DEF InsertLinkedEdge
<1>2. /\ r.start_node = sn /\ r.end_node = en /\ r.geom = c
      /\ DOMAIN r = {"start_node", "end_node", "next_left", "next_right",
                     "face_left", "face_right", "geom"}
  OBVIOUS
<1> HIDE DEF links, r, alone, u
<1>3. t1.edge = With(t.edge, id, r) /\ t1.seq.edge = id /\ t1.seq.node = t.seq.node
  BY DEF InsertEdge, NewEdge, Base, Shaped
<1>4. DOMAIN t1 = DOMAIN t /\ DOMAIN t1.seq = DOMAIN t.seq /\ t1.node = t.node
  BY DEF InsertEdge, Base, Shaped
<1>5. id \notin DOMAIN t.edge
  BY NewIdsAreNew DEF Base
<1> HIDE DEF id, t1
<1>6. /\ DOMAIN t1.edge = DOMAIN t.edge \cup {id} /\ t1.edge[id] = r
      /\ \A e \in DOMAIN t.edge : t1.edge[e] = t.edge[e]
  BY <1>3, <1>5 DEF With
<1>7. Shaped(t1)
  BY <1>2, <1>4, <1>6 DEF Base, Shaped
<1>8. LinksOnly(t1, t2) /\ Shaped(t2)
  BY <1>7, LinkToLinksOnly DEF LinksOnly
<1> HIDE DEF t2
<1>9. LinksOnly(t2, t3) /\ Shaped(t3) /\ LinksOnly(t1, t3)
  BY <1>8, LinkToLinksOnly, LinksOnlyComposes DEF LinksOnly
<1> HIDE DEF t3
<1>10. u.edge = t3.edge /\ u.seq = t3.seq
  BY <1>1, <1>9 DEF SetContainingFace, Shaped
<1> QED
  BY <1>2, <1>3, <1>6, <1>9, <1>10 DEF LinksOnly, OneMoreEdge, id, u

\* _lwt_AddEdge ties an edge between two nodes in where its curve leaves and reaches them
LEMMA LinkedEdgeIsTied ==
  ASSUME NEW t, NEW sn, NEW en, NEW c, NEW f, NEW ends, NEW u,
         Base(t), sn # en, OnGrid(c), ends = EndsAround(t, sn, en, c),
         u = InsertLinkedEdge(t, sn, en, c, f, ends.span, ends.epan),
         Directed(Origins(t), Azimuths(t)), Directed(Origins(u), Azimuths(u))
  PROVE  EdgeTied(Origins(t), Follows(t), Azimuths(t),
                  Origins(u), Follows(u), Azimuths(u), NewEdge(t), sn, en)
<1> DEFINE id == NewEdge(t)
           back == -id
           span == ends.span
           epan == ends.epan
           links == NewEdgeLinks(id, FALSE, span, epan)
           org == Origins(t)
           next == Follows(t)
           az == Azimuths(t)
           org2 == Origins(u)
           next2 == Follows(u)
           az2 == Azimuths(u)
           M == Around(org, sn)
           N == Around(org, en)
<1>1. FirstAzimuth(c) \in 0 .. 7 /\ LastAzimuth(c) \in 0 .. 7
  BY AzimuthsOfCurve
<1>2. /\ OneMoreEdge(t, u)
      /\ u.edge[id].start_node = sn /\ u.edge[id].end_node = en /\ u.edge[id].geom = c
  BY InsertLinkedEdgeColumns
<1>3. /\ EdgeAdded(org, az, org2, az2, id, sn, en)
      /\ az2[id] = FirstAzimuth(c) /\ az2[back] = LastAzimuth(c)
  <2>1. /\ EdgeAdded(org, az, org2, az2, id, u.edge[id].start_node, u.edge[id].end_node)
        /\ az2[id] = FirstAzimuth(u.edge[id].geom) /\ az2[back] = LastAzimuth(u.edge[id].geom)
    BY <1>2, NewEdgeDarts
  <2> HIDE DEF id, back, org, az, org2, az2
  <2> QED
    BY <1>2, <2>1
<1>4. /\ \A d : d \in M <=> d \in Darts(t) /\ From(t, d) = sn /\ Abs(d) # 0
      /\ \A d : d \in N <=> d \in Darts(t) /\ From(t, d) = en /\ Abs(d) # 0
  BY StarIsAround
<1>5. DOMAIN org = Darts(t) /\ \A x \in Darts(t) : az[x] = DartAzimuth(t, x)
  BY DartFunctions
<1>6. /\ span = FindAdjacentEdges(t, sn, az2[id], NoAzimuth, 0)
      /\ epan = FindAdjacentEdges(t, en, az2[back], NoAzimuth, 0)
  BY <1>3 DEF EndsAround
<1>7. Directed(org, az) /\ Directed(org2, az2)
  OBVIOUS
<1> HIDE DEF id, span, epan, org, next, az, org2, next2, az2
<1>8. /\ \A x \in M : az2[x] = DartAzimuth(t, x) /\ az2[x] # az2[id]
      /\ \A x \in N : az2[x] = DartAzimuth(t, x) /\ az2[x] # az2[back]
  BY <1>3, <1>5, <1>7 DEF Around, Directed, EdgeAdded
<1> HIDE DEF M, N, back
<1>9. Adjacent(M, M, M, az2, id, span)
  BY <1>1, <1>3, <1>4, <1>6, <1>8, AdjacentEdgesAre
<1>10. Adjacent(N, N, N, az2, back, epan)
  BY <1>1, <1>3, <1>4, <1>6, <1>8, AdjacentEdgesAre
<1>11. links.prev_left \in Darts(t) \cup {id, back} /\ links.prev_right \in Darts(t) \cup {id, back}
  <2>1. \A x \in M \cup N : -x \in Darts(t)
    BY <1>4, <1>5, <1>7 DEF Directed
  <2>2. links.prev_left \in {id, back} \/ (M # {} /\ links.prev_left = -span.nextCCW)
    BY <1>9 DEF NewEdgeLinks, Linked, Adjacent, back
  <2>3. links.prev_right \in {id, back} \/ (N # {} /\ links.prev_right = -epan.nextCCW)
    BY <1>10 DEF NewEdgeLinks, Linked, Adjacent, back
  <2>4. (M # {} => span.nextCCW \in M) /\ (N # {} => epan.nextCCW \in N)
    BY <1>9, <1>10 DEF Adjacent
  <2> HIDE DEF links
  <2> QED
    BY <2>1, <2>2, <2>3, <2>4
<1>12. Written(org, next, next2, id, links)
  <2> DEFINE others == NewEdgeLinks(NewEdge(t), sn = en, ends.span, ends.epan)
  <2>1. links = others
    BY DEF id, span, epan
  <2> HIDE DEF links, others
  <2>2. {others.prev_left, others.prev_right} \subseteq Darts(t) \cup {NewEdge(t), -NewEdge(t)}
    BY <1>11, <2>1 DEF id, back
  <2>3. Written(Origins(t), Follows(t), Follows(u), NewEdge(t), others)
    BY <2>2, InsertLinkedEdgeFollows DEF others
  <2> QED
    BY <2>1, <2>3 DEF id, org, next, next2
<1>13. EdgeTied(org, next, az, org2, next2, az2, id, sn, en)
  BY <1>3, <1>7, <1>9, <1>10, <1>12, LinkedIsTied DEF M, N, back
<1> QED
  BY <1>13 DEF id, org, next, az, org2, next2, az2

\* And a loop, in its two places
LEMMA LinkedLoopIsTied ==
  ASSUME NEW t, NEW n, NEW c, NEW f, NEW ends, NEW u,
         Base(t), OnGrid(c), ends = EndsAround(t, n, n, c),
         u = InsertLinkedEdge(t, n, n, c, f, ends.span, ends.epan),
         Directed(Origins(t), Azimuths(t)), Directed(Origins(u), Azimuths(u))
  PROVE  LoopTied(Origins(t), Follows(t), Azimuths(t),
                  Origins(u), Follows(u), Azimuths(u), NewEdge(t), n)
<1> DEFINE id == NewEdge(t)
           back == -id
           span == ends.span
           epan == ends.epan
           links == NewEdgeLinks(id, TRUE, span, epan)
           org == Origins(t)
           next == Follows(t)
           az == Azimuths(t)
           org2 == Origins(u)
           next2 == Follows(u)
           az2 == Azimuths(u)
           S == Around(org, n)
           near == Between(S, az2, id, back)
           far == Beyond(S, az2, id, back)
<1>1. FirstAzimuth(c) \in 0 .. 7 /\ LastAzimuth(c) \in 0 .. 7
  BY AzimuthsOfCurve
<1>2. /\ OneMoreEdge(t, u)
      /\ u.edge[id].start_node = n /\ u.edge[id].end_node = n /\ u.edge[id].geom = c
  BY InsertLinkedEdgeColumns
<1>3. /\ EdgeAdded(org, az, org2, az2, id, n, n)
      /\ az2[id] = FirstAzimuth(c) /\ az2[back] = LastAzimuth(c)
  <2>1. /\ EdgeAdded(org, az, org2, az2, id, u.edge[id].start_node, u.edge[id].end_node)
        /\ az2[id] = FirstAzimuth(u.edge[id].geom) /\ az2[back] = LastAzimuth(u.edge[id].geom)
    BY <1>2, NewEdgeDarts
  <2> HIDE DEF id, back, org, az, org2, az2
  <2> QED
    BY <1>2, <2>1
<1>4. \A d : d \in S <=> d \in Darts(t) /\ From(t, d) = n /\ Abs(d) # 0
  BY StarIsAround
<1>5. DOMAIN org = Darts(t) /\ \A x \in Darts(t) : az[x] = DartAzimuth(t, x)
  BY DartFunctions
<1>6. /\ span = FindAdjacentEdges(t, n, az2[id], az2[back], 0)
      /\ epan = FindAdjacentEdges(t, n, az2[back], az2[id], 0)
  BY <1>3 DEF EndsAround
<1>7. Directed(org, az) /\ Directed(org2, az2)
  OBVIOUS
<1> HIDE DEF id, span, epan, org, next, az, org2, next2, az2
<1>8. S \cup {id, back} = Around(org2, n) /\ id # back /\ id \notin S /\ back \notin S
  BY <1>3 DEF Around, EdgeAdded
<1>9. Spread(S \cup {id, back}, az2)
  BY <1>7, <1>8, DirectedSpreads
<1>10. /\ \A x \in S : az2[x] = DartAzimuth(t, x) /\ az2[x] # az2[id] /\ az2[x] # az2[back]
       /\ az2[id] # az2[back]
  <2>1. \A x \in S : az2[x] = DartAzimuth(t, x)
    BY <1>3, <1>5 DEF Around, EdgeAdded
  <2> HIDE DEF S, back
  <2> QED
    BY <1>8, <1>9, <2>1 DEF Spread
<1> HIDE DEF S, back
<1>11. Between(S, az2, back, id) = far /\ Beyond(S, az2, back, id) = near
  BY <1>8, <1>9, BetweenIsBeyond
<1>12. near \subseteq S /\ far \subseteq S
  BY DEF Between, Beyond
<1>13. Adjacent(S, near, far, az2, id, span)
  <2>1. az2[id] \in 0 .. 7 /\ az2[back] \in 0 .. 7
    BY <1>1, <1>3
  <2>2. Adjacent(S, near, far, az2, id, FindAdjacentEdges(t, n, az2[id], az2[back], 0))
    BY <1>4, <1>10, <2>1, AdjacentEdgesToLoop
  <2> QED
    BY <1>6, <2>2
<1>14. Adjacent(S, far, near, az2, back, epan)
  <2>1. az2[id] \in 0 .. 7 /\ az2[back] \in 0 .. 7
    BY <1>1, <1>3
  <2>2. Adjacent(S, Between(S, az2, back, id), Beyond(S, az2, back, id), az2, back,
                 FindAdjacentEdges(t, n, az2[back], az2[id], 0))
    BY <1>4, <1>10, <2>1, AdjacentEdgesToLoop
  <2> HIDE DEF near, far
  <2> QED
    BY <1>6, <1>11, <2>2
<1> HIDE DEF near, far
<1>15. links.prev_left \in Darts(t) \cup {id, back} /\ links.prev_right \in Darts(t) \cup {id, back}
  <2>1. \A x \in S : -x \in Darts(t)
    BY <1>4, <1>5, <1>7 DEF Directed
  <2>2. links.prev_left \in {id, back} \/ (far # {} /\ links.prev_left = -span.nextCCW)
    BY <1>13 DEF NewEdgeLinks, Linked, Adjacent, back
  <2>3. links.prev_right \in {id, back} \/ (near # {} /\ links.prev_right = -epan.nextCCW)
    BY <1>14 DEF NewEdgeLinks, Linked, Adjacent, back
  <2>4. (far # {} => span.nextCCW \in S) /\ (near # {} => epan.nextCCW \in S)
    BY <1>13, <1>14 DEF Adjacent
  <2> HIDE DEF links
  <2> QED
    BY <2>1, <2>2, <2>3, <2>4
<1>16. Written(org, next, next2, id, links)
  <2> DEFINE others == NewEdgeLinks(NewEdge(t), n = n, ends.span, ends.epan)
  <2>1. links = others
    BY DEF id, span, epan
  <2> HIDE DEF links, others
  <2>2. {others.prev_left, others.prev_right} \subseteq Darts(t) \cup {NewEdge(t), -NewEdge(t)}
    BY <1>15, <2>1 DEF id, back
  <2>3. Written(Origins(t), Follows(t), Follows(u), NewEdge(t), others)
    BY <2>2, InsertLinkedEdgeFollows DEF others
  <2> QED
    BY <2>1, <2>3 DEF id, org, next, next2
<1>17. LoopTied(org, next, az, org2, next2, az2, id, n)
  <2>1. S = Around(org, n) /\ near = Between(S, az2, id, -id) /\ far = Beyond(S, az2, id, -id)
    BY DEF S, near, far, back
  <2> QED
    BY <1>3, <1>7, <1>9, <1>13, <1>14, <1>16, <2>1, LinkedIsLoopTied DEF back
<1> QED
  BY <1>17 DEF id, org, next, az, org2, next2, az2

\* ST_AddEdgeNewFaces and ST_AddEdgeModFace
LEMMA AddEdgeAdvances ==
  ASSUME PlanarInv, PlanarInv', Turning(Tables), NEW sn \in DOMAIN node, NEW en \in DOMAIN node,
         NEW c \in Curves, NEW modFace \in BOOLEAN, AddEdge(sn, en, c, modFace)
  PROVE  Advances
<1> DEFINE t == Tables
           ends == EndsAround(t, sn, en, c)
           u == AddedEdge(t, sn, en, c, ends, modFace)
           id == NewEdge(t)
<1>1. EndsAtNodes(t, sn, en, c) /\ Finish(u)
  BY DEF AddEdge, CanAddEdge, CanDrawEdge
<1>2. Sound(t) /\ Base(t) /\ sn \in DOMAIN t.node /\ en \in DOMAIN t.node /\ id = seq.edge + 1
  BY TablesFacts DEF PlanarInv, Inv, Sound, NewEdge
<1>3. OnGrid(c)
  BY CurveFacts
<1> HIDE DEF u
<1>4. CASE u.err # "done"
  BY <1>1, <1>4, FailureAdvances DEF PlanarInv
<1>5. CASE u.err = "done"
  <2>1. PICK f : LET v == InsertLinkedEdge(t, sn, en, c, f, ends.span, ends.epan)
                 IN  /\ Origins(u) = Origins(v) /\ Follows(u) = Follows(v)
                     /\ Azimuths(u) = Azimuths(v)
                     /\ u.seq.node = v.seq.node /\ u.seq.edge = v.seq.edge
    <3> HIDE DEF t
    <3> QED
      BY <1>1, <1>2, <1>3, <1>5, AddedEdgeLinks DEF u
  <2> DEFINE v == InsertLinkedEdge(t, sn, en, c, f, ends.span, ends.epan)
  <2>2. u.seq.edge = id /\ u.seq.node = seq.node
    <3>1. v.seq.edge = id /\ v.seq.node = t.seq.node
      BY <1>2, InsertLinkedEdgeColumns
    <3> QED
      BY <2>1, <3>1, TablesFacts
  <2>3. /\ Origins(u) = Origins(v) /\ Follows(u) = Follows(v) /\ Azimuths(u) = Azimuths(v)
    BY <2>1
  <2> HIDE DEF v
  <2>4. Directed(Origins(t), Azimuths(t)) /\ Directed(Origins(v), Azimuths(v))
    <3>1. Origins(Tables)' = Origins(u) /\ Azimuths(Tables)' = Azimuths(u)
      BY <1>1, <1>5, FinishShows
    <3> QED
      BY <2>3, <3>1, CallsKeepDirected
  <2> HIDE DEF t
  <2>5. CASE sn = en
    <3>1. LoopTied(Origins(t), Follows(t), Azimuths(t),
                   Origins(v), Follows(v), Azimuths(v), id, sn)
      BY <1>2, <1>3, <2>4, <2>5, LinkedLoopIsTied DEF v
    <3>2. LoopTied(Origins(t), Follows(t), Azimuths(t),
                   Origins(u), Follows(u), Azimuths(u), id, sn)
      BY <2>3, <3>1
    <3> HIDE DEF id
    <3> QED
      BY <1>1, <1>2, <1>5, <2>2, <3>2, LoopAdvances DEF t
  <2>6. CASE sn # en
    <3>1. EdgeTied(Origins(t), Follows(t), Azimuths(t),
                   Origins(v), Follows(v), Azimuths(v), id, sn, en)
      BY <1>2, <1>3, <2>4, <2>6, LinkedEdgeIsTied DEF v
    <3>2. EdgeTied(Origins(t), Follows(t), Azimuths(t),
                   Origins(u), Follows(u), Azimuths(u), id, sn, en)
      BY <2>3, <3>1
    <3> HIDE DEF id
    <3> QED
      BY <1>1, <1>2, <1>5, <2>2, <3>2, TieAdvances DEF t
  <2> QED
    BY <2>5, <2>6
<1> QED
  BY <1>4, <1>5

\* The two darts of an edge
LEMMA EdgeDarts ==
  ASSUME NEW t, NEW e, \A x \in DOMAIN t.edge : x \in Nat /\ x > 0, e \in DOMAIN t.edge
  PROVE  /\ e \in DOMAIN Origins(t) /\ -e \in DOMAIN Origins(t) /\ e \in Int /\ e # -e /\ -(-e) = e
         /\ Origins(t)[e] = t.edge[e].start_node /\ Origins(t)[-e] = t.edge[e].end_node
         /\ Follows(t)[e] = t.edge[e].next_left /\ Follows(t)[-e] = t.edge[e].next_right
         /\ Azimuths(t)[e] = FirstAzimuth(t.edge[e].geom)
         /\ Azimuths(t)[-e] = LastAzimuth(t.edge[e].geom)
<1>1. e \in Darts(t) /\ -e \in Darts(t) /\ e > 0 /\ ~(-e > 0) /\ -(-e) = e /\ e \in Int /\ e # -e
  BY DEF Darts
<1>2. /\ From(t, e) = t.edge[e].start_node /\ From(t, -e) = t.edge[e].end_node
      /\ NextDart(t, e) = t.edge[e].next_left /\ NextDart(t, -e) = t.edge[e].next_right
      /\ DartAzimuth(t, e) = FirstAzimuth(t.edge[e].geom)
      /\ DartAzimuth(t, -e) = LastAzimuth(t.edge[e].geom)
  BY <1>1 DEF From, NextDart, DartAzimuth
<1> QED
  BY <1>1, <1>2, DartFunctions

\* And there are no others
LEMMA DartsAreOfEdges ==
  ASSUME NEW t
  PROVE  /\ DOMAIN Origins(t) = DOMAIN t.edge \cup {-e : e \in DOMAIN t.edge}
         /\ \A d \in DOMAIN Origins(t) : \E x \in DOMAIN t.edge : d = x \/ d = -x
<1>1. DOMAIN Origins(t) = DOMAIN t.edge \cup {-e : e \in DOMAIN t.edge}
  BY DartFunctions DEF Darts
<1>2. \A d \in DOMAIN t.edge \cup {-e : e \in DOMAIN t.edge} :
        \E x \in DOMAIN t.edge : d = x \/ d = -x
  OBVIOUS
<1> QED
  BY <1>1, <1>2

\* Edge e is gone, and the links that led to it lead past it
EdgeGone(t, u, e) ==
  /\ DOMAIN u.edge = DOMAIN t.edge \ {e}
  /\ \A x \in DOMAIN u.edge :
       /\ u.edge[x].start_node = t.edge[x].start_node
       /\ u.edge[x].end_node = t.edge[x].end_node
       /\ u.edge[x].geom = t.edge[x].geom
       /\ u.edge[x].next_left = SkipEdge(Follows(t), e, t.edge[x].next_left)
       /\ u.edge[x].next_right = SkipEdge(Follows(t), e, t.edge[x].next_right)

\* Its darts are gone
LEMMA GoneIsRemoved ==
  ASSUME NEW t, NEW u, NEW e, Base(t), e \in DOMAIN t.edge, EdgeGone(t, u, e)
  PROVE  EdgeRemoved(Origins(t), Follows(t), Azimuths(t),
                     Origins(u), Follows(u), Azimuths(u), e)
<1>1. \A x \in DOMAIN t.edge : x \in Nat /\ x > 0
  BY DEF Base, Numbered
<1>2. /\ DOMAIN u.edge = DOMAIN t.edge \ {e}
      /\ \A x \in DOMAIN u.edge : x \in Nat /\ x > 0
  BY <1>1 DEF EdgeGone
<1>3. e \in DOMAIN Origins(t)
  BY <1>1, EdgeDarts
<1>4. DOMAIN Origins(u) = DOMAIN Origins(t) \ {e, -e}
  <2>1. Darts(u) = Darts(t) \ {e, -e}
    BY <1>1, <1>2 DEF Darts
  <2> QED
    BY <2>1, DartFunctions
<1>5. ASSUME NEW d \in DOMAIN Origins(u)
      PROVE  /\ Origins(u)[d] = Origins(t)[d] /\ Azimuths(u)[d] = Azimuths(t)[d]
             /\ Follows(u)[d] = SkipEdge(Follows(t), e, Follows(t)[d])
  <2>1. PICK x \in DOMAIN u.edge : d = x \/ d = -x
    BY DartsAreOfEdges
  <2>2. x \in DOMAIN t.edge
    BY <1>2
  <2>3. /\ Origins(u)[x] = u.edge[x].start_node /\ Origins(u)[-x] = u.edge[x].end_node
        /\ Follows(u)[x] = u.edge[x].next_left /\ Follows(u)[-x] = u.edge[x].next_right
        /\ Azimuths(u)[x] = FirstAzimuth(u.edge[x].geom)
        /\ Azimuths(u)[-x] = LastAzimuth(u.edge[x].geom)
    BY <1>2, EdgeDarts
  <2>4. /\ Origins(t)[x] = t.edge[x].start_node /\ Origins(t)[-x] = t.edge[x].end_node
        /\ Follows(t)[x] = t.edge[x].next_left /\ Follows(t)[-x] = t.edge[x].next_right
        /\ Azimuths(t)[x] = FirstAzimuth(t.edge[x].geom)
        /\ Azimuths(t)[-x] = LastAzimuth(t.edge[x].geom)
    BY <1>1, <2>2, EdgeDarts
  <2>5. /\ u.edge[x].start_node = t.edge[x].start_node
        /\ u.edge[x].end_node = t.edge[x].end_node
        /\ u.edge[x].geom = t.edge[x].geom
        /\ u.edge[x].next_left = SkipEdge(Follows(t), e, t.edge[x].next_left)
        /\ u.edge[x].next_right = SkipEdge(Follows(t), e, t.edge[x].next_right)
    BY DEF EdgeGone
  <2> QED
    BY <2>1, <2>3, <2>4, <2>5
<1> QED
  BY <1>3, <1>4, <1>5 DEF EdgeRemoved

\* A link leads to a dart that leaves the node it is at: one to edge e is of an edge that
\* shares a node with e
LEMMA LinksAreNear ==
  ASSUME NEW t, NEW e, NEW x, Base(t), Directed(Origins(t), Azimuths(t)), Turning(t),
         e \in DOMAIN t.edge, x \in DOMAIN t.edge
  PROVE  /\ t.edge[x].next_left \in Int /\ t.edge[x].next_right \in Int
         /\ t.edge[x].next_left = e => t.edge[x].end_node = t.edge[e].start_node
         /\ t.edge[x].next_left = -e => t.edge[x].end_node = t.edge[e].end_node
         /\ t.edge[x].next_right = e => t.edge[x].start_node = t.edge[e].start_node
         /\ t.edge[x].next_right = -e => t.edge[x].start_node = t.edge[e].end_node
<1>1. \A y \in DOMAIN t.edge : y \in Nat /\ y > 0
  BY DEF Base, Numbered
<1>2. /\ x \in DOMAIN Origins(t) /\ -x \in DOMAIN Origins(t) /\ -(-x) = x
      /\ Origins(t)[x] = t.edge[x].start_node /\ Origins(t)[-x] = t.edge[x].end_node
      /\ Follows(t)[x] = t.edge[x].next_left /\ Follows(t)[-x] = t.edge[x].next_right
  BY <1>1, EdgeDarts
<1>3. Origins(t)[e] = t.edge[e].start_node /\ Origins(t)[-e] = t.edge[e].end_node
  BY <1>1, EdgeDarts
<1>4. \A d \in DOMAIN Origins(t) : /\ Follows(t)[d] \in DOMAIN Origins(t)
                                   /\ Origins(t)[Follows(t)[d]] = Origins(t)[-d]
  BY FollowsNode DEF Turning
<1>5. \A d \in DOMAIN Origins(t) : d \in Int
  BY DEF Directed
<1>6. /\ Origins(t)[t.edge[x].next_left] = t.edge[x].end_node
      /\ Origins(t)[t.edge[x].next_right] = t.edge[x].start_node
      /\ t.edge[x].next_left \in Int /\ t.edge[x].next_right \in Int
  BY <1>2, <1>4, <1>5
<1> QED
  BY <1>3, <1>6

\* ST_RemoveIsoEdge
LEMMA RemIsoEdgeAdvances ==
  ASSUME PlanarInv, PlanarInv', Turning(Tables), NEW e \in DOMAIN edge, RemIsoEdge(e)
  PROVE  Advances
<1> DEFINE t == Tables
           r == t.edge[e]
           N == {r.start_node, r.end_node}
           u == DeleteEdges(t, {e})
           v == SetContainingFace(u, N, r.face_left)
<1>1. IncidentEdges(t, N) = {e} /\ Finish(v)
  BY TablesFacts DEF RemIsoEdge
<1>2. /\ Base(t) /\ Shaped(t) /\ e \in DOMAIN t.edge /\ t.seq = seq /\ t.err = "done"
      /\ Directed(Origins(t), Azimuths(t)) /\ Turning(t)
  BY TablesFacts, CallsKeepDirected DEF PlanarInv, Inv, Sound, Base
<1> HIDE DEF t
<1>3. /\ Base(u) /\ u.seq = t.seq /\ u.err = t.err
      /\ DOMAIN u.edge = DOMAIN t.edge \ {e}
      /\ \A x \in DOMAIN u.edge : u.edge[x] = t.edge[x]
  BY <1>2, DeleteEdgesFacts
<1> HIDE DEF u
<1>4. v.edge = u.edge /\ v.seq = u.seq /\ v.err = u.err
  BY <1>3 DEF SetContainingFace, Base, Shaped
<1> HIDE DEF v
<1>5. EdgeGone(t, v, e)
  <2>1. ASSUME NEW x \in DOMAIN t.edge \ {e}
        PROVE  /\ t.edge[x].next_left = SkipEdge(Follows(t), e, t.edge[x].next_left)
               /\ t.edge[x].next_right = SkipEdge(Follows(t), e, t.edge[x].next_right)
    <3>1. t.edge[x].start_node \notin N /\ t.edge[x].end_node \notin N
      BY <1>1 DEF IncidentEdges
    <3>2. t.edge[x].next_left \notin {e, -e} /\ t.edge[x].next_right \notin {e, -e}
      BY <1>2, <3>1, LinksAreNear
    <3> QED
      BY <3>2 DEF SkipEdge
  <2> QED
    BY <1>3, <1>4, <2>1 DEF EdgeGone
<1>6. EdgeRemoved(Origins(t), Follows(t), Azimuths(t), Origins(v), Follows(v), Azimuths(v), e)
  BY <1>2, <1>5, GoneIsRemoved
<1>7. v.err = "done" /\ v.seq = seq
  BY <1>2, <1>3, <1>4
<1>8. e > 0 /\ e \in 1 .. MaxEdge
  <2>1. v.seq.edge <= MaxEdge
    BY <1>1, <1>7, FinishShows
  <2>2. e \in Nat /\ e > 0 /\ e <= seq.edge /\ seq.edge \in Nat
    BY <1>2 DEF Base, Numbered
  <2> QED
    BY <1>7, <2>1, <2>2, Bounds
<1> QED
  BY <1>1, <1>6, <1>7, <1>8, RemoveAdvances DEF t

\* Healing two faces changes no link, and fails when one of them is not there
LEMMA HealFacesLinks ==
  ASSUME NEW t, Base(t), NEW e, NEW modFace
  PROVE  LET h == HealFaces(t, e, modFace)
         IN  SameLinks(t, h.t) /\ h.t.err \in {t.err, "corrupted topology"}
<1> DEFINE left == t.edge[e].face_left
           right == t.edge[e].face_right
           real == Universe \notin {left, right}
           flood == IF ~real THEN Universe ELSE IF modFace THEN right ELSE NewFace(t)
           box == BoxUnion(t.face[left], t.face[right])
           boxed == [t EXCEPT !.face[right] = box]
           grown == InsertFace(t, box)
           t1 == IF ~real THEN t ELSE IF modFace THEN boxed ELSE grown
           F == {left, right} \ {flood, Nowhere}
           t2 == UpdateFaceRef(t1, F, flood)
           t3 == UpdateTopoGeomFaceHeal(t2, right, left, flood)
           failed == Fail(t, "corrupted topology")
           h == HealFaces(t, e, modFace)
<1>1. h.t \in {t, failed, t3}
  BY DEF HealFaces
<1>a. failed.edge = t.edge /\ failed.err \in {t.err, "corrupted topology"}
  BY DEF Fail, Base, Shaped
<1> HIDE DEF failed
<1>2. /\ t1.edge = t.edge /\ t1.err = t.err /\ DOMAIN t1 = DOMAIN t
  <2>1. boxed.edge = t.edge /\ boxed.err = t.err /\ DOMAIN boxed = DOMAIN t
    BY DEF Base, Shaped
  <2>2. grown.edge = t.edge /\ grown.err = t.err /\ DOMAIN grown = DOMAIN t
    BY DEF Base, Shaped, InsertFace
  <2> QED
    BY <2>1, <2>2
<1> HIDE DEF t1, F, flood, h, left, right
<1>3. SameLinks(t, t2) /\ t2.err = t.err /\ DOMAIN t2 = DOMAIN t
  BY <1>2 DEF UpdateFaceRef, SetContainingFace, SameLinks, Base, Shaped
<1> HIDE DEF t2
<1>4. t3.edge = t2.edge /\ t3.err = t2.err
  BY <1>3 DEF UpdateTopoGeomFaceHeal, Base, Shaped
<1> HIDE DEF t3
<1>5. SameLinks(t, t) /\ SameLinks(t, failed) /\ SameLinks(t, t3)
  BY <1>3, <1>4, <1>a DEF SameLinks
<1> QED
  BY <1>1, <1>3, <1>4, <1>5, <1>a DEF h

\* ST_RemEdgeModFace and ST_RemEdgeNewFace
LEMMA RemEdgeAdvances ==
  ASSUME PlanarInv, PlanarInv', Turning(Tables),
         NEW e \in DOMAIN edge, NEW modFace \in BOOLEAN, RemEdge(e, modFace)
  PROVE  Advances
<1> DEFINE t == Tables
           old == t.edge[e]
           p == LinkPast(t, e)
           h == HealFaces(p, e, modFace)
           t1 == DeleteEdges(h.t, {e})
           bare == {n \in {old.start_node, old.end_node} : IncidentEdges(t, {n}) = {e}}
           t2 == SetContainingFace(t1, bare, h.flood)
           u == DeleteFaces(t2, h.gone)
<1>1. Finish(u)
  BY TablesFacts DEF RemEdge
<1>2. /\ Sound(t) /\ Base(t) /\ Shaped(t) /\ e \in DOMAIN t.edge /\ t.seq = seq /\ t.err = "done"
      /\ Directed(Origins(t), Azimuths(t)) /\ Turning(t)
      /\ \A x \in DOMAIN t.edge : x \in Nat /\ x > 0
  BY TablesFacts, CallsKeepDirected DEF PlanarInv, Inv, Sound, Base, Numbered
<1> HIDE DEF t
<1>3. LinksOnly(t, p)
  BY <1>2, LinkPastLinksOnly
<1>4. ASSUME NEW x \in DOMAIN t.edge \ {e}
      PROVE  /\ p.edge[x].next_left = SkipEdge(Follows(t), e, t.edge[x].next_left)
             /\ p.edge[x].next_right = SkipEdge(Follows(t), e, t.edge[x].next_right)
  <2> DEFINE pastBack == IF old.next_left # e THEN old.next_left ELSE old.next_right
             past == IF old.next_right # -e THEN old.next_right ELSE old.next_left
             Skip(d) == CASE d = -e -> pastBack [] d = e -> past [] OTHER -> d
             near == IncidentEdges(t, {old.start_node, old.end_node}) \ {e}
             r == t.edge[x]
  <2>1. Follows(t)[e] = old.next_left /\ Follows(t)[-e] = old.next_right /\ e # -e
    BY <1>2, EdgeDarts
  <2>2. \A d : Skip(d) = SkipEdge(Follows(t), e, d)
    BY <2>1 DEF SkipEdge
  <2>3. p.edge[x] = IF x \in near
                    THEN [r EXCEPT !.next_left = Skip(@), !.next_right = Skip(@)]
                    ELSE r
    BY <1>2 DEF LinkPast, Shaped
  <2>4. DOMAIN r = {"start_node", "end_node", "next_left", "next_right",
                    "face_left", "face_right", "geom"}
    BY <1>2 DEF Shaped
  <2>5. CASE x \in near
    <3>1. p.edge[x].next_left = Skip(r.next_left) /\ p.edge[x].next_right = Skip(r.next_right)
      <4> HIDE DEF near, r, pastBack, past, p
      <4> QED
        BY <2>3, <2>4, <2>5
    <3> HIDE DEF Skip, p
    <3> QED
      BY <2>2, <3>1
  <2>6. CASE x \notin near
    <3>1. /\ r.start_node \notin {old.start_node, old.end_node}
          /\ r.end_node \notin {old.start_node, old.end_node}
      BY <2>6 DEF IncidentEdges
    <3>2. r.next_left \notin {e, -e} /\ r.next_right \notin {e, -e}
      BY <1>2, <3>1, LinksAreNear
    <3>3. p.edge[x] = r
      <4> HIDE DEF near, r, p
      <4> QED
        BY <2>3, <2>6
    <3> HIDE DEF p
    <3> QED
      BY <3>2, <3>3 DEF SkipEdge
  <2> QED
    BY <2>5, <2>6
<1> HIDE DEF p
<1>5. Sound(p) /\ e \in DOMAIN p.edge /\ p.seq = t.seq /\ p.err = t.err
  BY <1>2, <1>3, LinksAreFacesOnly, FacesOnlyIsSound DEF FacesOnly, LinksOnly
<1>6. /\ Sound(h.t) /\ SameDrawing(p, h.t) /\ SameLinks(p, h.t)
      /\ h.t.err \in {"done", "corrupted topology"}
  BY <1>2, <1>5, HealFacesFacts, HealFacesLinks DEF Sound
<1> HIDE DEF h
<1>7. /\ Base(t1) /\ t1.seq = h.t.seq /\ t1.err = h.t.err
      /\ DOMAIN t1.edge = DOMAIN h.t.edge \ {e}
      /\ \A x \in DOMAIN t1.edge : t1.edge[x] = h.t.edge[x]
  BY <1>6, DeleteEdgesFacts DEF Sound
<1> HIDE DEF t1
<1>8. t2.edge = t1.edge /\ t2.seq = t1.seq /\ t2.err = t1.err /\ DOMAIN t2 = DOMAIN t1
  <2> HIDE DEF bare
  <2> QED
    BY <1>7 DEF SetContainingFace, Base, Shaped
<1> HIDE DEF t2
<1>9. u.edge = t1.edge /\ u.seq = t1.seq /\ u.err = t1.err
  BY <1>7, <1>8 DEF DeleteFaces, Base, Shaped
<1> HIDE DEF u
<1>10. EdgeGone(t, u, e)
  <2>1. /\ DOMAIN u.edge = DOMAIN t.edge \ {e}
        /\ \A x \in DOMAIN u.edge : u.edge[x] = h.t.edge[x]
    BY <1>3, <1>6, <1>7, <1>9 DEF SameLinks, LinksOnly
  <2>2. \A x \in DOMAIN t.edge : /\ h.t.edge[x].start_node = t.edge[x].start_node
                                 /\ h.t.edge[x].end_node = t.edge[x].end_node
                                 /\ h.t.edge[x].geom = t.edge[x].geom
                                 /\ h.t.edge[x].next_left = p.edge[x].next_left
                                 /\ h.t.edge[x].next_right = p.edge[x].next_right
    BY <1>3, <1>6 DEF SameLinks, LinksOnly
  <2> QED
    BY <1>4, <2>1, <2>2 DEF EdgeGone
<1>11. EdgeRemoved(Origins(t), Follows(t), Azimuths(t), Origins(u), Follows(u), Azimuths(u), e)
  BY <1>2, <1>10, GoneIsRemoved
<1>12. u.err \in {"done", "corrupted topology"} /\ u.seq.edge = seq.edge
  BY <1>2, <1>5, <1>6, <1>7, <1>9 DEF SameDrawing
<1>13. CASE u.err # "done"
  BY <1>1, <1>13, FailureAdvances DEF PlanarInv
<1>14. CASE u.err = "done"
  <2>1. e > 0 /\ e \in 1 .. MaxEdge
    <3>1. u.seq.edge <= MaxEdge
      BY <1>1, <1>14 DEF Finish, Store
    <3>2. e \in Nat /\ e > 0 /\ e <= seq.edge /\ seq.edge \in Nat
      BY <1>2 DEF Base, Numbered
    <3>3. seq.edge <= MaxEdge /\ MaxEdge \in Nat
      BY <1>12, <3>1, Bounds
    <3> QED
      BY <3>2, <3>3
  <2> QED
    BY <1>1, <1>11, <1>12, <1>14, <2>1, RemoveAdvances DEF t
<1> QED
  BY <1>12, <1>13, <1>14

\* The columns that cb_updateEdges sets
LEMMA RedirectShows ==
  ASSUME NEW t, Shaped(t), NEW old, NEW at, NEW new, NEW except
  PROVE  /\ \A x \in DOMAIN t.edge :
              /\ RedirectRight(t, old, at, new, except).edge[x].next_left = t.edge[x].next_left
              /\ RedirectRight(t, old, at, new, except).edge[x].next_right =
                   IF t.edge[x].next_right = old /\ t.edge[x].start_node \in at /\ x # except
                   THEN new ELSE t.edge[x].next_right
         /\ \A x \in DOMAIN t.edge :
              /\ RedirectLeft(t, old, at, new, except).edge[x].next_right = t.edge[x].next_right
              /\ RedirectLeft(t, old, at, new, except).edge[x].next_left =
                   IF t.edge[x].next_left = old /\ t.edge[x].end_node \in at /\ x # except
                   THEN new ELSE t.edge[x].next_left
<1>1. ASSUME NEW x \in DOMAIN t.edge
      PROVE  /\ RedirectRight(t, old, at, new, except).edge[x].next_left = t.edge[x].next_left
             /\ RedirectRight(t, old, at, new, except).edge[x].next_right =
                  IF t.edge[x].next_right = old /\ t.edge[x].start_node \in at /\ x # except
                  THEN new ELSE t.edge[x].next_right
  BY DEF RedirectRight, Shaped
<1>2. ASSUME NEW x \in DOMAIN t.edge
      PROVE  /\ RedirectLeft(t, old, at, new, except).edge[x].next_right = t.edge[x].next_right
             /\ RedirectLeft(t, old, at, new, except).edge[x].next_left =
                  IF t.edge[x].next_left = old /\ t.edge[x].end_node \in at /\ x # except
                  THEN new ELSE t.edge[x].next_left
  BY DEF RedirectLeft, Shaped
<1> QED
  BY <1>1, <1>2

\* A cut curve leaves and arrives as the whole does
LEMMA CutsKeepAzimuths ==
  ASSUME NEW c, OnGrid(c), NEW i \in 2 .. Len(c) - 1
  PROVE  FirstAzimuth(CutBefore(c, i)) = FirstAzimuth(c) /\ LastAzimuth(CutAfter(c, i)) = LastAzimuth(c)
<1>1. c \in Seq(LatticePoints) /\ Len(c) \in Nat
  BY DEF OnGrid
<1>2. /\ Len(CutBefore(c, i)) = i /\ CutBefore(c, i)[1] = c[1] /\ CutBefore(c, i)[2] = c[2]
  BY <1>1 DEF CutBefore
<1>3. /\ Len(CutAfter(c, i)) = Len(c) - i + 1
      /\ CutAfter(c, i)[Len(c) - i + 1] = c[Len(c)] /\ CutAfter(c, i)[Len(c) - i] = c[Len(c) - 1]
  BY <1>1 DEF CutAfter
<1>4. Len(c) - i + 1 - 1 = Len(c) - i
  BY <1>1
<1> QED
  BY <1>2, <1>3, <1>4 DEF FirstAzimuth, LastAzimuth

\* Edge e is cut at node n in halves f and g
EdgeCut(t, u, e, f, g, n) ==
  /\ DOMAIN u.edge = (DOMAIN t.edge \ {e}) \cup {f, g}
  /\ u.edge[f].start_node = t.edge[e].start_node /\ u.edge[f].end_node = n
  /\ u.edge[f].next_left = g
  /\ u.edge[f].next_right = HalfOf(e, f, g, t.edge[e].next_right)
  /\ FirstAzimuth(u.edge[f].geom) = FirstAzimuth(t.edge[e].geom)
  /\ u.edge[g].start_node = n /\ u.edge[g].end_node = t.edge[e].end_node
  /\ u.edge[g].next_left = HalfOf(e, f, g, t.edge[e].next_left)
  /\ u.edge[g].next_right = -f
  /\ LastAzimuth(u.edge[g].geom) = LastAzimuth(t.edge[e].geom)
  /\ \A x \in DOMAIN t.edge \ {e} :
       /\ u.edge[x].start_node = t.edge[x].start_node
       /\ u.edge[x].end_node = t.edge[x].end_node
       /\ u.edge[x].geom = t.edge[x].geom
       /\ u.edge[x].next_left = HalfOf(e, f, g, t.edge[x].next_left)
       /\ u.edge[x].next_right = HalfOf(e, f, g, t.edge[x].next_right)

\* Its darts are split
LEMMA CutIsSplit ==
  ASSUME NEW t, NEW u, NEW e, NEW f, NEW g, NEW n, Base(t), EdgeCut(t, u, e, f, g, n),
         e \in DOMAIN t.edge, f \in Nat, f > 0, g \in Nat, g > 0, f # g,
         f \notin DOMAIN t.edge \ {e}, g \notin DOMAIN t.edge, n \notin DOMAIN t.node
  PROVE  EdgeSplit(Origins(t), Follows(t), Azimuths(t),
                   Origins(u), Follows(u), Azimuths(u), e, f, g, n)
<1>1. \A x \in DOMAIN t.edge : x \in Nat /\ x > 0
  BY DEF Base, Numbered
<1>2. /\ DOMAIN u.edge = (DOMAIN t.edge \ {e}) \cup {f, g}
      /\ \A x \in DOMAIN u.edge : x \in Nat /\ x > 0
  BY <1>1 DEF EdgeCut
<1>3. /\ e \in DOMAIN Origins(t)
      /\ Origins(t)[e] = t.edge[e].start_node /\ Origins(t)[-e] = t.edge[e].end_node
      /\ Follows(t)[e] = t.edge[e].next_left /\ Follows(t)[-e] = t.edge[e].next_right
      /\ Azimuths(t)[e] = FirstAzimuth(t.edge[e].geom)
      /\ Azimuths(t)[-e] = LastAzimuth(t.edge[e].geom)
  BY <1>1, EdgeDarts
<1>4. /\ Origins(u)[f] = u.edge[f].start_node /\ Origins(u)[-f] = u.edge[f].end_node
      /\ Follows(u)[f] = u.edge[f].next_left /\ Follows(u)[-f] = u.edge[f].next_right
      /\ Azimuths(u)[f] = FirstAzimuth(u.edge[f].geom)
  BY <1>2, EdgeDarts
<1>5. /\ Origins(u)[g] = u.edge[g].start_node /\ Origins(u)[-g] = u.edge[g].end_node
      /\ Follows(u)[g] = u.edge[g].next_left /\ Follows(u)[-g] = u.edge[g].next_right
      /\ Azimuths(u)[-g] = LastAzimuth(u.edge[g].geom)
  BY <1>2, EdgeDarts
<1>6. DOMAIN Origins(u) = (DOMAIN Origins(t) \ {e, -e}) \cup {f, -f, g, -g}
  <2>1. Darts(u) = (Darts(t) \ {e, -e}) \cup {f, -f, g, -g}
    BY <1>1, <1>2 DEF Darts
  <2> QED
    BY <2>1, DartFunctions
<1>7. /\ \A x \in {f, -f} : x \notin DOMAIN Origins(t) \ {e, -e}
      /\ g \notin DOMAIN Origins(t) /\ -g \notin DOMAIN Origins(t)
  <2>1. /\ \A x \in {f, -f} : x \notin Darts(t) \ {e, -e}
        /\ g \notin Darts(t) /\ -g \notin Darts(t)
    BY <1>1 DEF Darts
  <2> QED
    BY <2>1, DartFunctions
<1>8. \A x \in DOMAIN Origins(t) : Origins(t)[x] # n
  <2> SUFFICES ASSUME NEW d \in DOMAIN Origins(t) PROVE Origins(t)[d] # n
    OBVIOUS
  <2>1. PICK x \in DOMAIN t.edge : d = x \/ d = -x
    BY DartsAreOfEdges
  <2>2. Origins(t)[x] = t.edge[x].start_node /\ Origins(t)[-x] = t.edge[x].end_node
    BY <1>1, EdgeDarts
  <2>3. t.edge[x].start_node \in DOMAIN t.node /\ t.edge[x].end_node \in DOMAIN t.node
    BY DEF Base, Drawn
  <2> QED
    BY <2>1, <2>2, <2>3
<1>9. ASSUME NEW d \in DOMAIN Origins(t) \ {e, -e}
      PROVE  /\ Origins(u)[d] = Origins(t)[d] /\ Azimuths(u)[d] = Azimuths(t)[d]
             /\ Follows(u)[d] = HalfOf(e, f, g, Follows(t)[d])
  <2>1. PICK x \in DOMAIN t.edge : d = x \/ d = -x
    BY DartsAreOfEdges
  <2>2. x \in DOMAIN u.edge /\ x # e
    BY <1>2, <2>1
  <2>3. /\ Origins(u)[x] = u.edge[x].start_node /\ Origins(u)[-x] = u.edge[x].end_node
        /\ Follows(u)[x] = u.edge[x].next_left /\ Follows(u)[-x] = u.edge[x].next_right
        /\ Azimuths(u)[x] = FirstAzimuth(u.edge[x].geom)
        /\ Azimuths(u)[-x] = LastAzimuth(u.edge[x].geom)
    BY <1>2, <2>2, EdgeDarts
  <2>4. /\ Origins(t)[x] = t.edge[x].start_node /\ Origins(t)[-x] = t.edge[x].end_node
        /\ Follows(t)[x] = t.edge[x].next_left /\ Follows(t)[-x] = t.edge[x].next_right
        /\ Azimuths(t)[x] = FirstAzimuth(t.edge[x].geom)
        /\ Azimuths(t)[-x] = LastAzimuth(t.edge[x].geom)
    BY <1>1, EdgeDarts
  <2>5. /\ u.edge[x].start_node = t.edge[x].start_node
        /\ u.edge[x].end_node = t.edge[x].end_node
        /\ u.edge[x].geom = t.edge[x].geom
        /\ u.edge[x].next_left = HalfOf(e, f, g, t.edge[x].next_left)
        /\ u.edge[x].next_right = HalfOf(e, f, g, t.edge[x].next_right)
    BY <2>2 DEF EdgeCut
  <2> QED
    BY <2>1, <2>3, <2>4, <2>5
<1>10. /\ f \in Int /\ g \in Int /\ f # -g
  OBVIOUS
<1>11. /\ u.edge[f].start_node = t.edge[e].start_node /\ u.edge[f].end_node = n
       /\ u.edge[f].next_left = g
       /\ u.edge[f].next_right = HalfOf(e, f, g, t.edge[e].next_right)
       /\ FirstAzimuth(u.edge[f].geom) = FirstAzimuth(t.edge[e].geom)
       /\ u.edge[g].start_node = n /\ u.edge[g].end_node = t.edge[e].end_node
       /\ u.edge[g].next_left = HalfOf(e, f, g, t.edge[e].next_left)
       /\ u.edge[g].next_right = -f
       /\ LastAzimuth(u.edge[g].geom) = LastAzimuth(t.edge[e].geom)
  BY DEF EdgeCut
<1>12. f # -f
  OBVIOUS
<1> QED
  BY <1>3, <1>4, <1>5, <1>6, <1>7, <1>8, <1>9, <1>10, <1>11, <1>12 DEF EdgeSplit

\* An edge that is cut in two, as ST_ModEdgeSplit and _lwt_AddPoint do
LEMMA CutInTwoIsSplit ==
  ASSUME NEW t, Sound(t), Turning(t), Directed(Origins(t), Azimuths(t)),
         NEW e \in DOMAIN t.edge, NEW i \in 2 .. Len(t.edge[e].geom) - 1
  PROVE  LET u == CutInTwo(t, e, i)
             m == NewEdge(t)
             n == NewNode(t)
         IN  /\ EdgeSplit(Origins(t), Follows(t), Azimuths(t),
                          Origins(u), Follows(u), Azimuths(u), e, e, m, n)
             /\ u.err = t.err /\ u.seq.node = n /\ u.seq.edge = m
<1> DEFINE old == t.edge[e]
           n == NewNode(t)
           m == NewEdge(t)
           t0 == InsertNode(t, old.geom[i], Nowhere)
           new == [old EXCEPT !.start_node = n,
                              !.next_left = IF @ = -e THEN -m ELSE @,
                              !.next_right = -e,
                              !.geom = CutAfter(@, i)]
           t1 == InsertEdge(t0, new)
           t2 == [t1 EXCEPT !.edge[e].geom = CutBefore(@, i),
                            !.edge[e].next_left = m,
                            !.edge[e].end_node = n]
           t3 == RedirectRight(t2, -e, {old.end_node}, -m, m)
           t4 == RedirectLeft(t3, -e, {old.end_node}, -m, m)
           u == UpdateTopoGeomEdgeSplit(t4, e, m, -1)
<1>1. /\ Base(t) /\ Shaped(t) /\ Numbered(t) /\ Named(t) /\ u = CutInTwo(t, e, i)
  BY DEF Sound, Base, CutInTwo
<1>2. /\ n \in Nat /\ n > 0 /\ n \notin DOMAIN t.node
      /\ m \in Nat /\ m > 0 /\ m \notin DOMAIN t.edge
      /\ n = t.seq.node + 1 /\ m = t.seq.edge + 1
      /\ e \in Nat /\ e > 0 /\ e < m /\ m # -e
  <2>1. /\ e \in 1 .. t.seq.edge /\ t.seq.edge \in Nat
        /\ n = t.seq.node + 1 /\ m = t.seq.edge + 1
    BY <1>1 DEF NewNode, NewEdge, Numbered
  <2>2. /\ n \in Nat /\ n > 0 /\ n \notin DOMAIN t.node
        /\ m \in Nat /\ m > 0 /\ m \notin DOMAIN t.edge
    BY <1>1, NewIdsAreNew
  <2> HIDE DEF n, m
  <2> QED
    BY <2>1, <2>2
<1>3. /\ DOMAIN t0 = DOMAIN t /\ DOMAIN t0.seq = DOMAIN t.seq
      /\ t0.seq.node = n /\ t0.seq.edge = t.seq.edge /\ t0.edge = t.edge /\ t0.err = t.err
      /\ DOMAIN t0.node = DOMAIN t.node \cup {n}
      /\ t0.node[n] = [geom |-> old.geom[i], containing_face |-> Nowhere]
      /\ \A x \in DOMAIN t.node : t0.node[x] = t.node[x]
      /\ t0.face = t.face /\ t0.relation = t.relation /\ t0.seq.face = t.seq.face
  BY <1>1, <1>2 DEF Shaped, InsertNode, NewNode, With
<1>4. NewEdge(t0) = m
  BY <1>3 DEF NewEdge
<1>5. DOMAIN old = {"start_node", "end_node", "next_left", "next_right",
                    "face_left", "face_right", "geom"}
  BY <1>1 DEF Shaped
<1>6. /\ DOMAIN new = DOMAIN old
      /\ new.start_node = n /\ new.end_node = old.end_node /\ new.geom = CutAfter(old.geom, i)
      /\ new.next_left = (IF old.next_left = -e THEN -m ELSE old.next_left)
      /\ new.next_right = -e
  BY <1>5
<1> HIDE DEF n, t0, new
<1>7. /\ DOMAIN t1 = DOMAIN t0 /\ DOMAIN t1.seq = DOMAIN t0.seq
      /\ t1.seq.node = n /\ t1.seq.edge = m /\ t1.err = t.err /\ t1.seq.face = t0.seq.face
      /\ t1.edge[m] = new /\ DOMAIN t1.edge = DOMAIN t.edge \cup {m}
      /\ \A x \in DOMAIN t.edge : t1.edge[x] = t.edge[x]
      /\ t1.node = t0.node /\ t1.face = t0.face /\ t1.relation = t0.relation
  <2>1. t0.seq.edge + 1 = m
    BY <1>2, <1>3
  <2> HIDE DEF m
  <2> QED
    BY <1>1, <1>2, <1>3, <1>4, <2>1 DEF Shaped, InsertEdge, With
<1> HIDE DEF t1, m
<1>8. e \in DOMAIN t1.edge /\ e # m /\ t1.edge[e] = old
  BY <1>1, <1>2, <1>7
<1>9. /\ DOMAIN t2 = DOMAIN t /\ t2.seq = t1.seq /\ t2.node = t0.node /\ t2.face = t.face
       /\ t2.relation = t.relation /\ t2.err = t.err
       /\ DOMAIN t2.edge = DOMAIN t.edge \cup {m}
       /\ \A x \in DOMAIN t2.edge \ {e} : t2.edge[x] = t1.edge[x]
       /\ DOMAIN t2.edge[e] = DOMAIN old
       /\ t2.edge[e].start_node = old.start_node /\ t2.edge[e].end_node = n
       /\ t2.edge[e].geom = CutBefore(old.geom, i)
       /\ t2.edge[e].next_left = m /\ t2.edge[e].next_right = old.next_right
  BY <1>1, <1>3, <1>5, <1>7, <1>8 DEF Shaped
<1> HIDE DEF t2
<1>10. Shaped(t2)
  <2>1. \A x \in DOMAIN t2.node : DOMAIN t2.node[x] = {"geom", "containing_face"}
    BY <1>1, <1>3, <1>9 DEF Shaped
  <2>2. \A x \in DOMAIN t2.edge : DOMAIN t2.edge[x] = DOMAIN old
    BY <1>1, <1>3, <1>5, <1>6, <1>7, <1>8, <1>9 DEF Shaped
  <2> HIDE DEF old
  <2> QED
    BY <1>1, <1>3, <1>5, <1>7, <1>9, <2>1, <2>2 DEF Shaped
<1>11. LinksOnly(t2, t3) /\ Shaped(t3)
  BY <1>10, RedirectLinksOnly DEF LinksOnly
<1>12. \A x \in DOMAIN t2.edge :
         /\ t3.edge[x].next_left = t2.edge[x].next_left
         /\ t3.edge[x].next_right =
              IF t2.edge[x].next_right = -e /\ t2.edge[x].start_node = old.end_node /\ x # m
              THEN -m ELSE t2.edge[x].next_right
  BY <1>10, RedirectShows
<1> HIDE DEF t3
<1>13. LinksOnly(t2, t4) /\ Shaped(t4)
  BY <1>11, RedirectLinksOnly, LinksOnlyComposes DEF LinksOnly
<1>14. \A x \in DOMAIN t3.edge :
         /\ t4.edge[x].next_right = t3.edge[x].next_right
         /\ t4.edge[x].next_left =
              IF t3.edge[x].next_left = -e /\ t3.edge[x].end_node = old.end_node /\ x # m
              THEN -m ELSE t3.edge[x].next_left
  BY <1>11, RedirectShows
<1> HIDE DEF t4
<1>15. /\ DOMAIN t3.edge = DOMAIN t2.edge /\ DOMAIN t4.edge = DOMAIN t2.edge
       /\ \A x \in DOMAIN t2.edge : /\ t3.edge[x].end_node = t2.edge[x].end_node
                                    /\ t4.edge[x].start_node = t2.edge[x].start_node
                                    /\ t4.edge[x].end_node = t2.edge[x].end_node
                                    /\ t4.edge[x].geom = t2.edge[x].geom
       /\ t4.node = t2.node /\ t4.seq = t2.seq /\ t4.err = t2.err /\ t4.face = t2.face
       /\ t4.relation = t2.relation
  BY <1>11, <1>13 DEF LinksOnly
<1>16. u.edge = t4.edge /\ u.seq = t4.seq /\ u.err = t4.err
  BY <1>13, <1>15 DEF UpdateTopoGeomEdgeSplit, Shaped
<1> HIDE DEF u
<1>17. ASSUME NEW x \in DOMAIN t.edge \ {e}
       PROVE  /\ u.edge[x].start_node = t.edge[x].start_node
              /\ u.edge[x].end_node = t.edge[x].end_node
              /\ u.edge[x].geom = t.edge[x].geom
              /\ u.edge[x].next_left = HalfOf(e, e, m, t.edge[x].next_left)
              /\ u.edge[x].next_right = HalfOf(e, e, m, t.edge[x].next_right)
  <2>1. x \in DOMAIN t2.edge /\ x # m /\ t2.edge[x] = t.edge[x]
    BY <1>2, <1>7, <1>9
  <2>2. /\ t.edge[x].next_left \in Int /\ t.edge[x].next_right \in Int
        /\ t.edge[x].next_left = e => t.edge[x].end_node = t.edge[e].start_node
        /\ t.edge[x].next_left = -e => t.edge[x].end_node = t.edge[e].end_node
        /\ t.edge[x].next_right = e => t.edge[x].start_node = t.edge[e].start_node
        /\ t.edge[x].next_right = -e => t.edge[x].start_node = t.edge[e].end_node
    <3>1. /\ Base(t) /\ Directed(Origins(t), Azimuths(t)) /\ Turning(t)
          /\ e \in DOMAIN t.edge /\ x \in DOMAIN t.edge
      BY <1>1
    <3> QED
      BY <3>1, LinksAreNear
  <2>3. /\ u.edge[x].next_right = IF t.edge[x].next_right = -e THEN -m ELSE t.edge[x].next_right
        /\ u.edge[x].next_left = IF t.edge[x].next_left = -e THEN -m ELSE t.edge[x].next_left
    BY <1>12, <1>14, <1>15, <1>16, <2>1, <2>2
  <2> HIDE DEF old
  <2> QED
    BY <1>2, <1>15, <1>16, <2>1, <2>3 DEF HalfOf
<1>18. /\ u.edge[e].start_node = old.start_node /\ u.edge[e].end_node = n
       /\ u.edge[e].geom = CutBefore(old.geom, i)
       /\ u.edge[e].next_left = m
       /\ u.edge[e].next_right = HalfOf(e, e, m, old.next_right)
  <2>1. e \in DOMAIN t2.edge /\ e # m /\ m # -e
    BY <1>1, <1>2, <1>9
  <2>2. old.next_right = -e => old.start_node = old.end_node
    <3>1. Base(t) /\ Directed(Origins(t), Azimuths(t)) /\ Turning(t) /\ e \in DOMAIN t.edge
      BY <1>1
    <3> QED
      BY <3>1, LinksAreNear
  <2> HIDE DEF old
  <2>3. /\ u.edge[e].next_right = IF old.next_right = -e THEN -m ELSE old.next_right
        /\ u.edge[e].next_left = m
    <3>1. /\ t3.edge[e].next_right = IF old.next_right = -e THEN -m ELSE old.next_right
          /\ t3.edge[e].next_left = m
      BY <1>9, <1>12, <2>1, <2>2
    <3>2. t4.edge[e].next_right = t3.edge[e].next_right /\ t4.edge[e].next_left = m
      BY <1>14, <1>15, <2>1, <3>1
    <3> QED
      BY <1>16, <3>1, <3>2
  <2> QED
    BY <1>2, <1>9, <1>15, <1>16, <2>1, <2>3 DEF HalfOf
<1>19. /\ u.edge[m].start_node = n /\ u.edge[m].end_node = old.end_node
       /\ u.edge[m].geom = CutAfter(old.geom, i)
       /\ u.edge[m].next_left = HalfOf(e, e, m, old.next_left)
       /\ u.edge[m].next_right = -e
  <2>1. m \in DOMAIN t2.edge /\ t2.edge[m] = new
    BY <1>7, <1>8, <1>9
  <2>2. u.edge[m].next_left = new.next_left /\ u.edge[m].next_right = new.next_right
    BY <1>12, <1>14, <1>15, <1>16, <2>1
  <2> HIDE DEF old
  <2> QED
    BY <1>2, <1>6, <1>15, <1>16, <2>1, <2>2 DEF HalfOf
<1>20. /\ FirstAzimuth(u.edge[e].geom) = FirstAzimuth(old.geom)
       /\ LastAzimuth(u.edge[m].geom) = LastAzimuth(old.geom)
  <2>1. OnGrid(old.geom)
    BY <1>1 DEF Base, Drawn
  <2> QED
    BY <1>1, <1>18, <1>19, <2>1, CutsKeepAzimuths
<1>21. DOMAIN u.edge = (DOMAIN t.edge \ {e}) \cup {e, m}
  BY <1>1, <1>9, <1>15, <1>16
<1>22. EdgeCut(t, u, e, e, m, n)
  BY <1>17, <1>18, <1>19, <1>20, <1>21 DEF EdgeCut
<1>23. EdgeSplit(Origins(t), Follows(t), Azimuths(t), Origins(u), Follows(u), Azimuths(u), e, e, m, n)
  BY <1>1, <1>2, <1>22, CutIsSplit
<1>24. u.err = t.err /\ u.seq.node = n /\ u.seq.edge = m
  BY <1>7, <1>9, <1>15, <1>16
<1> QED
  BY <1>1, <1>23, <1>24 DEF n, m

\* ST_ModEdgeSplit splits an edge
LEMMA ModEdgeSplitAdvances ==
  ASSUME PlanarInv, PlanarInv', Turning(Tables), NEW e \in DOMAIN edge, NEW i, ModEdgeSplit(e, i)
  PROVE  Advances
<1> DEFINE t == Tables
           n == NewNode(t)
           m == NewEdge(t)
           u == CutInTwo(t, e, i)
<1>1. Finish(u) /\ i \in 2 .. Len(t.edge[e].geom) - 1 /\ e \in DOMAIN t.edge
  BY SplitsAtFacts, TablesFacts DEF ModEdgeSplit
<1>2. /\ Sound(t) /\ Numbered(t) /\ t.seq = seq /\ t.err = "done"
      /\ Directed(Origins(t), Azimuths(t)) /\ Turning(t)
  BY TablesFacts, CallsKeepDirected DEF PlanarInv, Inv, Sound, Base
<1> HIDE DEF t
<1>3. /\ EdgeSplit(Origins(t), Follows(t), Azimuths(t),
                   Origins(u), Follows(u), Azimuths(u), e, e, m, n)
      /\ u.err = "done" /\ u.seq.node = n /\ u.seq.edge = m
  BY <1>1, <1>2, CutInTwoIsSplit
<1> HIDE DEF u
<1>4. /\ n \in Nat /\ n > 0 /\ m \in Nat /\ m > 0
      /\ e \in 1 .. t.seq.edge /\ t.seq.edge \in Nat /\ m = t.seq.edge + 1
  BY <1>1, <1>2, NewIdsAreNew DEF NewEdge, Numbered
<1> HIDE DEF n, m
<1>5. n \in 1 .. MaxNode /\ m \in 1 .. MaxEdge /\ e \in 1 .. MaxEdge
  <2>1. n <= MaxNode /\ m <= MaxEdge
    BY <1>1, <1>3, FinishShows
  <2> QED
    BY <1>4, <2>1, Bounds
<1> QED
  BY <1>1, <1>3, <1>5, SplitAdvances DEF t

\* What the updates that replace a deleted edge set, where no next_right leads to it
LEMMA ReplaceLinksShows ==
  ASSUME NEW t, NEW e, NEW sn, NEW en, NEW m0, NEW m1, NEW x, Shaped(t), x \in DOMAIN t.edge,
         x # 0, m0 # -e, t.edge[x].next_right \notin {e, -e}
  PROVE  LET u == ReplaceLinks(t, e, sn, en, m0, m1)
         IN  /\ u.edge[x].next_right = t.edge[x].next_right
             /\ u.edge[x].next_left =
                  IF t.edge[x].next_left = e /\ t.edge[x].end_node = sn THEN m0
                  ELSE IF t.edge[x].next_left = -e /\ t.edge[x].end_node = en THEN -m1
                  ELSE t.edge[x].next_left
<1> DEFINE r1 == RedirectRight(t, e, {sn}, m1, 0)
           r2 == RedirectRight(r1, -e, {en}, -m0, 0)
           r3 == RedirectLeft(r2, e, {sn}, m0, 0)
           u == RedirectLeft(r3, -e, {en}, -m1, 0)
<1>1. LinksOnly(t, r1) /\ Shaped(r1)
  BY RedirectLinksOnly DEF LinksOnly
<1>2. /\ r1.edge[x].next_left = t.edge[x].next_left
      /\ r1.edge[x].next_right = t.edge[x].next_right
  BY RedirectShows
<1> HIDE DEF r1
<1>3. x \in DOMAIN r1.edge /\ r1.edge[x].end_node = t.edge[x].end_node
  BY <1>1 DEF LinksOnly
<1>4. LinksOnly(r1, r2) /\ Shaped(r2)
  BY <1>1, RedirectLinksOnly DEF LinksOnly
<1>5. /\ r2.edge[x].next_left = t.edge[x].next_left
      /\ r2.edge[x].next_right = t.edge[x].next_right
  BY <1>1, <1>2, <1>3, RedirectShows
<1> HIDE DEF r2
<1>6. x \in DOMAIN r2.edge /\ r2.edge[x].end_node = t.edge[x].end_node
  BY <1>3, <1>4 DEF LinksOnly
<1>7. LinksOnly(r2, r3) /\ Shaped(r3)
  BY <1>4, RedirectLinksOnly DEF LinksOnly
<1>8. /\ r3.edge[x].next_right = t.edge[x].next_right
      /\ r3.edge[x].next_left =
           IF t.edge[x].next_left = e /\ t.edge[x].end_node = sn THEN m0 ELSE t.edge[x].next_left
  BY <1>4, <1>5, <1>6, RedirectShows
<1> HIDE DEF r3
<1>9. x \in DOMAIN r3.edge /\ r3.edge[x].end_node = t.edge[x].end_node
  BY <1>6, <1>7 DEF LinksOnly
<1>10. /\ u.edge[x].next_right = r3.edge[x].next_right
       /\ u.edge[x].next_left =
            IF r3.edge[x].next_left = -e /\ r3.edge[x].end_node = en THEN -m1
            ELSE r3.edge[x].next_left
  BY <1>7, <1>9, RedirectShows
<1>11. u = ReplaceLinks(t, e, sn, en, m0, m1)
  BY DEF ReplaceLinks, r1, r2, r3
<1> HIDE DEF u
<1> QED
  BY <1>8, <1>9, <1>10, <1>11

\* They change links only
LEMMA ReplaceLinksOnly ==
  ASSUME NEW t, NEW e, NEW sn, NEW en, NEW m0, NEW m1, Shaped(t)
  PROVE  LinksOnly(t, ReplaceLinks(t, e, sn, en, m0, m1))
<1> DEFINE r1 == RedirectRight(t, e, {sn}, m1, 0)
           r2 == RedirectRight(r1, -e, {en}, -m0, 0)
           r3 == RedirectLeft(r2, e, {sn}, m0, 0)
           u == RedirectLeft(r3, -e, {en}, -m1, 0)
<1>1. LinksOnly(t, r1) /\ Shaped(r1)
  BY RedirectLinksOnly DEF LinksOnly
<1> HIDE DEF r1
<1>2. LinksOnly(t, r2) /\ Shaped(r2)
  BY <1>1, RedirectLinksOnly, LinksOnlyComposes DEF LinksOnly
<1> HIDE DEF r2
<1>3. LinksOnly(t, r3) /\ Shaped(r3)
  BY <1>2, RedirectLinksOnly, LinksOnlyComposes DEF LinksOnly
<1> HIDE DEF r3
<1>4. LinksOnly(t, u)
  BY <1>3, RedirectLinksOnly, LinksOnlyComposes
<1>5. u = ReplaceLinks(t, e, sn, en, m0, m1)
  BY DEF ReplaceLinks, r1, r2, r3
<1> HIDE DEF u
<1> QED
  BY <1>4, <1>5

\* The side that ST_NewEdgesSplit does not link well: another edge has e at its next_right
RightLinked(e) == \E x \in DOMAIN edge \ {e} : edge[x].next_right \in {e, -e}

\* ST_NewEdgesSplit
LEMMA NewEdgesSplitAdvances ==
  ASSUME PlanarInv, PlanarInv', Turning(Tables), NEW e \in DOMAIN edge, NEW i,
         NewEdgesSplit(e, i), ~RightLinked(e)
  PROVE  Advances
<1> DEFINE t == Tables
           old == t.edge[e]
           n == NewNode(t)
           m0 == NewEdge(t)
           m1 == m0 + 1
           first == [old EXCEPT !.end_node = n,
                                !.next_left = m1,
                                !.next_right = CASE @ = e -> m0 [] @ = -e -> -m1 [] OTHER -> @,
                                !.geom = CutBefore(@, i)]
           second == [old EXCEPT !.start_node = n,
                                 !.next_right = -m0,
                                 !.next_left = CASE @ = -e -> -m1 [] @ = e -> m0 [] OTHER -> @,
                                 !.geom = CutAfter(@, i)]
           t0 == InsertNode(t, old.geom[i], Nowhere)
           t1 == DeleteEdges(t0, {e})
           s1 == InsertEdge(t1, first)
           t2 == InsertEdge(s1, second)
           t3 == ReplaceLinks(t2, e, old.start_node, old.end_node, m0, m1)
           u == UpdateTopoGeomEdgeSplit(t3, e, m0, m1)
<1>1. /\ Finish(u) /\ i \in 2 .. Len(t.edge[e].geom) - 1 /\ e \in DOMAIN t.edge
      /\ \A x \in DOMAIN t.edge \ {e} : t.edge[x].next_right \notin {e, -e}
  BY SplitsAtFacts, TablesFacts DEF NewEdgesSplit, RightLinked
<1>2. /\ Base(t) /\ Shaped(t) /\ Numbered(t) /\ Named(t) /\ t.seq = seq /\ t.err = "done"
      /\ Directed(Origins(t), Azimuths(t)) /\ Turning(t)
  BY TablesFacts, CallsKeepDirected DEF PlanarInv, Inv, Sound, Base
<1> HIDE DEF t
<1>3. /\ n \in Nat /\ n > 0 /\ n \notin DOMAIN t.node
      /\ m0 \in Nat /\ m0 > 0 /\ m0 \notin DOMAIN t.edge
      /\ m1 \in Nat /\ m1 > 0 /\ m1 \notin DOMAIN t.edge /\ m0 # m1 /\ m1 # -1
      /\ n = t.seq.node + 1 /\ m0 = t.seq.edge + 1 /\ m1 = t.seq.edge + 2
      /\ e \in Nat /\ e > 0 /\ e < m0 /\ e < m1 /\ m0 # -e /\ m1 = m0 + 1
      /\ \A x \in DOMAIN t.edge : x # 0
  <2>1. /\ DOMAIN t.edge \subseteq 1 .. t.seq.edge /\ t.seq.edge \in Nat
        /\ n = t.seq.node + 1 /\ m0 = t.seq.edge + 1
    BY <1>1, <1>2 DEF NewNode, NewEdge, Numbered
  <2>2. /\ n \in Nat /\ n > 0 /\ n \notin DOMAIN t.node
        /\ m0 \in Nat /\ m0 > 0 /\ m0 \notin DOMAIN t.edge
    BY <1>2, NewIdsAreNew
  <2> HIDE DEF n, m0
  <2>3. e \in 1 .. t.seq.edge
    BY <1>1, <2>1
  <2> QED
    BY <2>1, <2>2, <2>3
<1>4. /\ DOMAIN t0 = DOMAIN t /\ DOMAIN t0.seq = DOMAIN t.seq /\ t0.err = t.err
      /\ t0.seq.node = n /\ t0.seq.edge = t.seq.edge /\ t0.seq.face = t.seq.face
      /\ DOMAIN t0.node = DOMAIN t.node \cup {n}
      /\ t0.node[n] = [geom |-> old.geom[i], containing_face |-> Nowhere]
      /\ \A x \in DOMAIN t.node : t0.node[x] = t.node[x]
      /\ t0.edge = t.edge /\ t0.face = t.face /\ t0.relation = t.relation
  BY <1>2, <1>3 DEF Shaped, InsertNode, NewNode, With
<1> HIDE DEF n
<1>5. DOMAIN old = {"start_node", "end_node", "next_left", "next_right",
                    "face_left", "face_right", "geom"}
  BY <1>1, <1>2 DEF Shaped
<1>6. /\ DOMAIN first = DOMAIN old
      /\ first.start_node = old.start_node /\ first.end_node = n
      /\ first.geom = CutBefore(old.geom, i)
      /\ first.next_left = m1
      /\ first.next_right = CASE old.next_right = e -> m0 [] old.next_right = -e -> -m1
                              [] OTHER -> old.next_right
  BY <1>5
<1>7. /\ DOMAIN second = DOMAIN old
      /\ second.start_node = n /\ second.end_node = old.end_node
      /\ second.geom = CutAfter(old.geom, i)
      /\ second.next_right = -m0
      /\ second.next_left = CASE old.next_left = -e -> -m1 [] old.next_left = e -> m0
                              [] OTHER -> old.next_left
  BY <1>5
<1> HIDE DEF t0, first, second
<1>8. /\ DOMAIN t1 = DOMAIN t /\ t1.seq = t0.seq /\ t1.node = t0.node /\ t1.face = t.face
      /\ t1.relation = t.relation /\ t1.err = t.err
      /\ DOMAIN t1.edge = DOMAIN t.edge \ {e}
      /\ \A x \in DOMAIN t.edge \ {e} : t1.edge[x] = t.edge[x]
  BY <1>2, <1>4 DEF Shaped, DeleteEdges, Without
<1> HIDE DEF t1, m0, m1
<1>9. /\ DOMAIN s1 = DOMAIN t /\ DOMAIN s1.seq = DOMAIN t.seq /\ s1.err = t.err
      /\ s1.seq.node = n /\ s1.seq.edge = m0 /\ s1.seq.face = t.seq.face
      /\ DOMAIN s1.edge = (DOMAIN t.edge \ {e}) \cup {m0}
      /\ s1.edge[m0] = first
      /\ \A x \in DOMAIN t.edge \ {e} : s1.edge[x] = t.edge[x]
      /\ s1.node = t0.node /\ s1.face = t.face /\ s1.relation = t.relation
  <2>1. NewEdge(t1) = m0 /\ t1.seq.edge + 1 = m0
    BY <1>3, <1>4, <1>8 DEF NewEdge
  <2> QED
    BY <1>2, <1>3, <1>4, <1>8, <2>1 DEF Shaped, InsertEdge, With
<1> HIDE DEF s1
<1>10. /\ DOMAIN t2 = DOMAIN t /\ DOMAIN t2.seq = DOMAIN t.seq /\ t2.err = t.err
       /\ t2.seq.node = n /\ t2.seq.edge = m1
       /\ DOMAIN t2.edge = (DOMAIN t.edge \ {e}) \cup {m0, m1}
       /\ t2.edge[m0] = first /\ t2.edge[m1] = second
       /\ \A x \in DOMAIN t.edge \ {e} : t2.edge[x] = t.edge[x]
       /\ t2.node = t0.node /\ t2.face = t.face /\ t2.relation = t.relation
  <2>1. NewEdge(s1) = m1 /\ s1.seq.edge + 1 = m1
    <3>1. NewEdge(s1) = m0 + 1 /\ s1.seq.edge + 1 = m0 + 1
      BY <1>9 DEF NewEdge
    <3> QED
      BY <1>3, <3>1
  <2> QED
    BY <1>2, <1>3, <1>9, <2>1 DEF Shaped, InsertEdge, With
<1> HIDE DEF t2, old
<1>11. Shaped(t2)
  <2>1. \A x \in DOMAIN t2.node : DOMAIN t2.node[x] = {"geom", "containing_face"}
    BY <1>2, <1>4, <1>10 DEF Shaped
  <2>2. \A x \in DOMAIN t2.edge : DOMAIN t2.edge[x] = DOMAIN old
    BY <1>2, <1>5, <1>6, <1>7, <1>10 DEF Shaped
  <2> QED
    BY <1>2, <1>5, <1>10, <2>1, <2>2 DEF Shaped
<1>12. /\ first.next_right = HalfOf(e, m0, m1, old.next_right)
       /\ second.next_left = HalfOf(e, m0, m1, old.next_left)
  BY <1>3, <1>6, <1>7 DEF HalfOf
<1>13. \A x \in DOMAIN t2.edge : x # 0 /\ t2.edge[x].next_right \notin {e, -e}
  <2>1. first.next_right \notin {e, -e} /\ second.next_right \notin {e, -e}
    BY <1>3, <1>7, <1>12 DEF HalfOf
  <2> QED
    BY <1>1, <1>3, <1>10, <2>1
<1>14. \A x \in DOMAIN t2.edge :
         /\ t3.edge[x].next_right = t2.edge[x].next_right
         /\ t3.edge[x].next_left =
              IF t2.edge[x].next_left = e /\ t2.edge[x].end_node = old.start_node THEN m0
              ELSE IF t2.edge[x].next_left = -e /\ t2.edge[x].end_node = old.end_node THEN -m1
              ELSE t2.edge[x].next_left
  BY <1>3, <1>11, <1>13, ReplaceLinksShows
<1>15. LinksOnly(t2, t3)
  BY <1>11, ReplaceLinksOnly
<1> HIDE DEF t3
<1>16. CASE u.err # "done"
  BY <1>1, <1>16, FailureAdvances DEF PlanarInv
<1>17. CASE u.err = "done"
  <2>1. u = t3
    <3>1. Shaped(t3)
      BY <1>15 DEF LinksOnly
    <3> QED
      BY <1>3, <1>17, <3>1, FailIsNotDone DEF UpdateTopoGeomEdgeSplit
  <2> HIDE DEF u
  <2>2. /\ DOMAIN u.edge = DOMAIN t2.edge /\ u.seq.node = n /\ u.seq.edge = m1
        /\ \A x \in DOMAIN t2.edge : /\ u.edge[x].start_node = t2.edge[x].start_node
                                     /\ u.edge[x].end_node = t2.edge[x].end_node
                                     /\ u.edge[x].geom = t2.edge[x].geom
                                     /\ u.edge[x].next_right = t2.edge[x].next_right
    BY <1>10, <1>14, <1>15, <2>1 DEF LinksOnly
  <2>3. ASSUME NEW x \in DOMAIN t.edge \ {e}
        PROVE  /\ u.edge[x].start_node = t.edge[x].start_node
               /\ u.edge[x].end_node = t.edge[x].end_node
               /\ u.edge[x].geom = t.edge[x].geom
               /\ u.edge[x].next_left = HalfOf(e, m0, m1, t.edge[x].next_left)
               /\ u.edge[x].next_right = HalfOf(e, m0, m1, t.edge[x].next_right)
    <3>1. x \in DOMAIN t2.edge /\ t2.edge[x] = t.edge[x]
      BY <1>10
    <3>2. /\ Base(t) /\ Directed(Origins(t), Azimuths(t)) /\ Turning(t)
          /\ e \in DOMAIN t.edge /\ x \in DOMAIN t.edge
      BY <1>1, <1>2
    <3>3. /\ t.edge[x].next_left \in Int /\ t.edge[x].next_right \in Int
          /\ t.edge[x].next_left = e => t.edge[x].end_node = t.edge[e].start_node
          /\ t.edge[x].next_left = -e => t.edge[x].end_node = t.edge[e].end_node
          /\ t.edge[x].next_right = e => t.edge[x].start_node = t.edge[e].start_node
          /\ t.edge[x].next_right = -e => t.edge[x].start_node = t.edge[e].end_node
      BY <3>2, LinksAreNear
    <3>4. u.edge[x].next_left = IF t.edge[x].next_left = e THEN m0
                                ELSE IF t.edge[x].next_left = -e THEN -m1
                                ELSE t.edge[x].next_left
      BY <1>14, <2>1, <3>1, <3>3 DEF old
    <3>5. t.edge[x].next_right \notin {e, -e}
      BY <1>1
    <3> QED
      BY <2>2, <3>1, <3>4, <3>5 DEF HalfOf
  <2>4. m0 \in DOMAIN t2.edge /\ m1 \in DOMAIN t2.edge
    BY <1>10
  <2>5. /\ u.edge[m0].start_node = old.start_node /\ u.edge[m0].end_node = n
        /\ u.edge[m0].geom = CutBefore(old.geom, i)
        /\ u.edge[m0].next_left = m1
        /\ u.edge[m0].next_right = HalfOf(e, m0, m1, old.next_right)
    <3>1. first.next_left \notin {e, -e}
      BY <1>3, <1>6
    <3>2. u.edge[m0].next_left = first.next_left
      BY <1>10, <1>14, <2>1, <2>4, <3>1
    <3> QED
      BY <1>6, <1>10, <1>12, <2>2, <2>4, <3>2
  <2>6. /\ u.edge[m1].start_node = n /\ u.edge[m1].end_node = old.end_node
        /\ u.edge[m1].geom = CutAfter(old.geom, i)
        /\ u.edge[m1].next_left = HalfOf(e, m0, m1, old.next_left)
        /\ u.edge[m1].next_right = -m0
    <3>1. second.next_left \notin {e, -e}
      BY <1>3, <1>12 DEF HalfOf
    <3>2. u.edge[m1].next_left = second.next_left
      BY <1>10, <1>14, <2>1, <2>4, <3>1
    <3> QED
      BY <1>7, <1>10, <1>12, <2>2, <2>4, <3>2
  <2>7. /\ FirstAzimuth(u.edge[m0].geom) = FirstAzimuth(old.geom)
        /\ LastAzimuth(u.edge[m1].geom) = LastAzimuth(old.geom)
    <3>1. OnGrid(old.geom)
      BY <1>1, <1>2 DEF Base, Drawn, old
    <3> QED
      BY <1>1, <2>5, <2>6, <3>1, CutsKeepAzimuths DEF old
  <2>8. DOMAIN u.edge = (DOMAIN t.edge \ {e}) \cup {m0, m1}
    BY <1>10, <2>2
  <2>9. EdgeCut(t, u, e, m0, m1, n)
    BY <2>3, <2>5, <2>6, <2>7, <2>8 DEF EdgeCut, old
  <2>10. EdgeSplit(Origins(t), Follows(t), Azimuths(t),
                   Origins(u), Follows(u), Azimuths(u), e, m0, m1, n)
    BY <1>1, <1>2, <1>3, <2>9, CutIsSplit
  <2>11. n \in 1 .. MaxNode /\ m0 \in 1 .. MaxEdge /\ m1 \in 1 .. MaxEdge /\ e \in 1 .. MaxEdge
    <3>1. n <= MaxNode /\ m1 <= MaxEdge
      BY <1>1, <1>17, <2>2, FinishShows
    <3>2. /\ n \in Nat /\ n > 0 /\ m0 \in Nat /\ m0 > 0 /\ m1 = m0 + 1
          /\ e \in Nat /\ e > 0 /\ e < m0
      BY <1>3
    <3> QED
      BY <3>1, <3>2, Bounds
  <2>12. m0 \notin DOMAIN Origins(t)
    <3>1. m0 \notin Darts(t)
      BY <1>2, <1>3 DEF Darts, Numbered
    <3> QED
      BY <3>1, DartFunctions
  <2> QED
    BY <1>1, <1>17, <2>10, <2>11, <2>12, SplitAdvances DEF t
<1> QED
  BY <1>16, <1>17

\* A path leaves as its dart does, and arrives as the dart back leaves
LEMMA PathAzimuths ==
  ASSUME NEW t, Base(t), NEW d \in Darts(t)
  PROVE  /\ FirstAzimuth(Path(t, d)) = DartAzimuth(t, d)
         /\ LastAzimuth(Path(t, d)) = DartAzimuth(t, -d)
<1>1. d \in Int /\ d # 0 /\ Abs(d) \in DOMAIN t.edge /\ -(-d) = d
  BY DartFacts
<1>2. CASE d > 0
  <2>1. ~(-d > 0)
    BY <1>1, <1>2
  <2> QED
    BY <1>1, <1>2, <2>1 DEF Path, DartAzimuth
<1>3. CASE ~(d > 0)
  <2>1. -d > 0 /\ Abs(d) = -d
    BY <1>1, <1>3 DEF Abs
  <2> DEFINE c == t.edge[-d].geom
             b == Backward(c)
  <2>2. OnGrid(c) /\ Path(t, d) = b
    BY <1>1, <1>3, <2>1 DEF Base, Drawn, Path
  <2>3. DartAzimuth(t, d) = LastAzimuth(c) /\ DartAzimuth(t, -d) = FirstAzimuth(c)
    BY <1>3, <2>1 DEF DartAzimuth
  <2> HIDE DEF c
  <2>4. Len(b) = Len(c) /\ \A j \in 1 .. Len(c) : b[j] = c[Len(c) + 1 - j]
    BY <2>2, BackwardFacts
  <2>5. Len(c) \in Nat /\ Len(c) > 1
    BY <2>2, GridFacts
  <2> HIDE DEF b
  <2>6. /\ b[1] = c[Len(c)] /\ b[2] = c[Len(c) - 1]
        /\ b[Len(b)] = c[1] /\ b[Len(b) - 1] = c[2]
    <3>1. /\ 1 \in 1 .. Len(c) /\ 2 \in 1 .. Len(c) /\ Len(c) \in 1 .. Len(c)
          /\ Len(c) - 1 \in 1 .. Len(c)
          /\ Len(c) + 1 - 1 = Len(c) /\ Len(c) + 1 - 2 = Len(c) - 1
          /\ Len(c) + 1 - Len(c) = 1 /\ Len(c) + 1 - (Len(c) - 1) = 2
      BY <2>5
    <3> QED
      BY <2>4, <3>1
  <2> QED
    BY <2>2, <2>3, <2>6 DEF FirstAzimuth, LastAzimuth
<1> QED
  BY <1>2, <1>3

\* Joined curves leave as the first, and arrive as the second
LEMMA JoinAzimuths ==
  ASSUME NEW c, NEW d, OnGrid(c), OnGrid(d), c[Len(c)] = d[1]
  PROVE  /\ FirstAzimuth(Join(c, d)) = FirstAzimuth(c)
         /\ LastAzimuth(Join(c, d)) = LastAzimuth(d)
<1> DEFINE g == Join(c, d)
<1>1. /\ Len(g) = Len(c) + Len(d) - 1
      /\ \A x \in 1 .. Len(c) : g[x] = c[x]
      /\ \A y \in 1 .. Len(d) : g[Len(c) + y - 1] = d[y]
  BY JoinFacts
<1>2. Len(c) \in Nat /\ Len(c) > 1 /\ Len(d) \in Nat /\ Len(d) > 1
  BY GridFacts
<1> HIDE DEF g
<1>3. g[1] = c[1] /\ g[2] = c[2]
  BY <1>1, <1>2
<1>4. g[Len(g)] = d[Len(d)] /\ g[Len(g) - 1] = d[Len(d) - 1]
  <2>1. /\ Len(d) \in 1 .. Len(d) /\ Len(d) - 1 \in 1 .. Len(d)
        /\ Len(g) = Len(c) + Len(d) - 1 /\ Len(g) - 1 = Len(c) + (Len(d) - 1) - 1
    BY <1>1, <1>2
  <2> QED
    BY <1>1, <2>1
<1> QED
  BY <1>3, <1>4 DEF FirstAzimuth, LastAzimuth, g

\* Darts c and d, of edges e1 and e2, meet at node n of no other; h is what Healed makes of
\* the two: the record of the edge along c and d, or back, and how their ends are renamed
Meeting(t, h, e1, e2, n, c, d) ==
  LET Along(id) == IF c = e1 THEN id ELSE -id
      first == IF c = e1 THEN c ELSE -d
      last == IF c = e1 THEN d ELSE -c
  IN  /\ c \in {e1, -e1} /\ d \in {e2, -e2}
      /\ Origins(t)[-c] = n /\ Origins(t)[d] = n /\ Origins(t)[c] # n /\ Origins(t)[-d] # n
      /\ h.free1 * e1 = c /\ h.free2 * e2 = -d
      /\ \A id \in Int : h.free1 * id = Along(id) /\ h.free2 * id * h.sign2 = -Along(id)
      /\ DOMAIN h.edge = {"start_node", "end_node", "next_left", "next_right",
                          "face_left", "face_right", "geom"}
      /\ h.edge.start_node = Origins(t)[first] /\ h.edge.end_node = Origins(t)[-last]
      /\ h.edge.next_left = Follows(t)[last] /\ h.edge.next_right = Follows(t)[-first]
      /\ FirstAzimuth(h.edge.geom) = Azimuths(t)[first]
      /\ LastAzimuth(h.edge.geom) = Azimuths(t)[-last]

\* Such darts there are
LEMMA EdgesMeet ==
  ASSUME NEW t, NEW e1, NEW e2, NEW n, Base(t), e1 \in DOMAIN t.edge, e2 \in DOMAIN t.edge, e1 # e2,
         t.edge[e1].start_node # t.edge[e1].end_node, t.edge[e2].start_node # t.edge[e2].end_node,
         n \in {t.edge[e1].start_node, t.edge[e1].end_node},
         n \in {t.edge[e2].start_node, t.edge[e2].end_node}, IncidentEdges(t, {n}) = {e1, e2}
  PROVE  \E c, d : Meeting(t, Healed(t, e1, e2, n), e1, e2, n, c, d)
<1> DEFINE atEnd == t.edge[e1].end_node = n
           sameWay == IF atEnd THEN t.edge[e2].start_node = n ELSE t.edge[e2].end_node = n
           d2 == IF sameWay THEN e2 ELSE -e2
           first == IF atEnd THEN e1 ELSE d2
           last == IF atEnd THEN d2 ELSE e1
           h == Healed(t, e1, e2, n)
           c == IF atEnd THEN e1 ELSE -e1
           d == IF t.edge[e2].end_node = n THEN -e2 ELSE e2
<1>1. /\ h.sign2 = (IF sameWay THEN 1 ELSE -1)
      /\ h.free1 = (IF atEnd THEN 1 ELSE -1)
      /\ h.free2 = (IF t.edge[e2].end_node = n THEN 1 ELSE -1)
      /\ h.edge = [t.edge[e1] EXCEPT
             !.start_node = From(t, first), !.end_node = To(t, last),
             !.next_left = NextDart(t, last), !.next_right = NextDart(t, -first),
             !.geom = HealedGeom(t, first, last)]
  BY DEF Healed
<1>2. DOMAIN t.edge[e1] = {"start_node", "end_node", "next_left", "next_right",
                           "face_left", "face_right", "geom"}
  BY DEF Base, Shaped
<1> HIDE DEF h
<1>3. /\ DOMAIN h.edge = {"start_node", "end_node", "next_left", "next_right",
                          "face_left", "face_right", "geom"}
      /\ h.edge.start_node = From(t, first) /\ h.edge.end_node = From(t, -last)
      /\ h.edge.next_left = NextDart(t, last) /\ h.edge.next_right = NextDart(t, -first)
      /\ h.edge.geom = Join(Path(t, first), Path(t, last))
  <2> HIDE DEF first, last
  <2> QED
    BY <1>1, <1>2 DEF HealedGeom, To
<1>4. /\ e1 \in Int /\ e1 > 0 /\ e2 \in Int /\ e2 > 0 /\ -(-e1) = e1 /\ -(-e2) = e2
      /\ e1 \in Darts(t) /\ e2 \in Darts(t) /\ -e1 \in Darts(t) /\ -e2 \in Darts(t)
  BY DEF Base, Numbered, Darts
<1>5. /\ From(t, e1) = t.edge[e1].start_node /\ From(t, -e1) = t.edge[e1].end_node
      /\ From(t, e2) = t.edge[e2].start_node /\ From(t, -e2) = t.edge[e2].end_node
  BY <1>4 DEF From
<1>6. /\ c \in {e1, -e1} /\ d \in {e2, -e2}
      /\ From(t, -c) = n /\ From(t, d) = n /\ From(t, c) # n /\ From(t, -d) # n
  BY <1>4, <1>5
<1>7. h.free1 * e1 = c /\ h.free2 * e2 = -d
  BY <1>1, <1>4
<1>8. /\ first = (IF c = e1 THEN c ELSE -d)
      /\ last = (IF c = e1 THEN d ELSE -c)
      /\ first \in Darts(t) /\ last \in Darts(t) /\ -first \in Darts(t) /\ -last \in Darts(t)
  BY <1>4
<1>9. ASSUME NEW id \in Int
      PROVE  /\ h.free1 * id = IF c = e1 THEN id ELSE -id
             /\ h.free2 * id * h.sign2 = -(IF c = e1 THEN id ELSE -id)
  <2>1. atEnd <=> c = e1
    BY <1>4
  <2>2. CASE atEnd /\ t.edge[e2].end_node = n
    BY <1>1, <2>1, <2>2
  <2>3. CASE atEnd /\ t.edge[e2].end_node # n
    BY <1>1, <2>1, <2>3
  <2>4. CASE ~atEnd /\ t.edge[e2].end_node = n
    BY <1>1, <2>1, <2>4
  <2>5. CASE ~atEnd /\ t.edge[e2].end_node # n
    BY <1>1, <2>1, <2>5
  <2> QED
    BY <2>2, <2>3, <2>4, <2>5
<1>10. From(t, -first) = n /\ From(t, last) = n
  BY <1>4, <1>6, <1>8
<1> HIDE DEF first, last, c, d
<1>11. /\ FirstAzimuth(h.edge.geom) = DartAzimuth(t, first)
       /\ LastAzimuth(h.edge.geom) = DartAzimuth(t, -last)
  <2>1. /\ OnGrid(Path(t, first)) /\ OnGrid(Path(t, last))
        /\ Path(t, first)[Len(Path(t, first))] = t.node[To(t, first)].geom
        /\ Path(t, last)[1] = t.node[From(t, last)].geom
    BY <1>8, PathFacts
  <2>2. Path(t, first)[Len(Path(t, first))] = Path(t, last)[1]
    BY <1>10, <2>1 DEF To
  <2>3. /\ FirstAzimuth(Path(t, first)) = DartAzimuth(t, first)
        /\ LastAzimuth(Path(t, last)) = DartAzimuth(t, -last)
    BY <1>8, PathAzimuths
  <2> QED
    BY <1>3, <2>1, <2>2, <2>3, JoinAzimuths
<1>12. \A x \in Darts(t) : /\ Origins(t)[x] = From(t, x) /\ Follows(t)[x] = NextDart(t, x)
                           /\ Azimuths(t)[x] = DartAzimuth(t, x)
  BY DartFunctions
<1>13. c \in Darts(t) /\ -c \in Darts(t) /\ d \in Darts(t) /\ -d \in Darts(t)
  BY <1>4, <1>6
<1>14. Meeting(t, h, e1, e2, n, c, d)
  BY <1>3, <1>6, <1>7, <1>8, <1>9, <1>11, <1>12, <1>13 DEF Meeting
<1> QED
  BY <1>14 DEF h

\* Edge id, as record r says, takes the place of e1 and e2, whose darts c and -d reach one node
EdgesJoined(t, u, e1, e2, id, r, c, d) ==
  LET h == IF c = e1 THEN id ELSE -id
  IN  /\ DOMAIN u.edge = (DOMAIN t.edge \ {e1, e2}) \cup {id}
      /\ u.edge[id].start_node = r.start_node /\ u.edge[id].end_node = r.end_node
      /\ u.edge[id].geom = r.geom
      /\ u.edge[id].next_left = WholeOf(c, d, h, r.next_left)
      /\ u.edge[id].next_right = WholeOf(c, d, h, r.next_right)
      /\ \A x \in DOMAIN t.edge \ {e1, e2} :
           /\ u.edge[x].start_node = t.edge[x].start_node
           /\ u.edge[x].end_node = t.edge[x].end_node
           /\ u.edge[x].geom = t.edge[x].geom
           /\ u.edge[x].next_left = WholeOf(c, d, h, t.edge[x].next_left)
           /\ u.edge[x].next_right = WholeOf(c, d, h, t.edge[x].next_right)

\* Its darts are healed
LEMMA JoinedIsHealed ==
  ASSUME NEW t, NEW u, NEW e1, NEW e2, NEW n, NEW id, NEW h, NEW c, NEW d,
         Base(t), e1 \in DOMAIN t.edge, e2 \in DOMAIN t.edge, e1 # e2,
         IncidentEdges(t, {n}) = {e1, e2}, Meeting(t, h, e1, e2, n, c, d),
         id \in Nat, id > 0, id = e1 \/ id \notin DOMAIN t.edge,
         EdgesJoined(t, u, e1, e2, id, h.edge, c, d)
  PROVE  EdgesHealed(Origins(t), Follows(t), Azimuths(t), Origins(u), Follows(u), Azimuths(u),
                     c, d, IF c = e1 THEN id ELSE -id, n)
<1> DEFINE r == h.edge
           m == IF c = e1 THEN id ELSE -id
           org == Origins(t)
           rest == DOMAIN t.edge \ {e1, e2}
<1>1. \A x \in DOMAIN t.edge : x \in Nat /\ x > 0
  BY DEF Base, Numbered
<1>2. /\ DOMAIN u.edge = rest \cup {id}
      /\ \A x \in DOMAIN u.edge : x \in Nat /\ x > 0
  BY <1>1 DEF EdgesJoined
<1>3. /\ c \in {e1, -e1} /\ d \in {e2, -e2}
      /\ org[-c] = n /\ org[d] = n /\ org[c] # n /\ org[-d] # n
  BY DEF Meeting
<1>4. /\ e1 \in Int /\ e1 > 0 /\ e2 \in Int /\ e2 > 0
      /\ e1 \in DOMAIN org /\ -e1 \in DOMAIN org /\ e2 \in DOMAIN org /\ -e2 \in DOMAIN org
      /\ org[e1] = t.edge[e1].start_node /\ org[-e1] = t.edge[e1].end_node
      /\ org[e2] = t.edge[e2].start_node /\ org[-e2] = t.edge[e2].end_node
  BY <1>1, EdgeDarts
<1>5. /\ c \in DOMAIN org /\ d \in DOMAIN org /\ c # d /\ c # -d
      /\ c \in Int /\ d \in Int /\ -(-c) = c /\ -(-d) = d
      /\ {c, -c, d, -d} = {e1, -e1, e2, -e2}
  BY <1>3, <1>4
<1>6. Around(org, n) = {-c, d}
  <2>1. ASSUME NEW x \in DOMAIN org, org[x] = n
        PROVE  x \in {-c, d}
    <3>1. PICK y \in DOMAIN t.edge : x = y \/ x = -y
      BY DartsAreOfEdges
    <3>2. org[y] = t.edge[y].start_node /\ org[-y] = t.edge[y].end_node
      BY <1>1, EdgeDarts
    <3>3. y \in {e1, e2}
      BY <2>1, <3>1, <3>2 DEF IncidentEdges
    <3> HIDE DEF org
    <3>4. x \in {c, -c, d, -d}
      BY <1>5, <3>1, <3>3
    <3> QED
      BY <1>3, <2>1, <3>4
  <2>2. -c \in DOMAIN org
    BY <1>3, <1>4
  <2> QED
    BY <1>3, <1>5, <2>1, <2>2 DEF Around
<1>7. /\ m \in Int /\ {m, -m} = {id, -id} /\ id \in Int /\ -(-id) = id
  OBVIOUS
<1>8. m = c \/ (m \notin DOMAIN org /\ -m \notin DOMAIN org)
  <2>1. CASE id = e1
    BY <1>3, <1>4, <2>1
  <2>2. CASE id \notin DOMAIN t.edge
    <3>1. id \notin Darts(t) /\ -id \notin Darts(t)
      BY <1>1, <2>2 DEF Darts
    <3>2. id \notin DOMAIN org /\ -id \notin DOMAIN org
      BY <3>1, DartFunctions
    <3> HIDE DEF m, org
    <3> QED
      BY <1>7, <3>2
  <2> QED
    BY <2>1, <2>2
<1>9. DOMAIN Origins(u) = (DOMAIN org \ {c, -c, d, -d}) \cup {m, -m}
  <2>1. Darts(u) = (Darts(t) \ {e1, -e1, e2, -e2}) \cup {id, -id}
    BY <1>1, <1>2, <1>4 DEF Darts
  <2>2. DOMAIN Origins(u) = Darts(u) /\ DOMAIN org = Darts(t)
    BY DartFunctions
  <2> HIDE DEF m, org
  <2> QED
    BY <1>5, <1>7, <2>1, <2>2
<1>10. /\ Origins(u)[id] = u.edge[id].start_node /\ Origins(u)[-id] = u.edge[id].end_node
       /\ Follows(u)[id] = u.edge[id].next_left /\ Follows(u)[-id] = u.edge[id].next_right
       /\ Azimuths(u)[id] = FirstAzimuth(u.edge[id].geom)
       /\ Azimuths(u)[-id] = LastAzimuth(u.edge[id].geom)
  BY <1>2, EdgeDarts
<1>11. /\ u.edge[id].start_node = r.start_node /\ u.edge[id].end_node = r.end_node
       /\ u.edge[id].geom = r.geom
       /\ u.edge[id].next_left = WholeOf(c, d, m, r.next_left)
       /\ u.edge[id].next_right = WholeOf(c, d, m, r.next_right)
  BY DEF EdgesJoined
<1>12. LET first == IF c = e1 THEN c ELSE -d
           last == IF c = e1 THEN d ELSE -c
       IN  /\ r.start_node = Origins(t)[first] /\ r.end_node = Origins(t)[-last]
           /\ r.next_left = Follows(t)[last] /\ r.next_right = Follows(t)[-first]
           /\ FirstAzimuth(r.geom) = Azimuths(t)[first]
           /\ LastAzimuth(r.geom) = Azimuths(t)[-last]
  BY DEF Meeting
<1> HIDE DEF r
<1>13. /\ Origins(u)[m] = org[c] /\ Azimuths(u)[m] = Azimuths(t)[c]
       /\ Origins(u)[-m] = org[-d] /\ Azimuths(u)[-m] = Azimuths(t)[-d]
       /\ Follows(u)[m] = WholeOf(c, d, m, Follows(t)[d])
       /\ Follows(u)[-m] = WholeOf(c, d, m, Follows(t)[-c])
  <2>1. CASE c = e1
    <3>1. m = id
      BY <2>1
    <3> HIDE DEF m
    <3> QED
      BY <1>10, <1>11, <1>12, <2>1, <3>1
  <2>2. CASE c # e1
    <3>1. m = -id /\ -m = id
      BY <1>7, <2>2
    <3> HIDE DEF m
    <3> QED
      BY <1>5, <1>10, <1>11, <1>12, <2>2, <3>1
  <2> QED
    BY <2>1, <2>2
<1>14. ASSUME NEW x \in DOMAIN org \ {c, -c, d, -d}
       PROVE  /\ Origins(u)[x] = org[x] /\ Azimuths(u)[x] = Azimuths(t)[x]
              /\ Follows(u)[x] = WholeOf(c, d, m, Follows(t)[x])
  <2>1. PICK y \in DOMAIN t.edge : x = y \/ x = -y
    BY DartsAreOfEdges
  <2>2. y \in rest /\ y \in DOMAIN u.edge
    <3>1. y \notin {e1, e2}
      BY <1>5, <2>1
    <3> QED
      BY <1>2, <3>1
  <2>3. /\ Origins(u)[y] = u.edge[y].start_node /\ Origins(u)[-y] = u.edge[y].end_node
        /\ Follows(u)[y] = u.edge[y].next_left /\ Follows(u)[-y] = u.edge[y].next_right
        /\ Azimuths(u)[y] = FirstAzimuth(u.edge[y].geom)
        /\ Azimuths(u)[-y] = LastAzimuth(u.edge[y].geom)
    BY <1>2, <2>2, EdgeDarts
  <2>4. /\ Origins(t)[y] = t.edge[y].start_node /\ Origins(t)[-y] = t.edge[y].end_node
        /\ Follows(t)[y] = t.edge[y].next_left /\ Follows(t)[-y] = t.edge[y].next_right
        /\ Azimuths(t)[y] = FirstAzimuth(t.edge[y].geom)
        /\ Azimuths(t)[-y] = LastAzimuth(t.edge[y].geom)
    BY <1>1, EdgeDarts
  <2>5. /\ u.edge[y].start_node = t.edge[y].start_node
        /\ u.edge[y].end_node = t.edge[y].end_node
        /\ u.edge[y].geom = t.edge[y].geom
        /\ u.edge[y].next_left = WholeOf(c, d, m, t.edge[y].next_left)
        /\ u.edge[y].next_right = WholeOf(c, d, m, t.edge[y].next_right)
    BY <2>2 DEF EdgesJoined
  <2> HIDE DEF m
  <2> QED
    BY <2>1, <2>3, <2>4, <2>5
<1> HIDE DEF m, org
<1>15. EdgesHealed(org, Follows(t), Azimuths(t), Origins(u), Follows(u), Azimuths(u), c, d, m, n)
  BY <1>5, <1>6, <1>7, <1>8, <1>9, <1>13, <1>14 DEF EdgesHealed
<1> QED
  BY <1>15 DEF org, m

\* The columns that renaming a dart sets
LEMMA RenameShows ==
  ASSUME NEW t, Shaped(t), NEW old, NEW new, NEW x, x \in DOMAIN t.edge
  PROVE  LET u == RenameDart(t, old, new)
         IN  /\ u.edge[x].next_left =
                  IF t.edge[x].next_left = old THEN new ELSE t.edge[x].next_left
             /\ u.edge[x].next_right =
                  IF t.edge[x].next_right = old THEN new ELSE t.edge[x].next_right
BY DEF RenameDart, Shaped

\* What a healing call knows of the two edges
LEMMA HealingEdgesMeet ==
  ASSUME PlanarInv, NEW e1 \in DOMAIN edge, NEW e2 \in DOMAIN edge, NEW modEdge,
         HealEdges(e1, e2, modEdge)
  PROVE  LET t == Tables
             n == HealAt(e1, e2)
         IN  /\ Base(t) /\ Shaped(t) /\ Numbered(t) /\ t.seq = seq /\ t.err = "done"
             /\ e1 \in DOMAIN t.edge /\ e2 \in DOMAIN t.edge /\ e1 # e2
             /\ IncidentEdges(t, {n}) = {e1, e2}
             /\ \E c, d : Meeting(t, Healed(t, e1, e2, n), e1, e2, n, c, d)
<1> DEFINE t == Tables
           n == HealAt(e1, e2)
<1>1. Base(t) /\ Shaped(t) /\ Numbered(t) /\ t.seq = seq /\ t.err = "done"
  BY TablesFacts DEF PlanarInv, Inv, Sound, Base
<1>2. /\ e1 # e2 /\ n # Nowhere
      /\ t.edge[e1].start_node # t.edge[e1].end_node
      /\ t.edge[e2].start_node # t.edge[e2].end_node
      /\ e1 \in DOMAIN t.edge /\ e2 \in DOMAIN t.edge
  BY TablesFacts DEF HealEdges
<1>3. /\ n \in {t.edge[e1].start_node, t.edge[e1].end_node}
      /\ n \in {t.edge[e2].start_node, t.edge[e2].end_node}
      /\ IncidentEdges(t, {n}) = {e1, e2}
  BY <1>2, HealAtFacts, TablesFacts
<1> HIDE DEF t, n
<1>4. \E c, d : Meeting(t, Healed(t, e1, e2, n), e1, e2, n, c, d)
  BY <1>1, <1>2, <1>3, EdgesMeet
<1> QED
  BY <1>1, <1>2, <1>3, <1>4 DEF t, n

\* ST_ModEdgeHeal
LEMMA ModEdgeHealAdvances ==
  ASSUME PlanarInv, PlanarInv', Turning(Tables), NEW e1 \in DOMAIN edge, NEW e2 \in DOMAIN edge,
         ModEdgeHeal(e1, e2)
  PROVE  Advances
<1> DEFINE t == Tables
           n == HealAt(e1, e2)
           h == Healed(t, e1, e2, n)
           t1 == [t EXCEPT !.edge[e1] = h.edge]
           t2 == RenameDart(t1, h.free2 * e2, h.free2 * e1 * h.sign2)
           v == DeleteNode(DeleteEdges(t2, {e2}), n)
           u == UpdateTopoGeomEdgeHeal(v, e1, e2, e1)
<1>1. Finish(u)
  BY DEF ModEdgeHeal, HealEdges
<1>2. /\ Base(t) /\ Shaped(t) /\ Numbered(t) /\ t.seq = seq /\ t.err = "done"
      /\ e1 \in DOMAIN t.edge /\ e2 \in DOMAIN t.edge /\ e1 # e2
      /\ IncidentEdges(t, {n}) = {e1, e2}
      /\ \E c, d : Meeting(t, h, e1, e2, n, c, d)
  BY HealingEdgesMeet DEF ModEdgeHeal
<1> HIDE DEF t, n, h
<1>3. PICK c, d : Meeting(t, h, e1, e2, n, c, d)
  BY <1>2
<1> DEFINE m == IF c = e1 THEN e1 ELSE -e1
<1>4. e1 \in Nat /\ e1 > 0 /\ e2 \in Nat /\ e2 > 0 /\ e1 <= seq.edge /\ seq.edge \in Nat
  BY <1>2 DEF Numbered
<1>5. /\ h.free2 * e2 = -d /\ h.free2 * e1 * h.sign2 = -m
      /\ c \in {e1, -e1} /\ d \in {e2, -e2}
      /\ DOMAIN h.edge = {"start_node", "end_node", "next_left", "next_right",
                          "face_left", "face_right", "geom"}
  BY <1>3, <1>4 DEF Meeting
<1>6. m = c /\ c # -d
  BY <1>2, <1>4, <1>5
<1>7. /\ DOMAIN t1 = DOMAIN t /\ t1.seq = t.seq /\ t1.err = t.err /\ t1.node = t.node
      /\ t1.face = t.face /\ t1.relation = t.relation
      /\ DOMAIN t1.edge = DOMAIN t.edge /\ t1.edge[e1] = h.edge
      /\ \A x \in DOMAIN t.edge \ {e1} : t1.edge[x] = t.edge[x]
  BY <1>2 DEF Shaped
<1> HIDE DEF t1
<1>8. Shaped(t1)
  BY <1>2, <1>5, <1>7 DEF Shaped
<1>9. t2 = RenameDart(t1, -d, -m)
  BY <1>5
<1> HIDE DEF t2, m
<1>10. LinksOnly(t1, t2) /\ Shaped(t2)
  BY <1>8, <1>9, RenameDartLinksOnly DEF LinksOnly
<1>11. \A x \in DOMAIN t1.edge :
         /\ t2.edge[x].next_left = WholeOf(c, d, m, t1.edge[x].next_left)
         /\ t2.edge[x].next_right = WholeOf(c, d, m, t1.edge[x].next_right)
  <2> TAKE x \in DOMAIN t1.edge
  <2>1. /\ t2.edge[x].next_left =
             IF t1.edge[x].next_left = -d THEN -m ELSE t1.edge[x].next_left
        /\ t2.edge[x].next_right =
             IF t1.edge[x].next_right = -d THEN -m ELSE t1.edge[x].next_right
    BY <1>8, <1>9, RenameShows
  <2>2. CASE t1.edge[x].next_left = c \/ t1.edge[x].next_right = c
    BY <1>6, <2>1, <2>2 DEF WholeOf
  <2> QED
    BY <1>6, <2>1, <2>2 DEF WholeOf
<1>12. /\ v.seq = t2.seq /\ v.err = t2.err /\ Shaped(v)
       /\ DOMAIN v.edge = DOMAIN t2.edge \ {e2}
       /\ \A x \in DOMAIN v.edge : v.edge[x] = t2.edge[x]
  BY <1>10, DeleteNodeAndEdges
<1> HIDE DEF v
<1>13. u.edge = v.edge /\ u.seq = v.seq /\ u.err = v.err
  BY <1>12 DEF UpdateTopoGeomEdgeHeal, Shaped
<1> HIDE DEF u
<1>14. /\ DOMAIN t2.edge = DOMAIN t.edge /\ t2.seq = t.seq /\ t2.err = t.err
       /\ \A x \in DOMAIN t2.edge : /\ t2.edge[x].start_node = t1.edge[x].start_node
                                    /\ t2.edge[x].end_node = t1.edge[x].end_node
                                    /\ t2.edge[x].geom = t1.edge[x].geom
  BY <1>7, <1>10 DEF LinksOnly
<1>15. DOMAIN u.edge = (DOMAIN t.edge \ {e1, e2}) \cup {e1}
  BY <1>2, <1>12, <1>13, <1>14
<1>16. /\ u.edge[e1].start_node = h.edge.start_node /\ u.edge[e1].end_node = h.edge.end_node
       /\ u.edge[e1].geom = h.edge.geom
       /\ u.edge[e1].next_left = WholeOf(c, d, m, h.edge.next_left)
       /\ u.edge[e1].next_right = WholeOf(c, d, m, h.edge.next_right)
  BY <1>2, <1>7, <1>11, <1>12, <1>13, <1>14
<1>17. ASSUME NEW x \in DOMAIN t.edge \ {e1, e2}
       PROVE  /\ u.edge[x].start_node = t.edge[x].start_node
              /\ u.edge[x].end_node = t.edge[x].end_node
              /\ u.edge[x].geom = t.edge[x].geom
              /\ u.edge[x].next_left = WholeOf(c, d, m, t.edge[x].next_left)
              /\ u.edge[x].next_right = WholeOf(c, d, m, t.edge[x].next_right)
  <2>1. x \in DOMAIN t1.edge /\ t1.edge[x] = t.edge[x] /\ x \in DOMAIN v.edge
    BY <1>7, <1>12, <1>14
  <2> QED
    BY <1>11, <1>12, <1>13, <1>14, <2>1
<1>18. EdgesJoined(t, u, e1, e2, e1, h.edge, c, d)
  BY <1>15, <1>16, <1>17 DEF EdgesJoined, m
<1>19. EdgesHealed(Origins(t), Follows(t), Azimuths(t), Origins(u), Follows(u), Azimuths(u),
                   c, d, m, n)
  BY <1>2, <1>3, <1>4, <1>18, JoinedIsHealed DEF m
<1>20. u.err = "done" /\ u.seq = seq
  BY <1>2, <1>12, <1>13, <1>14
<1>21. m \in 1 .. MaxEdge \/ -m \in 1 .. MaxEdge
  <2>1. u.seq.edge <= MaxEdge
    BY <1>1, <1>20, FinishShows
  <2>2. e1 \in 1 .. MaxEdge
    BY <1>4, <1>20, <2>1, Bounds
  <2> QED
    BY <1>4, <2>2 DEF m
<1> QED
  BY <1>1, <1>19, <1>20, <1>21, HealAdvances DEF t

\* ST_NewEdgeHeal
LEMMA NewEdgeHealAdvances ==
  ASSUME PlanarInv, PlanarInv', Turning(Tables), NEW e1 \in DOMAIN edge, NEW e2 \in DOMAIN edge,
         NewEdgeHeal(e1, e2)
  PROVE  Advances
<1> DEFINE t == Tables
           n == HealAt(e1, e2)
           h == Healed(t, e1, e2, n)
           id == NewEdge(t)
           t1 == InsertEdge(t, h.edge)
           t2 == RenameDart(t1, h.free2 * e2, h.free2 * id * h.sign2)
           t3 == RenameDart(t2, h.free1 * e1, h.free1 * id)
           v == DeleteNode(DeleteEdges(t3, {e1, e2}), n)
           u == UpdateTopoGeomEdgeHeal(v, e1, e2, id)
<1>1. Finish(u)
  BY DEF NewEdgeHeal, HealEdges
<1>2. /\ Base(t) /\ Shaped(t) /\ Numbered(t) /\ t.seq = seq /\ t.err = "done"
      /\ e1 \in DOMAIN t.edge /\ e2 \in DOMAIN t.edge /\ e1 # e2
      /\ IncidentEdges(t, {n}) = {e1, e2}
      /\ \E c, d : Meeting(t, h, e1, e2, n, c, d)
  BY HealingEdgesMeet DEF NewEdgeHeal
<1> HIDE DEF t, n, h
<1>3. PICK c, d : Meeting(t, h, e1, e2, n, c, d)
  BY <1>2
<1> DEFINE m == IF c = e1 THEN id ELSE -id
<1>4. /\ id \in Nat /\ id > 0 /\ id \notin DOMAIN t.edge /\ id = t.seq.edge + 1
      /\ e1 \in Nat /\ e1 > 0 /\ e2 \in Nat /\ e2 > 0 /\ id # e1
  <2>1. e1 \in Nat /\ e1 > 0 /\ e2 \in Nat /\ e2 > 0 /\ id = t.seq.edge + 1
    BY <1>2 DEF Numbered, NewEdge
  <2>2. id \in Nat /\ id > 0 /\ id \notin DOMAIN t.edge
    BY <1>2, NewIdsAreNew
  <2> QED
    BY <1>2, <2>1, <2>2
<1>5. /\ h.free2 * e2 = -d /\ h.free2 * id * h.sign2 = -m
      /\ h.free1 * e1 = c /\ h.free1 * id = m
      /\ c \in {e1, -e1} /\ d \in {e2, -e2}
      /\ DOMAIN h.edge = {"start_node", "end_node", "next_left", "next_right",
                          "face_left", "face_right", "geom"}
  <2>1. id \in Int
    BY <1>4
  <2> HIDE DEF id
  <2> QED
    BY <1>3, <2>1 DEF Meeting
<1>6. /\ DOMAIN t1 = DOMAIN t /\ DOMAIN t1.seq = DOMAIN t.seq /\ t1.err = t.err
      /\ t1.seq.node = t.seq.node /\ t1.seq.edge = id /\ t1.seq.face = t.seq.face
      /\ t1.node = t.node /\ t1.face = t.face /\ t1.relation = t.relation
      /\ DOMAIN t1.edge = DOMAIN t.edge \cup {id} /\ t1.edge[id] = h.edge
      /\ \A x \in DOMAIN t.edge : t1.edge[x] = t.edge[x]
  BY <1>2, <1>4 DEF Shaped, InsertEdge, NewEdge, With
<1> HIDE DEF t1, id
<1>7. Shaped(t1)
  BY <1>2, <1>5, <1>6 DEF Shaped
<1>8. t2 = RenameDart(t1, -d, -m) /\ t3 = RenameDart(t2, c, m)
  BY <1>5
<1>9. c # -m
  BY <1>4, <1>5
<1> HIDE DEF t2, t3, m
<1>10. LinksOnly(t1, t2) /\ Shaped(t2)
  BY <1>7, <1>8, RenameDartLinksOnly DEF LinksOnly
<1>11. LinksOnly(t1, t3) /\ Shaped(t3)
  BY <1>8, <1>10, RenameDartLinksOnly, LinksOnlyComposes DEF LinksOnly
<1>12. DOMAIN t2.edge = DOMAIN t1.edge
  BY <1>10 DEF LinksOnly
<1>13. c # -d
  BY <1>2, <1>4, <1>5
<1>14. \A x \in DOMAIN t1.edge :
         /\ t3.edge[x].next_left = WholeOf(c, d, m, t1.edge[x].next_left)
         /\ t3.edge[x].next_right = WholeOf(c, d, m, t1.edge[x].next_right)
  <2> TAKE x \in DOMAIN t1.edge
  <2>1. /\ t2.edge[x].next_left =
             IF t1.edge[x].next_left = -d THEN -m ELSE t1.edge[x].next_left
        /\ t2.edge[x].next_right =
             IF t1.edge[x].next_right = -d THEN -m ELSE t1.edge[x].next_right
    BY <1>7, <1>8, RenameShows
  <2>2. /\ t3.edge[x].next_left =
             IF t2.edge[x].next_left = c THEN m ELSE t2.edge[x].next_left
        /\ t3.edge[x].next_right =
             IF t2.edge[x].next_right = c THEN m ELSE t2.edge[x].next_right
    BY <1>8, <1>10, <1>12, RenameShows
  <2> QED
    BY <1>9, <1>13, <2>1, <2>2 DEF WholeOf
<1>15. /\ v.seq = t3.seq /\ v.err = t3.err /\ Shaped(v)
       /\ DOMAIN v.edge = DOMAIN t3.edge \ {e1, e2}
       /\ \A x \in DOMAIN v.edge : v.edge[x] = t3.edge[x]
  BY <1>11, DeleteNodeAndEdges
<1> HIDE DEF v
<1>16. u.edge = v.edge /\ u.seq = v.seq /\ u.err = v.err
  BY <1>15 DEF UpdateTopoGeomEdgeHeal, Shaped
<1> HIDE DEF u
<1>17. /\ DOMAIN t3.edge = DOMAIN t.edge \cup {id} /\ t3.seq = t1.seq /\ t3.err = t.err
       /\ \A x \in DOMAIN t3.edge : /\ t3.edge[x].start_node = t1.edge[x].start_node
                                    /\ t3.edge[x].end_node = t1.edge[x].end_node
                                    /\ t3.edge[x].geom = t1.edge[x].geom
  BY <1>6, <1>11 DEF LinksOnly
<1>18. DOMAIN u.edge = (DOMAIN t.edge \ {e1, e2}) \cup {id} /\ id \in DOMAIN v.edge
  BY <1>2, <1>4, <1>15, <1>16, <1>17
<1>19. /\ u.edge[id].start_node = h.edge.start_node /\ u.edge[id].end_node = h.edge.end_node
       /\ u.edge[id].geom = h.edge.geom
       /\ u.edge[id].next_left = WholeOf(c, d, m, h.edge.next_left)
       /\ u.edge[id].next_right = WholeOf(c, d, m, h.edge.next_right)
  BY <1>6, <1>14, <1>15, <1>16, <1>17, <1>18
<1>20. ASSUME NEW x \in DOMAIN t.edge \ {e1, e2}
       PROVE  /\ u.edge[x].start_node = t.edge[x].start_node
              /\ u.edge[x].end_node = t.edge[x].end_node
              /\ u.edge[x].geom = t.edge[x].geom
              /\ u.edge[x].next_left = WholeOf(c, d, m, t.edge[x].next_left)
              /\ u.edge[x].next_right = WholeOf(c, d, m, t.edge[x].next_right)
  <2>1. x \in DOMAIN t1.edge /\ t1.edge[x] = t.edge[x] /\ x \in DOMAIN v.edge
    BY <1>6, <1>15, <1>17
  <2> QED
    BY <1>14, <1>15, <1>16, <1>17, <2>1
<1>21. EdgesJoined(t, u, e1, e2, id, h.edge, c, d)
  BY <1>18, <1>19, <1>20 DEF EdgesJoined, m
<1>22. EdgesHealed(Origins(t), Follows(t), Azimuths(t), Origins(u), Follows(u), Azimuths(u),
                   c, d, m, n)
  BY <1>2, <1>3, <1>4, <1>21, JoinedIsHealed DEF m
<1>23. u.err = "done" /\ u.seq.edge = id
  BY <1>2, <1>6, <1>15, <1>16, <1>17
<1>24. m \in 1 .. MaxEdge \/ -m \in 1 .. MaxEdge
  <2>1. id <= MaxEdge
    BY <1>1, <1>23, FinishShows
  <2>2. id \in 1 .. MaxEdge
    BY <1>4, <2>1, Bounds
  <2> QED
    BY <1>4, <2>2 DEF m
<1> QED
  BY <1>1, <1>22, <1>23, <1>24, HealAdvances DEF t

\* The end q that is drawn anew has the same ends, of those in S, next to it as before
SameTurns(S, az, az2, q) ==
  S # {} => \E cw, ccw : /\ After(S, az, q, cw) /\ Before(S, az, q, ccw)
                         /\ After(S, az2, q, cw) /\ Before(S, az2, q, ccw)

\* So do the two ends of a loop
SameLoopTurns(S, az, az2, q, r) ==
  /\ \E c1, b1, c2, b2 : /\ NextToLoop(S, az, q, r, c1, b1, c2, b2)
                         /\ NextToLoop(S, az2, q, r, c1, b1, c2, b2)
  /\ Between(S, az, q, r) = {} <=> Between(S, az2, q, r) = {}
  /\ Beyond(S, az, q, r) = {} <=> Beyond(S, az2, q, r) = {}

\* The ends that leave the node of dart q, but for those of edge e
Others(org, q, e) == {d \in DOMAIN org : org[d] = org[q] /\ d # e /\ d # -e}

\* Edge e is drawn anew between the same turns
EdgeRedrawn(org, az, az2, e) ==
  /\ e \in DOMAIN org
  /\ \A d \in DOMAIN org \ {e, -e} : az2[d] = az[d]
  /\ IF org[e] = org[-e] THEN SameLoopTurns(Others(org, e, e), az, az2, e, -e)
     ELSE SameTurns(Others(org, e, e), az, az2, e) /\ SameTurns(Others(org, -e, e), az, az2, -e)

\* Then the links still turn clockwise
LEMMA RedrawTurns ==
  ASSUME NEW org, NEW next, NEW az, NEW az2, Directed(org, az), Clockwise(org, next, az),
         Directed(org, az2), NEW e, EdgeRedrawn(org, az, az2, e)
  PROVE  Clockwise(org, next, az2)
<1>1. /\ e \in DOMAIN org /\ -e \in DOMAIN org /\ e \in Int /\ e # 0 /\ -(-e) = e /\ e # -e
  BY DEF EdgeRedrawn, Directed
<1>2. \A d \in DOMAIN org \ {e, -e} : az2[d] = az[d]
  BY DEF EdgeRedrawn
<1>3. \A n : \A S \in SUBSET Around(org, n) : Spread(S, az) /\ Spread(S, az2)
  BY DirectedSpreads
<1>4. \A n : TurnsAt(Around(org, n), az, next)
  BY TurnsAtNode
<1>5. ASSUME org[e] # org[-e], NEW q \in {e, -e}
      PROVE  TurnsAt(Around(org, org[q]), az2, next)
  <2> DEFINE S == Others(org, q, e)
             T == Around(org, org[q])
  <2>1. T = S \cup {q} /\ q \notin S /\ \A x \in S : az[x] = az2[x]
    BY <1>1, <1>2, <1>5 DEF Around, Others
  <2>2. SameTurns(S, az, az2, q)
    BY <1>1, <1>5 DEF EdgeRedrawn, Others
  <2>3. Spread(T, az) /\ Spread(T, az2) /\ TurnsAt(T, az, next)
    BY <1>3, <1>4
  <2> HIDE DEF S, T
  <2>4. /\ Spread(S \cup {q}, az) /\ Spread(S \cup {q}, az2) /\ TurnsAt(S \cup {q}, az, next)
    BY <2>1, <2>3
  <2>5. TurnsAt(S \cup {q}, az2, next)
    BY <2>1, <2>2, <2>4, RedrawAtNode DEF SameTurns
  <2> QED
    BY <2>1, <2>5 DEF T
<1>6. ASSUME org[e] = org[-e]
      PROVE  TurnsAt(Around(org, org[e]), az2, next)
  <2> DEFINE S == Others(org, e, e)
             r == -e
             T == Around(org, org[e])
  <2>1. T = S \cup {e, r} /\ e \notin S /\ r \notin S /\ e # r /\ \A x \in S : az[x] = az2[x]
    BY <1>1, <1>2, <1>6 DEF Around, Others
  <2>2. SameLoopTurns(S, az, az2, e, r)
    BY <1>6 DEF EdgeRedrawn
  <2>3. Spread(T, az) /\ Spread(T, az2) /\ TurnsAt(T, az, next)
    BY <1>3, <1>4
  <2> HIDE DEF S, T, r
  <2>4. /\ Spread(S \cup {e, r}, az) /\ Spread(S \cup {e, r}, az2)
        /\ TurnsAt(S \cup {e, r}, az, next)
    BY <2>1, <2>3
  <2>5. PICK c1, b1, c2, b2 : /\ NextToLoop(S, az, e, r, c1, b1, c2, b2)
                              /\ NextToLoop(S, az2, e, r, c1, b1, c2, b2)
    BY <2>2 DEF SameLoopTurns
  <2>6. /\ Between(S, az, e, r) = {} <=> Between(S, az2, e, r) = {}
        /\ Beyond(S, az, e, r) = {} <=> Beyond(S, az2, e, r) = {}
    BY <2>2 DEF SameLoopTurns
  <2>7. TurnsAt(S \cup {e, r}, az2, next)
    BY <2>1, <2>4, <2>5, <2>6, RedrawLoopAtNode
  <2> QED
    BY <2>1, <2>7 DEF T
<1> SUFFICES ASSUME NEW d \in DOMAIN org PROVE TurnsAt(Around(org, org[d]), az2, next)
  BY DEF Clockwise
<1>7. CASE org[d] = org[e] \/ org[d] = org[-e]
  <2>1. CASE org[e] = org[-e]
    BY <1>6, <1>7, <2>1
  <2>2. CASE org[e] # org[-e]
    BY <1>5, <1>7, <2>2
  <2> QED
    BY <2>1, <2>2
<1>8. CASE org[d] # org[e] /\ org[d] # org[-e]
  <2> DEFINE T == Around(org, org[d])
  <2>1. \A x \in T : az[x] = az2[x]
    BY <1>2, <1>8 DEF Around
  <2>2. \A x \in T : After(T, az, x, next[-x])
    BY <1>4 DEF TurnsAt
  <2> HIDE DEF T
  <2>3. \A x \in T : After(T, az2, x, next[-x])
    BY <2>1, <2>2, SameAzimuthsSameOrder
  <2> QED
    BY <2>3 DEF TurnsAt, T
<1> QED
  BY <1>7, <1>8

\* The ends found next to q are the same for both drawings
LEMMA FoundTurnsAreSame ==
  ASSUME NEW S, NEW az, NEW az2, NEW q, NEW a, NEW b,
         Adjacent(S, S, S, az, q, a), Adjacent(S, S, S, az2, q, b),
         a.nextCW = b.nextCW, a.nextCCW = b.nextCCW
  PROVE  SameTurns(S, az, az2, q)
BY DEF Adjacent, SameTurns

\* So are those found next to the two ends of a loop
LEMMA FoundLoopTurnsAreSame ==
  ASSUME NEW S, NEW az, NEW az2, NEW q, NEW r, q # r, q \notin S, r \notin S,
         Spread(S \cup {q, r}, az), Spread(S \cup {q, r}, az2),
         NEW aq, NEW ar, NEW bq, NEW br,
         Adjacent(S, Between(S, az, q, r), Beyond(S, az, q, r), az, q, aq),
         Adjacent(S, Between(S, az, r, q), Beyond(S, az, r, q), az, r, ar),
         Adjacent(S, Between(S, az2, q, r), Beyond(S, az2, q, r), az2, q, bq),
         Adjacent(S, Between(S, az2, r, q), Beyond(S, az2, r, q), az2, r, br),
         aq.nextCW = bq.nextCW, aq.nextCCW = bq.nextCCW,
         ar.nextCW = br.nextCW, ar.nextCCW = br.nextCCW
  PROVE  SameLoopTurns(S, az, az2, q, r)
<1>1. /\ Between(S, az, r, q) = Beyond(S, az, q, r) /\ Beyond(S, az, r, q) = Between(S, az, q, r)
      /\ Between(S, az2, r, q) = Beyond(S, az2, q, r)
      /\ Beyond(S, az2, r, q) = Between(S, az2, q, r)
  BY BetweenIsBeyond
<1>2. NextToLoop(S, az, q, r, aq.nextCW, aq.nextCCW, ar.nextCW, ar.nextCCW)
  BY <1>1 DEF Adjacent, NextToLoop
<1>3. NextToLoop(S, az2, q, r, aq.nextCW, aq.nextCCW, ar.nextCW, ar.nextCCW)
  BY <1>1 DEF Adjacent, NextToLoop
<1>4. /\ Between(S, az, q, r) = {} <=> Between(S, az2, q, r) = {}
      /\ Beyond(S, az, q, r) = {} <=> Beyond(S, az2, q, r) = {}
  BY DEF Adjacent
<1> QED
  BY <1>2, <1>3, <1>4 DEF SameLoopTurns

\* Equal quadruples have equal components
LEMMA SameFour ==
  \A a1, a2, a3, a4, b1, b2, b3, b4 :
    <<a1, a2, a3, a4>> = <<b1, b2, b3, b4>> => a1 = b1 /\ a2 = b2 /\ a3 = b3 /\ a4 = b4
OBVIOUS

\* The edge ends next to e around its two ends are those of curve c, drawn in its place
LEMMA DispositionIsKept ==
  ASSUME Base(Tables), NEW e \in DOMAIN edge, NEW c,
         Disposition(e, c) = Disposition(e, edge[e].geom),
         Directed(Origins(Tables), Azimuths(Tables)),
         NEW az2, Directed(Origins(Tables), az2),
         az2[e] = FirstAzimuth(c), az2[-e] = LastAzimuth(c),
         \A d \in Darts(Tables) \ {e, -e} : az2[d] = Azimuths(Tables)[d]
  PROVE  EdgeRedrawn(Origins(Tables), Azimuths(Tables), az2, e)
<1> DEFINE t == Tables
           org == Origins(t)
           az == Azimuths(t)
           sn == edge[e].start_node
           en == edge[e].end_node
           S(q) == Others(org, q, e)
<1>1. e \in Nat /\ e > 0 /\ t.edge = edge
  BY TablesFacts DEF Base, Numbered
<1>2. e \in Darts(t) /\ -e \in Darts(t) /\ -(-e) = e /\ ~(-e > 0) /\ e # -e
  BY <1>1 DEF Darts
<1>3. /\ org[e] = sn /\ org[-e] = en
      /\ az[e] = FirstAzimuth(edge[e].geom) /\ az[-e] = LastAzimuth(edge[e].geom)
  BY <1>1, <1>2, DartFunctions DEF From, DartAzimuth
<1>4. \A d \in Darts(t) : d \in Int /\ (Abs(d) # e <=> d # e /\ d # -e)
  BY <1>1, DartFacts DEF Abs
<1>5. \A q \in {e, -e} : \A d : d \in S(q) <=> d \in Darts(t) /\ From(t, d) = org[q] /\ Abs(d) # e
  BY <1>4, DartFunctions DEF Others
<1>6. /\ \A d \in Darts(t) : az[d] = DartAzimuth(t, d) /\ az[d] \in 0 .. 7 /\ az2[d] \in 0 .. 7
      /\ \A a, b \in Darts(t) : org[a] = org[b] /\ a # b => az[a] # az[b] /\ az2[a] # az2[b]
  BY DartFunctions DEF Directed
<1>7. \A q \in {e, -e} : \A x \in S(q) :
        /\ x \in Darts(t) /\ org[x] = org[q] /\ x # e /\ x # -e
        /\ az[x] = DartAzimuth(t, x) /\ az2[x] = DartAzimuth(t, x)
  BY <1>6, DartFunctions DEF Others
<1>8. \A q \in {e, -e} : /\ az[q] \in 0 .. 7 /\ az2[q] \in 0 .. 7
                         /\ \A x \in S(q) : az[x] # az[q] /\ az2[x] # az2[q]
  BY <1>2, <1>6, <1>7
<1>9. e \in DOMAIN org /\ \A d \in DOMAIN org \ {e, -e} : az2[d] = az[d]
  BY <1>2, DartFunctions
<1> HIDE DEF S
<1>10. ASSUME sn # en
       PROVE  SameTurns(S(e), az, az2, e) /\ SameTurns(S(-e), az, az2, -e)
  <2> DEFINE Near(q, a) == FindAdjacentEdges(t, org[q], a[q], NoAzimuth, e)
  <2>1. ASSUME NEW q \in {e, -e}
        PROVE  Adjacent(S(q), S(q), S(q), az, q, Near(q, az))
               /\ Adjacent(S(q), S(q), S(q), az2, q, Near(q, az2))
    <3>1. /\ Base(t) /\ az[q] \in 0 .. 7 /\ az2[q] \in 0 .. 7
          /\ \A d : d \in S(q) <=> d \in Darts(t) /\ From(t, d) = org[q] /\ Abs(d) # e
          /\ \A x \in S(q) : az[x] = DartAzimuth(t, x) /\ az[x] # az[q]
          /\ \A x \in S(q) : az2[x] = DartAzimuth(t, x) /\ az2[x] # az2[q]
      BY <1>5, <1>7, <1>8
    <3> HIDE DEF t, org, az
    <3> QED
      BY <3>1, AdjacentEdgesAre
  <2>2. Disposition(e, c) = <<Near(e, az2).nextCW, Near(e, az2).nextCCW,
                              Near(-e, az2).nextCW, Near(-e, az2).nextCCW>>
    BY <1>3, <1>10 DEF Disposition
  <2>3. Disposition(e, edge[e].geom) = <<Near(e, az).nextCW, Near(e, az).nextCCW,
                                         Near(-e, az).nextCW, Near(-e, az).nextCCW>>
    BY <1>3, <1>10 DEF Disposition
  <2> HIDE DEF Near
  <2>4. /\ Near(e, az).nextCW = Near(e, az2).nextCW /\ Near(e, az).nextCCW = Near(e, az2).nextCCW
        /\ Near(-e, az).nextCW = Near(-e, az2).nextCW
        /\ Near(-e, az).nextCCW = Near(-e, az2).nextCCW
    <3>1. <<Near(e, az).nextCW, Near(e, az).nextCCW, Near(-e, az).nextCW, Near(-e, az).nextCCW>>
            = <<Near(e, az2).nextCW, Near(e, az2).nextCCW,
                Near(-e, az2).nextCW, Near(-e, az2).nextCCW>>
      BY <2>2, <2>3, Zenon
    <3> QED
      BY <3>1, SameFour, Zenon
  <2> HIDE DEF t, org, az
  <2> QED
    BY <2>1, <2>4, FoundTurnsAreSame
<1>11. ASSUME sn = en
       PROVE  SameLoopTurns(S(e), az, az2, e, -e)
  <2> DEFINE Near(q, r, a) == FindAdjacentEdges(t, org[q], a[q], a[r], e)
             T == S(e)
             Found(q, r, a) == Adjacent(T, Between(T, a, q, r), Beyond(T, a, q, r), a, q,
                                        Near(q, r, a))
  <2>1. org[e] = org[-e]
    BY <1>3, <1>11
  <2>2. /\ az[e] # az[-e] /\ az2[e] # az2[-e]
        /\ \A x \in T : az[x] # az[-e] /\ az2[x] # az2[-e]
    BY <1>2, <1>6, <1>7, <2>1
  <2>3. \A q \in {e, -e} : \A d : d \in T <=> d \in Darts(t) /\ From(t, d) = org[q] /\ Abs(d) # e
    BY <1>5, <2>1
  <2>4. ASSUME NEW q \in {e, -e}, NEW r \in {e, -e}, q # r
        PROVE  Found(q, r, az) /\ Found(q, r, az2)
    <3>1. /\ Base(t) /\ az[q] \in 0 .. 7 /\ az2[q] \in 0 .. 7 /\ az[r] \in 0 .. 7
          /\ az2[r] \in 0 .. 7 /\ az[q] # az[r] /\ az2[q] # az2[r]
          /\ \A d : d \in T <=> d \in Darts(t) /\ From(t, d) = org[q] /\ Abs(d) # e
          /\ \A x \in T : az[x] = DartAzimuth(t, x) /\ az[x] # az[q]
          /\ \A x \in T : az2[x] = DartAzimuth(t, x) /\ az2[x] # az2[q]
      BY <1>7, <1>8, <2>2, <2>3, <2>4
    <3> HIDE DEF t, org, az, T
    <3> QED
      BY <3>1, AdjacentEdgesToLoop
  <2>5. Disposition(e, c) = <<Near(e, -e, az2).nextCW, Near(e, -e, az2).nextCCW,
                              Near(-e, e, az2).nextCW, Near(-e, e, az2).nextCCW>>
    BY <1>3, <1>11 DEF Disposition
  <2>6. Disposition(e, edge[e].geom) = <<Near(e, -e, az).nextCW, Near(e, -e, az).nextCCW,
                                         Near(-e, e, az).nextCW, Near(-e, e, az).nextCCW>>
    BY <1>3, <1>11 DEF Disposition
  <2>7. e \notin T /\ -e \notin T
    BY <1>7
  <2>8. Spread(T \cup {e, -e}, az) /\ Spread(T \cup {e, -e}, az2)
    <3>1. \A x \in T \cup {e, -e} : x \in Darts(t) /\ org[x] = org[e]
      BY <1>2, <1>7, <2>1
    <3> HIDE DEF t, org, az, T
    <3> QED
      BY <1>6, <3>1 DEF Spread
  <2> HIDE DEF Near
  <2>9. /\ Near(e, -e, az).nextCW = Near(e, -e, az2).nextCW
        /\ Near(e, -e, az).nextCCW = Near(e, -e, az2).nextCCW
        /\ Near(-e, e, az).nextCW = Near(-e, e, az2).nextCW
        /\ Near(-e, e, az).nextCCW = Near(-e, e, az2).nextCCW
    <3>1. <<Near(e, -e, az).nextCW, Near(e, -e, az).nextCCW,
            Near(-e, e, az).nextCW, Near(-e, e, az).nextCCW>>
            = <<Near(e, -e, az2).nextCW, Near(e, -e, az2).nextCCW,
                Near(-e, e, az2).nextCW, Near(-e, e, az2).nextCCW>>
      BY <2>5, <2>6, Zenon
    <3> QED
      BY <3>1, SameFour, Zenon
  <2>10. /\ Found(e, -e, az) /\ Found(e, -e, az2) /\ Found(-e, e, az) /\ Found(-e, e, az2)
    BY <1>2, <2>4
  <2>11. SameLoopTurns(T, az, az2, e, -e)
    <3> DEFINE r == -e
    <3>1. /\ Found(e, r, az) /\ Found(e, r, az2) /\ Found(r, e, az) /\ Found(r, e, az2)
          /\ e # r /\ e \notin T /\ r \notin T
          /\ Spread(T \cup {e, r}, az) /\ Spread(T \cup {e, r}, az2)
          /\ Near(e, r, az).nextCW = Near(e, r, az2).nextCW
          /\ Near(e, r, az).nextCCW = Near(e, r, az2).nextCCW
          /\ Near(r, e, az).nextCW = Near(r, e, az2).nextCW
          /\ Near(r, e, az).nextCCW = Near(r, e, az2).nextCCW
      BY <1>2, <2>7, <2>8, <2>9, <2>10
    <3> HIDE DEF t, org, az, T, r
    <3>2. SameLoopTurns(T, az, az2, e, r)
      BY <3>1, FoundLoopTurnsAreSame
    <3> QED
      BY <3>2 DEF r
  <2> QED
    BY <2>11
<1> QED
  BY <1>3, <1>9, <1>10, <1>11 DEF EdgeRedrawn, S

\* What drawing an edge anew leaves of the darts
LEMMA RedrawnDarts ==
  ASSUME NEW t, Base(t), NEW e \in DOMAIN t.edge, NEW c, NEW u,
         SameLinks([t EXCEPT !.edge[e].geom = c], u)
  PROVE  /\ Origins(u) = Origins(t) /\ Follows(u) = Follows(t)
         /\ Azimuths(u)[e] = FirstAzimuth(c) /\ Azimuths(u)[-e] = LastAzimuth(c)
         /\ \A d \in Darts(t) \ {e, -e} : Azimuths(u)[d] = Azimuths(t)[d]
<1> DEFINE t1 == [t EXCEPT !.edge[e].geom = c]
<1>1. /\ Darts(t1) = Darts(t) /\ t1.edge[e].geom = c
      /\ t1.edge[e].start_node = t.edge[e].start_node /\ t1.edge[e].end_node = t.edge[e].end_node
      /\ t1.edge[e].next_left = t.edge[e].next_left
      /\ t1.edge[e].next_right = t.edge[e].next_right
      /\ DOMAIN t1.edge = DOMAIN t.edge
      /\ \A x \in DOMAIN t.edge \ {e} : t1.edge[x] = t.edge[x]
  BY DEF Base, Shaped, Darts
<1>2. \A x \in DOMAIN t1.edge : x \in Nat /\ x > 0
  BY <1>1 DEF Base, Numbered
<1> HIDE DEF t1
<1>3. Origins(u) = Origins(t1) /\ Follows(u) = Follows(t1) /\ Azimuths(u) = Azimuths(t1)
  BY <1>2, SameLinksSameDarts DEF t1
<1>4. \A d \in Darts(t) :
        (d \in DOMAIN t.edge /\ d > 0) \/ (-d \in DOMAIN t.edge /\ ~(d > 0))
  BY <1>1, <1>2 DEF Darts
<1>5. \A d \in Darts(t) : From(t1, d) = From(t, d) /\ NextDart(t1, d) = NextDart(t, d)
  BY <1>1, <1>4 DEF From, NextDart
<1>6. Origins(t1) = Origins(t) /\ Follows(t1) = Follows(t)
  BY <1>1, <1>5 DEF Origins, Follows
<1>7. e > 0 /\ ~(-e > 0) /\ -(-e) = e /\ e \in Darts(t) /\ -e \in Darts(t)
  BY <1>1, <1>2 DEF Darts
<1>8. DartAzimuth(t1, e) = FirstAzimuth(c) /\ DartAzimuth(t1, -e) = LastAzimuth(c)
  BY <1>1, <1>7 DEF DartAzimuth
<1>9. ASSUME NEW d \in Darts(t) \ {e, -e} PROVE DartAzimuth(t1, d) = DartAzimuth(t, d)
  <2>1. d \in Int
    BY DartFacts
  <2>2. d > 0 => d \in DOMAIN t.edge \ {e}
    BY <1>4
  <2>3. ~(d > 0) => -d \in DOMAIN t.edge \ {e}
    BY <1>4, <2>1
  <2> QED
    BY <1>1, <2>2, <2>3 DEF DartAzimuth
<1> QED
  BY <1>1, <1>3, <1>6, <1>7, <1>8, <1>9, DartFunctions

\* ST_ChangeEdgeGeom
LEMMA ChangeEdgeGeomAdvances ==
  ASSUME PlanarInv, PlanarInv', Turning(Tables), NEW e \in DOMAIN edge, NEW c \in Curves,
         ChangeEdgeGeom(e, c)
  PROVE  Advances
<1> DEFINE t == Tables
           old == t.edge[e]
           u == [t EXCEPT !.edge[e].geom = c]
           sides == {old.face_left, old.face_right} \ {Universe}
           v == IF Box(Points(old.geom)) = Box(Points(c)) THEN u ELSE UpdateFaceBoxes(u, sides)
<1>1. Finish(v) /\ Disposition(e, c) = Disposition(e, edge[e].geom)
  BY TablesFacts DEF ChangeEdgeGeom
<1>2. Inv /\ Base(t) /\ e \in DOMAIN t.edge
  BY TablesFacts DEF PlanarInv, Inv, Sound
<1>3. CASE v.err # "done"
  BY <1>1, <1>2, <1>3, FailureAdvances
<1>4. CASE v.err = "done"
  <2>1. SameLinks(u, v)
    <3> DEFINE failed == Fail(u, "corrupted topology")
               boxed == [u EXCEPT !.face = [f \in DOMAIN u.face |->
                           IF f \in sides THEN FaceBox(u, f) ELSE u.face[f]]]
    <3>1. v \in {u, failed, boxed}
      BY DEF UpdateFaceBoxes
    <3>2. DOMAIN u = DOMAIN t
      OBVIOUS
    <3>3. failed.err # "done"
      BY <1>2, <3>2, FailIsNotDone DEF Base, Shaped, Fail
    <3>4. boxed.edge = u.edge
      BY <1>2, <3>2 DEF Base, Shaped
    <3> HIDE DEF v, u, failed, boxed
    <3> QED
      BY <1>4, <3>1, <3>3, <3>4 DEF SameLinks
  <2> HIDE DEF v
  <2> DEFINE az2 == Azimuths(v)
  <2>2. /\ Origins(v) = Origins(t) /\ Follows(v) = Follows(t)
        /\ az2[e] = FirstAzimuth(c) /\ az2[-e] = LastAzimuth(c)
        /\ \A d \in Darts(t) \ {e, -e} : az2[d] = Azimuths(t)[d]
    BY <1>2, <2>1, RedrawnDarts
  <2>3. /\ Origins(Tables)' = Origins(t) /\ Follows(Tables)' = Follows(t)
        /\ Azimuths(Tables)' = az2
    BY <1>1, <1>4, <2>2, FinishShows
  <2>4. Directed(Origins(t), Azimuths(t)) /\ Directed(Origins(t), az2)
    BY <2>3, CallsKeepDirected
  <2> HIDE DEF az2
  <2>5. EdgeRedrawn(Origins(t), Azimuths(t), az2, e)
    BY <1>1, <1>2, <2>2, <2>4, DispositionIsKept
  <2>6. Clockwise(Origins(t), Follows(t), az2)
    BY <2>4, <2>5, RedrawTurns DEF Turning
  <2>7. Turning(Tables)'
    BY <2>3, <2>6 DEF Turning
  <2>8. UNCHANGED Linking!vars
    BY <2>3 DEF Linking!vars
  <2> QED
    BY <2>7, <2>8 DEF Advances
<1> QED
  BY <1>3, <1>4

-----------------------------------------------------------------------------
(* What all the calls keep.                                                *)

\* ST_NewEdgesSplit is called on no edge that a neighbour links to by next_right
NewSplitsAreLeftLinked ==
  [][\A e \in DOMAIN edge : \A i \in DOMAIN edge[e].geom :
       NewEdgesSplit(e, i) => ~RightLinked(e)]_vars

\* Every call keeps the links turning clockwise, but for that one
LEMMA NextAdvances ==
  ASSUME PlanarInv, PlanarInv', Turning(Tables), Next,
         \A e \in DOMAIN edge : \A i \in DOMAIN edge[e].geom :
           NewEdgesSplit(e, i) => ~RightLinked(e)
  PROVE  Advances
<1>1. CASE \/ \E p \in Sites : AddIsoNode(p)
           \/ \E n \in DOMAIN node, p \in Sites : MoveIsoNode(n, p)
           \/ \E n \in DOMAIN node : RemoveIsoNode(n)
  BY <1>1, IsoNodesAdvance DEF PlanarInv
<1>2. CASE \E sn, en \in DOMAIN node, c \in Curves : AddIsoEdge(sn, en, c)
  BY <1>2, AddIsoEdgeAdvances
<1>3. CASE \E sn, en \in DOMAIN node, c \in Curves : AddEdgeNewFaces(sn, en, c)
  BY <1>3, AddEdgeAdvances DEF AddEdgeNewFaces
<1>4. CASE \E sn, en \in DOMAIN node, c \in Curves : AddEdgeModFace(sn, en, c)
  BY <1>4, AddEdgeAdvances DEF AddEdgeModFace
<1>5. CASE \E e \in DOMAIN edge : \E i \in DOMAIN edge[e].geom : ModEdgeSplit(e, i)
  BY <1>5, ModEdgeSplitAdvances
<1>6. CASE \E e \in DOMAIN edge : \E i \in DOMAIN edge[e].geom : NewEdgesSplit(e, i)
  BY <1>6, NewEdgesSplitAdvances
<1>7. CASE \E e \in DOMAIN edge, c \in Curves : ChangeEdgeGeom(e, c)
  BY <1>7, ChangeEdgeGeomAdvances
<1>8. CASE \E e \in DOMAIN edge : RemIsoEdge(e)
  BY <1>8, RemIsoEdgeAdvances
<1>9. CASE \E e \in DOMAIN edge : RemEdgeModFace(e)
  BY <1>9, RemEdgeAdvances DEF RemEdgeModFace
<1>10. CASE \E e \in DOMAIN edge : RemEdgeNewFace(e)
  BY <1>10, RemEdgeAdvances DEF RemEdgeNewFace
<1>11. CASE \E e1, e2 \in DOMAIN edge : ModEdgeHeal(e1, e2)
  BY <1>11, ModEdgeHealAdvances
<1>12. CASE \E e1, e2 \in DOMAIN edge : NewEdgeHeal(e1, e2)
  BY <1>12, NewEdgeHealAdvances
<1>13. CASE \E tg \in TopoGeoms :
              \/ \E S \in SUBSET Primitives(Kind[tg]) : CreateTopoGeom(tg, S)
              \/ ClearTopoGeom(tg)
              \/ \E i \in Primitives(Kind[tg]) : AddElement(tg, i)
              \/ \E i \in Primitives(Kind[tg]) : RemElement(tg, i)
  BY <1>13, TopoGeomsAdvance DEF PlanarInv
<1> QED
  BY <1>1, <1>2, <1>3, <1>4, <1>5, <1>6, <1>7, <1>8, <1>9, <1>10, <1>11, <1>12, <1>13 DEF Next

\* The empty topology
LEMMA InitTurns == Init => Turning(Tables) /\ Linking!Init
<1> SUFFICES ASSUME Init PROVE Turning(Tables) /\ Linking!Init
  OBVIOUS
<1>1. DOMAIN Tables.edge = {}
  BY DEF Init, Tables, None
<1>2. Darts(Tables) = {}
  BY <1>1 DEF Darts
<1>3. DOMAIN Origins(Tables) = {}
  BY <1>2, DartFunctions
<1>4. Turning(Tables)
  BY <1>3 DEF Turning, Clockwise
<1>5. Linking!Init
  BY <1>2 DEF Linking!Init, Origins, Follows
<1> QED
  BY <1>4, <1>5

\* The inductive invariant, and what a step of a call is to EdgeLinking
LEMMA StepAdvances ==
  PlanarInv /\ Turning(Tables) /\ [Next]_vars
    /\ [\A e \in DOMAIN edge : \A i \in DOMAIN edge[e].geom :
          NewEdgesSplit(e, i) => ~RightLinked(e)]_vars
    => PlanarInv' /\ Turning(Tables)' /\ [Linking!Next]_(Linking!vars)
<1> SUFFICES ASSUME PlanarInv, Turning(Tables), [Next]_vars,
                    [\A e \in DOMAIN edge : \A i \in DOMAIN edge[e].geom :
                       NewEdgesSplit(e, i) => ~RightLinked(e)]_vars
             PROVE  PlanarInv' /\ Turning(Tables)' /\ [Linking!Next]_(Linking!vars)
  OBVIOUS
<1>1. PlanarInv'
  BY NextKeepsInv DEF PlanarInv
<1>2. CASE UNCHANGED vars
  <2>1. Tables' = Tables
    BY <1>2 DEF vars, Tables
  <2>2. Turning(Tables)' /\ UNCHANGED Linking!vars
    BY <2>1 DEF Linking!vars
  <2> QED
    BY <1>1, <2>2
<1>3. CASE ~UNCHANGED vars
  BY <1>1, <1>3, NextAdvances DEF Advances
<1> QED
  BY <1>2, <1>3

\* However edges are added, split, healed, redrawn and removed, next_left_edge and
\* next_right_edge lead to the next edge end met turning clockwise around the node, as
\* ST_AddEdge* look for it and as the walk around a face relies on.  ST_NewEdgesSplit on an
\* edge that a neighbour links to by next_right is left out: it breaks a link
THEOREM LinksStayClockwise == Spec /\ NewSplitsAreLeftLinked => []LinksTurnClockwise
<1>1. PlanarInv /\ Turning(Tables) => LinksTurnClockwise
  BY TurningIsClockwise DEF PlanarInv, Inv, Sound
<1> QED
  BY <1>1, InitIsPlanar, InitTurns, StepAdvances, PTL DEF Spec, NewSplitsAreLeftLinked

\* And each of those calls is to the links one of the edits of EdgeLinking, which keep them
\* a permutation, or nothing
THEOREM EditsAreThoseOfLinks == Spec /\ NewSplitsAreLeftLinked => EditsImplementLinking
BY InitIsPlanar, InitTurns, StepAdvances, PTL
DEF Spec, NewSplitsAreLeftLinked, EditsImplementLinking, Linking!Spec

(***************************************************************************)
(* What is proved of EdgeLinking holds of the links of the tables.         *)
(***************************************************************************)
LinkingTheorems == INSTANCE EdgeLinkingProof WITH
                     Edges <- 1 .. MaxEdge,
                     Nodes <- 1 .. MaxNode,
                     org <- Origins(Tables),
                     next <- Follows(Tables)

\* Then no two edge ends lead to the same one and each is led to, so that the walk around a
\* face (lwt_be_getRingEdges, which stops where it began) always comes back
THEOREM RingsClose == Spec /\ NewSplitsAreLeftLinked => []Linking!LinksArePermutation
<1>1. LinkingTheorems!Spec => []LinkingTheorems!LinksArePermutation
  <2>1. LinkingTheorems!EdgesArePositive
    BY DEF LinkingTheorems!EdgesArePositive
  <2> QED
    BY <2>1, LinkingTheorems!LinksAlwaysArePermutation
<1>2. Linking!Init <=> LinkingTheorems!Init
  BY DEF Linking!Init, LinkingTheorems!Init
<1>3. [Linking!Next]_(Linking!vars) <=> [LinkingTheorems!Next]_(LinkingTheorems!vars)
  BY DEF Linking!vars, LinkingTheorems!vars, Linking!Next, LinkingTheorems!Next,
         Linking!AddEdge, Linking!AddLoop, Linking!AddEmptyLoop, Linking!RemoveEdge,
         Linking!SplitEdge, Linking!HealEdges, Linking!Tie, Linking!Free, Linking!Bare,
         Linking!Corners, Linking!Darts,
         LinkingTheorems!AddEdge, LinkingTheorems!AddLoop, LinkingTheorems!AddEmptyLoop,
         LinkingTheorems!RemoveEdge, LinkingTheorems!SplitEdge, LinkingTheorems!HealEdges,
         LinkingTheorems!Tie, LinkingTheorems!Free, LinkingTheorems!Bare,
         LinkingTheorems!Corners, LinkingTheorems!Darts
<1>4. Linking!LinksArePermutation <=> LinkingTheorems!LinksArePermutation
  BY DEF Linking!LinksArePermutation, LinkingTheorems!LinksArePermutation,
         Linking!Darts, LinkingTheorems!Darts
<1> QED
  BY <1>1, <1>2, <1>3, <1>4, EditsAreThoseOfLinks, PTL
  DEF EditsImplementLinking, Linking!Spec, LinkingTheorems!Spec
=============================================================================
