-------------------------- MODULE EdgeLinkingProof --------------------------
(***************************************************************************)
(* Proof that the links of EdgeLinking stay a permutation of the darts     *)
(* that follows the nodes, for any set of edges and of nodes.              *)
(***************************************************************************)
EXTENDS EdgeLinking, TLAPS

Inv == TypeOK /\ LinksFollowNodes /\ LinksArePermutation

-----------------------------------------------------------------------------
\* The facts about darts every step below needs
LEMMA DartFacts ==
  ASSUME TypeOK
  PROVE  /\ \A d \in Darts : d \in Int /\ d # 0 /\ -d \in Darts /\ -(-d) = d /\ d # -d
         /\ \A d \in Darts : next[d] \in Darts /\ org[d] \in Nodes
         /\ \A d \in Darts : d \in Edges \/ -d \in Edges
         /\ \A e \in Edges : e \in Int /\ e > 0 /\ -e \in Int /\ -e # e /\ -(-e) = e
         /\ \A e \in Edges : Free(e) => e \notin Darts /\ -e \notin Darts
<1>1. \A e \in Edges : e \in Int /\ e > 0 /\ -e \in Int /\ -e # e /\ -(-e) = e
  <2> TAKE e \in Edges
  <2>1. e \in Int /\ e > 0
    BY EdgesArePositive
  <2> QED
    BY <2>1
<1>2. \A d \in Darts : d \in Edges \/ \E e \in Edges : d = -e
  BY DEF TypeOK
<1>3. \A d \in Darts : d \in Int /\ d # 0 /\ -d \in Darts /\ -(-d) = d /\ d # -d
  BY <1>1, <1>2 DEF TypeOK
<1>4. \A d \in Darts : next[d] \in Darts /\ org[d] \in Nodes
  BY DEF TypeOK, Darts
<1>5. \A d \in Darts : d \in Edges \/ -d \in Edges
  BY <1>1, <1>2
<1>6. \A e \in Edges : Free(e) => e \notin Darts /\ -e \notin Darts
  BY <1>1, <1>3 DEF Free
<1> QED
  BY <1>1, <1>3, <1>4, <1>5, <1>6

\* Tying an edge in behind two different corners
LEMMA TieKeepsInv ==
  ASSUME Inv, NEW e \in Edges, NEW m \in Nodes, NEW n \in Nodes, Free(e),
         NEW p \in Darts \cup {-e}, NEW q \in Darts \cup {e}, p # q,
         p = -e \/ p \in Corners(m), q = e \/ q \in Corners(n),
         Tie(e, m, n, p, q)
  PROVE  Inv'
<1> DEFINE all == Darts \cup {e, -e}
<1>1. TypeOK
  BY DEF Inv
<1>2. /\ \A d \in Darts : d \in Int /\ d # 0 /\ -d \in Darts /\ -(-d) = d /\ d # -d
      /\ \A d \in Darts : next[d] \in Darts /\ org[d] \in Nodes
      /\ \A d \in Darts : d \in Edges \/ -d \in Edges
      /\ e \in Int /\ e > 0 /\ -e \in Int /\ -e # e /\ -(-e) = e
      /\ e \notin Darts /\ -e \notin Darts
  BY <1>1, DartFacts
<1>3. Darts' = all
  BY DEF Tie, Darts
<1>4. /\ org'[e] = m /\ org'[-e] = n
      /\ \A d \in Darts : org'[d] = org[d]
  BY <1>2 DEF Tie
<1>5. /\ next'[p] = e /\ next'[q] = -e
      /\ p # -e => next'[-e] = next[p]
      /\ q # e => next'[e] = next[q]
      /\ \A d \in Darts \ {p, q} : next'[d] = next[d]
  BY <1>2 DEF Tie
<1>6. TypeOK'
  <2>1. \A d \in all : d \in Edges \cup {-x : x \in Edges} /\ -d \in all
    BY <1>1, <1>2 DEF TypeOK
  <2>2. \A d \in all : org'[d] \in Nodes
    BY <1>2, <1>4
  <2>3. \A d \in all : next'[d] \in all
    BY <1>2, <1>5
  <2>4. org' \in [all -> Nodes]
    BY <2>2 DEF Tie
  <2>5. next' \in [all -> all]
    BY <2>3 DEF Tie
  <2> QED
    BY <1>3, <2>1, <2>4, <2>5 DEF TypeOK
<1>7. LinksFollowNodes'
  <2>1. \A d \in all : org'[next'[d]] = org'[-d]
    <3>1. \A d \in Darts : org[next[d]] = org[-d]
      BY DEF Inv, LinksFollowNodes
    <3>2. p # -e => org[-p] = m
      BY DEF Corners
    <3>3. q # e => org[-q] = n
      BY DEF Corners
    <3> QED
      BY <1>2, <1>4, <1>5, <3>1, <3>2, <3>3
  <2> QED
    BY <1>3, <2>1 DEF LinksFollowNodes
<1>8. LinksArePermutation'
  <2>1. \A c, d \in Darts : next[c] = next[d] => c = d
    BY DEF Inv, LinksArePermutation
  <2>2. \A c, d \in all : next'[c] = next'[d] => c = d
    BY <1>2, <1>5, <2>1
  <2>3. \A d \in all : \E c \in all : next'[c] = d
    <3>1. \A d \in Darts : \E c \in Darts : next[c] = d
      BY DEF Inv, LinksArePermutation
    <3> QED
      BY <1>2, <1>5, <3>1
  <2> QED
    BY <1>3, <2>2, <2>3 DEF LinksArePermutation
<1> QED
  BY <1>6, <1>7, <1>8 DEF Inv

\* An edge between two nodes, at the ends where its direction falls, keeps the links right
LEMMA AddEdgeKeepsInv ==
  ASSUME Inv, NEW e \in Edges, NEW m \in Nodes, NEW n \in Nodes, AddEdge(e, m, n)
  PROVE  Inv'
<1>1. PICK p \in IF Bare(m) THEN {-e} ELSE Corners(m),
           q \in IF Bare(n) THEN {e} ELSE Corners(n) : Tie(e, m, n, p, q)
  BY DEF AddEdge
<1>2. Free(e) /\ m # n
  BY DEF AddEdge
<1>3. p \in Darts \cup {-e} /\ q \in Darts \cup {e}
  BY DEF Corners
<1>4. (p = -e \/ p \in Corners(m)) /\ (q = e \/ q \in Corners(n))
  OBVIOUS
<1>5. p # q
  <2>1. TypeOK
    BY DEF Inv
  <2>2. -e # e /\ e \notin Darts /\ -e \notin Darts
    BY <1>2, <2>1, DartFacts
  <2>3. p \in Corners(m) /\ q \in Corners(n) => p # q
    BY <1>2 DEF Corners
  <2> QED
    BY <1>4, <2>2, <2>3 DEF Corners
<1> QED
  BY <1>1, <1>2, <1>3, <1>4, <1>5, TieKeepsInv

\* So does a closed edge with others on both of its sides
LEMMA AddLoopKeepsInv ==
  ASSUME Inv, NEW e \in Edges, NEW n \in Nodes, AddLoop(e, n)
  PROVE  Inv'
<1>1. PICK p \in Corners(n), q \in Corners(n) : p # q /\ Tie(e, n, n, p, q)
  BY DEF AddLoop
<1>2. Free(e)
  BY DEF AddLoop
<1>3. p \in Darts \cup {-e} /\ q \in Darts \cup {e}
  BY DEF Corners
<1> QED
  BY <1>1, <1>2, <1>3, TieKeepsInv

\* So does a closed edge with nothing on one side
LEMMA AddEmptyLoopKeepsInv ==
  ASSUME Inv, NEW e \in Edges, NEW n \in Nodes, AddEmptyLoop(e, n)
  PROVE  Inv'
<1> DEFINE all == Darts \cup {e, -e}
<1>1. TypeOK /\ Free(e)
  BY DEF Inv, AddEmptyLoop
<1>2. /\ \A d \in Darts : d \in Int /\ d # 0 /\ -d \in Darts /\ -(-d) = d /\ d # -d
      /\ \A d \in Darts : next[d] \in Darts /\ org[d] \in Nodes
      /\ e \in Int /\ e > 0 /\ -e \in Int /\ -e # e /\ -(-e) = e
      /\ e \notin Darts /\ -e \notin Darts
  BY <1>1, DartFacts
<1>3. Darts' = all
  BY DEF AddEmptyLoop, Darts
<1>4. /\ org'[e] = n /\ org'[-e] = n
      /\ \A d \in Darts : org'[d] = org[d]
  BY <1>2 DEF AddEmptyLoop
<1>5. org' \in [all -> Nodes]
  <2>1. \A d \in all : org'[d] \in Nodes
    BY <1>2, <1>4
  <2> QED
    BY <2>1 DEF AddEmptyLoop
<1>6. /\ \A d \in Darts : org[next[d]] = org[-d]
      /\ \A c, d \in Darts : next[c] = next[d] => c = d
      /\ \A d \in Darts : \E c \in Darts : next[c] = d
  BY DEF Inv, LinksFollowNodes, LinksArePermutation
<1>7. \A d \in all : d \in Edges \cup {-x : x \in Edges} /\ -d \in all
  BY <1>1, <1>2 DEF TypeOK
<1>8. CASE next' = [d \in all |-> IF d \in {e, -e} THEN d ELSE next[d]]
  <2>1. /\ next'[e] = e /\ next'[-e] = -e
        /\ \A d \in Darts : next'[d] = next[d]
    BY <1>2, <1>8
  <2>2. \A d \in all : next'[d] \in all
    BY <1>2, <2>1
  <2>3. next' \in [all -> all]
    BY <1>8, <2>2
  <2>4. \A d \in all : org'[next'[d]] = org'[-d]
    BY <1>2, <1>4, <1>6, <2>1
  <2>5. \A c, d \in all : next'[c] = next'[d] => c = d
    BY <1>2, <1>6, <2>1
  <2>6. \A d \in all : \E c \in all : next'[c] = d
    BY <1>2, <1>6, <2>1
  <2> QED
    BY <1>3, <1>5, <1>7, <2>3, <2>4, <2>5, <2>6
    DEF Inv, TypeOK, LinksFollowNodes, LinksArePermutation
<1>9. ASSUME NEW p \in Corners(n), NEW s \in {e, -e},
             next' = [d \in all |-> IF d = p THEN -s ELSE IF d = -s THEN next[p]
                                    ELSE IF d = s THEN s ELSE next[d]]
      PROVE  Inv'
  <2>1. p \in Darts /\ org[-p] = n
    BY DEF Corners
  <2> DEFINE r == -s
  <2>2. /\ r \in Int /\ s \in Int /\ -r = s /\ r # s
        /\ r \notin Darts /\ s \notin Darts
        /\ all = Darts \cup {s, r}
    BY <1>2, <1>9
  <2>3. /\ next'[p] = r /\ next'[r] = next[p] /\ next'[s] = s
        /\ \A d \in Darts \ {p} : next'[d] = next[d]
    BY <1>9, <2>1, <2>2
  <2>4. org'[s] = n /\ org'[r] = n
    BY <1>4, <1>9, <1>2
  <2> HIDE DEF r, all
  <2>5. \A d \in all : next'[d] \in all
    BY <1>2, <2>1, <2>2, <2>3
  <2>6. next' \in [all -> all]
    BY <1>9, <2>5 DEF r
  <2>7. \A d \in all : org'[next'[d]] = org'[-d]
    <3> TAKE d \in all
    <3>1. CASE d = s
      BY <2>2, <2>3, <2>4, <3>1 DEF r
    <3>2. CASE d = r
      <4>1. next[p] \in Darts /\ org[next[p]] = n
        BY <1>2, <1>6, <2>1
      <4>2. org'[next[p]] = n
        BY <1>4, <4>1
      <4> QED
        BY <2>2, <2>3, <2>4, <3>2, <4>2
    <3>3. CASE d = p
      BY <1>2, <1>4, <2>1, <2>3, <2>4, <3>3
    <3>4. CASE d \in Darts \ {p}
      <4>1. next'[d] = next[d]
        BY <2>3, <3>4
      <4>2. -d \in Darts /\ next[d] \in Darts
        BY <1>2, <3>4
      <4>3. org[next[d]] = org[-d]
        BY <1>6, <3>4
      <4>4. org'[next[d]] = org[next[d]] /\ org'[-d] = org[-d]
        BY <1>4, <4>2
      <4> QED
        BY <4>1, <4>3, <4>4
    <3> QED
      BY <2>2, <3>1, <3>2, <3>3, <3>4
  <2>8. \A c, d \in all : next'[c] = next'[d] => c = d
    <3>1. \A d \in Darts \ {p} : next'[d] \in Darts /\ next'[d] # next[p]
      BY <1>2, <1>6, <2>1, <2>3
    <3>2. next[p] \in Darts
      BY <1>2, <2>1
    <3> QED
      BY <1>6, <2>1, <2>2, <2>3, <3>1, <3>2
  <2>9. \A d \in all : \E c \in all : next'[c] = d
    BY <1>6, <2>1, <2>2, <2>3
  <2> QED
    BY <1>3, <1>5, <1>7, <2>6, <2>7, <2>8, <2>9
    DEF Inv, TypeOK, LinksFollowNodes, LinksArePermutation, all
<1> QED
  BY <1>8, <1>9 DEF AddEmptyLoop

-----------------------------------------------------------------------------

\* So does the removal of an edge, whose neighbours are linked past it
LEMMA RemoveEdgeKeepsInv ==
  ASSUME Inv, NEW e \in Edges, RemoveEdge(e)
  PROVE  Inv'
<1> DEFINE all == Darts \ {e, -e}
           past == IF next[-e] # -e THEN next[-e] ELSE next[e]
           pastBack == IF next[e] # e THEN next[e] ELSE next[-e]
<1>1. TypeOK /\ e \in Darts
  BY DEF Inv, RemoveEdge
<1>2. /\ \A d \in Darts : d \in Int /\ d # 0 /\ -d \in Darts /\ -(-d) = d /\ d # -d
      /\ \A d \in Darts : next[d] \in Darts /\ org[d] \in Nodes
  BY <1>1, DartFacts
<1>3. /\ \A d \in Darts : org[next[d]] = org[-d]
      /\ \A c, d \in Darts : next[c] = next[d] => c = d
      /\ \A d \in Darts : \E c \in Darts : next[c] = d
  BY DEF Inv, LinksFollowNodes, LinksArePermutation
<1>4. Darts' = all
  BY DEF RemoveEdge, Darts
<1>5. \A d \in all : org'[d] = org[d]
  BY DEF RemoveEdge
<1>6. \A d \in all : /\ next[d] = e => next'[d] = past
                     /\ next[d] = -e => next'[d] = pastBack
                     /\ next[d] \notin {e, -e} => next'[d] = next[d]
  BY <1>2 DEF RemoveEdge
<1> DEFINE b == -e
<1>12. /\ e \in Darts /\ b \in Darts /\ e # b /\ -b = e /\ -e = b
       /\ \A d \in all : d \in Darts /\ d # e /\ d # b /\ -d \in all
       /\ \A d \in Darts : d \in all \/ d = e \/ d = b
       /\ past = IF next[b] # b THEN next[b] ELSE next[e]
       /\ pastBack = IF next[e] # e THEN next[e] ELSE next[b]
  BY <1>1, <1>2
<1>13. next[e] # next[b] /\ next[e] \in Darts /\ next[b] \in Darts
  BY <1>2, <1>3, <1>12
<1>14. \A d \in all : /\ next[d] = e => next[b] # e /\ next[e] # e
                      /\ next[d] = b => next[b] # b /\ next[e] # b
                      /\ next[d] # next[e] /\ next[d] # next[b]
  BY <1>3, <1>12
<1>15. org[next[e]] = org[b] /\ org[next[b]] = org[e]
  BY <1>3, <1>12
<1> HIDE DEF b, past, pastBack, all
<1>7. \A d \in all : next'[d] \in all
  <2> TAKE d \in all
  <2>1. CASE next[d] = e
    <3>1. past \in all
      BY <1>12, <1>13, <1>14, <2>1
    <3> QED
      BY <1>6, <2>1, <3>1
  <2>2. CASE next[d] = b
    <3>1. pastBack \in all
      BY <1>12, <1>13, <1>14, <2>2
    <3> QED
      BY <1>6, <1>12, <2>2, <3>1
  <2>3. CASE next[d] \notin {e, b}
    <3>1. next[d] \in Darts
      BY <1>2, <1>12
    <3> QED
      BY <1>6, <1>12, <2>3, <3>1
  <2> QED
    BY <2>1, <2>2, <2>3
<1>8. TypeOK'
  <2>1. \A d \in all : d \in Edges \cup {-x : x \in Edges} /\ -d \in all
    BY <1>1, <1>2 DEF TypeOK, all
  <2>2. org' \in [all -> Nodes]
    BY <1>2, <1>5 DEF RemoveEdge, all
  <2>3. next' \in [all -> all]
    BY <1>7 DEF RemoveEdge, all
  <2> QED
    BY <1>4, <2>1, <2>2, <2>3 DEF TypeOK
<1>9. \A d \in all : org'[next'[d]] = org'[-d]
  <2> TAKE d \in all
  <2>1. org'[next'[d]] = org[next'[d]] /\ org'[-d] = org[-d] /\ org[next[d]] = org[-d]
    BY <1>3, <1>5, <1>7, <1>12
  <2>2. CASE next[d] = e
    BY <1>6, <1>12, <1>14, <1>15, <2>1, <2>2
  <2>3. CASE next[d] = b
    BY <1>6, <1>12, <1>14, <1>15, <2>1, <2>3
  <2>4. CASE next[d] \notin {e, b}
    BY <1>6, <1>12, <2>1, <2>4
  <2> QED
    BY <2>2, <2>3, <2>4
<1>10. \A c, d \in all : next'[c] = next'[d] => c = d
  <2> TAKE c, d \in all
  <2>1. next[c] = next[d] => c = d
    BY <1>3, <1>12
  <2>2. \A x \in all : /\ next[x] = e => next'[x] \in {next[e], next[b]} /\ next'[x] = past
                       /\ next[x] = b => next'[x] \in {next[e], next[b]} /\ next'[x] = pastBack
                       /\ next[x] \notin {e, b} => next'[x] = next[x]
    BY <1>6, <1>12
  <2>3. next[c] = e /\ next[d] = b => past # pastBack
    BY <1>12, <1>13, <1>14
  <2>4. next[c] = b /\ next[d] = e => past # pastBack
    BY <1>12, <1>13, <1>14
  <2> QED
    BY <1>14, <2>1, <2>2, <2>3, <2>4
<1>11. \A d \in all : \E c \in all : next'[c] = d
  <2> TAKE d \in all
  <2>1. PICK c \in Darts : next[c] = d
    BY <1>3, <1>12
  <2>2. PICK x \in Darts : next[x] = e
    BY <1>3, <1>12
  <2>3. PICK y \in Darts : next[y] = b
    BY <1>3, <1>12
  <2>4. CASE c \in all
    BY <1>6, <1>12, <2>1, <2>4
  <2>5. CASE c = e
    \* d follows e: it follows whatever led to b, or to e if b leads to itself
    <3>1. CASE y \in all
      BY <1>6, <1>12, <1>13, <2>1, <2>3, <2>5, <3>1
    <3>2. CASE y = b
      <4>1. x \in all
        BY <1>12, <2>1, <2>2, <2>3, <2>5, <3>2
      <4> QED
        BY <1>6, <1>12, <2>1, <2>2, <2>3, <2>5, <3>2, <4>1
    <3>3. y # e
      BY <1>12, <2>1, <2>3, <2>5
    <3> QED
      BY <1>12, <3>1, <3>2, <3>3
  <2>6. CASE c = b
    <3>1. CASE x \in all
      BY <1>6, <1>12, <1>13, <2>1, <2>2, <2>6, <3>1
    <3>2. CASE x = e
      <4>1. y \in all
        BY <1>12, <2>1, <2>2, <2>3, <2>6, <3>2
      <4> QED
        BY <1>6, <1>12, <2>1, <2>2, <2>3, <2>6, <3>2, <4>1
    <3>3. x # b
      BY <1>12, <2>1, <2>2, <2>6
    <3> QED
      BY <1>12, <3>1, <3>2, <3>3
  <2> QED
    BY <1>12, <2>4, <2>5, <2>6
<1> QED
  BY <1>4, <1>8, <1>9, <1>10, <1>11 DEF Inv, LinksFollowNodes, LinksArePermutation

\* Splitting renames dart e to f and dart -e to -g where they were followed, and ties the
\* two halves together at the new node
LEMMA SplitEdgeKeepsInv ==
  ASSUME Inv, NEW e \in Edges, NEW f \in Edges, NEW g \in Edges, NEW n \in Nodes,
         SplitEdge(e, f, g, n)
  PROVE  Inv'
<1> DEFINE rest == Darts \ {e, -e}
           all == rest \cup {f, -f, g, -g}
           b == -e
           nf == -f
           ng == -g
           half == [x \in Darts |-> IF x = e THEN f ELSE IF x = b THEN ng ELSE x]
<1>1. TypeOK /\ e \in Darts /\ (f = e \/ Free(f)) /\ Free(g) /\ g # f
  BY DEF Inv, SplitEdge
<1>2. /\ \A d \in Darts : d \in Int /\ d # 0 /\ -d \in Darts /\ -(-d) = d /\ d # -d
      /\ \A d \in Darts : next[d] \in Darts /\ org[d] \in Nodes
      /\ \A x \in Edges : x \in Int /\ x > 0 /\ -x \in Int /\ -x # x /\ -(-x) = x
  BY <1>1, DartFacts
<1>3. /\ \A d \in Darts : org[next[d]] = org[-d]
      /\ \A c, d \in Darts : next[c] = next[d] => c = d
      /\ \A d \in Darts : \E c \in Darts : next[c] = d
  BY DEF Inv, LinksFollowNodes, LinksArePermutation
<1>4. Darts' = all
  BY DEF SplitEdge, Darts
<1>5. /\ e \in Darts /\ b \in Darts /\ e # b /\ -b = e /\ -e = b
      /\ -f = nf /\ -nf = f /\ -g = ng /\ -ng = g
      /\ f # nf /\ f # g /\ f # ng /\ nf # g /\ nf # ng /\ g # ng
      /\ f \notin rest /\ nf \notin rest /\ g \notin rest /\ ng \notin rest
      /\ all = rest \cup {f, nf, g, ng}
      /\ \A d \in rest : d \in Darts /\ d # e /\ d # b /\ -d \in rest
      /\ \A d \in Darts : d \in rest \/ d = e \/ d = b
  <2>1. f # nf /\ f # g /\ f # ng /\ nf # g /\ nf # ng /\ g # ng
    BY <1>1, <1>2
  <2>2. g \notin Darts /\ ng \notin Darts
    BY <1>1, DartFacts
  <2>3. f \notin rest /\ nf \notin rest
    <3>1. CASE f = e
      BY <3>1
    <3>2. CASE Free(f)
      BY <1>1, <3>2, DartFacts
    <3> QED
      BY <1>1, <3>1, <3>2
  <2> QED
    BY <1>1, <1>2, <2>1, <2>2, <2>3
<1>6. /\ org'[f] = org[e] /\ org'[ng] = org[b] /\ org'[g] = n /\ org'[nf] = n
      /\ \A d \in rest : org'[d] = org[d]
  BY <1>5 DEF SplitEdge
<1>7. /\ half[e] = f /\ half[b] = ng
      /\ \A d \in rest : half[d] = d
  BY <1>5
<1>8. /\ next'[f] = g /\ next'[ng] = nf
      /\ next'[g] = half[next[e]] /\ next'[nf] = half[next[b]]
      /\ \A d \in rest : next'[d] = half[next[d]]
  BY <1>2, <1>5 DEF SplitEdge
<1>14. all = rest \cup {f, -f, g, -g}
  OBVIOUS
<1> HIDE DEF b, nf, ng, half, rest, all
<1>9. /\ \A x \in Darts : half[x] \in rest \cup {f, ng} /\ org'[half[x]] = org[x]
      /\ \A x, y \in Darts : half[x] = half[y] => x = y
  BY <1>5, <1>6, <1>7
<1>10. TypeOK'
  <2>1. \A d \in all : d \in Edges \cup {-x : x \in Edges} /\ -d \in all
    BY <1>1, <1>2, <1>5 DEF TypeOK
  <2>2. \A d \in all : org'[d] \in Nodes
    BY <1>2, <1>5, <1>6
  <2>3. \A d \in all : next'[d] \in all
    BY <1>2, <1>5, <1>8, <1>9
  <2>4. org' \in [all -> Nodes]
    BY <2>2 DEF SplitEdge, all, rest
  <2>5. next' \in [all -> all]
    BY <2>3 DEF SplitEdge, all, rest
  <2> QED
    BY <1>4, <2>1, <2>4, <2>5 DEF TypeOK
<1>11. \A d \in all : org'[next'[d]] = org'[-d]
  <2> TAKE d \in all
  <2>6. \A x \in Darts : org'[half[next[x]]] = org[-x]
    BY <1>2, <1>3, <1>9
  <2>1. CASE d \in rest
    <3>1. d \in Darts /\ -d \in rest /\ next'[d] = half[next[d]] /\ org'[-d] = org[-d]
      BY <1>5, <1>6, <1>8, <2>1
    <3> QED
      BY <2>6, <3>1
  <2>2. CASE d = f
    BY <1>5, <1>6, <1>8, <2>2
  <2>3. CASE d = ng
    BY <1>5, <1>6, <1>8, <2>3
  <2>4. CASE d = g
    BY <1>5, <1>6, <1>8, <2>4, <2>6
  <2>5. CASE d = nf
    BY <1>5, <1>6, <1>8, <2>5, <2>6
  <2> QED
    BY <1>5, <2>1, <2>2, <2>3, <2>4, <2>5
<1>12. \A c, d \in all : next'[c] = next'[d] => c = d
  <2>1. \A c, d \in Darts : half[next[c]] = half[next[d]] => c = d
    BY <1>2, <1>3, <1>9
  <2>2. \A c \in Darts : half[next[c]] # g /\ half[next[c]] # nf
    BY <1>2, <1>5, <1>9
  <2> QED
    BY <1>5, <1>8, <2>1, <2>2
<1>13. \A d \in all : \E c \in all : next'[c] = d
  <2>1. \A x \in Darts : \E c \in all : next'[c] = half[x]
    BY <1>3, <1>5, <1>8
  <2> QED
    BY <1>5, <1>7, <1>8, <2>1
<1> QED
  BY <1>4, <1>10, <1>11, <1>12, <1>13 DEF Inv, LinksFollowNodes, LinksArePermutation

\* Healing is the reverse: dart h stands for c where it was followed, -h for -d
LEMMA HealEdgesKeepsInv ==
  ASSUME Inv, NEW c \in Darts, NEW d \in Darts, NEW h \in Edges \cup {-x : x \in Edges},
         HealEdges(c, d, h)
  PROVE  Inv'
<1> DEFINE rest == Darts \ {c, -c, d, -d}
           all == rest \cup {h, -h}
           k == -h
           cb == -c
           db == -d
           kept == Darts \ {d, cb}
           whole == [x \in kept |-> IF x = c THEN h ELSE IF x = db THEN k ELSE x]
<1>1. /\ TypeOK /\ c # d /\ c # -d /\ next[c] = d /\ next[-d] = -c
      /\ h = c \/ Free(h) \/ Free(-h)
  BY DEF Inv, HealEdges
<1>2. /\ \A x \in Darts : x \in Int /\ x # 0 /\ -x \in Darts /\ -(-x) = x /\ x # -x
      /\ \A x \in Darts : next[x] \in Darts /\ org[x] \in Nodes
      /\ \A x \in Edges : x \in Int /\ x > 0 /\ -x \in Int /\ -x # x /\ -(-x) = x
  BY <1>1, DartFacts
<1>3. /\ \A x \in Darts : org[next[x]] = org[-x]
      /\ \A x, y \in Darts : next[x] = next[y] => x = y
      /\ \A y \in Darts : \E x \in Darts : next[x] = y
  BY DEF Inv, LinksFollowNodes, LinksArePermutation
<1>4. Darts' = all
  BY DEF HealEdges, Darts
<1>5. /\ cb \in Darts /\ db \in Darts /\ -cb = c /\ -db = d /\ -c = cb /\ -d = db
      /\ c # d /\ c # db /\ c # cb /\ d # db /\ d # cb /\ cb # db
      /\ next[c] = d /\ next[db] = cb
      /\ h # k /\ -h = k /\ -k = h
      /\ h \notin rest /\ k \notin rest
      /\ all = rest \cup {h, k}
      /\ \A x \in rest : x \in Darts /\ x \notin {c, cb, d, db} /\ -x \in rest
      /\ \A x \in Darts : x \in rest \/ x \in {c, cb, d, db}
      /\ \A x \in kept : x \in rest \/ x = c \/ x = db
      /\ rest \subseteq kept /\ c \in kept /\ db \in kept
  <2>1. h \in Int /\ k \in Int /\ -k = h /\ h # k
    BY <1>2
  <2>2. h \notin rest /\ k \notin rest
    <3>1. CASE h = c
      BY <3>1
    <3>2. CASE Free(h)
      <4>1. h \in Edges
        BY <3>2 DEF Free
      <4> QED
        BY <1>1, <3>2, <4>1, DartFacts
    <3>3. CASE Free(-h)
      <4>1. k \in Edges /\ Free(k)
        BY <3>3 DEF Free
      <4> QED
        BY <1>1, <2>1, <4>1, DartFacts
    <3> QED
      BY <1>1, <3>1, <3>2, <3>3
  <2>3. /\ cb \in Darts /\ db \in Darts /\ -cb = c /\ -db = d
        /\ c # d /\ c # db /\ c # cb /\ d # db /\ d # cb /\ cb # db
    BY <1>1, <1>2
  <2>4. \A x \in rest : -x \in rest
    BY <1>2
  <2> QED
    BY <1>1, <2>1, <2>2, <2>3, <2>4
<1>6. /\ org'[h] = org[c] /\ org'[k] = org[db]
      /\ \A x \in rest : org'[x] = org[x]
  BY <1>5 DEF HealEdges
<1>7. /\ whole[c] = h /\ whole[db] = k
      /\ \A x \in rest : whole[x] = x
  BY <1>5
<1> HIDE DEF k, cb, db
<1>8. /\ \A x \in Darts \ {c, db} : next[x] \in kept
      /\ \A y \in kept : \E x \in Darts \ {c, db} : next[x] = y
  <2>1. \A x \in Darts : /\ next[x] = d => x = c
                         /\ next[x] = cb => x = db
    <3>1. c \in Darts /\ db \in Darts /\ next[c] = d /\ next[db] = cb
      BY <1>5
    <3>2. \A x, y \in Darts : next[x] = next[y] => x = y
      BY <1>3
    <3> HIDE DEF kept, whole, rest, all
    <3> QED
      BY <3>1, <3>2
  <2>2. ASSUME NEW y \in kept PROVE \E x \in Darts \ {c, db} : next[x] = y
    <3>1. PICK x \in Darts : next[x] = y
      BY <1>3
    <3>2. x # c /\ x # db
      BY <1>5, <3>1
    <3> QED
      BY <3>1, <3>2
  <2> QED
    BY <1>2, <2>1, <2>2
<1>9. /\ next'[h] = whole[next[d]] /\ next'[k] = whole[next[cb]]
      /\ \A x \in rest : next'[x] = whole[next[x]]
  BY <1>5, <1>8 DEF HealEdges, k, cb, db
<1> HIDE DEF kept, whole, rest, all
<1>10. /\ \A x \in kept : whole[x] \in all /\ org'[whole[x]] = org[x]
       /\ \A x, y \in kept : whole[x] = whole[y] => x = y
  BY <1>5, <1>6, <1>7
<1>11. TypeOK'
  <2>1. \A x \in all : x \in Edges \cup {-y : y \in Edges} /\ -x \in all
    <3>1. k \in Edges \cup {-y : y \in Edges}
      BY <1>2 DEF k
    <3>2. \A x \in Darts : x \in Edges \cup {-y : y \in Edges}
      BY <1>1 DEF TypeOK
    <3> QED
      BY <1>5, <3>1, <3>2
  <2>2. \A x \in all : org'[x] \in Nodes
    BY <1>2, <1>5, <1>6
  <2>3. \A x \in all : next'[x] \in all
    BY <1>5, <1>8, <1>9, <1>10
  <2>4. org' \in [all -> Nodes]
    BY <2>2 DEF HealEdges, all, rest, k, cb, db
  <2>5. next' \in [all -> all]
    BY <2>3 DEF HealEdges, all, rest, k, cb, db
  <2> QED
    BY <1>4, <2>1, <2>4, <2>5 DEF TypeOK
<1>12. \A x \in all : org'[next'[x]] = org'[-x]
  <2> TAKE x \in all
  <2>1. CASE x \in rest
    <3>1. x \in Darts \ {c, db} /\ -x \in rest /\ org'[-x] = org[-x] /\ org[next[x]] = org[-x]
      BY <1>3, <1>5, <1>6, <2>1
    <3>2. next'[x] = whole[next[x]] /\ org'[whole[next[x]]] = org[next[x]]
      BY <1>8, <1>9, <1>10, <2>1, <3>1
    <3> QED
      BY <3>1, <3>2
  <2>2. CASE x = h
    BY <1>3, <1>5, <1>6, <1>8, <1>9, <1>10, <2>2
  <2>3. CASE x = k
    BY <1>3, <1>5, <1>6, <1>8, <1>9, <1>10, <2>3
  <2> QED
    BY <1>5, <2>1, <2>2, <2>3
<1>13. \A x, y \in all : next'[x] = next'[y] => x = y
  <2>1. \A x, y \in Darts \ {c, db} : whole[next[x]] = whole[next[y]] => x = y
    BY <1>3, <1>8, <1>10
  <2> QED
    BY <1>5, <1>9, <2>1
<1>14. \A y \in all : \E x \in all : next'[x] = y
  <2>1. \A y \in kept : \E x \in all : next'[x] = whole[y]
    BY <1>5, <1>8, <1>9
  <2> QED
    BY <1>5, <1>7, <2>1
<1> QED
  BY <1>4, <1>11, <1>12, <1>13, <1>14 DEF Inv, LinksFollowNodes, LinksArePermutation

-----------------------------------------------------------------------------

\* There are no edges at first
LEMMA InitInv == Init => Inv
<1> SUFFICES ASSUME Init PROVE Inv
  OBVIOUS
<1>1. Darts = {}
  BY DEF Init, Darts
<1>2. DOMAIN next = {}
  BY DEF Init
<1> QED
  BY <1>1, <1>2 DEF Init, Inv, TypeOK, LinksFollowNodes, LinksArePermutation, Darts

\* Each step keeps the invariant
LEMMA NextInv == Inv /\ [Next]_vars => Inv'
<1> SUFFICES ASSUME Inv, [Next]_vars PROVE Inv'
  OBVIOUS
<1>1. CASE \E e \in Edges, m, n \in Nodes : AddEdge(e, m, n)
  BY <1>1, AddEdgeKeepsInv
<1>2. CASE \E e \in Edges, n \in Nodes : AddLoop(e, n)
  BY <1>2, AddLoopKeepsInv
<1>3. CASE \E e \in Edges, n \in Nodes : AddEmptyLoop(e, n)
  BY <1>3, AddEmptyLoopKeepsInv
<1>4. CASE \E e \in Edges : RemoveEdge(e)
  BY <1>4, RemoveEdgeKeepsInv
<1>5. CASE \E e, f, g \in Edges, n \in Nodes : SplitEdge(e, f, g, n)
  BY <1>5, SplitEdgeKeepsInv
<1>6. CASE \E c, d \in Darts, h \in Edges \cup {-e : e \in Edges} : HealEdges(c, d, h)
  BY <1>6, HealEdgesKeepsInv
<1>7. CASE UNCHANGED vars
  BY <1>7 DEF vars, Inv, TypeOK, LinksFollowNodes, LinksArePermutation, Darts
<1> QED
  BY <1>1, <1>2, <1>3, <1>4, <1>5, <1>6, <1>7 DEF Next

\* The inductive invariant holds in every state, whatever edges were added, removed, split
\* and healed
THEOREM LinkingInvariant == Spec => []Inv
<1> QED
  BY InitInv, NextInv, PTL DEF Spec

\* Darts come in pairs, leave nodes and are followed by darts: no edit of the link columns
\* (next_left_edge, next_right_edge of edge_data) leaves one pointing at a deleted edge
THEOREM TypeCorrect == Spec => []TypeOK
<1>1. Inv => TypeOK
  BY DEF Inv
<1> QED
  BY <1>1, LinkingInvariant, PTL

\* The edge a link column names leaves the node the edge arrives at, after any sequence
\* of edits
THEOREM LinksAlwaysFollowNodes == Spec => []LinksFollowNodes
<1>1. Inv => LinksFollowNodes
  BY DEF Inv
<1> QED
  BY <1>1, LinkingInvariant, PTL

\* The link columns are a permutation of the darts after any sequence of edits: every walk
\* of lwt_be_getRingEdges returns to the dart it started from
THEOREM LinksAlwaysArePermutation == Spec => []LinksArePermutation
<1>1. Inv => LinksArePermutation
  BY DEF Inv
<1> QED
  BY <1>1, LinkingInvariant, PTL
=============================================================================
