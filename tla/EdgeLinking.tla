---------------------------- MODULE EdgeLinking ----------------------------
(***************************************************************************)
(* What the linking of a topology promises, without its geometry: the      *)
(* next_left_edge and next_right_edge columns of table edge_data as one    *)
(* function on darts.  Dart e walks edge e forward, dart -e backward; org  *)
(* is the node a dart leaves and next the dart that follows it around the  *)
(* face on its left.                                                       *)
(*                                                                         *)
(* Every edit of the topology is one of four edits of the links: tie an    *)
(* edge into a corner of each of its nodes, remove one, split one, heal    *)
(* two.  Which corner is a matter of geometry, that the links stay a       *)
(* permutation that follows the nodes is not.                              *)
(***************************************************************************)
EXTENDS Integers

CONSTANTS Edges, Nodes

ASSUME EdgesArePositive == Edges \subseteq Int /\ \A e \in Edges : e > 0

VARIABLES org, next

vars == <<org, next>>

Darts == DOMAIN org
Free(e) == e \in Edges /\ e \notin Darts
Bare(n) == \A d \in Darts : org[d] # n

\* The darts that reach node n; a new edge is tied in right behind one of them
Corners(n) == {d \in Darts : org[-d] = n}

-----------------------------------------------------------------------------
\* Faulty: e goes on where the corner at m led
TieCrossed(e, m, n, p, q) ==
  /\ org' = [d \in Darts \cup {e, -e} |->
               IF d = e THEN m ELSE IF d = -e THEN n ELSE org[d]]
  /\ next' = [d \in Darts \cup {e, -e} |->
                IF d = p THEN e
                ELSE IF d = q THEN -e
                ELSE IF d = e /\ p # -e THEN next[p]
                ELSE IF d = -e /\ q # e THEN next[q] ELSE IF d \in Darts THEN next[d] ELSE d]

\* Edge e from m to n, behind p at m and behind q at n.  Where the node is bare
\* the edge is its own predecessor: p = -e, q = e.
Tie(e, m, n, p, q) ==
  /\ org' = [d \in Darts \cup {e, -e} |->
               IF d = e THEN m ELSE IF d = -e THEN n ELSE org[d]]
  /\ next' = [d \in Darts \cup {e, -e} |->
                IF d = p THEN e
                ELSE IF d = q THEN -e
                ELSE IF d = -e THEN next[p]
                ELSE IF d = e THEN next[q] ELSE next[d]]

AddEdge(e, m, n) ==
  /\ Free(e)
  /\ m # n
  /\ \E p \in IF Bare(m) THEN {-e} ELSE Corners(m),
        q \in IF Bare(n) THEN {e} ELSE Corners(n) : Tie(e, m, n, p, q)

\* Faulty: both ends behind the same corner
AddLoopAtOneCorner(e, n) ==
  /\ Free(e)
  /\ \E p, q \in Corners(n) : Tie(e, n, n, p, q)

\* A closed edge with others on both of its sides
AddLoop(e, n) ==
  /\ Free(e)
  /\ \E p, q \in Corners(n) : p # q /\ Tie(e, n, n, p, q)

\* A closed edge with nothing on the side of its dart d
AddEmptyLoop(e, n) ==
  /\ Free(e)
  /\ org' = [d \in Darts \cup {e, -e} |-> IF d \in {e, -e} THEN n ELSE org[d]]
  /\ \/ /\ Bare(n)
        /\ next' = [d \in Darts \cup {e, -e} |-> IF d \in {e, -e} THEN d ELSE next[d]]
     \/ \E p \in Corners(n), s \in {e, -e} :
          next' = [d \in Darts \cup {e, -e} |->
                     IF d = p THEN -s ELSE IF d = -s THEN next[p] ELSE IF d = s THEN s ELSE next[d]]

\* Faulty: the neighbours still link to e
RemoveEdgeUnlinked(e) ==
  /\ e \in Edges /\ e \in Darts
  /\ org' = [d \in Darts \ {e, -e} |-> org[d]]
  /\ next' = [d \in Darts \ {e, -e} |-> next[d]]

RemoveEdge(e) ==
  LET past == IF next[-e] # -e THEN next[-e] ELSE next[e]
      pastBack == IF next[e] # e THEN next[e] ELSE next[-e]
      Skip(x) == IF x = e THEN past ELSE IF x = -e THEN pastBack ELSE x
  IN  /\ e \in Edges /\ e \in Darts
      /\ org' = [d \in Darts \ {e, -e} |-> org[d]]
      /\ next' = [d \in Darts \ {e, -e} |-> Skip(next[d])]

\* Edge e becomes f up to the new node n and g from there on; f may keep the id of e
SplitEdge(e, f, g, n) ==
  LET rest == Darts \ {e, -e}
      all == rest \cup {f, -f, g, -g}
      Half(x) == IF x = e THEN f ELSE IF x = -e THEN -g ELSE x
  IN  /\ e \in Edges /\ e \in Darts
      /\ f = e \/ Free(f)
      /\ Free(g) /\ g # f
      /\ Bare(n)
      /\ org' = [d \in all |-> IF d = f THEN org[e]
                               ELSE IF d = -g THEN org[-e]
                               ELSE IF d \in {g, -f} THEN n ELSE org[d]]
      /\ next' = [d \in all |-> IF d = f THEN g
                                ELSE IF d = -g THEN -f
                                ELSE IF d = g THEN Half(next[e])
                                ELSE IF d = -f THEN Half(next[-e]) ELSE Half(next[d])]

\* Darts c and d meet at a node of no other edge and become dart h, of the edge of c
\* or of a new one
HealEdges(c, d, h) ==
  LET rest == Darts \ {c, -c, d, -d}
      all == rest \cup {h, -h}
      Whole(x) == IF x = c THEN h ELSE IF x = -d THEN -h ELSE x
  IN  /\ c \in Darts /\ d \in Darts /\ c # d /\ c # -d
      /\ next[c] = d /\ next[-d] = -c
      /\ h = c \/ Free(h) \/ Free(-h)
      /\ org' = [x \in all |-> IF x = h THEN org[c] ELSE IF x = -h THEN org[-d] ELSE org[x]]
      /\ next' = [x \in all |-> IF x = h THEN Whole(next[d])
                                ELSE IF x = -h THEN Whole(next[-c]) ELSE Whole(next[x])]

-----------------------------------------------------------------------------
Init ==
  /\ org = [d \in {} |-> d]
  /\ next = [d \in {} |-> d]

Next ==
  \/ \E e \in Edges, m, n \in Nodes : AddEdge(e, m, n)
  \/ \E e \in Edges, n \in Nodes : AddLoop(e, n)
  \/ \E e \in Edges, n \in Nodes : AddEmptyLoop(e, n)
  \/ \E e \in Edges : RemoveEdge(e)
  \/ \E e, f, g \in Edges, n \in Nodes : SplitEdge(e, f, g, n)
  \/ \E c, d \in Darts, h \in Edges \cup {-e : e \in Edges} : HealEdges(c, d, h)

Spec == Init /\ [][Next]_vars

-----------------------------------------------------------------------------
\* Darts come in pairs of the edges, and leave nodes
TypeOK ==
  /\ Darts \subseteq Edges \cup {-e : e \in Edges}
  /\ \A d \in Darts : -d \in Darts
  /\ org \in [Darts -> Nodes]
  /\ next \in [Darts -> Darts]

\* Whatever is edited, a dart is followed by one that leaves the node it reaches
LinksFollowNodes == \A d \in Darts : org[next[d]] = org[-d]

\* and no two darts are followed by the same one, and every one follows one: next is a
\* permutation, so every walk of next_left_edge and next_right_edge is a closed ring
LinksArePermutation ==
  /\ \A c, d \in Darts : next[c] = next[d] => c = d
  /\ \A d \in Darts : \E c \in Darts : next[c] = d
=============================================================================
