----------------------------- MODULE MCClusters -----------------------------
(***************************************************************************)
(* Small instances for model checking Clusters.                            *)
(***************************************************************************)
EXTENDS Clusters

Rows(n, near, boxes, empty, null, minPoints) ==
  [n |-> n, near |-> near, boxes |-> boxes, empty |-> empty, null |-> null,
   minPoints |-> minPoints]

Pairs(n) == {e \in SUBSET (0 .. n - 1) : Cardinality(e) = 2}

\* Every way four geometries and their boxes can be near
Graphs ==
  {Rows(4, near, boxes, {}, {}, k) :
     <<near, boxes>> \in {nb \in (SUBSET Pairs(4)) \X (SUBSET Pairs(4)) : nb[1] \subseteq nb[2]},
     k \in {1, 2, 3}}

\* Two geometries that share three neighbours, and may be near each other: with minPoints of 4
\* the two are cores, and the three the border of both
Bridges ==
  {Rows(5, {e \in Pairs(5) : Cardinality(e \cap two) = 1} \cup more, Pairs(5), {}, {}, k) :
     two \in Pairs(5), more \in SUBSET {{0, 1}, {3, 4}}, k \in {3, 4}}

\* A row without a geometry, or with an empty one, among three that form a chain
Gaps ==
  {Rows(4, {{a, b} : a \in {m}, b \in 0 .. 3 \ {m, e}}, Pairs(4) \ {x \in Pairs(4) : e \in x},
        {e}, null, k) :
     <<e, m, null>> \in {t \in (0 .. 3) \X (0 .. 3) \X SUBSET (0 .. 3) :
                          t[1] # t[2] /\ t[3] \subseteq {t[1]}},
     k \in {0, 1, 2, 3}}

\* Too few rows
Few == {Rows(n, {}, {}, {}, {}, k) : n \in 1 .. 2, k \in {1, 3}}

MCInputs == Graphs \cup Bridges \cup Gaps \cup Few
=============================================================================
