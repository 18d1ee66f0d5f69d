--------------------------- MODULE PartitionProof ---------------------------
(***************************************************************************)
(* What is promised of a union-find holds for any elements.                *)
(***************************************************************************)
EXTENDS Partition, TLAPS

\* Merging some blocks of a partition leaves a partition, in which every block has a place
LEMMA MergeKeepsPartition ==
  ASSUME BlocksPartition, NEW S \in SUBSET blocks, S # {}, Merge(S), UNCHANGED elements
  PROVE  /\ BlocksPartition'
         /\ \A B \in blocks : \E C \in blocks' : B \subseteq C
<1>1. blocks' = (blocks \ S) \cup {UNION S}
  BY DEF Merge
<1>2. PICK B0 \in S : B0 # {}
  BY DEF BlocksPartition
<1>3. UNION blocks' = elements' /\ {} \notin blocks'
  <2>1. UNION S # {}
    BY <1>2
  <2>2. ASSUME NEW e PROVE e \in UNION blocks <=> e \in UNION blocks'
    BY <1>1
  <2>3. QED
    BY <1>1, <2>1, <2>2 DEF BlocksPartition
<1>4. ASSUME NEW B \in blocks', NEW C \in blocks', B # C
      PROVE  B \cap C = {}
  <2>1. ASSUME NEW D \in blocks \ S PROVE D \cap UNION S = {}
    BY DEF BlocksPartition
  <2>2. CASE B \in blocks \ S /\ C \in blocks \ S
    BY <1>4, <2>2 DEF BlocksPartition
  <2>3. CASE B = UNION S \/ C = UNION S
    BY <1>1, <1>4, <2>1, <2>3
  <2>4. QED
    BY <1>1, <2>2, <2>3
<1>5. ASSUME NEW B \in blocks PROVE \E C \in blocks' : B \subseteq C
  <2>1. CASE B \in S
    BY <1>1, <2>1
  <2>2. CASE B \notin S
    BY <1>1, <2>2
  <2>3. QED
    BY <2>1, <2>2
<1>6. QED
  BY <1>3, <1>4, <1>5 DEF BlocksPartition

\* Every element is in exactly one block, whatever is merged (UF_union, lwunionfind.c)
THEOREM AlwaysPartition == Spec => []BlocksPartition
<1>1. Init => BlocksPartition
  BY DEF Init, BlocksPartition
<1>2. BlocksPartition /\ [Next]_vars => BlocksPartition'
  <2>1. ASSUME BlocksPartition, Next PROVE BlocksPartition'
    BY <2>1, MergeKeepsPartition DEF Next
  <2>2. ASSUME BlocksPartition, UNCHANGED vars PROVE BlocksPartition'
    BY <2>2 DEF vars, BlocksPartition
  <2>3. QED
    BY <2>1, <2>2
<1>3. QED
  BY <1>1, <1>2, PTL DEF Spec

\* Elements that share a block share one for good: clusters never come apart
THEOREM TogetherForGood == Spec => BlocksOnlyMerge
<1>1. BlocksPartition /\ [Next]_vars => [\A B \in blocks : \E C \in blocks' : B \subseteq C]_blocks
  <2>1. ASSUME BlocksPartition, Next PROVE \A B \in blocks : \E C \in blocks' : B \subseteq C
    BY <2>1, MergeKeepsPartition DEF Next
  <2>2. QED
    BY <2>1 DEF vars
<1>2. QED
  BY <1>1, AlwaysPartition, PTL DEF Spec, BlocksOnlyMerge
=============================================================================
