------------------------------ MODULE Partition ------------------------------
(***************************************************************************)
(* What a union-find promises: the elements stay divided into blocks, and  *)
(* blocks only merge.                                                      *)
(***************************************************************************)
VARIABLES elements, blocks

vars == <<elements, blocks>>

Merge(S) == blocks' = (blocks \ S) \cup {UNION S}

Init == blocks = {{e} : e \in elements}

Next == \E S \in SUBSET blocks : S # {} /\ Merge(S) /\ UNCHANGED elements

Spec == Init /\ [][Next]_vars

-----------------------------------------------------------------------------
(* Properties.                                                             *)

\* Every element is in exactly one block, and no block is empty
BlocksPartition ==
  /\ UNION blocks = elements /\ {} \notin blocks
  /\ \A B, C \in blocks : B # C => B \cap C = {}

\* Elements that share a block always will
BlocksOnlyMerge == [][\A B \in blocks : \E C \in blocks' : B \subseteq C]_blocks
=============================================================================
