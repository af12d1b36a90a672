----------------------------- MODULE BlockIndex ------------------------------
(***************************************************************************)
(* The tree of the blocks that can ever be seen, as the fields pprev and   *)
(* nHeight of CBlockIndex (chain.h) describe it, from the genesis block    *)
(* upwards.                                                                *)
(***************************************************************************)
EXTENDS Integers, FiniteSets

CONSTANTS Block,
          Genesis,
          Prev,    \* pprev, for every block but the genesis block
          Height,  \* nHeight
          Anc      \* a block and its ancestors

ASSUME BlockTree ==
  /\ IsFiniteSet(Block) /\ Genesis \in Block
  /\ Prev \in [Block \ {Genesis} -> Block]
  /\ Height \in [Block -> Nat] /\ Height[Genesis] = 0
  /\ \A b \in Block \ {Genesis} : Height[b] = Height[Prev[b]] + 1
  /\ Anc \in [Block -> SUBSET Block] /\ Anc[Genesis] = {Genesis}
  /\ \A b \in Block \ {Genesis} : Anc[b] = {b} \union Anc[Prev[b]]
==============================================================================
