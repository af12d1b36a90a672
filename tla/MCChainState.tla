---------------------------- MODULE MCChainState ----------------------------
(***************************************************************************)
(* Small trees of blocks for ChainState.  A block is a number; 0 is the    *)
(* genesis block.                                                          *)
(***************************************************************************)
EXTENDS ChainState

\* Two branches from the genesis block, 1-2-3 and 4-5.
ForkPrev == [b \in 1 .. 5 |-> CASE b \in {1, 4} -> 0 [] OTHER -> b - 1]
ForkHeight == [b \in 0 .. 5 |-> IF b <= 3 THEN b ELSE b - 3]
ForkAnc == [b \in 0 .. 5 |-> IF b <= 3 THEN 0 .. b ELSE {0} \union 4 .. b]
ForkAddr == [b \in 0 .. 5 |-> 5 - b]

\* The chain 1-2-3, and 4 on 1.
CombPrev == [b \in 1 .. 4 |-> IF b = 4 THEN 1 ELSE b - 1]
CombHeight == [b \in 0 .. 4 |-> IF b = 4 THEN 2 ELSE b]
CombAnc == [b \in 0 .. 4 |-> IF b = 4 THEN {0, 1, 4} ELSE 0 .. b]
CombAddr == [b \in 0 .. 4 |-> b]
=============================================================================
