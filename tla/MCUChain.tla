------------------------------ MODULE MCUChain ------------------------------
(***************************************************************************)
(* Small trees of blocks, with their transactions, for UChain.  A block is *)
(* a number; 0 is the genesis block.                                       *)
(***************************************************************************)
EXTENDS UChain, TLC

\* The data x and two orders for x.
MCTx == {"x", "hide", "replace"}
MCOp == [m \in MCTx |-> IF m = "x" THEN "none" ELSE m]
MCTarget == [m \in MCTx |-> "x"]

\* The body with the transactions f[b] in the block b.
Fill(n, f) == [b \in 0 .. n |-> IF b \in DOMAIN f THEN f[b] ELSE <<>>]

\* The chain 1-2-3, with 4 on 3, and the longer branch 5-6-7 on 3.
TwigPrev == [b \in 1 .. 7 |-> IF b = 5 THEN 3 ELSE b - 1]
TwigHeight == [b \in 0 .. 7 |-> IF b <= 4 THEN b ELSE b - 1]
TwigAnc == [b \in 0 .. 7 |-> IF b <= 4 THEN 0 .. b ELSE (0 .. 3) \union (5 .. b)]
TwigAddr == [b \in 0 .. 7 |-> b]

TwigBodies == {Fill(7, (1 :> <<"x">>) @@ (2 :> <<"hide">>)),
               Fill(7, (1 :> <<"x">>) @@ (2 :> <<"hide">>) @@ (3 :> <<"replace">>)),
               Fill(7, (1 :> <<"x">>) @@ (2 :> <<"hide">>) @@ (4 :> <<"replace">>)),
               Fill(7, (1 :> <<"x">>) @@ (2 :> <<"hide">>) @@ (4 :> <<"replace">>) @@ (5 :> <<"replace">>)),
               Fill(7, (1 :> <<"x">>) @@ (3 :> <<"hide", "replace">>))}

\* The chain 1-2-3-4, and 5 on 3.
StubPrev == [b \in 1 .. 5 |-> IF b = 5 THEN 3 ELSE b - 1]
StubHeight == [b \in 0 .. 5 |-> IF b = 5 THEN 4 ELSE b]
StubAnc == [b \in 0 .. 5 |-> IF b = 5 THEN {0, 1, 2, 3, 5} ELSE 0 .. b]
StubAddr == [b \in 0 .. 5 |-> b]
StubBodies == {Fill(5, (1 :> <<"x">>) @@ (2 :> <<"hide", "replace">>)),
               Fill(5, (1 :> <<"x", "hide">>) @@ (2 :> <<"replace">>)),
               Fill(5, (1 :> <<"hide">>) @@ (2 :> <<"x">>))}

\* One chain of four blocks; the order comes after its target, or before it.
PairTx == {"x", "hide"}
PairOp == [m \in PairTx |-> IF m = "x" THEN "none" ELSE m]
PairTarget == [m \in PairTx |-> "x"]
PairPrev == [b \in 1 .. 4 |-> b - 1]
PairHeight == [b \in 0 .. 4 |-> b]
PairAnc == [b \in 0 .. 4 |-> 0 .. b]
PairAddr == [b \in 0 .. 4 |-> b]
PairBodies == {Fill(4, (1 :> <<"x">>) @@ (2 :> <<"hide">>)),
               Fill(4, (1 :> <<"hide">>) @@ (2 :> <<"x">>))}

\* One chain of five blocks, with one order.
ShortPrev == [b \in 1 .. 5 |-> b - 1]
ShortHeight == [b \in 0 .. 5 |-> b]
ShortAnc == [b \in 0 .. 5 |-> 0 .. b]
ShortAddr == [b \in 0 .. 5 |-> b]
ShortBodies == {Fill(5, (1 :> <<"x">>) @@ (2 :> <<"hide">>))}
=============================================================================
