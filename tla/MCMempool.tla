------------------------------ MODULE MCMempool ------------------------------
(***************************************************************************)
(* Three branches.  1-2-7 confirms a, b, c and d, each the child of the    *)
(* one before; 3 confirms x, which spends the same coin as a, and 4 after  *)
(* it is invalid; 5-6 confirms a, and y.  r would replace c; e depends on  *)
(* a both directly and through b, and conflicts with y; f depends on c and *)
(* spends the coinbase of 5.                                               *)
(***************************************************************************)
EXTENDS Mempool, TLC

MCTx == {"g", "h", "k", "a", "b", "c", "d", "e", "f", "r", "x", "y"}

MCCoinbase == {"h", "k"}

MCvin == [h |-> <<>>, g |-> << <<"h", 0>> >>, k |-> <<>>,
          a |-> << <<"g", 0>> >>, x |-> << <<"g", 0>> >>, y |-> << <<"g", 1>> >>,
          b |-> << <<"a", 0>> >>,
          c |-> << <<"b", 0>> >>,
          r |-> << <<"b", 0>> >>,
          d |-> << <<"c", 0>> >>, f |-> << <<"c", 1>>, <<"k", 0>> >>,
          e |-> << <<"a", 1>>, <<"b", 1>>, <<"g", 1>> >>]

MCFee == [t \in MCTx |-> CASE t = "r" -> 6 [] t = "b" -> 3 [] t = "d" -> 2 [] OTHER -> 1]

MCSize == [t \in MCTx |-> IF t = "b" THEN 2 ELSE 1]

MCDeltas == {-3, 2}

MCHeight == (0 :> 0) @@ <<1, 2, 1, 2, 1, 2, 3>>

MCAnc == (0 :> {0}) @@ <<{0, 1}, {0, 1, 2}, {0, 3}, {0, 3, 4}, {0, 5}, {0, 5, 6}, {0, 1, 2, 7}>>

MCPrev == <<0, 1, 0, 3, 0, 5, 2>>

MCBody == (0 :> <<"h", "g">>) @@
          <<<<"a">>, <<"b", "c">>, <<"x">>, <<>>, <<"k", "a">>, <<"y">>, <<"d">>>>
==============================================================================
