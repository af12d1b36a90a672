---------------------------- MODULE MCChainCoins ----------------------------
(***************************************************************************)
(* Instances of ChainCoins.                                                *)
(***************************************************************************)
EXTENDS ChainCoins

T(ins, outs) == [ins |-> ins, outs |-> outs]

\* 1 and 2 have the same coinbase, one of the pairs that BIP 30 exempts.  On
\* top of 2 there are 3, and 4 with 5.  3 spends a coin that it creates; 5 has
\* a transaction of 3.  6 spends b twice and 7 overwrites b: both are invalid.
\* m is an OP_RETURN output.
MCPrev == [b \in 0 .. 7 |-> CASE b = 0 -> Nil [] b = 1 -> 0 [] b = 2 -> 1 [] b \in {3, 4} -> 2
                              [] b \in {5, 6} -> 4 [] b = 7 -> 3]

MCBody ==
  [b \in 0 .. 7 |->
     CASE b = 0 -> <<>>
       [] b \in {1, 2} -> <<T(<<>>, <<"a", "b">>)>>
       [] b = 3 -> <<T(<<>>, <<"c">>), T(<<"a">>, <<"d", "m">>), T(<<"d">>, <<"e">>)>>
       [] b = 4 -> <<T(<<>>, <<"c">>)>>
       [] b = 5 -> <<T(<<>>, <<>>), T(<<"a">>, <<"d", "m">>), T(<<"b", "c">>, <<>>)>>
       [] b = 6 -> <<T(<<>>, <<>>), T(<<"b">>, <<"e">>), T(<<"b">>, <<>>)>>
       [] b = 7 -> <<T(<<>>, <<"b">>)>>]
=============================================================================
