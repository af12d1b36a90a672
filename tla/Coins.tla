-------------------------------- MODULE Coins --------------------------------
(***************************************************************************)
(* What the stack of coins views promises: three sets of unspent coins,    *)
(* each with the block that it is the result of, as flat maps.  There are  *)
(* no caches, no flags and no batches here: a block's changes reach the    *)
(* chain state together with its hash or not at all, and a crash goes      *)
(* back to a state that was saved as a whole.                              *)
(***************************************************************************)
CONSTANTS Outpoint,
          Coin,      \* the values of an unspent coin
          Spent,     \* the null coin
          Block,
          Nil        \* the null hash

VARIABLES utxo,  \* the coins at the tip of the active chain
          work,  \* the same, with the changes of the block in progress
          disk   \* what a crash leaves

cvars == <<utxo, work, disk>>

\* The values of the three variables.
State == [coins : [Outpoint -> Coin \union {Spent}], best : Block \union {Nil}]

NoCoins == [coins |-> [o \in Outpoint |-> Spent], best |-> Nil]

Init == utxo = NoCoins /\ work = NoCoins /\ disk = NoCoins

\* A coin is added, overwritten or spent by the block in progress.
Change(o, c) ==
  /\ work' = [work EXCEPT !.coins[o] = c]
  /\ UNCHANGED <<utxo, disk>>

\* The block in progress names itself.
SetBest(b) ==
  /\ work' = [work EXCEPT !.best = b]
  /\ UNCHANGED <<utxo, disk>>

Commit == utxo' = work /\ UNCHANGED <<work, disk>>

Drop == work' = utxo /\ UNCHANGED <<utxo, disk>>

\* Nothing is saved while a block is in progress.
Save == work = utxo /\ disk' = utxo /\ UNCHANGED <<utxo, work>>

Crash == utxo' = disk /\ work' = disk /\ UNCHANGED disk

Next ==
  \/ \E o \in Outpoint, c \in Coin \union {Spent} : Change(o, c)
  \/ \E b \in Block : SetBest(b)
  \/ Commit
  \/ Drop
  \/ Save
  \/ Crash

Spec == Init /\ [][Next]_cvars
=============================================================================
