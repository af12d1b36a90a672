----------------------------- MODULE CoinsCache -----------------------------
(***************************************************************************)
(* The coins views of the node (coins.cpp, txdb.cpp): the cache of the     *)
(* block in progress, on top of pcoinsTip, on top of the database.  A      *)
(* cache holds some of the coins, each with the flags                      *)
(*   dirty  it is potentially different from the view below,               *)
(*   fresh  the view below does not have it, or has it spent,              *)
(* and whether a change may be forgotten or has to be handed down hangs on *)
(* the flags.  All of this happens under cs_main, so that the calls follow *)
(* one another; what interrupts them is a crash.                           *)
(***************************************************************************)
CONSTANTS Outpoint, Coin, Spent, Block, Nil,
          Unspendable  \* outputs that are never coins: the OP_RETURN data

ASSUME CoinsConstants ==
  /\ Spent \notin Coin /\ Unspendable \subseteq Outpoint
  /\ Nil \notin Block \union [new : Block, old : Block \union {Nil}]

VARIABLES
  view,  \* the CCoinsViewCache of the block in progress: cacheCoins, hashBlock
  tip,   \* pcoinsTip, or the cache of ReplayBlocks
  db,    \* the records on disk: coins, DB_BEST_BLOCK and DB_HEAD_BLOCKS
  goal   \* history: what a flush that has begun to write is writing

coinVars == <<view, tip, db, goal>>

Map == [Outpoint -> Coin \union {Spent}]

Entry == [coin : Coin \union {Spent}, dirty : BOOLEAN, fresh : BOOLEAN]

(***************************************************************************)
(* CCoinsMap: a function from the cached outpoints to their entries        *)
(***************************************************************************)
EmptyCache == [o \in {} |-> Nil]

Insert(c, o, e) == [x \in DOMAIN c \union {o} |-> IF x = o THEN e ELSE c[x]]

Erase(c, S) == [x \in DOMAIN c \ S |-> c[x]]

NoView == [coins |-> EmptyCache, best |-> Nil]

\* What GetCoin finds in a cache on top of a view with the coins base.
Visible(c, base) == [o \in Outpoint |-> IF o \in DOMAIN c THEN c[o].coin ELSE base[o]]

\* The base gives no coin that is spent, so what is fetched is never fresh.
FetchCoin(c, base, o) ==
  IF o \in DOMAIN c \/ base[o] = Spent THEN c
  ELSE Insert(c, o, [coin |-> base[o], dirty |-> FALSE, fresh |-> FALSE])

\* Mutant: fresh although the cache has a change that the base does not know.
AddCoin_Fresh(c, o, coin, overwrite) ==
  IF o \in Unspendable THEN c
  ELSE Insert(c, o, [coin |-> coin, dirty |-> TRUE,
                     fresh |-> ~overwrite \/ (o \in DOMAIN c /\ c[o].fresh)])

AddCoin(c, o, coin, overwrite) ==
  LET old == IF o \in DOMAIN c THEN c[o]
             ELSE [coin |-> Spent, dirty |-> FALSE, fresh |-> FALSE]
  IN  IF o \in Unspendable THEN c
      ELSE Insert(c, o, [coin |-> coin, dirty |-> TRUE,
                         fresh |-> old.fresh \/ (~overwrite /\ ~old.dirty)])

\* AddCoin: "Adding new coin that replaces non-pruned entry".
AddThrows(c, o, overwrite) ==
  o \notin Unspendable /\ ~overwrite /\ o \in DOMAIN c /\ c[o].coin # Spent

SpendCoin(c, base, o) ==
  LET f == FetchCoin(c, base, o)
  IN  IF o \notin DOMAIN f THEN f
      ELSE IF f[o].fresh THEN Erase(f, {o})
      ELSE Insert(f, o, [coin |-> Spent, dirty |-> TRUE, fresh |-> FALSE])

Uncache(c, o) ==
  IF o \in DOMAIN c /\ ~c[o].dirty /\ ~c[o].fresh THEN Erase(c, {o}) ELSE c

Dirty(c) == {o \in DOMAIN c : c[o].dirty}

\* Mutant: a fresh entry of the child is forgotten when it is spent there,
\* whatever the parent has; otherwise fresh is handed down.
BatchWrite_HandsDownFresh(parent, child) ==
  [o \in {x \in DOMAIN parent \union Dirty(child) :
            x \in Dirty(child) => ~(child[x].coin = Spent /\ (child[x].fresh \/ parent[x].fresh))} |->
     IF o \in Dirty(child) THEN child[o] ELSE parent[o]]

\* BatchWrite of a cache into the cache parent below it.
BatchWrite(parent, child) ==
  LET Forgotten(x) == /\ x \in Dirty(child) /\ child[x].coin = Spent
                      /\ IF x \in DOMAIN parent THEN parent[x].fresh ELSE child[x].fresh
  IN  [o \in {x \in DOMAIN parent \union Dirty(child) : ~Forgotten(x)} |->
         IF o \notin Dirty(child) THEN parent[o]
         ELSE [coin |-> child[o].coin, dirty |-> TRUE,
               fresh |-> IF o \in DOMAIN parent THEN parent[o].fresh ELSE child[o].fresh]]

\* BatchWrite: "FRESH flag misapplied to cache entry ...".
BatchThrows(parent, child) ==
  \E o \in Dirty(child) \intersect DOMAIN parent : child[o].fresh /\ parent[o].coin # Spent

\* The coins on disk after the entries S of the cache c were written.
Written(m, c, S) == [o \in Outpoint |-> IF o \in S \intersect Dirty(c) THEN c[o].coin ELSE m[o]]

(***************************************************************************)
(* The views, from the database up                                         *)
(***************************************************************************)
TipCoins == Visible(tip.coins, db.coins)

TipBest == IF tip.best # Nil THEN tip.best ELSE db.best

ViewCoins == Visible(view.coins, TipCoins)

ViewBest == IF view.best # Nil THEN view.best ELSE TipBest

Init ==
  /\ view = NoView /\ tip = NoView
  /\ db = [coins |-> [o \in Outpoint |-> Spent], best |-> Nil, heads |-> Nil]
  /\ goal = Nil

\* What a lookup in the view does to pcoinsTip.
FetchedBelow(o) ==
  IF o \in DOMAIN view.coins THEN tip.coins ELSE FetchCoin(tip.coins, db.coins, o)

\* HaveCoin, AccessCoin, GetCoin.
ViewAccess(o) ==
  /\ view' = [view EXCEPT !.coins = FetchCoin(view.coins, TipCoins, o)]
  /\ tip' = [tip EXCEPT !.coins = FetchedBelow(o)]
  /\ UNCHANGED <<db, goal>>

ViewAdd(o, coin, overwrite) ==
  /\ ~AddThrows(view.coins, o, overwrite)
  /\ view' = [view EXCEPT !.coins = AddCoin(view.coins, o, coin, overwrite)]
  /\ UNCHANGED <<tip, db, goal>>

ViewSpend(o) ==
  /\ view' = [view EXCEPT !.coins = SpendCoin(view.coins, TipCoins, o)]
  /\ tip' = [tip EXCEPT !.coins = FetchedBelow(o)]
  /\ UNCHANGED <<db, goal>>

ViewSetBest(b) == view' = [view EXCEPT !.best = b] /\ UNCHANGED <<tip, db, goal>>

\* Flush of the view, which is then destroyed.
ViewFlush ==
  /\ ~BatchThrows(tip.coins, view.coins)
  /\ tip' = [coins |-> BatchWrite(tip.coins, view.coins), best |-> view.best]
  /\ view' = NoView
  /\ UNCHANGED <<db, goal>>

ViewDrop == view' = NoView /\ UNCHANGED <<tip, db, goal>>

TipAccess(o) ==
  /\ tip' = [tip EXCEPT !.coins = FetchCoin(tip.coins, db.coins, o)]
  /\ UNCHANGED <<view, db, goal>>

TipUncache(o) ==
  /\ tip' = [tip EXCEPT !.coins = Uncache(tip.coins, o)]
  /\ UNCHANGED <<view, db, goal>>

(***************************************************************************)
(* CCoinsViewDB::BatchWrite                                                *)
(***************************************************************************)
OldTip == IF db.best = Nil /\ db.heads # Nil THEN db.heads.old ELSE db.best

\* A partial batch: the next entries S, in the order of an unordered map.
PartialBatch(S) ==
  /\ view = NoView /\ tip.best # Nil /\ S # {} /\ S \subseteq DOMAIN tip.coins
  /\ db' = [coins |-> Written(db.coins, tip.coins, S), best |-> Nil,
            heads |-> [new |-> tip.best, old |-> OldTip]]
  /\ tip' = [tip EXCEPT !.coins = Erase(tip.coins, S)]
  /\ goal' = IF db.heads = Nil THEN [coins |-> TipCoins, best |-> tip.best] ELSE goal
  /\ UNCHANGED view

FinalBatch ==
  /\ view = NoView /\ tip.best # Nil
  /\ db' = [coins |-> Written(db.coins, tip.coins, DOMAIN tip.coins), best |-> tip.best,
            heads |-> Nil]
  /\ tip' = [tip EXCEPT !.coins = EmptyCache]
  /\ goal' = Nil
  /\ UNCHANGED view

\* The process ends and is started again: the caches are gone.  LoadChainTip
\* asks for the best block, which pcoinsTip then has.
Crash ==
  /\ view' = NoView
  /\ tip' = [NoView EXCEPT !.best = db.best]
  /\ UNCHANGED <<db, goal>>

\* What ReplayBlocks has to achieve; module ChainCoins has its steps.
Recover ==
  /\ db.heads # Nil /\ tip = NoView
  /\ db' = [coins |-> goal.coins, best |-> goal.best, heads |-> Nil]
  /\ tip' = [NoView EXCEPT !.best = goal.best]
  /\ goal' = Nil
  /\ UNCHANGED view

(***************************************************************************)
(* Any calls that keep to what coins.h asks of the callers: potential      *)
(* overwrites are announced, and a view is flushed with its block set.     *)
(***************************************************************************)
Next ==
  \/ /\ db.heads = Nil
     /\ \/ \E o \in Outpoint :
             \/ ViewAccess(o)
             \/ ViewSpend(o)
             \/ TipAccess(o)
             \/ TipUncache(o)
             \/ \E coin \in Coin, overwrite \in BOOLEAN :
                  (overwrite \/ ViewCoins[o] = Spent) /\ ViewAdd(o, coin, overwrite)
        \/ \E b \in Block : ViewSetBest(b)
        \/ view.best # Nil /\ ViewFlush
        \/ ViewDrop
  \/ \E S \in SUBSET Outpoint : PartialBatch(S)
  \/ FinalBatch
  \/ Crash
  \/ Recover

Spec == Init /\ [][Next]_coinVars

(***************************************************************************)
(* Properties                                                              *)
(***************************************************************************)
IsCache(c) == DOMAIN c \subseteq Outpoint /\ c \in [DOMAIN c -> Entry]

IsView(v) == v = [coins |-> v.coins, best |-> v.best] /\ IsCache(v.coins) /\ v.best \in Block \union {Nil}

\* Types of the caches and of the records on disk; while a flush is half
\* written, DB_HEAD_BLOCKS is there and DB_BEST_BLOCK is not.
CoinsTypeOK ==
  /\ IsView(view) /\ IsView(tip)
  /\ db \in [coins : Map, best : Block \union {Nil},
             heads : [new : Block, old : Block \union {Nil}] \union {Nil}]
  /\ IF db.heads = Nil THEN goal = Nil
     ELSE db.best = Nil /\ goal \in [coins : Map, best : Block]

\* The flags of a cache on top of a view with the coins base are true.
Sound(c, base) ==
  \A o \in DOMAIN c : /\ c[o].fresh => base[o] = Spent
                      /\ ~c[o].dirty => c[o].coin = base[o]

\* The flags of CCoinsCacheEntry mean what coins.h says: an entry that is not
\* DIRTY is the same as in the parent view, and the parent of one that is FRESH
\* does not have the coin.  Lookups from above, Uncache and flushes change the
\* parent under the flags.
FlagsSound ==
  db.heads = Nil => Sound(tip.coins, db.coins) /\ Sound(view.coins, TipCoins)

\* What a flush under way has still to write is, with what it has written, the
\* state that it started from.
FlushSound ==
  db.heads # Nil =>
    /\ view = NoView /\ tip.best \in {Nil, goal.best}
    /\ tip.best # Nil => \A o \in Outpoint :
         goal.coins[o] = IF o \in Dirty(tip.coins) THEN tip.coins[o].coin ELSE db.coins[o]

\* The flat maps that the caches stand for.
FlatUtxo == IF db.heads = Nil THEN [coins |-> TipCoins, best |-> TipBest] ELSE goal

FlatWork == IF db.heads = Nil THEN [coins |-> ViewCoins, best |-> ViewBest] ELSE goal

FlatDisk == IF db.heads = Nil THEN [coins |-> db.coins, best |-> db.best] ELSE goal

Abstract == INSTANCE Coins WITH utxo <- FlatUtxo, work <- FlatWork, disk <- FlatDisk

\* The views implement the flat maps of module Coins: no call changes a coin it
\* was not asked to change, a flush changes nothing that can be seen, the coins
\* and the best block move together, and a crash at any point of a flush leaves
\* the state before it or the state that it was to write.
CoinsSpec == Abstract!Spec
=============================================================================
