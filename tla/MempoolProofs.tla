---------------------------- MODULE MempoolProofs ----------------------------
(*****************************************************************************)
(* What is proved of Mempool, for every tree of blocks and all transactions. *)
(*****************************************************************************)
EXTENDS Mempool, PoolRepairProofs

(***************************************************************************)
(* The inductive invariant                                                 *)
(***************************************************************************)
\* The pool is in order with the chain and with what is on the way between them.
PoolInOrder == InOrder(pool, Range(hashUpdate), queued, tip) /\ Noted(pool)

\* Only blocks that connect are ever in the chain.
ChainValid ==
  /\ Valid(tip) /\ Valid(oldTip) /\ target \in Block
  /\ pc \in {"idle", "moving", "adding", "relinked", "cleaned"}

\* What is on the way was in the chain, and no transaction of vHashUpdate spends a
\* later one.
OnTheWay ==
  /\ queued \subseteq Confirmed(oldTip) /\ Range(hashUpdate) \subseteq Confirmed(oldTip)
  /\ Cardinality(queued) <= MaxDisconnected
  /\ hashUpdate \in Seq(Tx)
  /\ \A i, j \in DOMAIN hashUpdate : i # j => hashUpdate[i] # hashUpdate[j]
  /\ \A i, j \in DOMAIN hashUpdate : i < j => hashUpdate[j] \notin InputTxs(hashUpdate[i])

\* Blocks have been connected only, and nothing is on the way.
Extends == queued = {} /\ oldTip \in Anc[tip] /\ (tip = oldTip \/ tip \in Anc[target])

\* The move leads from the old tip back to the fork and on to the target.
MoveInOrder ==
  /\ pc \in {"idle", "relinked", "cleaned"} => queued = {} /\ hashUpdate = <<>>
  /\ pc = "moving" =>
       /\ hashUpdate = <<>> /\ tip # target
       /\ Extends \/ (oldTip \notin Anc[target] /\ (tip \in Anc[oldTip] \/ tip \in Anc[target]))

\* Entries may spend an immature coinbase only during a reorganisation.
PoolRipe ==
  pc \in {"idle", "cleaned"} \/ (pc = "moving" /\ Extends) => Ripe(pool, tip)

IInv == PoolInOrder /\ ChainValid /\ OnTheWay /\ MoveInOrder /\ PoolRipe

\* What an empty queue or vHashUpdate contains.
LEMMA EmptyHashes ==
  ASSUME NEW h, h = <<>>
  PROVE  Range(h) = {} /\ h \in Seq(Tx) /\ DOMAIN h = {}
<1>1. DOMAIN h = {} /\ h \in Seq(Tx)
  OBVIOUS
<1>2. Range(h) = {}
  BY Zenon, <1>1 DEF Range
<1> QED
  BY <1>1, <1>2

\* The empty pool on the genesis block.
LEMMA InitInv == Init => IInv
<1> SUFFICES ASSUME Init PROVE IInv
  OBVIOUS
<1>0. Range(hashUpdate) = {} /\ hashUpdate \in Seq(Tx) /\ DOMAIN hashUpdate = {} /\ queued = {}
  BY EmptyHashes DEF Init
<1>1. pool \in Pools /\ Mem(pool) = {} /\ DOMAIN pool.next = {}
  <2> DEFINE e == [t \in {} |-> 0]
  <2>1. <<>> = e
    OBVIOUS
  <2>2. e \in UNION {[S -> Entry] : S \in SUBSET (Tx \ Coinbase)}
    <3>1. e \in [{} -> Entry]
      OBVIOUS
    <3>2. {} \in SUBSET (Tx \ Coinbase)
      OBVIOUS
    <3> HIDE DEF e
    <3> QED
      BY Zenon, <3>1, <3>2
  <2>3. e \in UNION {[O -> Tx] : O \in SUBSET Outpoints}
    <3>1. e \in [{} -> Tx]
      OBVIOUS
    <3>2. {} \in SUBSET Outpoints
      OBVIOUS
    <3> HIDE DEF e
    <3> QED
      BY Zenon, <3>1, <3>2
  <2>4. [t \in Tx |-> 0] \in [Tx -> Int]
    OBVIOUS
  <2>5. DOMAIN e = {}
    OBVIOUS
  <2> HIDE DEF e
  <2>6. pool = [tx |-> e, next |-> e, delta |-> [t \in Tx |-> 0]]
    BY <2>1 DEF Init
  <2>7. pool \in Pools
    BY Zenon, <2>2, <2>3, <2>4, <2>6 DEF Pools
  <2>8. pool.tx = e /\ pool.next = e
    BY <2>6
  <2> QED
    BY <2>5, <2>7, <2>8 DEF Mem
<1>2. Fine(pool)
  BY <1>1 DEF Fine, Linked, Counted, NextOk
<1>3. InOrder(pool, {}, {}, Genesis) /\ Noted(pool)
  BY <1>1, <1>2 DEF InOrder, LinksAre, Apart, Supplied, Above, Noted
<1>4. PoolInOrder
  BY Zenon, <1>0, <1>3 DEF PoolInOrder, Init
<1>5. ChainValid
  BY BlockTree, TxMemPoolConstants DEF ChainValid, Valid, Init
<1>6. OnTheWay
  <2>1. Cardinality({}) <= MaxDisconnected
    BY Counting, TxMemPoolConstants, MempoolConstants
  <2> QED
    BY <1>0, <2>1 DEF OnTheWay
<1>7. MoveInOrder
  BY DEF MoveInOrder, Init
<1>8. PoolRipe
  BY <1>1 DEF PoolRipe, Ripe
<1> QED
  BY <1>4, <1>5, <1>6, <1>7, <1>8 DEF IInv

\* The pool keeps what it notes of the entries that stay.
LEMMA KeptNoted ==
  ASSUME NEW p, NEW q, Noted(p), Kept(p, q)
  PROVE  Noted(q)
BY DEF Noted, Kept

\* AcceptToMemoryPool: the conflicts go, the entry comes, the limits are applied.
LEMMA AcceptInv ==
  ASSUME IInv, NEW t \in Tx, AcceptToMemoryPool(t)
  PROVE  IInv'
<1>1. /\ pc = "idle" /\ Acceptable(pool, t)
      /\ UNCHANGED <<tip, pc, oldTip, target, queued, fAdd, hashUpdate>>
  BY DEF AcceptToMemoryPool, reorgVars
<1>2. queued = {} /\ hashUpdate = <<>> /\ Range(hashUpdate) = {} /\ Valid(tip) /\ Ripe(pool, tip)
  BY <1>1, EmptyHashes DEF IInv, MoveInOrder, ChainValid, PoolRipe
<1>3. InOrder(pool, {}, {}, tip) /\ Noted(pool)
  BY Zenon, <1>2 DEF IInv, PoolInOrder
<1> DEFINE a == Accepted(pool, t)
<1>4. /\ t \in Tx \ Coinbase /\ t \notin Mem(pool)
      /\ \A o \in Ins(t) : o[1] \in Mem(pool) \/ (HaveCoin(tip, o) /\ Mature(tip, o))
      /\ Conflicts(pool, t) \intersect NewAncestors(pool, t) = {}
  BY Zenon, <1>1 DEF Acceptable, Mem
<1>5. /\ InOrder(a, {}, {}, tip) /\ Noted(a) /\ Mem(a) \subseteq Mem(pool) \union {t}
      /\ \A u \in Mem(a) : InputTxs(u) \intersect Mem(pool) \subseteq Mem(a)
  BY <1>2, <1>3, <1>4, AcceptOk
<1>6. PICK expired \in SUBSET (DOMAIN a.tx \ {t}) : pool' \in LimitMempoolSize(a, expired)
  BY DEF AcceptToMemoryPool
<1> HIDE DEF a
<1>7. expired \in SUBSET Mem(a)
  BY <1>6 DEF Mem
<1>8. /\ InOrder(pool', {}, {}, tip) /\ Kept(a, pool')
      /\ \A u \in Mem(pool') : InputTxs(u) \intersect Mem(a) \subseteq Mem(pool')
  BY <1>5, <1>6, <1>7, LimitOk
<1>9. Noted(pool')
  BY <1>5, <1>8, KeptNoted
<1>10. Ripe(a, tip)
  BY Zenon, <1>2, <1>4, <1>5 DEF Ripe, InputTxs
<1>11. Ripe(pool', tip)
  BY <1>8, <1>10, RipeLess DEF Kept
<1>12. PoolInOrder'
  BY Zenon, <1>1, <1>2, <1>8, <1>9 DEF PoolInOrder
<1>13. PoolRipe'
  BY <1>1, <1>11 DEF PoolRipe
<1>14. ChainValid' /\ OnTheWay' /\ MoveInOrder'
  BY Zenon, <1>1 DEF IInv, ChainValid, OnTheWay, MoveInOrder, Extends, Valid
<1> QED
  BY <1>12, <1>13, <1>14 DEF IInv

\* PrioritiseTransaction changes fees only, at any moment.
LEMMA PrioritiseInv ==
  ASSUME IInv, NEW t \in Tx, NEW d \in Deltas, PrioritiseTransaction(t, d)
  PROVE  IInv'
<1>1. pool' = Prioritised(pool, t, d) /\ UNCHANGED <<tip, pc, oldTip, target, queued, fAdd, hashUpdate>>
  BY DEF PrioritiseTransaction, reorgVars
<1>2. InOrder(pool, Range(hashUpdate), queued, tip) /\ Noted(pool) /\ d \in Int
  BY MempoolConstants DEF IInv, PoolInOrder
<1>3. InOrder(pool', Range(hashUpdate), queued, tip) /\ Noted(pool') /\ Mem(pool') = Mem(pool)
  BY <1>1, <1>2, PrioritiseOk
<1>4. PoolInOrder'
  BY <1>1, <1>3 DEF PoolInOrder
<1>5. PoolRipe'
  BY Zenon, <1>1, <1>3 DEF IInv, PoolRipe, Extends, Ripe
<1>6. ChainValid' /\ OnTheWay' /\ MoveInOrder'
  BY Zenon, <1>1 DEF IInv, ChainValid, OnTheWay, MoveInOrder, Extends, Valid
<1> QED
  BY <1>4, <1>5, <1>6 DEF IInv

\* At the start of a move nothing is on the way.
LEMMA StartMoveInv ==
  ASSUME IInv, NEW b \in Block, StartMove(b)
  PROVE  IInv'
<1>1. /\ pc = "idle" /\ b # tip /\ pc' = "moving" /\ target' = b /\ oldTip' = tip
      /\ UNCHANGED <<pool, tip, queued, hashUpdate>>
  BY DEF StartMove
<1>2. queued = {} /\ hashUpdate = <<>> /\ Range(hashUpdate) = {} /\ Valid(tip) /\ Ripe(pool, tip)
  BY <1>1, EmptyHashes DEF IInv, MoveInOrder, ChainValid, PoolRipe
<1>3. PoolInOrder'
  BY <1>1 DEF IInv, PoolInOrder
<1>4. ChainValid'
  BY <1>1, <1>2 DEF ChainValid
<1>5. OnTheWay'
  BY <1>1, <1>2 DEF IInv, OnTheWay
<1>6. MoveInOrder'
  BY Zenon, <1>1, <1>2, AncSelf DEF MoveInOrder, Extends, Valid
<1>7. PoolRipe'
  BY <1>1, <1>2 DEF PoolRipe
<1> QED
  BY <1>3, <1>4, <1>5, <1>6, <1>7 DEF IInv

\* DisconnectTip: the transactions of the block go to the queue, or are given up
\* with what spends them.
LEMMA DisconnectInv ==
  ASSUME IInv, DisconnectTip
  PROVE  IInv'
<1> DEFINE all == queued \union Range(Body[tip])
<1>1. /\ pc = "moving" /\ tip \notin Anc[target] /\ tip' = Prev[tip]
      /\ pc' = IF Prev[tip] = target THEN "adding" ELSE "moving"
      /\ UNCHANGED <<oldTip, target, fAdd, hashUpdate>>
  BY Zenon DEF DisconnectTip
<1>2. PICK lost \in SUBSET all : /\ Cardinality(all \ lost) <= MaxDisconnected
                                 /\ pool' = removeRecursive(pool, lost) /\ queued' = all \ lost
  BY Zenon DEF DisconnectTip
<1>3. /\ hashUpdate = <<>> /\ Range(hashUpdate) = {} /\ hashUpdate \in Seq(Tx) /\ DOMAIN hashUpdate = {}
      /\ Valid(tip) /\ Valid(oldTip) /\ target \in Block
  BY Zenon, <1>1, EmptyHashes DEF IInv, MoveInOrder, ChainValid
<1>4. tip # Genesis
  BY <1>1, <1>3, AncGenesis
<1>5. oldTip \notin Anc[target] /\ tip \in Anc[oldTip]
  BY <1>1, <1>3, AncSelf DEF IInv, MoveInOrder, Extends, Valid
<1>6. InOrder(pool, {}, all, Prev[tip]) /\ Noted(pool)
  <2>1. InOrder(pool, {}, queued, tip) /\ Noted(pool)
    BY Zenon, <1>3 DEF IInv, PoolInOrder
  <2> QED
    BY Zenon, <1>3, <1>4, <2>1, DisconnectOk
<1>7. /\ Prev[tip] \in Block /\ Valid(Prev[tip]) /\ Prev[tip] \in Anc[tip] /\ Prev[tip] \in Anc[oldTip]
      /\ Height[tip] = Height[Prev[tip]] + 1
  <2>1. Valid(Prev[tip]) /\ Prev[tip] \in Anc[tip]
    BY <1>3, <1>4, ValidPrev
  <2>2. Anc[tip] \subseteq Anc[oldTip]
    BY <1>3, <1>5, AncTrans DEF Valid
  <2> QED
    BY <1>3, <1>4, <2>1, <2>2, BlockTree DEF Valid
<1>8. all \subseteq Confirmed(oldTip)
  <2>1. Range(Body[tip]) \subseteq Confirmed(tip) /\ Confirmed(tip) \subseteq Confirmed(oldTip)
    BY <1>3, <1>5, ConfirmedStep DEF Valid
  <2> QED
    BY <2>1 DEF IInv, OnTheWay
<1> HIDE DEF all
<1>9. InOrder(pool', {}, queued', Prev[tip]) /\ Noted(pool')
  BY <1>2, <1>6, RemoveRecursiveOk, KeptNoted
<1>10. PoolInOrder'
  BY Zenon, <1>1, <1>3, <1>9 DEF PoolInOrder
<1>11. ChainValid'
  BY <1>1, <1>3, <1>7 DEF ChainValid, Valid
<1>12. OnTheWay'
  BY Zenon, <1>1, <1>2, <1>3, <1>8 DEF OnTheWay
<1>13. MoveInOrder'
  BY <1>1, <1>3, <1>5, <1>7 DEF MoveInOrder
<1>14. PoolRipe'
  <2>1. oldTip \notin Anc[Prev[tip]]
    <3> SUFFICES ASSUME oldTip \in Anc[Prev[tip]] PROVE FALSE
      OBVIOUS
    <3>1. oldTip = Prev[tip] \/ Height[oldTip] < Height[Prev[tip]]
      BY <1>7, AncHeight
    <3>2. tip = oldTip \/ Height[tip] < Height[oldTip]
      BY <1>3, <1>5, AncHeight DEF Valid
    <3>3. Height[tip] \in Nat /\ Height[oldTip] \in Nat /\ Height[Prev[tip]] \in Nat
      BY <1>3, <1>7, BlockTree DEF Valid
    <3> QED
      BY <1>7, <3>1, <3>2, <3>3
  <2> QED
    BY <1>1, <2>1 DEF PoolRipe, Extends
<1> QED
  BY <1>10, <1>11, <1>12, <1>13, <1>14 DEF IInv

\* NextBlock is the block of the target's chain that follows the tip.
LEMMA NextBlockIs ==
  ASSUME tip \in Block, target \in Block, tip \in Anc[target], tip # target
  PROVE  NextBlock \in Anc[target] /\ NextBlock \in Block \ {Genesis} /\ Prev[NextBlock] = tip
<1>1. PICK b \in Anc[target] \ Anc[tip] : Prev[b] = tip
  BY NextExists
<1>2. b # Genesis
  BY <1>1, AncGenesis
<1>3. NextBlock \in Anc[target] /\ NextBlock # Genesis /\ Prev[NextBlock] = tip
  BY <1>1, <1>2 DEF NextBlock
<1> QED
  BY <1>3, BlockTree

\* Taking something from the queue.
LEMMA QueueLess ==
  ASSUME IInv, queued' \subseteq queued
  PROVE  queued' \subseteq Confirmed(oldTip) /\ Cardinality(queued') <= MaxDisconnected
<1>1. queued \subseteq Confirmed(oldTip) /\ Cardinality(queued) <= MaxDisconnected /\ Valid(oldTip)
  BY DEF IInv, OnTheWay, ChainValid
<1>2. IsFiniteSet(queued)
  BY Zenon, <1>1, ConfirmedStep, TxMemPoolConstants, FiniteSubset DEF Valid
<1>3. Cardinality(queued') <= Cardinality(queued) /\ Cardinality(queued) \in Nat /\ Cardinality(queued') \in Nat
  <2> DEFINE B == queued \ queued'
  <2>1. queued' \in SUBSET queued /\ B \in SUBSET queued /\ queued \in SUBSET queued
        /\ queued' \intersect B = {} /\ queued' \union B = queued
    OBVIOUS
  <2> HIDE DEF B
  <2>2. Cardinality(queued) = Cardinality(queued') + Cardinality(B)
    BY <1>2, <2>1, CountUnion
  <2>3. Cardinality(queued) \in Nat /\ Cardinality(queued') \in Nat /\ Cardinality(B) \in Nat
    BY Zenon, <1>2, <2>1, Counting
  <2> QED
    BY <2>2, <2>3
<1> QED
  BY <1>1, <1>3, MempoolConstants

\* ConnectTip: what the block confirms leaves the pool and the queue.
LEMMA ConnectInv ==
  ASSUME IInv, ConnectTip
  PROVE  IInv'
<1> DEFINE b == NextBlock
<1>1. /\ pc = "moving" /\ tip \in Anc[target] /\ b \notin Invalid /\ pool' = removeForBlock(pool, b)
      /\ queued' = queued \ Range(Body[b]) /\ tip' = b /\ pc' = AfterConnect(b)
      /\ UNCHANGED <<oldTip, target, fAdd, hashUpdate>>
  BY Zenon DEF ConnectTip
<1>2. /\ hashUpdate = <<>> /\ Range(hashUpdate) = {} /\ hashUpdate \in Seq(Tx) /\ DOMAIN hashUpdate = {}
      /\ Valid(tip) /\ Valid(oldTip) /\ target \in Block /\ tip # target
  BY <1>1, EmptyHashes DEF IInv, MoveInOrder, ChainValid
<1>3. b \in Anc[target] /\ b \in Block \ {Genesis} /\ Prev[b] = tip
  BY <1>1, <1>2, NextBlockIs DEF Valid
<1> HIDE DEF b
<1>4. Valid(b) /\ Anc[b] = {b} \union Anc[tip]
  <2>1. Anc[b] = {b} \union Anc[tip]
    BY Zenon, <1>3, BlockTree
  <2> QED
    BY Zenon, <1>1, <1>2, <1>3, <2>1 DEF Valid
<1>5. InOrder(pool, {}, queued, tip) /\ Noted(pool)
  BY <1>2 DEF IInv, PoolInOrder
<1>6. InOrder(pool', {}, queued', b) /\ Noted(pool') /\ Mem(pool') \subseteq Mem(pool)
  BY Zenon, <1>1, <1>3, <1>4, <1>5, RemoveForBlockOk
<1>7. oldTip \in Anc[b] => Extends
  <2>1. Anc[b] \subseteq Anc[target]
    BY <1>2, <1>3, AncTrans
  <2> QED
    BY <1>1, <2>1 DEF IInv, MoveInOrder
<1>8. Extends => Extends' /\ queued' = {} /\ Ripe(pool', b)
  <2> SUFFICES ASSUME Extends PROVE Extends' /\ queued' = {} /\ Ripe(pool', b)
    OBVIOUS
  <2>1. Ripe(pool, tip)
    BY <1>1 DEF IInv, PoolRipe
  <2>2. pool \in Pools
    BY <1>5 DEF InOrder, Fine
  <2>3. Ripe(pool', b)
    BY <1>3, <1>6, <2>1, <2>2, RipeConnect
  <2> QED
    BY <1>1, <1>3, <1>4, <2>3 DEF Extends
<1>9. pc' \in {"moving", "idle", "adding"} /\ (pc' = "moving" => b # target) /\ (pc' = "idle" => oldTip \in Anc[b])
  BY <1>1 DEF AfterConnect
<1>10. PoolInOrder'
  BY Zenon, <1>1, <1>2, <1>6 DEF PoolInOrder
<1>11. ChainValid'
  BY <1>1, <1>2, <1>4, <1>9 DEF ChainValid, Valid
<1>12. OnTheWay'
  <2>1. queued' \subseteq Confirmed(oldTip) /\ Cardinality(queued') <= MaxDisconnected
    BY <1>1, QueueLess
  <2> QED
    BY <1>1, <1>2, <2>1 DEF OnTheWay
<1>13. MoveInOrder'
  <2>1. Extends \/ oldTip \notin Anc[target]
    BY <1>1 DEF IInv, MoveInOrder
  <2>2. hashUpdate' = <<>> /\ tip' = b /\ oldTip' = oldTip /\ target' = target
    BY <1>1, <1>2
  <2>3. pc' # "relinked" /\ pc' # "cleaned"
    BY <1>9
  <2>4. pc' = "idle" => queued' = {}
    BY <1>7, <1>8, <1>9
  <2>5. pc' = "moving" => b # target /\ (Extends' \/ oldTip \notin Anc[target])
    BY <1>8, <1>9, <2>1
  <2> QED
    BY <1>3, <2>2, <2>3, <2>4, <2>5 DEF MoveInOrder
<1>14. PoolRipe'
  <2>1. Extends' => oldTip \in Anc[b]
    BY <1>1 DEF Extends
  <2> QED
    BY <1>1, <1>7, <1>8, <1>9, <2>1 DEF PoolRipe
<1> QED
  BY <1>10, <1>11, <1>12, <1>13, <1>14 DEF IInv

\* A block fails: when the tip is the old one, nothing was disconnected.
LEMMA ConnectInvalidInv ==
  ASSUME IInv, ConnectTipInvalid
  PROVE  IInv'
<1>1. /\ pc = "moving" /\ tip \in Anc[target] /\ pc' = IF tip = oldTip THEN "idle" ELSE "adding"
      /\ UNCHANGED <<pool, tip, oldTip, target, queued, fAdd, hashUpdate>>
  BY DEF ConnectTipInvalid, reorgVars
<1>2. hashUpdate = <<>>
  BY <1>1 DEF IInv, MoveInOrder
<1>3. tip = oldTip => queued = {} /\ Ripe(pool, tip)
  BY <1>1 DEF IInv, MoveInOrder, Extends, PoolRipe
<1>4. PoolInOrder' /\ ChainValid' /\ OnTheWay'
  BY <1>1 DEF IInv, PoolInOrder, ChainValid, OnTheWay, Valid
<1>5. MoveInOrder' /\ PoolRipe'
  BY <1>1, <1>2, <1>3 DEF MoveInOrder, PoolRipe
<1> QED
  BY <1>4, <1>5 DEF IInv

\* A failure of the disk leaves the pool to UpdateMempoolForReorg.
LEMMA SystemErrorInv ==
  ASSUME IInv, SystemError
  PROVE  IInv'
<1>1. pc' = "adding" /\ UNCHANGED <<pool, tip, oldTip, target, queued, hashUpdate>>
  BY DEF SystemError
<1>2. PoolInOrder' /\ ChainValid' /\ OnTheWay'
  BY Zenon, <1>1 DEF IInv, PoolInOrder, ChainValid, OnTheWay, Valid
<1>3. MoveInOrder' /\ PoolRipe'
  BY <1>1 DEF MoveInOrder, PoolRipe
<1> QED
  BY <1>2, <1>3 DEF IInv

\* AddBack: the first of the queue comes back; it spends nothing that is still
\* queued, and nothing that came back spends it.
LEMMA AddBackInv ==
  ASSUME IInv, NEW t \in Tx, AddBack(t)
  PROVE  IInv'
<1> DEFINE U == Range(hashUpdate)
<1>1. /\ pc = "adding" /\ NextQueued(t) /\ Acceptable(pool, t) /\ pool' = Accepted(pool, t)
      /\ hashUpdate' = Append(hashUpdate, t) /\ queued' = queued \ {t}
      /\ UNCHANGED <<tip, pc, oldTip, target, fAdd>>
  BY DEF AddBack
<1>2. /\ InOrder(pool, U, queued, tip) /\ Noted(pool) /\ Valid(tip) /\ Valid(oldTip)
      /\ queued \subseteq Confirmed(oldTip) /\ U \subseteq Confirmed(oldTip) /\ hashUpdate \in Seq(Tx)
  BY DEF IInv, PoolInOrder, ChainValid, OnTheWay
<1>3. /\ t \in Tx \ Coinbase /\ t \notin Mem(pool)
      /\ \A o \in Ins(t) : o[1] \in Mem(pool) \/ HaveCoin(tip, o)
      /\ Conflicts(pool, t) \intersect NewAncestors(pool, t) = {}
  BY Zenon, <1>1 DEF Acceptable, Mem
<1>4. t \in queued /\ t \notin U /\ t \in Confirmed(oldTip) /\ \A u \in U : t \notin InputTxs(u)
  BY <1>1, <1>2 DEF NextQueued, InOrder, Apart, Above
<1>5. U = {hashUpdate[i] : i \in DOMAIN hashUpdate}
  BY DEF Range
<1> HIDE DEF U
<1>6. Conflicts(pool, t) \intersect U = {}
  <2> SUFFICES ASSUME NEW o \in Ins(t), o \in DOMAIN pool.next, pool.next[o] \in U PROVE FALSE
    BY DEF Conflicts
  <2>1. NextOk(pool)
    BY <1>2 DEF InOrder, Fine
  <2>2. o \in Ins(pool.next[o])
    BY <2>1 DEF NextOk
  <2>3. pool.next[o] # t /\ pool.next[o] \in Confirmed(oldTip)
    BY <1>2, <1>4
  <2> QED
    BY Zenon, <1>2, <1>4, <2>2, <2>3, ChainSpends
<1>7. \A x \in queued : x \notin InputTxs(t)
  <2> SUFFICES ASSUME NEW x \in queued, x \in InputTxs(t) PROVE FALSE
    OBVIOUS
  <2>1. x # t
    BY InsType
  <2>2. Earlier(oldTip, t, x)
    BY <1>1, <2>1 DEF NextQueued
  <2>3. Earlier(oldTip, x, t)
    BY <1>2, <1>4, EarlierOrder
  <2> QED
    BY <1>2, <2>2, <2>3, EarlierOrder
<1>8. InOrder(pool', U \union {t}, queued', tip) /\ Noted(pool')
  BY Zenon, <1>1, <1>2, <1>3, <1>4, <1>6, <1>7, AddBackOk
<1> DEFINE N == Len(hashUpdate)
           h == hashUpdate'
<1>9. /\ N \in Nat /\ DOMAIN hashUpdate = 1 .. N /\ DOMAIN h = 1 .. N + 1 /\ h \in Seq(Tx)
      /\ h[N + 1] = t /\ \A i \in 1 .. N : h[i] = hashUpdate[i] /\ hashUpdate[i] \in U
  <2>1. h = Append(hashUpdate, t) /\ hashUpdate \in Seq(Tx)
    BY <1>1, <1>2
  <2>2. N \in Nat /\ DOMAIN hashUpdate = 1 .. N
    BY <2>1
  <2>3. DOMAIN h = 1 .. N + 1 /\ h \in Seq(Tx) /\ h[N + 1] = t /\ \A i \in 1 .. N : h[i] = hashUpdate[i]
    BY <2>1
  <2>4. \A i \in 1 .. N : hashUpdate[i] \in U
    BY <1>5, <2>2
  <2> QED
    BY <2>2, <2>3, <2>4
<1> HIDE DEF N, h
<1>10. Range(h) = U \union {t}
  <2>1. Range(h) = {h[i] : i \in 1 .. N + 1}
    BY <1>9 DEF Range
  <2>2. U = {h[i] : i \in 1 .. N}
    BY <1>5, <1>9
  <2>3. 1 .. N + 1 = (1 .. N) \union {N + 1}
    BY <1>9
  <2> QED
    BY <1>9, <2>1, <2>2, <2>3
<1>11. PoolInOrder'
  BY <1>1, <1>8, <1>10 DEF PoolInOrder, h
<1>12. ChainValid'
  BY <1>1 DEF IInv, ChainValid, Valid
<1>13. OnTheWay'
  <2>1. queued' \subseteq Confirmed(oldTip) /\ Cardinality(queued') <= MaxDisconnected
    BY <1>1, QueueLess
  <2>2. \A i \in 1 .. N + 1 : i \in 1 .. N \/ i = N + 1
    BY <1>9
  <2>3. \A i, j \in 1 .. N : /\ i # j => hashUpdate[i] # hashUpdate[j]
                             /\ i < j => hashUpdate[j] \notin InputTxs(hashUpdate[i])
    BY Zenon, <1>9 DEF IInv, OnTheWay
  <2>4. \A i, j \in DOMAIN h : i # j => h[i] # h[j]
    BY Zenon, <1>4, <1>9, <2>2, <2>3
  <2>5. \A i, j \in DOMAIN h : i < j => h[j] \notin InputTxs(h[i])
    <3> SUFFICES ASSUME NEW i \in 1 .. N + 1, NEW j \in 1 .. N + 1, i < j PROVE h[j] \notin InputTxs(h[i])
      BY <1>9
    <3>1. i \in 1 .. N
      BY <1>9
    <3>2. CASE j \in 1 .. N
      BY <1>9, <2>3, <3>1, <3>2
    <3>3. CASE j = N + 1
      BY <1>4, <1>9, <3>1, <3>3
    <3> QED
      BY <2>2, <3>2, <3>3
  <2>6. Range(h) \subseteq Confirmed(oldTip)
    BY <1>2, <1>4, <1>10
  <2> QED
    BY Zenon, <1>1, <1>9, <2>1, <2>4, <2>5, <2>6 DEF OnTheWay, h
<1>14. MoveInOrder' /\ PoolRipe'
  BY <1>1 DEF MoveInOrder, PoolRipe
<1> QED
  BY <1>11, <1>12, <1>13, <1>14 DEF IInv

\* GiveUp: what spends the transaction goes with it.
LEMMA GiveUpInv ==
  ASSUME IInv, NEW t \in Tx, GiveUp(t)
  PROVE  IInv'
<1>1. /\ pc = "adding" /\ t \in queued /\ pool' = removeRecursive(pool, {t}) /\ queued' = queued \ {t}
      /\ UNCHANGED <<tip, pc, oldTip, target, fAdd, hashUpdate>>
  BY DEF GiveUp, NextQueued
<1>2. InOrder(pool, Range(hashUpdate), queued, tip) /\ Noted(pool) /\ {t} \in SUBSET queued
  BY <1>1 DEF IInv, PoolInOrder
<1>3. InOrder(pool', Range(hashUpdate), queued', tip) /\ Noted(pool')
  BY <1>1, <1>2, RemoveRecursiveOk, KeptNoted
<1>4. PoolInOrder'
  BY <1>1, <1>3 DEF PoolInOrder
<1>5. queued' \subseteq Confirmed(oldTip) /\ Cardinality(queued') <= MaxDisconnected
  BY <1>1, QueueLess
<1>6. ChainValid' /\ OnTheWay'
  BY Zenon, <1>1, <1>5 DEF IInv, ChainValid, OnTheWay, Valid
<1>7. MoveInOrder' /\ PoolRipe'
  BY Zenon, <1>1 DEF MoveInOrder, PoolRipe
<1> QED
  BY <1>4, <1>6, <1>7 DEF IInv

\* Relink: all is linked again.
LEMMA RelinkInv ==
  ASSUME IInv, Relink
  PROVE  IInv'
<1>1. /\ pc = "adding" /\ queued = {} /\ pool' = UpdateTransactionsFromBlock(pool, hashUpdate)
      /\ hashUpdate' = <<>> /\ pc' = "relinked" /\ UNCHANGED <<tip, oldTip, target, queued, fAdd>>
  BY DEF Relink
<1>2. /\ InOrder(pool, Range(hashUpdate), {}, tip) /\ Noted(pool) /\ hashUpdate \in Seq(Tx)
      /\ \A i, j \in DOMAIN hashUpdate : i # j => hashUpdate[i] # hashUpdate[j]
      /\ \A i, j \in DOMAIN hashUpdate : i < j => hashUpdate[j] \notin InputTxs(hashUpdate[i])
  BY <1>1 DEF IInv, PoolInOrder, OnTheWay
<1>3. InOrder(pool', {}, {}, tip) /\ Noted(pool')
  BY <1>1, <1>2, RelinkOk, KeptNoted
<1>4. Range(hashUpdate') = {} /\ hashUpdate' \in Seq(Tx) /\ DOMAIN hashUpdate' = {}
  BY <1>1, EmptyHashes
<1>5. PoolInOrder'
  BY Zenon, <1>1, <1>3, <1>4 DEF PoolInOrder
<1>6. ChainValid' /\ OnTheWay'
  BY <1>1, <1>4 DEF IInv, ChainValid, OnTheWay, Valid
<1>7. MoveInOrder' /\ PoolRipe'
  BY <1>1 DEF MoveInOrder, PoolRipe
<1> QED
  BY <1>5, <1>6, <1>7 DEF IInv

\* RemoveForReorg: all is mature again.
LEMMA RemoveForReorgInv ==
  ASSUME IInv, RemoveForReorg
  PROVE  IInv'
<1>1. pc = "relinked" /\ pc' = "cleaned" /\ UNCHANGED <<tip, oldTip, target, queued, fAdd, hashUpdate>>
  BY DEF RemoveForReorg, reorgVars
<1>2. PICK nonFinal \in SUBSET (Timelocked \intersect DOMAIN pool.tx) : pool' = removeForReorg(pool, tip, nonFinal)
  BY DEF RemoveForReorg
<1>3. queued = {} /\ hashUpdate = <<>> /\ Range(hashUpdate) = {}
  BY <1>1, EmptyHashes DEF IInv, MoveInOrder
<1>4. InOrder(pool, {}, {}, tip) /\ Noted(pool) /\ nonFinal \in SUBSET Mem(pool)
  BY <1>2, <1>3 DEF IInv, PoolInOrder, Mem
<1>5. InOrder(pool', {}, {}, tip) /\ Noted(pool') /\ Ripe(pool', tip)
  BY <1>2, <1>4, ReorgOk
<1>6. PoolInOrder'
  BY Zenon, <1>1, <1>3, <1>5 DEF PoolInOrder
<1>7. ChainValid' /\ OnTheWay'
  BY Zenon, <1>1 DEF IInv, ChainValid, OnTheWay, Valid
<1>8. MoveInOrder' /\ PoolRipe'
  BY Zenon, <1>1, <1>3, <1>5 DEF MoveInOrder, PoolRipe
<1> QED
  BY <1>6, <1>7, <1>8 DEF IInv

\* Limit: entries go with all that spends them.
LEMMA LimitInv ==
  ASSUME IInv, Limit
  PROVE  IInv'
<1>1. pc = "cleaned" /\ pc' = "idle" /\ UNCHANGED <<tip, oldTip, target, queued, fAdd, hashUpdate>>
  BY DEF Limit, reorgVars
<1>2. PICK expired \in SUBSET DOMAIN pool.tx : pool' \in LimitMempoolSize(pool, expired)
  BY DEF Limit
<1>3. queued = {} /\ hashUpdate = <<>> /\ Range(hashUpdate) = {} /\ Ripe(pool, tip)
  BY <1>1, EmptyHashes DEF IInv, MoveInOrder, PoolRipe
<1>4. InOrder(pool, {}, {}, tip) /\ Noted(pool) /\ expired \in SUBSET Mem(pool)
  BY <1>2, <1>3 DEF IInv, PoolInOrder, Mem
<1>5. /\ InOrder(pool', {}, {}, tip) /\ Kept(pool, pool')
      /\ \A u \in Mem(pool') : InputTxs(u) \intersect Mem(pool) \subseteq Mem(pool')
  BY <1>2, <1>4, LimitOk
<1>6. Noted(pool') /\ Ripe(pool', tip)
  BY <1>3, <1>4, <1>5, KeptNoted, RipeLess DEF Kept
<1>7. PoolInOrder'
  BY <1>1, <1>3, <1>5, <1>6 DEF PoolInOrder
<1>8. ChainValid' /\ OnTheWay'
  BY Zenon, <1>1 DEF IInv, ChainValid, OnTheWay, Valid
<1>9. MoveInOrder' /\ PoolRipe'
  BY Zenon, <1>1, <1>3, <1>6 DEF MoveInOrder, PoolRipe
<1> QED
  BY <1>7, <1>8, <1>9 DEF IInv

\* Every step keeps the invariant.
LEMMA StepInv == IInv /\ [Next]_vars => IInv'
<1> SUFFICES ASSUME IInv, [Next]_vars PROVE IInv'
  OBVIOUS
<1>1. ASSUME NEW t \in Tx, AcceptToMemoryPool(t) PROVE IInv'
  BY <1>1, AcceptInv
<1>2. ASSUME NEW t \in Tx, NEW d \in Deltas, PrioritiseTransaction(t, d) PROVE IInv'
  BY <1>2, PrioritiseInv
<1>3. ASSUME NEW b \in Block, StartMove(b) PROVE IInv'
  BY <1>3, StartMoveInv
<1>4. CASE DisconnectTip
  BY <1>4, DisconnectInv
<1>5. CASE ConnectTip
  BY <1>5, ConnectInv
<1>6. CASE ConnectTipInvalid
  BY <1>6, ConnectInvalidInv
<1>7. CASE SystemError
  BY <1>7, SystemErrorInv
<1>8. ASSUME NEW t \in Tx, AddBack(t) PROVE IInv'
  BY <1>8, AddBackInv
<1>9. ASSUME NEW t \in Tx, GiveUp(t) PROVE IInv'
  BY <1>9, GiveUpInv
<1>10. CASE Relink
  BY <1>10, RelinkInv
<1>11. CASE RemoveForReorg
  BY <1>11, RemoveForReorgInv
<1>12. CASE Limit
  BY <1>12, LimitInv
<1>13. CASE UNCHANGED vars
  <2>1. UNCHANGED <<pool, tip, pc, oldTip, target, queued, fAdd, hashUpdate>>
    BY <1>13 DEF vars, reorgVars
  <2> QED
    BY Zenon, <2>1 DEF IInv, PoolInOrder, ChainValid, OnTheWay, MoveInOrder, PoolRipe, Extends, Valid
<1> QED
  BY <1>1, <1>2, <1>3, <1>4, <1>5, <1>6, <1>7, <1>8, <1>9, <1>10, <1>11, <1>12, <1>13 DEF Next

\* The invariant holds throughout.
LEMMA Invariance == Spec => []IInv
BY InitInv, StepInv, PTL DEF Spec

(***************************************************************************)
(* The results                                                             *)
(***************************************************************************)
\* The pool has no coinbase, links stay within it, the counts and sizes that
\* UpdateAncestorState and UpdateDescendantState assert to be positive are, and an
\* entry has the fee delta of mapDeltas, for every tree of blocks and all transactions.
THEOREM MempoolTypes == Spec => []MTypeOK
<1>1. IInv => MTypeOK
  <2> SUFFICES ASSUME IInv PROVE MTypeOK
    OBVIOUS
  <2>1. pool \in Pools /\ Linked(pool) /\ Counted(pool) /\ Noted(pool)
    BY DEF IInv, PoolInOrder, InOrder, Fine
  <2>2. Mem(pool) \in SUBSET Tx /\ Mem(pool) \intersect Coinbase = {}
    BY <2>1, PoolType
  <2>3. ASSUME NEW t \in Mem(pool)
        PROVE  /\ pool.tx[t].parents \union pool.tx[t].children \subseteq Mem(pool)
               /\ {pool.tx[t].anc.n, pool.tx[t].anc.size, pool.tx[t].desc.n, pool.tx[t].desc.size} \subseteq Nat \ {0}
               /\ pool.tx[t].feeDelta = pool.delta[t]
    <3> DEFINE A == {t} \union Ancestors(pool, t)
               D == Down(pool, t)
    <3>1. A \in SUBSET Mem(pool) /\ A # {}
      BY <2>1, UpIn
    <3>2. D \in SUBSET Mem(pool) /\ D # {}
      <4>1. {t} \in SUBSET Mem(pool)
        OBVIOUS
      <4> QED
        BY <2>1, <4>1, DownIn DEF Down
    <3>3. pool.tx[t].anc = Package(pool, A) /\ pool.tx[t].desc = Package(pool, D)
      BY <2>1 DEF Counted
    <3> HIDE DEF A, D
    <3>4. /\ Package(pool, A).n \in Nat \ {0} /\ Package(pool, A).size \in Nat \ {0}
          /\ Package(pool, D).n \in Nat \ {0} /\ Package(pool, D).size \in Nat \ {0}
      BY <2>1, <3>1, <3>2, PackagePositive
    <3>5. pool.tx[t].parents \subseteq Mem(pool) /\ pool.tx[t].children \subseteq Mem(pool)
      BY <2>1 DEF Linked
    <3>6. pool.tx[t].feeDelta = pool.delta[t]
      BY <2>1 DEF Noted
    <3>7. /\ pool.tx[t].anc.n \in Nat \ {0} /\ pool.tx[t].anc.size \in Nat \ {0}
          /\ pool.tx[t].desc.n \in Nat \ {0} /\ pool.tx[t].desc.size \in Nat \ {0}
      BY <3>3, <3>4
    <3> QED
      BY <3>5, <3>6, <3>7
  <2>4. /\ tip \in Block /\ Cardinality(queued) <= MaxDisconnected
        /\ pc \in {"idle", "moving", "adding", "relinked", "cleaned"}
    BY DEF IInv, ChainValid, OnTheWay, Valid
  <2> QED
    BY <2>2, <2>3, <2>4 DEF MTypeOK, Mem
<1> QED
  BY <1>1, Invariance, PTL

\* The incremental updates of addUnchecked, UpdateForRemoveFromMempool,
\* PrioritiseTransaction and UpdateForDescendants keep every entry's two packages
\* equal to what the links lead to, in the middle of a reorganisation too.
THEOREM PackagesAreRight == Spec => []PackagesMatchLinks
<1>1. IInv => PackagesMatchLinks
  BY Zenon DEF IInv, PoolInOrder, InOrder, Fine, Counted, PackagesMatchLinks, Mem, Down
<1> QED
  BY <1>1, Invariance, PTL

\* mapNextTx and, except between AddBack and Relink, mapLinks are what the inputs
\* of the entries say: UpdateTransactionsFromBlock restores every link that
\* addUnchecked could not know of.
THEOREM LinksAreExact == Spec => []LinksExact
<1>1. IInv => LinksExact
  <2> SUFFICES ASSUME IInv PROVE LinksExact
    OBVIOUS
  <2>1. /\ pool \in Pools /\ Linked(pool) /\ NextOk(pool)
        /\ LinksAre(pool, Range(hashUpdate))
    BY DEF IInv, PoolInOrder, InOrder, Fine
  <2> DEFINE M == Mem(pool)
             O == UNION {Ins(t) : t \in M}
             n == [o \in O |-> CHOOSE t \in M : o \in Ins(t)]
  <2>2. pool.next = n
    <3>1. DOMAIN pool.next = O /\ \A t \in M : \A o \in Ins(t) : pool.next[o] = t
      BY <2>1 DEF NextOk
    <3>2. pool.next \in [O -> Tx]
      BY Zenon, <2>1, <3>1, PoolType
    <3>3. ASSUME NEW o \in O
          PROVE  pool.next[o] = n[o]
      <4>1. \E t \in M : o \in Ins(t)
        OBVIOUS
      <4> DEFINE c == CHOOSE t \in M : o \in Ins(t)
      <4>2. c \in M /\ o \in Ins(c)
        BY <4>1
      <4>3. n[o] = c
        OBVIOUS
      <4> HIDE DEF c, n, O, M
      <4> QED
        BY <3>1, <4>2, <4>3
    <3> HIDE DEF O, M
    <3> QED
      BY Zenon, <3>2, <3>3
  <2>3. ASSUME hashUpdate = <<>>, NEW t \in M
        PROVE  /\ pool.tx[t].parents = InputTxs(t) \intersect M
               /\ pool.tx[t].children = {u \in M : t \in InputTxs(u)}
    <3>1. Range(hashUpdate) = {}
      BY <2>3, EmptyHashes
    <3>2. \A v, u \in M : u \in pool.tx[v].children <=> v \in InputTxs(u)
      BY <2>1, <3>1 DEF LinksAre
    <3>3. \A v \in M : pool.tx[v].parents \subseteq M /\ pool.tx[v].children \subseteq M
      BY <2>1 DEF Linked
    <3>4. \A v, u \in M : u \in pool.tx[v].children <=> v \in pool.tx[u].parents
      BY <2>1 DEF Linked
    <3> HIDE DEF M
    <3> QED
      BY <3>2, <3>3, <3>4
  <2> QED
    BY <2>2, <2>3 DEF LinksExact, Mem
<1> QED
  BY <1>1, Invariance, PTL

\* Whenever cs_main is free the next block may contain the whole pool: inputs
\* exist, are mature and are spent once, whatever reorganisation came before.
THEOREM PoolIsMinable == Spec => []PoolMinable
<1>1. IInv => PoolMinable
  <2> SUFFICES ASSUME IInv, pc = "idle"
               PROVE  /\ \A t \in Mem(pool) : \A o \in Ins(t) :
                           o[1] \in Mem(pool) \/ (HaveCoin(tip, o) /\ Mature(tip, o))
                      /\ \A t, u \in Mem(pool) : t # u => Ins(t) \intersect Ins(u) = {}
    BY DEF PoolMinable, Mem
  <2>1. queued = {} /\ Ripe(pool, tip)
    BY DEF IInv, MoveInOrder, PoolRipe
  <2>2. NextOk(pool) /\ Supplied(pool, {}, tip)
    BY <2>1 DEF IInv, PoolInOrder, InOrder, Fine
  <2>3. \A t \in Mem(pool) : \A o \in Ins(t) : o[1] \in Mem(pool) \/ (HaveCoin(tip, o) /\ Mature(tip, o))
    BY <2>1, <2>2 DEF Supplied, Ripe
  <2>4. \A t, u \in Mem(pool) : t # u => Ins(t) \intersect Ins(u) = {}
    BY <2>2 DEF NextOk
  <2> QED
    BY <2>3, <2>4
<1> QED
  BY <1>1, Invariance, PTL

\* The transactions of the disconnectpool are neither in the pool nor confirmed.
THEOREM DisconnectedAreApart == Spec => []DisconnectedApart
<1>1. IInv => DisconnectedApart
  BY DEF IInv, PoolInOrder, InOrder, Apart, DisconnectedApart, Mem
<1> QED
  BY <1>1, Invariance, PTL
=============================================================================
