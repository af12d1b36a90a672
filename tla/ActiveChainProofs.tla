-------------------------- MODULE ActiveChainProofs --------------------------
(***************************************************************************)
(* What is proved of the active chain in the long run: ActivateBestChain   *)
(* leaves it on the best chain, and data disappears from its block files   *)
(* only as ordered.  The second is for every tree of blocks, every choice  *)
(* of the transactions and the orders in them, every Age of at least 2,    *)
(* any number of threads, calls and restarts, and whatever the caches of   *)
(* the roots contain.                                                      *)
(***************************************************************************)
EXTENDS UChain, ChainStateProofs

(***************************************************************************)
(* One thread at a time in ActivateBestChain                               *)
(***************************************************************************)
\* No good block is better than m.
Best(m) == \A a \in chainTx : Good(a) => a = m \/ Worse(seq, a, m)

\* The target is the best block there is, and the tip is when ActivateBestChain
\* has returned.
TargetBest ==
  LET me == th[Import]
  IN  /\ me.mostWork # Nil => Good(me.mostWork) /\ Best(me.mostWork)
      /\ me.pc \in {"idle", "hot"} => me.mostWork = Nil /\ Best(tip)

\* The sequence ids that preciousblock has given out at the present height are
\* above the next one it will give.
PreciousIds ==
  /\ ids.reverse < 0 /\ ("precious" \notin Rpcs => ids.precious = 0)
  /\ \A b \in chainTx : Good(b) /\ seq[b] < 0 =>
       Height[b] < ids.precious \/ (Height[b] = ids.precious /\ seq[b] > ids.reverse)

\* The candidates are complete from the best block.
LEMMA BestFull ==
  ASSUME IInv, FallBack, NEW m \in chainTx, Best(m)
  PROVE  Full(m) /\ Height[m] >= ids.precious
<1>1. PICK r \in chainTx : Full(r) /\ Fit(r) /\ Height[r] >= ids.precious
  BY DEF FallBack
<1>2. r = m \/ Worse(seq, r, m)
  BY <1>1 DEF Best, Fit, Good
<1>3. Full(m) /\ Height[m] >= Height[r]
  BY <1>1, <1>2, FullUp
<1>4. Height[m] \in Nat /\ Height[r] \in Nat /\ ids.precious \in Nat
  BY BlockTree DEF IInv, TypeOK
<1> QED
  BY <1>1, <1>3, <1>4

\* FindMostWorkChain finds the best block: the tip is good, and so is what has no
\* marked block above it.
LEMMA MostWorkBest ==
  ASSUME IInv, MarksCaused, TipFit, FallBack, TargetBest
  PROVE  MostWork(Import) \in chainTx /\ Good(MostWork(Import)) /\ Best(MostWork(Import))
<1>1. CASE th[Import].mostWork # Nil
  BY <1>1, ChainStateConstants DEF MostWork, TargetBest, IInv, Targets
<1>2. CASE th[Import].mostWork = Nil
  <2> DEFINE m == BestOf(Usable)
  <2>1. chainTx \subseteq Block /\ Usable \subseteq cand /\ cand \subseteq chainTx /\ SeqType /\ tip \in Block
    BY DEF IInv, TypeOK, Usable, SeqType
  <2>2. ASSUME NEW b \in chainTx, Good(b), b \in cand PROVE b \in Usable
    BY <2>1, <2>2, GoodUnmarked DEF Usable, Unusable, Path, Above
  <2>3. PICK r \in chainTx : Full(r) /\ Fit(r)
    BY DEF FallBack
  <2>4. Good(r) /\ r \in cand
    BY <2>1, <2>3, WorseTotal DEF Full, Fit, Good, SeqType
  <2>5. r \in Usable
    BY <2>2, <2>4
  <2>6. m \in Usable /\ \A a \in Usable : a = m \/ Worse(seq, a, m)
    BY <2>1, <2>5, BestOfIn
  <2>7. MostWork(Import) = m
    BY <1>2, <2>5 DEF MostWork
  <2> HIDE DEF m
  <2>8. Good(m)
    BY <2>1, <2>6 DEF Usable, Unusable, Path, Above, FailedMask, TipFit, Fit, Good
  <2>9. ASSUME NEW a \in chainTx, Good(a) PROVE a = m \/ Worse(seq, a, m)
    <3>1. CASE ~Worse(seq, a, r)
      BY <2>2, <2>3, <2>6, <2>9, <3>1 DEF Full
    <3>2. CASE Worse(seq, a, r)
      <4>1. r = m \/ Worse(seq, r, m)
        BY <2>5, <2>6
      <4>2. a \in Block /\ r \in Block /\ m \in Block
        BY <2>1, <2>3, <2>6
      <4> QED
        BY <2>1, <3>2, <4>1, <4>2, WorseTotal DEF SeqType
    <3> QED
      BY <3>1, <3>2
  <2> QED
    BY <2>1, <2>6, <2>7, <2>8, <2>9 DEF Best
<1> QED
  BY <1>1, <1>2

\* What StepEnds leaves in the thread.
LEMMA StepEndsTarget ==
  ASSUME IInv, NEW now \in Block, NEW m \in Block \union {Nil}, StepEnds(Import, now, m)
  PROVE  /\ now = m => th'[Import].pc \in {"idle", "hot"} /\ th'[Import].mostWork = Nil
         /\ now # m => th'[Import].pc = "activate" /\ th'[Import].mostWork = m
BY ChainStateConstants DEF StepEnds, Finished, Idle, IInv, TypeOK

\* The target stays the best block to the end of the iteration, and of the next.
LEMMA TargetConnectBlock ==
  ASSUME IInv, TipFit, TargetBest, ConnectBlock(Import)
  PROVE  TargetBest' /\ TipFit'
<1> DEFINE m == th[Import].mostWork
           n == NextBlock(Import)
<1>1. /\ n \in chainTx \ {Genesis} /\ Prev[n] = tip /\ m \in chainTx /\ chainTx \subseteq Block
      /\ tip \in Block /\ m # Nil /\ n \in Block
  BY NextBlockIn, ChainStateConstants, BlockTree DEF ConnectBlock, IInv, TypeOK
<1>2. Good(m) /\ Best(m) /\ th[Import].pc = "step"
  BY <1>1 DEF TargetBest, ConnectBlock, Connecting
<1>3. n \in Anc[m]
  <2>1. tip \in Anc[m] \ {m}
    BY DEF ConnectBlock, Connecting
  <2>2. \E b \in Anc[m] \ Anc[tip] : Prev[b] = tip
    BY <1>1, <2>1, NextExists
  <2> QED
    BY <2>2 DEF NextBlock, Above
<1>4. Anc[n] = {n} \union Anc[tip] /\ n \notin Anc[tip]
  <2>1. Height[n] = Height[tip] + 1 /\ Height[tip] \in Nat
    BY <1>1, BlockTree
  <2> QED
    BY <1>1, <2>1, BlockTree, AncHeight
<1>5. CASE n \notin Invalid /\ ConnectTip(Import)
  <2>1. UNCHANGED <<chainTx, seq, failed, saved>> /\ tip' = n
    BY <1>5 DEF ConnectTip
  <2>2. TipFit'
    BY <1>2, <1>3, <1>4, <1>5, <2>1 DEF TipFit, Fit, Good
  <2>3. CASE UNCHANGED th
    BY <1>2, <2>1, <2>2, <2>3 DEF TargetBest, Good, Best
  <2>4. CASE StepEnds(Import, n, m)
    <3>1. /\ n = m => th'[Import].pc \in {"idle", "hot"} /\ th'[Import].mostWork = Nil
          /\ n # m => th'[Import].pc = "activate" /\ th'[Import].mostWork = m
      BY <1>1, <2>4, StepEndsTarget
    <3> HIDE DEF m, n
    <3> QED
      BY <1>1, <1>2, <2>1, <2>2, <3>1 DEF TargetBest, Good, Best
  <2> QED
    BY <1>5, <2>1, <2>3, <2>4 DEF ConnectTip
<1>6. CASE n \in Invalid /\ ConnectTipInvalid(Import)
  <2>1. StepEnds(Import, tip, Nil) /\ failed' = failed \union {n} /\ UNCHANGED <<tip, saved>>
    BY <1>6 DEF ConnectTipInvalid
  <2>2. tip # Nil
    BY <1>1, BlockTree, ChainStateConstants
  <2>3. th'[Import].pc = "activate" /\ th'[Import].mostWork = Nil
    BY <1>1, <2>1, <2>2, StepEndsTarget
  <2> QED
    BY <1>4, <2>1, <2>3 DEF TargetBest, TipFit, Fit
<1> QED
  BY <1>5, <1>6 DEF ConnectBlock

\* FindMostWorkChain takes the best block as the target, or returns with it as tip.
LEMMA TargetFindMostWorkChain ==
  ASSUME IInv, MarksCaused, TipFit, FallBack, TargetBest, FindMostWorkChain(Import)
  PROVE  TargetBest' /\ TipFit'
<1> DEFINE m == MostWork(Import)
<1>1. m \in chainTx /\ Good(m) /\ Best(m) /\ m # Nil
  BY MostWorkBest, BlockTree, ChainStateConstants DEF IInv, TypeOK
<1>2. /\ UNCHANGED <<chainTx, seq, failed, tip, saved>> /\ th \in [Threads -> Thread]
      /\ \/ m = tip /\ th' = [th EXCEPT ![Import] = Finished(th[Import].job)]
         \/ th' = [th EXCEPT ![Import] = [pc |-> "step", job |-> th[Import].job,
                                         mostWork |-> m, oldTip |-> tip]]
  BY <1>1 DEF FindMostWorkChain, IInv, TypeOK
<1> HIDE DEF m
<1>3. \/ m = tip /\ th'[Import].pc \in {"idle", "hot"} /\ th'[Import].mostWork = Nil
      \/ th'[Import].pc = "step" /\ th'[Import].mostWork = m
  BY <1>2, ChainStateConstants DEF Finished, Idle
<1>4. TipFit'
  BY <1>2 DEF TipFit, Fit
<1> QED
  BY <1>1, <1>2, <1>3, <1>4 DEF TargetBest, Good, Best

\* DisconnectTip lowers the tip.
LEMMA TargetDisconnectTip ==
  ASSUME IInv, TipFit, TargetBest, DisconnectTip(Import)
  PROVE  TargetBest' /\ TipFit'
<1> DEFINE m == th[Import].mostWork
<1>1. tip \in Block \ {Genesis} /\ m \in Block /\ m # Nil
  BY ZenonT(40), DisconnectTipIInv, ChainStateConstants, BlockTree DEF DisconnectTip, IInv, TypeOK, Targets
<1>2. UNCHANGED <<chainTx, seq, failed, saved>> /\ tip' = Prev[tip] /\ th[Import].pc = "step"
  BY DEF DisconnectTip, index
<1>3. TipFit' /\ tip' \in Block
  BY <1>1, <1>2, BlockTree DEF TipFit, Fit
<1>4. Good(m) /\ Best(m)
  BY <1>1 DEF TargetBest
<1>5. CASE UNCHANGED th
  BY <1>2, <1>3, <1>4, <1>5 DEF TargetBest, Good, Best
<1>6. CASE tip' = m /\ StepEnds(Import, tip', tip')
  <2>1. th'[Import].pc \in {"idle", "hot"} /\ th'[Import].mostWork = Nil
    BY <1>3, <1>6, StepEndsTarget
  <2> HIDE DEF m
  <2> QED
    BY <1>2, <1>3, <1>4, <1>6, <2>1 DEF TargetBest, Good, Best
<1> QED
  BY ZenonT(40), <1>5, <1>6 DEF DisconnectTip

\* A thread that begins ActivateBestChain has no target.
LEMMA TargetRpc ==
  ASSUME IInv, NEW job, th' = [th EXCEPT ![Import] = Activating(job)]
  PROVE  TargetBest'
<1>1. th'[Import].pc = "activate" /\ th'[Import].mostWork = Nil
  BY ChainStateConstants DEF IInv, TypeOK, Activating
<1> QED
  BY <1>1 DEF TargetBest

\* The tip stays fit when blocks are marked that are not in the active chain.
LEMMA TargetAcceptBlock ==
  ASSUME IInv, TipFit, TargetBest, NEW b \in Block, NEW r \in BOOLEAN, AcceptBlock(Import, b, r)
  PROVE  TargetBest' /\ TipFit'
<1>1. UNCHANGED <<tip, saved>> /\ th[Import].pc = "idle"
  BY DEF AcceptBlock
<1>2. CASE failed' = failed /\ th' = [th EXCEPT ![Import] = Activating("process")]
  <2>1. TipFit'
    BY <1>1, <1>2 DEF TipFit, Fit
  <2> QED
    BY Zenon, <1>2, <2>1, TargetRpc
<1>3. CASE b \notin haveData /\ failed' = failed \union {b} /\ UNCHANGED <<chainTx, seq, th>>
  <2>1. b \notin Anc[tip]
    BY <1>3 DEF IInv, TypeOK, Rooted
  <2> QED
    BY <1>1, <1>3, <2>1 DEF TipFit, Fit, TargetBest, Good, Best
<1> QED
  BY <1>2, <1>3 DEF AcceptBlock, Unwanted

\* invalidateblock takes the marked block out of the active chain.
LEMMA TargetInvalidateBlock ==
  ASSUME IInv, TipFit, NEW b \in Block, InvalidateBlock(Import, b)
  PROVE  TargetBest' /\ TipFit'
<1>1. /\ b # Genesis /\ failed' = failed \union {b} /\ saved' = saved
      /\ tip' = IF b \in Anc[tip] THEN Prev[b] ELSE tip
      /\ th' = [th EXCEPT ![Import] = Activating("activate")]
  BY DEF InvalidateBlock, Rpc
<1>2. Prev[b] \in Block /\ Anc[Prev[b]] \subseteq Anc[b] /\ b \notin Anc[Prev[b]] /\ tip \in Block
  <2>1. Prev[b] \in Block /\ Height[b] = Height[Prev[b]] + 1 /\ Height[Prev[b]] \in Nat
    BY <1>1, BlockTree
  <2> QED
    BY <1>1, <2>1, BlockTree, AncHeight DEF IInv, TypeOK
<1>3. b \in Anc[tip] => Anc[b] \subseteq Anc[tip]
  BY <1>2, AncTrans
<1>4. TipFit'
  BY <1>1, <1>2, <1>3 DEF TipFit, Fit
<1> QED
  BY Zenon, <1>1, <1>4, TargetRpc

\* preciousblock gives the tip a better id than it has, or leaves the other blocks
\* where they are relative to it.
LEMMA PreciousBlockKeeps ==
  ASSUME IInv, IInv', MarksCaused, TipFit, FallBack, TargetBest, PreciousIds,
         NEW b \in Block, PreciousBlock(Import, b)
  PROVE  FallBack' /\ PreciousIds' /\ TargetBest' /\ TipFit'
<1> DEFINE r == IF Height[tip] > ids.precious THEN -1 ELSE ids.reverse
<1>1. /\ seq' = [seq EXCEPT ![b] = r] /\ "precious" \in Rpcs
      /\ ids' = [next |-> ids.next, reverse |-> r - 1, precious |-> Height[tip]]
      /\ UNCHANGED <<haveData, chainTx, failed, failedChild, tip, saved>>
      /\ th[Import].pc = "idle" /\ th' = [th EXCEPT ![Import] = Activating("activate")]
  BY DEF PreciousBlock, Rpc
<1>2. cand' = IF b \in (haveData \intersect chainTx) \ FailedMask
              THEN {d \in cand \union {b} : ~Worse(seq', d, tip)} ELSE cand \ {b}
  BY DEF PreciousBlock, Prune
<1>3. /\ chainTx \subseteq Block /\ chainTx \subseteq haveData /\ tip \in chainTx /\ seq \in [Block -> Int]
      /\ seq' \in [Block -> Int] /\ ids.precious \in Nat /\ ids.reverse \in Int
  BY DEF IInv, TypeOK
<1>4. \A d \in Block : Height[d] \in Nat /\ Addr[d] \in Nat
  BY BlockTree, ChainStateConstants
<1>5. Best(tip) /\ Full(tip) /\ Height[tip] >= ids.precious /\ Good(tip)
  BY <1>1, <1>3, BestFull DEF TargetBest, TipFit, Fit, Good
<1>6. r \in Int /\ r < 0 /\ (Height[tip] = ids.precious => r = ids.reverse)
  BY <1>3, <1>4 DEF PreciousIds
<1>7. r < seq[tip]
  BY <1>3, <1>4, <1>5, <1>6 DEF PreciousIds
<1>8. \A d \in Block : seq'[d] = IF d = b THEN r ELSE seq[d]
  BY <1>1, <1>3
<1> HIDE DEF r
<1>9. \A d \in chainTx : Good(d) => d \notin FailedMask
  BY <1>3, AncSelf, GoodUnmarked
<1>10. ASSUME NEW d \in chainTx, Good(d), ~Worse(seq', d, tip) PROVE d \in cand'
  <2>1. CASE d = b
    BY <1>2, <1>3, <1>9, <1>10, <2>1
  <2>2. CASE d # b
    <3>1. d \in Block /\ tip \in Block /\ seq[d] \in Int /\ seq[tip] \in Int
      BY <1>3
    <3>2. ~Worse(seq, d, tip)
      BY <1>4, <1>6, <1>7, <1>8, <1>10, <2>2, <3>1 DEF Worse
    <3>3. d \in cand
      BY <1>5, <1>10, <3>2 DEF Full
    <3> QED
      BY <1>2, <1>10, <2>2, <3>3
  <2> QED
    BY <2>1, <2>2
<1>11. \A d : Good(d)' <=> Good(d)
  BY <1>1 DEF Good
<1>12. FallBack'
  <2>1. Full(tip)'
    BY <1>1, <1>10 DEF Full, Good
  <2>2. Height[tip'] >= ids'.precious
    BY <1>1, <1>3, <1>4
  <2>3. Fit(tip)'
    BY <1>1 DEF TipFit, Fit
  <2> QED
    BY ZenonT(40), <1>1, <1>3, <2>1, <2>2, <2>3 DEF FallBack
<1>13. PreciousIds'
  <2>1. ASSUME NEW d \in chainTx, Good(d), seq'[d] < 0
        PROVE  Height[d] < Height[tip] \/ (Height[d] = Height[tip] /\ seq'[d] > r - 1)
    <3>1. Height[d] <= Height[tip]
      <4>1. d = tip \/ Worse(seq, d, tip)
        BY <1>5, <2>1 DEF Best
      <4> QED
        BY <1>3, <1>4, <4>1 DEF Worse
    <3>2. d \in Block /\ seq[d] \in Int
      BY <1>3
    <3>3. CASE d = b
      BY <1>3, <1>4, <1>6, <1>8, <3>1, <3>2, <3>3
    <3>4. CASE d # b
      <4>1. seq'[d] = seq[d] /\ seq[d] < 0
        BY <1>8, <2>1, <3>2, <3>4
      <4>2. Height[d] < ids.precious \/ (Height[d] = ids.precious /\ seq[d] > ids.reverse)
        BY <2>1, <4>1 DEF PreciousIds
      <4>3. Height[d] \in Nat /\ Height[tip] \in Nat /\ ids.precious \in Nat /\ Height[tip] >= ids.precious
        BY <1>3, <1>4, <1>5, <3>2
      <4>4. CASE Height[d] < ids.precious
        BY <4>3, <4>4
      <4>5. CASE Height[d] = ids.precious /\ seq[d] > ids.reverse
        <5>1. CASE Height[tip] = ids.precious
          <6>1. r = ids.reverse
            BY <1>6, <5>1
          <6> QED
            BY <1>3, <3>2, <4>1, <4>5, <5>1, <6>1
        <5> QED
          BY <4>3, <4>5, <5>1
      <4> QED
        BY <4>2, <4>4, <4>5
    <3> QED
      BY <3>3, <3>4
  <2>2. ids'.reverse = r - 1 /\ ids'.precious = Height[tip]
    BY <1>1
  <2>3. ids'.reverse < 0
    BY <1>6, <2>2
  <2> QED
    BY <1>1, <2>1, <2>2, <2>3 DEF PreciousIds, Good
<1>14. TipFit'
  BY <1>1 DEF TipFit, Fit
<1>15. TargetBest'
  BY Zenon, <1>1, TargetRpc
<1> QED
  BY <1>12, <1>13, <1>14, <1>15

\* A block that is linked gets an id that is not negative.
LEMMA PreciousIdsAcceptBlock ==
  ASSUME IInv, PreciousIds, NEW t \in Threads, NEW b \in Block, NEW r \in BOOLEAN, AcceptBlock(t, b, r)
  PROVE  PreciousIds'
<1>1. CASE UNCHANGED <<chainTx, seq, ids>> /\ failed \subseteq failed'
  BY <1>1 DEF PreciousIds, Good
<1>2. CASE b \notin haveData /\ failed' = failed /\ ReceivedBlockTransactions(b) /\ Prev[b] \in chainTx
  <2> DEFINE L == Linked(b)
  <2>1. /\ seq' \in SequenceIds(L) /\ chainTx' = chainTx \union L
        /\ ids'.precious = ids.precious /\ ids'.reverse = ids.reverse
    BY ZenonT(40), <1>2 DEF ReceivedBlockTransactions, IInv, TypeOK
  <2>2. L \intersect chainTx = {} /\ L \in SUBSET Block
    BY <1>2, LinkedRooted DEF IInv, TypeOK
  <2> HIDE DEF L
  <2>3. chainTx \subseteq Block /\ ids.next \in Nat /\ Cardinality(L) \in Nat
    BY <2>2, SequenceIdsType DEF IInv, TypeOK
  <2>4. PICK f \in [L -> ids.next .. ids.next + Cardinality(L) - 1] :
               seq' = [d \in Block |-> IF d \in L THEN f[d] ELSE seq[d]]
    BY Zenon, <2>1 DEF SequenceIds
  <2>5. \A d \in chainTx : seq'[d] = seq[d]
    BY <2>2, <2>3, <2>4
  <2>6. \A d \in L : seq'[d] = f[d] /\ f[d] \in ids.next .. ids.next + Cardinality(L) - 1
    BY <2>2, <2>4
  <2>7. \A d \in L : ~(seq'[d] < 0)
    BY <2>3, <2>6
  <2> QED
    BY <1>2, <2>1, <2>5, <2>7 DEF PreciousIds, Good
<1> QED
  BY <1>1, <1>2 DEF AcceptBlock, ReceivedBlockTransactions, Unwanted

\* The other steps give out no sequence id.
LEMMA PreciousIdsNext ==
  ASSUME "reconsider" \notin Rpcs, IInv, PreciousIds, [Next]_vars,
         \A t \in Threads, b \in Block : ~PreciousBlock(t, b)
  PROVE  PreciousIds'
<1>1. ASSUME UNCHANGED <<chainTx, seq, ids>>, failed \subseteq failed' PROVE PreciousIds'
  BY <1>1 DEF PreciousIds, Good
<1>2. ASSUME NEW t \in Threads, NEW b \in Block, NEW r \in BOOLEAN, AcceptBlock(t, b, r)
      PROVE  PreciousIds'
  BY <1>2, PreciousIdsAcceptBlock
<1>3. CASE Restart
  <2>1. ids' = [next |-> 1, reverse |-> -1, precious |-> 0] /\ seq' = [b \in Block |-> 0]
        /\ chainTx' \subseteq Block
    BY <1>3, RestartIInv DEF Restart, IInv, TypeOK
  <2>2. ids'.reverse = -1 /\ ids'.precious = 0 /\ \A b \in chainTx' : seq'[b] = 0
    BY <2>1
  <2> QED
    BY <2>2 DEF PreciousIds
<1>4. ASSUME NEW t \in Threads, NEW b \in Block PROVE ~ReconsiderBlock(t, b)
  BY ZenonT(40) DEF ReconsiderBlock, Rpc
<1>5. ASSUME NEW t \in Threads, Steps(t) PROVE PreciousIds'
  BY ZenonT(40), <1>1, <1>5 DEF Steps, FindMostWorkChain, DisconnectTip, ConnectBlock, ConnectTip,
     ConnectTipInvalid, UpdateHotBlock, index
<1>6. ASSUME NEW b \in Block, AcceptHeader(b) \/ \E t \in Threads : InvalidateBlock(t, b)
      PROVE  PreciousIds'
  BY ZenonT(40), <1>1, <1>6 DEF AcceptHeader, InvalidateBlock
<1>7. CASE FlushStateToDisk \/ UNCHANGED vars
  BY <1>1, <1>7 DEF FlushStateToDisk, vars, index
<1> QED
  BY Zenon, <1>2, <1>3, <1>4, <1>5, <1>6, <1>7 DEF Next, Steps

\* With one thread, and a disk whose chain is not marked, the tip stays fit and the
\* target the best block.
LEMMA TargetNext ==
  ASSUME "reconsider" \notin Rpcs, Threads = {Import}, CleanDisk, [Next]_vars,
         IInv, MarksCaused, TipFit, FallBack, TargetBest,
         \A t \in Threads, b \in Block : ~PreciousBlock(t, b)
  PROVE  TargetBest' /\ TipFit'
<1>1. ASSUME UNCHANGED <<chainTx, seq, failed, tip, th>>, saved'.tip \in {tip, saved.tip}
      PROVE  TargetBest' /\ TipFit'
  BY <1>1 DEF TargetBest, TipFit, Fit, Good, Best
<1>2. ASSUME NEW b \in Block, NEW r \in BOOLEAN, AcceptBlock(Import, b, r) PROVE TargetBest' /\ TipFit'
  BY <1>2, TargetAcceptBlock
<1>3. CASE FindMostWorkChain(Import)
  BY <1>3, TargetFindMostWorkChain
<1>4. CASE DisconnectTip(Import)
  BY <1>4, TargetDisconnectTip
<1>5. CASE ConnectBlock(Import)
  BY ZenonT(40), <1>5, TargetConnectBlock
<1>6. CASE UpdateHotBlock(Import)
  <2>1. /\ UNCHANGED <<chainTx, seq, failed, tip, saved>> /\ th[Import].pc = "hot"
        /\ th' = [th EXCEPT ![Import] = Idle]
    BY <1>6 DEF UpdateHotBlock, index
  <2>2. th'[Import].mostWork = Nil
    BY <2>1, ChainStateConstants DEF IInv, TypeOK, Idle
  <2>3. TipFit'
    BY Zenon, <2>1 DEF TipFit, Fit
  <2> QED
    BY <2>1, <2>2, <2>3 DEF TargetBest, Good, Best
<1>7. ASSUME NEW b \in Block, InvalidateBlock(Import, b) PROVE TargetBest' /\ TipFit'
  BY <1>7, TargetInvalidateBlock
<1>8. ASSUME NEW b \in Block PROVE ~ReconsiderBlock(Import, b)
  BY DEF ReconsiderBlock, Rpc
<1>9. ASSUME NEW b \in Block, AcceptHeader(b) PROVE TargetBest' /\ TipFit'
  BY <1>1, <1>9 DEF AcceptHeader
<1>10. CASE FlushStateToDisk
  <2>1. saved'.tip \in {tip, saved.tip}
    BY <1>10 DEF FlushStateToDisk
  <2> QED
    BY <1>1, <1>10, <2>1 DEF FlushStateToDisk
<1>11. CASE Restart
  <2>1. /\ tip' = saved.tip /\ saved' = saved /\ failed' = saved.failed
        /\ th' = [t \in Threads |-> IF t = Import THEN Activating("activate") ELSE Idle]
    BY Zenon, <1>11 DEF Restart
  <2>2. th'[Import].pc = "activate" /\ th'[Import].mostWork = Nil
    BY <2>1, ChainStateConstants DEF Activating
  <2> QED
    BY <2>1, <2>2 DEF TargetBest, TipFit, Fit, CleanDisk
<1>12. CASE UNCHANGED vars
  BY <1>1, <1>12 DEF vars, index
<1> QED
  BY ZenonT(40), <1>2, <1>3, <1>4, <1>5, <1>6, <1>7, <1>8, <1>9, <1>10, <1>11, <1>12 DEF Next

\* The invariant of one thread.
BestInv == IInv /\ MarksCaused /\ TipFit /\ FallBack /\ TargetBest /\ PreciousIds

\* It is inductive as long as the disk is clean.
LEMMA BestInvNext ==
  ASSUME "reconsider" \notin Rpcs, "invalidate" \notin Rpcs \/ "precious" \notin Rpcs,
         Threads = {Import}, BestInv, CleanDisk, [Next]_vars
  PROVE  BestInv'
<1> USE DEF BestInv
<1>1. IInv' /\ MarksCaused'
  BY NextIInv, CausedNext
<1>2. CASE \E b \in Block : PreciousBlock(Import, b)
  BY <1>1, <1>2, PreciousBlockKeeps
<1>3. CASE ~\E b \in Block : PreciousBlock(Import, b)
  <2>1. \A t \in Threads, b \in Block : ~PreciousBlock(t, b)
    BY <1>3
  <2>2. TargetBest' /\ TipFit'
    BY <2>1, TargetNext
  <2>3. PreciousIds'
    BY <2>1, PreciousIdsNext
  <2>4. "invalidate" \in Rpcs => ids.precious = 0
    BY DEF PreciousIds
  <2>5. FallBack'
    BY <1>1, <2>1, <2>2, <2>4, FallBackNext
  <2> QED
    BY <1>1, <2>2, <2>3, <2>5
<1> QED
  BY <1>2, <1>3

\* Loading the genesis block establishes it.
LEMMA BestInvInit ==
  ASSUME Init
  PROVE  BestInv
<1>1. IInv /\ FallBack
  BY ZenonT(40), InitIInv, FallBackInit
<1>2. MarksCaused
  BY DEF Init, MarksCaused, FailedMask
<1>3. TipFit
  BY ZenonT(40), BlockTree, ChainStateConstants DEF Init, TipFit, Fit
<1>4. TargetBest
  BY ChainStateConstants DEF Init, TargetBest, Idle, Best
<1>5. PreciousIds
  BY BlockTree DEF Init, PreciousIds
<1> QED
  BY <1>1, <1>2, <1>3, <1>4, <1>5 DEF BestInv

\* What the invariant says when ActivateBestChain has returned.
LEMMA BestInvRest ==
  ASSUME BestInv, AtRest, Threads = {Import}
  PROVE  Best(tip) /\ Full(tip)
<1>1. Best(tip) /\ tip \in chainTx
  BY DEF BestInv, AtRest, TargetBest, IInv, TypeOK
<1> QED
  BY <1>1, BestFull DEF BestInv

\* One thread, without reconsiderblock, without mixing invalidateblock and
\* preciousblock, and as long as what is on disk could be started from:
LEMMA BestInvariant ==
  ASSUME "reconsider" \notin Rpcs, "invalidate" \notin Rpcs \/ "precious" \notin Rpcs,
         Threads = {Import}
  PROVE  Spec /\ []CleanDisk => []BestInv
<1>1. Init => BestInv
  BY BestInvInit
<1>2. BestInv /\ CleanDisk /\ [Next]_vars => BestInv'
  BY BestInvNext
<1> QED
  BY <1>1, <1>2, PTL DEF Spec

\* When ActivateBestChain returns, no block with complete data and without a marked
\* ancestor has more work than the tip: after reorganisations that fail at an
\* invalid block, after invalidateblock, and after restarts from any state on disk
\* whose chain carries no mark there.
THEOREM BestChainIsActive ==
  ASSUME "reconsider" \notin Rpcs, "invalidate" \notin Rpcs \/ "precious" \notin Rpcs,
         Threads = {Import}
  PROVE  Spec /\ []CleanDisk => []BestChainActive
<1>1. BestInv => BestChainActive
  <2> SUFFICES ASSUME BestInv, AtRest, NEW b \in chainTx, Good(b) PROVE Height[b] <= Height[tip]
    BY DEF BestChainActive, Good
  <2>1. b = tip \/ Worse(seq, b, tip)
    BY BestInvRest DEF Best
  <2>2. Height[b] \in Nat /\ Height[tip] \in Nat
    BY BlockTree DEF BestInv, IInv, TypeOK
  <2> QED
    BY <2>1, <2>2 DEF Worse
<1> QED
  BY <1>1, BestInvariant, PTL

\* When ActivateBestChain returns, every good block that does not sort before the tip
\* is a candidate, and at every moment there is a candidate.
THEOREM CandidatesAreComplete ==
  ASSUME "reconsider" \notin Rpcs, "invalidate" \notin Rpcs \/ "precious" \notin Rpcs,
         Threads = {Import}
  PROVE  Spec /\ []CleanDisk => [](CandidatesComplete /\ CandidateLeft)
<1>1. BestInv => CandidatesComplete
  <2> SUFFICES ASSUME BestInv, AtRest, NEW b \in chainTx, ~Worse(seq, b, tip), Good(b) PROVE b \in cand
    BY DEF CandidatesComplete, Good
  <2> QED
    BY BestInvRest DEF Full
<1>2. BestInv => CandidateLeft
  BY FallBackLeft DEF BestInv, CandidateLeft
<1> QED
  BY <1>1, <1>2, BestInvariant, PTL

\* Without invalidateblock the chain on disk is never marked: the flush of the
\* index before the coins is safe there.
THEOREM DiskStaysClean ==
  ASSUME "invalidate" \notin Rpcs
  PROVE  Spec => []CleanDisk
<1>1. Init => IInv /\ MarksJustified
  <2> SUFFICES ASSUME Init PROVE MarksJustified
    BY InitIInv
  <2> QED
    BY BlockTree, ChainStateConstants DEF Init, MarksJustified, Excluded
<1>2. (IInv /\ MarksJustified) /\ [Next]_vars => (IInv /\ MarksJustified)'
  BY NextIInv, MarksNext
<1>3. IInv /\ MarksJustified => CleanDisk
  <2> SUFFICES ASSUME IInv, MarksJustified, NEW b \in Anc[saved.tip],
                      b \in saved.failed \union saved.failedChild
               PROVE  FALSE
    BY DEF CleanDisk
  <2>1. saved.tip \in Block
    BY DEF IInv, TypeOK, OnDisk
  <2>2. Anc[b] \subseteq Anc[saved.tip]
    BY ZenonT(40), <2>1, AncTrans
  <2> QED
    BY <2>2 DEF MarksJustified
<1> QED
  BY <1>1, <1>2, <1>3, PTL DEF Spec

-----------------------------------------------------------------------------
(***************************************************************************)
(* Lemmas on the orders: what CheckBlockUChain writes to a block file, and *)
(* what a peer serves, is what an order that is due says.                  *)
(***************************************************************************)
\* The bodies are sequences of transactions.
LEMMA BodyType ==
  ASSUME body \in Bodies, NEW b \in Block
  PROVE  /\ DOMAIN body[b] \in SUBSET Nat
         /\ \A i \in DOMAIN body[b] : /\ i > 0 /\ body[b][i] \in Tx
                                      /\ Op[body[b][i]] \in {"none", "hide", "replace"}
<1>1. body[b] \in Seq(Tx) /\ Op \in [Tx -> {"none", "hide", "replace"}]
  BY UChainConstants
<1>2. DOMAIN body[b] = 1 .. Len(body[b]) /\ Len(body[b]) \in Nat
  BY <1>1
<1>3. \A i \in DOMAIN body[b] : body[b][i] \in Tx
  BY <1>1
<1>4. \A i \in DOMAIN body[b] : i \in Nat /\ i > 0
  BY <1>2
<1>5. \A i \in DOMAIN body[b] : Op[body[b][i]] \in {"none", "hide", "replace"}
  BY ZenonT(40), <1>1, <1>3
<1> QED
  BY ZenonT(40), <1>3, <1>4, <1>5

\* Of the positions of a body in a set there is a first one.
LEMMA FirstPosition ==
  ASSUME body \in Bodies, NEW b \in Block, NEW I \in SUBSET DOMAIN body[b], I # {}
  PROVE  \E i \in I : \A j \in 1 .. i - 1 : j \notin I
<1>1. I \in SUBSET Nat
  BY BodyType
<1>2. PICK i \in I : \A j \in I : i <= j
  BY <1>1, LeastNat
<1>3. \A j \in 1 .. i - 1 : ~(i <= j)
  BY <1>1, <1>2
<1> QED
  BY <1>2, <1>3

\* The block at height k of the active chain.
LEMMA OnType ==
  ASSUME tip \in Block, NEW k \in 0 .. Height[tip]
  PROVE  On(k) \in Anc[tip] /\ Height[On(k)] = k
BY AncAtHeight DEF On

\* There is an order in a block c, Age deep in the chain up to top, that asks for
\* the version v of x in the block b.
Due(top, c, b, x, v) ==
  /\ c \in Anc[top] /\ Height[b] < Height[c] /\ Height[c] + Age <= Height[top]
  /\ \E i \in DOMAIN body[c] : Target[body[c][i]] = x /\ Op[body[c][i]] = v

(***************************************************************************)
(* Rewriting                                                               *)
(***************************************************************************)
\* mutantInBlock: what is carried out is what one of the orders asks for.
LEMMA OpForIsOrdered ==
  ASSUME body \in Bodies, NEW c \in Block, NEW x \in Ordered(c)
  PROVE  \E i \in DOMAIN body[c] : /\ Carried(c, i) /\ Target[body[c][i]] = x
                                   /\ Op[body[c][i]] = OpFor(c, x)
<1> DEFINE I == {i \in DOMAIN body[c] : Carried(c, i) /\ Target[body[c][i]] = x}
<1>1. I # {} /\ I \in SUBSET DOMAIN body[c]
  BY DEF Ordered
<1>2. \E i \in I : \A j \in 1 .. i - 1 : j \notin I
  <2> HIDE DEF I
  <2> QED BY <1>1, FirstPosition
<1> DEFINE Is(i) == Carried(c, i) /\ Target[body[c][i]] = x
           first == CHOOSE i \in DOMAIN body[c] : Is(i) /\ \A j \in 1 .. i - 1 : ~Is(j)
<1>3. \E i \in DOMAIN body[c] : Is(i) /\ \A j \in 1 .. i - 1 : ~Is(j)
  <2>1. PICK i \in I : \A j \in 1 .. i - 1 : j \notin I
    BY <1>2
  <2>2. \A j \in 1 .. i - 1 : j \in DOMAIN body[c]
    <3>1. body[c] \in Seq(Tx)
      BY UChainConstants
    <3>2. DOMAIN body[c] = 1 .. Len(body[c]) /\ Len(body[c]) \in Nat /\ i \in DOMAIN body[c]
      BY <3>1
    <3> QED
      BY <3>2
  <2> QED
    BY <2>1, <2>2
<1>4. first \in DOMAIN body[c] /\ Is(first)
  BY <1>3
<1>5. OpFor(c, x) = Op[body[c][first]]
  BY DEF OpFor
<1> HIDE DEF first
<1> QED
  BY <1>4, <1>5

\* updateHotBlock: a file that changes gets the version that is due.
LEMMA RewrittenDue ==
  ASSUME tip \in Block, body \in Bodies, disk \in [Block -> [Tx -> Version]],
         ~(Height[tip] - Age <= 0)
  PROVE  /\ Rewritten(HotBlock) \in [Block -> [Tx -> Version]]
         /\ Height[HotBlock] + Age = Height[tip]
         /\ \A b \in Block, x \in Tx : Rewritten(HotBlock)[b][x] # disk[b][x] =>
              Due(tip, HotBlock, b, x, Rewritten(HotBlock)[b][x])
<1>1. Height[tip] \in Nat /\ Age \in Nat
  BY BlockTree, UChainConstants
<1>2. Height[tip] - Age \in 0 .. Height[tip]
  BY <1>1
<1>3. HotBlock \in Anc[tip] /\ Height[HotBlock] = Height[tip] - Age
  BY <1>2, OnType DEF HotBlock
<1>4. HotBlock \in Block
  BY ZenonT(40), <1>3, BlockTree
<1>5. Height[HotBlock] + Age = Height[tip] /\ Height[HotBlock] + Age <= Height[tip]
  BY <1>1, <1>3
<1> DEFINE hot == HotBlock
<1> HIDE DEF hot
<1>6. ASSUME NEW b \in Block, NEW x \in Tx, x \in Ordered(hot), txindex[x] = b
      PROVE  OpFor(hot, x) \in Version /\ Due(tip, hot, b, x, OpFor(hot, x))
  <2>1. PICK i \in DOMAIN body[hot] : /\ Carried(hot, i) /\ Target[body[hot][i]] = x
                                      /\ Op[body[hot][i]] = OpFor(hot, x)
    BY ZenonT(40), <1>4, <1>6, OpForIsOrdered DEF hot
  <2>2. Height[b] < Height[hot] /\ Op[body[hot][i]] # "none"
    BY ZenonT(40), <1>6, <2>1 DEF Carried, Parsed
  <2>3. OpFor(hot, x) \in Version
    BY ZenonT(40), <1>4, <2>1, <2>2, BodyType DEF Version, hot
  <2>4. hot \in Anc[tip] /\ Height[hot] + Age <= Height[tip]
    BY ZenonT(40), <1>3, <1>5 DEF hot
  <2> QED
    BY ZenonT(40), <2>1, <2>2, <2>3, <2>4 DEF Due
<1>7. Rewritten(hot) \in [Block -> [Tx -> Version]]
  <2>1. \A b \in Block, x \in Tx :
          (IF x \in Ordered(hot) /\ txindex[x] = b THEN OpFor(hot, x) ELSE disk[b][x]) \in Version
    BY ZenonT(40), <1>6
  <2> QED
    BY ZenonT(40), <2>1 DEF Rewritten
<1>8. \A b \in Block, x \in Tx : Rewritten(hot)[b][x] # disk[b][x] =>
        Due(tip, hot, b, x, Rewritten(hot)[b][x])
  BY ZenonT(40), <1>6 DEF Rewritten
<1> QED
  BY ZenonT(40), <1>5, <1>7, <1>8 DEF hot

(***************************************************************************)
(* What peers deliver                                                      *)
(***************************************************************************)
\* A transaction is in one block of a chain (BIP 30).
LEMMA OneBlock ==
  ASSUME body \in Bodies, NEW top \in Block, NEW b \in Anc[top], NEW c \in Anc[top],
         NEW x, x \in TxsOf({b}), x \in TxsOf({c})
  PROVE  b = c
<1>1. b \in Block /\ c \in Block /\ (b \in Anc[c] \/ c \in Anc[b])
  BY AncLinear, BlockTree
<1>2. PICK i \in DOMAIN body[b], j \in DOMAIN body[c] : body[b][i] = x /\ body[c][j] = x
  BY DEF TxsOf
<1>3. \A d \in Block : \A e \in Anc[d] \ {d} :
        \A k \in DOMAIN body[d], l \in DOMAIN body[e] : body[d][k] # body[e][l]
  BY ZenonT(40), UChainConstants
<1> QED
  BY <1>1, <1>2, <1>3

\* The first order of a block for x is one of its orders for x.
LEMMA FirstOpIsOrdered ==
  ASSUME body \in Bodies, NEW c \in Block, NEW x, Names(c, x)
  PROVE  /\ FirstOp(c, x) \in {"hide", "replace"}
         /\ \E i \in DOMAIN body[c] : Target[body[c][i]] = x /\ Op[body[c][i]] = FirstOp(c, x)
<1> DEFINE Is(i) == Op[body[c][i]] # "none" /\ Target[body[c][i]] = x
           I == {i \in DOMAIN body[c] : Is(i)}
           first == CHOOSE i \in DOMAIN body[c] : Is(i) /\ \A j \in 1 .. i - 1 : ~Is(j)
<1>1. I # {} /\ I \in SUBSET DOMAIN body[c]
  BY ZenonT(40) DEF Names
<1>2. PICK i \in I : \A j \in 1 .. i - 1 : j \notin I
  <2> HIDE DEF I
  <2> QED BY <1>1, FirstPosition
<1>3. \A j \in 1 .. i - 1 : j \in DOMAIN body[c]
  <2>1. body[c] \in Seq(Tx)
    BY UChainConstants
  <2>2. DOMAIN body[c] = 1 .. Len(body[c]) /\ Len(body[c]) \in Nat /\ i \in DOMAIN body[c]
    BY <2>1
  <2> QED
    BY <2>2
<1>4. first \in DOMAIN body[c] /\ Is(first)
  BY ZenonT(40), <1>2, <1>3
<1>5. FirstOp(c, x) = Op[body[c][first]]
  BY DEF FirstOp
<1> HIDE DEF first
<1> QED
  BY ZenonT(40), <1>4, <1>5, BodyType

\* The newest of the orders that count exists.
LEMMA NewestEffective ==
  ASSUME NEW top \in Block, NEW x, Effective(top, Height[top], x) # {}
  PROVE  \E c \in Effective(top, Height[top], x) :
           \A d \in Effective(top, Height[top], x) : Height[d] <= Height[c]
<1> DEFINE E == Effective(top, Height[top], x)
           T == {Height[top] - Height[c] : c \in E}
<1>1. \A c \in E : c \in Block /\ Height[c] + Age <= Height[top]
  BY BlockTree DEF Effective
<1>2. Height[top] \in Nat /\ Age \in Nat /\ \A c \in E : Height[c] \in Nat
  BY ZenonT(40), <1>1, BlockTree, UChainConstants
<1> HIDE DEF E
<1>3. T \in SUBSET Nat /\ T # {}
  BY <1>1, <1>2 DEF E
<1>4. PICK n \in T : \A m \in T : n <= m
  <2> HIDE DEF T
  <2> QED BY <1>3, LeastNat
<1>5. PICK c \in E : n = Height[top] - Height[c]
  BY <1>4
<1>6. \A d \in E : Height[top] - Height[c] <= Height[top] - Height[d]
  BY <1>4, <1>5
<1>7. \A d \in E : Height[d] <= Height[c]
  BY <1>2, <1>6
<1> QED
  BY <1>7 DEF E

\* A block comes from a peer as it was mined, or with the versions that are due
\* in the chain of the peer.
LEMMA ServedDue ==
  ASSUME body \in Bodies, NEW b \in Block, NEW v \in Served(b)
  PROVE  /\ v \in [Tx -> Version]
         /\ \A x \in Tx : v[x] # "orig" => \E top \in Block : \E c \in Block : Due(top, c, b, x, v[x])
<1>1. CASE v = [x \in Tx |-> "orig"]
  BY <1>1 DEF Version
<1>2. CASE v # [x \in Tx |-> "orig"]
  <2>1. PICK top \in Block : b \in Anc[top] /\ v = ServedBy(top, b)
    BY <1>2, UChainConstants DEF Served
  <2>2. ASSUME NEW x \in Tx
        PROVE  /\ v[x] \in Version
               /\ v[x] # "orig" => \E c \in Block : Due(top, c, b, x, v[x])
    <3> DEFINE E == Effective(top, Height[top], x)
               newest == CHOOSE c \in E : \A d \in E : Height[d] <= Height[c]
    <3>1. CASE x \notin TxsOf({b}) \/ E = {}
      <4>1. v[x] = "orig"
        BY Zenon, <2>1, <3>1 DEF ServedBy, VersionsAt, Expected
      <4> QED
        BY <4>1 DEF Version
    <3>2. CASE x \in TxsOf({b}) /\ E # {}
      <4>1. newest \in E
        BY Zenon, <3>2, NewestEffective
      <4>2. VersionsAt(top)[x] = IF FirstOp(newest, x) = "none" THEN "orig" ELSE FirstOp(newest, x)
        BY <3>2 DEF VersionsAt, Expected
      <4> HIDE DEF newest
      <4>3. /\ newest \in Anc[top] /\ newest \in Block /\ Height[newest] + Age <= Height[top]
            /\ Names(newest, x) /\ x \in TxsOf({c \in Anc[top] : Height[c] < Height[newest]})
        BY ZenonT(40), <4>1, BlockTree DEF Effective
      <4>4. /\ FirstOp(newest, x) \in {"hide", "replace"}
            /\ \E i \in DOMAIN body[newest] : /\ Target[body[newest][i]] = x
                                              /\ Op[body[newest][i]] = FirstOp(newest, x)
        BY ZenonT(40), <4>3, FirstOpIsOrdered
      <4>5. v[x] = FirstOp(newest, x)
        BY ZenonT(40), <2>1, <3>2, <4>2, <4>4 DEF ServedBy
      <4>6. PICK c \in Anc[top] : Height[c] < Height[newest] /\ x \in TxsOf({c})
        BY ZenonT(40), <4>3 DEF TxsOf
      <4>7. c = b
        BY <2>1, <3>2, <4>6, OneBlock
      <4> QED
        BY <4>3, <4>4, <4>5, <4>6, <4>7 DEF Due, Version
    <3> QED
      BY <3>1, <3>2
  <2>3. v = [x \in Tx |-> v[x]]
    BY <2>1 DEF ServedBy
  <2> QED
    BY <2>2, <2>3
<1> QED
  BY <1>1, <1>2

(***************************************************************************)
(* The inductive invariant                                                 *)
(***************************************************************************)
FilesType == body \in Bodies /\ disk \in [Block -> [Tx -> Version]]

UIInv == IInv /\ FilesType /\ OnlyOrdered

\* The order that explains version v of transaction x in the file of block b; f
\* is the bodies of the blocks.
Explained(f, b, x, v) ==
  \E p \in Block : \E c \in Anc[p] :
    /\ Height[b] < Height[c] /\ Height[c] + Age <= Height[p]
    /\ \E i \in DOMAIN f[c] : Target[f[c][i]] = x /\ Op[f[c][i]] = v

\* OnlyOrdered, before a step and after it.
LEMMA OnlyOrderedIs ==
  /\ OnlyOrdered <=> \A b \in Block, x \in Tx :
                       disk[b][x] # "orig" => Explained(body, b, x, disk[b][x])
  /\ OnlyOrdered' <=> \A b \in Block, x \in Tx :
                        disk'[b][x] # "orig" => Explained(body', b, x, disk'[b][x])
<1>1. OnlyOrdered <=> \A b \in Block, x \in Tx :
                        disk[b][x] # "orig" => Explained(body, b, x, disk[b][x])
  BY ZenonT(40) DEF OnlyOrdered, Explained
<1>2. OnlyOrdered' <=> \A b \in Block, x \in Tx :
                         disk'[b][x] # "orig" => Explained(body', b, x, disk'[b][x])
  BY ZenonT(40) DEF OnlyOrdered, Explained
<1> QED
  BY <1>1, <1>2

\* The block index develops as in ChainState; that a block may fail for its root
\* as well makes no difference to its invariant.
LEMMA IndexStep ==
  ASSUME IInv, [UNext]_allVars
  PROVE  IInv'
<1>1. ASSUME NEW b \in Block, UAcceptHeader(b) PROVE IInv'
  BY <1>1, AcceptHeaderIInv DEF UAcceptHeader
<1>2. ASSUME NEW t \in Threads, NEW b \in Block, NEW r \in BOOLEAN, UAcceptBlock(t, b, r)
      PROVE  IInv'
  BY <1>2, AcceptBlockIInv DEF UAcceptBlock
<1>3. ASSUME NEW t \in Threads, UFindMostWorkChain(t) PROVE IInv'
  BY <1>3, FindMostWorkChainIInv DEF UFindMostWorkChain
<1>4. ASSUME NEW t \in Threads, UDisconnectTip(t) PROVE IInv'
  BY <1>4, DisconnectTipIInv DEF UDisconnectTip
<1>5. ASSUME NEW t \in Threads, UConnectBlock(t) PROVE IInv'
  <2>1. ConnectTip(t) \/ ConnectTipInvalid(t)
    BY <1>5 DEF UConnectBlock
  <2> QED
    BY <2>1, ConnectTipIInv, ConnectTipInvalidIInv
<1>6. ASSUME NEW t \in Threads, UUpdateHotBlock(t) PROVE IInv'
  BY <1>6, UpdateHotBlockIInv DEF UUpdateHotBlock
<1>7. ASSUME NEW t \in Threads, NEW b \in Block, UInvalidateBlock(t, b) PROVE IInv'
  BY <1>7, InvalidateBlockIInv DEF UInvalidateBlock
<1>8. ASSUME NEW t \in Threads, NEW b \in Block, UReconsiderBlock(t, b) PROVE IInv'
  BY <1>8, ReconsiderBlockIInv, PreciousBlockIInv DEF UReconsiderBlock
<1>9. CASE UFlushStateToDisk
  BY <1>9, FlushStateToDiskIInv DEF UFlushStateToDisk
<1>10. CASE URestart
  BY <1>10, RestartIInv DEF URestart
<1>11. CASE UNCHANGED vars
  BY <1>11, UnchangedIInv
<1>12. ASSUME NEW x \in Tx, TxArrives(x) PROVE UNCHANGED vars
  BY <1>12 DEF TxArrives
<1>13. ASSUME NEW t \in Threads, CreateNewBlock(t) PROVE UNCHANGED vars
  BY <1>13 DEF CreateNewBlock
<1>14. ASSUME NEW t \in Threads, NEW level \in Levels, NEW depth \in Depths,
              VerifyDB(t, level, depth)
       PROVE  UNCHANGED vars
  BY <1>14 DEF VerifyDB
<1>15. OpenMerkelPatriciaTree \/ InitAtStart \/ UNCHANGED allVars => UNCHANGED vars
  BY DEF OpenMerkelPatriciaTree, InitAtStart, allVars
<1> QED
  BY <1>1, <1>2, <1>3, <1>4, <1>5, <1>6, <1>7, <1>8, <1>9, <1>10, <1>11, <1>12,
     <1>13, <1>14, <1>15 DEF UNext

\* The files change only when a block is stored, and in updateHotBlock.
FilesChange ==
  /\ body' = body
  /\ \/ disk' = disk
     \/ \E b \in Block \ haveData : \E v \in Served(b) : disk' = [disk EXCEPT ![b] = v]
     \/ ~(Height[tip] - Age <= 0) /\ disk' = Rewritten(HotBlock)

\* Every step changes the files in one of these ways, or not at all.
LEMMA FilesStep ==
  ASSUME [UNext]_allVars
  PROVE  FilesChange
<1>1. ASSUME NEW t \in Threads, NEW b \in Block, NEW r \in BOOLEAN, UAcceptBlock(t, b, r)
      PROVE  FilesChange
  BY <1>1 DEF UAcceptBlock, FilesChange
<1>2. ASSUME NEW t \in Threads, UUpdateHotBlock(t) PROVE FilesChange
  BY <1>2 DEF UUpdateHotBlock, FilesChange
<1>3. CASE UNCHANGED <<body, disk>>
  BY <1>3 DEF FilesChange
<1>4. ASSUME NEW b \in Block, UAcceptHeader(b) PROVE UNCHANGED <<body, disk>>
  BY <1>4 DEF UAcceptHeader, uvars
<1>5. ASSUME NEW x \in Tx, TxArrives(x) PROVE UNCHANGED <<body, disk>>
  BY ZenonT(40), <1>5 DEF TxArrives
<1>6. ASSUME NEW t \in Threads,
             \/ UFindMostWorkChain(t) \/ UDisconnectTip(t) \/ UConnectBlock(t) \/ CreateNewBlock(t)
      PROVE  UNCHANGED <<body, disk>>
  BY ZenonT(40), <1>6 DEF UFindMostWorkChain, UDisconnectTip, UConnectBlock, CreateNewBlock, uvars
<1>7. ASSUME NEW t \in Threads, NEW b \in Block,
             UInvalidateBlock(t, b) \/ UReconsiderBlock(t, b)
      PROVE  UNCHANGED <<body, disk>>
  BY <1>7 DEF UInvalidateBlock, UReconsiderBlock, uvars
<1>8. ASSUME NEW t \in Threads, NEW level \in Levels, NEW depth \in Depths,
             VerifyDB(t, level, depth)
      PROVE  UNCHANGED <<body, disk>>
  BY <1>8 DEF VerifyDB
<1>9. \/ UFlushStateToDisk \/ URestart \/ OpenMerkelPatriciaTree \/ InitAtStart
      \/ UNCHANGED allVars
      => UNCHANGED <<body, disk>>
  BY DEF UFlushStateToDisk, URestart, OpenMerkelPatriciaTree, InitAtStart, allVars, uvars
<1> QED
  BY <1>1, <1>2, <1>3, <1>4, <1>5, <1>6, <1>7, <1>8, <1>9 DEF UNext

\* A new node has every transaction as it was mined.
LEMMA InitUIInv == UInit => UIInv
<1> SUFFICES ASSUME UInit PROVE UIInv
  OBVIOUS
<1>1. IInv
  BY InitIInv DEF UInit
<1>2. FilesType /\ OnlyOrdered
  BY DEF UInit, FilesType, OnlyOrdered, Version
<1> QED
  BY <1>1, <1>2 DEF UIInv

\* Every step keeps the invariant.
LEMMA NextUIInv == UIInv /\ [UNext]_allVars => UIInv'
<1> SUFFICES ASSUME UIInv, [UNext]_allVars PROVE UIInv'
  OBVIOUS
<1>1. IInv'
  BY IndexStep DEF UIInv
<1>2. body' = body /\ body \in Bodies /\ disk \in [Block -> [Tx -> Version]] /\ tip \in Block
  BY ZenonT(40), FilesStep DEF FilesChange, UIInv, FilesType, IInv, TypeOK
<1>3. ASSUME NEW b \in Block, NEW x \in Tx, NEW v, NEW top \in Block, NEW c \in Block,
             Due(top, c, b, x, v)
      PROVE  Explained(body, b, x, v)
  BY ZenonT(40), <1>3 DEF Due, Explained
<1>4. \A b \in Block, x \in Tx : disk[b][x] # "orig" => Explained(body, b, x, disk[b][x])
  BY ZenonT(40), OnlyOrderedIs DEF UIInv
<1>5. ASSUME \A b \in Block, x \in Tx : disk'[b][x] # "orig" => Explained(body, b, x, disk'[b][x])
      PROVE  OnlyOrdered'
  BY ZenonT(40), <1>2, <1>5, OnlyOrderedIs
<1>6. CASE disk' = disk
  <2>1. OnlyOrdered'
    BY ZenonT(40), <1>4, <1>5, <1>6
  <2> QED
    BY ZenonT(40), <1>1, <1>2, <1>6, <2>1 DEF UIInv, FilesType
<1>7. ASSUME NEW b \in Block \ haveData, NEW v \in Served(b), disk' = [disk EXCEPT ![b] = v]
      PROVE  UIInv'
  <2>1. /\ v \in [Tx -> Version]
        /\ \A x \in Tx : v[x] # "orig" => \E top \in Block : \E c \in Block : Due(top, c, b, x, v[x])
    BY <1>2, ServedDue
  <2>2. \A a \in Block, x \in Tx : disk'[a][x] = IF a = b THEN v[x] ELSE disk[a][x]
    BY <1>2, <1>7
  <2>3. FilesType'
    BY ZenonT(40), <1>2, <1>7, <2>1 DEF FilesType
  <2>4. \A x \in Tx : v[x] # "orig" => Explained(body, b, x, v[x])
    BY ZenonT(40), <1>3, <2>1
  <2>5. OnlyOrdered'
    BY ZenonT(40), <1>4, <1>5, <2>2, <2>4
  <2> QED
    BY ZenonT(40), <1>1, <2>3, <2>5 DEF UIInv
<1>8. CASE ~(Height[tip] - Age <= 0) /\ disk' = Rewritten(HotBlock)
  <2>1. /\ disk' \in [Block -> [Tx -> Version]]
        /\ \A b \in Block, x \in Tx : disk'[b][x] # disk[b][x] =>
             Due(tip, HotBlock, b, x, disk'[b][x])
    BY ZenonT(40), <1>2, <1>8, RewrittenDue
  <2>2. \A c \in Anc[tip] : c \in Block
    BY ZenonT(40), <1>2, BlockTree
  <2>3. \A b \in Block, x \in Tx : disk'[b][x] # disk[b][x] => Explained(body, b, x, disk'[b][x])
    BY ZenonT(40), <1>2, <1>3, <2>1, <2>2 DEF Due
  <2>4. OnlyOrdered'
    BY ZenonT(40), <1>4, <1>5, <2>3
  <2> QED
    BY ZenonT(40), <1>1, <1>2, <2>1, <2>4 DEF UIInv, FilesType
<1> QED
  BY ZenonT(40), <1>6, <1>7, <1>8, FilesStep DEF FilesChange

\* Data is missing from a block file only if an order for it is in a higher block
\* that gets Age deep in some chain, and what replaces it is what the order says.
THEOREM DataLostOnlyOnOrder == USpec => []OnlyOrdered
<1>1. UInit => UIInv
  BY InitUIInv
<1>2. UIInv /\ [UNext]_allVars => UIInv'
  BY NextUIInv
<1>3. UIInv => OnlyOrdered
  BY DEF UIInv
<1> QED
  BY <1>1, <1>2, <1>3, PTL DEF USpec

\* Every rewriting of a block file carries out an order that is exactly Age deep
\* in the chain that is active when the file is written.
THEOREM RewritingIsDue == USpec => RewrittenWhenDue
<1> DEFINE Step ==
      \A b \in haveData, x \in Tx : disk'[b][x] # disk[b][x] =>
        \E c \in Anc[tip] :
          /\ Height[b] < Height[c] /\ Height[c] + Age = Height[tip]
          /\ \E i \in DOMAIN body[c] : Target[body[c][i]] = x /\ Op[body[c][i]] = disk'[b][x]
<1>1. UInit => UIInv
  BY InitUIInv
<1>2. UIInv /\ [UNext]_allVars => UIInv'
  BY NextUIInv
<1>3. UIInv /\ [UNext]_allVars => [Step]_allVars
  <2> SUFFICES ASSUME UIInv, [UNext]_allVars, NEW b \in haveData, NEW x \in Tx,
                      disk'[b][x] # disk[b][x]
               PROVE  \E c \in Anc[tip] :
                        /\ Height[b] < Height[c] /\ Height[c] + Age = Height[tip]
                        /\ \E i \in DOMAIN body[c] : /\ Target[body[c][i]] = x
                                                     /\ Op[body[c][i]] = disk'[b][x]
    OBVIOUS
  <2>1. /\ body \in Bodies /\ disk \in [Block -> [Tx -> Version]] /\ tip \in Block
        /\ b \in Block
    BY DEF UIInv, FilesType, IInv, TypeOK
  <2>2. ~(Height[tip] - Age <= 0) /\ disk' = Rewritten(HotBlock)
    <3>1. ASSUME NEW a \in Block \ haveData, NEW v, disk' = [disk EXCEPT ![a] = v]
          PROVE  disk'[b][x] = disk[b][x]
      BY <2>1, <3>1
    <3> QED
      BY <3>1, FilesStep DEF FilesChange
  <2> QED
    BY ZenonT(40), <2>1, <2>2, RewrittenDue DEF Due
<1> QED
  BY <1>1, <1>2, <1>3, PTL DEF USpec, RewrittenWhenDue
==============================================================================
