-------------------------- MODULE ChainStateProofs --------------------------
(*****************************************************************************)
(* What is proved of ChainState, for every finite tree of blocks, every set  *)
(* of threads, and every number of calls and restarts: the inductive         *)
(* invariant and its types, then the marks, the candidates, and the block    *)
(* index.                                                                    *)
(*****************************************************************************)
EXTENDS ChainState, BlockTreeProofs

(***************************************************************************)
(* The candidates                                                          *)
(***************************************************************************)
\* The sequence ids are integers.
SeqType == seq \in [Block -> Int]

\* CBlockIndexWorkComparator is a strict total order: the addresses break every
\* tie that the work and the sequence ids leave.
LEMMA WorseOrder ==
  ASSUME SeqType
  PROVE  /\ \A a, b \in Block : a = b \/ Worse(seq, a, b) \/ Worse(seq, b, a)
         /\ \A a, b, c \in Block : Worse(seq, a, b) /\ Worse(seq, b, c) => Worse(seq, a, c)
         /\ \A a, b \in Block : Worse(seq, a, b) => ~Worse(seq, b, a)
<1>1. /\ \A b \in Block : Height[b] \in Nat /\ Addr[b] \in Nat /\ seq[b] \in Int
      /\ \A a, b \in Block : Addr[a] = Addr[b] => a = b
  BY BlockTree, ChainStateConstants DEF SeqType
<1>2. \A a, b \in Block : a = b \/ Worse(seq, a, b) \/ Worse(seq, b, a)
  BY <1>1 DEF Worse
<1>3. \A a, b, c \in Block : Worse(seq, a, b) /\ Worse(seq, b, c) => Worse(seq, a, c)
  BY <1>1 DEF Worse
<1>4. \A a, b \in Block : Worse(seq, a, b) => ~Worse(seq, b, a)
  BY <1>1 DEF Worse
<1> QED
  BY <1>2, <1>3, <1>4

\* A set of candidates that is not empty has a best one: FindMostWorkChain finds
\* it at the end of setBlockIndexCandidates.
LEMMA BestOfIn ==
  ASSUME SeqType, NEW s \in SUBSET Block, s # {}
  PROVE  BestOf(s) \in s /\ \A a \in s : a = BestOf(s) \/ Worse(seq, a, BestOf(s))
<1> DEFINE Best(T) == {b \in T : \A a \in T : a = b \/ Worse(seq, a, b)}
           Good == {T \in SUBSET s : T = {} \/ Best(T) # {}}
<1>1. IsFiniteSet(s)
  BY FiniteSubset, BlockTree
<1>2. {} \in Good
  OBVIOUS
<1>3. ASSUME NEW T \in SUBSET s, T # {}, \A x \in T : T \ {x} \in Good
      PROVE  T \in Good
  <2>1. PICK x \in T : T \ {x} = {} \/ Best(T \ {x}) # {}
    BY Zenon, <1>3
  <2>2. x \in Block /\ T \ {x} \subseteq Block
    OBVIOUS
  <2>3. CASE T \ {x} = {}
    <3>1. x \in Best(T)
      BY <2>3
    <3> QED
      BY <3>1
  <2>4. CASE Best(T \ {x}) # {}
    <3>1. PICK b \in T \ {x} : \A a \in T \ {x} : a = b \/ Worse(seq, a, b)
      BY <2>4
    <3>2. CASE Worse(seq, b, x)
      <4>1. x \in Best(T)
        BY <2>2, <3>1, <3>2, WorseOrder
      <4> QED
        BY <4>1
    <3>3. CASE Worse(seq, x, b)
      <4>1. b \in Best(T)
        BY <3>1, <3>3
      <4> QED
        BY <4>1
    <3> QED
      BY <2>2, <3>1, <3>2, <3>3, WorseOrder
  <2> QED
    BY <2>1, <2>3, <2>4
<1> HIDE DEF Good
<1>4. \A T \in SUBSET s : T \in Good
  BY Zenon, <1>1, <1>2, <1>3, SubsetInduction
<1>8. \E b \in s : \A a \in s : a = b \/ Worse(seq, a, b)
  BY <1>4 DEF Good
<1> QED
  BY <1>8 DEF BestOf

(***************************************************************************)
(* The inductive invariant                                                 *)
(***************************************************************************)
\* Every block with an nChainTx has ancestors with one.
Rooted == Genesis \in chainTx /\ \A b \in chainTx : Anc[b] \subseteq chainTx

\* The target of a thread is a block with complete data; a thread that holds
\* cs_main has one.
Targets ==
  \A t \in Threads : /\ th[t].mostWork \in chainTx \union {Nil}
                     /\ th[t].pc = "step" => th[t].mostWork # Nil

\* The best block on disk has all its data there.
Recoverable ==
  /\ saved.failed \subseteq saved.known /\ saved.failedChild \subseteq saved.known
  /\ saved.haveData \subseteq saved.known /\ saved.haveData \subseteq haveData
  /\ Anc[saved.tip] \subseteq saved.haveData

IInv == TypeOK /\ Rooted /\ Targets /\ Recoverable

\* Two of the conjuncts are about data that most steps leave alone.
LEMMA DiskKept ==
  ASSUME Rooted, Recoverable, UNCHANGED <<chainTx, haveData, saved>>
  PROVE  Rooted' /\ Recoverable'
BY Zenon DEF Rooted, Recoverable

\* LoadGenesisBlock establishes the invariant.
LEMMA InitIInv == Init => IInv
<1> SUFFICES ASSUME Init PROVE IInv
  OBVIOUS
<1>1. TypeOK
  BY BlockTree, ChainStateConstants DEF Init, TypeOK, OnDisk, Thread, Idle
<1>2. Rooted /\ Targets /\ Recoverable
  BY BlockTree DEF Init, Rooted, Targets, Recoverable, Idle
<1> QED
  BY <1>1, <1>2 DEF IInv

\* A header alone adds to mapBlockIndex only.
LEMMA AcceptHeaderIInv ==
  ASSUME IInv, NEW b \in Block, AcceptHeader(b)
  PROVE  IInv'
<1>1. TypeOK'
  BY DEF IInv, TypeOK, AcceptHeader
<1>2. Rooted' /\ Targets' /\ Recoverable'
  BY DEF IInv, Rooted, Targets, Recoverable, AcceptHeader
<1> QED
  BY <1>1, <1>2 DEF IInv

\* The blocks that get an nChainTx had none, and their ancestors have one then.
LEMMA LinkedRooted ==
  ASSUME IInv, NEW b \in Block \ haveData, Prev[b] \in chainTx
  PROVE  /\ Linked(b) \subseteq haveData \union {b} /\ Linked(b) \intersect chainTx = {}
         /\ \A d \in Linked(b) : Anc[d] \subseteq chainTx \union Linked(b)
<1> USE DEF Above
<1>1. b # Genesis /\ Prev[b] \in Block
  BY BlockTree DEF IInv, TypeOK, Rooted
<1>2. Linked(b) \subseteq haveData \union {b} /\ Linked(b) \intersect chainTx = {}
  BY DEF IInv, TypeOK, Linked
<1>3. ASSUME NEW d \in Linked(b), NEW e \in Anc[d]
      PROVE  e \in chainTx \union Linked(b)
  <2>1. d \in Block /\ e \in Block /\ b \in Anc[d]
    BY BlockTree DEF IInv, TypeOK, Linked
  <2>2. CASE e \in Anc[Prev[b]]
    BY <2>2 DEF IInv, Rooted
  <2>3. CASE e \notin Anc[Prev[b]]
    <3>1. e \in unlinked \union {b}
      BY <2>3 DEF Linked
    <3>2. b \in Anc[e]
      <4>1. Anc[b] = {b} \union Anc[Prev[b]]
        BY <1>1, BlockTree
      <4> QED
        BY <2>1, <2>3, <4>1, AncLinear, AncSelf
    <3>3. Anc[e] \ Anc[Prev[b]] \subseteq unlinked \union {b}
      BY <2>1, AncTrans DEF Linked
    <3> QED
      BY <3>1, <3>2, <3>3 DEF Linked
  <2> QED
    BY <2>2, <2>3
<1> QED
  BY <1>2, <1>3

\* New sequence ids are integers, and blocks without a new one keep theirs.
LEMMA SequenceIdsType ==
  ASSUME IInv, NEW L \in SUBSET Block
  PROVE  /\ Cardinality(L) \in Nat
         /\ \A sq \in SequenceIds(L) : /\ sq \in [Block -> Int]
                                       /\ \A b \in Block \ L : sq[b] = seq[b]
<1>1. Cardinality(L) \in Nat
  BY Zenon, Counting, BlockTree
<1>2. ids.next \in Nat /\ seq \in [Block -> Int]
  BY DEF IInv, TypeOK
<1>3. ASSUME NEW sq \in SequenceIds(L)
      PROVE  sq \in [Block -> Int] /\ \A b \in Block \ L : sq[b] = seq[b]
  <2>1. PICK f \in [L -> ids.next .. ids.next + Cardinality(L) - 1] :
               sq = [b \in Block |-> IF b \in L THEN f[b] ELSE seq[b]]
    BY DEF SequenceIds
  <2>2. \A b \in L : f[b] \in Int
    BY <1>1, <1>2
  <2> QED
    BY <1>2, <2>1, <2>2
<1> QED
  BY <1>1, <1>3

\* The data of a block links it and what waited for it, or lets it wait.
LEMMA ReceivedIInv ==
  ASSUME IInv, NEW t \in Threads, NEW b \in Block \ haveData,
         known' = known \union {b}, ReceivedBlockTransactions(b),
         th' = [th EXCEPT ![t] = Activating("process")],
         UNCHANGED <<failed, failedChild, unlogged, tip, saved, csMain, count>>
  PROVE  IInv'
<1>1. CASE Prev[b] \in chainTx
  <2> DEFINE L == Linked(b)
  <2>1. /\ haveData' = haveData \union {b} /\ chainTx' = chainTx \union L
        /\ seq' \in SequenceIds(L) /\ ids' = [ids EXCEPT !.next = @ + Cardinality(L)]
        /\ cand' \subseteq cand \union L /\ unlinked' = unlinked \ L
    BY <1>1 DEF ReceivedBlockTransactions
  <2>2. /\ L \subseteq haveData \union {b} /\ L \intersect chainTx = {}
        /\ \A d \in L : Anc[d] \subseteq chainTx \union L
    BY <1>1, LinkedRooted
  <2>3. L \in SUBSET Block
    BY <2>2 DEF IInv, TypeOK
  <2> HIDE DEF L
  <2>4. seq' \in [Block -> Int] /\ Cardinality(L) \in Nat
    BY <2>1, <2>3, SequenceIdsType
  <2>5. ids' \in [next : Nat, reverse : Int, precious : Nat]
    BY <2>1, <2>4 DEF IInv, TypeOK
  <2>6. th' \in [Threads -> Thread]
    BY DEF IInv, TypeOK, Thread, Activating
  <2>7. TypeOK'
    BY <2>1, <2>2, <2>4, <2>5, <2>6 DEF IInv, TypeOK
  <2>8. Rooted'
    BY <2>1, <2>2 DEF IInv, Rooted
  <2>9. Targets' /\ Recoverable'
    BY <2>1 DEF IInv, TypeOK, Targets, Recoverable, Activating
  <2> QED
    BY <2>7, <2>8, <2>9 DEF IInv
<1>2. CASE Prev[b] \notin chainTx
  <2>1. /\ haveData' = haveData \union {b}
        /\ unlinked' \subseteq unlinked \union {b}
        /\ UNCHANGED <<chainTx, seq, ids, cand>>
    BY <1>2 DEF ReceivedBlockTransactions, Waiting
  <2>2. th' \in [Threads -> Thread]
    BY DEF IInv, TypeOK, Thread, Activating
  <2>3. TypeOK'
    BY <2>1, <2>2 DEF IInv, TypeOK
  <2>4. Rooted' /\ Targets' /\ Recoverable'
    BY <2>1 DEF IInv, TypeOK, Rooted, Targets, Recoverable, Activating
  <2> QED
    BY <2>3, <2>4 DEF IInv
<1> QED
  BY <1>1, <1>2

\* AcceptBlock keeps the invariant whether the block is unwanted, fails
\* ContextualCheckBlock, or is stored.
LEMMA AcceptBlockIInv ==
  ASSUME IInv, NEW t \in Threads, NEW b \in Block, NEW r \in BOOLEAN, AcceptBlock(t, b, r)
  PROVE  IInv'
<1> USE DEF AcceptBlock
<1>1. CASE Unwanted(b, r)
  <2>1. th' \in [Threads -> Thread]
    BY <1>1 DEF IInv, TypeOK, Thread, Activating
  <2>2. TypeOK'
    BY <1>1, <2>1 DEF IInv, TypeOK
  <2>3. Rooted' /\ Targets' /\ Recoverable'
    BY <1>1 DEF IInv, TypeOK, Rooted, Targets, Recoverable, Activating
  <2> QED
    BY <2>2, <2>3 DEF IInv
<1>2. CASE ~Unwanted(b, r) /\ b \in BadContext
  <2>1. TypeOK'
    BY <1>2 DEF IInv, TypeOK
  <2>2. Rooted' /\ Targets' /\ Recoverable'
    BY <1>2 DEF IInv, TypeOK, Rooted, Targets, Recoverable
  <2> QED
    BY <2>1, <2>2 DEF IInv
<1>3. CASE ~Unwanted(b, r) /\ b \notin BadContext
  <2>1. b \in Block \ haveData
    BY <1>3 DEF Unwanted
  <2> QED
    BY <1>3, <2>1, ReceivedIInv
<1> QED
  BY <1>1, <1>2, <1>3

\* What FindMostWorkChain returns has complete data.
LEMMA MostWorkType ==
  ASSUME IInv, NEW t \in Threads
  PROVE  MostWork(t) \in chainTx \union {Nil}
<1>1. Usable \subseteq chainTx /\ Usable \in SUBSET Block
  BY DEF Usable, IInv, TypeOK
<1>2. SeqType
  BY DEF SeqType, IInv, TypeOK
<1>3. Usable # {} => BestOf(Usable) \in chainTx
  BY <1>1, <1>2, BestOfIn
<1> QED
  BY <1>3 DEF MostWork, IInv, Targets

\* FindMostWorkChain only takes candidates away and marks known blocks; the
\* target it hands over has complete data.
LEMMA FindMostWorkChainIInv ==
  ASSUME IInv, NEW t \in Threads, FindMostWorkChain(t)
  PROVE  IInv'
<1> USE DEF FindMostWorkChain
<1> DEFINE dropped == UNION {DroppedWith(c) : c \in PassedOver}
<1>1. dropped \subseteq chainTx
  BY DEF DroppedWith, PassedOver, Unusable, Path, Above, IInv, TypeOK, Rooted
<1>2. cand' \subseteq cand /\ failedChild' \subseteq failedChild \union dropped
  OBVIOUS
<1>7. unlogged' \subseteq failedChild'
  BY DEF IInv, TypeOK
<1> HIDE DEF dropped
<1>3. MostWork(t) \in chainTx \union {Nil}
  BY MostWorkType
<1>4. th' \in [Threads -> Thread] /\ csMain' \in Threads \union {Nil} /\ Targets'
  <2>1. CASE MostWork(t) \in {Nil, tip}
    BY <2>1 DEF IInv, TypeOK, Thread, Finished, Idle, Targets
  <2>2. CASE MostWork(t) \notin {Nil, tip}
    BY <2>2, <1>3 DEF IInv, TypeOK, Thread, Targets
  <2> QED
    BY <2>1, <2>2
<1>5. TypeOK'
  BY <1>1, <1>2, <1>4, <1>7 DEF IInv, TypeOK
<1>6. Rooted' /\ Recoverable'
  BY DiskKept DEF IInv
<1> QED
  BY <1>4, <1>5, <1>6 DEF IInv

\* A step of ActivateBestChain ends with a target that has complete data.
LEMMA StepEndsIInv ==
  ASSUME IInv, NEW t \in Threads, NEW now, NEW m \in chainTx \union {Nil},
         StepEnds(t, now, m), chainTx' = chainTx
  PROVE  th' \in [Threads -> Thread] /\ csMain' \in Threads \union {Nil} /\ Targets'
<1> USE DEF StepEnds
<1>1. CASE now = m
  BY <1>1 DEF IInv, TypeOK, Thread, Finished, Idle, Targets
<1>2. CASE now # m
  BY <1>2 DEF IInv, TypeOK, Thread, Targets
<1> QED
  BY <1>1, <1>2

\* The parent of the tip has complete data, too.
LEMMA DisconnectTipIInv ==
  ASSUME IInv, NEW t \in Threads, DisconnectTip(t)
  PROVE  IInv' /\ tip # Genesis
<1> USE DEF DisconnectTip
<1> DEFINE m == th[t].mostWork
<1>1. m \in chainTx /\ tip \notin Anc[m] /\ tip \in chainTx /\ chainTx \subseteq Block
  BY DEF IInv, TypeOK, Targets
<1>2. tip # Genesis
  BY <1>1, AncGenesis
<1>3. tip' \in chainTx
  <2>1. Prev[tip] \in Block /\ Anc[tip] = {tip} \union Anc[Prev[tip]]
    BY <1>1, <1>2, BlockTree
  <2>2. Prev[tip] \in Anc[tip]
    BY <2>1, AncSelf
  <2> QED
    BY <1>1, <2>2 DEF IInv, Rooted
<1>4. UNCHANGED <<known, haveData, chainTx, failed, failedChild, unlogged, seq, cand, unlinked,
                  saved, ids, count>>
  BY DEF index
<1>5. th' \in [Threads -> Thread] /\ csMain' \in Threads \union {Nil} /\ Targets'
  <2>1. CASE tip' = m
    <3>1. StepEnds(t, tip', tip')
      BY <2>1
    <3> QED
      BY <1>3, <1>4, <3>1, StepEndsIInv
  <2>2. CASE tip' # m
    BY <1>4, <2>2 DEF IInv, TypeOK, Targets
  <2> QED
    BY <2>1, <2>2
<1>6. TypeOK'
  BY <1>3, <1>4, <1>5 DEF IInv, TypeOK
<1>7. Rooted' /\ Recoverable'
  BY <1>4, DiskKept DEF IInv
<1> QED
  BY <1>2, <1>5, <1>6, <1>7 DEF IInv

\* The block that is connected next is the child of the tip on the way to the
\* target.
LEMMA NextBlockIn ==
  ASSUME IInv, NEW t \in Threads, Connecting(t)
  PROVE  /\ NextBlock(t) \in chainTx \ {Genesis} /\ Prev[NextBlock(t)] = tip
         /\ th[t].mostWork \in chainTx
<1> DEFINE m == th[t].mostWork
<1>1. m \in chainTx /\ chainTx \subseteq Block /\ tip \in Block /\ tip \in Anc[m] \ {m}
  BY DEF IInv, TypeOK, Targets, Connecting
<1>2. \E b \in Anc[m] \ Anc[tip] : Prev[b] = tip
  BY <1>1, NextExists
<1>3. NextBlock(t) \in Anc[m] \ Anc[tip] /\ Prev[NextBlock(t)] = tip
  BY <1>2 DEF NextBlock, Above
<1>4. NextBlock(t) # Genesis
  BY <1>1, <1>3, AncGenesis
<1> QED
  BY <1>1, <1>3, <1>4 DEF IInv, Rooted

\* A block on the way to a target with complete data has complete data.
LEMMA ConnectTipIInv ==
  ASSUME IInv, NEW t \in Threads, ConnectTip(t)
  PROVE  IInv'
<1> USE DEF ConnectTip
<1>1. tip' \in chainTx /\ th[t].mostWork \in chainTx
  BY NextBlockIn
<1>2. th' \in [Threads -> Thread] /\ csMain' \in Threads \union {Nil} /\ Targets'
  <2>1. CASE tip' = th[t].mostWork \/ Height[tip'] > Height[th[t].oldTip]
    BY <1>1, <2>1, StepEndsIInv
  <2>2. CASE ~(tip' = th[t].mostWork \/ Height[tip'] > Height[th[t].oldTip])
    BY <2>2 DEF IInv, TypeOK, Targets
  <2> QED
    BY <2>1, <2>2
<1>3. cand' \subseteq cand
  BY DEF Prune
<1>4. UNCHANGED <<known, haveData, chainTx, failed, failedChild, unlogged, seq, unlinked, saved,
                  ids, count>>
  OBVIOUS
<1> HIDE DEF ConnectTip
<1>5. TypeOK'
  BY ZenonT(20), <1>1, <1>2, <1>3, <1>4 DEF IInv, TypeOK
<1>6. Rooted' /\ Recoverable'
  BY <1>4, DiskKept DEF IInv
<1> QED
  BY <1>2, <1>5, <1>6 DEF IInv

\* A block that fails ConnectBlock is known; the tip stays.
LEMMA ConnectTipInvalidIInv ==
  ASSUME IInv, NEW t \in Threads, ConnectTipInvalid(t)
  PROVE  IInv'
<1> USE DEF ConnectTipInvalid
<1>1. NextBlock(t) \in chainTx
  BY NextBlockIn
<1>2. th' \in [Threads -> Thread] /\ csMain' \in Threads \union {Nil} /\ Targets'
  BY StepEndsIInv
<1>3. /\ failed' = failed \union {NextBlock(t)} /\ cand' \subseteq cand /\ unlogged' \subseteq unlogged
      /\ UNCHANGED <<known, haveData, chainTx, failedChild, seq, unlinked, tip, saved, ids, count>>
  OBVIOUS
<1> HIDE DEF ConnectTipInvalid
<1>4. TypeOK'
  BY ZenonT(20), <1>1, <1>2, <1>3 DEF IInv, TypeOK
<1>5. Rooted' /\ Recoverable'
  BY <1>3, DiskKept DEF IInv
<1> QED
  BY <1>2, <1>4, <1>5 DEF IInv

\* updateHotBlock leaves the block index alone.
LEMMA UpdateHotBlockIInv ==
  ASSUME IInv, NEW t \in Threads, UpdateHotBlock(t)
  PROVE  IInv'
<1> USE DEF UpdateHotBlock, index
<1>1. th' \in [Threads -> Thread] /\ Targets'
  BY DEF IInv, TypeOK, Thread, Idle, Targets
<1>2. TypeOK'
  BY ZenonT(20), <1>1 DEF IInv, TypeOK
<1>3. Rooted' /\ Recoverable'
  BY DiskKept DEF IInv
<1> QED
  BY <1>1, <1>2, <1>3 DEF IInv

\* What the RPCs have in common.
LEMMA RpcType ==
  ASSUME IInv, NEW t \in Threads, NEW name, Rpc(t, name), chainTx' = chainTx
  PROVE  /\ th' \in [Threads -> Thread] /\ Targets'
         /\ count' \in [rpcs : 0 .. MaxRpcs, restarts : 0 .. MaxRestarts]
         /\ UNCHANGED <<csMain, saved>>
<1> USE DEF Rpc
<1>1. th' \in [Threads -> Thread] /\ Targets'
  BY DEF IInv, TypeOK, Thread, Activating, Targets
<1>2. count' \in [rpcs : 0 .. MaxRpcs, restarts : 0 .. MaxRestarts]
  BY ChainStateConstants DEF IInv, TypeOK
<1> QED
  BY <1>1, <1>2

\* invalidateblock lowers the tip to a block with complete data, and refills the
\* candidates with such blocks.
LEMMA InvalidateBlockIInv ==
  ASSUME IInv, NEW t \in Threads, NEW b \in Block, InvalidateBlock(t, b)
  PROVE  IInv'
<1> USE DEF InvalidateBlock
<1> DEFINE gone == IF b \in Anc[tip] THEN Above(Prev[b], tip) ELSE {}
<1>1. /\ th' \in [Threads -> Thread] /\ Targets'
      /\ count' \in [rpcs : 0 .. MaxRpcs, restarts : 0 .. MaxRestarts]
      /\ UNCHANGED <<csMain, saved>>
  BY RpcType
<1>2. gone \subseteq chainTx
  BY DEF Above, IInv, TypeOK, Rooted
<1>3. tip' \in chainTx
  <2>1. b \in Anc[tip] => Prev[b] \in Anc[b] /\ b \in chainTx
    BY BlockTree, AncSelf DEF IInv, TypeOK, Rooted
  <2> QED
    BY <2>1 DEF IInv, TypeOK, Rooted
<1>4. cand' \subseteq chainTx
  <2>1. cand' \subseteq cand \union Refill(tip')
    OBVIOUS
  <2> HIDE DEF InvalidateBlock
  <2>2. cand \subseteq chainTx
    BY DEF IInv, TypeOK
  <2> QED
    BY <2>1, <2>2 DEF Refill
<1>5. /\ b \in known /\ failed' = failed \union {b} /\ failedChild' = failedChild \union gone
      /\ unlogged' \subseteq unlogged
      /\ UNCHANGED <<known, haveData, chainTx, seq, unlinked, ids>>
  OBVIOUS
<1> HIDE DEF InvalidateBlock, gone
<1>6. TypeOK'
  BY ZenonT(20), <1>1, <1>2, <1>3, <1>4, <1>5 DEF IInv, TypeOK
<1>7. Rooted' /\ Recoverable'
  BY <1>1, <1>5, DiskKept DEF IInv
<1> QED
  BY <1>1, <1>6, <1>7 DEF IInv

\* reconsiderblock takes marks away and adds candidates with complete data.
LEMMA ReconsiderBlockIInv ==
  ASSUME IInv, NEW t \in Threads, NEW b \in Block, ReconsiderBlock(t, b)
  PROVE  IInv'
<1>1. /\ th' \in [Threads -> Thread] /\ Targets'
      /\ count' \in [rpcs : 0 .. MaxRpcs, restarts : 0 .. MaxRestarts]
      /\ UNCHANGED <<csMain, saved>>
  BY RpcType DEF ReconsiderBlock
<1>2. /\ failed' \subseteq failed /\ failedChild' \subseteq failedChild /\ cand' \subseteq chainTx
      /\ unlogged' \subseteq failedChild'
  BY DEF ReconsiderBlock, IInv, TypeOK
<1>3. TypeOK'
  BY <1>1, <1>2 DEF ReconsiderBlock, IInv, TypeOK
<1>4. Rooted' /\ Recoverable'
  BY <1>1, DiskKept DEF ReconsiderBlock, IInv
<1> QED
  BY <1>1, <1>3, <1>4 DEF IInv

\* preciousblock changes a sequence id and prunes.
LEMMA PreciousBlockIInv ==
  ASSUME IInv, NEW t \in Threads, NEW b \in Block, PreciousBlock(t, b)
  PROVE  IInv'
<1> USE DEF PreciousBlock
<1>1. /\ th' \in [Threads -> Thread] /\ Targets'
      /\ count' \in [rpcs : 0 .. MaxRpcs, restarts : 0 .. MaxRestarts]
      /\ UNCHANGED <<csMain, saved>>
  BY RpcType
<1>2. /\ seq' \in [Block -> Int] /\ cand' \subseteq chainTx
      /\ ids' \in [next : Nat, reverse : Int, precious : Nat]
  <2> DEFINE r == IF Height[tip] > ids.precious THEN -1 ELSE ids.reverse
  <2>1. /\ seq' = [seq EXCEPT ![b] = r]
        /\ ids' = [next |-> ids.next, reverse |-> r - 1, precious |-> Height[tip]]
    OBVIOUS
  <2>2. cand' \subseteq chainTx
    BY DEF Prune, IInv, TypeOK
  <2> HIDE DEF PreciousBlock
  <2>3. /\ tip \in Block /\ seq \in [Block -> Int]
        /\ ids.next \in Nat /\ ids.reverse \in Int
    BY DEF IInv, TypeOK
  <2>4. Height[tip] \in Nat
    BY <2>3, BlockTree
  <2>5. r \in Int
    BY <2>3
  <2> HIDE DEF r
  <2> QED
    BY <2>1, <2>2, <2>3, <2>4, <2>5
<1>3. UNCHANGED <<known, haveData, chainTx, failed, failedChild, unlogged, unlinked, tip>>
  OBVIOUS
<1> HIDE DEF PreciousBlock
<1>4. TypeOK'
  BY ZenonT(20), <1>1, <1>2, <1>3 DEF IInv, TypeOK
<1>5. Rooted' /\ Recoverable'
  BY <1>1, <1>3, DiskKept DEF IInv
<1> QED
  BY <1>1, <1>4, <1>5 DEF IInv

\* Whichever best block is written, its data is in the index that is written.
LEMMA FlushStateToDiskIInv ==
  ASSUME IInv, FlushStateToDisk
  PROVE  IInv'
<1> USE DEF FlushStateToDisk
<1>1. PICK best \in {tip, saved.tip}, skipped \in SUBSET Skippable :
        /\ saved' = [known |-> known, haveData |-> haveData, failed |-> failed,
                     failedChild |-> failedChild \ skipped, tip |-> best]
        /\ unlogged' = skipped
  OBVIOUS
<1>2. best \in Block /\ Anc[best] \subseteq haveData
  BY DEF IInv, TypeOK, OnDisk, Rooted, Recoverable
<1>3. TypeOK'
  BY <1>1, <1>2 DEF IInv, TypeOK, OnDisk, Skippable
<1>4. Recoverable'
  BY <1>1, <1>2 DEF IInv, TypeOK, Recoverable
<1>5. Rooted' /\ Targets'
  BY DEF IInv, Rooted, Targets
<1> QED
  BY <1>3, <1>4, <1>5 DEF IInv

\* What is on disk is enough to start from.
LEMMA RestartIInv ==
  ASSUME IInv, Restart
  PROVE  IInv'
<1> USE DEF Restart
<1>1. th' \in [Threads -> Thread] /\ Targets'
  BY DEF Thread, Activating, Idle, Targets
<1>2. count' \in [rpcs : 0 .. MaxRpcs, restarts : 0 .. MaxRestarts]
  BY ChainStateConstants DEF IInv, TypeOK
<1>3. saved.tip \in Block /\ haveData' \subseteq Block /\ known' \subseteq Block
  BY DEF IInv, TypeOK, OnDisk
<1>4. tip' \in chainTx'
  BY <1>3, AncSelf DEF IInv, Recoverable
<1>5. Rooted'
  <2>1. \A b \in chainTx' : Anc[b] \subseteq chainTx'
    BY <1>3, AncTrans
  <2>2. Genesis \in Anc[saved.tip]
    BY <1>3, AncGenesis
  <2> QED
    BY <1>4, <2>1, <2>2 DEF Rooted
<1>6. cand' \subseteq chainTx'
  BY DEF Prune
<1>7. seq' \in [Block -> Int] /\ ids' \in [next : Nat, reverse : Int, precious : Nat]
  OBVIOUS
<1>8. unlinked' \subseteq haveData' \ chainTx'
  <2>1. ASSUME NEW b \in haveData' \ {Genesis}, b \in chainTx'
        PROVE  Prev[b] \in chainTx'
    <3>1. b \in Block /\ Prev[b] \in Block /\ Anc[b] = {b} \union Anc[Prev[b]]
      BY <1>3, BlockTree
    <3> QED
      BY <3>1, <2>1, AncSelf
  <2> QED
    BY <2>1
<1>9. TypeOK'
  BY <1>1, <1>2, <1>3, <1>4, <1>6, <1>7, <1>8 DEF IInv, TypeOK, Recoverable
<1>10. Recoverable'
  BY DEF IInv, Recoverable
<1> QED
  BY <1>1, <1>5, <1>9, <1>10 DEF IInv

\* Stuttering.
LEMMA UnchangedIInv == IInv /\ UNCHANGED vars => IInv'
BY DEF IInv, vars, index, TypeOK, Rooted, Targets, Recoverable

\* Every step keeps the invariant.
LEMMA NextIInv == IInv /\ [Next]_vars => IInv'
<1> SUFFICES ASSUME IInv, [Next]_vars PROVE IInv'
  OBVIOUS
<1>1. ASSUME NEW b \in Block, AcceptHeader(b) PROVE IInv'
  BY <1>1, AcceptHeaderIInv
<1>2. ASSUME NEW t \in Threads, NEW b \in Block, NEW r \in BOOLEAN, AcceptBlock(t, b, r)
      PROVE  IInv'
  BY <1>2, AcceptBlockIInv
<1>3. ASSUME NEW t \in Threads, Steps(t) PROVE IInv'
  <2>1. CASE FindMostWorkChain(t)
    BY <2>1, FindMostWorkChainIInv
  <2>2. CASE DisconnectTip(t)
    BY <2>2, DisconnectTipIInv
  <2>3. CASE ConnectBlock(t)
    BY <2>3, ConnectTipIInv, ConnectTipInvalidIInv DEF ConnectBlock
  <2>4. CASE UpdateHotBlock(t)
    BY <2>4, UpdateHotBlockIInv
  <2> QED
    BY <1>3, <2>1, <2>2, <2>3, <2>4 DEF Steps
<1>4. ASSUME NEW t \in Threads, NEW b \in Block,
             InvalidateBlock(t, b) \/ ReconsiderBlock(t, b) \/ PreciousBlock(t, b)
      PROVE  IInv'
  BY <1>4, InvalidateBlockIInv, ReconsiderBlockIInv, PreciousBlockIInv
<1>5. CASE FlushStateToDisk
  BY <1>5, FlushStateToDiskIInv
<1>6. CASE Restart
  BY <1>6, RestartIInv
<1>7. CASE UNCHANGED vars
  BY <1>7, UnchangedIInv
<1> QED
  BY <1>1, <1>2, <1>3, <1>4, <1>5, <1>6, <1>7 DEF Next, Steps

\* The types, and what they say of the relations between the flags: candidates
\* have complete data, blocks in mapBlocksUnlinked do not, and the tip has its
\* data and that of its ancestors, after every restart as well.
THEOREM TypeCorrect == Spec => []TypeOK
<1>1. Init => IInv
  BY InitIInv
<1>2. IInv /\ [Next]_vars => IInv'
  BY NextIInv
<1>3. IInv => TypeOK
  BY DEF IInv
<1> QED
  BY <1>1, <1>2, <1>3, PTL DEF Spec

(***************************************************************************)
(* What the three RPCs leave true of the block index: the active chain is  *)
(* valid as long as invalidateblock is not used, the candidates are not    *)
(* worse than the tip as long as preciousblock is not used, and nChainTx,  *)
(* mapBlocksUnlinked and the marks are right as long as reconsiderblock is *)
(* not used; then what the candidates and the best chain rest on.          *)
(***************************************************************************)
\* The blocks that the consensus rules exclude.
Excluded == Invalid \union BadContext

\* Without invalidateblock a mark has its cause in an excluded block, in memory
\* and on disk, and the active chain has none.
MarksJustified ==
  /\ haveData \intersect BadContext = {}
  /\ Anc[tip] \intersect Excluded = {} /\ Anc[saved.tip] \intersect Excluded = {}
  /\ failed \subseteq Excluded /\ saved.failed \subseteq Excluded
  /\ \A b \in failedChild \union saved.failedChild : Anc[b] \intersect Excluded # {}

\* FindMostWorkChain passes a mark on to descendants of marked blocks only.
LEMMA DroppedHaveCause ==
  ASSUME IInv, NEW c \in Unusable, NEW b \in DroppedWith(c)
  PROVE  b \in Block /\ \E f \in FailedMask : f \in Anc[b] /\ Anc[f] \subseteq Anc[b]
<1>1. PICK f \in Path(c) \intersect FailedMask : TRUE
  BY DEF Unusable
<1>2. /\ c \in Block /\ f \in Anc[c] /\ b \in Anc[c] /\ f \in Block /\ b \in Block
      /\ Height[f] <= Height[b]
  BY <1>1, BlockTree DEF Unusable, DroppedWith, Path, Above, IInv, TypeOK
<1>3. Height[f] \in Nat /\ Height[b] \in Nat
  BY <1>2, BlockTree
<1>4. f \in Anc[b]
  BY <1>2, <1>3, AncLinear, AncHeight, AncSelf
<1>5. Anc[f] \subseteq Anc[b]
  BY <1>2, <1>4, AncTrans
<1> QED
  BY <1>1, <1>2, <1>4, <1>5

\* Marks stay justified in FindMostWorkChain.
LEMMA MarksFindMostWorkChain ==
  ASSUME IInv, MarksJustified, NEW t \in Threads, FindMostWorkChain(t)
  PROVE  MarksJustified'
<1> USE DEF FindMostWorkChain
<1> DEFINE dropped == UNION {DroppedWith(c) : c \in PassedOver}
<1>1. ASSUME NEW b \in dropped
      PROVE  Anc[b] \intersect Excluded # {}
  <2>1. PICK c \in Unusable : b \in DroppedWith(c)
    BY DEF PassedOver
  <2> QED
    BY <2>1, DroppedHaveCause DEF FailedMask, MarksJustified
<1>2. failedChild' \subseteq failedChild \union dropped
  OBVIOUS
<1> HIDE DEF dropped
<1> QED
  BY <1>1, <1>2 DEF MarksJustified

\* ConnectBlock marks, and keeps out of the chain, what the rules exclude.
LEMMA MarksConnectBlock ==
  ASSUME IInv, MarksJustified, NEW t \in Threads, ConnectBlock(t)
  PROVE  MarksJustified'
<1>1. NextBlock(t) \in chainTx \ {Genesis} /\ Prev[NextBlock(t)] = tip
  BY NextBlockIn DEF ConnectBlock
<1>2. CASE NextBlock(t) \notin Invalid /\ ConnectTip(t)
  <2>1. NextBlock(t) \notin Excluded
    BY <1>1, <1>2 DEF Excluded, MarksJustified, IInv, TypeOK
  <2>2. Anc[NextBlock(t)] = {NextBlock(t)} \union Anc[tip]
    BY <1>1, BlockTree DEF IInv, TypeOK
  <2> QED
    BY <1>2, <2>1, <2>2 DEF ConnectTip, MarksJustified
<1>3. CASE NextBlock(t) \in Invalid /\ ConnectTipInvalid(t)
  BY <1>3 DEF ConnectTipInvalid, MarksJustified, Excluded
<1> QED
  BY <1>2, <1>3 DEF ConnectBlock

\* Every step but invalidateblock keeps the marks justified.
LEMMA MarksNext ==
  ASSUME "invalidate" \notin Rpcs, IInv, MarksJustified, [Next]_vars
  PROVE  MarksJustified'
<1>1. ASSUME NEW b \in Block, AcceptHeader(b) PROVE MarksJustified'
  BY <1>1 DEF AcceptHeader, MarksJustified
<1>2. ASSUME NEW t \in Threads, NEW b \in Block, NEW r \in BOOLEAN, AcceptBlock(t, b, r)
      PROVE  MarksJustified'
  <2>1. failed' \subseteq failed \union BadContext /\ haveData' \subseteq haveData \union (Block \ BadContext)
    BY <1>2 DEF AcceptBlock, ReceivedBlockTransactions
  <2> QED
    BY <1>2, <2>1 DEF AcceptBlock, Excluded, MarksJustified
<1>3. ASSUME NEW t \in Threads, Steps(t) PROVE MarksJustified'
  <2>1. CASE FindMostWorkChain(t)
    BY <2>1, MarksFindMostWorkChain
  <2>2. CASE DisconnectTip(t)
    <3>1. tip \in Block \ {Genesis}
      BY <2>2, DisconnectTipIInv DEF IInv, TypeOK
    <3>2. Anc[tip'] \subseteq Anc[tip]
      BY <2>2, <3>1, BlockTree DEF DisconnectTip
    <3> QED
      BY <2>2, <3>2 DEF DisconnectTip, index, MarksJustified
  <2>3. CASE ConnectBlock(t)
    BY <2>3, MarksConnectBlock
  <2>4. CASE UpdateHotBlock(t)
    BY <2>4 DEF UpdateHotBlock, index, MarksJustified
  <2> QED
    BY <1>3, <2>1, <2>2, <2>3, <2>4 DEF Steps
<1>4. ASSUME NEW t \in Threads, NEW b \in Block,
             InvalidateBlock(t, b) \/ ReconsiderBlock(t, b) \/ PreciousBlock(t, b)
      PROVE  MarksJustified'
  <2>1. ~InvalidateBlock(t, b)
    BY DEF InvalidateBlock, Rpc
  <2>2. CASE ReconsiderBlock(t, b)
    BY <2>2 DEF ReconsiderBlock, Rpc, MarksJustified
  <2>3. CASE PreciousBlock(t, b)
    BY <2>3 DEF PreciousBlock, Rpc, MarksJustified
  <2> QED
    BY <1>4, <2>1, <2>2, <2>3
<1>5. CASE FlushStateToDisk
  <2>1. UNCHANGED <<haveData, failed, failedChild, tip>>
    BY <1>5 DEF FlushStateToDisk
  <2>2. saved'.failed = failed /\ saved'.failedChild \subseteq failedChild /\ saved'.tip \in {tip, saved.tip}
    BY <1>5 DEF FlushStateToDisk
  <2> QED
    BY <2>1, <2>2 DEF MarksJustified
<1>6. CASE Restart
  BY <1>6 DEF Restart, IInv, Recoverable, MarksJustified
<1>7. CASE UNCHANGED vars
  BY <1>7 DEF vars, index, MarksJustified
<1> QED
  BY <1>1, <1>2, <1>3, <1>4, <1>5, <1>6, <1>7 DEF Next, Steps

\* As long as invalidateblock is not used, the active chain has no block that is
\* marked invalid: for any number of threads with stale targets, any order of
\* arrival, reconsiderblock, preciousblock, and crashes between the writes of the
\* block index and of the coins.
THEOREM ActiveChainIsValid ==
  ASSUME "invalidate" \notin Rpcs
  PROVE  Spec => []ActiveChainValid
<1>1. Init => IInv /\ MarksJustified
  <2> SUFFICES ASSUME Init PROVE MarksJustified
    BY InitIInv
  <2> QED
    BY BlockTree, ChainStateConstants DEF Init, MarksJustified, Excluded
<1>2. (IInv /\ MarksJustified) /\ [Next]_vars => (IInv /\ MarksJustified)'
  BY NextIInv, MarksNext
<1>3. IInv /\ MarksJustified => ActiveChainValid
  <2> SUFFICES ASSUME IInv, MarksJustified, NEW b \in Anc[tip] \intersect FailedMask
               PROVE  FALSE
    BY DEF ActiveChainValid
  <2>1. Anc[b] \subseteq Anc[tip]
    BY AncTrans DEF IInv, TypeOK
  <2> QED
    BY <2>1 DEF FailedMask, MarksJustified
<1> QED
  BY <1>1, <1>2, <1>3, PTL DEF Spec

-----------------------------------------------------------------------------
(***************************************************************************)
(* The candidates                                                          *)
(***************************************************************************)
\* Inductive, and more than CandidatesSound says: it holds between the steps of
\* ActivateBestChain as well.
Pruned == \A b \in cand : ~Worse(seq, b, tip)

\* A tip that is lower is better than no candidate.
LEMMA LowerTip ==
  ASSUME IInv, Pruned, NEW now \in Block, Height[now] <= Height[tip], now = tip \/ Height[now] < Height[tip]
  PROVE  \A b \in cand : ~Worse(seq, b, now)
<1>1. tip \in Block /\ \A b \in cand : b \in Block
  BY DEF IInv, TypeOK
<1>2. \A b \in Block : Height[b] \in Nat
  BY BlockTree
<1> QED
  BY <1>1, <1>2 DEF Pruned, Worse

\* ReceivedBlockTransactions adds no candidate that sorts before the tip.
LEMMA PrunedReceived ==
  ASSUME IInv, Pruned, NEW b \in Block \ haveData, ReceivedBlockTransactions(b), tip' = tip
  PROVE  Pruned'
<1>1. CASE Prev[b] \in chainTx
  <2> DEFINE L == Linked(b)
  <2>1. /\ seq' \in SequenceIds(L)
        /\ cand' = cand \union {d \in L : ~Worse(seq', d, tip)}
    BY <1>1 DEF ReceivedBlockTransactions
  <2>2. L \intersect chainTx = {} /\ L \in SUBSET Block
    BY <1>1, LinkedRooted DEF IInv, TypeOK
  <2> HIDE DEF L
  <2>3. \A d \in chainTx : seq'[d] = seq[d]
    BY <2>1, <2>2, SequenceIdsType DEF IInv, TypeOK
  <2>4. \A d \in cand : seq'[d] = seq[d] /\ seq'[tip] = seq[tip]
    BY <2>3 DEF IInv, TypeOK
  <2> QED
    BY <2>1, <2>4 DEF Pruned, Worse
<1>2. CASE Prev[b] \notin chainTx
  BY <1>2 DEF ReceivedBlockTransactions, Pruned
<1> QED
  BY <1>1, <1>2

\* Every step but preciousblock keeps the candidates at least as good as the tip.
LEMMA PrunedNext ==
  ASSUME "precious" \notin Rpcs, IInv, Pruned, [Next]_vars
  PROVE  Pruned'
<1>1. ASSUME NEW b \in Block, AcceptHeader(b) PROVE Pruned'
  BY <1>1 DEF AcceptHeader, Pruned
<1>2. ASSUME NEW t \in Threads, NEW b \in Block, NEW r \in BOOLEAN, AcceptBlock(t, b, r)
      PROVE  Pruned'
  <2>1. CASE UNCHANGED <<cand, seq, tip>>
    BY <2>1 DEF Pruned
  <2>2. CASE b \notin haveData /\ ReceivedBlockTransactions(b) /\ tip' = tip
    BY <2>2, PrunedReceived
  <2> QED
    BY <1>2, <2>1, <2>2 DEF AcceptBlock, Unwanted
<1>3. ASSUME NEW t \in Threads, Steps(t) PROVE Pruned'
  <2>1. CASE FindMostWorkChain(t)
    BY <2>1 DEF FindMostWorkChain, Pruned
  <2>2. CASE DisconnectTip(t)
    <3>1. tip \in Block \ {Genesis}
      BY <2>2, DisconnectTipIInv DEF IInv, TypeOK
    <3>2. tip' \in Block /\ Height[tip'] < Height[tip] /\ Height[tip'] <= Height[tip]
      BY <2>2, <3>1, BlockTree DEF DisconnectTip
    <3>3. \A b \in cand : ~Worse(seq, b, tip')
      BY <3>2, LowerTip
    <3> QED
      BY <2>2, <3>3 DEF DisconnectTip, index, Pruned
  <2>3. CASE ConnectBlock(t)
    BY <2>3 DEF ConnectBlock, ConnectTip, ConnectTipInvalid, Pruned, Prune
  <2>4. CASE UpdateHotBlock(t)
    BY <2>4 DEF UpdateHotBlock, index, Pruned
  <2> QED
    BY <1>3, <2>1, <2>2, <2>3, <2>4 DEF Steps
<1>4. ASSUME NEW t \in Threads, NEW b \in Block,
             InvalidateBlock(t, b) \/ ReconsiderBlock(t, b) \/ PreciousBlock(t, b)
      PROVE  Pruned'
  <2>1. CASE InvalidateBlock(t, b)
    <3>1. /\ b # Genesis /\ tip' = IF b \in Anc[tip] THEN Prev[b] ELSE tip
          /\ cand' \subseteq cand \union Refill(tip') /\ seq' = seq
      BY <2>1 DEF InvalidateBlock
    <3>2. tip \in Block /\ Height[tip] \in Nat
      BY BlockTree DEF IInv, TypeOK
    <3>3. CASE b \in Anc[tip]
      <4>1. /\ Prev[b] \in Block /\ Height[b] = Height[Prev[b]] + 1
            /\ Height[Prev[b]] \in Nat /\ (b = tip \/ Height[b] < Height[tip])
        BY <3>1, <3>2, <3>3, BlockTree, AncHeight
      <4>2. Height[tip'] < Height[tip] /\ Height[tip'] <= Height[tip] /\ tip' \in Block
        BY <3>1, <3>2, <3>3, <4>1, BlockTree
      <4>3. \A c \in cand : ~Worse(seq, c, tip')
        BY <4>2, LowerTip
      <4> QED
        BY <3>1, <4>3 DEF Pruned, Refill
    <3>4. CASE b \notin Anc[tip]
      BY <3>1, <3>4 DEF Pruned, Refill
    <3> QED
      BY <3>3, <3>4
  <2>2. CASE ReconsiderBlock(t, b)
    <3>1. /\ UNCHANGED <<seq, tip>>
          /\ \A d \in cand' : d \in cand \/ (d \in chainTx /\ Worse(seq, tip, d))
      BY <2>2 DEF ReconsiderBlock
    <3>2. \A d \in chainTx : Worse(seq, tip, d) => ~Worse(seq, d, tip)
      BY WorseOrder DEF IInv, TypeOK, SeqType
    <3> QED
      BY <3>1, <3>2 DEF Pruned
  <2>3. ~PreciousBlock(t, b)
    BY DEF PreciousBlock, Rpc
  <2> QED
    BY <1>4, <2>1, <2>2, <2>3
<1>5. CASE FlushStateToDisk
  BY <1>5 DEF FlushStateToDisk, Pruned
<1>6. CASE Restart
  BY <1>6 DEF Restart, Pruned, Prune
<1>7. CASE UNCHANGED vars
  BY <1>7 DEF vars, index, Pruned
<1> QED
  BY <1>1, <1>2, <1>3, <1>4, <1>5, <1>6, <1>7 DEF Next, Steps

\* As long as preciousblock is not used, setBlockIndexCandidates has no block
\* that sorts before the tip, although it is only pruned when a block is
\* connected: invalidateblock, reconsiderblock, reorganisations that fail half
\* way, and restarts included.
THEOREM CandidatesAreSound ==
  ASSUME "precious" \notin Rpcs
  PROVE  Spec => []CandidatesSound
<1>1. Init => IInv /\ Pruned
  <2> SUFFICES ASSUME Init PROVE Pruned
    BY InitIInv
  <2> QED
    BY BlockTree, ChainStateConstants DEF Init, Pruned, Worse
<1>2. (IInv /\ Pruned) /\ [Next]_vars => (IInv /\ Pruned)'
  BY NextIInv, PrunedNext
<1>3. IInv /\ Pruned => CandidatesSound
  BY DEF IInv, TypeOK, Pruned, CandidatesSound
<1> QED
  BY <1>1, <1>2, <1>3, PTL DEF Spec

-----------------------------------------------------------------------------
(***************************************************************************)
(* Marks and mapBlocksUnlinked                                             *)
(***************************************************************************)
\* Without reconsiderblock a mark has its cause in a block that was found or
\* declared invalid, in memory and on disk.
MarksCaused ==
  /\ \A b \in FailedMask : Anc[b] \intersect failed # {}
  /\ \A b \in saved.failed \union saved.failedChild : Anc[b] \intersect saved.failed # {}

\* A block whose parent has an nChainTx has one itself once its data is there.
LinkedUp ==
  \A b \in haveData \ {Genesis} :
    Prev[b] \in chainTx /\ Anc[b] \intersect failed = {} => b \in chainTx

\* A step that marks more blocks, with their causes, and keeps what is on disk.
LEMMA MoreMarks ==
  ASSUME MarksCaused, saved' = saved, failed \subseteq failed',
         \A b \in FailedMask' : b \in FailedMask \/ Anc[b] \intersect failed' # {}
  PROVE  MarksCaused'
BY DEF MarksCaused

\* Every step but reconsiderblock gives a mark its cause.
LEMMA CausedNext ==
  ASSUME "reconsider" \notin Rpcs, IInv, MarksCaused, [Next]_vars
  PROVE  MarksCaused'
<1>1. ASSUME UNCHANGED <<failed, failedChild, saved>> PROVE MarksCaused'
  BY <1>1 DEF MarksCaused, FailedMask
<1>2. ASSUME NEW t \in Threads, NEW b \in Block, NEW r \in BOOLEAN, AcceptBlock(t, b, r)
      PROVE  MarksCaused'
  <2>1. failed' \in {failed, failed \union {b}} /\ failedChild' = failedChild /\ saved' = saved
    BY <1>2 DEF AcceptBlock
  <2> QED
    BY <2>1, AncSelf, MoreMarks DEF FailedMask
<1>3. ASSUME NEW t \in Threads, FindMostWorkChain(t) PROVE MarksCaused'
  <2> DEFINE dropped == UNION {DroppedWith(c) : c \in PassedOver}
  <2>1. \A b \in dropped : Anc[b] \intersect failed # {}
    <3> TAKE b \in dropped
    <3>1. PICK c \in Unusable : b \in DroppedWith(c)
      BY DEF PassedOver
    <3> QED
      BY <3>1, DroppedHaveCause DEF MarksCaused
  <2>2. failedChild' \subseteq failedChild \union dropped /\ failed' = failed /\ saved' = saved
    BY <1>3 DEF FindMostWorkChain
  <2> HIDE DEF dropped
  <2> QED
    BY <2>1, <2>2, MoreMarks DEF FailedMask
<1>4. ASSUME NEW t \in Threads, ConnectBlock(t) PROVE MarksCaused'
  <2>1. NextBlock(t) \in Block
    BY <1>4, NextBlockIn DEF ConnectBlock, IInv, TypeOK
  <2>2. failed' \in {failed, failed \union {NextBlock(t)}} /\ failedChild' = failedChild /\ saved' = saved
    BY <1>4 DEF ConnectBlock, ConnectTip, ConnectTipInvalid
  <2> QED
    BY <2>1, <2>2, AncSelf, MoreMarks DEF FailedMask
<1>5. ASSUME NEW t \in Threads, NEW b \in Block, InvalidateBlock(t, b) PROVE MarksCaused'
  <2> DEFINE gone == IF b \in Anc[tip] THEN Above(Prev[b], tip) ELSE {}
  <2>1. b # Genesis /\ failed' = failed \union {b} /\ failedChild' = failedChild \union gone /\ saved' = saved
    BY <1>5 DEF InvalidateBlock, Rpc
  <2>2. \A d \in gone : b \in Anc[d]
    <3> SUFFICES ASSUME b \in Anc[tip], NEW d \in Anc[tip] \ Anc[Prev[b]] PROVE b \in Anc[d]
      BY DEF Above
    <3>1. Anc[b] = {b} \union Anc[Prev[b]] /\ tip \in Block
      BY <2>1, BlockTree DEF IInv, TypeOK
    <3> QED
      BY <3>1, AncLinear, AncSelf, BlockTree
  <2> HIDE DEF gone
  <2> QED
    BY <2>1, <2>2, AncSelf, MoreMarks DEF FailedMask
<1>6. CASE FlushStateToDisk
  <2>1. UNCHANGED <<failed, failedChild>> /\ saved'.failed = failed /\ saved'.failedChild \subseteq failedChild
    BY <1>6 DEF FlushStateToDisk
  <2> QED
    BY <2>1 DEF MarksCaused, FailedMask
<1>7. CASE Restart
  <2>1. failed' = saved.failed /\ failedChild' = saved.failedChild /\ saved' = saved
    BY Zenon, <1>7 DEF Restart
  <2> QED
    BY <2>1 DEF MarksCaused, FailedMask
<1>8. ASSUME NEW t \in Threads, DisconnectTip(t) \/ UpdateHotBlock(t) PROVE MarksCaused'
  BY <1>1, <1>8 DEF DisconnectTip, UpdateHotBlock, index
<1>9. ASSUME NEW b \in Block, AcceptHeader(b) \/ \E t \in Threads : PreciousBlock(t, b)
      PROVE  MarksCaused'
  BY <1>1, <1>9 DEF AcceptHeader, PreciousBlock, Rpc
<1>10. ASSUME NEW t \in Threads, NEW b \in Block PROVE ~ReconsiderBlock(t, b)
  BY DEF ReconsiderBlock, Rpc
<1>11. CASE UNCHANGED vars
  BY <1>1, <1>11 DEF vars, index
<1> QED
  BY Zenon, <1>2, <1>3, <1>4, <1>5, <1>6, <1>7, <1>8, <1>9, <1>10, <1>11 DEF Next

\* ReceivedBlockTransactions links a block, and all that waited for it, or lets it
\* wait.
LEMMA UnlinkedReceived ==
  ASSUME IInv, MarksCaused, UnlinkedComplete, LinkedUp, NEW b \in Block \ haveData,
         ReceivedBlockTransactions(b), failed' = failed, b # Genesis
  PROVE  UnlinkedComplete' /\ LinkedUp'
<1>1. Prev[b] \in Block /\ Anc[b] = {b} \union Anc[Prev[b]] /\ b \in Anc[b]
  BY BlockTree, AncSelf
<1>2. CASE Prev[b] \in chainTx
  <2> DEFINE L == Linked(b)
  <2>1. haveData' = haveData \union {b} /\ chainTx' = chainTx \union L /\ unlinked' = unlinked \ L
    BY <1>2 DEF ReceivedBlockTransactions, IInv, TypeOK
  <2>2. b \in L
    BY <1>1 DEF Linked, Above
  <2>3. UnlinkedComplete'
    <3> HIDE DEF L
    <3> QED
      BY <2>1, <2>2 DEF UnlinkedComplete
  <2>4. ASSUME NEW e \in haveData' \ {Genesis}, Prev[e] \in chainTx', Anc[e] \intersect failed = {}
        PROVE  e \in chainTx'
    <3>1. CASE e = b
      BY <2>1, <2>2, <3>1
    <3>2. CASE e # b /\ Prev[e] \in chainTx
      BY <2>1, <2>4, <3>2 DEF LinkedUp
    <3>3. CASE e # b /\ Prev[e] \in L /\ e \notin chainTx
      <4>1. e \in Block /\ Anc[e] = {e} \union Anc[Prev[e]]
        BY <2>1, BlockTree DEF IInv, TypeOK
      <4>2. e \in unlinked
        BY <2>1, <2>4, <3>3 DEF UnlinkedComplete
      <4>3. b \in Anc[Prev[e]] /\ Above(Prev[b], Prev[e]) \subseteq unlinked \union {b}
        BY <3>3 DEF Linked
      <4>4. e \in L
        BY <4>1, <4>2, <4>3 DEF Linked, Above
      <4> QED
        BY <2>1, <4>4
    <3> QED
      BY <2>1, <2>4, <3>1, <3>2, <3>3
  <2> QED
    BY <2>3, <2>4 DEF LinkedUp
<1>3. CASE Prev[b] \notin chainTx
  <2>1. haveData' = haveData \union {b} /\ chainTx' = chainTx /\ unlinked' = unlinked \union Waiting(b)
    BY <1>3 DEF ReceivedBlockTransactions
  <2>2. Anc[b] \intersect failed = {} => b \in Waiting(b)
    BY <1>1, AncSelf DEF Waiting, MarksCaused
  <2> QED
    BY <1>3, <2>1, <2>2 DEF UnlinkedComplete, LinkedUp
<1> QED
  BY <1>2, <1>3

\* What the start of the node computes from the data on disk.
LEMMA UnlinkedRestart ==
  ASSUME IInv, Restart
  PROVE  UnlinkedComplete' /\ LinkedUp'
<1>1. /\ chainTx' = {b \in haveData' : Anc[b] \subseteq haveData'}
      /\ unlinked' = {b \in haveData' \ {Genesis} : Prev[b] \notin chainTx'}
      /\ haveData' \subseteq Block
  BY RestartIInv DEF Restart, IInv, TypeOK
<1>2. \A b \in haveData' \ {Genesis} : Prev[b] \in chainTx' => b \in chainTx'
  BY <1>1, BlockTree
<1>3. Genesis \in chainTx'
  BY RestartIInv DEF IInv, Rooted
<1> QED
  BY <1>1, <1>2, <1>3 DEF UnlinkedComplete, LinkedUp

\* Every step but reconsiderblock keeps mapBlocksUnlinked complete.
LEMMA UnlinkedNext ==
  ASSUME "reconsider" \notin Rpcs, IInv, MarksCaused, UnlinkedComplete, LinkedUp, [Next]_vars
  PROVE  UnlinkedComplete' /\ LinkedUp'
<1>1. ASSUME UNCHANGED <<haveData, chainTx, unlinked>>, failed \subseteq failed'
      PROVE  UnlinkedComplete' /\ LinkedUp'
  BY <1>1 DEF UnlinkedComplete, LinkedUp
<1>2. ASSUME NEW t \in Threads, NEW b \in Block, NEW r \in BOOLEAN, AcceptBlock(t, b, r)
      PROVE  UnlinkedComplete' /\ LinkedUp'
  <2>1. CASE ~Unwanted(b, r) /\ b \notin BadContext
    <3>1. ReceivedBlockTransactions(b) /\ failed' = failed
      BY <1>2, <2>1 DEF AcceptBlock
    <3>2. b \in Block \ haveData /\ b # Genesis
      BY <2>1 DEF Unwanted, IInv, TypeOK, Rooted
    <3> QED
      BY <3>1, <3>2, UnlinkedReceived
  <2>2. CASE Unwanted(b, r) \/ b \in BadContext
    <3>1. UNCHANGED <<haveData, chainTx, unlinked>> /\ failed' \in {failed, failed \union {b}}
      BY Zenon, <1>2, <2>2 DEF AcceptBlock
    <3> QED
      BY <1>1, <3>1
  <2> QED
    BY <2>1, <2>2
<1>3. ASSUME NEW t \in Threads, Steps(t) PROVE UnlinkedComplete' /\ LinkedUp'
  BY <1>1, <1>3 DEF Steps, FindMostWorkChain, DisconnectTip, ConnectBlock, ConnectTip,
     ConnectTipInvalid, UpdateHotBlock, index
<1>4. ASSUME NEW b \in Block,
             AcceptHeader(b) \/ \E t \in Threads : InvalidateBlock(t, b) \/ PreciousBlock(t, b)
      PROVE  UnlinkedComplete' /\ LinkedUp'
  BY <1>1, <1>4 DEF AcceptHeader, InvalidateBlock, PreciousBlock
<1>5. ASSUME NEW t \in Threads, NEW b \in Block PROVE ~ReconsiderBlock(t, b)
  BY DEF ReconsiderBlock, Rpc
<1>6. CASE FlushStateToDisk \/ UNCHANGED vars
  BY <1>1, <1>6 DEF FlushStateToDisk, vars, index
<1>7. CASE Restart
  BY <1>7, UnlinkedRestart
<1> QED
  BY Zenon, <1>2, <1>3, <1>4, <1>5, <1>6, <1>7 DEF Next, Steps

\* The three together are inductive.
LEMMA IndexInvariant ==
  ASSUME "reconsider" \notin Rpcs
  PROVE  Spec => [](IInv /\ MarksCaused /\ UnlinkedComplete /\ LinkedUp)
<1> DEFINE J == IInv /\ MarksCaused /\ UnlinkedComplete /\ LinkedUp
<1>1. Init => J
  <2> SUFFICES ASSUME Init PROVE MarksCaused /\ UnlinkedComplete /\ LinkedUp
    BY InitIInv
  <2> QED
    BY DEF Init, MarksCaused, FailedMask, UnlinkedComplete, LinkedUp
<1>2. J /\ [Next]_vars => J'
  BY NextIInv, CausedNext, UnlinkedNext
<1> QED
  BY <1>1, <1>2, PTL DEF Spec

\* As long as reconsiderblock is not used, a block is marked only below a block that
\* was found or declared invalid: with stale targets, failed reorganisations and
\* crashes between the writes of the index and of the coins.
THEOREM MarksHaveCause ==
  ASSUME "reconsider" \notin Rpcs
  PROVE  Spec => []FailedHasCause
<1>1. MarksCaused => FailedHasCause
  BY DEF MarksCaused, FailedHasCause
<1> QED
  BY <1>1, IndexInvariant, PTL

\* As long as reconsiderblock is not used, a block that waits for the data of an
\* ancestor is found in mapBlocksUnlinked when the data arrives.
THEOREM WaitingBlocksAreKept ==
  ASSUME "reconsider" \notin Rpcs
  PROVE  Spec => []UnlinkedComplete
BY IndexInvariant, PTL

\* As long as reconsiderblock is not used, nChainTx is set for exactly the blocks
\* that can be connected, whatever the order in which data, marks and restarts
\* came.
THEOREM LinkingIsExact ==
  ASSUME "reconsider" \notin Rpcs
  PROVE  Spec => []ChainTxExact
<1>1. ASSUME IInv, LinkedUp, NEW b \in known, Anc[b] \subseteq haveData, Anc[b] \intersect failed = {}
      PROVE  b \in chainTx
  <2> DEFINE S == {d \in Block : d \in Anc[b] => d \in chainTx}
  <2>1. Genesis \in S
    BY <1>1, BlockTree DEF IInv, Rooted
  <2>2. ASSUME NEW d \in Block \ {Genesis}, Prev[d] \in S, d \in Anc[b] PROVE d \in chainTx
    <3>1. b \in Block /\ Anc[d] \subseteq Anc[b] /\ Prev[d] \in Anc[d]
      BY <1>1, <2>2, AncTrans, AncSelf, BlockTree DEF IInv, TypeOK
    <3> QED
      BY <1>1, <2>2, <3>1 DEF LinkedUp
  <2>3. \A d \in Block \ {Genesis} : Prev[d] \in S => d \in S
    BY <2>2
  <2> HIDE DEF S
  <2>4. b \in S
    BY <1>1, <2>1, <2>3, BlockInduction DEF IInv, TypeOK
  <2> QED
    BY <1>1, <2>4, AncSelf DEF S, IInv, TypeOK
<1>2. IInv /\ LinkedUp => ChainTxExact
  <2>1. IInv => \A b \in chainTx : Anc[b] \subseteq haveData
    BY DEF IInv, TypeOK, Rooted
  <2> QED
    BY <1>1, <2>1 DEF ChainTxExact
<1> QED
  BY <1>2, IndexInvariant, PTL

(***************************************************************************)
(* The candidates: setBlockIndexCandidates holds every block the node may  *)
(* have to switch to.                                                      *)
(***************************************************************************)
\* No ancestor of the block was found or declared invalid.
Good(b) == Anc[b] \intersect failed = {}

\* Every good block that does not sort before r is a candidate.
Full(r) == \A b \in chainTx : Good(b) /\ ~Worse(seq, b, r) => b \in cand

\* ConnectBlock accepts r and its ancestors, and none of them is marked.
Fit(r) == Anc[r] \intersect (failed \union Invalid) = {}

\* The tip is fit, also while the chain is being reorganised, and the chain on
\* disk has only blocks that were connected.
TipFit == Fit(tip) /\ Anc[saved.tip] \intersect Invalid = {}

\* The candidates are complete down from a fit block that a failed
\* reorganisation can fall back to.  The tip itself may be lower in the meantime.
FallBack ==
  \E r \in chainTx : Full(r) /\ Fit(r) /\ Height[r] >= ids.precious

\* CBlockIndexWorkComparator is a strict total order, whatever the sequence ids.
LEMMA WorseTotal ==
  ASSUME NEW sq \in [Block -> Int]
  PROVE  /\ \A a, b \in Block : a = b \/ Worse(sq, a, b) \/ Worse(sq, b, a)
         /\ \A a, b, c \in Block : Worse(sq, a, b) /\ Worse(sq, b, c) => Worse(sq, a, c)
         /\ \A a, b \in Block : Worse(sq, a, b) => ~Worse(sq, b, a)
         /\ \A b \in Block : ~Worse(sq, b, b)
         /\ \A a, b \in Block : ~Worse(sq, a, b) => Height[a] >= Height[b]
<1>1. /\ \A b \in Block : Height[b] \in Nat /\ Addr[b] \in Nat /\ sq[b] \in Int
      /\ \A a, b \in Block : Addr[a] = Addr[b] => a = b
  BY BlockTree, ChainStateConstants
<1>2. \A a, b \in Block : a = b \/ Worse(sq, a, b) \/ Worse(sq, b, a)
  BY <1>1 DEF Worse
<1>3. \A a, b, c \in Block : Worse(sq, a, b) /\ Worse(sq, b, c) => Worse(sq, a, c)
  BY <1>1 DEF Worse
<1>4. \A a, b \in Block : Worse(sq, a, b) => ~Worse(sq, b, a)
  BY <1>1 DEF Worse
<1>5. /\ \A b \in Block : ~Worse(sq, b, b)
      /\ \A a, b \in Block : ~Worse(sq, a, b) => Height[a] >= Height[b]
  BY <1>1 DEF Worse
<1> QED
  BY <1>2, <1>3, <1>4, <1>5

\* A good block has no marked ancestor at all.
LEMMA GoodUnmarked ==
  ASSUME IInv, MarksCaused, NEW b \in Block, Good(b)
  PROVE  Anc[b] \intersect FailedMask = {}
BY AncTrans DEF MarksCaused, Good

\* Of two fit blocks that the candidates may be complete from, the better one.
LEMMA FullUp ==
  ASSUME IInv, NEW r \in chainTx, NEW s \in chainTx, Full(r), r = s \/ Worse(seq, r, s)
  PROVE  Full(s) /\ Height[s] >= Height[r]
<1>1. chainTx \subseteq Block /\ seq \in [Block -> Int]
  BY DEF IInv, TypeOK
<1>2. Full(s)
  BY <1>1, WorseTotal DEF Full
<1>3. Height[s] >= Height[r]
  BY <1>1, WorseTotal
<1> QED
  BY <1>2, <1>3

\* The candidates that are passed over, and what is dropped with them, are not good.
LEMMA DroppedNotGood ==
  ASSUME IInv, MarksCaused, NEW b \in UNION {DroppedWith(c) : c \in PassedOver}
  PROVE  ~Good(b)
<1>1. PICK c \in Unusable : b \in DroppedWith(c)
  BY DEF PassedOver
<1> QED
  BY <1>1, DroppedHaveCause DEF MarksCaused, Good

\* Steps that leave the candidates alone.
LEMMA FallBackKept ==
  ASSUME FallBack, UNCHANGED <<chainTx, seq, cand, failed, ids>>
  PROVE  FallBack'
BY DEF FallBack, Full, Fit, Good

\* ReceivedBlockTransactions adds the new blocks that do not sort before the tip.
LEMMA FallBackReceived ==
  ASSUME IInv, IInv', TipFit, FallBack, NEW b \in Block \ haveData, ReceivedBlockTransactions(b),
         tip' = tip, failed' = failed
  PROVE  FallBack'
<1>1. CASE Prev[b] \in chainTx
  <2> DEFINE L == Linked(b)
  <2>1. /\ seq' \in SequenceIds(L) /\ chainTx' = chainTx \union L
        /\ cand' = cand \union {d \in L : ~Worse(seq', d, tip)} /\ ids'.precious = ids.precious
    BY <1>1 DEF ReceivedBlockTransactions, IInv, TypeOK
  <2>2. L \intersect chainTx = {} /\ L \in SUBSET Block
    BY <1>1, LinkedRooted DEF IInv, TypeOK
  <2> HIDE DEF L
  <2>3. /\ seq \in [Block -> Int] /\ seq' \in [Block -> Int] /\ \A d \in chainTx : seq'[d] = seq[d]
        /\ chainTx \subseteq Block /\ tip \in chainTx
    BY <2>1, <2>2, SequenceIdsType DEF IInv, TypeOK
  <2>4. PICK r \in chainTx : Full(r) /\ Fit(r) /\ Height[r] >= ids.precious
    BY DEF FallBack
  <2>5. \E s \in chainTx : /\ Full(s) /\ Fit(s) /\ Height[s] >= ids.precious
                           /\ s = tip \/ Worse(seq, tip, s)
    <3>1. CASE r = tip \/ Worse(seq, r, tip)
      <4>1. Full(tip) /\ Height[tip] >= Height[r]
        BY <2>3, <2>4, <3>1, FullUp
      <4>2. Height[tip] \in Nat /\ Height[r] \in Nat /\ ids.precious \in Nat
        BY <2>3, <2>4, BlockTree DEF IInv, TypeOK
      <4> QED
        BY <2>3, <2>4, <4>1, <4>2 DEF TipFit
    <3>2. CASE Worse(seq, tip, r)
      BY <2>4, <3>2
    <3> QED
      BY <2>3, <2>4, <3>1, <3>2, WorseTotal
  <2>6. PICK s \in chainTx : /\ Full(s) /\ Fit(s) /\ Height[s] >= ids.precious
                             /\ s = tip \/ Worse(seq, tip, s)
    BY <2>5
  <2>7. s = tip \/ Worse(seq', tip, s)
    BY <2>3, <2>6 DEF Worse
  <2>8. ASSUME NEW d \in chainTx', Good(d)', ~Worse(seq', d, s) PROVE d \in cand'
    <3>1. CASE d \in chainTx
      <4>1. ~Worse(seq, d, s) /\ Good(d)
        BY <2>3, <2>8, <3>1 DEF Worse, Good
      <4> QED
        BY <2>1, <2>6, <3>1, <4>1 DEF Full
    <3>2. CASE d \in L
      <4>1. d \in Block /\ tip \in Block /\ s \in Block
        BY <2>2, <2>3, <2>6, <3>2
      <4>2. ~Worse(seq', d, tip)
        BY <2>3, <2>7, <2>8, <4>1, WorseTotal
      <4> QED
        BY <2>1, <3>2, <4>2
    <3> QED
      BY <2>1, <2>8, <3>1, <3>2
  <2>9. Full(s)' /\ Fit(s)' /\ s \in chainTx'
    BY <2>1, <2>6, <2>8 DEF Full, Fit
  <2> QED
    BY <2>1, <2>6, <2>9 DEF FallBack
<1>2. CASE Prev[b] \notin chainTx
  BY <1>2, FallBackKept DEF ReceivedBlockTransactions
<1> QED
  BY <1>1, <1>2

\* FindMostWorkChain drops no good block.
LEMMA FallBackFindMostWorkChain ==
  ASSUME IInv, MarksCaused, FallBack, NEW t \in Threads, FindMostWorkChain(t)
  PROVE  FallBack'
<1> DEFINE dropped == UNION {DroppedWith(c) : c \in PassedOver}
<1>1. cand \ dropped \subseteq cand' /\ UNCHANGED <<chainTx, seq, failed, ids>>
  BY DEF FindMostWorkChain
<1>2. \A b \in dropped : ~Good(b)
  BY DroppedNotGood
<1> HIDE DEF dropped
<1>3. \A b : Good(b)' = Good(b)
  BY <1>1 DEF Good
<1> QED
  BY <1>1, <1>2, <1>3 DEF FallBack, Full, Fit

\* ConnectTip drops what sorts before the new tip, and what turns out to be invalid
\* was never part of the chain to fall back to.
LEMMA FallBackConnectBlock ==
  ASSUME IInv, IInv', FallBack, TipFit', NEW t \in Threads, ConnectBlock(t)
  PROVE  FallBack'
<1>1. NextBlock(t) \in chainTx /\ chainTx \subseteq Block /\ seq \in [Block -> Int]
  BY NextBlockIn DEF ConnectBlock, IInv, TypeOK
<1>2. PICK r \in chainTx : Full(r) /\ Fit(r) /\ Height[r] >= ids.precious
  BY DEF FallBack
<1>3. CASE ConnectTip(t)
  <2>1. /\ UNCHANGED <<chainTx, seq, failed, ids>> /\ tip' = NextBlock(t)
        /\ cand' = {b \in cand : ~Worse(seq, b, tip')}
    BY <1>3 DEF ConnectTip, Prune
  <2>2. \E s \in chainTx : /\ Full(s) /\ Fit(s) /\ Height[s] >= ids.precious
                           /\ s = tip' \/ Worse(seq, tip', s)
    <3>1. CASE r = tip' \/ Worse(seq, r, tip')
      <4>1. Full(tip') /\ Height[tip'] >= Height[r]
        BY <1>1, <1>2, <2>1, <3>1, FullUp
      <4>2. Height[tip'] \in Nat /\ Height[r] \in Nat /\ ids.precious \in Nat
        BY <1>1, <1>2, <2>1, BlockTree DEF IInv, TypeOK
      <4>3. Fit(tip')
        BY <2>1 DEF TipFit, Fit
      <4> QED
        BY <1>1, <1>2, <2>1, <4>1, <4>2, <4>3
    <3>2. CASE Worse(seq, tip', r)
      BY <1>2, <3>2
    <3> QED
      BY <1>1, <1>2, <2>1, <3>1, <3>2, WorseTotal
  <2>3. PICK s \in chainTx : /\ Full(s) /\ Fit(s) /\ Height[s] >= ids.precious
                             /\ s = tip' \/ Worse(seq, tip', s)
    BY <2>2
  <2>4. \A b \in chainTx : ~Worse(seq, b, s) => ~Worse(seq, b, tip')
    BY <1>1, <2>1, <2>3, WorseTotal
  <2>5. Full(s)' /\ Fit(s)'
    BY <2>1, <2>3, <2>4 DEF Full, Fit, Good
  <2> QED
    BY <2>1, <2>3, <2>5 DEF FallBack
<1>4. CASE NextBlock(t) \in Invalid /\ ConnectTipInvalid(t)
  <2>1. /\ UNCHANGED <<chainTx, seq, ids>> /\ cand' = cand \ {NextBlock(t)}
        /\ failed' = failed \union {NextBlock(t)}
    BY <1>4 DEF ConnectTipInvalid
  <2>2. Fit(r)'
    BY <1>2, <1>4, <2>1 DEF Fit
  <2>3. Full(r)'
    BY <1>1, <1>2, <2>1, AncSelf DEF Full, Good
  <2> QED
    BY <1>2, <2>1, <2>2, <2>3 DEF FallBack
<1> QED
  BY <1>3, <1>4 DEF ConnectBlock

\* invalidateblock fills the candidates up for the tip that is left.
LEMMA FallBackInvalidateBlock ==
  ASSUME IInv, IInv', MarksCaused', TipFit', ids.precious = 0,
         NEW t \in Threads, NEW b \in Block, InvalidateBlock(t, b)
  PROVE  FallBack'
<1>1. /\ UNCHANGED <<seq, chainTx, haveData, ids>> /\ Refill(tip') \subseteq cand'
  BY DEF InvalidateBlock
<1>2. tip' \in chainTx' /\ chainTx' \subseteq Block /\ chainTx \subseteq haveData
  BY DEF IInv, TypeOK
<1>3. \A d \in chainTx' : Good(d)' => d \notin FailedMask'
  BY <1>2, AncSelf DEF Good, MarksCaused
<1>4. Full(tip)'
  BY <1>1, <1>2, <1>3 DEF Full, Refill, FailedMask
<1>5. Height[tip'] >= ids'.precious
  BY <1>1, <1>2, BlockTree
<1> QED
  BY <1>2, <1>4, <1>5 DEF FallBack, TipFit

\* At the start all good blocks are candidates that do not sort before the tip.
LEMMA FallBackRestart ==
  ASSUME IInv', MarksCaused', TipFit', Restart
  PROVE  FallBack'
<1>1. /\ cand' = {b \in chainTx' \ FailedMask' : ~Worse(seq', b, tip')}
      /\ ids'.precious = 0
  BY DEF Restart, Prune, FailedMask
<1>2. tip' \in chainTx' /\ chainTx' \subseteq Block
  BY DEF IInv, TypeOK
<1>3. \A d \in chainTx' : Good(d)' => d \notin FailedMask'
  BY <1>2, AncSelf DEF Good, MarksCaused
<1>4. Full(tip)'
  BY <1>1, <1>3 DEF Full
<1>5. Height[tip'] >= ids'.precious
  BY <1>1, <1>2, BlockTree
<1> QED
  BY <1>2, <1>4, <1>5 DEF FallBack, TipFit

\* A block that fails ContextualCheckBlock has no data, and no chain goes through it.
LEMMA FallBackAcceptBlock ==
  ASSUME IInv, IInv', TipFit, FallBack,
         NEW t \in Threads, NEW b \in Block, NEW r \in BOOLEAN, AcceptBlock(t, b, r)
  PROVE  FallBack'
<1>1. CASE UNCHANGED <<haveData, chainTx, failed, seq, cand, unlinked, ids>>
  BY <1>1, FallBackKept
<1>2. CASE b \notin haveData /\ failed' = failed \union {b} /\ UNCHANGED <<chainTx, seq, cand, ids>>
  <2>1. \A c \in chainTx : b \notin Anc[c]
    BY <1>2 DEF IInv, TypeOK, Rooted
  <2>2. \A c \in chainTx : Anc[c] \intersect failed' = Anc[c] \intersect failed
    BY <1>2, <2>1
  <2>3. \A c \in chainTx : Anc[c] \intersect (failed' \union Invalid) = Anc[c] \intersect (failed \union Invalid)
    BY <1>2, <2>1
  <2>4. PICK base \in chainTx : Full(base) /\ Fit(base) /\ Height[base] >= ids.precious
    BY DEF FallBack
  <2>5. Full(base)'
    BY Zenon, <1>2, <2>2, <2>4 DEF Full, Good
  <2>6. Fit(base)'
    BY Zenon, <2>3, <2>4 DEF Fit
  <2> QED
    BY Zenon, <1>2, <2>4, <2>5, <2>6 DEF FallBack
<1>3. CASE b \notin haveData /\ ReceivedBlockTransactions(b) /\ tip' = tip /\ failed' = failed
  BY <1>3, FallBackReceived
<1> QED
  BY <1>1, <1>2, <1>3 DEF AcceptBlock, Unwanted

\* Every step but preciousblock and reconsiderblock.
LEMMA FallBackNext ==
  ASSUME "reconsider" \notin Rpcs, IInv, IInv', MarksCaused, MarksCaused', TipFit, TipFit', FallBack,
         \A t \in Threads, b \in Block : ~PreciousBlock(t, b),
         "invalidate" \in Rpcs => ids.precious = 0, [Next]_vars
  PROVE  FallBack'
<1>1. ASSUME NEW t \in Threads, NEW b \in Block, NEW r \in BOOLEAN, AcceptBlock(t, b, r)
      PROVE  FallBack'
  BY <1>1, FallBackAcceptBlock
<1>2. ASSUME NEW t \in Threads, FindMostWorkChain(t) PROVE FallBack'
  BY <1>2, FallBackFindMostWorkChain
<1>3. ASSUME NEW t \in Threads, ConnectBlock(t) PROVE FallBack'
  BY <1>3, FallBackConnectBlock
<1>4. ASSUME NEW t \in Threads, NEW b \in Block, InvalidateBlock(t, b) PROVE FallBack'
  <2>1. ids.precious = 0
    BY <1>4 DEF InvalidateBlock, Rpc
  <2> QED
    BY <1>4, <2>1, FallBackInvalidateBlock
<1>5. CASE Restart
  BY <1>5, FallBackRestart
<1>6. ASSUME NEW t \in Threads, NEW b \in Block PROVE ~ReconsiderBlock(t, b)
  BY DEF ReconsiderBlock, Rpc
<1>7. ASSUME NEW t \in Threads, DisconnectTip(t) \/ UpdateHotBlock(t) PROVE FallBack'
  BY Zenon, <1>7, FallBackKept DEF DisconnectTip, UpdateHotBlock, index
<1>8. ASSUME NEW b \in Block, AcceptHeader(b) PROVE FallBack'
  BY <1>8, FallBackKept DEF AcceptHeader
<1>9. CASE FlushStateToDisk \/ UNCHANGED vars
  BY <1>9, FallBackKept DEF FlushStateToDisk, vars, index
<1> QED
  BY Zenon, <1>1, <1>2, <1>3, <1>4, <1>5, <1>6, <1>7, <1>8, <1>9 DEF Next

\* There is a candidate as long as there is a block to fall back to.
LEMMA FallBackLeft ==
  ASSUME IInv, FallBack
  PROVE  cand # {}
<1>1. PICK r \in chainTx : Full(r) /\ Fit(r)
  BY DEF FallBack
<1>2. r \in Block /\ seq \in [Block -> Int]
  BY DEF IInv, TypeOK
<1>3. r \in cand
  BY <1>1, <1>2, WorseTotal DEF Full, Fit, Good
<1> QED
  BY <1>3

\* Genesis is a candidate that no reorganisation can lose.
LEMMA FallBackInit == Init => FallBack
<1> SUFFICES ASSUME Init PROVE FallBack
  OBVIOUS
<1>1. chainTx = {Genesis} /\ cand = {Genesis} /\ failed = {} /\ ids.precious = 0
  BY DEF Init
<1>2. Full(Genesis) /\ Fit(Genesis) /\ Height[Genesis] >= ids.precious
  BY <1>1, BlockTree, ChainStateConstants DEF Full, Fit
<1> QED
  BY <1>1, <1>2 DEF FallBack

\* As long as the three RPCs are not used, setBlockIndexCandidates is never empty,
\* not even between the steps of ActivateBestChain: with any number of threads,
\* stale targets, reorganisations that fail half way, and restarts.  It is what
\* PruneBlockIndexCandidates asserts.
THEOREM CandidateIsLeft ==
  ASSUME Rpcs = {}
  PROVE  Spec => [](cand # {} /\ CandidateLeft)
<1> DEFINE K == IInv /\ MarksCaused /\ MarksJustified /\ FallBack /\ ids.precious = 0
<1>1. Init => K
  <2> SUFFICES ASSUME Init PROVE MarksCaused /\ MarksJustified /\ ids.precious = 0
    BY InitIInv, FallBackInit
  <2>1. MarksCaused /\ ids.precious = 0
    BY DEF Init, MarksCaused, FailedMask
  <2>2. MarksJustified
    BY BlockTree, ChainStateConstants DEF Init, MarksJustified, Excluded
  <2> QED
    BY <2>1, <2>2
<1>2. K /\ [Next]_vars => K'
  <2> SUFFICES ASSUME K, [Next]_vars PROVE K'
    OBVIOUS
  <2>1. IInv' /\ MarksCaused' /\ MarksJustified'
    BY NextIInv, CausedNext, MarksNext
  <2>2. TipFit /\ TipFit'
    BY <2>1 DEF MarksJustified, Excluded, TipFit, Fit
  <2>3. \A t \in Threads, b \in Block : ~PreciousBlock(t, b)
    BY DEF PreciousBlock, Rpc
  <2>4. FallBack'
    BY <2>1, <2>2, <2>3, FallBackNext
  <2>5. ids'.precious = 0
    <3>1. ids \in [next : Nat, reverse : Int, precious : Nat]
      BY DEF IInv, TypeOK
    <3>2. CASE UNCHANGED ids
      BY <3>2
    <3>3. ASSUME NEW t \in Threads, NEW b \in Block, NEW r \in BOOLEAN, AcceptBlock(t, b, r)
          PROVE  ids'.precious = 0
      BY <3>1, <3>3 DEF AcceptBlock, ReceivedBlockTransactions
    <3>4. CASE Restart
      BY <3>4 DEF Restart
    <3>5. [Next]_vars => \/ UNCHANGED ids \/ Restart
                         \/ \E t \in Threads, b \in Block, r \in BOOLEAN : AcceptBlock(t, b, r)
      BY Zenon, <2>3 DEF Next, vars, AcceptHeader, FindMostWorkChain, DisconnectTip, ConnectBlock, ConnectTip,
         ConnectTipInvalid, UpdateHotBlock, InvalidateBlock, ReconsiderBlock, FlushStateToDisk
    <3> QED
      BY <3>2, <3>3, <3>4, <3>5
  <2> QED
    BY <2>1, <2>4, <2>5
<1>3. K => cand # {} /\ CandidateLeft
  BY FallBackLeft DEF CandidateLeft
<1> HIDE DEF K
<1> QED
  BY <1>1, <1>2, <1>3, PTL DEF Spec
==============================================================================
