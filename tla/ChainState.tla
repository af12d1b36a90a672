----------------------------- MODULE ChainState -----------------------------
(***************************************************************************)
(* The block index and the activation of the best chain (validation.cpp):  *)
(* AcceptBlock, ActivateBestChain and its steps, FindMostWorkChain, the    *)
(* RPCs invalidateblock, reconsiderblock and preciousblock, the flush of   *)
(* the state to disk, and a restart that loads it back.                    *)
(*                                                                         *)
(* Several threads (message handler, RPC workers, import) call these       *)
(* functions.  A critical section of cs_main is one action, except that of *)
(* an iteration of ActivateBestChain, which is one action for each         *)
(* DisconnectTip and each ConnectTip, with csMain naming the thread that   *)
(* holds the lock.  Between its iterations ActivateBestChain releases the  *)
(* lock and keeps its target, pindexMostWork.                              *)
(*                                                                         *)
(* The blocks that can ever be seen form a constant tree.  All blocks have *)
(* the same proof of work, so that nChainWork orders blocks as nHeight.    *)
(* Nothing is pruned.                                                      *)
(***************************************************************************)
EXTENDS BlockIndex

CONSTANTS Addr,        \* the order of the addresses of the index entries
          BadContext,  \* blocks that fail ContextualCheckBlock
          Invalid,     \* blocks that fail ConnectBlock
          Threads,
          Import,      \* the thread that activates the best chain at startup
          Nil,         \* nullptr
          Rpcs,        \* the RPCs that are used
          MinBlocksToKeep,  \* MIN_BLOCKS_TO_KEEP
          MaxRpcs,     \* bound: calls of these RPCs
          MaxRestarts  \* bound: restarts

ASSUME ChainStateConstants ==
  /\ Nil \notin Block
  /\ Addr \in [Block -> Nat] /\ \A a, b \in Block : Addr[a] = Addr[b] => a = b
  /\ BadContext \subseteq Block \ {Genesis} /\ Invalid \subseteq Block \ {Genesis}
  /\ Import \in Threads /\ Nil \notin Threads
  /\ Rpcs \subseteq {"invalidate", "reconsider", "precious"}
  /\ MinBlocksToKeep \in Nat /\ MaxRpcs \in Nat /\ MaxRestarts \in Nat

VARIABLES
  known,       \* mapBlockIndex
  haveData,    \* BLOCK_HAVE_DATA, BLOCK_VALID_TRANSACTIONS, nTx > 0
  chainTx,     \* nChainTx > 0
  failed,      \* BLOCK_FAILED_VALID
  failedChild, \* BLOCK_FAILED_CHILD
  unlogged,    \* marked with it, but not put into setDirtyBlockIndex for that
  seq,         \* nSequenceId
  cand,        \* setBlockIndexCandidates
  unlinked,    \* the blocks that mapBlocksUnlinked maps their parent to
  tip,         \* chainActive.Tip()
  saved,       \* the block index and best block that are on disk
  ids,         \* nBlockSequenceId, nBlockReverseSequenceId, nLastPreciousChainwork
  csMain,      \* the thread that holds cs_main between actions
  th,          \* the threads: where they are, and their local variables
  count        \* the bounded calls so far

index == <<known, haveData, chainTx, failed, failedChild, unlogged, seq, cand, unlinked>>

vars == <<index, tip, saved, ids, csMain, th, count>>

(***************************************************************************)
(* The block index                                                         *)
(***************************************************************************)
FailedMask == failed \union failedChild

\* The blocks above lo, up to hi.
Above(lo, hi) == Anc[hi] \ Anc[lo]

\* CBlockIndexWorkComparator: a sorts before b, where sq are the sequence ids.
Worse(sq, a, b) ==
  \/ Height[a] < Height[b]
  \/ /\ Height[a] = Height[b]
     /\ \/ sq[a] > sq[b]
        \/ sq[a] = sq[b] /\ Addr[a] > Addr[b]

\* Mutant: the tip itself is dropped as well.
Prune_Tip(sq, s, t) == {b \in s : Worse(sq, t, b)}

\* Mutant: nothing is dropped.
Prune_Nothing(sq, s, t) == s

\* PruneBlockIndexCandidates, for the tip t.
Prune(sq, s, t) == {b \in s : ~Worse(sq, b, t)}

Idle == [pc |-> "idle", job |-> "none", mostWork |-> Nil, oldTip |-> Nil]

\* A thread enters ActivateBestChain.
Activating(job) == [pc |-> "activate", job |-> job, mostWork |-> Nil, oldTip |-> Nil]

OnDisk == [known : SUBSET Block, haveData : SUBSET Block, failed : SUBSET Block,
           failedChild : SUBSET Block, tip : Block]

Init ==
  /\ known = {Genesis} /\ haveData = {Genesis} /\ chainTx = {Genesis}
  /\ failed = {} /\ failedChild = {} /\ unlogged = {}
  /\ seq = [b \in Block |-> 0]
  /\ cand = {Genesis} /\ unlinked = {}
  /\ tip = Genesis
  /\ saved = [known |-> {Genesis}, haveData |-> {Genesis}, failed |-> {},
              failedChild |-> {}, tip |-> Genesis]
  /\ ids = [next |-> 1, reverse |-> -1, precious |-> 0]
  /\ csMain = Nil
  /\ th = [t \in Threads |-> Idle]
  /\ count = [rpcs |-> 0, restarts |-> 0]

(***************************************************************************)
(* AcceptBlockHeader and AcceptBlock                                       *)
(***************************************************************************)
\* A known header must not be marked invalid; a new one needs a known parent
\* that is not.
HeaderOk(b) ==
  IF b \in known THEN b \notin FailedMask
  ELSE b # Genesis /\ Prev[b] \in known \ FailedMask

\* ProcessNewBlockHeaders.
AcceptHeader(b) ==
  /\ csMain = Nil /\ b \notin known /\ HeaderOk(b)
  /\ known' = known \union {b}
  /\ UNCHANGED <<haveData, chainTx, failed, failedChild, unlogged, seq, cand, unlinked,
                 tip, saved, ids, csMain, th, count>>

\* Mutant: descendants are linked although only their headers are there.
Linked_Headers(b) == {d \in known \union {b} : b \in Anc[d]}

\* Mutant: only the new block is linked.
Linked_NoDescendants(b) == {b}

\* The blocks that get an nChainTx once the data of b, whose parent has one,
\* is there: b, and its descendants that were waiting in mapBlocksUnlinked.
Linked(b) == {d \in unlinked \union {b} :
                b \in Anc[d] /\ Above(Prev[b], d) \subseteq unlinked \union {b}}

\* The sequence ids for the blocks of L, which are processed in the order of
\* their heights.
SequenceIds(L) ==
  LET New == {f \in [L -> ids.next .. ids.next + Cardinality(L) - 1] :
                \A a, b \in L : /\ f[a] = f[b] => a = b
                                /\ Height[a] < Height[b] => f[a] < f[b]}
  IN  {[b \in Block |-> IF b \in L THEN f[b] ELSE seq[b]] : f \in New}

\* Mutant: a block waits only for the data of its own parent.
Waiting_ParentData(b) == IF Prev[b] \in haveData THEN {} ELSE {b}

\* A block whose parent has no nChainTx yet waits for it in mapBlocksUnlinked,
\* unless the parent is marked invalid.
Waiting(b) == IF Prev[b] \in FailedMask THEN {} ELSE {b}

\* ReceivedBlockTransactions, and ProcessNewBlock goes on to ActivateBestChain.
ReceivedBlockTransactions(b) ==
  /\ haveData' = haveData \union {b}
  /\ \/ /\ Prev[b] \in chainTx
        /\ chainTx' = chainTx \union Linked(b)
        /\ seq' \in SequenceIds(Linked(b))
        /\ ids' = [ids EXCEPT !.next = @ + Cardinality(Linked(b))]
        /\ cand' = cand \union {d \in Linked(b) : ~Worse(seq', d, tip)}
        /\ unlinked' = unlinked \ Linked(b)
     \/ /\ Prev[b] \notin chainTx
        /\ unlinked' = unlinked \union Waiting(b)
        /\ UNCHANGED <<chainTx, seq, ids, cand>>

\* A block that is not wanted: it is there already, or it was not requested and
\* has no more work than the tip or is too far ahead of it (fTooFarAhead).
Unwanted(b, fRequested) ==
  \/ b \in haveData
  \/ /\ ~fRequested
     /\ Height[b] <= Height[tip] \/ Height[b] > Height[tip] + MinBlocksToKeep

\* The first critical section of ProcessNewBlock.
AcceptBlock(t, b, fRequested) ==
  /\ csMain = Nil /\ th[t].pc = "idle" /\ HeaderOk(b)
  /\ known' = known \union {b}
  /\ \/ /\ Unwanted(b, fRequested)
        /\ th' = [th EXCEPT ![t] = Activating("process")]
        /\ UNCHANGED <<haveData, chainTx, failed, seq, cand, unlinked, ids>>
     \/ /\ ~Unwanted(b, fRequested) /\ b \in BadContext
        /\ failed' = failed \union {b}
        /\ UNCHANGED <<haveData, chainTx, seq, cand, unlinked, ids, th>>
     \/ /\ ~Unwanted(b, fRequested) /\ b \notin BadContext
        /\ ReceivedBlockTransactions(b)
        /\ th' = [th EXCEPT ![t] = Activating("process")]
        /\ UNCHANGED failed
  /\ UNCHANGED <<failedChild, unlogged, tip, saved, csMain, count>>

(***************************************************************************)
(* ActivateBestChain                                                       *)
(***************************************************************************)
\* The blocks between the active chain and b.
Path(b) == Above(tip, b)

\* Mutant: only the candidate itself is looked at, not its path.
Unusable_Itself == cand \intersect FailedMask

\* FindMostWorkChain passes over the candidates with an invalid block on their
\* path until it meets one without.
Unusable == {c \in cand : Path(c) \intersect FailedMask # {}}

Usable == cand \ Unusable

PassedOver == {c \in Unusable : \A u \in Usable : Worse(seq, u, c)}

\* Mutant: the blocks below the invalid one go, too.
DroppedWith_All(c) == Path(c)

\* What a candidate that is passed over loses: it is the blocks of its path
\* down to the first invalid one that leave the candidates.
DroppedWith(c) == {b \in Path(c) :
                     \A f \in Path(c) \intersect FailedMask : Height[f] <= Height[b]}

\* The best of the set s of candidates.
BestOf(s) == CHOOSE b \in s : \A a \in s : a = b \/ Worse(seq, a, b)

MostWork(t) == IF th[t].mostWork # Nil THEN th[t].mostWork
               ELSE IF Usable # {} THEN BestOf(Usable) ELSE Nil

\* ActivateBestChain returns; ProcessNewBlock goes on with updateHotBlock.
Finished(job) ==
  IF job = "process"
  THEN [pc |-> "hot", job |-> job, mostWork |-> Nil, oldTip |-> Nil] ELSE Idle

\* An iteration of ActivateBestChain takes cs_main and, if it has no target
\* from the iteration before, chooses one.  The blocks that it marks are not put
\* into setDirtyBlockIndex.
FindMostWorkChain(t) ==
  /\ csMain = Nil /\ th[t].pc = "activate"
  /\ IF th[t].mostWork # Nil THEN UNCHANGED <<cand, failedChild, unlogged>>
     ELSE LET dropped == UNION {DroppedWith(c) : c \in PassedOver}
          IN  /\ cand' = cand \ dropped
              /\ failedChild' = failedChild \union (dropped \ FailedMask)
              /\ unlogged' = unlogged \union (dropped \ FailedMask)
  /\ IF MostWork(t) \in {Nil, tip}
     THEN th' = [th EXCEPT ![t] = Finished(th[t].job)] /\ UNCHANGED csMain
     ELSE /\ th' = [th EXCEPT ![t] = [pc |-> "step", job |-> th[t].job,
                                      mostWork |-> MostWork(t), oldTip |-> tip]]
          /\ csMain' = t
  /\ UNCHANGED <<known, haveData, chainTx, failed, seq, unlinked, tip, saved, ids, count>>

\* The step of the thread t ends with the tip now: the lock is released, and
\* ActivateBestChain returns if it has reached its target m (Nil if the target
\* turned out to be invalid).
StepEnds(t, now, m) ==
  /\ csMain' = Nil
  /\ th' = [th EXCEPT ![t] =
              IF now = m THEN Finished(th[t].job)
              ELSE [pc |-> "activate", job |-> th[t].job, mostWork |-> m, oldTip |-> Nil]]

\* ActivateBestChainStep disconnects the tip while it is not on the way to the
\* target.
DisconnectTip(t) ==
  /\ csMain = t /\ th[t].pc = "step" /\ tip \notin Anc[th[t].mostWork]
  /\ tip' = Prev[tip]
  /\ IF tip' = th[t].mostWork THEN StepEnds(t, tip', tip')
     ELSE UNCHANGED <<csMain, th>>
  /\ UNCHANGED <<index, saved, ids, count>>

\* The block that ActivateBestChainStep connects next.
NextBlock(t) == CHOOSE b \in Above(tip, th[t].mostWork) : Prev[b] = tip

Connecting(t) ==
  /\ csMain = t /\ th[t].pc = "step"
  /\ tip \in Anc[th[t].mostWork] /\ tip # th[t].mostWork

\* ConnectTip, when ConnectBlock succeeds: the step ends as soon as the chain
\* is better than the one it started from.
ConnectTip(t) ==
  /\ Connecting(t)
  /\ tip' = NextBlock(t)
  /\ cand' = Prune(seq, cand, tip')
  /\ IF tip' = th[t].mostWork \/ Height[tip'] > Height[th[t].oldTip]
     THEN StepEnds(t, tip', th[t].mostWork)
     ELSE UNCHANGED <<csMain, th>>
  /\ UNCHANGED <<known, haveData, chainTx, failed, failedChild, unlogged, seq, unlinked,
                 saved, ids, count>>

\* Mutant: InvalidBlockFound is called for the tip.
ConnectTipInvalid_Tip(t) ==
  /\ Connecting(t)
  /\ failed' = failed \union {tip}
  /\ cand' = cand \ {NextBlock(t)}
  /\ unlogged' = unlogged \ {NextBlock(t)}
  /\ StepEnds(t, tip, Nil)
  /\ UNCHANGED <<known, haveData, chainTx, failedChild, seq, unlinked, tip,
                 saved, ids, count>>

\* ConnectTip, when ConnectBlock fails: InvalidBlockFound, and the target is
\* given up.
ConnectTipInvalid(t) ==
  /\ Connecting(t)
  /\ failed' = failed \union {NextBlock(t)}
  /\ cand' = cand \ {NextBlock(t)}
  /\ unlogged' = unlogged \ {NextBlock(t)}
  /\ StepEnds(t, tip, Nil)
  /\ UNCHANGED <<known, haveData, chainTx, failedChild, seq, unlinked, tip,
                 saved, ids, count>>

ConnectBlock(t) ==
  /\ Connecting(t)
  /\ \/ NextBlock(t) \notin Invalid /\ ConnectTip(t)
     \/ NextBlock(t) \in Invalid /\ ConnectTipInvalid(t)

\* The last critical section of ProcessNewBlock; it leaves the block index
\* alone (its effect on the block files is the subject of UChain).
UpdateHotBlock(t) ==
  /\ csMain = Nil /\ th[t].pc = "hot"
  /\ th' = [th EXCEPT ![t] = Idle]
  /\ UNCHANGED <<index, tip, saved, ids, csMain, count>>

(***************************************************************************)
(* invalidateblock, reconsiderblock, preciousblock                         *)
(***************************************************************************)
\* The thread t serves an RPC that ends in ActivateBestChain.
Rpc(t, name) ==
  /\ name \in Rpcs /\ csMain = Nil /\ th[t].pc = "idle" /\ count.rpcs < MaxRpcs
  /\ count' = [count EXCEPT !.rpcs = @ + 1]
  /\ th' = [th EXCEPT ![t] = Activating("activate")]
  /\ UNCHANGED <<csMain, saved>>

\* Mutant: the candidates are not filled up for the lower tip.
Refill_None(t) == {}

\* The blocks that are as good as the tip t and may be tried.
Refill(t) == {d \in (haveData \intersect chainTx) \ (failed' \union failedChild') :
                ~Worse(seq, d, t)}

InvalidateBlock(t, b) ==
  /\ Rpc(t, "invalidate") /\ b \in known \ {Genesis}
  /\ failed' = failed \union {b}
  /\ LET gone == IF b \in Anc[tip] THEN Above(Prev[b], tip) ELSE {}
     IN  /\ failedChild' = failedChild \union gone
         /\ unlogged' = unlogged \ (gone \union {b})
         /\ tip' = IF b \in Anc[tip] THEN Prev[b] ELSE tip
         /\ cand' = (cand \ (gone \union {b})) \union Refill(tip')
  /\ UNCHANGED <<known, haveData, chainTx, seq, unlinked, ids>>

\* ResetBlockFailureFlags: the flags of b, its descendants and its ancestors
\* are removed; the descendants become candidates again.
ReconsiderBlock(t, b) ==
  /\ Rpc(t, "reconsider") /\ b \in known
  /\ LET below == {d \in known : b \in Anc[d] /\ d \in FailedMask \union (known \ haveData)}
         reset == below \union Anc[b]
     IN  /\ failed' = failed \ reset
         /\ failedChild' = failedChild \ reset
         /\ unlogged' = unlogged \ reset
         /\ cand' = cand \union {d \in below \intersect haveData \intersect chainTx :
                                   Worse(seq, tip, d)}
  /\ UNCHANGED <<known, haveData, chainTx, seq, unlinked, tip, ids>>

\* PreciousBlock: b is treated as if it had been received first.  A block with
\* less work than the tip is left alone.
PreciousBlock(t, b) ==
  /\ Rpc(t, "precious") /\ b \in known /\ Height[b] >= Height[tip]
  /\ LET r == IF Height[tip] > ids.precious THEN -1 ELSE ids.reverse
     IN  /\ seq' = [seq EXCEPT ![b] = r]
         /\ ids' = [next |-> ids.next, reverse |-> r - 1, precious |-> Height[tip]]
  /\ cand' = IF b \in (haveData \intersect chainTx) \ FailedMask
             THEN Prune(seq', cand \union {b}, tip) ELSE cand \ {b}
  /\ UNCHANGED <<known, haveData, chainTx, failed, failedChild, unlogged, unlinked, tip>>

(***************************************************************************)
(* FlushStateToDisk, and a restart of the process                          *)
(***************************************************************************)
\* The entries that may be missing in setDirtyBlockIndex: a mark of
\* FindMostWorkChain is all that is new in them.
Skippable == unlogged \intersect (saved.haveData \ (saved.failed \union saved.failedChild))

\* The entries in setDirtyBlockIndex are written, at intervals and before every
\* write of the coins; the coins, with their best block, follow only when the
\* cache is large or old, and at shutdown.  Whether a skippable entry is written,
\* because ConnectBlock found the block valid since the last time, is left open.
\* (What is on disk matters before a restart only.)
FlushStateToDisk ==
  /\ count.restarts < MaxRestarts
  /\ \E best \in {tip, saved.tip}, skipped \in SUBSET Skippable :
       /\ saved' = [known |-> known, haveData |-> haveData, failed |-> failed,
                    failedChild |-> failedChild \ skipped, tip |-> best]
       /\ unlogged' = skipped
  /\ saved' # saved
  /\ UNCHANGED <<known, haveData, chainTx, failed, failedChild, seq, cand, unlinked,
                 tip, ids, csMain, th, count>>

\* The process stops, by a shutdown or a crash, and starts again from what is
\* on disk: LoadBlockIndexDB, LoadChainTip, RewindBlockIndex, and ThreadImport
\* activates the best chain.
Restart ==
  /\ count.restarts < MaxRestarts
  /\ count' = [count EXCEPT !.restarts = @ + 1]
  /\ known' = saved.known /\ haveData' = saved.haveData
  /\ failed' = saved.failed /\ failedChild' = saved.failedChild /\ unlogged' = {}
  /\ chainTx' = {b \in haveData' : Anc[b] \subseteq haveData'}
  /\ unlinked' = {b \in haveData' \ {Genesis} : Prev[b] \notin chainTx'}
  /\ seq' = [b \in Block |-> 0]
  /\ tip' = saved.tip
  /\ cand' = Prune(seq', chainTx' \ (failed' \union failedChild'), tip')
  /\ ids' = [next |-> 1, reverse |-> -1, precious |-> 0]
  /\ csMain' = Nil
  /\ th' = [t \in Threads |-> IF t = Import THEN Activating("activate") ELSE Idle]
  /\ UNCHANGED saved
-----------------------------------------------------------------------------
Next ==
  \/ \E b \in Block : AcceptHeader(b)
  \/ \E t \in Threads, b \in Block, r \in BOOLEAN : AcceptBlock(t, b, r)
  \/ \E t \in Threads : \/ FindMostWorkChain(t) \/ DisconnectTip(t)
                        \/ ConnectBlock(t) \/ UpdateHotBlock(t)
  \/ \E t \in Threads, b \in Block : \/ InvalidateBlock(t, b)
                                     \/ ReconsiderBlock(t, b)
                                     \/ PreciousBlock(t, b)
  \/ FlushStateToDisk
  \/ Restart

Spec == Init /\ [][Next]_vars

\* Every thread goes on with what it has begun: cs_main is always released, and
\* the operating system schedules every thread.
Steps(t) == FindMostWorkChain(t) \/ DisconnectTip(t) \/ ConnectBlock(t) \/ UpdateHotBlock(t)

FairSpec == Spec /\ \A t \in Threads : SF_vars(Steps(t))
-----------------------------------------------------------------------------
Thread == [pc : {"idle", "activate", "step", "hot"},
           job : {"none", "process", "activate"},
           mostWork : Block \union {Nil}, oldTip : Block \union {Nil}]

TypeOK ==
  /\ known \subseteq Block /\ haveData \subseteq known /\ chainTx \subseteq haveData
  /\ failed \subseteq known /\ failedChild \subseteq known /\ unlogged \subseteq failedChild
  /\ seq \in [Block -> Int]
  /\ cand \subseteq chainTx /\ unlinked \subseteq haveData \ chainTx
  /\ tip \in chainTx
  /\ saved \in OnDisk
  /\ ids \in [next : Nat, reverse : Int, precious : Nat]
  /\ csMain \in Threads \union {Nil}
  /\ th \in [Threads -> Thread]
  /\ count \in [rpcs : 0 .. MaxRpcs, restarts : 0 .. MaxRestarts]

\* No thread is in ActivateBestChain.
AtRest == \A t \in Threads : th[t].pc \in {"idle", "hot"}

\* CheckBlockIndex, "the failed mask cannot be set for blocks without invalid
\* parents": a mark that was inherited goes when its cause goes.
FailedHasCause ==
  csMain = Nil => \A b \in FailedMask : Anc[b] \intersect failed # {}

\* No block of the chain on disk carries a mark on disk.  The index is written
\* more often than the coins, so a mark can get there before the coins leave the
\* chain it is in; the node then starts with a tip that is marked.
CleanDisk == Anc[saved.tip] \intersect (saved.failed \union saved.failedChild) = {}

\* CheckBlockIndex: a block that sorts at least as good as the tip, has all its
\* data and no invalid ancestor is a candidate, and so is the tip; without it
\* the node would never switch to that block.  (Unless the node started, or
\* would start, from a tip that is marked.)
CandidatesComplete ==
  AtRest /\ CleanDisk =>
    \A b \in chainTx : ~Worse(seq, b, tip) /\ Anc[b] \intersect failed = {} => b \in cand

\* CheckBlockIndex: nothing worse than the tip, and nothing whose data is
\* incomplete, is a candidate.
CandidatesSound ==
  AtRest => \A b \in cand : b \in chainTx /\ ~Worse(seq, b, tip)

\* PruneBlockIndexCandidates asserts that setBlockIndexCandidates is not empty:
\* "Either the current tip or a successor of it we're working towards is left".
CandidateLeft == CleanDisk => cand # {}

\* CheckBlockIndex: nChainTx is set only for blocks that have their data and that
\* of all their ancestors, whatever the order in which it arrived, and for all of
\* those whose ancestors carry no mark.  (A block that arrives below a marked one
\* is not entered in mapBlocksUnlinked, and its nChainTx is never set.)
ChainTxExact ==
  /\ \A b \in chainTx : Anc[b] \subseteq haveData
  /\ \A b \in known : Anc[b] \subseteq haveData /\ Anc[b] \intersect failed = {} => b \in chainTx

\* CheckBlockIndex: a block that waits for the data of an ancestor is in
\* mapBlocksUnlinked, where the arrival of that data will find it.
UnlinkedComplete ==
  \A b \in haveData \ chainTx : Anc[b] \intersect failed = {} => b \in unlinked

\* The active chain has no block that was found or declared invalid.
ActiveChainValid == csMain = Nil => Anc[tip] \intersect FailedMask = {}

\* "The result is either failure or an activated best chain": when no thread is
\* in ActivateBestChain any more, no chain with complete data and without an
\* invalid block has more work than the active one.
BestChainActive ==
  AtRest => \A b \in chainTx : Anc[b] \intersect failed = {} => Height[b] <= Height[tip]

\* A thread that has entered ActivateBestChain comes back.
ActivationEnds == \A t \in Threads : th[t].pc # "idle" ~> th[t].pc = "idle"
=============================================================================
