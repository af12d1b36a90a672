------------------------------- MODULE Mempool -------------------------------
(***************************************************************************)
(* The functions of validation.cpp that keep the memory pool in step with  *)
(* the active chain: AcceptToMemoryPool, the removal of what a connected   *)
(* block confirms or excludes, and UpdateMempoolForReorg.                  *)
(***************************************************************************)
EXTENDS TxMemPool

CONSTANTS
  Signals,         \* transactions that let themselves be replaced (BIP 125)
  Timelocked,      \* transactions that a reorganisation may make non-final
  LimitAncestors, LimitAncestorSize, LimitDescendants, LimitDescendantSize,
  MaxDescendantsToVisit, IncrementalRelayFee,
  MaxDisconnected, \* how many transactions fit in the disconnectpool
  Deltas, MaxPrioritise

ASSUME MempoolConstants ==
  /\ Signals \union Timelocked \subseteq Tx
  /\ MaxDisconnected \in Nat
  /\ Deltas \subseteq Int /\ 0 \notin Deltas

VARIABLES
  pool,       \* tx: mapTx with mapLinks; next: mapNextTx; delta: mapDeltas
  tip,        \* chainActive.Tip(); what is spent follows from it
  pc,         \* where the thread is that holds cs_main
  oldTip, target,
  queued,     \* disconnectpool.queuedTx; its insertion order is that of the chain, reversed
  fAdd,       \* fAddToMempool
  hashUpdate, \* vHashUpdate
  prioritised

reorgVars == <<oldTip, target, queued, fAdd, hashUpdate>>

vars == <<pool, tip, pc, reorgVars, prioritised>>

(***************************************************************************)
(* Accepting a transaction                                                 *)
(***************************************************************************)
WithinLimits(p, t) ==
  LET ancestors == NewAncestors(p, t)
  IN  /\ Cardinality(ancestors) + 1 <= LimitAncestors
      /\ ancestors # {} => Size[t] + Package(p, ancestors).size <= LimitAncestorSize
      /\ \A a \in ancestors : /\ p.tx[a].desc.n + 1 <= LimitDescendants
                              /\ p.tx[a].desc.size + Size[t] <= LimitDescendantSize

\* The rules of BIP 125, as AcceptToMemoryPoolWorker has them.
MayReplace(p, t) ==
  LET conflicts == Conflicts(p, t)
      evicted == CalculateDescendants(p, conflicts)
      new == [n |-> 1, size |-> Size[t], fee |-> Fee[t] + p.delta[t]]
  IN  /\ conflicts \subseteq Signals
      /\ \A c \in conflicts : PaysLess(Package(p, {c}), new)
      /\ SumFunctionOnSet([c \in conflicts |-> p.tx[c].desc.n], conflicts) <= MaxDescendantsToVisit
      /\ InputTxs(t) \intersect DOMAIN p.tx \subseteq UNION {InputTxs(c) : c \in conflicts}
      /\ new.fee - Package(p, evicted).fee >= IncrementalRelayFee * Size[t]

\* What AcceptToMemoryPoolWorker asks for, apart from the rules on a single
\* transaction (standardness, scripts, minimum fee), which may always refuse it.
Acceptable(p, t) ==
  /\ t \notin Coinbase \union DOMAIN p.tx
  /\ \A o \in Ins(t) : o[1] \in DOMAIN p.tx \/ (HaveCoin(tip, o) /\ Mature(tip, o))
  /\ WithinLimits(p, t)
  /\ Conflicts(p, t) \intersect NewAncestors(p, t) = {}
  /\ Conflicts(p, t) # {} => MayReplace(p, t)

(***************************************************************************)
(* The steps                                                               *)
(***************************************************************************)
Init ==
  /\ pool = [tx |-> <<>>, next |-> <<>>, delta |-> [t \in Tx |-> 0]]
  /\ tip = Genesis /\ oldTip = Genesis /\ target = Genesis
  /\ pc = "idle" /\ queued = {} /\ fAdd = TRUE /\ hashUpdate = <<>>
  /\ prioritised = 0

\* A transaction from a peer, the wallet, an RPC or mempool.dat.  Which entries
\* are old enough to expire is left open.
AcceptToMemoryPool(t) ==
  /\ pc = "idle" /\ Acceptable(pool, t)
  /\ LET accepted == Accepted(pool, t)
     IN  \E expired \in SUBSET (DOMAIN accepted.tx \ {t}) : pool' \in LimitMempoolSize(accepted, expired)
  /\ UNCHANGED <<tip, pc, reorgVars, prioritised>>

\* LoadMempool calls it without cs_main, so at any moment.
PrioritiseTransaction(t, d) ==
  /\ prioritised < MaxPrioritise /\ prioritised' = prioritised + 1
  /\ pool' = Prioritised(pool, t, d)
  /\ UNCHANGED <<tip, pc, reorgVars>>

\* ActivateBestChainStep for a block with at least the work of the tip, or
\* InvalidateBlock, which goes back to a block of the active chain.
StartMove(b) ==
  /\ pc = "idle" /\ b # tip /\ (Height[b] >= Height[tip] \/ b \in Anc[tip])
  /\ pc' = "moving" /\ target' = b /\ oldTip' = tip
  /\ fAdd' = TRUE
  /\ UNCHANGED <<pool, tip, queued, hashUpdate, prioritised>>

\* The loop is over when the target is reached or the chain is longer than it was.
AfterConnect(b) ==
  IF b # target /\ Height[b] <= Height[oldTip] THEN "moving"
  ELSE IF oldTip \in Anc[b] THEN "idle" ELSE "adding"

\* The transactions are queued from the last to the first; when there are too
\* many, the first in the queue are given up, with what depends on them in the pool.
DisconnectTip ==
  /\ pc = "moving" /\ tip \notin Anc[target]
  /\ LET all == queued \union Range(Body[tip])
     IN  \E lost \in SUBSET all :
           /\ Cardinality(all \ lost) <= MaxDisconnected
           /\ lost # {} => Cardinality(all \ lost) = MaxDisconnected
           /\ \A t \in lost, u \in all \ lost : Earlier(oldTip, u, t)
           /\ pool' = removeRecursive(pool, lost) /\ queued' = all \ lost
  /\ tip' = Prev[tip]
  /\ pc' = IF Prev[tip] = target THEN "adding" ELSE "moving"
  /\ UNCHANGED <<oldTip, target, fAdd, hashUpdate, prioritised>>

NextBlock == CHOOSE b \in Anc[target] : b # Genesis /\ Prev[b] = tip

\* Mutant: disconnectpool.removeForBlock is left out.
ConnectTip_KeepsQueue ==
  /\ pc = "moving" /\ tip \in Anc[target] /\ NextBlock \notin Invalid
  /\ pool' = removeForBlock(pool, NextBlock)
  /\ tip' = NextBlock /\ pc' = AfterConnect(NextBlock)
  /\ UNCHANGED <<oldTip, target, queued, fAdd, hashUpdate, prioritised>>

ConnectTip ==
  /\ pc = "moving" /\ tip \in Anc[target] /\ NextBlock \notin Invalid
  /\ pool' = removeForBlock(pool, NextBlock)
  /\ queued' = queued \ Range(Body[NextBlock])
  /\ tip' = NextBlock /\ pc' = AfterConnect(NextBlock)
  /\ UNCHANGED <<oldTip, target, fAdd, hashUpdate, prioritised>>

ConnectTipInvalid ==
  /\ pc = "moving" /\ tip \in Anc[target] /\ NextBlock \in Invalid
  /\ pc' = IF tip = oldTip THEN "idle" ELSE "adding"
  /\ UNCHANGED <<pool, tip, reorgVars, prioritised>>

\* DisconnectTip or ConnectTip fails because of the disk.
SystemError ==
  /\ pc = "moving"
  /\ pc' = "adding" /\ fAdd' = FALSE
  /\ UNCHANGED <<pool, tip, oldTip, target, queued, hashUpdate, prioritised>>

(***************************************************************************)
(* UpdateMempoolForReorg: mempool.cs is released between its calls         *)
(***************************************************************************)
\* The last in the queue is the first on the chain that was disconnected.
NextQueued(t) == t \in queued /\ \A u \in queued \ {t} : Earlier(oldTip, t, u)

AddBack(t) ==
  /\ pc = "adding" /\ NextQueued(t) /\ fAdd /\ Acceptable(pool, t)
  /\ pool' = Accepted(pool, t)
  /\ hashUpdate' = Append(hashUpdate, t) /\ queued' = queued \ {t}
  /\ UNCHANGED <<tip, pc, oldTip, target, fAdd, prioritised>>

\* The transaction is not to be added, or is refused.
GiveUp(t) ==
  /\ pc = "adding" /\ NextQueued(t)
  /\ pool' = removeRecursive(pool, {t})
  /\ queued' = queued \ {t}
  /\ UNCHANGED <<tip, pc, oldTip, target, fAdd, hashUpdate, prioritised>>

Relink ==
  /\ pc = "adding" /\ queued = {}
  /\ pool' = UpdateTransactionsFromBlock(pool, hashUpdate)
  /\ hashUpdate' = <<>> /\ pc' = "relinked"
  /\ UNCHANGED <<tip, oldTip, target, queued, fAdd, prioritised>>

RemoveForReorg ==
  /\ pc = "relinked"
  /\ \E nonFinal \in SUBSET (Timelocked \intersect DOMAIN pool.tx) :
       pool' = removeForReorg(pool, tip, nonFinal)
  /\ pc' = "cleaned"
  /\ UNCHANGED <<tip, reorgVars, prioritised>>

Limit ==
  /\ pc = "cleaned"
  /\ \E expired \in SUBSET DOMAIN pool.tx : pool' \in LimitMempoolSize(pool, expired)
  /\ pc' = "idle"
  /\ UNCHANGED <<tip, reorgVars, prioritised>>

Next ==
  \/ \E t \in Tx : AcceptToMemoryPool(t) \/ \E d \in Deltas : PrioritiseTransaction(t, d)
  \/ \E b \in Block : StartMove(b)
  \/ DisconnectTip \/ ConnectTip \/ ConnectTipInvalid \/ SystemError
  \/ \E t \in Tx : AddBack(t) \/ GiveUp(t)
  \/ Relink \/ RemoveForReorg \/ Limit

Spec == Init /\ [][Next]_vars

(***************************************************************************)
(* Properties                                                              *)
(***************************************************************************)

\* Types; the counts and sizes that UpdateAncestorState and UpdateDescendantState
\* assert to be positive are.
MTypeOK ==
  /\ DOMAIN pool.tx \subseteq Tx \ Coinbase
  /\ \A t \in DOMAIN pool.tx :
       LET e == pool.tx[t]
       IN  /\ e.parents \union e.children \subseteq DOMAIN pool.tx
           /\ {e.anc.n, e.anc.size, e.desc.n, e.desc.size} \subseteq Nat \ {0}
           /\ e.feeDelta = pool.delta[t]
  /\ tip \in Block /\ Cardinality(queued) <= MaxDisconnected
  /\ pc \in {"idle", "moving", "adding", "relinked", "cleaned"}

\* At every moment, in the middle of a reorganisation too, the packages that an
\* entry accounts for are those that its links lead to: the comment in
\* UpdateForRemoveFromMempool relies on this when it removes an entry whose
\* real ancestors are not linked yet.
PackagesMatchLinks ==
  \A t \in DOMAIN pool.tx :
    /\ pool.tx[t].anc = Package(pool, {t} \union Ancestors(pool, t))
    /\ pool.tx[t].desc = Package(pool, CalculateDescendants(pool, {t}))

\* Except between AddBack and Relink, the links and mapNextTx are what the inputs
\* of the entries say (CTxMemPool::check).
LinksExact ==
  /\ pool.next = [o \in UNION {Ins(t) : t \in DOMAIN pool.tx} |->
                    CHOOSE t \in DOMAIN pool.tx : o \in Ins(t)]
  /\ hashUpdate = <<>> => \A t \in DOMAIN pool.tx :
       /\ pool.tx[t].parents = InputTxs(t) \intersect DOMAIN pool.tx
       /\ pool.tx[t].children = {u \in DOMAIN pool.tx : t \in InputTxs(u)}

\* When cs_main is free the next block may contain the whole pool: every input is
\* an output of another entry or a mature coin of the active chain, and no coin
\* is spent twice, whatever a reorganisation took away and did not get back.
PoolMinable ==
  pc = "idle" =>
    /\ \A t \in DOMAIN pool.tx : \A o \in Ins(t) :
         o[1] \in DOMAIN pool.tx \/ (HaveCoin(tip, o) /\ Mature(tip, o))
    /\ \A t, u \in DOMAIN pool.tx : t # u => Ins(t) \intersect Ins(u) = {}

\* What UpdateMempoolForReorg assumes of the disconnectpool: its transactions are
\* neither confirmed in the active chain nor in the pool.
DisconnectedApart ==
  queued \intersect (DOMAIN pool.tx \union Confirmed(tip)) = {}
==============================================================================
