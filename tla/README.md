# Verification of mutableBitcoin

TLA+ models of the `uChain`, a fork of Bitcoin Core 0.15.0 in which the data of
a transaction can be changed after it was mined. The models are
translated from `src/bitcoin-0.15.0/src/`; `PROJECT.json` maps every definition
to the lines it stands for. TLC checks them on small instances, and TLAPS proves
some of the results for all values of the constants.

## The system

A transaction has, next to what Bitcoin gives it, four chameleon values
(`rValue`, `sValue`, `rscriptSig`, `sscriptSig`). Its txid is a chameleon hash of
its content under `rValue`, `sValue`; what a legacy signature covers of its
outputs is a chameleon hash under the other two. A transaction whose OP_RETURN
data starts with `6a226444` (hide) or `6a226341` (replace) and a txid is an
*order*. Once its block is `MIN_MUTABLETX_AGE` = 100 deep, every node rewrites the
named transaction in its block file, with new chameleon values that leave the
txid and the signatures valid. The header field `hashUChainVersion` commits to a
Merkle-Patricia trie of the versions of all transactions that were rewritten.

| Part | Source | Module |
|---|---|---|
| chameleon hash | `chameleon.h` | `ChameleonHash` |
| rewriting one transaction | `validation.cpp` (steps 1–6 of `CheckBlockUChain`), `primitives/transaction.cpp`, `hash.h`, `script/interpreter.cpp` | `MutableTx` (extends `ChameleonHash`) |
| tree of blocks | `chain.h`, `chain.cpp` | `BlockIndex` |
| block index, chain activation, RPCs on it, flush and restart | `validation.cpp`, `chain.h`, `chain.cpp`, `rpc/blockchain.cpp` | `ChainState` (extends `BlockIndex`) |
| orders, trie, root caches, block files, templates, `verifychain` | `validation.cpp`, `miner.cpp`, `init.cpp` | `UChain` (extends `ChainState`) |
| coins views, their flags and the batches of the database | `coins.cpp`, `coins.h`, `txdb.cpp` | `CoinsCache`, implements `Coins` |
| blocks on the coins, undo data, flush order, crashes, `ReplayBlocks` | `validation.cpp` | `ChainCoins` (extends `CoinsCache`) |
| memory pool and its repair after a reorganisation | `txmempool.cpp`, `txmempool.h`, `validation.cpp` | `TxMemPool` (the operations of CTxMemPool; extends `BlockIndex`), `Mempool` (the steps) |
| background threads and callbacks | `scheduler.cpp`, `scheduler.h` | `Scheduler`, implements `CallbackQueue` |

How they fit together:

- `UChain` is a composition: each of its actions is the action of `ChainState` for
  the same function, conjoined with what the function does to the trie, the caches,
  the files, the transaction index and the memory pool.
- `MutableTx` justifies the abstraction `UChain` makes: that the version of a transaction
  depends on the last order alone (`LastOrderDecides`), so that a version is one of "orig",
  "hide", "replace", and a trie is a function from transactions to versions.
- `ChainCoins` makes the calls of ConnectBlock, DisconnectBlock and ReplayBlocks on the
  views of `CoinsCache`. `ContractKept` states that they stay within what `CoinsCache`
  allows its callers, for which the proofs about `CoinsCache` hold.
- `Mempool` takes the coins as a function of the tip; this is what `UtxoExact` of `ChainCoins` establishes.
  A rewritten transaction keeps its txid and its inputs, and its data is in an OP_RETURN
  output, which never becomes a coin: the coins and the pool do not depend on versions.
- `Coins` and `CallbackQueue` are abstract specifications: what a component promises,
  without caches, flags, threads or locks.

The `MC*` modules define the instances; the `*Proofs` modules hold the theorems.

## The models

**ChameleonHash.** `cHash`, `hCol` (with its `k` of 1) and `hVer` over the integers. The
modular operations of the Crypto++ library are modelled by what they do, including
that `Add` and `Subtract` modulo q correct their result only once: `cHash` subtracts
a residue modulo p = 2q + 1. SHA256 is the constant operator
`hashInput`. The assumptions are the group order the constructor
asserts, that digests are in Zq, and three number-theoretic facts: exponentiation yields residues,
the trapdoor cancels (`Trapdoor`), and -1 is not in the subgroup of g, from which
it follows that the single correction suffices. TLC
evaluates them for p = 23.

**MutableTx.** The state is the stored transaction `tx`, the mined one `tx0`, and
the last order; an action executes an order. A script is its size and its fill
byte; what `CScript` puts in front of the data has one byte below 76 bytes of data, then two, from 256 on
three and from 65536 on five (`PushSize`).

**ChainState.** The block index is a set of sets: `known` (mapBlockIndex),
`haveData`, `chainTx` (nChainTx > 0), `failed` and `failedChild`, `cand`
(setBlockIndexCandidates), `unlinked` (mapBlocksUnlinked), with the sequence ids
`seq` and the tip. A thread has a program counter and the local variables of
ActivateBestChain. A critical section of `cs_main` is one action; an iteration
of ActivateBestChain is one action per DisconnectTip and ConnectTip with `csMain`
held, because a flush may happen in between. Between
iterations the lock is free and the thread keeps `pindexMostWork`, as the code
does. `FlushStateToDisk` writes the index, with or without the coins; `Restart`
loads what was written. FindMostWorkChain marks blocks without putting them into
setDirtyBlockIndex: `unlogged` are the blocks with such a mark, and a flush may leave them out (`Skippable`),
so that a restart forgets the mark. A block that nobody asked for is dropped when it is `MinBlocksToKeep` ahead of
the tip (288 in the code, 2 in the runs). All blocks have the same work, and nothing is pruned;
RewindBlockIndex then has nothing to do, and ReplayBlocks is in `ChainCoins`.

**UChain.** `u` is the record of `mpt`, `mptCache`, `mptList` and their heights.
`Created`, `Overridden` and `Rewritten` are the three modes of CheckBlockUChain.
`getNextRoot` and `cacheGetNextRoot` are functions of `u`; the recursion of the
latter is two recursive functions, for the case that goes down to a known root
and the one from scratch. An assertion that fails, a trie that was not opened, and
a recursion that does not end set `u.fault`, after which nothing happens.
`Expected` is the reference definition, independent of caches and files: the newest order for each
transaction that is `Age` deep. Headers of miners that follow the rules have this
root; those in `LateMiner` leave out the order that is just due. Peers deliver a
block as mined, or as their own files have it.

**CoinsCache.** Two caches, the view of the block in progress and `pcoinsTip`, on top of the
database `db`. A cache maps an outpoint to a coin with its DIRTY and FRESH flags. `FetchCoin`,
`AddCoin`, `SpendCoin`, `BatchWrite` and `Uncache` are translated one to one; the actions are calls
on the view or on `pcoinsTip`. A flush writes `pcoinsTip` to the database in batches
(`PartialBatch` with any subset of the entries, since the order is that of an unordered map, and `FinalBatch`),
and a crash may come between any two. `goal` is a history variable: the state that an
unfinished flush is on the way to. In this module a crash in a flush is
repaired in one step, `Recover`; `ChainCoins` replaces it by ReplayBlocks, call by call.
`Coins`, with the mapping in `CoinsSpec`, has three flat maps instead: the
coins at the tip, those with the block in progress, and those on disk.

**ChainCoins.** A function that goes over a block is a *job*, the sequence of the calls it makes
(`ConnectBlock`, `DisconnectBlock`, `RollforwardBlock`); each call is one step, so
that a block can fail half way, a crash can come anywhere, and each call sees what
the ones before it left in the caches. Undo data is written when a block is first connected
and found again later; `saved` is what of it, and of the index, is on disk.
A failed assertion (`assert(is_spent)` of UpdateCoins among them), an exception, or a start that cannot load the chain sets
`fault`. The transactions of a block have no input twice; this is an assumption (see Not modelled). `Utxo` is the reference definition, straight from the blocks of a chain.

**TxMemPool, Mempool.** The methods of CTxMemPool are operators from a pool to a pool in `TxMemPool`; `Mempool`
has the state and the steps that call them. `pool.tx` is mapTx: an entry has its fee delta, its links to parents and children, and
the number, size and fees of its packages of ancestors and descendants, updated
incrementally as in the code. `pool.next` is mapNextTx and `pool.delta` is mapDeltas. A
reorganisation is a sequence of steps under `cs_main` with the disconnectpool `queued`. The order of the
disconnectpool is that of the disconnected chain, so `queued` is a set and `Earlier` gives its order. A walk
along the links is the least set that they do not lead out of (`Reachable`), the rounds of
removeForBlock, UpdateTransactionsFromBlock and TrimToSize are recursive functions, and `BlocksConnect` assumes of the
blocks outside `Invalid` what ConnectBlock checks of them.
PrioritiseTransaction may come between any two steps of a reorganisation, because LoadMempool calls it without `cs_main`.
Left open, that is nondeterministic: whether a rule on a single transaction (standardness, scripts, minimum fee)
refuses it, which entries have expired or are no longer final, and which of two
packages with the same fee rate goes first. Fee rates are compared exactly, and memory is counted in the unit of `Size`.

**Scheduler.** Service threads, callers and the main thread, each with a program counter; a section
under `newTaskMutex` or `m_cs_callbacks_pending` is one step. A wait on the condition variable
ends by a notification, a timeout, an interruption or for no reason
(`SpuriousWakeup`). The tasks are one that repeats itself and the copies of ProcessQueue. Either returns, or is
interrupted and throws. The end is interrupt_all or stop, then join_all, then EmptyQueue. The
condition variable and the clock belong to boost and are modelled from how
`scheduler.cpp` uses them.

## Runs

| Run | Shows | Bounds |
|---|---|---|
| `mutable` | `TxTypeOK`, `PlainTxidKept`, `WitnessHashKept`, `SignaturesKept`, `LastOrderDecides`, `SizeKept` | group of order 11; script sizes 1, 2, 36, 77, 78, 257; with and without a witness; 3 orders |
| `chain_index` | the assertions of CheckBlockIndex (`ChainTxExact`, `UnlinkedComplete`, `CandidatesSound`, `CandidatesComplete`, `FailedHasCause`, `CandidateLeft`, `TypeOK`) and `BestChainActive` | tree `Comb` (1-2-3, and 4 on 1), 3 invalid; one thread, two calls of invalidateblock or preciousblock, one crash and restart; 913,349 states |
| `chain_live` | `ActiveChainValid`, `ActivationEnds` | tree `Fork` (1-2-3 and 4-5), 2 invalid, 5 malformed; two threads, one preciousblock or reconsiderblock; 57,237 states |
| `uchain_twig` | `UTypeOK`, `HonestAccepted`, `CachedRoots`, `FilesUpToDate`, `NoAbort` | 1-2-3, then 4 or 5-6-7; five sets of orders; Age 2; a clean restart; verifychain |
| `uchain_templates` | `TemplateRoot`, `RootsEnforced` | 1-2-3-4 and 5 on 3, the latter by a miner that leaves out a due order; any order of arrival, templates, a restart, verifychain 4; 325,692 states |
| `uchain_crash` | `OnlyOrdered`, `RewrittenWhenDue` | a chain of four blocks, two threads, one call of any of the three RPCs, one crash; 431,298 states |
| `coins` | `FlagsSound`, `UtxoExact`, `NoFault`, `ContractKept`, and that `CoinsCache` implements `Coins` (`CoinsSpec`) | eight blocks: two with the same coinbase, branches of one and two blocks after them that share a transaction, two invalid blocks; six outpoints, one of them unspendable; two crashes; 63,100 states |
| `scheduler` | `STypeOK`, `ServicingExact`, `ShutdownEnds`, `DueTaskTaken`, and that the client implements `CallbackQueue` (`CallbacksServed`) | two service threads, two callers, two callbacks, a task of period 1, two points in time; 176,047 states |
| `mempool` | `MTypeOK`, `PackagesMatchLinks`, `LinksExact`, `PoolMinable`, `DisconnectedApart` | three branches, one with an invalid block; chains of four dependent transactions, a diamond, conflicts with blocks, a replacement, a spent coinbase; pool of 4, disconnectpool of 3, maturity 2, one prioritisation; 112,855 states |

Why the bounds are enough: the trees have a fork that forces a disconnect of two blocks, an
invalid block in the middle of the longer branch, and blocks that wait for their
parents; Age 2 on chains of four to six lets an order become due, be followed by a second
one and be reorganised away; three orders are one more than an argument about
"the version before" can see. The two crashes of `coins` are one in a flush and one in the repair of
it; its two branches undo blocks of which the database has any part. Two service threads and two callers suffice for every
pair of sections to overlap, and two callbacks for an order. The pool and the disconnectpool are
smaller than the branches, so that both overflow in a reorganisation; the diamond
has two paths to count once. For what is proved as well (below) the bounds do not matter.

Deadlock is checked except in the MutableTx runs, which stop at their bound, in `uchain_crash`, where a fault
ends the process, and in `scheduler`, which ends after EmptyQueue.

Each property has a mutant in `PROJECT.json`: a definition with a plausible bug
that makes TLC find the property violated.

### Disagreements

Three runs expect a violation and show where the code does not do what a
comment or an assertion says (the quotes are in `PROJECT.json`).

| Run | What happens |
|---|---|
| `mutable_witness` | the txid collision is for the digest with the witness, so a transaction with a witness changes its txid |
| `chain_two_threads` | ActivateBestChain takes up a stale target and disconnects a better tip |
| `uchain_gap` | orders that became due while several blocks were connected are never applied to the files; the node starts again from these files, and `verifychain` at level 5 then aborts |

The models show more of them. They have no run of their own; with the constants
below, in place of those of the run named, TLC prints the behaviour (the last two rows need trees of their own).

| Property | Constants | What happens |
|---|---|---|
| `ActiveChainValid` | `chain_index`, tree `Fork`, two threads, invalidateblock | a thread connects its stale target after invalidateblock marked it |
| `CandidatesComplete` | `chain_index`, tree `Fork`, invalidateblock and reconsiderblock | reconsiderblock clears ancestors and does not make them candidates |
| `FailedHasCause` | `chain_index`, invalidateblock and reconsiderblock | reconsiderblock leaves an inherited mark on a cousin without a cause |
| `UnlinkedComplete`, `ChainTxExact` | the same | a block that arrives below a marked one is not entered in mapBlocksUnlinked; after reconsiderblock it is never linked |
| `HonestAccepted` | `uchain_twig`, templates, verifychain 4 only | the root of a template, stored by height, rejects a valid block after a reorganisation |
| `CachedRoots` | `uchain_twig`, block 7 by a miner that leaves out an order | a rejected block leaves the trie ahead, and it is stored as the root of the tip |
| `NoAbort` | `uchain_templates`, verifychain 5 | verifychain rewinds a trie that a template advanced, and its assertion fails |
| `NoAbort` | crashes, a tree where a branch without block 2 orders a transaction of block 2 | the transaction index names an unknown block |
| `HonestAccepted` | `uchain_twig` with a block 8 on 7, the data in block 4 and the order in block 6 | an order for a transaction that is only in a disconnected block is carried out, unless the transaction is back in the memory pool |

`SizeKept` and `LastOrderDecides` are limited to scripts that fit one length byte: a
script of 78 or more bytes grows with every order, because CScript then
writes an opcode in front of the length. `CandidateLeft` and `CandidatesComplete` are
limited to a best block on disk that carries no mark there (`CleanDisk`): the index is written more often than the
coins, and a crash after invalidateblock can leave a node that starts from a marked tip, without candidates.

In the scheduler, a thread that has waited for the first task takes whatever is first when it wakes. With several
service threads another one may have taken the task in between, and the next
one runs early, although `scheduler.h:45` says "Call func at/after time t". The node starts one service thread,
and no property here says otherwise.

The passing runs leave out the step that leads to these: `chain_index` has one thread and no reconsiderblock,
`chain_live` no invalidateblock, `uchain_twig` takes no templates, has only honest
miners and receives blocks after their parents. Their bounds are as wide as the
disagreements allow, and the theorems say what holds without such a restriction.

### Fairness

`ActivationEnds` assumes strong fairness of the steps of each thread. cs_main is
always released, and a thread that waits for it gets it eventually; since other
threads take the lock in between, the steps of a thread are enabled again and
again, not continuously, and weak fairness would not express this. New blocks, RPCs,
flushes and restarts are not assumed to happen.

The scheduler run assumes weak fairness of the steps of each thread, of the clock, and of the main
thread once it shuts down: a thread that can run does, a mutex is held for a bounded
number of instructions, and a callback returns or throws. Nobody is assumed to add a
callback or to shut down. `ShutdownEnds` is about stop(false) and interrupt_all;
stop(true) waits for an empty queue, which a repeating task never leaves.

## Proofs

All theorems hold for every finite block tree, number of threads, bound, and set of
transactions, outpoints or callbacks that satisfies the named assumptions of the modules
(`BlockTree`, `ChainStateConstants`, `UChainConstants`, `MutableTxConstants`, `TxMemPoolConstants`,
`MempoolConstants`, `BlocksConnect`, `SchedulerConstants`, those of `ChameleonHash` and `CoinsCache`). Restrictions on the RPCs
and threads are in the statement of a theorem; without them it is false (see Disagreements).

- `NodePartsProofs`, one transaction. `CollisionCorrect`: `hCol` returns values that `cHash`
  accepts and that collide. The inductive invariant of `TxInvariance` adds to the types how far a
  script has grown and the two hashes; it gives `TypeIsKept`, `HashesAreKept`, `SignaturesStayValid` and, for transactions
  without a witness, `TxidIsKept` (`PlainTxidKept`). For scripts of 2 to 77 bytes, `SizeIsKept`, and `LastOrderCounts`: `Mutated`
  depends on the size and on the hashes, which are kept, and so not on
  the orders before.
- `BlockTreeProofs`. Lemmas on finite sets (induction over the subsets of a finite set, sums, counting), on the
  tree (ancestors are linear, one at each height, by a least-counterexample argument) and on
  CBlockIndexWorkComparator (a strict total order, so that a best candidate exists).
- `ChainStateProofs`, types. `IInv` adds to `TypeOK` that `chainTx` is closed under
  ancestors (`Rooted`), that targets of threads have complete data (`Targets`), and that the
  best block on disk has its data there (`Recoverable`); without them a ConnectTip or a
  Restart could make a block without data the tip. `TypeCorrect` follows.
- `ChainStateProofs`, the index. `ActiveChainIsValid` (no invalidateblock) rests on `MarksJustified`: marks have their cause in
  blocks that the rules exclude, and no excluded block is connected. `CandidatesAreSound` (no preciousblock):
  `Pruned` is inductive together with `IInv`. `MarksHaveCause`, `WaitingBlocksAreKept` and
  `LinkingIsExact` (no reconsiderblock): `MarksCaused` and `LinkedUp` say the same of the index on disk, and of every
  moment inside an iteration, since a crash may make either the current index.
- `ChainStateProofs`, `ActiveChainProofs`, the best chain. In a reorganisation the tip goes down, and the candidates are not complete
  with respect to it. `FallBack` says that they are complete down from some block that ConnectBlock
  accepts, the one that the node can return to when the reorganisation fails; this gives `CandidateIsLeft` (none
  of the three RPCs, any number of threads). With one thread (`ActiveChainProofs`), `TargetBest` adds that the target of ActivateBestChain is
  the best block there is, and `PreciousIds` that the ids of preciousblock go down at one height, so that the
  newest precious block wins. `BestInv`, the conjunction, gives `BestChainIsActive` and `CandidatesAreComplete`: no
  reconsiderblock, not both invalidateblock and preciousblock, and as long as `CleanDisk` holds, which
  `DiskStaysClean` proves when invalidateblock is not used. With two threads the first is
  false (run `chain_two_threads`); with both RPCs the second is: the ids of preciousblock start again when the tip is higher than at its last
  call, and after invalidateblock took the tip down again, a block can get an id worse than the one it had (TLC finds it with seven calls on
  a fork of three blocks).
- `PoolProofs`, `PoolRepairProofs`, `MempoolProofs`. `InOrder` says of a pool that its entries have their types and positive packages,
  that links go both ways, that packages are those of the links, that mapNextTx is what the entries spend, that
  the links are those of the inputs except from the entries of vHashUpdate to children outside it (`LinksAre`), that
  pool, queue and chain are apart, that every input is in the pool, in the queue or a coin (`Supplied`), and that nothing
  that was disconnected spends an entry that came on its own (`Above`). The last is what makes the gaps of the links come
  in one direction only, and the removal in the middle of a reorganisation right. `PoolProofs` has the
  operators one by one: sums and packages, walks along links, addUnchecked, RemoveStaged, removeRecursive, removeForBlock,
  acceptance; `PoolRepairProofs` priorities, the limits, removeForReorg and UpdateTransactionsFromBlock, whose
  rounds keep `Relinking`: the entries done so far have their final packages, the cache has their
  descendants outside vHashUpdate. `MempoolProofs` has the state machine: `IInv` adds that only blocks that connect are in the
  chain, that what is in the queue and in vHashUpdate was in the old chain and in its order, where the tip is
  between the old one and the target, and when coinbases may be immature. It gives `MempoolTypes`, `PackagesAreRight`,
  `LinksAreExact`, `PoolIsMinable` and `DisconnectedAreApart`.
- `ActiveChainProofs`, the uChain. What CheckBlockUChain writes to a file, and what a peer serves, is what an
  order that is due says (`RewrittenDue`, `ServedDue`; `Explained` names the order). Every step of `UChain` keeps `IInv` of the block index, although
  blocks may fail for their root as well (`IndexStep`). The files change only when a block is
  stored or in updateHotBlock (`FilesStep`); in both cases an order stands behind it. This
  gives `DataLostOnlyOnOrder` and, for each step, `RewritingIsDue`: with crashes, stale
  targets and reorganisations between ActivateBestChain and updateHotBlock.
- `NodePartsProofs`, the coins. The invariant is `CoinsTypeOK`, `FlagsSound` (an entry that is not DIRTY agrees with the layer
  below; FRESH means that the layer below has no such coin) and `FlushSound`
  (in the middle of a flush, `goal` is the database with what is still in the cache). `FlagsAreSound` follows,
  and `Implementation`: every step of the stack of caches is a step of `Coins` or
  leaves its three maps alone. `FlushSound` is proved and not part of the run, because ReplayBlocks,
  which `CoinsCache` has as one step, goes through states without it.
- `SchedulerProofs`. `SInv` says where a thread can be with which task, that at most one thread is
  between setting and resetting m_are_callbacks_running, and that the count is
  that of the living threads. It gives `CountIsExact`, `QueueIsSorted`, and
  `CallbacksInOrder`: the safety half of the refinement, initial states and every step.

Only model-checked: liveness, which is out of the prover's reach (`ActivationEnds`, `ShutdownEnds`,
`DueTaskTaken` and the fairness half of `CallbacksServed`); `UTypeOK`, the types of the state that `UChain` adds; the properties about roots (`HonestAccepted`,
`CachedRoots`, `TemplateRoot`, `RootsEnforced`, `FilesUpToDate`, `NoAbort`), which hold only within the
restrictions of their runs, and where what the recursive functions of the caches compute needs induction over data; and `UtxoExact`, `NoFault` and
`ContractKept`, which are about what a sequence of calls does.

## Not modelled

The components of `PROJECT.json` list every part of the repository. Left out, and why:

- **Peer message processing, the network and HTTP layers.** Which block is asked of whom, and when a peer is
  dropped, depends on wall-clock time, on scores and on libevent. What reaches the modelled
  state is blocks, headers and transactions in any order and RPCs at any time, which the models have.
- **The script check queue.** Out of use: ConnectBlock sets `nScriptCheckThreads` to 0 (`validation.cpp:2134`).
- **Version bits, proof of work.** Functions of a chain of headers. The cache of the former is keyed by index entries, whose
  ancestors never change. All blocks of the models have the same work.
- **EvalScript, standardness, fee estimation, coin selection, JSON conversions.** Large functions without shared
  state; the models let them refuse at will.
- **Address manager, signature cache.** Random eviction and hash positions; no modelled state depends on them.
- **Pruning, `-reindex`, upgrades of old databases.** They need block files as files, with positions and gaps; the models know a block file
  by the versions of its transactions. During `-reindex`, InitMerkelPatriciaTree returns before it sets
  fMPTinit (`validation.cpp:331`), and a block above height 100 then fails an assertion.
- **What the storage loses.** A write that returned is on disk. LevelDB writes that were not
  synchronised can be lost in a power failure; the code relies on LevelDB for that.
- **Blocks with a transaction that spends an outpoint twice.** `ChainCoinsConstants` excludes them, and so `NoFault` and
  `UtxoExact` say nothing of them. CheckBlock calls CheckTransaction without the test for
  duplicate inputs (`validation.cpp:3167`); after it only `assert(is_spent)` (`validation.cpp:1513`) looks.
- **Parts of modelled components.** VerifyDB on coins at levels 3 and 4, the undo format without heights
  (`ApplyTxInUndo` with nHeight 0), the accounting of cache memory, a failure of DisconnectTip after its view was flushed;
  orders for orders; blocks that ThreadImport connects before the trie is opened (the step and its fault are in
  `UChain`, no run states what should happen). Signatures of witness programs cover the plain hash of the outputs
  (`script/interpreter.cpp:1201`), which a mutation changes; `SignaturesKept` is about legacy signatures.
- AddToProcessQueue has no caller in this version, and the node has one service thread; `Scheduler` is
  about what the code promises to callers and to any number of threads.
- Vendored libraries, the graphical interface, ZMQ, tests, the IDE and proof-of-concept folders, the Java client, and `bitcoin-0.14.0`.
