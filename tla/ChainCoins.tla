----------------------------- MODULE ChainCoins -----------------------------
(***************************************************************************)
(* The blocks that change the coins: ConnectBlock and DisconnectBlock on   *)
(* the view of ConnectTip and DisconnectTip, TestBlockValidity, the order  *)
(* in which FlushStateToDisk writes, and ReplayBlocks after a crash        *)
(* (validation.cpp).                                                       *)
(*                                                                         *)
(* A function that goes over a block is a job: the sequence of its calls   *)
(* on a cache.  cs_main is held from its start to its end.                 *)
(***************************************************************************)
EXTENDS CoinsCache, Naturals, SequencesExt

CONSTANTS
  Genesis, Prev,  \* the block tree
  Body,           \* the transactions of a block, with the outpoints they spend
                  \* (ins) and create (outs); the first is the coinbase
  Bip30Exempt,    \* the blocks that may overwrite coins
  Buried,         \* blocks too deep to be disconnected
  MaxCrashes

Height[b \in Block] == IF b = Genesis THEN 0 ELSE Height[Prev[b]] + 1

Anc[b \in Block \union {Nil}] == IF b = Nil THEN {} ELSE {b} \union Anc[Prev[b]]

\* A coin is the height that it was created at; the rest of it follows from
\* the outpoint.  No transaction spends an outpoint twice: CheckTransaction
\* refuses one that does, but CheckBlock calls it without that test.
ASSUME ChainCoinsConstants ==
  /\ Genesis \in Block /\ Prev \in [Block -> Block \union {Nil}] /\ Prev[Genesis] = Nil
  /\ \A b \in Block \ {Genesis} : Height[b] \in Coin /\ Body[b] # <<>> /\ Body[b][1].ins = <<>>
  /\ \A b \in Block : \A i \in DOMAIN Body[b] : IsInjective(Body[b][i].ins)
  /\ Body[Genesis] = <<>> /\ {Bip30Exempt, Buried} \subseteq SUBSET Block
  /\ MaxCrashes \in Nat

VARIABLES
  undo,     \* the undo data of a block, as its index entry finds it
  saved,    \* the same, for the index entries and files that are on disk
  job,      \* what is done to the coins at the moment
  fault,    \* the exception or failed assertion that ended the process
  crashes

chainVars == <<undo, saved, job, fault, crashes>>

ccVars == <<coinVars, chainVars>>

(***************************************************************************)
(* The calls that a job makes                                              *)
(***************************************************************************)
Call(op, o, coin) == [op |-> op, out |-> o, coin |-> coin]

Calls(op, outs, coin) == [i \in DOMAIN outs |-> Call(op, outs[i], coin)]

\* For each of the transactions txs, the calls that F gives for it.
ForEach(txs, F(_)) == FlattenSeq([i \in DOMAIN txs |-> F(txs[i])])

SetBestBlock(b) == <<Call("best", b, Spent)>>

\* Mutant: UpdateCoins adds the outputs of a coinbase as those of any transaction.
ConnectBlock_CoinbaseIsNew(b, bip30) ==
  LET Bip30(tx) == Calls("absent", tx.outs, Spent)
      Update(tx) == Calls("need", tx.ins, Spent) \o Calls("take", tx.ins, Spent)
                      \o Calls("add", tx.outs, Height[b])
  IN  (IF bip30 THEN ForEach(Body[b], Bip30) ELSE <<>>) \o ForEach(Body[b], Update)

\* ConnectBlock: the check of BIP 30, then for each transaction HaveInputs and
\* UpdateCoins.
ConnectBlock(b, bip30) ==
  LET Bip30(tx) == Calls("absent", tx.outs, Spent)
      Update(tx) == Calls("need", tx.ins, Spent) \o Calls("take", tx.ins, Spent)
                      \o Calls(IF tx = Body[b][1] THEN "overwrite" ELSE "add", tx.outs, Height[b])
  IN  (IF bip30 THEN ForEach(Body[b], Bip30) ELSE <<>>) \o ForEach(Body[b], Update)

Spendable(outs) == SelectSeq(outs, LAMBDA o : o \notin Unspendable)

\* HaveCoin, then AddCoin with what HaveCoin said.
Put(o, coin) == <<Call("look", o, coin), Call("put", o, coin)>>

\* DisconnectBlock with ApplyTxInUndo: from the last transaction to the first.
DisconnectBlock(b, undone) ==
  LET Undo(tx) == Calls("spend", Spendable(tx.outs), Height[b])
                    \o FlattenSeq([j \in DOMAIN tx.ins |->
                                     Put(Reverse(tx.ins)[j], undone[Reverse(tx.ins)[j]])])
  IN  ForEach(Reverse(Body[b]), Undo) \o SetBestBlock(Prev[b])

\* RollforwardBlock: every coin may be there already, or be spent already.
RollforwardBlock(b) ==
  LET Redo(tx) == Calls("spend", tx.ins, Spent)
                    \o FlattenSeq([j \in DOMAIN tx.outs |-> Put(tx.outs[j], Height[b])])
  IN  ForEach(Body[b], Redo)

\* The blocks of S, from the lowest to the highest.
Upwards(S) == SetToSortSeq(S, LAMBDA x, y : Height[x] < Height[y])

\* Mutant: the old branch is not rolled back.
ReplayBlocks_NoRollback(heads) ==
  ForEach(Upwards(Anc[heads.new] \ Anc[heads.old]), RollforwardBlock) \o SetBestBlock(heads.new)

\* ReplayBlocks: back along the old branch and forward along the new one.
ReplayBlocks(heads) ==
  LET Rollback(b) == DisconnectBlock(b, saved[b])
  IN  ForEach(Reverse(Upwards(Anc[heads.old] \ Anc[heads.new])), Rollback)
        \o ForEach(Upwards(Anc[heads.new] \ Anc[heads.old]), RollforwardBlock)
        \o SetBestBlock(heads.new)

NoUndo == [o \in {} |-> Spent]

Job(kind, b, todo) ==
  [kind |-> kind, block |-> b, todo |-> todo, undo |-> NoUndo, ok |-> TRUE]

Idle == Job("none", Nil, <<>>)

(***************************************************************************)
(* Actions                                                                 *)
(***************************************************************************)
CInit ==
  /\ Init
  /\ undo = [b \in Block |-> Nil] /\ saved = undo
  /\ job = Idle /\ fault = "none" /\ crashes = 0

Up == fault = "none" /\ job = Idle /\ db.heads = Nil

\* ConnectTip, or TestBlockValidity for a block template.
StartConnect(b, kind) ==
  /\ Up /\ Prev[b] = TipBest
  /\ job' = Job(kind, b, ConnectBlock(b, kind = "test" \/ b \notin Bip30Exempt)
                           \o IF kind = "test" THEN <<>> ELSE SetBestBlock(b))
  /\ UNCHANGED <<coinVars, undo, saved, fault, crashes>>

\* DisconnectTip.
StartDisconnect ==
  /\ Up /\ TipBest \notin Buried \union {Nil, Genesis}
  /\ job' = Job("disconnect", TipBest, DisconnectBlock(TipBest, undo[TipBest]))
  /\ UNCHANGED <<coinVars, undo, saved, fault, crashes>>

\* Whether the call c, which finds the coin found, says that the block is
\* invalid, or, in DisconnectBlock, that the coins do not match the block.
Refused(c, found) ==
  \/ c.op = "absent" /\ found # Spent
  \/ c.op = "need" /\ found = Spent
  \/ c.op = "spend" /\ found # c.coin
  \/ c.op = "look" /\ found # Spent

\* The job after the call c.
Advanced(c, found) ==
  LET stop == Refused(c, found) /\ job.kind \in {"connect", "test"}
  IN  [job EXCEPT !.todo = IF stop THEN <<>> ELSE Tail(job.todo),
                  !.ok = job.ok /\ ~Refused(c, found),
                  !.undo = IF c.op = "take" THEN Insert(job.undo, c.out, found) ELSE job.undo]

Overwrites(c, found) == c.op = "overwrite" \/ (c.op = "put" /\ found # Spent)

\* The next call of a job on the view.  Before SetBestBlock, ConnectBlock
\* writes the undo data of a block that has none.
BlockStep ==
  /\ fault = "none" /\ job.kind \notin {"none", "replay"} /\ job.todo # <<>>
  /\ LET c == Head(job.todo)
         found == IF c.op = "best" THEN Spent ELSE ViewCoins[c.out]
         writes == /\ c.op = "best" /\ job.kind = "connect"
                   /\ job.block # Genesis /\ undo[job.block] = Nil
         adds == c.op \in {"add", "overwrite", "put"}
         missing == c.out \notin DOMAIN FetchCoin(view.coins, TipCoins, c.out)
     IN  /\ \/ c.op \in {"absent", "need", "look"} /\ ViewAccess(c.out)
            \/ c.op \in {"spend", "take"} /\ ViewSpend(c.out)
            \/ adds /\ ViewAdd(c.out, c.coin, Overwrites(c, found))
            \/ c.op = "best" /\ ViewSetBest(c.out)
            \/ /\ adds /\ AddThrows(view.coins, c.out, Overwrites(c, found))
               /\ UNCHANGED coinVars
         /\ job' = Advanced(c, found)
         /\ fault' = IF adds /\ AddThrows(view.coins, c.out, Overwrites(c, found))
                     THEN "logic_error"
                     ELSE IF c.op = "take" /\ missing THEN "assert(is_spent)" ELSE "none"
         /\ undo' = IF writes THEN [undo EXCEPT ![job.block] = job.undo] ELSE undo
  /\ UNCHANGED <<saved, crashes>>

\* The view is flushed into pcoinsTip, or, for a block that failed and for a
\* template, thrown away.
BlockEnd ==
  /\ fault = "none" /\ job.kind \notin {"none", "replay"} /\ job.todo = <<>>
  /\ \/ job.ok /\ job.kind # "test" /\ ViewFlush
     \/ ~(job.ok /\ job.kind # "test") /\ ViewDrop
     \/ job.ok /\ job.kind # "test" /\ BatchThrows(tip.coins, view.coins) /\ UNCHANGED coinVars
  /\ fault' = IF job.ok /\ job.kind # "test" /\ BatchThrows(tip.coins, view.coins)
              THEN "logic_error"
              ELSE IF job.kind = "disconnect" /\ ~job.ok THEN "DisconnectTip failed" ELSE "none"
  /\ job' = Idle
  /\ UNCHANGED <<undo, saved, crashes>>

\* AcceptToMemoryPool and the RPCs read coins through pcoinsTip; a transaction
\* that is refused gives up what it brought into the cache.
Lookup(o) == Up /\ (TipAccess(o) \/ TipUncache(o)) /\ UNCHANGED chainVars

\* FlushStateToDisk: a periodic write has only its first part, the block files
\* and the block index.
PeriodicWrite ==
  /\ Up /\ saved' = undo
  /\ UNCHANGED <<coinVars, undo, job, fault, crashes>>

\* Mutant: the index is not written before the coins.
FlushBatch_CoinsFirst ==
  /\ fault = "none" /\ job.kind \in {"none", "replay"} /\ job.todo = <<>>
  /\ \/ \E S \in SUBSET Outpoint : PartialBatch(S) /\ UNCHANGED <<saved, job>>
     \/ FinalBatch /\ saved' = undo /\ job' = Idle
  /\ UNCHANGED <<undo, fault, crashes>>

\* The batches of pcoinsTip->Flush(), before the first of which the index and
\* the files are written; or those of the flush in ReplayBlocks, which asserts
\* that it writes what the one before the crash was to write.
FlushBatch ==
  /\ fault = "none" /\ job.kind \in {"none", "replay"} /\ job.todo = <<>>
  /\ \/ (\E S \in SUBSET Outpoint : PartialBatch(S)) /\ UNCHANGED job
     \/ FinalBatch /\ job' = Idle
  /\ saved' = undo
  /\ fault' = IF db.heads # Nil /\ db.heads.new # tip.best THEN "assert" ELSE "none"
  /\ UNCHANGED <<undo, crashes>>

Indexed(b) == b \in {Nil, Genesis} \/ saved[b] # Nil

\* What keeps the node from starting: blocks that the coins refer to and the
\* index does not have.
LoadError ==
  IF db.heads = Nil THEN ~Indexed(db.best)
  ELSE \E b \in Anc[db.heads.new] \union Anc[db.heads.old] : ~Indexed(b)

\* The process ends at any moment and is started again.
CrashRestart ==
  /\ fault = "none" /\ crashes < MaxCrashes
  /\ crashes' = crashes + 1
  /\ Crash
  /\ undo' = saved
  /\ fault' = IF LoadError THEN "unable to load" ELSE "none"
  /\ job' = IF db.heads = Nil \/ LoadError THEN Idle
            ELSE Job("replay", db.heads.new, ReplayBlocks(db.heads))
  /\ UNCHANGED saved

\* The next call of ReplayBlocks on its cache, which is on top of the database.
ReplayStep ==
  /\ fault = "none" /\ job.kind = "replay" /\ job.todo # <<>>
  /\ LET c == Head(job.todo)
         found == IF c.op = "best" THEN Spent ELSE TipCoins[c.out]
         throws == c.op = "put" /\ AddThrows(tip.coins, c.out, found # Spent)
     IN  /\ tip' = IF throws THEN tip
                   ELSE IF c.op = "best" THEN [tip EXCEPT !.best = c.out]
                   ELSE [tip EXCEPT !.coins =
                           CASE c.op = "look" -> FetchCoin(tip.coins, db.coins, c.out)
                             [] c.op = "spend" -> SpendCoin(tip.coins, db.coins, c.out)
                             [] c.op = "put" -> AddCoin(tip.coins, c.out, c.coin, found # Spent)]
         /\ fault' = IF throws THEN "logic_error" ELSE "none"
         /\ job' = [job EXCEPT !.todo = Tail(job.todo)]
  /\ UNCHANGED <<view, db, goal, undo, saved, crashes>>

CNext ==
  \/ \E b \in Block, kind \in {"connect", "test"} : StartConnect(b, kind)
  \/ StartDisconnect
  \/ BlockStep
  \/ BlockEnd
  \/ \E o \in Outpoint : Lookup(o)
  \/ PeriodicWrite
  \/ FlushBatch
  \/ CrashRestart
  \/ ReplayStep

CSpec == CInit /\ [][CNext]_ccVars

(***************************************************************************)
(* Properties                                                              *)
(***************************************************************************)
\* Reference definition: the coins after the chain up to b, without order of
\* calls, undo data or caches.
Utxo(b) ==
  LET Makes(c, o) == \E i \in DOMAIN Body[c] : o \in Range(Body[c][i].outs)
      Spends(c, o) == \E i \in DOMAIN Body[c] : o \in Range(Body[c][i].ins)
      Makers(o) == {c \in Anc[b] : o \notin Unspendable /\ Makes(c, o)}
      Newest(o) == CHOOSE c \in Makers(o) : \A d \in Makers(o) : Height[d] <= Height[c]
  IN  [o \in Outpoint |->
         IF \/ Makers(o) = {}
            \/ \E c \in Anc[b] : Height[c] >= Height[Newest(o)] /\ Spends(c, o)
         THEN Spent ELSE Height[Newest(o)]]

\* Between two blocks pcoinsTip gives exactly the unspent outputs of the active
\* chain, and the database those of the block it names, after any sequence of
\* ConnectTip, DisconnectTip (which depends on the undo data that was written
\* when the block was first connected), flushes, crashes and ReplayBlocks.
UtxoExact ==
  /\ job = Idle /\ db.heads = Nil /\ fault = "none" => TipCoins = Utxo(TipBest)
  /\ db.heads = Nil => db.coins = Utxo(db.best)

\* No call throws a logic_error, UpdateCoins finds every coin that HaveInputs has
\* found (assert(is_spent)), DisconnectBlock always finds the coins clean for
\* DisconnectTip, and after a crash at any point the index and the undo data on
\* disk are enough for LoadChainTip and ReplayBlocks.
NoFault == fault = "none"

\* The callers keep to the contract that the cache relies on, whatever the
\* blocks: AddCoin is never told that a coin is new while the view has it (the
\* coinbases that BIP 30 exempts), a view is flushed only with its block set, and
\* nothing but ReplayBlocks touches the coins while a flush is half done.  With
\* Recover for what ReplayBlocks achieves, these are the steps of CoinsCache.
ContractKept == [][job.kind = "replay" \/ Next]_coinVars
=============================================================================
