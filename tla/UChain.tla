------------------------------- MODULE UChain -------------------------------
(***************************************************************************)
(* The uChain on top of the block index: the orders (mutant transactions)  *)
(* in the blocks, the Merkle-Patricia trie that every header above height  *)
(* MIN_MUTABLETX_AGE commits to, its caches, and the rewriting of the      *)
(* block files (CVerifyDB and CheckBlockUChain in validation.cpp,          *)
(* CreateNewBlock in miner.cpp, the start of the node in init.cpp).        *)
(*                                                                         *)
(* A transaction is in a block file in one of three versions: as it was    *)
(* mined, hidden, or replaced.  NodePartsProofs shows that this is all: a  *)
(* version depends on the transaction and on the last order alone.  The    *)
(* trie maps the id of an ordered transaction to the digest of its random  *)
(* values, which stands for its version; a trie stands for its root.       *)
(*                                                                         *)
(* MIN_MUTABLETX_AGE and the literals 100 next to it are the constant Age. *)
(***************************************************************************)
EXTENDS ChainState, Sequences

CONSTANTS Tx,
          Op,          \* what a transaction orders: "none", "hide" or "replace"
          Target,      \* the transaction an order names
          HasData,     \* the transactions with an OP_RETURN output
          Bodies,      \* the block bodies to choose from
          Age,         \* MIN_MUTABLETX_AGE
          MaxHeight,   \* of a block of the tree
          LateMiner,   \* blocks whose miner left out the orders that are just Age deep
          PeerTips,    \* tips of the peers that blocks are downloaded from
          Templates,   \* block templates are asked for
          Levels,      \* the levels that verifychain is called with,
          Depths,      \* and the numbers of blocks
          Crashes,     \* the node may stop at any time
          OutOfOrder   \* blocks may arrive before their parents

Version == {"orig", "hide", "replace"}

\* The trie without entries; "none" where there is no entry.
Empty == [x \in Tx |-> "none"]

Trie == [Tx -> Version \union {"none"}]

ASSUME UChainConstants ==
  /\ Op \in [Tx -> {"none", "hide", "replace"}] /\ Target \in [Tx -> Tx]
  /\ HasData \subseteq Tx /\ {m \in Tx : Op[m] # "none"} \subseteq HasData
  /\ Bodies \subseteq [Block -> Seq(Tx)]
  /\ \A f \in Bodies, b \in Block : \A c \in Anc[b] \ {b} : \* BIP 30
       \A i \in DOMAIN f[b], j \in DOMAIN f[c] : f[b][i] # f[c][j]
  /\ Age \in Nat /\ Age >= 2 /\ MaxHeight \in Nat
  /\ \A b \in Block : Height[b] <= MaxHeight
  /\ LateMiner \subseteq Block /\ PeerTips \subseteq Block 
  /\ {OutOfOrder, Templates, Crashes} \subseteq BOOLEAN /\ Levels \subseteq {4, 5}
  /\ Depths \subseteq Nat \ {0}

VARIABLES
  body,     \* the transactions of the blocks, in their order (never changes)
  disk,     \* the version of each transaction in the file of each block
  txindex,  \* the block that the transaction index gives for a transaction
  pool,     \* mempool
  u,        \* mpt, mptCache and mptList, with what is known about them
  boot,     \* how far AppInitMain has got
  template  \* the last block template: the block it extends, and its root

uvars == <<body, disk, txindex, pool, u, boot, template>>

allVars == <<vars, uvars>>

(***************************************************************************)
(* What the headers have to say                                            *)
(***************************************************************************)
TxsOf(blocks) == {x \in Tx : \E b \in blocks : \E i \in DOMAIN body[b] : body[b][i] = x}

\* The block b has an order for x, wherever x is.
Names(b, x) == \E i \in DOMAIN body[b] : Op[body[b][i]] # "none" /\ Target[body[b][i]] = x

\* What the first order for x in b asks for.
FirstOp(b, x) ==
  LET Is(i) == Op[body[b][i]] # "none" /\ Target[body[b][i]] = x
  IN  Op[body[b][CHOOSE i \in DOMAIN body[b] : Is(i) /\ \A j \in 1 .. i - 1 : ~Is(j)]]

\* The blocks of the chain up to p whose order for x counts at height k: x is
\* in a lower block, and the order is Age deep.
Effective(p, k, x) ==
  {b \in Anc[p] \ {Genesis} :
     /\ Height[b] + Age <= k /\ x \in HasData /\ Names(b, x)
     /\ x \in TxsOf({c \in Anc[p] : Height[c] < Height[b]})}

\* The trie that a header at height k on the chain up to p commits to: for each
\* transaction that was ordered, the newest order that is Age deep.
Expected(p, k) ==
  [x \in Tx |-> IF Effective(p, k, x) = {} THEN "none"
                ELSE FirstOp(CHOOSE b \in Effective(p, k, x) :
                               \A c \in Effective(p, k, x) : Height[c] <= Height[b], x)]

\* hashUChainVersion of the block b.
Header(b) == Expected(Prev[b], IF b \in LateMiner THEN Height[b] - 1 ELSE Height[b])

\* The versions in the files of a node that has followed the chain up to p.
VersionsAt(p) == [x \in Tx |-> IF Expected(p, Height[p])[x] = "none" THEN "orig"
                               ELSE Expected(p, Height[p])[x]]

\* The block b as a peer with the tip p has it in its files.
ServedBy(p, b) == [x \in Tx |-> IF x \in TxsOf({b}) THEN VersionsAt(p)[x] ELSE "orig"]

\* The versions in which a peer may deliver the block b.
Served(b) ==
  {[x \in Tx |-> "orig"]} \union {ServedBy(p, b) : p \in {q \in PeerTips : b \in Anc[q]}}

(***************************************************************************)
(* CheckBlockUChain                                                        *)
(***************************************************************************)
\* GetTransaction finds x in a block: the mempool hides the transaction index.
Located(x) == x \notin pool /\ txindex[x] # Nil

\* The order at position i of the block b, as its file has it, is carried out.
\* An order whose own data was rewritten is not recognised any more.
Parsed(b, i) == Op[body[b][i]] # "none" /\ disk[b][body[b][i]] = "orig"

Carried(b, i) ==
  /\ Parsed(b, i) /\ Located(Target[body[b][i]]) /\ Target[body[b][i]] \in HasData
  /\ Height[txindex[Target[body[b][i]]]] < Height[b]

\* The assertion that the block index has the block of the target.
Dangling(b) ==
  \E i \in DOMAIN body[b] :
    /\ Parsed(b, i) /\ Located(Target[body[b][i]]) /\ Target[body[b][i]] \in HasData
    /\ txindex[Target[body[b][i]]] \notin known

\* The transactions that the block b has orders for.
Ordered(b) == {Target[body[b][i]] : i \in {j \in DOMAIN body[b] : Carried(b, j)}}

\* Mutant: the last order in the block decides.
OpFor_Last(b, x) ==
  LET Is(i) == Carried(b, i) /\ Target[body[b][i]] = x
  IN  Op[body[b][CHOOSE i \in DOMAIN body[b] :
                   Is(i) /\ \A j \in i + 1 .. Len(body[b]) : ~Is(j)]]

\* mutantInBlock: the first of the orders for x decides.
OpFor(b, x) ==
  LET Is(i) == Carried(b, i) /\ Target[body[b][i]] = x
  IN  Op[body[b][CHOOSE i \in DOMAIN body[b] : Is(i) /\ \A j \in 1 .. i - 1 : ~Is(j)]]

\* fNextMPTRoot and fUpdatehotBlock: the orders of b override the entries.
Overridden(trie, b) ==
  [x \in Tx |-> IF x \in Ordered(b) THEN OpFor(b, x) ELSE trie[x]]

\* Mutant: an order counts one block too early.
Mature_OneEarly == {b \in Anc[tip] \ {Genesis} : Height[b] + Age <= Height[tip] + 1}

\* fCreateMPTRoot passes over the orders that are too young.
Mature == {b \in Anc[tip] \ {Genesis} : Height[b] + Age <= Height[tip]}

\* fCreateMPTRoot: an entry is made from the version that is on disk, unless
\* there is one.
Created(trie) ==
  [x \in Tx |-> IF trie[x] = "none" /\ \E b \in Mature : x \in Ordered(b)
                THEN disk[txindex[x]][x] ELSE trie[x]]

\* What happens to the process when the blocks of scanned are gone through
\* with a trie that was opened, or was not (m_db is a null pointer then).
Fault(w, opened, scanned) ==
  IF w.fault # "none" THEN w.fault
  ELSE IF \E b \in scanned : Dangling(b) THEN "assert(mapBlockIndex.count)"
  ELSE IF ~opened /\ \E b \in scanned : Ordered(b) # {} THEN "null pointer"
  ELSE "none"

(***************************************************************************)
(* The tries and their caches, as functions of the record u                *)
(***************************************************************************)
Closed == [mpt |-> Empty, open |-> FALSE, init |-> FALSE, act |-> 0,
           list |-> [k \in 0 .. MaxHeight + 1 |-> Nil], cache |-> Empty, cacheH |-> 0,
           fault |-> "none"]

\* The block at height k of the active chain.
On(k) == CHOOSE b \in Anc[tip] : Height[b] = k

\* OpenMerkelPatriciaTree.
Opened(w) == [w EXCEPT !.mpt = Empty, !.open = TRUE]

\* Mutant: nMPTActiveHight is set to the height of the newest mature block.
InitMerkelPatriciaTree_Mature(w) ==
  [w EXCEPT !.mpt = Created(w.mpt), !.init = TRUE, !.act = Height[tip] - Age,
            !.fault = Fault(w, w.open, Mature)]

InitMerkelPatriciaTree(w) ==
  [w EXCEPT !.mpt = Created(w.mpt), !.init = TRUE, !.act = Height[tip],
            !.fault = Fault(w, w.open, Mature)]

\* Mutant: the orders of the block that gets Age deep are left out.
getNextRoot_NoHotBlock(w) ==
  LET H == Height[tip]
      w1 == IF ~w.init \/ w.act # H THEN InitMerkelPatriciaTree(w) ELSE w
  IN  IF H + 1 - Age > 0
      THEN [w1 EXCEPT !.list[H + 1] = w1.mpt, !.act = H + 1]
      ELSE [w1 EXCEPT !.act = H + 1]

getNextRoot(w) ==
  LET H == Height[tip]
      w1 == IF ~w.init \/ w.act # H THEN InitMerkelPatriciaTree(w) ELSE w
      trie == Overridden(w1.mpt, On(H + 1 - Age))
  IN  IF H + 1 - Age > 0
      THEN [w1 EXCEPT !.mpt = trie, !.list[H + 1] = trie, !.act = H + 1,
                      !.fault = Fault(w1, w1.open, {On(H + 1 - Age)})]
      ELSE [w1 EXCEPT !.act = H + 1]

\* storeTempRoot, with an update of nMPTCacheHight.
Stored(w, k) == [w EXCEPT !.list[k] = w.cache,
                          !.cacheH = IF w.cacheH < k THEN k ELSE w.cacheH]

\* mptCache takes the orders that count from height k on.
CacheStep(w, k) ==
  Stored([w EXCEPT !.cache = Overridden(w.cache, On(k - Age)),
                   !.fault = Fault(w, TRUE, {On(k - Age)})], k)

TooFar(w, k) == k - w.cacheH > Age

\* A call for height k with the roots of the heights from Age to k - 1 in
\* mptList.  Too far from the last update of the cache it starts from scratch,
\* comes to the same call again, and never returns.
CacheVisit(w, k) ==
  IF w.list[k] # Nil THEN w
  ELSE IF k = Age THEN Stored(w, k)
  ELSE IF k - 1 # w.cacheH /\ TooFar(w, k) THEN [w EXCEPT !.fault = "endless recursion"]
  ELSE CacheStep(w, k)

\* Where the recursion to the height before ends: at a height with a root, at
\* Age, or above the last update of the cache.
RecursionEnd(w, k) ==
  CHOOSE j \in Age .. k :
    /\ w.list[j] # Nil \/ j = Age \/ j - 1 = w.cacheH
    /\ \A i \in j + 1 .. k : w.list[i] = Nil /\ i - 1 # w.cacheH

\* cacheGetNextRoot, for height k > Age; the root is in list[k] of the result.
cacheGetNextRoot(w, k) ==
  LET lo == RecursionEnd(w, k)
      Near[j \in Nat] ==
        IF j < lo THEN w
        ELSE IF j = lo /\ w.list[j] # Nil THEN w
        ELSE IF j = lo /\ j = Age THEN Stored(w, j)
        ELSE CacheStep(Near[j - 1], j)
      Scratch[j \in Nat] ==
        IF j < Age THEN [w EXCEPT !.cache = Empty] ELSE CacheVisit(Scratch[j - 1], j)
  IN  IF w.list[k] = Nil /\ k - 1 # w.cacheH /\ TooFar(w, k)
      THEN Stored(Scratch[k], k) ELSE Near[k]

\* The check of hashUChainVersion in ConnectBlock for a block on top of p, which
\* is in the active chain; the root is in list[Height[p] + 1] of the result.
Predicted(w, p) ==
  IF Height[p] + 1 <= Age THEN w
  ELSE cacheGetNextRoot(IF Height[p] >= w.act THEN getNextRoot(w) ELSE w, Height[p] + 1)

RootOk(w, b) == Height[b] <= Age \/ w.list[Height[b]] = Header(b)

(***************************************************************************)
(* The actions: those of ChainState, with what they do to the uChain       *)
(***************************************************************************)
Alive == u.fault = "none"

\* Network and RPC are served once the node has started.
Serving == Alive /\ boot = "up"

UInit ==
  /\ Init
  /\ body \in Bodies
  /\ disk = [b \in Block |-> [x \in Tx |-> "orig"]]
  /\ txindex = [x \in Tx |-> Nil]
  /\ pool = {}
  /\ u = [Opened(Closed) EXCEPT !.init = TRUE]
  /\ boot = "up"
  /\ template = Nil

UAcceptHeader(b) ==
  /\ Serving /\ OutOfOrder /\ AcceptHeader(b)
  /\ UNCHANGED uvars

\* WriteBlockToDisk: the block is stored in the version that was received.
UAcceptBlock(t, b, fRequested) ==
  /\ Serving /\ (OutOfOrder \/ Anc[b] \ {b} \subseteq chainTx)
  /\ AcceptBlock(t, b, fRequested)
  /\ IF b \in haveData' \ haveData
     THEN \E versions \in Served(b) : disk' = [disk EXCEPT ![b] = versions]
     ELSE UNCHANGED disk
  /\ UNCHANGED <<body, txindex, pool, u, boot, template>>

\* A transaction that is not in the active chain is relayed, or loaded from
\* mempool.dat.
TxArrives(x) ==
  /\ Serving /\ csMain = Nil
  /\ txindex[x] # Nil /\ x \notin TxsOf(Anc[tip]) \union pool
  /\ pool' = pool \union {x}
  /\ UNCHANGED <<vars, body, disk, txindex, u, boot, template>>

\* The mempool when the tip goes from old to now: ConnectTip takes the
\* transactions of the new blocks out; UpdateMempoolForReorg tries to bring
\* back those of the blocks that were disconnected.
MempoolAfter(old, now) ==
  LET kept == pool \ TxsOf(Above(old, now))
      lost == TxsOf(Above(now, old)) \ TxsOf(Anc[now])
  IN  {kept \union back : back \in SUBSET lost}

UFindMostWorkChain(t) ==
  /\ Alive /\ FindMostWorkChain(t)
  /\ UNCHANGED uvars

UDisconnectTip(t) ==
  /\ Alive /\ DisconnectTip(t)
  /\ pool' \in IF csMain' = Nil THEN MempoolAfter(th[t].oldTip, tip') ELSE {pool}
  /\ UNCHANGED <<body, disk, txindex, u, boot, template>>

\* ConnectBlock, with the check of the root; WriteTxIndex when it succeeds.
UConnectBlock(t) ==
  /\ Alive /\ Connecting(t)
  /\ u' = Predicted(u, tip)
  /\ \/ /\ RootOk(u', NextBlock(t)) /\ NextBlock(t) \notin Invalid
        /\ ConnectTip(t)
        /\ txindex' = [x \in Tx |-> IF x \in TxsOf({tip'}) THEN tip' ELSE txindex[x]]
     \/ /\ ~RootOk(u', NextBlock(t)) \/ NextBlock(t) \in Invalid
        /\ ConnectTipInvalid(t)
        /\ UNCHANGED txindex
  /\ pool' \in IF csMain' = Nil THEN MempoolAfter(th[t].oldTip, tip')
               ELSE {pool \ TxsOf(Above(tip, tip'))}
  /\ UNCHANGED <<body, disk, boot, template>>

\* Mutant: whatever was ordered, the data is replaced with zeros.
Rewritten_Zeros(hot) ==
  [b \in Block |-> [x \in Tx |-> IF x \in Ordered(hot) /\ txindex[x] = b
                                THEN "hide" ELSE disk[b][x]]]

\* Mutant: the file of a target is rewritten wherever the target is.
Rewritten_AnyHeight(hot) ==
  [b \in Block |-> [x \in Tx |->
     IF txindex[x] = b /\ \E i \in DOMAIN body[hot] : Parsed(hot, i) /\ Target[body[hot][i]] = x
     THEN FirstOp(hot, x) ELSE disk[b][x]]]

\* WriteUChangedBlockToDisk, for every order of the block hot.
Rewritten(hot) ==
  [b \in Block |-> [x \in Tx |-> IF x \in Ordered(hot) /\ txindex[x] = b
                                THEN OpFor(hot, x) ELSE disk[b][x]]]

\* Mutant: one block too high.
HotBlock_OneEarly == On(Height[tip] - Age + 1)

\* The block whose orders get effective with the active tip.
HotBlock == On(Height[tip] - Age)

\* updateHotBlock: the orders of the block that is Age deep are applied to the
\* block files.
UUpdateHotBlock(t) ==
  /\ Alive /\ UpdateHotBlock(t)
  /\ LET H == Height[tip]
         hot == HotBlock
         trie == Overridden(u.mpt, hot)
     IN  IF H - Age <= 0 THEN UNCHANGED <<u, disk>>
         ELSE /\ u' = [u EXCEPT !.mpt = trie, !.list[H] = trie,
                                !.fault = Fault(u, u.open, {hot})]
              /\ disk' = Rewritten(hot)
  /\ UNCHANGED <<body, txindex, pool, boot, template>>

UInvalidateBlock(t, b) ==
  /\ Serving /\ InvalidateBlock(t, b)
  /\ pool' \in MempoolAfter(tip, tip')
  /\ UNCHANGED <<body, disk, txindex, u, boot, template>>

UReconsiderBlock(t, b) ==
  /\ Serving /\ (ReconsiderBlock(t, b) \/ PreciousBlock(t, b))
  /\ UNCHANGED uvars

\* CreateNewBlock: the root of the template, which TestBlockValidity compares
\* with the root that ConnectBlock predicts.
CreateNewBlock(t) ==
  /\ Templates /\ Serving /\ csMain = Nil /\ th[t].pc = "idle"
  /\ LET w == getNextRoot(u)
     IN  /\ u' = Predicted(w, tip)
         /\ template' = IF Height[tip] < Age \/ u'.list[Height[tip] + 1] = w.mpt
                        THEN [prev |-> tip, root |-> w.mpt] ELSE template
  /\ UNCHANGED <<vars, body, disk, txindex, pool, boot>>

\* ConnectBlock once more for the blocks of the active chain from height lo on,
\* until one fails; top is the height of the last one that connects.
Reconnected(lo) ==
  LET After[h \in Nat] ==
        IF h < lo THEN [w |-> u, top |-> h]
        ELSE LET before == After[h - 1]
                 w == Predicted(before.w, On(h - 1))
             IN  IF before.top < h - 1 THEN before
                 ELSE [w |-> w, top |-> IF RootOk(w, On(h)) THEN h ELSE h - 1]
  IN  After[Height[tip]]

\* The RPC verifychain with level 4 or 5, for the last depth + 1 blocks.
VerifyDB(t, level, depth) ==
  /\ Serving /\ csMain = Nil /\ th[t].pc = "idle" /\ tip # Genesis
  /\ LET H == Height[tip]
         lo == IF depth < H THEN H - depth ELSE 1
         r == Reconnected(lo)
         w == InitMerkelPatriciaTree(r.w)
     IN  /\ u' = IF r.top < H \/ level = 4 \/ r.w.fault # "none" THEN r.w
                 ELSE IF w.fault = "none" /\ w.mpt # Header(tip)
                      THEN [w EXCEPT !.fault = "assert(root)"] ELSE w
         /\ txindex' = [x \in Tx |->
                         IF \E h \in lo .. r.top : x \in TxsOf({On(h)})
                         THEN CHOOSE b \in Anc[tip] : x \in TxsOf({b}) ELSE txindex[x]]
  /\ UNCHANGED <<vars, body, disk, pool, boot, template>>

UFlushStateToDisk ==
  /\ Alive /\ FlushStateToDisk
  /\ UNCHANGED uvars

\* No block is under way, no other block has as much work as the tip, and all
\* that has to be is on disk: the next start has nothing to activate.
Quiet ==
  /\ boot = "up" /\ \A t \in Threads : th[t].pc = "idle"
  /\ \A b \in chainTx : Height[b] >= Height[tip] => b = tip
  /\ [saved EXCEPT !.failedChild = @ \union unlogged] =
       [known |-> known, haveData |-> haveData, failed |-> failed,
        failedChild |-> failedChild, tip |-> tip]

\* The process starts again; the block files and the transaction index are as
\* they were written.
URestart ==
  /\ Alive /\ (Crashes \/ Quiet) /\ Restart
  /\ u' = Closed /\ boot' = "open" /\ pool' = {} /\ template' = Nil
  /\ UNCHANGED <<body, disk, txindex>>

\* AppInitMain opens the trie and fills it, after it has started ThreadImport.
OpenMerkelPatriciaTree ==
  /\ Alive /\ boot = "open"
  /\ u' = Opened(u) /\ boot' = "init"
  /\ UNCHANGED <<vars, body, disk, txindex, pool, template>>

InitAtStart ==
  /\ Alive /\ boot = "init" /\ csMain = Nil
  /\ u' = InitMerkelPatriciaTree(u) /\ boot' = "up"
  /\ UNCHANGED <<vars, body, disk, txindex, pool, template>>
-----------------------------------------------------------------------------
UNext ==
  \/ \E b \in Block : UAcceptHeader(b)
  \/ \E t \in Threads, b \in Block, r \in BOOLEAN : UAcceptBlock(t, b, r)
  \/ \E x \in Tx : TxArrives(x)
  \/ \E t \in Threads : \/ UFindMostWorkChain(t) \/ UDisconnectTip(t)
                        \/ UConnectBlock(t) \/ UUpdateHotBlock(t)
  \/ \E t \in Threads, b \in Block : UInvalidateBlock(t, b) \/ UReconsiderBlock(t, b)
  \/ \E t \in Threads : CreateNewBlock(t)
  \/ \E t \in Threads, level \in Levels, depth \in Depths : VerifyDB(t, level, depth)
  \/ UFlushStateToDisk
  \/ URestart
  \/ OpenMerkelPatriciaTree
  \/ InitAtStart

USpec == UInit /\ [][UNext]_allVars
-----------------------------------------------------------------------------
UTypeOK ==
  /\ body \in Bodies
  /\ disk \in [Block -> [Tx -> Version]]
  /\ txindex \in [Tx -> Block \union {Nil}]
  /\ pool \subseteq Tx
  /\ u \in [mpt : Trie, open : BOOLEAN, init : BOOLEAN, act : Nat,
            list : [0 .. MaxHeight + 1 -> Trie \union {Nil}],
            cache : Trie, cacheH : Nat,
            fault : {"none", "assert(mapBlockIndex.count)", "null pointer",
                     "endless recursion", "assert(root)"}]
  /\ boot \in {"open", "init", "up"}
  /\ template = Nil \/ template \in [prev : Block, root : Trie]

\* ConnectBlock compares hashUChainVersion with a root it takes from mptList or
\* from mptCache: whatever filled them, a block of a miner that followed the
\* rules is never rejected.
HonestAccepted == failed \subseteq LateMiner \union Invalid \union BadContext

\* A block whose root leaves out an order that is Age deep is never connected.
RootsEnforced ==
  \A b \in Anc[tip] : Height[b] > Age => Header(b) = Expected(Prev[b], Height[b])

\* mptList has, for every height up to the next block, no root or the root that
\* the active chain asks for, although its entries come from getNextRoot,
\* updateHotBlock and mptCache and outlive reorganisations.
CachedRoots ==
  csMain = Nil => \A k \in Age + 1 .. Height[tip] + 1 :
                    u.list[k] # Nil => u.list[k] = Expected(tip, k)

\* CreateNewBlock makes templates whose root the other nodes will expect.
TemplateRoot ==
  template # Nil => template.root = Expected(template.prev, Height[template.prev] + 1)

\* When nothing is under way, the block files of the active chain have every
\* order applied that is Age deep, and no other.
FilesUpToDate ==
  (\A t \in Threads : th[t].pc = "idle") /\ boot = "up" =>
    \A b \in Anc[tip] : \A x \in TxsOf({b}) : disk[b][x] = VersionsAt(tip)[x]

\* Data is taken from a block file only on an order: what is there in place of
\* the data that was mined is what an order asks for that is in a higher block
\* and gets Age deep in some chain.  This holds whatever the threads, the forks,
\* the RPCs and the crashes do.
OnlyOrdered ==
  \A b \in Block, x \in Tx : disk[b][x] # "orig" =>
    \E p \in Block : \E c \in Anc[p] :
      /\ Height[b] < Height[c] /\ Height[c] + Age <= Height[p]
      /\ \E i \in DOMAIN body[c] : Target[body[c][i]] = x /\ Op[body[c][i]] = disk[b][x]

\* A step that changes the file of a block in the index follows an order that is
\* exactly Age deep in the chain that is active at that moment, although
\* updateHotBlock runs after cs_main was released and the tip may have moved.
RewrittenWhenDue ==
  [][\A b \in haveData, x \in Tx : disk'[b][x] # disk[b][x] =>
       \E c \in Anc[tip] :
         /\ Height[b] < Height[c] /\ Height[c] + Age = Height[tip]
         /\ \E i \in DOMAIN body[c] : Target[body[c][i]] = x /\ Op[body[c][i]] = disk'[b][x]
    ]_allVars

\* No assertion of the uChain code fails, and it does not crash the process.
NoAbort == u.fault = "none"
=============================================================================
