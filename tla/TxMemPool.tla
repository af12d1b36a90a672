------------------------------ MODULE TxMemPool ------------------------------
(***************************************************************************)
(* CTxMemPool (txmempool.cpp): its operations as functions of a pool p,    *)
(* a record of mapTx with mapLinks, mapNextTx and mapDeltas.               *)
(*                                                                         *)
(* Every entry carries the number, size and fees of its package of         *)
(* ancestors and of its package of descendants, maintained incrementally.  *)
(* In a reorganisation transactions enter the pool whose children are      *)
(* there already; until UpdateTransactionsFromBlock has run, the links     *)
(* between the two are missing.                                            *)
(***************************************************************************)
EXTENDS BlockIndex, Sequences, Functions

CONSTANTS
  Tx, Coinbase,    \* the transactions, and those that are coinbases
  vin,             \* the outpoints <<transaction, index>> that a transaction spends
  Fee, Size,
  Body,            \* the transactions of a block
  Invalid,         \* blocks that fail ConnectBlock
  COINBASE_MATURITY,
  MaxMempool       \* in the unit of Size

Ins(t) == Range(vin[t])

InputTxs(t) == {o[1] : o \in Ins(t)}

ASSUME TxMemPoolConstants ==
  /\ IsFiniteSet(Tx) /\ Coinbase \subseteq Tx /\ Invalid \subseteq Block \ {Genesis}
  /\ Fee \in [Tx -> Nat] /\ Size \in [Tx -> Nat \ {0}]
  /\ vin \in [Tx -> Seq(Tx \X Nat)]
  /\ \A t \in Tx : t \notin InputTxs(t) /\ (t \in Coinbase <=> vin[t] = <<>>)
  /\ Body \in [Block -> Seq(Tx)]
  /\ COINBASE_MATURITY \in Nat

(***************************************************************************)
(* The coins of a chain                                                    *)
(***************************************************************************)
Confirmed(b) == UNION {Range(Body[a]) : a \in Anc[b]}

HaveCoin(b, o) == o[1] \in Confirmed(b) /\ \A t \in Confirmed(b) : o \notin Ins(t)

\* Of a coin that exists: whether the block after b may spend it.
Mature(b, o) ==
  o[1] \in Coinbase =>
    \E a \in Anc[b] : o[1] \in Range(Body[a]) /\ Height[b] + 1 - Height[a] >= COINBASE_MATURITY

\* t comes before u on the chain that ends in b.
Earlier(b, t, u) ==
  \E a, c \in Anc[b] : \E i \in DOMAIN Body[a], j \in DOMAIN Body[c] :
    /\ Body[a][i] = t /\ Body[c][j] = u
    /\ Height[a] < Height[c] \/ (a = c /\ i < j)

\* What is confirmed when ConnectBlock comes to the i-th transaction of b.
Before(b, i) ==
  (IF b = Genesis THEN {} ELSE Confirmed(Prev[b])) \union {Body[b][j] : j \in 1 .. i - 1}

\* What ConnectBlock has checked in a chain of blocks that do not fail it: no
\* transaction is there twice (BIP 30 and 34), and each spends coins that exist.
ASSUME BlocksConnect ==
  \A b \in Block : Anc[b] \intersect Invalid = {} =>
    \A i \in DOMAIN Body[b] :
      /\ Body[b][i] \notin Before(b, i)
      /\ \A o \in Ins(Body[b][i]) :
           o[1] \in Before(b, i) /\ \A t \in Before(b, i) : o \notin Ins(t)

(***************************************************************************)
(* Packages and links                                                      *)
(***************************************************************************)
ModifiedFee(p, t) == Fee[t] + p.tx[t].feeDelta

Package(p, S) ==
  [n |-> Cardinality(S), size |-> SumFunctionOnSet(Size, S),
   fee |-> SumFunctionOnSet([t \in S |-> ModifiedFee(p, t)], S)]

Plus(x, y) == [n |-> x.n + y.n, size |-> x.size + y.size, fee |-> x.fee + y.fee]

Minus(x, y) == [n |-> x.n - y.n, size |-> x.size - y.size, fee |-> x.fee - y.fee]

\* The least set with S that the links of a kind, "parents" or "children", do
\* not lead out of.
Reachable(p, S, kind) ==
  {u \in DOMAIN p.tx :
     \A C \in SUBSET DOMAIN p.tx : S \subseteq C /\ (\A t \in C : p.tx[t][kind] \subseteq C) => u \in C}

\* CalculateMemPoolAncestors of an entry, which goes along the links.
Ancestors(p, t) == Reachable(p, p.tx[t].parents, "parents")

\* The entries of S and all that depend on them, along the links.
CalculateDescendants(p, S) == Reachable(p, S, "children")

\* The entries that spend an output of t, according to mapNextTx.
Spenders(p, t) == {p.next[o] : o \in {q \in DOMAIN p.next : q[1] = t}}

(***************************************************************************)
(* Adding and removing                                                     *)
(***************************************************************************)

\* Mutant: the fee delta that was set before the transaction came is forgotten.
addUnchecked_NoDelta(p, t, ancestors) ==
  LET own == [n |-> 1, size |-> Size[t], fee |-> Fee[t] ]
      parents == InputTxs(t) \intersect DOMAIN p.tx
      new == [feeDelta |-> 0, parents |-> parents, children |-> {},
              spendsCoinbase |-> InputTxs(t) \intersect Coinbase # {},
              anc |-> Plus(own, Package(p, ancestors)), desc |-> own]
      Updated(u) == [p.tx[u] EXCEPT !.children = IF u \in parents THEN @ \union {t} ELSE @,
                                    !.desc = IF u \in ancestors THEN Plus(@, own) ELSE @]
  IN  [p EXCEPT !.tx = [u \in DOMAIN p.tx \union {t} |-> IF u = t THEN new ELSE Updated(u)],
                !.next = [o \in DOMAIN p.next \union Ins(t) |-> IF o \in DOMAIN p.next THEN p.next[o] ELSE t]]

\* The new entry is assumed to have no children in the pool.
addUnchecked(p, t, ancestors) ==
  LET own == [n |-> 1, size |-> Size[t], fee |-> Fee[t] + p.delta[t]]
      parents == InputTxs(t) \intersect DOMAIN p.tx
      new == [feeDelta |-> p.delta[t], parents |-> parents, children |-> {},
              spendsCoinbase |-> InputTxs(t) \intersect Coinbase # {},
              anc |-> Plus(own, Package(p, ancestors)), desc |-> own]
      Updated(u) == [p.tx[u] EXCEPT !.children = IF u \in parents THEN @ \union {t} ELSE @,
                                    !.desc = IF u \in ancestors THEN Plus(@, own) ELSE @]
  IN  [p EXCEPT !.tx = [u \in DOMAIN p.tx \union {t} |-> IF u = t THEN new ELSE Updated(u)],
                !.next = [o \in DOMAIN p.next \union Ins(t) |-> IF o \in DOMAIN p.next THEN p.next[o] ELSE t]]

\* UpdateForRemoveFromMempool and removeUnchecked for all entries of S.  The
\* packages of descendants are updated only when S is not closed under them.
RemoveStaged(p, S, updateDescendants) ==
  LET below == [r \in S |-> CalculateDescendants(p, {r})]
      above == [r \in S |-> Ancestors(p, r)]
      Updated(u) ==
        [p.tx[u] EXCEPT
           !.anc = IF updateDescendants THEN Minus(@, Package(p, {r \in S : u \in below[r]})) ELSE @,
           !.desc = Minus(@, Package(p, {r \in S : u \in above[r]})),
           !.children = @ \ {r \in S : u \in p.tx[r].parents},
           !.parents = @ \ {r \in S : u \in p.tx[r].children}]
  IN  [p EXCEPT !.tx = [u \in DOMAIN p.tx \ S |-> Updated(u)],
                !.next = Restrict(p.next, DOMAIN p.next \ UNION {Ins(r) : r \in S})]

RemoveWithDescendants(p, S) == RemoveStaged(p, CalculateDescendants(p, S), FALSE)

\* Mutant: nothing is removed for a transaction that is not in the pool.
removeRecursive_OnlyInPool(p, T) == RemoveWithDescendants(p, T \intersect DOMAIN p.tx)

\* For each of T.  Of a transaction that is not in the pool, the children are removed.
removeRecursive(p, T) ==
  RemoveWithDescendants(p, UNION {IF t \in DOMAIN p.tx THEN {t} ELSE Spenders(p, t) : t \in T})

\* The fee delta of t changes by d, and with it the packages that t is part of.
Prioritised(p, t, d) ==
  LET Updated(u) ==
        [p.tx[u] EXCEPT !.feeDelta = IF u = t THEN p.delta[t] + d ELSE @,
           !.anc.fee = IF u \in CalculateDescendants(p, {t}) THEN @ + d ELSE @,
           !.desc.fee = IF u = t \/ u \in Ancestors(p, t) THEN @ + d ELSE @]
  IN  [p EXCEPT !.delta[t] = @ + d,
                !.tx = IF t \in DOMAIN @ THEN [u \in DOMAIN @ |-> Updated(u)] ELSE @]

ClearPrioritisation(p, T) == [p EXCEPT !.delta = [t \in Tx |-> IF t \in T THEN 0 ELSE @[t]]]

\* Input by input: a conflict that went as the descendant of another keeps its delta.
removeConflicts(p, t) ==
  LET spent == {i \in DOMAIN vin[t] : vin[t][i] \in DOMAIN p.next /\ p.next[vin[t][i]] # t}
      conflict == [i \in spent |-> p.next[vin[t][i]]]
      found == {i \in spent : \A j \in spent :
                  j < i => conflict[i] \notin CalculateDescendants(p, {conflict[j]})}
  IN  removeRecursive(ClearPrioritisation(p, {conflict[i] : i \in found}), {conflict[i] : i \in spent})

\* A transaction that a block confirms: its own entry goes alone.
RemoveTx(p, t) ==
  LET q == IF t \in DOMAIN p.tx THEN RemoveStaged(p, {t}, TRUE) ELSE p
  IN  ClearPrioritisation(removeConflicts(q, t), {t})

removeForBlock(p, b) ==
  LET After[i \in 0 .. Len(Body[b])] ==
        IF i = 0 THEN p ELSE RemoveTx(After[i - 1], Body[b][i])
  IN  After[Len(Body[b])]

\* nonFinal are the entries whose lock time or sequence locks exclude them from
\* the block after b.
removeForReorg(p, b, nonFinal) ==
  LET Spoilt(t) == /\ p.tx[t].spendsCoinbase
                   /\ \E o \in Ins(t) : /\ o[1] \notin DOMAIN p.tx
                                        /\ ~(HaveCoin(b, o) /\ Mature(b, o))
  IN  RemoveWithDescendants(p, nonFinal \union {t \in DOMAIN p.tx : Spoilt(t)})

(***************************************************************************)
(* The repair after a reorganisation                                       *)
(***************************************************************************)

\* Mutant: the entries that came from the block are counted once more.
FoundDescendants_Twice(s, t, exclude) == Reachable(s.pool, s.pool.tx[t].children, "children")

\* s is the pool with the cachedDescendants, which a walk does not enter again.
FoundDescendants(s, t, exclude) ==
  LET p == s.pool
      cached == DOMAIN s.cache
      uncached == [p EXCEPT !.tx = [u \in DOMAIN p.tx |-> [p.tx[u] EXCEPT !.children = @ \ cached]]]
      walked == Reachable(uncached, p.tx[t].children, "children")
      met == (UNION {p.tx[u].children : u \in walked}) \intersect cached
  IN  (walked \union UNION {s.cache[c] : c \in met}) \ exclude

UpdateForDescendants(s, t, exclude) ==
  LET p == s.pool
      found == FoundDescendants(s, t, exclude)
      own == Package(p, {t})
      Updated(u) == [p.tx[u] EXCEPT !.anc = IF u \in found THEN Plus(@, own) ELSE @,
                                    !.desc = IF u = t THEN Plus(@, Package(p, found)) ELSE @]
  IN  [pool |-> [p EXCEPT !.tx = [u \in DOMAIN p.tx |-> Updated(u)]],
       cache |-> IF found = {} THEN s.cache
                 ELSE [c \in DOMAIN s.cache \union {t} |-> IF c = t THEN found ELSE s.cache[c]]]

\* Mutant: the children do not learn of their new parent.
LinkChildren_ChildOnly(p, t, kids) ==
  [p EXCEPT !.tx = [u \in DOMAIN p.tx |->
     [p.tx[u] EXCEPT !.children = IF u = t THEN @ \union kids ELSE @]]]

\* UpdateChild and UpdateParent.
LinkChildren(p, t, kids) ==
  [p EXCEPT !.tx = [u \in DOMAIN p.tx |->
     [p.tx[u] EXCEPT !.children = IF u = t THEN @ \union kids ELSE @,
                     !.parents = IF u \in kids THEN @ \union {t} ELSE @]]]

\* One entry of those that came from the block.
UpdateTx(s, t, included) ==
  IF t \in DOMAIN s.pool.tx
  THEN LET linked == LinkChildren(s.pool, t, Spenders(s.pool, t) \ included)
       IN  UpdateForDescendants([s EXCEPT !.pool = linked], t, included)
  ELSE s

\* Links the entries of hashes, from the last to the first, to their children
\* that were in the pool before them.
UpdateTransactionsFromBlock(p, hashes) ==
  LET After[k \in 0 .. Len(hashes)] ==
        IF k = 0 THEN [pool |-> p, cache |-> <<>>]
        ELSE UpdateTx(After[k - 1], hashes[Len(hashes) + 1 - k], Range(hashes))
  IN  After[Len(hashes)].pool

(***************************************************************************)
(* Limits                                                                  *)
(***************************************************************************)
Usage(p) == SumFunctionOnSet(Size, DOMAIN p.tx)

\* Whether the first of two packages pays less for its size.
PaysLess(x, y) == x.fee * y.size < x.size * y.fee

\* What CompareTxMemPoolEntryByDescendantScore goes by.
DescendantScore(p, t) ==
  LET own == Package(p, {t}) IN IF PaysLess(own, p.tx[t].desc) THEN p.tx[t].desc ELSE own

\* What can be gone after one more round when R is: among equal scores the time of
\* entry decides, which is not represented.
TrimRound(p, R) ==
  LET q == RemoveStaged(p, R, FALSE)
      first == {t \in DOMAIN q.tx : \A u \in DOMAIN q.tx :
                  ~PaysLess(DescendantScore(q, u), DescendantScore(q, t))}
  IN  IF Usage(q) <= MaxMempool THEN {R}
      ELSE {R \union CalculateDescendants(q, {t}) : t \in first}

\* The pools that can result.
TrimToSize(p) ==
  LET Gone[n \in 0 .. Cardinality(DOMAIN p.tx)] ==
        IF n = 0 THEN {{}} ELSE UNION {TrimRound(p, R) : R \in Gone[n - 1]}
  IN  {RemoveStaged(p, R, FALSE) : R \in Gone[Cardinality(DOMAIN p.tx)]}

LimitMempoolSize(p, expired) == TrimToSize(RemoveWithDescendants(p, expired))

(***************************************************************************)
(* A new transaction                                                       *)
(***************************************************************************)
\* CalculateMemPoolAncestors of a transaction that is not in the pool.
NewAncestors(p, t) == Reachable(p, InputTxs(t) \intersect DOMAIN p.tx, "parents")

Conflicts(p, t) == {p.next[o] : o \in Ins(t) \intersect DOMAIN p.next}

Accepted(p, t) ==
  addUnchecked(RemoveWithDescendants(p, Conflicts(p, t)), t, NewAncestors(p, t))
==============================================================================
