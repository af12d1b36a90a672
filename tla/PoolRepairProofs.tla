-------------------------- MODULE PoolRepairProofs ---------------------------
(*****************************************************************************)
(* What PrioritiseTransaction does, and what UpdateMempoolForReorg does in   *)
(* the end, to a pool that is in order with the chain:                       *)
(* UpdateTransactionsFromBlock, removeForReorg and LimitMempoolSize.         *)
(*****************************************************************************)
EXTENDS PoolProofs

(***************************************************************************)
(* PrioritiseTransaction                                                   *)
(***************************************************************************)
Richer(x, d) == [x EXCEPT !.fee = @ + d]

\* q is p with d more for t.
Repriced(p, q, t, d) ==
  /\ q \in Pools /\ Mem(q) = Mem(p) /\ q.next = p.next
  /\ \A u \in Tx : q.delta[u] = IF u = t THEN p.delta[t] + d ELSE p.delta[u]
  /\ \A u \in Mem(p) :
       /\ q.tx[u].feeDelta = IF u = t THEN p.delta[t] + d ELSE p.tx[u].feeDelta
       /\ q.tx[u].parents = p.tx[u].parents /\ q.tx[u].children = p.tx[u].children
       /\ q.tx[u].spendsCoinbase = p.tx[u].spendsCoinbase
       /\ q.tx[u].anc = IF u \in Down(p, t) THEN Richer(p.tx[u].anc, d) ELSE p.tx[u].anc
       /\ q.tx[u].desc = IF u = t \/ u \in Ancestors(p, t) THEN Richer(p.tx[u].desc, d)
                         ELSE p.tx[u].desc

\* What Prioritised does to the parts of the pool when it has t.
LEMMA PrioritisedParts ==
  ASSUME NEW p \in Pools, NEW t \in Mem(p), NEW d \in Int
  PROVE  Repriced(p, Prioritised(p, t, d), t, d)
<1> DEFINE q == Prioritised(p, t, d)
           Updated(u) ==
             [p.tx[u] EXCEPT !.feeDelta = IF u = t THEN p.delta[t] + d ELSE @,
                !.anc.fee = IF u \in CalculateDescendants(p, {t}) THEN @ + d ELSE @,
                !.desc.fee = IF u = t \/ u \in Ancestors(p, t) THEN @ + d ELSE @]
           tx == [u \in Mem(p) |-> Updated(u)]
           delta == [u \in Tx |-> IF u = t THEN p.delta[t] + d ELSE p.delta[u]]
<1>1. p = [tx |-> p.tx, next |-> p.next, delta |-> p.delta] /\ p.delta \in [Tx -> Int] /\ t \in Tx
  BY PoolType DEF Pools
<1>2. ASSUME NEW u \in Mem(p)
      PROVE  /\ Updated(u) \in Entry
             /\ Updated(u).feeDelta = IF u = t THEN p.delta[t] + d ELSE p.tx[u].feeDelta
             /\ Updated(u).parents = p.tx[u].parents /\ Updated(u).children = p.tx[u].children
             /\ Updated(u).spendsCoinbase = p.tx[u].spendsCoinbase
             /\ Updated(u).anc = IF u \in Down(p, t) THEN [p.tx[u].anc EXCEPT !.fee = @ + d]
                                 ELSE p.tx[u].anc
             /\ Updated(u).desc = IF u = t \/ u \in Ancestors(p, t)
                                  THEN [p.tx[u].desc EXCEPT !.fee = @ + d] ELSE p.tx[u].desc
  <2>1. p.tx[u] \in Entry /\ p.tx[u].anc \in Pkg /\ p.tx[u].desc \in Pkg /\ p.delta[t] + d \in Int
    BY <1>1, EntryType
  <2>2. /\ [p.tx[u].anc EXCEPT !.fee = @ + d] \in Pkg /\ [p.tx[u].desc EXCEPT !.fee = @ + d] \in Pkg
        /\ [p.tx[u].anc EXCEPT !.fee = @] = p.tx[u].anc /\ [p.tx[u].desc EXCEPT !.fee = @] = p.tx[u].desc
    BY <2>1 DEF Pkg
  <2> DEFINE anc == IF u \in Down(p, t) THEN [p.tx[u].anc EXCEPT !.fee = @ + d] ELSE p.tx[u].anc
             desc == IF u = t \/ u \in Ancestors(p, t)
                     THEN [p.tx[u].desc EXCEPT !.fee = @ + d] ELSE p.tx[u].desc
             fd == IF u = t THEN p.delta[t] + d ELSE p.tx[u].feeDelta
  <2>3. anc \in Pkg /\ desc \in Pkg
    BY <2>1, <2>2
  <2>5. Updated(u) = [p.tx[u] EXCEPT !.feeDelta = fd, !.anc = anc, !.desc = desc]
    <3>1. anc = [p.tx[u].anc EXCEPT !.fee = IF u \in CalculateDescendants(p, {t}) THEN @ + d ELSE @]
      BY <2>2 DEF Down
    <3>2. desc = [p.tx[u].desc EXCEPT !.fee = IF u = t \/ u \in Ancestors(p, t) THEN @ + d ELSE @]
      BY <2>2
    <3>3. fd = IF u = t THEN p.delta[t] + d ELSE p.tx[u].feeDelta
      OBVIOUS
    <3> HIDE DEF anc, desc, fd
    <3> QED
      BY <2>1, <3>1, <3>2, <3>3 DEF Entry
  <2>6. fd \in Int
    BY <2>1 DEF Entry
  <2>7. fd = IF u = t THEN p.delta[t] + d ELSE p.tx[u].feeDelta
    OBVIOUS
  <2> HIDE DEF anc, desc, fd, Updated
  <2>8. /\ Updated(u) \in Entry /\ Updated(u).feeDelta = fd /\ Updated(u).anc = anc /\ Updated(u).desc = desc
        /\ Updated(u).parents = p.tx[u].parents /\ Updated(u).children = p.tx[u].children
        /\ Updated(u).spendsCoinbase = p.tx[u].spendsCoinbase
    BY Zenon, <2>1, <2>3, <2>5, <2>6 DEF Entry
  <2> QED
    BY <2>7, <2>8 DEF anc, desc
<1>3. q = [tx |-> tx, next |-> p.next, delta |-> delta]
  <2>1. q = [p EXCEPT !.delta[t] = @ + d, !.tx = IF t \in DOMAIN @ THEN [u \in DOMAIN @ |-> Updated(u)] ELSE @]
    BY Zenon DEF Prioritised
  <2>2. [p.delta EXCEPT ![t] = @ + d] = delta
    BY <1>1
  <2> HIDE DEF q, delta, Updated
  <2> QED
    BY Zenon, <1>1, <2>1, <2>2 DEF Mem
<1> HIDE DEF q, Updated
<1>4. q.tx = tx /\ q.next = p.next /\ q.delta = delta
  BY <1>3
<1>5. Mem(q) = Mem(p) /\ \A u \in Mem(p) : q.tx[u] = Updated(u)
  BY <1>4 DEF Mem
<1>6. q \in Pools
  <2>1. tx \in [Mem(p) -> Entry]
    <3>1. \A u \in Mem(p) : Updated(u) \in Entry
      BY Zenon, <1>2
    <3> QED
      BY <3>1
  <2>3. delta \in [Tx -> Int]
    BY <1>1
  <2>2. Mem(p) \in SUBSET (Tx \ Coinbase)
    BY PoolType
  <2> HIDE DEF tx, delta
  <2> QED
    BY <1>3, <2>1, <2>2, <2>3, PoolType DEF Pools
<1>7. \A u \in Tx : q.delta[u] = IF u = t THEN p.delta[t] + d ELSE p.delta[u]
  BY <1>4
<1>8. Repriced(p, q, t, d)
  <2>1. ASSUME NEW u \in Mem(p)
        PROVE  /\ q.tx[u].feeDelta = IF u = t THEN p.delta[t] + d ELSE p.tx[u].feeDelta
               /\ q.tx[u].parents = p.tx[u].parents /\ q.tx[u].children = p.tx[u].children
               /\ q.tx[u].spendsCoinbase = p.tx[u].spendsCoinbase
               /\ q.tx[u].anc = IF u \in Down(p, t) THEN Richer(p.tx[u].anc, d) ELSE p.tx[u].anc
               /\ q.tx[u].desc = IF u = t \/ u \in Ancestors(p, t) THEN Richer(p.tx[u].desc, d)
                                 ELSE p.tx[u].desc
    <3>1. q.tx[u] = Updated(u)
      BY <1>5
    <3> QED
      BY Zenon, <1>2, <3>1 DEF Richer
  <2> QED
    BY Zenon, <1>4, <1>5, <1>6, <1>7, <2>1 DEF Repriced
<1> QED
  BY <1>8 DEF q

\* The package of a set with t, when only the fee delta of t has changed, by d.
LEMMA PackageFee ==
  ASSUME NEW p \in Pools, NEW q \in Pools, Mem(q) = Mem(p), NEW t \in Mem(p), NEW d \in Int,
         \A u \in Mem(p) : q.tx[u].feeDelta = IF u = t THEN p.tx[t].feeDelta + d ELSE p.tx[u].feeDelta,
         NEW S \in SUBSET Mem(p)
  PROVE  Package(q, S) = IF t \in S THEN Richer(Package(p, S), d) ELSE Package(p, S)
<1> DEFINE T == S \ {t}
<1>1. T \in SUBSET Mem(p) /\ T \in SUBSET Mem(q) /\ {t} \in SUBSET Mem(p) /\ {t} \in SUBSET Mem(q)
      /\ T \intersect {t} = {} /\ T \in SUBSET (Mem(p) \intersect Mem(q))
  OBVIOUS
<1>2. \A u \in T : q.tx[u].feeDelta = p.tx[u].feeDelta
  OBVIOUS
<1>3. Package(q, T) = Package(p, T)
  BY <1>1, <1>2, PackageSame
<1>4. CASE t \notin S
  <2>1. T = S
    BY <1>4
  <2> QED
    BY <1>3, <1>4, <2>1
<1>5. CASE t \in S
  <2>1. S = T \union {t}
    BY <1>5
  <2> HIDE DEF T
  <2>2. Package(q, S) = Plus(Package(q, T), Package(q, {t})) /\ Package(p, S) = Plus(Package(p, T), Package(p, {t}))
    BY <1>1, <2>1, PackageUnion
  <2>3. /\ Package(q, {t}) = [n |-> 1, size |-> Size[t], fee |-> ModifiedFee(q, t)]
        /\ Package(p, {t}) = [n |-> 1, size |-> Size[t], fee |-> ModifiedFee(p, t)]
    BY PackageOne
  <2>4. q.tx[t].feeDelta = p.tx[t].feeDelta + d /\ p.tx[t].feeDelta \in Int /\ Fee[t] \in Int /\ Size[t] \in Int
    BY EntryType, TxMemPoolConstants
  <2>5. ModifiedFee(q, t) = ModifiedFee(p, t) + d /\ ModifiedFee(p, t) \in Int
    BY <2>4 DEF ModifiedFee
  <2>6. /\ Package(p, T) \in Pkg /\ Package(p, T).n \in Int /\ Package(p, T).size \in Int
        /\ Package(p, T).fee \in Int
    <3>1. Package(p, T) \in Pkg
      BY Zenon, <1>1, PackageParts
    <3> QED
      BY <3>1 DEF Pkg
  <2>7. Package(p, S) = [n |-> Package(p, T).n + 1, size |-> Package(p, T).size + Size[t],
                         fee |-> Package(p, T).fee + ModifiedFee(p, t)]
    BY <2>2, <2>3 DEF Plus
  <2>8. Package(q, S) = [n |-> Package(p, T).n + 1, size |-> Package(p, T).size + Size[t],
                         fee |-> Package(p, T).fee + (ModifiedFee(p, t) + d)]
    BY <1>3, <2>2, <2>3, <2>5 DEF Plus
  <2>9. Package(p, T).fee + (ModifiedFee(p, t) + d) = (Package(p, T).fee + ModifiedFee(p, t)) + d
    BY <2>5, <2>6
  <2>10. [Package(p, S) EXCEPT !.fee = @ + d]
           = [n |-> Package(p, T).n + 1, size |-> Package(p, T).size + Size[t],
              fee |-> (Package(p, T).fee + ModifiedFee(p, t)) + d]
    BY <2>7
  <2> QED
    BY <1>5, <2>8, <2>9, <2>10 DEF Richer
<1> QED
  BY <1>4, <1>5

\* PrioritiseTransaction keeps the pool in order, at any moment.
LEMMA PrioritiseOk ==
  ASSUME NEW p, NEW U, NEW Q, NEW b, InOrder(p, U, Q, b), Noted(p), NEW t \in Tx, NEW d \in Int
  PROVE  LET q == Prioritised(p, t, d) IN InOrder(q, U, Q, b) /\ Noted(q) /\ Mem(q) = Mem(p)
<1> DEFINE q == Prioritised(p, t, d)
<1>1. Fine(p) /\ p \in Pools /\ Linked(p) /\ Counted(p) /\ NextOk(p)
  BY DEF InOrder, Fine
<1>2. CASE t \notin Mem(p)
  <2> DEFINE delta == [p.delta EXCEPT ![t] = @ + d]
  <2>1. p = [tx |-> p.tx, next |-> p.next, delta |-> p.delta] /\ p.delta \in [Tx -> Int]
    BY <1>1 DEF Pools
  <2>2. q = [p EXCEPT !.delta[t] = @ + d, !.tx = @]
    BY <1>2 DEF Prioritised, Mem
  <2>3. delta \in [Tx -> Int] /\ \A u \in Tx : u # t => delta[u] = p.delta[u]
    BY <2>1
  <2>a. delta = [p.delta EXCEPT ![t] = @ + d]
    OBVIOUS
  <2> HIDE DEF q, delta
  <2>4. q = [tx |-> p.tx, next |-> p.next, delta |-> delta]
    BY Zenon, <2>1, <2>2, <2>a
  <2>5. q.tx = p.tx /\ q.next = p.next /\ q.delta = delta /\ Mem(q) = Mem(p)
    BY <2>4 DEF Mem
  <2>6. q \in Pools
    BY <1>1, <2>3, <2>4 DEF Pools
  <2>7. Linked(q) /\ NextOk(q)
    BY <1>1, <2>5 DEF Linked, NextOk
  <2>8. \A u \in Mem(q) : Ancestors(q, u) = Ancestors(p, u) /\ Down(q, u) = Down(p, u)
    BY <2>5 DEF Ancestors, Down, CalculateDescendants, Reachable
  <2>9. ASSUME NEW S \in SUBSET Mem(q)
        PROVE  Package(q, S) = Package(p, S)
    <3>1. S \in SUBSET (Mem(p) \intersect Mem(q)) /\ \A u \in S : q.tx[u].feeDelta = p.tx[u].feeDelta
      BY <2>5
    <3> QED
      BY <1>1, <2>6, <3>1, PackageSame
  <2>10. Counted(q)
    <3> SUFFICES ASSUME NEW u \in Mem(q)
                 PROVE  /\ q.tx[u].anc = Package(q, {u} \union Ancestors(q, u))
                        /\ q.tx[u].desc = Package(q, Down(q, u))
      BY DEF Counted
    <3>1. {u} \union Ancestors(q, u) \in SUBSET Mem(q) /\ Down(q, u) \in SUBSET Mem(q)
      BY <2>7, UpIn, DownIn DEF Down
    <3>2. p.tx[u].anc = Package(p, {u} \union Ancestors(p, u)) /\ p.tx[u].desc = Package(p, Down(p, u))
      BY <1>1, <2>5 DEF Counted
    <3> QED
      BY <2>5, <2>8, <2>9, <3>1, <3>2
  <2>11. Fine(q)
    BY <2>6, <2>7, <2>10 DEF Fine
  <2>12. InOrder(q, U, Q, b)
    BY <2>5, <2>11 DEF InOrder, LinksAre, Apart, Supplied, Above
  <2>13. Noted(q)
    <3>1. \A u \in Mem(p) : u \in Tx /\ u # t
      BY <1>1, <1>2, PoolType
    <3> QED
      BY <2>3, <2>5, <3>1 DEF Noted
  <2> QED
    BY <2>5, <2>12, <2>13 DEF q
<1>3. CASE t \in Mem(p)
  <2>a. Repriced(p, q, t, d)
    BY <1>1, <1>3, PrioritisedParts
  <2> HIDE DEF q
  <2>1. q \in Pools /\ Mem(q) = Mem(p) /\ q.next = p.next
    BY <2>a DEF Repriced
  <2>2. \A u \in Mem(p) : q.tx[u].parents = p.tx[u].parents /\ q.tx[u].children = p.tx[u].children
    BY <2>a DEF Repriced
  <2>3. \A u \in Mem(p) :
          /\ q.tx[u].anc = IF u \in Down(p, t) THEN Richer(p.tx[u].anc, d) ELSE p.tx[u].anc
          /\ q.tx[u].desc = IF u = t \/ u \in Ancestors(p, t) THEN Richer(p.tx[u].desc, d)
                            ELSE p.tx[u].desc
    BY Zenon, <2>a DEF Repriced
  <2>4. \A u \in Mem(p) : q.tx[u].feeDelta = IF u = t THEN p.tx[t].feeDelta + d ELSE p.tx[u].feeDelta
    BY Zenon, <1>3, <2>a DEF Noted, Repriced
  <2>5. Noted(q)
    <3>1. \A u \in Mem(p) : u \in Tx
      BY <1>1, PoolType
    <3>2. \A u \in Tx : q.delta[u] = IF u = t THEN p.delta[t] + d ELSE p.delta[u]
      BY <2>a DEF Repriced
    <3>3. \A u \in Mem(p) : q.tx[u].spendsCoinbase = p.tx[u].spendsCoinbase
      BY <2>a DEF Repriced
    <3> QED
      BY <2>1, <2>4, <3>1, <3>2, <3>3 DEF Noted
  <2>6. Linked(q) /\ NextOk(q)
    BY <1>1, <2>1, <2>2 DEF Linked, NextOk
  <2>7. ASSUME NEW u \in Mem(p)
        PROVE  Ancestors(q, u) = Ancestors(p, u) /\ Down(q, u) = Down(p, u)
    <3>1. Ancestors(q, u) \subseteq Ancestors(p, u)
      BY <1>1, <2>1, <2>2, UpIn, UpLeast
    <3>2. Ancestors(p, u) \subseteq Ancestors(q, u)
      <4>1. /\ Ancestors(q, u) \in SUBSET Mem(p) /\ p.tx[u].parents \subseteq Ancestors(q, u)
            /\ \A a \in Ancestors(q, u) : p.tx[a].parents \subseteq Ancestors(q, u)
        BY <2>1, <2>2, <2>6, UpIn
      <4> QED
        BY <4>1, UpLeast
    <3>3. Down(q, u) \subseteq Down(p, u)
      <4>1. /\ Down(p, u) \in SUBSET Mem(q) /\ {u} \subseteq Down(p, u)
            /\ \A a \in Down(p, u) : q.tx[a].children \subseteq Down(p, u)
        BY Zenon, <1>1, <2>1, <2>2, DownIn DEF Down
      <4> QED
        BY <4>1, DownLeast DEF Down
    <3>4. Down(p, u) \subseteq Down(q, u)
      <4>1. {u} \in SUBSET Mem(q)
        BY <2>1
      <4>2. /\ Down(q, u) \in SUBSET Mem(p) /\ {u} \subseteq Down(q, u)
            /\ \A a \in Down(q, u) : p.tx[a].children \subseteq Down(q, u)
        BY Zenon, <2>1, <2>2, <2>6, <4>1, DownIn DEF Down
      <4> QED
        BY Zenon, <4>2, DownLeast DEF Down
    <3> QED
      BY <3>1, <3>2, <3>3, <3>4
  <2>8. ASSUME NEW S \in SUBSET Mem(p)
        PROVE  Package(q, S) = IF t \in S THEN Richer(Package(p, S), d) ELSE Package(p, S)
    BY <1>1, <1>3, <2>1, <2>4, PackageFee
  <2>9. Counted(q)
    <3> SUFFICES ASSUME NEW u \in Mem(p)
                 PROVE  /\ q.tx[u].anc = Package(q, {u} \union Ancestors(p, u))
                        /\ q.tx[u].desc = Package(q, Down(p, u))
      BY <2>1, <2>7 DEF Counted
    <3>1. {u} \union Ancestors(p, u) \in SUBSET Mem(p) /\ Down(p, u) \in SUBSET Mem(p)
          /\ u \in Down(p, u)
      BY <1>1, UpIn, DownIn DEF Down
    <3>2. p.tx[u].anc = Package(p, {u} \union Ancestors(p, u)) /\ p.tx[u].desc = Package(p, Down(p, u))
      BY <1>1 DEF Counted
    <3>3. t \in {u} \union Ancestors(p, u) <=> u \in Down(p, t)
      <4>1. t \in Down(p, t)
        BY <1>1, <1>3, DownIn DEF Down
      <4> QED
        BY <1>1, <1>3, <4>1, Dual
    <3>4. t \in Down(p, u) <=> u = t \/ u \in Ancestors(p, t)
      BY <1>1, <1>3, <3>1, Dual
    <3>5. Package(q, {u} \union Ancestors(p, u))
            = IF t \in {u} \union Ancestors(p, u)
              THEN Richer(Package(p, {u} \union Ancestors(p, u)), d)
              ELSE Package(p, {u} \union Ancestors(p, u))
      BY Zenon, <2>8, <3>1
    <3>6. Package(q, Down(p, u)) = IF t \in Down(p, u) THEN Richer(Package(p, Down(p, u)), d)
                                   ELSE Package(p, Down(p, u))
      BY Zenon, <2>8, <3>1
    <3> QED
      BY Zenon, <2>3, <3>2, <3>3, <3>4, <3>5, <3>6
  <2>10. Fine(q)
    BY <2>1, <2>6, <2>9 DEF Fine
  <2>11. InOrder(q, U, Q, b)
    BY Zenon, <2>1, <2>2, <2>10 DEF InOrder, LinksAre, Apart, Supplied, Above
  <2> QED
    BY <2>1, <2>5, <2>11 DEF q
<1> QED
  BY <1>2, <1>3

(***************************************************************************)
(* The limit on the size                                                   *)
(***************************************************************************)
\* A round of TrimToSize adds an entry with its descendants to what is gone.
LEMMA TrimRoundClosed ==
  ASSUME NEW p, Fine(p), NEW R, DownClosed(p, R), NEW S \in TrimRound(p, R)
  PROVE  DownClosed(p, S)
<1> DEFINE q == RemoveStaged(p, R, FALSE)
           first == {t \in DOMAIN q.tx : \A u \in DOMAIN q.tx :
                       ~PaysLess(DescendantScore(q, u), DescendantScore(q, t))}
<1>1. S = R \/ \E t \in Mem(q) : S = R \union CalculateDescendants(q, {t})
  <2>1. S \in IF Usage(q) <= MaxMempool THEN {R} ELSE {R \union CalculateDescendants(q, {t}) : t \in first}
    BY Zenon DEF TrimRound
  <2>2. first \subseteq Mem(q)
    BY Zenon DEF Mem
  <2> HIDE DEF first, q
  <2> QED
    BY <2>1, <2>2
<1>2. Less(p, q, R)
  BY Zenon, RemoveClosed
<1> HIDE DEF q
<1>3. Linked(q) /\ Mem(q) = Mem(p) \ R /\ \A u \in Mem(q) : q.tx[u].children = p.tx[u].children \ R
  BY <1>2 DEF Less, Fine
<1>4. CASE S = R
  BY <1>4
<1>5. ASSUME NEW t \in Mem(q), S = R \union CalculateDescendants(q, {t})
      PROVE  DownClosed(p, S)
  <2> DEFINE D == CalculateDescendants(q, {t})
  <2>1. {t} \in SUBSET Mem(q)
    OBVIOUS
  <2>2. D \in SUBSET Mem(q) /\ \A u \in D : q.tx[u].children \subseteq D
    BY Zenon, <1>3, <2>1, DownIn
  <2> HIDE DEF D
  <2>3. S = R \union D
    BY <1>5 DEF D
  <2> QED
    BY <1>3, <2>2, <2>3 DEF DownClosed
<1> QED
  BY Zenon, <1>1, <1>4, <1>5

\* What TrimToSize can leave is the pool without a set of entries with their descendants.
LEMMA TrimParts ==
  ASSUME NEW p, Fine(p), NEW q \in TrimToSize(p)
  PROVE  \E R : DownClosed(p, R) /\ q = RemoveStaged(p, R, FALSE)
<1> DEFINE N == Cardinality(DOMAIN p.tx)
           X == SUBSET SUBSET Mem(p)
           Ok == {G \in X : \A R \in G : DownClosed(p, R)}
           F == [x \in X \X (1 .. N) |-> UNION {TrimRound(p, R) : R \in x[1]}]
           Def(f) == f = [n \in 0 .. N |-> IF n = 0 THEN {{}} ELSE UNION {TrimRound(p, R) : R \in f[n - 1]}]
<1>1. N \in Nat
  <2>1. IsFiniteSet(Mem(p))
    BY PoolType DEF Fine
  <2>2. Mem(p) \in SUBSET Mem(p)
    OBVIOUS
  <2> QED
    BY <2>1, <2>2, Counting DEF Mem
<1>2. {{}} \in Ok
  BY DEF DownClosed
<1>3. ASSUME NEW G \in Ok
      PROVE  UNION {TrimRound(p, R) : R \in G} \in Ok
  <2>1. \A R \in G : \A S \in TrimRound(p, R) : DownClosed(p, S)
    BY TrimRoundClosed
  <2>2. \A S \in UNION {TrimRound(p, R) : R \in G} : DownClosed(p, S)
    BY <2>1
  <2>3. UNION {TrimRound(p, R) : R \in G} \in X
    BY <2>2 DEF DownClosed
  <2> QED
    BY <2>2, <2>3
<1>4. \A G \in Ok : G \in X /\ \A R \in G : DownClosed(p, R)
  OBVIOUS
<1> HIDE DEF Ok, N, X
<1>5. \E f : Def(f)
  <2> HIDE DEF F
  <2>0. PICK f : IsRounds(f, N, {{}}, F)
    BY <1>1, Rounds
  <2>1. f = [i \in 0 .. N |-> f[i]] /\ f[0] = {{}} /\ \A i \in 1 .. N : f[i] = F[<<f[i - 1], i>>]
    BY Zenon, <2>0 DEF IsRounds
  <2> DEFINE I == {i \in 0 .. N : f[i] \in Ok}
  <2>2. 0 \in I
    <3>1. f[0] \in Ok
      BY Zenon, <1>2, <2>1
    <3> QED
      BY <1>1, <3>1
  <2>3. ASSUME NEW i \in 1 .. N, f[i - 1] \in Ok
        PROVE  f[i] = UNION {TrimRound(p, R) : R \in f[i - 1]}
    <3>1. f[i] = F[<<f[i - 1], i>>]
      BY <2>1
    <3>2. f[i - 1] \in X
      BY <1>4, <2>3
    <3> HIDE DEF I
    <3> QED
      BY <3>1, <3>2 DEF F
  <2>4. \A i \in 1 .. N : i - 1 \in I => i \in I
    BY <1>3, <2>3
  <2> HIDE DEF I
  <2>5. \A i \in 0 .. N : i \in I
    BY <1>1, <2>2, <2>4, UpTo
  <2>6. \A i \in 1 .. N : f[i] = UNION {TrimRound(p, R) : R \in f[i - 1]}
    <3>1. \A i \in 1 .. N : i - 1 \in 0 .. N
      BY <1>1
    <3> QED
      BY <2>3, <2>5, <3>1 DEF I
  <2>7. \A n \in 0 .. N : f[n] = IF n = 0 THEN {{}} ELSE UNION {TrimRound(p, R) : R \in f[n - 1]}
    <3>1. \A i \in 0 .. N : i = 0 \/ i \in 1 .. N
      BY <1>1
    <3> QED
      BY Zenon, <2>1, <2>6, <3>1
  <2>8. Def(f)
    BY <2>1, <2>7
  <2> QED
    BY Zenon, <2>8
<1> DEFINE Gone == CHOOSE f : Def(f)
<1>6. Def(Gone)
  BY Zenon, <1>5
<1>7. q \in {RemoveStaged(p, R, FALSE) : R \in Gone[N]}
  BY Zenon DEF TrimToSize, N
<1> HIDE DEF Gone
<1> DEFINE g == [n \in 0 .. N |-> IF n = 0 THEN {{}} ELSE UNION {TrimRound(p, R) : R \in Gone[n - 1]}]
<1>8. g[0] = {{}} /\ \A i \in 1 .. N : g[i] = UNION {TrimRound(p, R) : R \in Gone[i - 1]}
  BY <1>1
<1> HIDE DEF g
<1>9. Gone = g
  BY Zenon, <1>6 DEF g
<1>10. Gone[N] \in Ok
  <2> DEFINE I == {i \in 0 .. N : Gone[i] \in Ok}
  <2>1. 0 \in I
    <3>1. Gone[0] \in Ok
      BY Zenon, <1>2, <1>8, <1>9
    <3> QED
      BY <1>1, <3>1
  <2>2. ASSUME NEW i \in 1 .. N, i - 1 \in I
        PROVE  i \in I
    BY <1>3, <1>8, <1>9, <2>2
  <2> HIDE DEF I
  <2>3. \A i \in 0 .. N : i \in I
    BY <1>1, <2>1, <2>2, UpTo
  <2> QED
    BY <1>1, <2>3 DEF I
<1> QED
  BY Zenon, <1>4, <1>7, <1>10

\* LimitMempoolSize keeps the pool in order, and what an entry spends in the pool.
LEMMA LimitOk ==
  ASSUME NEW p, NEW Q, NEW b, InOrder(p, {}, Q, b), NEW expired \in SUBSET Mem(p),
         NEW r \in LimitMempoolSize(p, expired)
  PROVE  /\ InOrder(r, {}, Q, b) /\ Kept(p, r)
         /\ \A u \in Mem(r) : InputTxs(u) \intersect Mem(p) \subseteq Mem(r)
<1> DEFINE q == RemoveWithDescendants(p, expired)
<1>1. /\ InOrder(q, {}, Q, b) /\ Kept(p, q)
      /\ \A u \in Mem(q) : InputTxs(u) \intersect Mem(p) \subseteq Mem(q)
  <2>1. expired \in SUBSET (Mem(p) \ {})
    OBVIOUS
  <2> QED
    BY Zenon, <2>1, RemoveOk
<1>2. r \in TrimToSize(q)
  BY DEF LimitMempoolSize
<1> HIDE DEF q
<1>3. PICK R : DownClosed(q, R) /\ r = RemoveStaged(q, R, FALSE)
  BY Zenon, <1>1, <1>2, TrimParts DEF InOrder
<1>4. R \intersect {} = {}
  OBVIOUS
<1>5. /\ InOrder(r, {}, Q, b) /\ Mem(r) = Mem(q) \ R /\ Kept(q, r)
      /\ \A u \in Mem(q) \ R : InputTxs(u) \intersect R = {}
  BY Zenon, <1>1, <1>3, <1>4, RemoveStagedOk
<1>6. Kept(p, r)
  BY <1>1, <1>5 DEF Kept
<1>7. \A u \in Mem(r) : InputTxs(u) \intersect Mem(p) \subseteq Mem(r)
  BY <1>1, <1>5
<1> QED
  BY <1>5, <1>6, <1>7

(***************************************************************************)
(* Coinbases                                                               *)
(***************************************************************************)
\* No entry spends a coinbase too early.
Ripe(p, b) == \A t \in Mem(p) : \A o \in Ins(t) : o[1] \in Mem(p) \/ Mature(b, o)

\* When entries go with all that spends them, it stays so.
LEMMA RipeLess ==
  ASSUME NEW p, NEW q, NEW b, Ripe(p, b), Mem(q) \subseteq Mem(p),
         \A u \in Mem(q) : InputTxs(u) \intersect Mem(p) \subseteq Mem(q)
  PROVE  Ripe(q, b)
BY DEF Ripe, InputTxs

\* removeForReorg leaves no entry that spends a coinbase too early.
LEMMA ReorgOk ==
  ASSUME NEW p, NEW b, InOrder(p, {}, {}, b), Noted(p), NEW nonFinal \in SUBSET Mem(p)
  PROVE  LET q == removeForReorg(p, b, nonFinal)
         IN  InOrder(q, {}, {}, b) /\ Noted(q) /\ Ripe(q, b)
<1> DEFINE Spoilt(t) == /\ p.tx[t].spendsCoinbase
                        /\ \E o \in Ins(t) : o[1] \notin Mem(p) /\ ~(HaveCoin(b, o) /\ Mature(b, o))
           S == nonFinal \union {t \in Mem(p) : Spoilt(t)}
           q == RemoveWithDescendants(p, S)
<1>1. removeForReorg(p, b, nonFinal) = q
  BY DEF removeForReorg, Mem
<1>2. S \in SUBSET (Mem(p) \ {})
  OBVIOUS
<1>3. \A t \in Mem(p) \ S : ~Spoilt(t)
  OBVIOUS
<1> HIDE DEF S
<1>4. /\ InOrder(q, {}, {}, b) /\ Mem(q) \subseteq Mem(p) \ S /\ Kept(p, q)
      /\ \A u \in Mem(q) : InputTxs(u) \intersect Mem(p) \subseteq Mem(q)
  BY Zenon, <1>2, RemoveOk
<1> HIDE DEF q
<1>5. Noted(q)
  BY <1>4 DEF Noted, Kept
<1>6. Ripe(q, b)
  <2> SUFFICES ASSUME NEW t \in Mem(q), NEW o \in Ins(t), o[1] \notin Mem(q)
               PROVE  Mature(b, o)
    BY DEF Ripe
  <2>1. t \in Mem(p) /\ ~Spoilt(t)
    BY <1>3, <1>4
  <2>2. o[1] \in InputTxs(t)
    BY DEF InputTxs
  <2>3. o[1] \notin Mem(p)
    BY <1>4, <2>2
  <2>4. CASE o[1] \in Coinbase
    <3>1. p.tx[t].spendsCoinbase
      BY Zenon, <2>1, <2>2, <2>4 DEF Noted
    <3> QED
      BY <2>1, <2>3, <3>1
  <2>5. CASE o[1] \notin Coinbase
    BY <2>5 DEF Mature
  <2> QED
    BY <2>4, <2>5
<1> QED
  BY <1>1, <1>4, <1>5, <1>6

\* A block on top makes what was mature no less so.
LEMMA RipeConnect ==
  ASSUME NEW p \in Pools, NEW q, NEW b \in Block \ {Genesis}, Ripe(p, Prev[b]), Mem(q) \subseteq Mem(p)
  PROVE  Ripe(q, b)
<1> SUFFICES ASSUME NEW t \in Mem(q), NEW o \in Ins(t), o[1] \in Coinbase
             PROVE  Mature(b, o)
  BY DEF Ripe, Mature
<1>1. o[1] \notin Mem(p)
  BY PoolType
<1>2. Mature(Prev[b], o)
  BY <1>1 DEF Ripe
<1>3. PICK a \in Anc[Prev[b]] : o[1] \in Range(Body[a]) /\ Height[Prev[b]] + 1 - Height[a] >= COINBASE_MATURITY
  BY <1>2 DEF Mature
<1>4. Prev[b] \in Block /\ Anc[b] = {b} \union Anc[Prev[b]] /\ Height[b] = Height[Prev[b]] + 1
  BY BlockTree
<1>5. a \in Anc[b] /\ a \in Block
  BY <1>3, <1>4, BlockTree
<1>6. Height[a] \in Nat /\ Height[Prev[b]] \in Nat /\ COINBASE_MATURITY \in Nat
  BY <1>4, <1>5, BlockTree, TxMemPoolConstants
<1>7. Height[b] + 1 - Height[a] >= COINBASE_MATURITY
  <2>1. \A i, j, k \in Nat : i + 1 - j >= k => (i + 1) + 1 - j >= k
    OBVIOUS
  <2> QED
    BY Zenon, <1>3, <1>4, <1>6, <2>1
<1> QED
  BY <1>3, <1>5, <1>7 DEF Mature

(***************************************************************************)
(* UpdateTransactionsFromBlock                                             *)
(***************************************************************************)
\* The links that the inputs of the entries M say there are.
Graph(M) ==
  [tx |-> [t \in M |-> [parents |-> InputTxs(t) \intersect M, children |-> {u \in M : t \in InputTxs(u)}]]]

\* An entry and all that depends on it, and what it depends on.
Below(M, t) == Down(Graph(M), t)

Over(M, t) == Ancestors(Graph(M), t)

\* The links of the inputs agree.
LEMMA GraphLinked ==
  ASSUME NEW M
  PROVE  /\ Mem(Graph(M)) = M /\ Linked(Graph(M))
         /\ \A t \in M : /\ Graph(M).tx[t].children = {u \in M : t \in InputTxs(u)}
                         /\ Graph(M).tx[t].parents = InputTxs(t) \intersect M
<1>1. Mem(Graph(M)) = M
  BY DEF Graph, Mem
<1>2. \A t \in M : /\ Graph(M).tx[t].children = {u \in M : t \in InputTxs(u)}
                   /\ Graph(M).tx[t].parents = InputTxs(t) \intersect M
  BY DEF Graph
<1> QED
  BY <1>1, <1>2 DEF Linked

\* What DownIn, DownLeast, DownTrans and Dual say of it.
LEMMA BelowIn ==
  ASSUME NEW M, NEW t \in M
  PROVE  /\ Below(M, t) \in SUBSET M /\ t \in Below(M, t) /\ Over(M, t) \in SUBSET M
         /\ \A x \in Below(M, t) : \A u \in M : x \in InputTxs(u) => u \in Below(M, t)
         /\ \A x \in Below(M, t) : Below(M, x) \subseteq Below(M, t)
         /\ \A x \in M \ {t} : x \in Below(M, t) <=> t \in Over(M, x)
<1> DEFINE g == Graph(M)
<1>1. Mem(g) = M /\ Linked(g) /\ \A x \in M : g.tx[x].children = {u \in M : x \in InputTxs(u)}
  BY GraphLinked
<1> HIDE DEF g
<1>2. {t} \in SUBSET Mem(g)
  BY <1>1
<1>3. Down(g, t) \in SUBSET M /\ t \in Down(g, t) /\ \A x \in Down(g, t) : g.tx[x].children \subseteq Down(g, t)
  BY Zenon, <1>1, <1>2, DownIn DEF Down
<1>4. Ancestors(g, t) \in SUBSET M
  BY <1>1, UpIn
<1>5. \A x \in Down(g, t) : Down(g, x) \subseteq Down(g, t)
  BY <1>1, <1>2, DownTrans DEF Down
<1>6. \A x \in M \ {t} : x \in Down(g, t) <=> t \in Ancestors(g, x)
  BY <1>1, Dual
<1>7. \A x \in Down(g, t) : \A u \in M : x \in InputTxs(u) => u \in Down(g, t)
  BY <1>1, <1>3
<1> QED
  BY <1>3, <1>4, <1>5, <1>6, <1>7 DEF Below, Over, g

\* It is the least set that is closed under spending.
LEMMA BelowLeast ==
  ASSUME NEW M, NEW t \in M, NEW C \in SUBSET M, t \in C,
         \A x \in C : \A u \in M : x \in InputTxs(u) => u \in C
  PROVE  Below(M, t) \subseteq C
<1> DEFINE g == Graph(M)
<1>1. Mem(g) = M /\ \A x \in M : g.tx[x].children = {u \in M : x \in InputTxs(u)}
  BY GraphLinked
<1> HIDE DEF g
<1>2. C \in SUBSET Mem(g) /\ {t} \subseteq C /\ \A x \in C : g.tx[x].children \subseteq C
  BY <1>1
<1> QED
  BY <1>2, DownLeast DEF Below, Down, g

\* In the middle of UpdateTransactionsFromBlock: of the entries U that came back
\* those in P are linked and counted; s has the pool and the cache.
Caches == UNION {[S -> SUBSET Tx] : S \in SUBSET Tx}

States == [pool : Pools, cache : Caches]

Relinking(p, U, P, s) ==
  /\ s \in States /\ Mem(s.pool) = Mem(p) /\ s.pool.next = p.next /\ Kept(p, s.pool) /\ Linked(s.pool)
  /\ \A t, u \in Mem(p) : u \in s.pool.tx[t].children <=> t \in InputTxs(u) /\ (t \in U \ P => u \in U)
  /\ \A t \in Mem(p) :
       /\ s.pool.tx[t].desc = Package(p, IF t \in U \ P THEN Below(Mem(p), t) \intersect U ELSE Below(Mem(p), t))
       /\ s.pool.tx[t].anc = Package(p, IF t \in U THEN {t} \union Over(Mem(p), t)
                                        ELSE ({t} \union Over(Mem(p), t)) \ (U \ P))
  /\ DOMAIN s.cache \subseteq P \intersect Mem(p)
  /\ \A c \in DOMAIN s.cache : s.cache[c] = Below(Mem(p), c) \ U

\* Nothing outside U has a descendant in U.
LEMMA BelowOutside ==
  ASSUME NEW M, NEW U, \A x \in U : InputTxs(x) \intersect M \subseteq U, NEW t \in M \ U
  PROVE  Below(M, t) \intersect U = {}
<1> DEFINE C == M \ U
<1>1. C \in SUBSET M /\ t \in C /\ \A x \in C : \A u \in M : x \in InputTxs(u) => u \in C
  OBVIOUS
<1> HIDE DEF C
<1>2. Below(M, t) \subseteq C
  BY <1>1, BelowLeast
<1> QED
  BY <1>2 DEF C

\* Before the first round.
LEMMA RelinkStart ==
  ASSUME NEW p, NEW U, NEW b, InOrder(p, U, {}, b)
  PROVE  Relinking(p, U, {}, [pool |-> p, cache |-> <<>>])
<1> DEFINE M == Mem(p)
           s == [pool |-> p, cache |-> <<>>]
<1>1. p \in Pools /\ Linked(p) /\ Counted(p) /\ LinksAre(p, U)
  BY DEF InOrder, Fine
<1>2. \A x \in U : InputTxs(x) \intersect M \subseteq U
  BY DEF InOrder, Above
<1> HIDE DEF M
<1>m. M = Mem(p)
  BY DEF M
<1>3. \A t, u \in M : u \in p.tx[t].children <=> t \in InputTxs(u) /\ (t \in U => u \in U)
  BY Zenon, <1>1 DEF LinksAre, M
<1>c. \A t \in M : p.tx[t].children \subseteq M
  BY <1>1 DEF Linked, M
<1>4. ASSUME NEW t \in M
      PROVE  Down(p, t) = IF t \in U THEN Below(M, t) \intersect U ELSE Below(M, t)
  <2> DEFINE B == Below(M, t)
  <2>1. B \in SUBSET M /\ t \in B /\ \A x \in B : \A u \in M : x \in InputTxs(u) => u \in B
    BY BelowIn
  <2>2. /\ Down(p, t) \in SUBSET M /\ t \in Down(p, t)
        /\ \A x \in Down(p, t) : p.tx[x].children \subseteq Down(p, t)
    BY Zenon, <1>1, DownIn DEF Down, M
  <2> HIDE DEF B
  <2>3. Down(p, t) \subseteq B
    <3>1. B \in SUBSET Mem(p) /\ {t} \subseteq B /\ \A x \in B : p.tx[x].children \subseteq B
      BY <1>3, <1>c, <1>m, <2>1
    <3> QED
      BY <3>1, DownLeast DEF Down
  <2>4. CASE t \notin U
    <3>1. B \intersect U = {}
      BY <1>2, <2>4, BelowOutside DEF B
    <3>2. \A x \in Down(p, t) : \A u \in M : x \in InputTxs(u) => u \in Down(p, t)
      BY <1>3, <2>1, <2>2, <2>3, <3>1
    <3>3. B \subseteq Down(p, t)
      BY <2>2, <3>2, BelowLeast DEF B
    <3> QED
      BY <2>3, <2>4, <3>3 DEF B
  <2>5. CASE t \in U
    <3> DEFINE C == B \intersect U
               E == Down(p, t) \union (M \ U)
    <3>1. C \in SUBSET Mem(p) /\ {t} \subseteq C /\ \A x \in C : p.tx[x].children \subseteq C
      BY <1>3, <1>c, <1>m, <2>1, <2>5
    <3>2. Down(p, t) \subseteq C
      <4> HIDE DEF C
      <4> QED
        BY <3>1, DownLeast DEF Down
    <3>3. E \in SUBSET M /\ t \in E /\ \A x \in E : \A u \in M : x \in InputTxs(u) => u \in E
      BY <1>2, <1>3, <2>2
    <3>4. B \subseteq E
      <4> HIDE DEF E
      <4> QED
        BY <3>3, BelowLeast DEF B
    <3> QED
      BY <2>5, <3>2, <3>4 DEF B
  <2> QED
    BY <2>4, <2>5
<1>5. ASSUME NEW t \in M
      PROVE  {t} \union Ancestors(p, t) = IF t \in U THEN {t} \union Over(M, t)
                                          ELSE ({t} \union Over(M, t)) \ U
  <2>1. Ancestors(p, t) \in SUBSET M /\ Over(M, t) \in SUBSET M
    BY Zenon, <1>1, BelowIn, UpIn DEF M
  <2>2. ASSUME NEW v \in M \ {t}
        PROVE  v \in Ancestors(p, t) <=> v \in Over(M, t) /\ (v \in U => t \in U)
    <3>1. v \in Ancestors(p, t) <=> t \in Down(p, v)
      BY <1>1, <1>m, Dual
    <3>2. v \in Over(M, t) <=> t \in Below(M, v)
      BY BelowIn
    <3> QED
      BY <1>4, <3>1, <3>2
  <2>3. ASSUME NEW v \in M \ U, t \in U
        PROVE  v \notin Over(M, t)
    <3>1. t \notin Below(M, v) /\ v # t
      BY <1>2, <2>3, BelowOutside
    <3> QED
      BY <3>1, BelowIn
  <2> QED
    BY <2>1, <2>2, <2>3
<1>6. /\ s.pool = p /\ s.cache = <<>> /\ DOMAIN s.cache = {} /\ s \in States
  <2>1. <<>> \in [{} -> SUBSET Tx]
    OBVIOUS
  <2>2. <<>> \in Caches
    BY <2>1 DEF Caches
  <2> QED
    BY <1>1, <2>2 DEF States
<1>7. \A t \in M :
        /\ p.tx[t].desc = Package(p, IF t \in U \ {} THEN Below(M, t) \intersect U ELSE Below(M, t))
        /\ p.tx[t].anc = Package(p, IF t \in U THEN {t} \union Over(M, t) ELSE ({t} \union Over(M, t)) \ (U \ {}))
  <2> SUFFICES ASSUME NEW t \in M
               PROVE  /\ p.tx[t].desc = Package(p, IF t \in U \ {} THEN Below(M, t) \intersect U ELSE Below(M, t))
                      /\ p.tx[t].anc = Package(p, IF t \in U THEN {t} \union Over(M, t)
                                                  ELSE ({t} \union Over(M, t)) \ (U \ {}))
    OBVIOUS
  <2>1. p.tx[t].anc = Package(p, {t} \union Ancestors(p, t)) /\ p.tx[t].desc = Package(p, Down(p, t))
    BY <1>1, <1>m DEF Counted
  <2>2. U \ {} = U
    OBVIOUS
  <2> QED
    BY Zenon, <1>4, <1>5, <2>1, <2>2
<1>8. Kept(p, p)
  BY DEF Kept
<1>9. \A t, u \in M : u \in p.tx[t].children <=> t \in InputTxs(u) /\ (t \in U \ {} => u \in U)
  BY <1>3
<1> HIDE DEF s
<1> QED
  BY Zenon, <1>1, <1>6, <1>7, <1>8, <1>9 DEF Relinking, M, s

\* q is p with the links between t and its children kids.
Connected(p, q, t, kids) ==
  /\ q \in Pools /\ Mem(q) = Mem(p) /\ q.next = p.next /\ Kept(p, q)
  /\ \A u \in Mem(p) :
       /\ q.tx[u].children = IF u = t THEN p.tx[u].children \union kids ELSE p.tx[u].children
       /\ q.tx[u].parents = IF u \in kids THEN p.tx[u].parents \union {t} ELSE p.tx[u].parents
       /\ q.tx[u].anc = p.tx[u].anc /\ q.tx[u].desc = p.tx[u].desc

\* What LinkChildren does to the parts of the pool.
LEMMA LinkParts ==
  ASSUME NEW p \in Pools, NEW t \in Mem(p), NEW kids \in SUBSET Mem(p)
  PROVE  Connected(p, LinkChildren(p, t, kids), t, kids)
<1> DEFINE q == LinkChildren(p, t, kids)
           Updated(u) == [p.tx[u] EXCEPT !.children = IF u = t THEN @ \union kids ELSE @,
                                         !.parents = IF u \in kids THEN @ \union {t} ELSE @]
           tx == [u \in Mem(p) |-> Updated(u)]
<1>1. p = [tx |-> p.tx, next |-> p.next, delta |-> p.delta] /\ Mem(p) \in SUBSET (Tx \ Coinbase)
  BY PoolType DEF Pools
<1>2. q = [p EXCEPT !.tx = tx]
  BY Zenon DEF LinkChildren, Mem
<1>3. ASSUME NEW u \in Mem(p)
      PROVE  /\ Updated(u) \in Entry
             /\ Updated(u).children = IF u = t THEN p.tx[u].children \union kids ELSE p.tx[u].children
             /\ Updated(u).parents = IF u \in kids THEN p.tx[u].parents \union {t} ELSE p.tx[u].parents
             /\ Updated(u).feeDelta = p.tx[u].feeDelta
             /\ Updated(u).spendsCoinbase = p.tx[u].spendsCoinbase
             /\ Updated(u).anc = p.tx[u].anc /\ Updated(u).desc = p.tx[u].desc
  <2>1. p.tx[u] \in Entry /\ t \in Tx /\ kids \in SUBSET Tx
    BY <1>1, EntryType
  <2> QED
    BY Zenon, <2>1 DEF Entry
<1> HIDE DEF Updated
<1>4. tx \in [Mem(p) -> Entry]
  BY Zenon, <1>3
<1>5. q = [tx |-> tx, next |-> p.next, delta |-> p.delta]
  <2> HIDE DEF tx, q
  <2> QED
    BY <1>1, <1>2
<1> HIDE DEF q
<1>6. q \in Pools
  <2> HIDE DEF tx
  <2> QED
    BY <1>1, <1>4, <1>5 DEF Pools
<1>7. Mem(q) = Mem(p) /\ q.next = p.next /\ q.delta = p.delta /\ \A u \in Mem(p) : q.tx[u] = Updated(u)
  BY <1>5 DEF Mem
<1>8. Kept(p, q)
  BY ZenonT(40), <1>3, <1>7 DEF Kept
<1>9. \A u \in Mem(p) :
       /\ q.tx[u].children = IF u = t THEN p.tx[u].children \union kids ELSE p.tx[u].children
       /\ q.tx[u].parents = IF u \in kids THEN p.tx[u].parents \union {t} ELSE p.tx[u].parents
       /\ q.tx[u].anc = p.tx[u].anc /\ q.tx[u].desc = p.tx[u].desc
  <2> HIDE DEF Updated
  <2>1. ASSUME NEW u \in Mem(p)
        PROVE  /\ q.tx[u].children = IF u = t THEN p.tx[u].children \union kids ELSE p.tx[u].children
               /\ q.tx[u].parents = IF u \in kids THEN p.tx[u].parents \union {t} ELSE p.tx[u].parents
               /\ q.tx[u].anc = p.tx[u].anc /\ q.tx[u].desc = p.tx[u].desc
    <3>1. q.tx[u] = Updated(u)
      BY <1>7
    <3> QED
      BY Zenon, <1>3, <3>1
  <2> QED
    BY Zenon, <2>1
<1>10. Connected(p, q, t, kids)
  BY Zenon, <1>6, <1>7, <1>8, <1>9 DEF Connected
<1> QED
  BY <1>10 DEF q

\* r is s when t has got the descendants that were found.
Updating(s, r, t, found) ==
  /\ r \in States /\ Mem(r.pool) = Mem(s.pool) /\ r.pool.next = s.pool.next /\ Kept(s.pool, r.pool)
  /\ \A u \in Mem(s.pool) :
       /\ r.pool.tx[u].children = s.pool.tx[u].children /\ r.pool.tx[u].parents = s.pool.tx[u].parents
       /\ r.pool.tx[u].anc = IF u \in found THEN Plus(s.pool.tx[u].anc, Package(s.pool, {t}))
                             ELSE s.pool.tx[u].anc
       /\ r.pool.tx[u].desc = IF u = t THEN Plus(s.pool.tx[u].desc, Package(s.pool, found))
                              ELSE s.pool.tx[u].desc
  /\ DOMAIN r.cache \subseteq DOMAIN s.cache \union {t}
  /\ \A c \in DOMAIN r.cache : r.cache[c] = IF c = t /\ t \notin DOMAIN s.cache THEN found ELSE s.cache[c]

\* What UpdateForDescendants does to the pool and the cache.
LEMMA UpdateParts ==
  ASSUME NEW s \in States, NEW t \in Mem(s.pool), t \notin DOMAIN s.cache, NEW exclude,
         FoundDescendants(s, t, exclude) \in SUBSET Mem(s.pool)
  PROVE  Updating(s, UpdateForDescendants(s, t, exclude), t, FoundDescendants(s, t, exclude))
<1> DEFINE p == s.pool
           found == FoundDescendants(s, t, exclude)
           own == Package(p, {t})
           Updated(u) == [p.tx[u] EXCEPT !.anc = IF u \in found THEN Plus(@, own) ELSE @,
                                         !.desc = IF u = t THEN Plus(@, Package(p, found)) ELSE @]
           tx == [u \in Mem(p) |-> Updated(u)]
           q == [p EXCEPT !.tx = tx]
           cache == IF found = {} THEN s.cache
                    ELSE [c \in DOMAIN s.cache \union {t} |-> IF c = t THEN found ELSE s.cache[c]]
           r == UpdateForDescendants(s, t, exclude)
<1>0. p \in Pools /\ s.cache \in Caches
  BY DEF States
<1>1. r = [pool |-> q, cache |-> cache]
  BY Zenon DEF UpdateForDescendants, Mem
<1>2. found \in SUBSET Mem(p)
  OBVIOUS
<1> HIDE DEF r, found, p
<1>p. p = s.pool /\ t \in Mem(p)
  BY DEF p
<1>3. p = [tx |-> p.tx, next |-> p.next, delta |-> p.delta] /\ Mem(p) \in SUBSET (Tx \ Coinbase)
  BY <1>0, PoolType DEF Pools
<1>4. own \in Pkg /\ Package(p, found) \in Pkg
  BY Zenon, <1>0, <1>2, <1>p, PackageParts
<1> HIDE DEF own
<1>5. ASSUME NEW u \in Mem(p)
      PROVE  /\ Updated(u) \in Entry
             /\ Updated(u).children = p.tx[u].children /\ Updated(u).parents = p.tx[u].parents
             /\ Updated(u).feeDelta = p.tx[u].feeDelta
             /\ Updated(u).spendsCoinbase = p.tx[u].spendsCoinbase
             /\ Updated(u).anc = IF u \in found THEN Plus(p.tx[u].anc, own) ELSE p.tx[u].anc
             /\ Updated(u).desc = IF u = t THEN Plus(p.tx[u].desc, Package(p, found)) ELSE p.tx[u].desc
  <2>1. p.tx[u] \in Entry /\ p.tx[u].anc \in Pkg /\ p.tx[u].desc \in Pkg
    BY <1>0, EntryType
  <2>2. Plus(p.tx[u].anc, own) \in Pkg /\ Plus(p.tx[u].desc, Package(p, found)) \in Pkg
    BY <1>4, <2>1, PkgMinus
  <2> QED
    BY Zenon, <2>1, <2>2 DEF Entry
<1> HIDE DEF Updated
<1>6. tx \in [Mem(p) -> Entry]
  BY Zenon, <1>5
<1>7. q = [tx |-> tx, next |-> p.next, delta |-> p.delta]
  <2> HIDE DEF tx
  <2> QED
    BY <1>3
<1> HIDE DEF q
<1>8. q \in Pools
  <2> HIDE DEF tx
  <2> QED
    BY Zenon, <1>0, <1>3, <1>6, <1>7 DEF Pools
<1>9. Mem(q) = Mem(p) /\ q.next = p.next /\ q.delta = p.delta /\ \A u \in Mem(p) : q.tx[u] = Updated(u)
  BY <1>7 DEF Mem
<1>10. Kept(p, q)
  BY <1>5, <1>9 DEF Kept
<1>11. DOMAIN s.cache \in SUBSET Tx /\ s.cache \in [DOMAIN s.cache -> SUBSET Tx]
  BY <1>0 DEF Caches
<1>12. /\ cache \in Caches /\ DOMAIN cache \subseteq DOMAIN s.cache \union {t}
       /\ \A c \in DOMAIN cache : cache[c] = IF c = t /\ t \notin DOMAIN s.cache THEN found ELSE s.cache[c]
  <2>1. CASE found = {}
    <3>1. cache = s.cache
      BY <2>1
    <3> HIDE DEF cache
    <3> QED
      BY <1>0, <3>1
  <2>2. CASE found # {}
    <3> DEFINE D == DOMAIN s.cache \union {t}
    <3>1. cache = [c \in D |-> IF c = t THEN found ELSE s.cache[c]]
      BY <2>2
    <3>2. D \in SUBSET Tx /\ found \in SUBSET Tx
      BY <1>2, <1>3, <1>11, <1>p
    <3>3. \A c \in D : c # t => c \in DOMAIN s.cache
      OBVIOUS
    <3>d. D \subseteq DOMAIN s.cache \union {t}
      OBVIOUS
    <3> HIDE DEF cache, D
    <3>4. cache \in [D -> SUBSET Tx]
      BY <1>11, <3>1, <3>2, <3>3
    <3>5. cache \in Caches
      BY <3>2, <3>4 DEF Caches
    <3> QED
      BY <3>1, <3>5, <3>d
  <2> QED
    BY Zenon, <2>1, <2>2
<1> HIDE DEF cache
<1>13. r \in States /\ r.pool = q /\ r.cache = cache
  BY <1>1, <1>8, <1>12 DEF States
<1>14. \A u \in Mem(p) :
         /\ q.tx[u].children = p.tx[u].children /\ q.tx[u].parents = p.tx[u].parents
         /\ q.tx[u].anc = IF u \in found THEN Plus(p.tx[u].anc, own) ELSE p.tx[u].anc
         /\ q.tx[u].desc = IF u = t THEN Plus(p.tx[u].desc, Package(p, found)) ELSE p.tx[u].desc
  BY ZenonT(40), <1>5, <1>9
<1>15. Updating(s, r, t, found)
  <2> HIDE DEF tx
  <2> QED
    BY Zenon, <1>9, <1>10, <1>12, <1>13, <1>14, <1>p DEF Updating, own
<1> QED
  BY <1>15 DEF r, found

\* When the links below t are complete, the walk with the cache finds all that
\* depends on t.
LEMMA FoundIs ==
  ASSUME NEW s \in States, Linked(s.pool), NEW M, M = Mem(s.pool), NEW U, NEW t \in M, t \in U,
         \A x \in Below(M, t) : s.pool.tx[x].children = {u \in M : x \in InputTxs(u)},
         DOMAIN s.cache \subseteq M, \A c \in DOMAIN s.cache : s.cache[c] = Below(M, c) \ U
  PROVE  FoundDescendants(s, t, U) = Below(M, t) \ U
<1> DEFINE p == s.pool
           B == Below(M, t)
           cached == DOMAIN s.cache
           uncached == [p EXCEPT !.tx = [u \in DOMAIN p.tx |-> [p.tx[u] EXCEPT !.children = @ \ cached]]]
           walked == Reachable(uncached, p.tx[t].children, "children")
           met == (UNION {p.tx[u].children : u \in walked}) \intersect cached
<1>1. FoundDescendants(s, t, U) = (walked \union UNION {s.cache[c] : c \in met}) \ U
  BY Zenon DEF FoundDescendants
<1>2. p \in Pools /\ Mem(p) = M /\ Linked(p)
  BY DEF States
<1>3. B \in SUBSET M /\ t \in B /\ \A x \in B : \A u \in M : x \in InputTxs(u) => u \in B
  BY BelowIn
<1>4. \A x \in B : Below(M, x) \subseteq B
  BY BelowIn
<1>5. \A x \in B : p.tx[x].children = {u \in M : x \in InputTxs(u)}
  OBVIOUS
<1>6. cached \subseteq M /\ \A c \in cached : s.cache[c] = Below(M, c) \ U
  OBVIOUS
<1>7. Mem(uncached) = M /\ \A u \in M : uncached.tx[u]["children"] = p.tx[u].children \ cached
  <2>1. \A u \in M : p.tx[u] \in Entry
    BY <1>2, EntryType
  <2>2. \A u \in M : [p.tx[u] EXCEPT !.children = @ \ cached].children = p.tx[u].children \ cached
    BY <2>1 DEF Entry
  <2> DEFINE tx == [u \in M |-> [p.tx[u] EXCEPT !.children = @ \ cached]]
  <2>3. uncached = [p EXCEPT !.tx = tx]
    BY <1>2 DEF Mem
  <2>4. p = [tx |-> p.tx, next |-> p.next, delta |-> p.delta]
    BY <1>2 DEF Pools
  <2> HIDE DEF uncached
  <2>5. uncached.tx = tx
    <3> HIDE DEF tx
    <3> QED
      BY <2>3, <2>4
  <2> QED
    BY <2>2, <2>5 DEF Mem
<1> HIDE DEF p, B, cached, uncached
<1>8. \A u \in M : p.tx[u].children \subseteq M
  BY <1>2 DEF Linked
<1>9. walked \in SUBSET M /\ p.tx[t].children \subseteq walked
      /\ \A u \in walked : p.tx[u].children \ cached \subseteq walked
  <2>1. p.tx[t].children \in SUBSET Mem(uncached) /\ \A u \in Mem(uncached) : uncached.tx[u]["children"] \subseteq Mem(uncached)
    BY <1>7, <1>8
  <2>2. /\ walked \in SUBSET Mem(uncached) /\ p.tx[t].children \subseteq walked
        /\ \A u \in walked : uncached.tx[u]["children"] \subseteq walked
    <3> DEFINE S == p.tx[t].children
    <3> HIDE DEF S
    <3>1. S \in SUBSET Mem(uncached)
      BY <2>1 DEF S
    <3>2. /\ Reachable(uncached, S, "children") \in SUBSET Mem(uncached) /\ S \subseteq Reachable(uncached, S, "children")
          /\ \A u \in Reachable(uncached, S, "children") :
               uncached.tx[u]["children"] \subseteq Reachable(uncached, S, "children")
      BY <2>1, <3>1, ReachIn
    <3> QED
      BY <3>2 DEF S
  <2> HIDE DEF walked
  <2> QED
    BY <1>7, <2>2
<1>10. walked \subseteq B
  <2>1. B \in SUBSET Mem(uncached) /\ p.tx[t].children \subseteq B
        /\ \A u \in B : uncached.tx[u]["children"] \subseteq B
    BY <1>3, <1>5, <1>7
  <2> QED
    BY <2>1, ReachLeast
<1> HIDE DEF walked
<1>m. \A c : c \in met <=> c \in cached /\ \E u \in walked : c \in p.tx[u].children
  OBVIOUS
<1> HIDE DEF met
<1>11. met \subseteq B /\ met \subseteq cached
  BY <1>3, <1>5, <1>10, <1>m
<1> DEFINE C == {t} \union walked \union UNION {Below(M, c) : c \in met}
<1>12. C \in SUBSET M /\ t \in C
  <2>1. \A c \in met : Below(M, c) \in SUBSET M
    BY <1>6, <1>11, BelowIn
  <2> QED
    BY <1>9, <2>1
<1>13. ASSUME NEW x \in C, NEW u \in M, x \in InputTxs(u)
       PROVE  u \in C
  <2>1. CASE x = t
    BY <1>3, <1>5, <1>9, <1>13, <2>1
  <2>2. CASE x \in walked
    <3>1. u \in p.tx[x].children
      BY <1>5, <1>10, <1>13, <2>2
    <3>2. CASE u \in cached
      <4>1. u \in met
        BY <1>m, <2>2, <3>1, <3>2
      <4>2. u \in Below(M, u)
        BY BelowIn
      <4> QED
        BY <4>1, <4>2
    <3>3. CASE u \notin cached
      BY <1>9, <2>2, <3>1, <3>3
    <3> QED
      BY <3>2, <3>3
  <2>3. ASSUME NEW c \in met, x \in Below(M, c)
        PROVE  u \in C
    <3>1. u \in Below(M, c)
      BY <1>6, <1>11, <1>13, <2>3, BelowIn
    <3> QED
      BY <3>1
  <2> QED
    BY <2>1, <2>2, <2>3
<1> HIDE DEF C
<1>14. B \subseteq C
  BY <1>12, <1>13, BelowLeast DEF B
<1>15. \A c \in met : s.cache[c] = Below(M, c) \ U /\ Below(M, c) \subseteq B
  BY <1>4, <1>6, <1>11
<1>16. (walked \union UNION {s.cache[c] : c \in met}) \ U = B \ U
  BY <1>10, <1>14, <1>15 DEF C
<1> QED
  BY <1>1, <1>16 DEF B

\* One round: t is the last of the entries that are not linked yet.
LEMMA RelinkStep ==
  ASSUME NEW p, NEW U, NEW b, InOrder(p, U, {}, b), NEW P, NEW t \in U, t \notin P,
         NEW s, Relinking(p, U, P, s),
         \A x \in P \union {t}, u \in U : x \in InputTxs(u) => u \in P \union {t}
  PROVE  Relinking(p, U, P \union {t}, UpdateTx(s, t, U))
<1> DEFINE M == Mem(p)
           R == P \union {t}
<1>1. p \in Pools /\ NextOk(p)
  BY DEF InOrder, Fine
<1>2. \A x \in U : InputTxs(x) \intersect M \subseteq U
  BY DEF InOrder, Above
<1> HIDE DEF M
<1>m. M = Mem(p)
  BY DEF M
<1>3. s \in States /\ Mem(s.pool) = M /\ s.pool.next = p.next /\ Kept(p, s.pool) /\ Linked(s.pool) /\ s.pool \in Pools
  BY DEF Relinking, M, States
<1>4. \A v, u \in M : u \in s.pool.tx[v].children <=> v \in InputTxs(u) /\ (v \in U \ P => u \in U)
  BY DEF Relinking, M
<1>5. \A v \in M : s.pool.tx[v].desc = Package(p, IF v \in U \ P THEN Below(M, v) \intersect U ELSE Below(M, v))
  BY Zenon DEF Relinking, M
<1>6. \A v \in M : s.pool.tx[v].anc = Package(p, IF v \in U THEN {v} \union Over(M, v)
                                                 ELSE ({v} \union Over(M, v)) \ (U \ P))
  BY Zenon DEF Relinking, M
<1>7. DOMAIN s.cache \subseteq P \intersect M /\ \A c \in DOMAIN s.cache : s.cache[c] = Below(M, c) \ U
  BY DEF Relinking, M
<1>8. \A v \in M : v # t => (v \in U \ P <=> v \in U \ R)
  OBVIOUS
<1>9. CASE t \notin M
  <2>1. UpdateTx(s, t, U) = s
    BY <1>3, <1>9 DEF UpdateTx, Mem
  <2>2. \A v \in M : v \in U \ P <=> v \in U \ R
    BY <1>9
  <2>3. \A v \in M : ({v} \union Over(M, v)) \ (U \ P) = ({v} \union Over(M, v)) \ (U \ R)
    BY <1>9, BelowIn
  <2>4. \A v, u \in M : u \in s.pool.tx[v].children <=> v \in InputTxs(u) /\ (v \in U \ R => u \in U)
    BY <1>4, <2>2
  <2>5. \A v \in M : s.pool.tx[v].desc = Package(p, IF v \in U \ R THEN Below(M, v) \intersect U ELSE Below(M, v))
    BY Zenon, <1>5, <2>2
  <2>6. \A v \in M : s.pool.tx[v].anc = Package(p, IF v \in U THEN {v} \union Over(M, v)
                                                   ELSE ({v} \union Over(M, v)) \ (U \ R))
    BY Zenon, <1>6, <2>3
  <2>7. DOMAIN s.cache \subseteq R \intersect M
    BY <1>7
  <2>8. Relinking(p, U, R, s)
    BY Zenon, <1>3, <1>7, <2>4, <2>5, <2>6, <2>7 DEF Relinking, M
  <2> QED
    BY <2>1, <2>8
<1>10. CASE t \in M
  <2> DEFINE kids == Spenders(s.pool, t) \ U
             l == LinkChildren(s.pool, t, kids)
             sl == [s EXCEPT !.pool = l]
             r == UpdateForDescendants(sl, t, U)
  <2>1. UpdateTx(s, t, U) = r
    BY Zenon, <1>3, <1>10 DEF UpdateTx, Mem
  <2>2. kids = {u \in M : t \in InputTxs(u)} \ U
    <3>1. \A o \in DOMAIN p.next : p.next[o] \in M /\ o \in Ins(p.next[o])
      BY <1>1 DEF NextOk, M
    <3>2. \A u \in M : \A o \in Ins(u) : o \in DOMAIN p.next /\ p.next[o] = u
      BY <1>1 DEF NextOk, M
    <3>3. Spenders(s.pool, t) = {u \in M : t \in InputTxs(u)}
      BY <1>3, <3>1, <3>2 DEF Spenders, InputTxs
    <3> QED
      BY <3>3
  <2> HIDE DEF kids
  <2>3. Connected(s.pool, l, t, kids)
    <3>1. kids \in SUBSET Mem(s.pool) /\ t \in Mem(s.pool)
      BY <1>3, <1>10, <2>2
    <3> QED
      BY <1>3, <3>1, LinkParts
  <2> HIDE DEF l
  <2>4. l \in Pools /\ Mem(l) = M /\ l.next = p.next /\ Kept(p, l)
    <3>1. l \in Pools /\ Mem(l) = M /\ l.next = p.next /\ Kept(s.pool, l)
      BY <1>3, <2>3 DEF Connected
    <3> QED
      BY <1>3, <3>1 DEF Kept
  <2>5. \A u \in M :
          /\ l.tx[u].children = IF u = t THEN s.pool.tx[u].children \union kids ELSE s.pool.tx[u].children
          /\ l.tx[u].parents = IF u \in kids THEN s.pool.tx[u].parents \union {t} ELSE s.pool.tx[u].parents
    BY Zenon, <1>3, <2>3 DEF Connected
  <2>6. \A u \in M : l.tx[u].anc = s.pool.tx[u].anc /\ l.tx[u].desc = s.pool.tx[u].desc
    BY Zenon, <1>3, <2>3 DEF Connected
  <2>7. \A v, u \in M : u \in l.tx[v].children <=> v \in InputTxs(u) /\ (v \in U \ R => u \in U)
    <3> SUFFICES ASSUME NEW v \in M, NEW u \in M
                 PROVE  u \in l.tx[v].children <=> v \in InputTxs(u) /\ (v \in U \ R => u \in U)
      OBVIOUS
    <3>1. CASE v = t
      BY Zenon, <1>4, <1>10, <2>2, <2>5, <3>1
    <3>2. CASE v # t
      BY Zenon, <1>4, <1>8, <2>5, <3>2
    <3> QED
      BY <3>1, <3>2
  <2>8. Linked(l)
    <3>1. ASSUME NEW v \in M
          PROVE  /\ l.tx[v].parents \subseteq M /\ l.tx[v].children \subseteq M
                 /\ \A u \in M : u \in l.tx[v].children <=> v \in l.tx[u].parents
      <4>1. /\ s.pool.tx[v].parents \subseteq M /\ s.pool.tx[v].children \subseteq M
            /\ \A u \in M : u \in s.pool.tx[v].children <=> v \in s.pool.tx[u].parents
        BY <1>3 DEF Linked
      <4>2. kids \subseteq M
        BY <2>2
      <4>3. l.tx[v].parents \subseteq M /\ l.tx[v].children \subseteq M
        <5>1. \/ l.tx[v].parents = s.pool.tx[v].parents
              \/ l.tx[v].parents = s.pool.tx[v].parents \union {t}
          BY Zenon, <2>5
        <5>2. \/ l.tx[v].children = s.pool.tx[v].children
              \/ l.tx[v].children = s.pool.tx[v].children \union kids
          BY Zenon, <2>5
        <5>3. s.pool.tx[v].parents \subseteq M /\ s.pool.tx[v].children \subseteq M
          BY <4>1
        <5>4. l.tx[v].parents \subseteq M
          BY Zenon, <1>10, <5>1, <5>3
        <5>5. l.tx[v].children \subseteq M
          BY Zenon, <4>2, <5>2, <5>3
        <5> QED
          BY <5>4, <5>5
      <4>4. ASSUME NEW u \in M
            PROVE  u \in l.tx[v].children <=> v \in l.tx[u].parents
        <5>1. u \in s.pool.tx[v].children <=> v \in s.pool.tx[u].parents
          BY <4>1
        <5>2. u \in l.tx[v].children <=> u \in s.pool.tx[v].children \/ (v = t /\ u \in kids)
          BY Zenon, <2>5
        <5>3. v \in l.tx[u].parents <=> v \in s.pool.tx[u].parents \/ (v = t /\ u \in kids)
          BY Zenon, <2>5
        <5> QED
          BY <5>1, <5>2, <5>3
      <4> QED
        BY <4>3, <4>4
    <3> QED
      BY <2>4, <3>1 DEF Linked
  <2>9. sl \in States /\ sl.pool = l /\ sl.cache = s.cache
    BY <1>3, <2>4 DEF States
  <2> HIDE DEF sl
  <2>10. \A x \in Below(M, t) : l.tx[x].children = {u \in M : x \in InputTxs(u)}
    <3> DEFINE C == (R \intersect M) \union (M \ U)
    <3>1. C \in SUBSET M /\ t \in C /\ \A x \in C : \A u \in M : x \in InputTxs(u) => u \in C
      BY <1>2, <1>10
    <3> HIDE DEF C
    <3>2. Below(M, t) \subseteq C
      BY <1>10, <3>1, BelowLeast
    <3>3. \A x \in Below(M, t) : x \in M /\ x \notin U \ R
      BY <3>2 DEF C
    <3>4. \A x \in M : l.tx[x].children \subseteq M
      BY <2>4, <2>8 DEF Linked
    <3> QED
      BY <2>7, <3>3, <3>4
  <2> DEFINE D == Below(M, t) \ U
  <2>11. FoundDescendants(sl, t, U) = D
    <3>1. DOMAIN sl.cache \subseteq M /\ \A c \in DOMAIN sl.cache : sl.cache[c] = Below(M, c) \ U
      BY <1>7, <2>9
    <3>2. Linked(sl.pool) /\ M = Mem(sl.pool)
      BY <2>4, <2>8, <2>9
    <3>3. \A x \in Below(M, t) : sl.pool.tx[x].children = {u \in M : x \in InputTxs(u)}
      BY <2>9, <2>10
    <3>4. sl \in States /\ t \in M /\ t \in U
      BY Zenon, <1>10, <2>9
    <3> QED
      BY <3>1, <3>2, <3>3, <3>4, FoundIs
  <2>12. Below(M, t) \in SUBSET M /\ t \in Below(M, t)
    BY <1>10, BelowIn
  <2>13. Updating(sl, r, t, D)
    <3>1. t \notin DOMAIN sl.cache /\ t \in Mem(sl.pool) /\ FoundDescendants(sl, t, U) \in SUBSET Mem(sl.pool)
      BY <1>7, <1>10, <2>4, <2>9, <2>11, <2>12
    <3>2. Updating(sl, r, t, FoundDescendants(sl, t, U))
      BY <2>9, <3>1, UpdateParts
    <3> QED
      BY <2>11, <3>2
  <2> HIDE DEF r
  <2>14. r \in States /\ Mem(r.pool) = M /\ r.pool.next = p.next /\ Kept(l, r.pool)
    BY <2>4, <2>9, <2>13 DEF Updating
  <2>15. Kept(p, r.pool)
    BY <2>4, <2>14, <1>m DEF Kept
  <2>16. \A u \in M : r.pool.tx[u].children = l.tx[u].children /\ r.pool.tx[u].parents = l.tx[u].parents
    BY <2>4, <2>9, <2>13 DEF Updating
  <2>17. \A u \in M :
           /\ r.pool.tx[u].anc = IF u \in D THEN Plus(l.tx[u].anc, Package(l, {t})) ELSE l.tx[u].anc
           /\ r.pool.tx[u].desc = IF u = t THEN Plus(l.tx[u].desc, Package(l, D)) ELSE l.tx[u].desc
    BY Zenon, <2>4, <2>9, <2>13 DEF Updating
  <2>18. DOMAIN r.cache \subseteq R \intersect M /\ \A c \in DOMAIN r.cache : r.cache[c] = Below(M, c) \ U
    <3>1. /\ DOMAIN r.cache \subseteq DOMAIN s.cache \union {t}
          /\ \A c \in DOMAIN r.cache : r.cache[c] = IF c = t /\ t \notin DOMAIN s.cache THEN D ELSE s.cache[c]
      BY Zenon, <2>9, <2>13 DEF Updating
    <3>2. t \notin DOMAIN s.cache
      BY <1>7
    <3>3. ASSUME NEW c \in DOMAIN r.cache
          PROVE  c \in R /\ c \in M /\ r.cache[c] = Below(M, c) \ U
      <4>1. CASE c = t
        BY <1>10, <3>1, <3>2, <4>1
      <4>2. CASE c # t
        BY <1>7, <3>1, <4>2
      <4> QED
        BY <4>1, <4>2
    <3> QED
      BY <3>3
  <2>19. ASSUME NEW S \in SUBSET M
         PROVE  Package(l, S) = Package(p, S)
    <3>1. S \in SUBSET (Mem(p) \intersect Mem(l)) /\ \A u \in S : l.tx[u].feeDelta = p.tx[u].feeDelta
      BY <1>m, <2>4 DEF Kept
    <3> QED
      BY <1>1, <2>4, <3>1, PackageSame
  <2>20. ASSUME NEW v \in M
         PROVE  r.pool.tx[v].desc = Package(p, IF v \in U \ R THEN Below(M, v) \intersect U ELSE Below(M, v))
    <3>1. CASE v # t
      <4>1. r.pool.tx[v].desc = s.pool.tx[v].desc
        BY <2>6, <2>17, <3>1
      <4> QED
        BY Zenon, <1>5, <1>8, <3>1, <4>1
    <3>2. CASE v = t
      <4> DEFINE A == Below(M, t) \intersect U
      <4>1. r.pool.tx[t].desc = Plus(Package(p, A), Package(p, D))
        <5>1. r.pool.tx[t].desc = Plus(s.pool.tx[t].desc, Package(l, D))
          BY Zenon, <1>10, <2>6, <2>17
        <5>2. s.pool.tx[t].desc = Package(p, A)
          BY <1>5, <1>10
        <5>3. Package(l, D) = Package(p, D)
          BY <2>12, <2>19
        <5> QED
          BY <5>1, <5>2, <5>3
      <4>2. A \in SUBSET Mem(p) /\ D \in SUBSET Mem(p) /\ A \intersect D = {} /\ A \union D = Below(M, t)
        BY <1>m, <2>12
      <4> HIDE DEF A, D
      <4>3. Package(p, A \union D) = Plus(Package(p, A), Package(p, D))
        BY <1>1, <4>2, PackageUnion
      <4>4. r.pool.tx[t].desc = Package(p, Below(M, t))
        BY Zenon, <4>1, <4>2, <4>3
      <4> QED
        BY <3>2, <4>4
    <3> QED
      BY <3>1, <3>2
  <2>21. ASSUME NEW v \in M
         PROVE  r.pool.tx[v].anc = Package(p, IF v \in U THEN {v} \union Over(M, v)
                                              ELSE ({v} \union Over(M, v)) \ (U \ R))
    <3>1. CASE v \in D
      <4> DEFINE A == ({v} \union Over(M, v)) \ (U \ P)
      <4>1. v # t /\ t \in Over(M, v) /\ Over(M, v) \in SUBSET M
        BY <1>10, <3>1, BelowIn
      <4>2. A \in SUBSET Mem(p) /\ {t} \in SUBSET Mem(p) /\ A \intersect {t} = {}
            /\ A \union {t} = ({v} \union Over(M, v)) \ (U \ R)
        BY <1>10, <1>m, <4>1
      <4>3. r.pool.tx[v].anc = Plus(Package(p, A), Package(p, {t}))
        <5>1. r.pool.tx[v].anc = Plus(s.pool.tx[v].anc, Package(l, {t}))
          BY Zenon, <2>6, <2>17, <3>1
        <5>2. s.pool.tx[v].anc = Package(p, A)
          BY Zenon, <1>6, <3>1
        <5>3. Package(l, {t}) = Package(p, {t})
          BY <1>10, <2>19
        <5> QED
          BY <5>1, <5>2, <5>3
      <4> HIDE DEF A
      <4>4. Package(p, A \union {t}) = Plus(Package(p, A), Package(p, {t}))
        BY <1>1, <4>2, PackageUnion
      <4>5. r.pool.tx[v].anc = Package(p, ({v} \union Over(M, v)) \ (U \ R))
        BY Zenon, <4>2, <4>3, <4>4
      <4> QED
        BY <3>1, <4>5
    <3>2. CASE v \notin D
      <4>1. r.pool.tx[v].anc = s.pool.tx[v].anc
        BY <2>6, <2>17, <3>2
      <4>2. CASE v \in U
        BY Zenon, <1>6, <4>1, <4>2
      <4>3. CASE v \notin U
        <5>1. v # t /\ t \notin Over(M, v)
          BY <1>10, <3>2, <4>3, BelowIn
        <5>2. ({v} \union Over(M, v)) \ (U \ P) = ({v} \union Over(M, v)) \ (U \ R)
          BY <5>1
        <5> QED
          BY Zenon, <1>6, <4>1, <4>3, <5>2
      <4> QED
        BY <4>2, <4>3
    <3> QED
      BY <3>1, <3>2
  <2>22. Linked(r.pool)
    BY <2>4, <2>8, <2>14, <2>16 DEF Linked
  <2>23. \A v, u \in M : u \in r.pool.tx[v].children <=> v \in InputTxs(u) /\ (v \in U \ R => u \in U)
    BY <2>7, <2>16
  <2>24. Relinking(p, U, R, r)
    BY Zenon, <2>14, <2>15, <2>18, <2>20, <2>21, <2>22, <2>23 DEF Relinking, M
  <2> QED
    BY <2>1, <2>24
<1> QED
  BY <1>9, <1>10

\* After the last round the links and the packages are those of the inputs.
LEMMA RelinkEnd ==
  ASSUME NEW p, NEW U, NEW b, InOrder(p, U, {}, b), NEW P, U \subseteq P, NEW s, Relinking(p, U, P, s)
  PROVE  InOrder(s.pool, {}, {}, b) /\ Kept(p, s.pool) /\ Mem(s.pool) = Mem(p)
<1> DEFINE M == Mem(p)
           q == s.pool
<1>1. p \in Pools /\ NextOk(p) /\ Apart(p, U, {}, b) /\ Supplied(p, {}, b)
  BY DEF InOrder, Fine
<1>2. q \in Pools /\ Mem(q) = M /\ q.next = p.next /\ Kept(p, q) /\ Linked(q)
  BY DEF Relinking, States
<1> HIDE DEF M, q
<1>m. M = Mem(p)
  BY DEF M
<1>0. U \ P = {}
  OBVIOUS
<1>3. \A v, u \in M : u \in q.tx[v].children <=> v \in InputTxs(u)
  BY <1>0 DEF Relinking, M, q
<1>4. \A v \in M : q.tx[v].desc = Package(p, Below(M, v))
  <2>1. \A v \in M : q.tx[v].desc = Package(p, IF v \in U \ P THEN Below(M, v) \intersect U ELSE Below(M, v))
    BY Zenon DEF Relinking, M, q
  <2> QED
    BY Zenon, <1>0, <2>1
<1>5. \A v \in M : q.tx[v].anc = Package(p, {v} \union Over(M, v))
  <2>1. \A v \in M : q.tx[v].anc = Package(p, IF v \in U THEN {v} \union Over(M, v)
                                              ELSE ({v} \union Over(M, v)) \ (U \ P))
    BY Zenon DEF Relinking, M, q
  <2>2. \A v : ({v} \union Over(M, v)) \ (U \ P) = {v} \union Over(M, v)
    BY <1>0
  <2> QED
    BY <2>1, <2>2
<1>c. \A v \in M : q.tx[v].children \subseteq M
  BY <1>2 DEF Linked
<1>6. ASSUME NEW v \in M
      PROVE  Down(q, v) = Below(M, v)
  <2> DEFINE B == Below(M, v)
             D == Down(q, v)
  <2>1. B \in SUBSET M /\ v \in B /\ \A x \in B : \A u \in M : x \in InputTxs(u) => u \in B
    BY BelowIn
  <2>2. D \in SUBSET M /\ v \in D /\ \A x \in D : q.tx[x].children \subseteq D
    <3>1. {v} \in SUBSET Mem(q)
      BY <1>2
    <3> QED
      BY Zenon, <1>2, <3>1, DownIn DEF Down
  <2> HIDE DEF B, D
  <2>3. D \subseteq B
    <3>1. B \in SUBSET Mem(q) /\ {v} \subseteq B /\ \A x \in B : q.tx[x].children \subseteq B
      BY <1>2, <1>3, <1>c, <2>1
    <3> QED
      BY <3>1, DownLeast DEF Down, D
  <2>4. B \subseteq D
    <3>1. \A x \in D : \A u \in M : x \in InputTxs(u) => u \in D
      BY <1>3, <2>2
    <3> QED
      BY <2>2, <3>1, BelowLeast DEF B
  <2> QED
    BY <2>3, <2>4 DEF B, D
<1>7. ASSUME NEW v \in M
      PROVE  {v} \union Ancestors(q, v) = {v} \union Over(M, v)
  <2>1. Ancestors(q, v) \in SUBSET M /\ Over(M, v) \in SUBSET M
    BY Zenon, <1>2, BelowIn, UpIn
  <2>2. ASSUME NEW a \in M, a # v
        PROVE  a \in Ancestors(q, v) <=> a \in Over(M, v)
    <3>1. a \in Ancestors(q, v) <=> v \in Down(q, a)
      BY Zenon, <1>2, <2>2, Dual
    <3>2. v \in Below(M, a) <=> a \in Over(M, v)
      BY <2>2, BelowIn
    <3> QED
      BY <1>6, <3>1, <3>2
  <2> QED
    BY <2>1, <2>2
<1>8. ASSUME NEW S \in SUBSET M
      PROVE  Package(q, S) = Package(p, S)
  <2>1. S \in SUBSET (Mem(p) \intersect Mem(q)) /\ \A u \in S : q.tx[u].feeDelta = p.tx[u].feeDelta
    BY <1>m, <1>2 DEF Kept
  <2> QED
    BY <1>1, <1>2, <2>1, PackageSame
<1>9. Counted(q)
  <2> SUFFICES ASSUME NEW v \in M
               PROVE  /\ q.tx[v].anc = Package(q, {v} \union Ancestors(q, v))
                      /\ q.tx[v].desc = Package(q, Down(q, v))
    BY <1>2 DEF Counted
  <2>1. Below(M, v) \in SUBSET M /\ {v} \union Over(M, v) \in SUBSET M
    BY BelowIn
  <2>2. Package(q, Below(M, v)) = Package(p, Below(M, v))
    BY <1>8, <2>1
  <2>3. Package(q, {v} \union Over(M, v)) = Package(p, {v} \union Over(M, v))
    BY <1>8, <2>1
  <2> QED
    BY <1>4, <1>5, <1>6, <1>7, <2>2, <2>3
<1>10. NextOk(q)
  BY <1>1, <1>2, <1>m DEF NextOk
<1>11. LinksAre(q, {})
  BY <1>2, <1>3 DEF LinksAre
<1>12. Apart(q, {}, {}, b)
  BY <1>1, <1>2, <1>m DEF Apart
<1>13. Supplied(q, {}, b)
  BY <1>1, <1>2, <1>m DEF Supplied
<1>14. Above(q, {}, {})
  BY DEF Above
<1>15. Fine(q)
  BY <1>2, <1>9, <1>10 DEF Fine
<1>16. InOrder(q, {}, {}, b)
  BY <1>11, <1>12, <1>13, <1>14, <1>15 DEF InOrder
<1> QED
  BY <1>2, <1>16 DEF M, q

\* UpdateTransactionsFromBlock repairs the links and the packages of the whole
\* pool, when no transaction of hashes spends a later one.
LEMMA RelinkOk ==
  ASSUME NEW p, NEW h \in Seq(Tx), NEW b, InOrder(p, Range(h), {}, b),
         \A i, j \in DOMAIN h : i # j => h[i] # h[j],
         \A i, j \in DOMAIN h : i < j => h[j] \notin InputTxs(h[i])
  PROVE  LET q == UpdateTransactionsFromBlock(p, h)
         IN  InOrder(q, {}, {}, b) /\ Kept(p, q) /\ Mem(q) = Mem(p)
<1> DEFINE N == Len(h)
           U == Range(h)
           P(k) == {h[i] : i \in N + 1 - k .. N}
           s0 == [pool |-> p, cache |-> <<>>]
           Ok == {x \in States \X (0 .. N) : Relinking(p, U, P(x[2]), x[1])}
           F == [x \in States \X (1 .. N) |-> UpdateTx(x[1], h[N + 1 - x[2]], U)]
           Def(f) == f = [k \in 0 .. N |-> IF k = 0 THEN s0 ELSE UpdateTx(f[k - 1], h[N + 1 - k], U)]
<1>1. N \in Nat /\ DOMAIN h = 1 .. N /\ U = {h[i] : i \in 1 .. N}
  BY DEF Range
<1>s. s0.pool = p
  OBVIOUS
<1> HIDE DEF N, U
<1>2. <<s0, 0>> \in Ok
  <2>1. P(0) = {}
    BY <1>1
  <2>2. Relinking(p, U, {}, s0)
    BY RelinkStart DEF U
  <2>3. s0 \in States
    <3> HIDE DEF s0
    <3> QED
      BY Zenon, <2>2 DEF Relinking
  <2>4. 0 \in 0 .. N
    BY <1>1
  <2> HIDE DEF P, s0
  <2> QED
    BY Zenon, <2>1, <2>2, <2>3, <2>4
<1> HIDE DEF s0
<1>3. ASSUME NEW k \in 1 .. N, NEW s, <<s, k - 1>> \in Ok
      PROVE  <<UpdateTx(s, h[N + 1 - k], U), k>> \in Ok
  <2> DEFINE t == h[N + 1 - k]
             A == P(k - 1)
             r == UpdateTx(s, t, U)
  <2>1. Relinking(p, U, A, s)
    BY Zenon, <1>3
  <2>2. t \in U /\ t \notin A
    BY <1>1
  <2>3. P(k) = A \union {t}
    <3>1. N + 1 - k .. N = (N + 1 - (k - 1) .. N) \union {N + 1 - k}
      BY <1>1
    <3> QED
      BY <3>1
  <2>4. \A x \in A \union {t}, u \in U : x \in InputTxs(u) => u \in A \union {t}
    <3> SUFFICES ASSUME NEW x \in A \union {t}, NEW u \in U, x \in InputTxs(u) PROVE u \in A \union {t}
      OBVIOUS
    <3>1. PICK i \in N + 1 - k .. N : x = h[i]
      BY Zenon, <2>3
    <3>2. PICK j \in 1 .. N : u = h[j]
      BY Zenon, <1>1
    <3>3. i \in 1 .. N /\ N + 1 - k \in Nat
      BY <1>1
    <3>4. ~(j < i)
      BY Zenon, <1>1, <3>1, <3>2, <3>3
    <3>5. j \in N + 1 - k .. N
      BY <1>1, <3>3, <3>4
    <3> QED
      BY Zenon, <2>3, <3>2, <3>5
  <2> HIDE DEF t, A
  <2>5. Relinking(p, U, A \union {t}, r)
    <3>1. InOrder(p, U, {}, b)
      BY DEF U
    <3> QED
      BY <2>1, <2>2, <2>4, <3>1, RelinkStep
  <2> HIDE DEF r
  <2>6. r \in States /\ k \in 0 .. N
    <3>1. r \in States
      BY Zenon, <2>5 DEF Relinking
    <3>2. k \in 0 .. N
      BY <1>1
    <3> QED
      BY Zenon, <3>1, <3>2
  <2>7. Relinking(p, U, P(k), r)
    BY Zenon, <2>3, <2>5
  <2> HIDE DEF P
  <2>8. <<r, k>> \in Ok
    BY <2>6, <2>7
  <2> QED
    BY <2>8 DEF r, t
<1>4. \A s, k : <<s, k>> \in Ok => s \in States
  OBVIOUS
<1> HIDE DEF Ok
<1>5. \E f : Def(f)
  <2> HIDE DEF F
  <2>0. PICK f : IsRounds(f, N, s0, F)
    BY <1>1, Rounds
  <2>1. f = [k \in 0 .. N |-> f[k]] /\ f[0] = s0 /\ \A k \in 1 .. N : f[k] = F[<<f[k - 1], k>>]
    BY <2>0 DEF IsRounds
  <2> DEFINE I == {k \in 0 .. N : <<f[k], k>> \in Ok}
  <2>2. 0 \in I
    BY <1>1, <1>2, <2>1
  <2>3. ASSUME NEW k \in 1 .. N, k - 1 \in 0 .. N, <<f[k - 1], k - 1>> \in Ok
        PROVE  f[k] = UpdateTx(f[k - 1], h[N + 1 - k], U)
    <3>1. f[k] = F[<<f[k - 1], k>>]
      BY Zenon, <2>1
    <3>2. f[k - 1] \in States
      BY <1>4, <2>3
    <3> HIDE DEF I
    <3> QED
      BY <3>1, <3>2 DEF F
  <2>4. \A k \in 1 .. N : k - 1 \in I => k \in I
    BY <1>3, <2>3
  <2> HIDE DEF I
  <2>5. \A k \in 0 .. N : k \in I
    BY <1>1, <2>2, <2>4, UpTo
  <2>6. \A k \in 1 .. N : f[k] = UpdateTx(f[k - 1], h[N + 1 - k], U)
    <3>1. \A k \in 1 .. N : k - 1 \in 0 .. N
      BY <1>1
    <3> QED
      BY Zenon, <2>3, <2>5, <3>1 DEF I
  <2>7. f[0] = s0 /\ f = [k \in 0 .. N |-> f[k]]
    BY <1>1, <2>1
  <2>8. \A k \in 0 .. N : f[k] = IF k = 0 THEN s0 ELSE UpdateTx(f[k - 1], h[N + 1 - k], U)
    <3>1. \A k \in 0 .. N : k = 0 \/ k \in 1 .. N
      BY <1>1
    <3> QED
      BY Zenon, <2>6, <2>7, <3>1
  <2>9. Def(f)
    BY Zenon, <2>7, <2>8
  <2> QED
    BY Zenon, <2>9
<1> DEFINE After == CHOOSE f : Def(f)
<1>6. Def(After)
  BY Zenon, <1>5
<1>7. UpdateTransactionsFromBlock(p, h) = After[N].pool
  BY Zenon DEF UpdateTransactionsFromBlock, N, U, s0
<1> HIDE DEF After
<1> DEFINE g == [k \in 0 .. N |-> IF k = 0 THEN s0 ELSE UpdateTx(After[k - 1], h[N + 1 - k], U)]
<1>g. g[0] = s0 /\ \A k \in 1 .. N : g[k] = UpdateTx(After[k - 1], h[N + 1 - k], U)
  BY <1>1
<1> HIDE DEF g
<1>h. After = g
  BY Zenon, <1>6 DEF g
<1>8. <<After[N], N>> \in Ok
  <2> DEFINE I == {k \in 0 .. N : <<After[k], k>> \in Ok}
  <2>1. 0 \in I
    BY <1>1, <1>2, <1>g, <1>h
  <2>2. ASSUME NEW k \in 1 .. N, k - 1 \in I
        PROVE  k \in I
    <3>1. After[k] = UpdateTx(After[k - 1], h[N + 1 - k], U)
      BY <1>g, <1>h
    <3>2. k - 1 \in 0 .. N /\ k \in 0 .. N /\ <<After[k - 1], k - 1>> \in Ok
      BY <2>2
    <3> QED
      BY <1>3, <3>1, <3>2
  <2> HIDE DEF I
  <2>3. \A k \in 0 .. N : k \in I
    BY Zenon, <1>1, <2>1, <2>2, UpTo
  <2>4. N \in 0 .. N
    BY <1>1
  <2> QED
    BY <2>3, <2>4 DEF I
<1>9. Relinking(p, U, P(N), After[N])
  <2> HIDE DEF P
  <2> QED
    BY <1>8 DEF Ok
<1>10. U \subseteq P(N)
  BY <1>1
<1>11. InOrder(p, U, {}, b)
  BY DEF U
<1> HIDE DEF P
<1> QED
  BY <1>7, <1>9, <1>10, <1>11, RelinkEnd
==============================================================================
