-------------------------- MODULE NodePartsProofs ---------------------------
(***************************************************************************)
(* What is proved of two parts of the node that stand alone: a rewritten   *)
(* transaction (MutableTx) and the caches of coins (CoinsCache).           *)
(***************************************************************************)
EXTENDS MutableTx, CoinsCache, TLAPS

(***************************************************************************)
(* One rewritten transaction: the chameleon hash and the values that a     *)
(* transaction keeps, for every group, trapdoor and hash function the      *)
(* assumptions of ChameleonHash admit.                                     *)
(***************************************************************************)
\* T3 is a residue modulo p other than p - 1.
LEMMA T3Range == \A m \in Zq, s \in Zq : T3(m, s) \in 0 .. 2 * q - 1
<1> SUFFICES ASSUME NEW m \in Zq, NEW s \in Zq
             PROVE  T3(m, s) \in 0 .. 2 * q - 1
  OBVIOUS
<1>1. T3(m, s) # 2 * q
  BY MinusOneOutside, GroupOrder
<1>2. ExpMod(hk, m) \in Nat /\ ExpMod(g, s) \in Nat
  BY ExpModInZp, GroupOrder
<1>3. PICK x \in Nat : x = ExpMod(hk, m) * ExpMod(g, s)
  BY <1>2
<1>4. x % p \in 0 .. p - 1
  BY GroupOrder
<1>5. QED
  BY <1>1, <1>3, <1>4, GroupOrder DEF T3

\* The one correction by q and the dropped sign keep a chameleon hash in Zq,
\* though cHash subtracts a residue modulo p in arithmetic modulo q.
LEMMA HashInZq ==
  \A m \in Digest, r \in Zq, s \in Zq : cHash(m, r, s) \in Zq
<1> SUFFICES ASSUME NEW m \in Digest, NEW r \in Zq, NEW s \in Zq
             PROVE  cHash(m, r, s) \in Zq
  OBVIOUS
<1>1. PICK t \in 0 .. 2 * q - 1 : t = T3(hashInput(m, r), s)
  BY T3Range, DigestsInZq
<1>2. SetPositive(SubtractQ(r, t)) \in Zq
  BY GroupOrder DEF SetPositive, SubtractQ, Zq
<1>3. QED
  BY <1>1, <1>2 DEF cHash

\* The collision hCol computes is in Zq, so cHash accepts it (its assertions on
\* r and s), and it collides: the assertion h2 == h1 of hVer never fails.
THEOREM CollisionCorrect ==
  \A h \in Zq, m \in Digest : /\ hCol(h, m) \in [r : Zq, s : Zq]
                              /\ hVer(h, m, hCol(h, m))
<1> SUFFICES ASSUME NEW h \in Zq, NEW m \in Digest
             PROVE  /\ hCol(h, m) \in [r : Zq, s : Zq]
                    /\ hVer(h, m, hCol(h, m))
  OBVIOUS
<1>1. g % q = g
  BY GroupOrder
<1>2. ColR(h) = AddQ(h, g)
  BY <1>1, GroupOrder DEF ColR, SubtractQ
<1>3. ColR(h) \in Zq
  BY <1>2, GroupOrder DEF AddQ, Zq
<1>4. PICK x \in Zq : x = hashInput(m, ColR(h))
  BY <1>3, DigestsInZq
<1>5. (x * tk) % q \in Zq
  <2>1. PICK y \in Nat : y = x * tk
    BY GroupOrder DEF Zq
  <2>2. QED
    BY <2>1, GroupOrder DEF Zq
<1>6. ColS(h, m) \in Zq
  BY <1>4, <1>5, GroupOrder DEF ColS, SubtractQ, Zq, K
<1>7. T3(x, ColS(h, m)) = g
  BY <1>4, Trapdoor DEF ColS
<1>8. SetPositive(SubtractQ(ColR(h), g)) = h
  BY <1>2, GroupOrder DEF AddQ, SubtractQ, SetPositive, Zq
<1>9. cHash(m, ColR(h), ColS(h, m)) = h
  BY <1>4, <1>7, <1>8 DEF cHash
<1>10. QED
  BY <1>3, <1>6, <1>9 DEF hCol, hVer

-----------------------------------------------------------------------------
\* What one mutation does to a transaction: it stays one, it keeps the hash its
\* witness commitment has of it and the hash its signatures cover, and its
\* script grows by four bytes at most.
LEMMA MutatedKeeps ==
  ASSUME NEW t \in StoredTx, NEW op, 0 < t.out.size, t.out.size + 4 <= MaxScriptSize
  PROVE  LET n == Mutated(t, op)
         IN  /\ n \in StoredTx
             /\ n.wit = t.wit
             /\ n.out = NewScript(op, t.out)
             /\ 0 < n.out.size /\ n.out.size <= t.out.size + 4
             /\ GetWitnessHash(n) = GetWitnessHash(t)
             /\ chamHashtxo(n) = chamHashtxo(t)
<1> DEFINE out == NewScript(op, t.out)
           hs  == chamHashtxo(t)
           cs  == hCol(hs, HashOutputs(out))
           new == MutateScript(t, op)
           ht  == cHash(FullDigest(t), t.rValue, t.sValue)
           ct  == hCol(ht, FullDigest(new))
           n   == Mutated(t, op)
<1>1. out \in Script /\ 0 < out.size /\ out.size <= t.out.size + 4
  BY MutableTxConstants DEF NewScript, PushSize, FillOf, Fill, Script, StoredTx
<1>2. hs \in Zq
  BY HashInZq, DigestsOfTx DEF chamHashtxo, StoredTx
<1>3. /\ cs \in [r : Zq, s : Zq]
      /\ cHash(HashOutputs(out), cs.r, cs.s) = hs
  <2>1. HashOutputs(out) \in Digest
    BY <1>1, DigestsOfTx
  <2>2. QED
    BY <1>2, <2>1, CollisionCorrect DEF hVer
<1>4. new = [out |-> out, rscriptSig |-> cs.r, sscriptSig |-> cs.s,
             rValue |-> t.rValue, sValue |-> t.sValue, wit |-> t.wit]
  BY DEF MutateScript
<1>5. /\ new \in StoredTx
      /\ new.out = out /\ new.wit = t.wit
      /\ new.rscriptSig = cs.r /\ new.sscriptSig = cs.s
  BY <1>1, <1>3, <1>4 DEF StoredTx
<1>6. FullDigest(t) \in Digest /\ FullDigest(new) \in Digest
  BY <1>5, DigestsOfTx DEF FullDigest, StoredTx
<1>7. ht \in Zq
  BY <1>6, HashInZq DEF StoredTx
<1>8. ct \in [r : Zq, s : Zq] /\ cHash(FullDigest(new), ct.r, ct.s) = ht
  BY <1>6, <1>7, CollisionCorrect DEF hVer
<1>9. n = [out |-> new.out,
           rscriptSig |-> new.rscriptSig, sscriptSig |-> new.sscriptSig,
           rValue |-> ct.r, sValue |-> ct.s, wit |-> new.wit]
  BY DEF Mutated
<1>10. /\ n \in StoredTx
       /\ n.out = out /\ n.wit = t.wit
       /\ n.rscriptSig = cs.r /\ n.sscriptSig = cs.s
       /\ n.rValue = ct.r /\ n.sValue = ct.s
  <2>1. /\ n.out = new.out /\ n.wit = new.wit
        /\ n.rscriptSig = new.rscriptSig /\ n.sscriptSig = new.sscriptSig
        /\ n.rValue = ct.r /\ n.sValue = ct.s
    BY <1>9
  <2>2. /\ new.out \in Script /\ new.wit \in BOOLEAN
        /\ new.rscriptSig \in Zq /\ new.sscriptSig \in Zq /\ ct.r \in Zq /\ ct.s \in Zq
    BY <1>5, <1>8 DEF StoredTx
  <2>3. n \in StoredTx
    BY <1>9, <2>2 DEF StoredTx
  <2> QED
    BY <1>5, <2>1, <2>3
<1>11. FullDigest(n) = FullDigest(new)
  BY <1>5, <1>10 DEF FullDigest
<1>12. \A w \in StoredTx : GetWitnessHash(w) = cHash(FullDigest(w), w.rValue, w.sValue)
  BY ZenonT(40) DEF GetWitnessHash, GetHash, NoWitnessDigest, FullDigest, StoredTx
<1>13. GetWitnessHash(n) = GetWitnessHash(t)
  BY <1>8, <1>10, <1>11, <1>12
<1>14. chamHashtxo(n) = chamHashtxo(t)
  BY <1>3, <1>10 DEF chamHashtxo
<1>15. QED
  BY <1>1, <1>10, <1>13, <1>14

\* The inductive invariant: the type, how far a script can have grown, and the
\* two hashes.
TxInv == /\ TxTypeOK
        /\ tx0.wit \in Witness /\ tx0.out.size \in Sizes
        /\ tx.wit = tx0.wit
        /\ 0 < tx.out.size /\ tx.out.size <= tx0.out.size + 4 * nMut
        /\ WitnessHashKept
        /\ SignaturesKept

\* Whatever orders are executed, in whatever sequence, the stored transaction
\* keeps its type and the two hashes that hCol and the order of the steps in
\* CheckBlockUChain are there to keep.
THEOREM TxInvariance == TxSpec => []TxInv
<1>1. TxInit => TxInv
  <2> SUFFICES ASSUME TxInit PROVE TxInv
    OBVIOUS
  <2>1. tx \in StoredTx /\ tx.wit \in Witness /\ tx.out.size \in Sizes
    BY MutableTxConstants DEF TxInit, StoredTx, Script
  <2>2. tx0 = tx /\ lastOp = "none" /\ nMut = 0 /\ nMut \in 0 .. MaxMutations
    BY MutableTxConstants DEF TxInit
  <2>3. 0 < tx.out.size /\ tx.out.size <= tx0.out.size + 4 * nMut
    BY <2>1, <2>2, MutableTxConstants DEF StoredTx, Script
  <2>4. WitnessHashKept /\ SignaturesKept
    BY <2>2, Zenon DEF WitnessHashKept, SignaturesKept
  <2>5. QED
    BY <2>1, <2>2, <2>3, <2>4 DEF TxInv, TxTypeOK
<1>2. TxInv /\ [TxNext]_txVars => TxInv'
  <2> SUFFICES ASSUME TxInv, [TxNext]_txVars PROVE TxInv'
    OBVIOUS
  <2>1. ASSUME NEW op \in Orders, Mutate(op) PROVE TxInv'
    <3>1. 0 < tx.out.size /\ tx.out.size + 4 <= MaxScriptSize
      BY <2>1, MutableTxConstants DEF TxInv, TxTypeOK, StoredTx, Script, Mutate
    <3>2. /\ tx' \in StoredTx /\ tx'.wit = tx.wit
          /\ 0 < tx'.out.size /\ tx'.out.size <= tx.out.size + 4
          /\ GetWitnessHash(tx') = GetWitnessHash(tx)
          /\ chamHashtxo(tx') = chamHashtxo(tx)
      BY <2>1, <3>1, MutatedKeeps DEF Mutate, TxInv, TxTypeOK
    <3>3. /\ tx0' = tx0 /\ lastOp' = op
          /\ nMut' = nMut + 1 /\ nMut < MaxMutations
      BY <2>1 DEF Mutate
    <3>4. TxTypeOK'
      BY <3>2, <3>3, MutableTxConstants DEF TxInv, TxTypeOK
    <3>5. 0 < tx'.out.size /\ tx'.out.size <= tx0.out.size + 4 * nMut'
      BY <3>2, <3>3 DEF TxInv, TxTypeOK, StoredTx, Script
    <3>6. QED
      BY <3>2, <3>3, <3>4, <3>5 DEF TxInv, WitnessHashKept, SignaturesKept
  <2>2. CASE UNCHANGED txVars
    BY <2>2 DEF txVars, TxInv, TxTypeOK, WitnessHashKept, SignaturesKept
  <2>3. QED
    BY <2>1, <2>2 DEF TxNext, Hide, Replace, Orders
<1>3. QED
  BY <1>1, <1>2, PTL DEF TxSpec

\* A transaction without a witness keeps its txid through every mutation: the
\* digest of step 6 is then the one the txid is computed from.
THEOREM TxidIsKept == TxSpec => []PlainTxidKept
<1>1. TxInv => PlainTxidKept
  <2> SUFFICES ASSUME TxInv, ~tx0.wit PROVE TxidKept
    BY DEF PlainTxidKept
  <2>1. ~tx.wit /\ ~tx0.wit
    BY DEF TxInv
  <2>2. GetWitnessHash(tx) = GetHash(tx) /\ GetWitnessHash(tx0) = GetHash(tx0)
    BY <2>1 DEF GetWitnessHash
  <2>3. QED
    BY Zenon, <2>2 DEF TxInv, WitnessHashKept, TxidKept
<1>2. QED
  BY <1>1, TxInvariance, PTL

\* Every transaction, with or without a witness, keeps the hash its block's
\* witness commitment covers and the hash its legacy signatures cover.
THEOREM HashesAreKept == TxSpec => [](WitnessHashKept /\ SignaturesKept)
<1>1. TxInv => WitnessHashKept /\ SignaturesKept
  BY DEF TxInv
<1>2. QED
  BY <1>1, TxInvariance, PTL

\* The chameleon values that hCol makes stay in Zq, whatever the orders, so that
\* the next order can start from them.
THEOREM TypeIsKept == TxSpec => []TxTypeOK
BY TxInvariance, PTL DEF TxInv

\* The legacy signatures of a transaction survive every sequence of orders.
THEOREM SignaturesStayValid == TxSpec => []SignaturesKept
BY HashesAreKept, PTL

-----------------------------------------------------------------------------
\* The result of a mutation depends on the size of the script and on the two
\* hashes that mutations keep, on nothing else of the stored version.
LEMMA MutatedDependsOn ==
  ASSUME NEW t \in StoredTx, NEW w \in StoredTx, NEW op,
         t.out.size = w.out.size, t.wit = w.wit,
         GetWitnessHash(t) = GetWitnessHash(w),
         chamHashtxo(t) = chamHashtxo(w)
  PROVE  Mutated(t, op) = Mutated(w, op)
<1>1. NewScript(op, t.out) = NewScript(op, w.out)
  BY DEF NewScript
<1>2. /\ MutateScript(t, op).out = MutateScript(w, op).out
      /\ MutateScript(t, op).rscriptSig = MutateScript(w, op).rscriptSig
      /\ MutateScript(t, op).sscriptSig = MutateScript(w, op).sscriptSig
      /\ MutateScript(t, op).wit = MutateScript(w, op).wit
  BY <1>1 DEF MutateScript
<1>3. FullDigest(MutateScript(t, op)) = FullDigest(MutateScript(w, op))
  BY <1>2 DEF FullDigest
<1>4. \A v \in StoredTx : GetWitnessHash(v) = cHash(FullDigest(v), v.rValue, v.sValue)
  BY Zenon DEF GetWitnessHash, GetHash, NoWitnessDigest, FullDigest, StoredTx
<1>5. QED
  BY <1>2, <1>3, <1>4 DEF Mutated

\* Scripts of up to 77 bytes keep their size.
LEMMA SmallScriptsKeepSize ==
  ASSUME NEW old \in Script, NEW op, 2 <= old.size, old.size <= 77
  PROVE  NewScript(op, old).size = old.size
BY MutableTxConstants DEF NewScript, PushSize, Script

\* For scripts of 2 to 77 bytes only the last order counts: whatever orders a
\* node executed before, and however often it executes one again, it stores the
\* version that order makes of the original, in the room the original had.
THEOREM LastOrderCounts == TxSpec => [](SizeKept /\ LastOrderDecides)
<1> DEFINE J == SizeKept /\ LastOrderDecides
<1>1. TxInit => J
  BY MutableTxConstants DEF TxInit, SizeKept, LastOrderDecides
<1>2. TxInv /\ J /\ [TxNext]_txVars => J'
  <2> SUFFICES ASSUME TxInv, J, [TxNext]_txVars PROVE J'
    OBVIOUS
  <2>1. ASSUME NEW op \in Orders, Mutate(op), Fits
        PROVE  tx'.out.size = tx0'.out.size /\ LastOrderDecides'
    <3>1. /\ tx \in StoredTx /\ tx0 \in StoredTx
          /\ tx.out \in Script /\ tx0.out \in Script
      BY DEF TxInv, TxTypeOK, StoredTx
    <3>2. tx.out.size = tx0.out.size /\ 2 <= tx.out.size /\ tx.out.size <= 77
      BY <2>1 DEF SizeKept, Fits
    <3>3. /\ tx' = Mutated(tx, op) /\ tx0' = tx0 /\ lastOp' = op
          /\ nMut' = nMut + 1 /\ nMut < MaxMutations
      BY <2>1 DEF Mutate
    <3>4. tx'.out = NewScript(op, tx.out)
      BY <3>3 DEF Mutated, MutateScript
    <3>5. tx'.out.size = tx0'.out.size
      <4>1. NewScript(op, tx.out).size = tx.out.size
        BY <3>1, <3>2, SmallScriptsKeepSize
      <4> QED
        BY <3>2, <3>3, <3>4, <4>1
    <3>6. Mutated(tx, op) = Mutated(tx0, op)
      BY <3>1, <3>2, MutatedDependsOn
      DEF TxInv, WitnessHashKept, SignaturesKept
    <3>7. QED
      BY <3>3, <3>5, <3>6 DEF LastOrderDecides
  <2>2. ASSUME NEW op \in Orders, Mutate(op) PROVE Fits' = Fits
    BY <2>2 DEF Mutate, Fits
  <2>3. CASE UNCHANGED txVars
    BY <2>3 DEF txVars, SizeKept, LastOrderDecides, Fits
  <2>4. QED
    BY <2>1, <2>2, <2>3 DEF TxNext, Hide, Replace, Orders, SizeKept, LastOrderDecides
<1>3. QED
  BY <1>1, <1>2, TxInvariance, PTL DEF TxSpec

\* WriteUChangedBlockToDisk writes a block over its old version in the file: for
\* scripts of 2 to 77 bytes it fits exactly.
THEOREM SizeIsKept == TxSpec => []SizeKept
BY LastOrderCounts, PTL

(***************************************************************************)
(* The caches of coins implement the flat maps of module Coins.  The       *)
(* lemmas say, for one cache on top of any base, that each operation keeps *)
(* the flags true and what it does to the coins that can be seen; the      *)
(* theorems put two caches and the database on top of each other.          *)
(***************************************************************************)
\* A lookup keeps the flags true and changes nothing that can be seen
\* (CCoinsViewCache::FetchCoin).
LEMMA FetchKept ==
  ASSUME NEW c, IsCache(c), NEW base \in Map, Sound(c, base), NEW o \in Outpoint
  PROVE  /\ IsCache(FetchCoin(c, base, o))
         /\ Sound(FetchCoin(c, base, o), base)
         /\ Visible(FetchCoin(c, base, o), base) = Visible(c, base)
<1>1. CASE o \in DOMAIN c \/ base[o] = Spent
  BY <1>1 DEF FetchCoin
<1>2. CASE ~(o \in DOMAIN c \/ base[o] = Spent)
  <2> DEFINE e == [coin |-> base[o], dirty |-> FALSE, fresh |-> FALSE]
             f == Insert(c, o, e)
  <2>1. FetchCoin(c, base, o) = f
    BY <1>2 DEF FetchCoin
  <2>2. e \in Entry
    BY DEF Entry, Map
  <2>3. IsCache(f)
    BY <2>2 DEF IsCache, Insert
  <2>4. Sound(f, base)
    BY DEF Sound, Insert
  <2>5. Visible(f, base) = Visible(c, base)
    BY <1>2 DEF Visible, Insert
  <2> QED
    BY <2>1, <2>3, <2>4, <2>5
<1> QED
  BY <1>1, <1>2

\* AddCoin changes the coin it is given and no other one, and its choice of
\* FRESH is right if an overwrite is announced.
LEMMA AddKept ==
  ASSUME NEW c, IsCache(c), NEW base \in Map, Sound(c, base), NEW o \in Outpoint,
         NEW coin \in Coin, NEW overwrite \in BOOLEAN,
         overwrite \/ Visible(c, base)[o] = Spent
  PROVE  /\ IsCache(AddCoin(c, o, coin, overwrite))
         /\ Sound(AddCoin(c, o, coin, overwrite), base)
         /\ Visible(AddCoin(c, o, coin, overwrite), base)
              = IF o \in Unspendable THEN Visible(c, base)
                ELSE [Visible(c, base) EXCEPT ![o] = coin]
<1> DEFINE old == IF o \in DOMAIN c THEN c[o]
                  ELSE [coin |-> Spent, dirty |-> FALSE, fresh |-> FALSE]
           e == [coin |-> coin, dirty |-> TRUE,
                 fresh |-> old.fresh \/ (~overwrite /\ ~old.dirty)]
           f == Insert(c, o, e)
<1>1. CASE o \in Unspendable
  BY <1>1 DEF AddCoin
<1>2. CASE o \notin Unspendable
  <2>1. AddCoin(c, o, coin, overwrite) = f
    BY <1>2 DEF AddCoin
  <2>2. old.fresh \in BOOLEAN /\ old.dirty \in BOOLEAN
    BY DEF IsCache, Entry
  <2>3. e \in Entry
    BY <2>2 DEF Entry
  <2>4. IsCache(f)
    BY <2>3 DEF IsCache, Insert
  <2>5. e.fresh => base[o] = Spent
    BY <2>2 DEF Sound, Visible
  <2>6. Sound(f, base)
    BY <2>5 DEF Sound, Insert
  <2>7. Visible(f, base) = [Visible(c, base) EXCEPT ![o] = coin]
    BY DEF Visible, Insert
  <2> QED
    BY <1>2, <2>1, <2>4, <2>6, <2>7
<1> QED
  BY <1>1, <1>2

\* SpendCoin spends the coin it is given; to erase an entry that is FRESH is as
\* good as to mark it.
LEMMA SpendKept ==
  ASSUME NEW c, IsCache(c), NEW base \in Map, Sound(c, base), NEW o \in Outpoint
  PROVE  /\ IsCache(SpendCoin(c, base, o))
         /\ Sound(SpendCoin(c, base, o), base)
         /\ Visible(SpendCoin(c, base, o), base) = [Visible(c, base) EXCEPT ![o] = Spent]
<1> DEFINE f == FetchCoin(c, base, o)
<1>1. IsCache(f) /\ Sound(f, base) /\ Visible(f, base) = Visible(c, base)
  BY FetchKept
<1>2. SpendCoin(c, base, o) = IF o \notin DOMAIN f THEN f
                              ELSE IF f[o].fresh THEN Erase(f, {o})
                              ELSE Insert(f, o, [coin |-> Spent, dirty |-> TRUE, fresh |-> FALSE])
  BY DEF SpendCoin
<1>3. o \notin DOMAIN f => base[o] = Spent
  BY DEF FetchCoin, Insert
<1> HIDE DEF f
<1>4. CASE o \notin DOMAIN f
  <2>1. Visible(f, base) = [Visible(f, base) EXCEPT ![o] = Spent]
    BY <1>3, <1>4 DEF Visible
  <2> QED
    BY <1>1, <1>2, <1>4, <2>1
<1>5. CASE o \in DOMAIN f /\ f[o].fresh
  <2>1. base[o] = Spent
    BY <1>1, <1>5 DEF Sound
  <2>2. IsCache(Erase(f, {o}))
    BY <1>1 DEF IsCache, Erase
  <2>3. Sound(Erase(f, {o}), base)
    BY <1>1 DEF Sound, Erase
  <2>4. Visible(Erase(f, {o}), base) = [Visible(f, base) EXCEPT ![o] = Spent]
    BY <2>1 DEF Visible, Erase
  <2> QED
    BY <1>1, <1>2, <1>5, <2>2, <2>3, <2>4
<1>6. CASE o \in DOMAIN f /\ ~f[o].fresh
  <2> DEFINE e == [coin |-> Spent, dirty |-> TRUE, fresh |-> FALSE]
  <2>1. e \in Entry
    BY DEF Entry
  <2>2. IsCache(Insert(f, o, e))
    BY <1>1, <2>1 DEF IsCache, Insert
  <2>3. Sound(Insert(f, o, e), base)
    BY <1>1 DEF Sound, Insert
  <2>4. Visible(Insert(f, o, e), base) = [Visible(f, base) EXCEPT ![o] = Spent]
    BY DEF Visible, Insert
  <2> QED
    BY <1>1, <1>2, <1>6, <2>2, <2>3, <2>4
<1> QED
  BY <1>4, <1>5, <1>6

\* Uncache drops only what the base has as well.
LEMMA UncacheKept ==
  ASSUME NEW c, IsCache(c), NEW base \in Map, Sound(c, base), NEW o \in Outpoint
  PROVE  /\ IsCache(Uncache(c, o))
         /\ Sound(Uncache(c, o), base)
         /\ Visible(Uncache(c, o), base) = Visible(c, base)
<1>1. IsCache(Uncache(c, o))
  BY DEF IsCache, Uncache, Erase
<1>2. Sound(Uncache(c, o), base)
  BY DEF Sound, Uncache, Erase
<1>3. Visible(Uncache(c, o), base) = Visible(c, base)
  BY DEF Visible, Sound, Uncache, Erase
<1> QED
  BY <1>1, <1>2, <1>3

\* A map as it is seen through a cache is a map.
LEMMA VisibleType ==
  ASSUME NEW c, IsCache(c), NEW base \in Map
  PROVE  Visible(c, base) \in Map
BY DEF Visible, Map, IsCache, Entry

\* BatchWrite into the cache below: what was seen through both caches is seen
\* through the one that is left, whose flags are true for its own base.
LEMMA BatchKept ==
  ASSUME NEW parent, IsCache(parent), NEW base \in Map, Sound(parent, base),
         NEW child, IsCache(child), Sound(child, Visible(parent, base))
  PROVE  /\ IsCache(BatchWrite(parent, child))
         /\ Sound(BatchWrite(parent, child), base)
         /\ Visible(BatchWrite(parent, child), base) = Visible(child, Visible(parent, base))
<1> DEFINE Forgotten(x) == /\ x \in Dirty(child) /\ child[x].coin = Spent
                           /\ IF x \in DOMAIN parent THEN parent[x].fresh ELSE child[x].fresh
           D == {x \in DOMAIN parent \union Dirty(child) : ~Forgotten(x)}
           E(o) == IF o \notin Dirty(child) THEN parent[o]
                   ELSE [coin |-> child[o].coin, dirty |-> TRUE,
                         fresh |-> IF o \in DOMAIN parent THEN parent[o].fresh ELSE child[o].fresh]
           b == BatchWrite(parent, child)
<1>1. b = [o \in D |-> E(o)]
  BY DEF BatchWrite
<1>2. D \subseteq Outpoint /\ Dirty(child) \subseteq DOMAIN child
  BY DEF IsCache, Dirty
<1>3. \A o \in D : E(o) \in Entry
  BY <1>2 DEF IsCache, Dirty, Entry
<1>4. IsCache(b)
  <2>1. DOMAIN b = D /\ b \in [D -> Entry]
    BY <1>1, <1>3
  <2> QED
    BY <1>2, <2>1 DEF IsCache
<1>5. \A o \in D : (E(o).fresh => base[o] = Spent) /\ (~E(o).dirty => E(o).coin = base[o])
  BY <1>2 DEF Sound, Visible, Dirty, IsCache, Entry
<1>6. Sound(b, base)
  BY <1>1, <1>5 DEF Sound
<1>7. \A o \in Outpoint : (IF o \in D THEN E(o).coin ELSE base[o])
                            = Visible(child, Visible(parent, base))[o]
  BY <1>2 DEF Sound, Visible, Dirty, IsCache, Entry
<1>8. \A o \in Outpoint : Visible(b, base)[o] = IF o \in D THEN E(o).coin ELSE base[o]
  BY <1>1 DEF Visible
<1>9. Visible(b, base) = Visible(child, Visible(parent, base))
  <2> HIDE DEF b, D, E
  <2> QED
    BY <1>7, <1>8 DEF Visible
<1> QED
  BY <1>4, <1>6, <1>9

-----------------------------------------------------------------------------

\* The inductive invariant.
IInv == CoinsTypeOK /\ FlagsSound /\ FlushSound

LEMMA NoViewFacts ==
  /\ IsView(NoView) /\ IsCache(EmptyCache) /\ DOMAIN EmptyCache = {}
  /\ \A base : Sound(EmptyCache, base)
  /\ \A base \in Map : Visible(EmptyCache, base) = base
BY DEF IsView, IsCache, NoView, EmptyCache, Sound, Visible, Map

LEMMA ViewTypes ==
  ASSUME CoinsTypeOK
  PROVE  /\ IsCache(view.coins) /\ view.best \in Block \union {Nil}
         /\ IsCache(tip.coins) /\ tip.best \in Block \union {Nil}
         /\ db.coins \in Map /\ db.best \in Block \union {Nil}
         /\ TipCoins \in Map /\ ViewCoins \in Map
         /\ TipBest \in Block \union {Nil} /\ ViewBest \in Block \union {Nil}
<1>1. /\ IsCache(view.coins) /\ view.best \in Block \union {Nil}
      /\ IsCache(tip.coins) /\ tip.best \in Block \union {Nil}
      /\ db.coins \in Map /\ db.best \in Block \union {Nil}
  BY DEF CoinsTypeOK, IsView
<1>2. TipCoins \in Map
  BY <1>1, VisibleType DEF TipCoins
<1>3. ViewCoins \in Map
  BY <1>1, <1>2, VisibleType DEF ViewCoins
<1> QED
  BY <1>1, <1>2, <1>3 DEF TipBest, ViewBest

\* A step that happens between flushes, and that leaves the caches with true
\* flags, keeps the invariant.
LEMMA QuietStep ==
  ASSUME IInv, db.heads = Nil, UNCHANGED <<db, goal>>,
         IsView(view'), IsView(tip'),
         Sound(tip'.coins, db.coins), Sound(view'.coins, Visible(tip'.coins, db.coins))
  PROVE  IInv'
BY DEF IInv, CoinsTypeOK, FlagsSound, FlushSound, TipCoins

LEMMA EditedView ==
  ASSUME NEW v, IsView(v), NEW c, IsCache(c)
  PROVE  /\ IsView([v EXCEPT !.coins = c])
         /\ [v EXCEPT !.coins = c].coins = c /\ [v EXCEPT !.coins = c].best = v.best
BY DEF IsView

\* Lookups through the view change pcoinsTip, and nothing that can be seen.
LEMMA FetchedBelowKept ==
  ASSUME IInv, db.heads = Nil, NEW o \in Outpoint
  PROVE  /\ IsCache(FetchedBelow(o)) /\ Sound(FetchedBelow(o), db.coins)
         /\ Visible(FetchedBelow(o), db.coins) = TipCoins
<1>1. IsCache(tip.coins) /\ db.coins \in Map /\ Sound(tip.coins, db.coins)
  BY ViewTypes DEF IInv, FlagsSound
<1>2. CASE o \in DOMAIN view.coins
  BY <1>1, <1>2 DEF FetchedBelow, TipCoins
<1>3. CASE o \notin DOMAIN view.coins
  BY <1>1, <1>3, FetchKept DEF FetchedBelow, TipCoins
<1> QED
  BY <1>2, <1>3

\* What the calls on the caches do, seen from outside.
LEMMA ViewAccessStep ==
  ASSUME IInv, db.heads = Nil, NEW o \in Outpoint, ViewAccess(o)
  PROVE  IInv' /\ TipCoins' = TipCoins /\ ViewCoins' = ViewCoins
         /\ view'.best = view.best /\ tip'.best = tip.best
<1> DEFINE v == FetchCoin(view.coins, TipCoins, o)
           t == FetchedBelow(o)
<1>1. IsView(view) /\ IsView(tip) /\ IsCache(view.coins) /\ TipCoins \in Map /\ Sound(view.coins, TipCoins)
  BY ViewTypes DEF IInv, FlagsSound, CoinsTypeOK
<1>2. IsCache(v) /\ Sound(v, TipCoins) /\ Visible(v, TipCoins) = ViewCoins
  BY <1>1, FetchKept DEF ViewCoins
<1>3. IsCache(t) /\ Sound(t, db.coins) /\ Visible(t, db.coins) = TipCoins
  BY FetchedBelowKept
<1>4. view' = [view EXCEPT !.coins = v] /\ tip' = [tip EXCEPT !.coins = t] /\ UNCHANGED <<db, goal>>
  BY DEF ViewAccess
<1> HIDE DEF v, t
<1>5. /\ IsView(view') /\ view'.coins = v /\ view'.best = view.best
      /\ IsView(tip') /\ tip'.coins = t /\ tip'.best = tip.best
  BY <1>1, <1>2, <1>3, <1>4, EditedView
<1>6. IInv'
  BY <1>2, <1>3, <1>4, <1>5, QuietStep
<1>7. TipCoins' = TipCoins /\ ViewCoins' = ViewCoins
  BY <1>2, <1>3, <1>4, <1>5 DEF TipCoins, ViewCoins
<1> QED
  BY <1>5, <1>6, <1>7

LEMMA ViewSpendStep ==
  ASSUME IInv, db.heads = Nil, NEW o \in Outpoint, ViewSpend(o)
  PROVE  IInv' /\ TipCoins' = TipCoins /\ ViewCoins' = [ViewCoins EXCEPT ![o] = Spent]
         /\ view'.best = view.best /\ tip'.best = tip.best
<1> DEFINE v == SpendCoin(view.coins, TipCoins, o)
           t == FetchedBelow(o)
<1>1. IsView(view) /\ IsView(tip) /\ IsCache(view.coins) /\ TipCoins \in Map /\ Sound(view.coins, TipCoins)
  BY ViewTypes DEF IInv, FlagsSound, CoinsTypeOK
<1>2. IsCache(v) /\ Sound(v, TipCoins) /\ Visible(v, TipCoins) = [ViewCoins EXCEPT ![o] = Spent]
  BY <1>1, SpendKept DEF ViewCoins
<1>3. IsCache(t) /\ Sound(t, db.coins) /\ Visible(t, db.coins) = TipCoins
  BY FetchedBelowKept
<1>4. view' = [view EXCEPT !.coins = v] /\ tip' = [tip EXCEPT !.coins = t] /\ UNCHANGED <<db, goal>>
  BY DEF ViewSpend
<1> HIDE DEF v, t
<1>5. /\ IsView(view') /\ view'.coins = v /\ view'.best = view.best
      /\ IsView(tip') /\ tip'.coins = t /\ tip'.best = tip.best
  BY <1>1, <1>2, <1>3, <1>4, EditedView
<1>6. IInv'
  BY <1>2, <1>3, <1>4, <1>5, QuietStep
<1>7. TipCoins' = TipCoins /\ ViewCoins' = [ViewCoins EXCEPT ![o] = Spent]
  BY <1>2, <1>3, <1>4, <1>5 DEF TipCoins, ViewCoins
<1> QED
  BY <1>5, <1>6, <1>7

LEMMA ViewAddStep ==
  ASSUME IInv, db.heads = Nil, NEW o \in Outpoint, NEW coin \in Coin, NEW overwrite \in BOOLEAN,
         overwrite \/ ViewCoins[o] = Spent, ViewAdd(o, coin, overwrite)
  PROVE  /\ IInv' /\ TipCoins' = TipCoins
         /\ ViewCoins' = IF o \in Unspendable THEN ViewCoins ELSE [ViewCoins EXCEPT ![o] = coin]
         /\ view'.best = view.best /\ tip'.best = tip.best
<1> DEFINE v == AddCoin(view.coins, o, coin, overwrite)
<1>1. /\ IsView(view) /\ IsView(tip) /\ IsCache(view.coins) /\ TipCoins \in Map
      /\ Sound(view.coins, TipCoins) /\ Sound(tip.coins, db.coins)
  BY ViewTypes DEF IInv, FlagsSound, CoinsTypeOK
<1>2. /\ IsCache(v) /\ Sound(v, TipCoins)
      /\ Visible(v, TipCoins) = IF o \in Unspendable THEN ViewCoins ELSE [ViewCoins EXCEPT ![o] = coin]
  BY <1>1, AddKept DEF ViewCoins
<1>4. view' = [view EXCEPT !.coins = v] /\ UNCHANGED <<tip, db, goal>>
  BY DEF ViewAdd
<1> HIDE DEF v
<1>5. IsView(view') /\ view'.coins = v /\ view'.best = view.best
  BY <1>1, <1>2, <1>4, EditedView
<1>6. IInv'
  BY <1>1, <1>2, <1>4, <1>5, QuietStep DEF TipCoins
<1>7. TipCoins' = TipCoins /\ ViewCoins' = Visible(v, TipCoins)
  BY <1>4, <1>5 DEF TipCoins, ViewCoins
<1> QED
  BY <1>2, <1>4, <1>5, <1>6, <1>7

\* pcoinsTip alone: reading a coin and giving it up.
LEMMA TipStep ==
  ASSUME IInv, db.heads = Nil, NEW o \in Outpoint, TipAccess(o) \/ TipUncache(o)
  PROVE  IInv' /\ TipCoins' = TipCoins /\ ViewCoins' = ViewCoins
         /\ view' = view /\ tip'.best = tip.best
<1>1. /\ IsView(view) /\ IsView(tip) /\ IsCache(tip.coins) /\ db.coins \in Map
      /\ Sound(view.coins, TipCoins) /\ Sound(tip.coins, db.coins)
  BY ViewTypes DEF IInv, FlagsSound, CoinsTypeOK
<1>2. PICK t : /\ IsCache(t) /\ Sound(t, db.coins) /\ Visible(t, db.coins) = TipCoins
               /\ tip' = [tip EXCEPT !.coins = t] /\ UNCHANGED <<view, db, goal>>
  <2>1. CASE TipAccess(o)
    BY <1>1, <2>1, FetchKept DEF TipAccess, TipCoins
  <2>2. CASE TipUncache(o)
    BY <1>1, <2>2, UncacheKept DEF TipUncache, TipCoins
  <2> QED
    BY <2>1, <2>2
<1>3. IsView(tip') /\ tip'.coins = t /\ tip'.best = tip.best
  BY <1>1, <1>2, EditedView
<1>4. IInv'
  BY <1>1, <1>2, <1>3, QuietStep
<1> QED
  BY <1>2, <1>3, <1>4 DEF TipCoins, ViewCoins

LEMMA ViewSetBestStep ==
  ASSUME IInv, db.heads = Nil, NEW b \in Block, ViewSetBest(b)
  PROVE  IInv' /\ TipCoins' = TipCoins /\ ViewCoins' = ViewCoins
         /\ view'.best = b /\ tip' = tip
<1>1. /\ IsView(view) /\ IsView(tip)
      /\ Sound(view.coins, TipCoins) /\ Sound(tip.coins, db.coins)
  BY DEF IInv, FlagsSound, CoinsTypeOK
<1>2. view' = [view EXCEPT !.best = b] /\ UNCHANGED <<tip, db, goal>>
  BY DEF ViewSetBest
<1>3. IsView(view') /\ view'.best = b /\ view'.coins = view.coins
  BY <1>1, <1>2 DEF IsView
<1>4. IInv'
  BY <1>1, <1>2, <1>3, QuietStep DEF TipCoins
<1> QED
  BY <1>2, <1>3, <1>4 DEF TipCoins, ViewCoins

LEMMA ViewFlushStep ==
  ASSUME IInv, db.heads = Nil, ViewFlush
  PROVE  IInv' /\ TipCoins' = ViewCoins /\ ViewCoins' = ViewCoins
         /\ view' = NoView /\ tip'.best = view.best
<1> DEFINE t == BatchWrite(tip.coins, view.coins)
<1>1. /\ IsCache(view.coins) /\ IsCache(tip.coins) /\ db.coins \in Map
      /\ Sound(view.coins, TipCoins) /\ Sound(tip.coins, db.coins)
      /\ view.best \in Block \union {Nil}
  BY ViewTypes DEF IInv, FlagsSound
<1>2. IsCache(t) /\ Sound(t, db.coins) /\ Visible(t, db.coins) = ViewCoins
  BY <1>1, BatchKept DEF ViewCoins, TipCoins
<1>3. tip' = [coins |-> t, best |-> view.best] /\ view' = NoView /\ UNCHANGED <<db, goal>>
  BY DEF ViewFlush
<1> HIDE DEF t
<1>4. IsView(tip') /\ tip'.coins = t /\ tip'.best = view.best
  BY <1>1, <1>2, <1>3 DEF IsView
<1>5. IsView(view') /\ view'.coins = EmptyCache
  BY <1>3, NoViewFacts DEF NoView
<1>6. IInv'
  BY <1>2, <1>3, <1>4, <1>5, NoViewFacts, QuietStep
<1>7. TipCoins' = ViewCoins
  BY <1>2, <1>3, <1>4 DEF TipCoins
<1>8. ViewCoins' = ViewCoins
  <2>1. ViewCoins' = Visible(EmptyCache, TipCoins')
    BY <1>5 DEF ViewCoins
  <2>2. ViewCoins \in Map
    BY ViewTypes DEF IInv
  <2> QED
    BY <1>7, <2>1, <2>2, NoViewFacts
<1> QED
  BY <1>3, <1>4, <1>6, <1>7, <1>8

LEMMA ViewDropStep ==
  ASSUME IInv, db.heads = Nil, ViewDrop
  PROVE  IInv' /\ TipCoins' = TipCoins /\ ViewCoins' = TipCoins
         /\ view' = NoView /\ tip' = tip
<1>1. IsView(tip) /\ Sound(tip.coins, db.coins) /\ TipCoins \in Map
  BY ViewTypes DEF IInv, FlagsSound, CoinsTypeOK
<1>2. view' = NoView /\ UNCHANGED <<tip, db, goal>>
  BY DEF ViewDrop
<1>3. IsView(view') /\ view'.coins = EmptyCache
  BY <1>2, NoViewFacts DEF NoView
<1>4. IInv'
  BY <1>1, <1>2, <1>3, NoViewFacts, QuietStep
<1>5. TipCoins' = TipCoins
  BY <1>2 DEF TipCoins
<1>6. ViewCoins' = TipCoins
  BY <1>1, <1>3, <1>5, NoViewFacts DEF ViewCoins
<1> QED
  BY <1>2, <1>4, <1>5, <1>6

\* The batches.  Here db.heads may be there already: a flush goes on.
LEMMA PartialBatchStep ==
  ASSUME IInv, NEW S \in SUBSET Outpoint, PartialBatch(S)
  PROVE  /\ IInv' /\ db'.heads # Nil
         /\ goal' = IF db.heads = Nil THEN [coins |-> TipCoins, best |-> tip.best] ELSE goal
<1>1. /\ IsView(tip) /\ IsCache(tip.coins) /\ db.coins \in Map /\ TipCoins \in Map
      /\ view = NoView /\ view' = NoView
  BY ViewTypes DEF IInv, PartialBatch, CoinsTypeOK
<1>2. tip.best \in Block /\ OldTip \in Block \union {Nil}
  BY DEF PartialBatch, OldTip, IInv, CoinsTypeOK, IsView
<1> DEFINE t == Erase(tip.coins, S)
           w == Written(db.coins, tip.coins, S)
           h == [new |-> tip.best, old |-> OldTip]
<1>3. /\ tip' = [tip EXCEPT !.coins = t]
      /\ db' = [coins |-> w, best |-> Nil, heads |-> h]
      /\ goal' = IF db.heads = Nil THEN [coins |-> TipCoins, best |-> tip.best] ELSE goal
  BY DEF PartialBatch
<1>4. IsCache(t)
  BY <1>1 DEF IsCache, Erase
<1>5. w \in Map
  BY <1>1 DEF Written, Map, Dirty, IsCache, Entry
<1>6. h \in [new : Block, old : Block \union {Nil}] /\ h # Nil
  BY <1>2, CoinsConstants
<1>7. \A o \in Outpoint :
        (IF o \in Dirty(t) THEN t[o].coin ELSE w[o])
          = IF o \in Dirty(tip.coins) THEN tip.coins[o].coin ELSE db.coins[o]
  BY <1>1 DEF Dirty, Erase, Written
<1>8. db.heads = Nil => \A o \in Outpoint :
        TipCoins[o] = IF o \in Dirty(tip.coins) THEN tip.coins[o].coin ELSE db.coins[o]
  BY DEF IInv, FlagsSound, Sound, TipCoins, Visible, Dirty
<1> HIDE DEF t, w, h
<1>9. IsView(tip') /\ tip'.coins = t /\ tip'.best = tip.best
  BY <1>1, <1>3, <1>4, EditedView
<1>10. /\ goal' \in [coins : Map, best : Block] /\ goal'.best = tip.best
       /\ \A o \in Outpoint : goal'.coins[o] =
             IF o \in Dirty(tip.coins) THEN tip.coins[o].coin ELSE db.coins[o]
  <2>1. CASE db.heads = Nil
    BY <1>1, <1>2, <1>3, <1>8, <2>1
  <2>2. CASE db.heads # Nil
    BY <1>2, <1>3, <2>2, CoinsConstants DEF IInv, CoinsTypeOK, FlushSound
  <2> QED
    BY <2>1, <2>2
<1>11. db'.coins = w /\ db'.best = Nil /\ db'.heads = h
  BY <1>3
<1>12. CoinsTypeOK'
  BY <1>1, <1>3, <1>5, <1>6, <1>9, <1>10, <1>11, NoViewFacts DEF CoinsTypeOK
<1>13. FlagsSound'
  BY <1>6, <1>11 DEF FlagsSound
<1>14. FlushSound'
  BY <1>1, <1>7, <1>9, <1>10, <1>11 DEF FlushSound
<1> QED
  BY <1>3, <1>6, <1>11, <1>12, <1>13, <1>14 DEF IInv

LEMMA FinalBatchStep ==
  ASSUME IInv, FinalBatch
  PROVE  /\ IInv' /\ db'.heads = Nil /\ db'.best = tip.best /\ tip'.best = tip.best
         /\ db'.coins = (IF db.heads = Nil THEN TipCoins ELSE goal.coins)
         /\ TipCoins' = db'.coins /\ view = NoView /\ view' = NoView
<1>1. /\ IsView(tip) /\ IsCache(tip.coins) /\ db.coins \in Map /\ TipCoins \in Map
      /\ view = NoView /\ view' = NoView /\ tip.best \in Block \union {Nil} /\ tip.best # Nil
  BY ViewTypes DEF IInv, FinalBatch, CoinsTypeOK
<1> DEFINE w == Written(db.coins, tip.coins, DOMAIN tip.coins)
<1>2. /\ tip' = [tip EXCEPT !.coins = EmptyCache] /\ goal' = Nil
      /\ db' = [coins |-> w, best |-> tip.best, heads |-> Nil]
  BY DEF FinalBatch
<1>3. w \in Map
  BY <1>1 DEF Written, Map, Dirty, IsCache, Entry
<1>4. w = [o \in Outpoint |-> IF o \in Dirty(tip.coins) THEN tip.coins[o].coin ELSE db.coins[o]]
  BY <1>1 DEF Written, Dirty
<1>5. w = IF db.heads = Nil THEN TipCoins ELSE goal.coins
  <2>1. CASE db.heads = Nil
    BY <1>4, <2>1 DEF IInv, FlagsSound, Sound, TipCoins, Visible, Dirty
  <2>2. CASE db.heads # Nil
    <3>1. \A o \in Outpoint : goal.coins[o] =
            IF o \in Dirty(tip.coins) THEN tip.coins[o].coin ELSE db.coins[o]
      BY <1>1, <2>2 DEF IInv, FlushSound
    <3>2. goal.coins \in Map
      BY <2>2 DEF IInv, CoinsTypeOK
    <3> QED
      BY <1>4, <2>2, <3>1, <3>2 DEF Map
  <2> QED
    BY <2>1, <2>2
<1> HIDE DEF w
<1>6. IsView(tip') /\ tip'.coins = EmptyCache /\ tip'.best = tip.best
  BY <1>1, <1>2, EditedView, NoViewFacts
<1>7. db'.coins = w /\ db'.best = tip.best /\ db'.heads = Nil
  BY <1>2
<1>8. TipCoins' = w
  BY <1>3, <1>6, <1>7, NoViewFacts DEF TipCoins
<1>9. CoinsTypeOK'
  BY <1>1, <1>2, <1>3, <1>6, NoViewFacts DEF CoinsTypeOK
<1>10. FlagsSound' /\ FlushSound'
  BY <1>1, <1>6, <1>7, NoViewFacts DEF FlagsSound, FlushSound, NoView
<1> QED
  BY <1>1, <1>5, <1>6, <1>7, <1>8, <1>9, <1>10 DEF IInv

\* The caches are gone, and what is seen is what is on disk.
LEMMA CrashStep ==
  ASSUME IInv, Crash
  PROVE  /\ IInv' /\ view' = NoView /\ tip'.best = db.best /\ UNCHANGED <<db, goal>>
         /\ TipCoins' = db.coins
<1>1. view' = NoView /\ tip' = [NoView EXCEPT !.best = db.best] /\ UNCHANGED <<db, goal>>
  BY DEF Crash
<1>2. db.coins \in Map /\ db.best \in Block \union {Nil}
  BY ViewTypes DEF IInv
<1>3. IsView(tip') /\ tip'.coins = EmptyCache /\ tip'.best = db.best
  BY <1>1, <1>2, NoViewFacts DEF NoView, IsView
<1>4. TipCoins' = db.coins
  BY <1>1, <1>2, <1>3, NoViewFacts DEF TipCoins
<1>5. CoinsTypeOK'
  BY <1>1, <1>3, NoViewFacts DEF IInv, CoinsTypeOK
<1>6. FlagsSound'
  BY <1>1, <1>3, NoViewFacts DEF FlagsSound, NoView
<1>7. FlushSound'
  BY <1>1, <1>3 DEF IInv, CoinsTypeOK, FlushSound
<1> QED
  BY <1>1, <1>3, <1>4, <1>5, <1>6, <1>7 DEF IInv

LEMMA RecoverStep ==
  ASSUME IInv, Recover
  PROVE  /\ IInv' /\ db.heads # Nil /\ db'.heads = Nil /\ view' = NoView /\ tip'.best = goal.best
         /\ db'.coins = goal.coins /\ db'.best = goal.best /\ TipCoins' = goal.coins
<1>1. /\ db.heads # Nil /\ goal' = Nil /\ view' = view
      /\ db' = [coins |-> goal.coins, best |-> goal.best, heads |-> Nil]
      /\ tip' = [NoView EXCEPT !.best = goal.best]
  BY DEF Recover
<1>2. goal.coins \in Map /\ goal.best \in Block /\ view = NoView
  BY <1>1 DEF IInv, CoinsTypeOK, FlushSound
<1>3. IsView(tip') /\ tip'.coins = EmptyCache /\ tip'.best = goal.best
  BY <1>1, <1>2, NoViewFacts DEF NoView, IsView
<1>4. db'.coins = goal.coins /\ db'.best = goal.best /\ db'.heads = Nil
  BY <1>1
<1>5. TipCoins' = goal.coins
  BY <1>2, <1>3, <1>4, NoViewFacts DEF TipCoins
<1>6. CoinsTypeOK'
  BY <1>1, <1>2, <1>3, NoViewFacts DEF CoinsTypeOK
<1>7. FlagsSound' /\ FlushSound'
  BY <1>1, <1>2, <1>3, <1>4, NoViewFacts DEF FlagsSound, FlushSound, NoView
<1> QED
  BY <1>1, <1>2, <1>3, <1>4, <1>5, <1>6, <1>7 DEF IInv

-----------------------------------------------------------------------------
\* What the abstract variables are between two flushes.
LEMMA FlatQuiet ==
  ASSUME db.heads = Nil
  PROVE  /\ FlatUtxo = [coins |-> TipCoins, best |-> TipBest]
         /\ FlatWork = [coins |-> ViewCoins, best |-> ViewBest]
         /\ FlatDisk = [coins |-> db.coins, best |-> db.best]
BY DEF FlatUtxo, FlatWork, FlatDisk

LEMMA FlatQuietNext ==
  ASSUME db'.heads = Nil
  PROVE  /\ FlatUtxo' = [coins |-> TipCoins', best |-> TipBest']
         /\ FlatWork' = [coins |-> ViewCoins', best |-> ViewBest']
         /\ FlatDisk' = [coins |-> db'.coins, best |-> db'.best]
BY DEF FlatUtxo, FlatWork, FlatDisk

LEMMA FlatFlush ==
  ASSUME db.heads # Nil
  PROVE  FlatUtxo = goal /\ FlatWork = goal /\ FlatDisk = goal
BY DEF FlatUtxo, FlatWork, FlatDisk

LEMMA FlatFlushNext ==
  ASSUME db'.heads # Nil
  PROVE  FlatUtxo' = goal' /\ FlatWork' = goal' /\ FlatDisk' = goal'
BY DEF FlatUtxo, FlatWork, FlatDisk

\* No view: it is seen what pcoinsTip shows.
LEMMA NoViewSeen ==
  ASSUME TipCoins \in Map, view = NoView
  PROVE  ViewCoins = TipCoins /\ ViewBest = TipBest
BY NoViewFacts DEF ViewCoins, ViewBest, NoView

LEMMA NoViewSeenNext ==
  ASSUME TipCoins' \in Map, view' = NoView
  PROVE  ViewCoins' = TipCoins' /\ ViewBest' = TipBest'
BY NoViewFacts DEF ViewCoins, ViewBest, NoView

\* A step that changes the coins and the block in progress only as far as the
\* abstract specification allows.
LEMMA QuietRefines ==
  ASSUME db.heads = Nil, db' = db,
         \/ /\ TipCoins' = TipCoins /\ TipBest' = TipBest
            /\ ViewBest' = ViewBest
            /\ \/ ViewCoins' = ViewCoins
               \/ \E o \in Outpoint, c \in Coin \union {Spent} : ViewCoins' = [ViewCoins EXCEPT ![o] = c]
         \/ /\ TipCoins' = TipCoins /\ TipBest' = TipBest
            /\ ViewCoins' = ViewCoins /\ ViewBest' \in Block
         \/ /\ TipCoins' = ViewCoins /\ TipBest' = ViewBest
            /\ ViewCoins' = ViewCoins /\ ViewBest' = ViewBest
         \/ /\ TipCoins' = TipCoins /\ TipBest' = TipBest
            /\ ViewCoins' = TipCoins /\ ViewBest' = TipBest
  PROVE  [Abstract!Next]_(Abstract!cvars)
<1>1. /\ FlatUtxo = [coins |-> TipCoins, best |-> TipBest]
      /\ FlatWork = [coins |-> ViewCoins, best |-> ViewBest]
      /\ FlatDisk = [coins |-> db.coins, best |-> db.best]
  BY FlatQuiet
<1>2. /\ FlatUtxo' = [coins |-> TipCoins', best |-> TipBest']
      /\ FlatWork' = [coins |-> ViewCoins', best |-> ViewBest']
      /\ FlatDisk' = [coins |-> db'.coins, best |-> db'.best]
  BY FlatQuietNext
<1>3. FlatDisk' = FlatDisk
  BY <1>1, <1>2
<1>4. CASE /\ TipCoins' = TipCoins /\ TipBest' = TipBest /\ ViewBest' = ViewBest
           /\ ViewCoins' = ViewCoins
  BY <1>1, <1>2, <1>3, <1>4 DEF Abstract!cvars
<1>5. CASE /\ TipCoins' = TipCoins /\ TipBest' = TipBest /\ ViewBest' = ViewBest
           /\ \E o \in Outpoint, c \in Coin \union {Spent} : ViewCoins' = [ViewCoins EXCEPT ![o] = c]
  <2>1. PICK o \in Outpoint, c \in Coin \union {Spent} : ViewCoins' = [ViewCoins EXCEPT ![o] = c]
    BY <1>5, Zenon
  <2>2. FlatWork' = [FlatWork EXCEPT !.coins[o] = c] /\ FlatUtxo' = FlatUtxo
    BY <1>1, <1>2, <1>5, <2>1
  <2> QED
    BY <1>3, <2>2 DEF Abstract!Next, Abstract!Change
<1>6. CASE /\ TipCoins' = TipCoins /\ TipBest' = TipBest
           /\ ViewCoins' = ViewCoins /\ ViewBest' \in Block
  <2>1. FlatWork' = [FlatWork EXCEPT !.best = ViewBest'] /\ FlatUtxo' = FlatUtxo
    BY <1>1, <1>2, <1>6
  <2> QED
    BY <1>3, <1>6, <2>1 DEF Abstract!Next, Abstract!SetBest
<1>7. CASE /\ TipCoins' = ViewCoins /\ TipBest' = ViewBest
           /\ ViewCoins' = ViewCoins /\ ViewBest' = ViewBest
  <2>1. FlatUtxo' = FlatWork /\ FlatWork' = FlatWork
    BY <1>1, <1>2, <1>7
  <2> QED
    BY <1>3, <2>1 DEF Abstract!Next, Abstract!Commit
<1>8. CASE /\ TipCoins' = TipCoins /\ TipBest' = TipBest
           /\ ViewCoins' = TipCoins /\ ViewBest' = TipBest
  <2>1. FlatUtxo' = FlatUtxo /\ FlatWork' = FlatUtxo
    BY <1>1, <1>2, <1>8
  <2> QED
    BY <1>3, <2>1 DEF Abstract!Next, Abstract!Drop
<1> QED
  BY <1>4, <1>5, <1>6, <1>7, <1>8

\* The same blocks: a step that leaves hashBlock alone in both caches.
LEMMA SameBest ==
  ASSUME db' = db, view'.best = view.best, tip'.best = tip.best
  PROVE  TipBest' = TipBest /\ ViewBest' = ViewBest
BY DEF TipBest, ViewBest

\* A call on the caches between two flushes.
QuietCall ==
  \/ \E o \in Outpoint :
       \/ ViewAccess(o)
       \/ ViewSpend(o)
       \/ TipAccess(o)
       \/ TipUncache(o)
       \/ \E coin \in Coin, overwrite \in BOOLEAN :
            (overwrite \/ ViewCoins[o] = Spent) /\ ViewAdd(o, coin, overwrite)
  \/ \E b \in Block : ViewSetBest(b)
  \/ view.best # Nil /\ ViewFlush
  \/ ViewDrop

LEMMA QuietCallStep ==
  ASSUME IInv, db.heads = Nil, QuietCall
  PROVE  IInv' /\ [Abstract!Next]_(Abstract!cvars)
<1>1. ASSUME NEW o \in Outpoint, ViewAccess(o)
      PROVE  IInv' /\ [Abstract!Next]_(Abstract!cvars)
  <2>1. db' = db
    BY <1>1 DEF ViewAccess
  <2> QED
    BY <1>1, <2>1, ViewAccessStep, SameBest, QuietRefines
<1>2. ASSUME NEW o \in Outpoint, ViewSpend(o)
      PROVE  IInv' /\ [Abstract!Next]_(Abstract!cvars)
  <2>1. db' = db
    BY <1>2 DEF ViewSpend
  <2>2. /\ IInv' /\ TipCoins' = TipCoins /\ ViewCoins' = [ViewCoins EXCEPT ![o] = Spent]
        /\ TipBest' = TipBest /\ ViewBest' = ViewBest
    BY <1>2, <2>1, ViewSpendStep, SameBest
  <2>3. \E y \in Outpoint, c \in Coin \union {Spent} : ViewCoins' = [ViewCoins EXCEPT ![y] = c]
    BY <2>2, Zenon
  <2> QED
    BY <2>1, <2>2, <2>3, QuietRefines, Zenon
<1>3. ASSUME NEW o \in Outpoint, TipAccess(o) \/ TipUncache(o)
      PROVE  IInv' /\ [Abstract!Next]_(Abstract!cvars)
  <2>1. db' = db
    BY <1>3 DEF TipAccess, TipUncache
  <2> QED
    BY <1>3, <2>1, TipStep, SameBest, QuietRefines
<1>4. ASSUME NEW o \in Outpoint, NEW coin \in Coin, NEW overwrite \in BOOLEAN,
             overwrite \/ ViewCoins[o] = Spent, ViewAdd(o, coin, overwrite)
      PROVE  IInv' /\ [Abstract!Next]_(Abstract!cvars)
  <2>1. db' = db
    BY <1>4 DEF ViewAdd
  <2>2. /\ IInv' /\ TipCoins' = TipCoins
        /\ ViewCoins' = IF o \in Unspendable THEN ViewCoins ELSE [ViewCoins EXCEPT ![o] = coin]
        /\ TipBest' = TipBest /\ ViewBest' = ViewBest
    BY <1>4, <2>1, ViewAddStep, SameBest
  <2>3. \/ ViewCoins' = ViewCoins
        \/ \E y \in Outpoint, c \in Coin \union {Spent} : ViewCoins' = [ViewCoins EXCEPT ![y] = c]
    BY <2>2, Zenon
  <2> QED
    BY <2>1, <2>2, <2>3, QuietRefines, Zenon
<1>5. ASSUME NEW b \in Block, ViewSetBest(b)
      PROVE  IInv' /\ [Abstract!Next]_(Abstract!cvars)
  <2>1. db' = db
    BY <1>5 DEF ViewSetBest
  <2>2. /\ IInv' /\ TipCoins' = TipCoins /\ ViewCoins' = ViewCoins
        /\ view'.best = b /\ tip' = tip
    BY <1>5, ViewSetBestStep
  <2>3. TipBest' = TipBest /\ ViewBest' \in Block
    BY <2>1, <2>2, CoinsConstants DEF TipBest, ViewBest
  <2> QED
    BY <2>1, <2>2, <2>3, QuietRefines
<1>6. ASSUME view.best # Nil, ViewFlush
      PROVE  IInv' /\ [Abstract!Next]_(Abstract!cvars)
  <2>1. db' = db
    BY <1>6 DEF ViewFlush
  <2>2. /\ IInv' /\ TipCoins' = ViewCoins /\ ViewCoins' = ViewCoins
        /\ view' = NoView /\ tip'.best = view.best
    BY <1>6, ViewFlushStep
  <2>3. TipBest' = ViewBest /\ ViewBest' = ViewBest
    BY <1>6, <2>2 DEF TipBest, ViewBest, NoView
  <2> QED
    BY <2>1, <2>2, <2>3, QuietRefines
<1>7. ASSUME ViewDrop
      PROVE  IInv' /\ [Abstract!Next]_(Abstract!cvars)
  <2>1. db' = db
    BY <1>7 DEF ViewDrop
  <2>2. /\ IInv' /\ TipCoins' = TipCoins /\ ViewCoins' = TipCoins
        /\ view' = NoView /\ tip' = tip
    BY <1>7, ViewDropStep
  <2>3. TipBest' = TipBest /\ ViewBest' = TipBest
    BY <2>1, <2>2 DEF TipBest, ViewBest, NoView
  <2> QED
    BY <2>1, <2>2, <2>3, QuietRefines
<1> QED
  BY <1>1, <1>2, <1>3, <1>4, <1>5, <1>6, <1>7 DEF QuietCall

\* Writing to disk is saving what pcoinsTip shows, at the first batch.
LEMMA PartialBatchRefines ==
  ASSUME IInv, NEW S \in SUBSET Outpoint, PartialBatch(S)
  PROVE  [Abstract!Next]_(Abstract!cvars)
<1>1. /\ db'.heads # Nil
      /\ goal' = IF db.heads = Nil THEN [coins |-> TipCoins, best |-> tip.best] ELSE goal
  BY PartialBatchStep
<1>2. FlatUtxo' = goal' /\ FlatWork' = goal' /\ FlatDisk' = goal'
  BY <1>1, FlatFlushNext
<1>3. CASE db.heads = Nil
  <2>1. TipBest = tip.best /\ ViewCoins = TipCoins /\ ViewBest = TipBest
    BY ViewTypes, NoViewSeen DEF IInv, PartialBatch, TipBest
  <2>2. FlatUtxo = goal' /\ FlatWork = goal'
    BY <1>1, <1>3, <2>1, FlatQuiet
  <2> QED
    BY <1>2, <2>2 DEF Abstract!Next, Abstract!Save
<1>4. CASE db.heads # Nil
  BY <1>1, <1>2, <1>4, FlatFlush DEF Abstract!cvars
<1> QED
  BY <1>3, <1>4

LEMMA FinalBatchRefines ==
  ASSUME IInv, FinalBatch
  PROVE  [Abstract!Next]_(Abstract!cvars)
<1>1. /\ db'.heads = Nil /\ db'.best = tip.best /\ tip'.best = tip.best
      /\ db'.coins = (IF db.heads = Nil THEN TipCoins ELSE goal.coins)
      /\ TipCoins' = db'.coins /\ view = NoView /\ view' = NoView
  BY FinalBatchStep
<1>2. TipCoins \in Map /\ tip.best # Nil
  BY ViewTypes DEF IInv, FinalBatch
<1>3. db.heads # Nil => goal = [coins |-> goal.coins, best |-> goal.best] /\ goal.coins \in Map
                          /\ tip.best = goal.best
  BY <1>2 DEF IInv, CoinsTypeOK, FlushSound
<1>4. TipCoins' \in Map
  BY <1>1, <1>2, <1>3
<1>5. ViewCoins' = TipCoins' /\ ViewBest' = TipBest' /\ TipBest' = tip.best
  BY <1>1, <1>2, <1>4, NoViewSeenNext DEF TipBest
<1> DEFINE s == [coins |-> db'.coins, best |-> tip.best]
<1>6. FlatUtxo' = s /\ FlatWork' = s /\ FlatDisk' = s
  BY <1>1, <1>5, FlatQuietNext
<1>7. CASE db.heads = Nil
  <2>1. TipBest = tip.best /\ ViewCoins = TipCoins /\ ViewBest = TipBest
    BY <1>1, <1>2, NoViewSeen DEF TipBest
  <2>2. FlatUtxo = s /\ FlatWork = s
    BY <1>1, <1>7, <2>1, FlatQuiet
  <2> HIDE DEF s
  <2> QED
    BY <1>6, <2>2 DEF Abstract!Next, Abstract!Save
<1>8. CASE db.heads # Nil
  <2>1. goal = s
    BY <1>1, <1>3, <1>8
  <2>2. FlatUtxo = s /\ FlatWork = s /\ FlatDisk = s
    BY <1>8, <2>1, FlatFlush
  <2> HIDE DEF s
  <2> QED
    BY <1>6, <2>2 DEF Abstract!cvars
<1> QED
  BY <1>7, <1>8

LEMMA CrashRefines ==
  ASSUME IInv, Crash
  PROVE  [Abstract!Next]_(Abstract!cvars)
<1>1. /\ view' = NoView /\ tip'.best = db.best /\ UNCHANGED <<db, goal>>
      /\ TipCoins' = db.coins
  BY CrashStep
<1>2. CASE db.heads = Nil
  <2>1. db.coins \in Map
    BY ViewTypes DEF IInv
  <2>2. ViewCoins' = db.coins /\ ViewBest' = db.best /\ TipBest' = db.best
    BY <1>1, <2>1, NoViewSeenNext DEF TipBest
  <2>3. FlatUtxo' = FlatDisk /\ FlatWork' = FlatDisk /\ FlatDisk' = FlatDisk
    BY <1>1, <1>2, <2>2, FlatQuiet, FlatQuietNext
  <2> QED
    BY <2>3 DEF Abstract!Next, Abstract!Crash
<1>3. CASE db.heads # Nil
  BY <1>1, <1>3, FlatFlush, FlatFlushNext DEF Abstract!cvars
<1> QED
  BY <1>2, <1>3

LEMMA RecoverRefines ==
  ASSUME IInv, Recover
  PROVE  [Abstract!Next]_(Abstract!cvars)
<1>1. /\ db.heads # Nil /\ db'.heads = Nil /\ view' = NoView /\ tip'.best = goal.best
      /\ db'.coins = goal.coins /\ db'.best = goal.best /\ TipCoins' = goal.coins
  BY RecoverStep
<1>2. goal = [coins |-> goal.coins, best |-> goal.best] /\ goal.coins \in Map
  BY <1>1 DEF IInv, CoinsTypeOK
<1>3. ViewCoins' = goal.coins /\ ViewBest' = goal.best /\ TipBest' = goal.best
  BY <1>1, <1>2, NoViewSeenNext DEF TipBest
<1>4. FlatUtxo' = goal /\ FlatWork' = goal /\ FlatDisk' = goal
  BY <1>1, <1>2, <1>3, FlatQuietNext
<1> QED
  BY <1>1, <1>4, FlatFlush DEF Abstract!cvars

-----------------------------------------------------------------------------
\* Every step of the caches keeps the invariant and is a step of the flat maps
\* or none.
LEMMA EveryStep ==
  ASSUME IInv, [Next]_coinVars
  PROVE  IInv' /\ [Abstract!Next]_(Abstract!cvars)
<1>1. CASE db.heads = Nil /\ QuietCall
  BY <1>1, QuietCallStep
<1>2. ASSUME NEW S \in SUBSET Outpoint, PartialBatch(S)
      PROVE  IInv' /\ [Abstract!Next]_(Abstract!cvars)
  BY <1>2, PartialBatchStep, PartialBatchRefines
<1>3. CASE FinalBatch
  BY <1>3, FinalBatchStep, FinalBatchRefines
<1>4. CASE Crash
  BY <1>4, CrashStep, CrashRefines
<1>5. CASE Recover
  BY <1>5, RecoverStep, RecoverRefines
<1>6. CASE UNCHANGED coinVars
  <2>1. IInv'
    BY <1>6 DEF coinVars, IInv, CoinsTypeOK, FlagsSound, FlushSound, TipCoins
  <2>2. FlatUtxo' = FlatUtxo /\ FlatWork' = FlatWork /\ FlatDisk' = FlatDisk
    BY <1>6 DEF coinVars, FlatUtxo, FlatWork, FlatDisk, TipCoins, ViewCoins, TipBest, ViewBest
  <2> QED
    BY <2>1, <2>2 DEF Abstract!cvars
<1> QED
  BY <1>1, <1>2, <1>3, <1>4, <1>5, <1>6, Zenon DEF Next, QuietCall

LEMMA Start ==
  ASSUME Init
  PROVE  IInv /\ Abstract!Init
<1> DEFINE none == [o \in Outpoint |-> Spent]
<1>1. view = NoView /\ tip = NoView /\ db = [coins |-> none, best |-> Nil, heads |-> Nil] /\ goal = Nil
  BY DEF Init
<1>2. none \in Map
  BY DEF Map
<1>3. db.coins = none /\ db.best = Nil /\ db.heads = Nil
  BY <1>1
<1>4. tip.coins = EmptyCache /\ tip.best = Nil
  BY <1>1 DEF NoView
<1>5. TipCoins = none /\ TipBest = Nil
  BY <1>2, <1>3, <1>4, NoViewFacts DEF TipCoins, TipBest
<1>6. ViewCoins = none /\ ViewBest = Nil
  BY <1>1, <1>2, <1>5, NoViewSeen
<1>7. CoinsTypeOK
  BY <1>1, <1>2, NoViewFacts DEF CoinsTypeOK
<1>8. FlagsSound /\ FlushSound
  BY <1>1, <1>3, <1>4, NoViewFacts DEF FlagsSound, FlushSound, NoView
<1>9. Abstract!Init
  BY <1>3, <1>5, <1>6, FlatQuiet DEF Abstract!Init, Abstract!NoCoins
<1> QED
  BY <1>7, <1>8, <1>9 DEF IInv

\* The flags DIRTY and FRESH of coins.h are true in both caches for any number
\* of coins, and for all calls that keep to the contract of AddCoin.
THEOREM FlagsAreSound == Spec => [](CoinsTypeOK /\ FlagsSound)
<1>1. Init => IInv
  BY Start
<1>2. IInv /\ [Next]_coinVars => IInv'
  BY EveryStep
<1>3. IInv => CoinsTypeOK /\ FlagsSound
  BY DEF IInv
<1> QED
  BY <1>1, <1>2, <1>3, PTL DEF Spec

\* The caches, their flags and the batches of CCoinsViewDB::BatchWrite
\* implement the flat maps of module Coins.
THEOREM Implementation == Spec => CoinsSpec
<1>1. Init => IInv /\ Abstract!Init
  BY Start
<1>2. IInv /\ [Next]_coinVars => IInv' /\ [Abstract!Next]_(Abstract!cvars)
  BY EveryStep
<1> QED
  BY <1>1, <1>2, PTL DEF Spec, CoinsSpec, Abstract!Spec
==============================================================================
