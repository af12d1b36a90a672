----------------------------- MODULE PoolProofs ------------------------------
(*****************************************************************************)
(* What the operations on the pool do, for all transactions: the packages    *)
(* and the links after entries are removed and after one is added, and the   *)
(* pool and the chain after a block is connected or disconnected or a        *)
(* transaction is accepted.                                                  *)
(*****************************************************************************)
EXTENDS TxMemPool, BlockTreeProofs

(***************************************************************************)
(* Induction and recursion                                                 *)
(***************************************************************************)
\* What is true of 0, and of a number up to N when it is true of the one before,
\* is true up to N.
LEMMA UpTo ==
  ASSUME NEW N \in Nat, NEW S, 0 \in S, \A i \in 1 .. N : i - 1 \in S => i \in S
  PROVE  \A i \in 0 .. N : i \in S
<1> SUFFICES ASSUME NEW k \in 0 .. N, k \notin S PROVE FALSE
  OBVIOUS
<1> DEFINE Bad == {i \in 0 .. N : i \notin S}
<1>1. Bad \in SUBSET Nat /\ Bad # {}
  OBVIOUS
<1>2. PICK n \in Bad : \A m \in Bad : n <= m
  <2> HIDE DEF Bad
  <2> QED BY <1>1, LeastNat
<1>3. n \in 1 .. N /\ n - 1 \in 0 .. N /\ ~(n <= n - 1)
  BY <1>2
<1>4. n - 1 \in S
  BY <1>2, <1>3
<1> QED
  BY <1>2, <1>3, <1>4

\* f is what N rounds make of x.
IsRounds(f, N, x, F) ==
  f = [i \in 0 .. N |-> f[i]] /\ f[0] = x /\ \A i \in 1 .. N : f[i] = F[<<f[i - 1], i>>]

\* A loop of N rounds has a result: the function that goes from 0 to N exists.
LEMMA Rounds ==
  ASSUME NEW N \in Nat, NEW x, NEW F
  PROVE  \E f : IsRounds(f, N, x, F)
<1> DEFINE Ok(n, f) == f = [i \in 0 .. n |-> IF i = 0 THEN x ELSE F[<<f[i - 1], i>>]]
           S == {n \in Nat : \E f : Ok(n, f)}
<1>1. 0 \in S
  <2> DEFINE f == [i \in 0 .. 0 |-> x]
  <2>1. Ok(0, f)
    OBVIOUS
  <2> QED
    BY Zenon, <2>1
<1>2. ASSUME NEW i \in 1 .. N, i - 1 \in S
      PROVE  i \in S
  <2>1. PICK f : Ok(i - 1, f)
    BY <1>2
  <2> DEFINE g == [j \in 0 .. i |-> IF j = i THEN F[<<f[i - 1], i>>] ELSE f[j]]
  <2>2. ASSUME NEW j \in 0 .. i
        PROVE  g[j] = IF j = 0 THEN x ELSE F[<<g[j - 1], j>>]
    <3>1. CASE j = i
      <4>1. g[i - 1] = f[i - 1] /\ j # 0 /\ g[j] = F[<<f[i - 1], i>>]
        BY <3>1
      <4> QED
        BY <3>1, <4>1
    <3>2. CASE j # i
      <4>1. j \in 0 .. i - 1 /\ g[j] = f[j] /\ (j # 0 => g[j - 1] = f[j - 1])
        BY <3>2
      <4>2. f[j] = IF j = 0 THEN x ELSE F[<<f[j - 1], j>>]
        BY <2>1, <4>1
      <4> QED
        BY <4>1, <4>2
    <3> QED
      BY <3>1, <3>2
  <2>3. Ok(i, g)
    BY Zenon, <2>2
  <2> HIDE DEF g, Ok
  <2> QED
    BY <2>3
<1> HIDE DEF S
<1>3. \A i \in 0 .. N : i \in S
  BY <1>1, <1>2, UpTo
<1>4. PICK f : Ok(N, f)
  BY <1>3 DEF S
<1> DEFINE g == [i \in 0 .. N |-> IF i = 0 THEN x ELSE F[<<f[i - 1], i>>]]
<1>5. g = [i \in 0 .. N |-> g[i]] /\ g[0] = x /\ \A i \in 1 .. N : g[i] = F[<<f[i - 1], i>>]
  OBVIOUS
<1> HIDE DEF g
<1>6. f = g
  BY <1>4 DEF g
<1>7. IsRounds(f, N, x, F)
  BY Zenon, <1>5, <1>6 DEF IsRounds
<1> QED
  BY <1>7

(***************************************************************************)
(* Sums over finite sets                                                   *)
(***************************************************************************)
\* SumFunctionOnSet is such a sum.
LEMMA SumIs ==
  ASSUME NEW S, IsFiniteSet(S), NEW f, NEW h, IsSum(h, f, S)
  PROVE  SumFunctionOnSet(f, S) = h[S]
<1> DEFINE Ok(g) == g = [s \in SUBSET S |-> IF s = {} THEN 0
                           ELSE f[CHOOSE x \in s : TRUE] + g[s \ {CHOOSE x \in s : TRUE}]]
<1>1. Ok(h)
  <2>1. \A s \in SUBSET S : s # {} => (CHOOSE x \in s : TRUE) \in s
    OBVIOUS
  <2>2. h = [s \in SUBSET S |-> h[s]]
    BY DEF IsSum
  <2>3. ASSUME NEW s \in SUBSET S
        PROVE  h[s] = IF s = {} THEN 0 ELSE f[CHOOSE x \in s : TRUE] + h[s \ {CHOOSE x \in s : TRUE}]
    BY Zenon, <2>1 DEF IsSum
  <2> QED
    BY Zenon, <2>2, <2>3
<1>2. ASSUME NEW g, Ok(g)
      PROVE  g[S] = h[S]
  <2> DEFINE Good == {T \in SUBSET S : g[T] = h[T]}
  <2>1. {} \in Good
    BY <1>2 DEF IsSum
  <2>2. ASSUME NEW T \in SUBSET S, T # {}, \A x \in T : T \ {x} \in Good
        PROVE  T \in Good
    <3>1. PICK x \in T : x = CHOOSE y \in T : TRUE
      BY <2>2
    <3>2. g[T] = f[x] + g[T \ {x}] /\ h[T] = f[x] + h[T \ {x}]
      BY <1>1, <1>2, <2>2, <3>1
    <3>3. g[T \ {x}] = h[T \ {x}]
      BY Zenon, <2>2, <3>1
    <3> QED
      BY <3>2, <3>3
  <2> HIDE DEF Good
  <2>3. \A T \in SUBSET S : T \in Good
    BY <2>1, <2>2, SubsetInduction
  <2> QED
    BY <2>3 DEF Good
<1> DEFINE iter == CHOOSE g : Ok(g)
<1>3. Ok(iter)
  <2> HIDE DEF Ok
  <2> QED BY <1>1
<1>4. SumFunctionOnSet(f, S) = iter[S]
  BY Zenon DEF SumFunctionOnSet, FoldFunctionOnSet, MapThenFoldSet
<1> HIDE DEF iter, Ok
<1> QED
  BY <1>2, <1>3, <1>4

\* The rules by which the sums below are computed.
LEMMA SumRules ==
  ASSUME NEW S, IsFiniteSet(S), NEW f, \A x \in S : f[x] \in Int
  PROVE  /\ SumFunctionOnSet(f, {}) = 0
         /\ \A T \in SUBSET S : /\ SumFunctionOnSet(f, T) \in Int
                                /\ \A x \in T : SumFunctionOnSet(f, T) = f[x] + SumFunctionOnSet(f, T \ {x})
<1>1. PICK h : IsSum(h, f, S)
  BY SumExists
<1>2. ASSUME NEW T \in SUBSET S
      PROVE  SumFunctionOnSet(f, T) = h[T]
  <2> DEFINE g == [X \in SUBSET T |-> h[X]]
  <2>1. IsSum(g, f, T)
    <3>1. \A X \in SUBSET T : X \in SUBSET S /\ h[X] \in Int
      BY <1>1 DEF IsSum
    <3>2. g \in [SUBSET T -> Int] /\ g[{}] = 0
      BY <1>1, <3>1 DEF IsSum
    <3>3. \A X \in SUBSET T : \A x \in X : g[X] = f[x] + g[X \ {x}]
      BY Zenon, <1>1, <3>1 DEF IsSum
    <3> HIDE DEF g
    <3> QED
      BY <3>2, <3>3 DEF IsSum
  <2>2. g[T] = h[T] /\ IsFiniteSet(T)
    BY FiniteSubset
  <2> HIDE DEF g
  <2> QED
    BY <2>1, <2>2, SumIs
<1>3. h[{}] = 0 /\ \A T \in SUBSET S : h[T] \in Int /\ \A x \in T : h[T] = f[x] + h[T \ {x}]
  BY <1>1 DEF IsSum
<1>4. \A T \in SUBSET S : \A x \in T : T \ {x} \in SUBSET S
  OBVIOUS
<1>5. {} \in SUBSET S
  OBVIOUS
<1> QED
  BY <1>2, <1>3, <1>4, <1>5

\* A sum over two sets with nothing in common is the sum of the two sums.
LEMMA SumUnion ==
  ASSUME NEW S, IsFiniteSet(S), NEW f, \A x \in S : f[x] \in Int,
         NEW A \in SUBSET S, NEW B \in SUBSET S, A \intersect B = {}
  PROVE  SumFunctionOnSet(f, A \union B) = SumFunctionOnSet(f, A) + SumFunctionOnSet(f, B)
<1> DEFINE Sum(T) == SumFunctionOnSet(f, T)
           Good == {T \in SUBSET A : Sum(T \union B) = Sum(T) + Sum(B)}
<1>0. /\ Sum({}) = 0
      /\ \A T \in SUBSET S : Sum(T) \in Int /\ \A x \in T : Sum(T) = f[x] + Sum(T \ {x})
  BY SumRules
<1> HIDE DEF Sum
<1>1. {} \in Good
  BY <1>0
<1>2. ASSUME NEW T \in SUBSET A, T # {}, \A x \in T : T \ {x} \in Good
      PROVE  T \in Good
  <2>1. PICK x \in T : Sum((T \ {x}) \union B) = Sum(T \ {x}) + Sum(B)
    BY <1>2
  <2>2. /\ T \union B \in SUBSET S /\ T \in SUBSET S /\ x \in T \union B
        /\ (T \union B) \ {x} = (T \ {x}) \union B
    OBVIOUS
  <2>3. Sum(T \union B) = f[x] + Sum((T \ {x}) \union B)
    BY <1>0, <2>2
  <2>4. Sum(T) = f[x] + Sum(T \ {x}) /\ Sum(T \ {x}) \in Int /\ Sum(B) \in Int /\ f[x] \in Int
    BY <1>0, <2>2
  <2> QED
    BY <2>1, <2>3, <2>4
<1>3. IsFiniteSet(A)
  BY FiniteSubset
<1> HIDE DEF Good
<1>4. \A T \in SUBSET A : T \in Good
  BY Zenon, <1>1, <1>2, <1>3, SubsetInduction
<1> QED
  BY <1>4 DEF Good, Sum

\* A sum depends on the values over the set only.
LEMMA SumSame ==
  ASSUME NEW S, IsFiniteSet(S), NEW f, NEW g, \A x \in S : f[x] \in Int /\ g[x] = f[x]
  PROVE  SumFunctionOnSet(g, S) = SumFunctionOnSet(f, S)
<1> DEFINE Sum(k, T) == SumFunctionOnSet(k, T)
           Good == {T \in SUBSET S : Sum(f, T) = Sum(g, T)}
<1>0. /\ Sum(f, {}) = 0
      /\ \A T \in SUBSET S : Sum(f, T) \in Int /\ \A x \in T : Sum(f, T) = f[x] + Sum(f, T \ {x})
  BY SumRules
<1>1. /\ Sum(g, {}) = 0
      /\ \A T \in SUBSET S : Sum(g, T) \in Int /\ \A x \in T : Sum(g, T) = g[x] + Sum(g, T \ {x})
  BY SumRules
<1> HIDE DEF Sum
<1>2. {} \in Good
  BY <1>0, <1>1
<1>3. ASSUME NEW T \in SUBSET S, T # {}, \A x \in T : T \ {x} \in Good
      PROVE  T \in Good
  <2>1. PICK x \in T : Sum(f, T \ {x}) = Sum(g, T \ {x})
    BY <1>3
  <2>2. Sum(f, T) = f[x] + Sum(f, T \ {x}) /\ Sum(g, T) = g[x] + Sum(g, T \ {x})
    BY <1>0, <1>1
  <2> QED
    BY <2>1, <2>2
<1> HIDE DEF Good
<1>4. \A T \in SUBSET S : T \in Good
  BY Zenon, <1>2, <1>3, SubsetInduction
<1> QED
  BY <1>4 DEF Good, Sum

\* A sum of positive numbers is positive.
LEMMA SumPositive ==
  ASSUME NEW S, IsFiniteSet(S), S # {}, NEW f, \A x \in S : f[x] \in Nat \ {0}
  PROVE  SumFunctionOnSet(f, S) \in Nat \ {0}
<1> DEFINE Sum(T) == SumFunctionOnSet(f, T)
           Good == {T \in SUBSET S : Sum(T) >= 0}
<1>0. /\ Sum({}) = 0
      /\ \A T \in SUBSET S : Sum(T) \in Int /\ \A x \in T : Sum(T) = f[x] + Sum(T \ {x})
  BY SumRules
<1> HIDE DEF Sum
<1>1. {} \in Good
  BY <1>0
<1>2. ASSUME NEW T \in SUBSET S, T # {}, \A x \in T : T \ {x} \in Good
      PROVE  T \in Good
  <2>1. PICK x \in T : Sum(T \ {x}) >= 0
    BY <1>2
  <2>2. Sum(T) = f[x] + Sum(T \ {x}) /\ Sum(T \ {x}) \in Int /\ f[x] \in Nat
    BY <1>0
  <2> QED
    BY <2>1, <2>2
<1> HIDE DEF Good
<1>3. \A T \in SUBSET S : T \in Good
  BY <1>1, <1>2, SubsetInduction
<1>4. PICK x \in S : TRUE
  OBVIOUS
<1>5. Sum(S \ {x}) >= 0 /\ Sum(S \ {x}) \in Int /\ Sum(S) = f[x] + Sum(S \ {x}) /\ f[x] \in Nat \ {0}
  BY <1>0, <1>3, <1>4 DEF Good
<1>6. Sum(S) \in Nat \ {0}
  BY <1>5
<1> QED
  BY <1>6 DEF Sum

(***************************************************************************)
(* Packages                                                                *)
(***************************************************************************)
Pkg == [n : Int, size : Int, fee : Int]

Entry == [feeDelta : Int, parents : SUBSET Tx, children : SUBSET Tx, spendsCoinbase : BOOLEAN,
          anc : Pkg, desc : Pkg]

Outpoints == UNION {Ins(t) : t \in Tx}

Pools == [tx : UNION {[S -> Entry] : S \in SUBSET (Tx \ Coinbase)},
          next : UNION {[O -> Tx] : O \in SUBSET Outpoints},
          delta : [Tx -> Int]]

Mem(p) == DOMAIN p.tx

\* The parts of a pool.
LEMMA PoolType ==
  ASSUME NEW p \in Pools
  PROVE  /\ Mem(p) \in SUBSET Tx /\ Mem(p) \intersect Coinbase = {} /\ IsFiniteSet(Mem(p))
         /\ p.tx \in [Mem(p) -> Entry]
         /\ DOMAIN p.next \in SUBSET Outpoints /\ p.next \in [DOMAIN p.next -> Tx]
         /\ p.delta \in [Tx -> Int]
<1>1. Mem(p) \in SUBSET (Tx \ Coinbase) /\ p.tx \in [Mem(p) -> Entry]
  BY DEF Pools, Mem
<1>2. IsFiniteSet(Mem(p))
  BY <1>1, TxMemPoolConstants, FiniteSubset
<1>3. /\ DOMAIN p.next \in SUBSET Outpoints /\ p.next \in [DOMAIN p.next -> Tx]
      /\ p.delta \in [Tx -> Int]
  BY DEF Pools
<1> QED
  BY <1>1, <1>2, <1>3

\* The fields of an entry.
LEMMA EntryType ==
  ASSUME NEW p \in Pools, NEW t \in Mem(p)
  PROVE  /\ p.tx[t] \in Entry /\ p.tx[t].feeDelta \in Int /\ p.tx[t].parents \in SUBSET Tx
         /\ p.tx[t].children \in SUBSET Tx /\ p.tx[t].spendsCoinbase \in BOOLEAN
         /\ p.tx[t].anc \in Pkg /\ p.tx[t].desc \in Pkg
         /\ t \in Tx /\ Size[t] \in Nat \ {0} /\ ModifiedFee(p, t) \in Int
<1>1. p.tx[t] \in Entry /\ t \in Tx
  BY PoolType
<1>2. Fee[t] \in Nat /\ Size[t] \in Nat \ {0}
  BY <1>1, TxMemPoolConstants
<1> QED
  BY <1>1, <1>2 DEF Entry, ModifiedFee

\* The three parts of a package.
LEMMA PackageParts ==
  ASSUME NEW p \in Pools, NEW S \in SUBSET Mem(p)
  PROVE  /\ IsFiniteSet(S)
         /\ Package(p, S).n = Cardinality(S) /\ Package(p, S).n \in Nat
         /\ Package(p, S).size = SumFunctionOnSet(Size, S) /\ Package(p, S).size \in Int
         /\ Package(p, S).fee = SumFunctionOnSet([t \in Mem(p) |-> ModifiedFee(p, t)], S)
         /\ Package(p, S).fee \in Int
         /\ Package(p, S) \in Pkg
<1>1. IsFiniteSet(S) /\ Cardinality(S) \in Nat
  BY PoolType, FiniteSubset, Counting
<1> DEFINE f == [t \in Mem(p) |-> ModifiedFee(p, t)]
           g == [t \in S |-> ModifiedFee(p, t)]
<1>2. \A t \in S : Size[t] \in Int /\ ModifiedFee(p, t) \in Int
  BY EntryType
<1>3. \A t \in S : f[t] \in Int /\ g[t] = f[t]
  BY <1>2
<1> HIDE DEF f, g
<1>4. SumFunctionOnSet(g, S) = SumFunctionOnSet(f, S)
  BY <1>1, <1>3, SumSame
<1>5. SumFunctionOnSet(f, S) \in Int
  BY <1>1, <1>3, SumRules
<1>6. SumFunctionOnSet(Size, S) \in Int
  BY <1>1, <1>2, SumRules
<1>7. Package(p, S) = [n |-> Cardinality(S), size |-> SumFunctionOnSet(Size, S),
                       fee |-> SumFunctionOnSet(g, S)]
  BY DEF Package, g
<1> QED
  BY <1>1, <1>4, <1>5, <1>6, <1>7 DEF Pkg, f

\* Packages are equal when their parts are.
LEMMA PkgEq ==
  ASSUME NEW x \in Pkg, NEW y \in Pkg, x.n = y.n, x.size = y.size, x.fee = y.fee
  PROVE  x = y
BY DEF Pkg

\* Two packages with nothing in common add up.
LEMMA PackageUnion ==
  ASSUME NEW p \in Pools, NEW A \in SUBSET Mem(p), NEW B \in SUBSET Mem(p), A \intersect B = {}
  PROVE  Package(p, A \union B) = Plus(Package(p, A), Package(p, B))
<1> DEFINE f == [t \in Mem(p) |-> ModifiedFee(p, t)]
<1>1. A \union B \in SUBSET Mem(p) /\ IsFiniteSet(Mem(p))
  BY PoolType
<1>2. \A t \in Mem(p) : Size[t] \in Int /\ f[t] \in Int
  BY EntryType
<1> HIDE DEF f
<1>3. SumFunctionOnSet(Size, A \union B) = SumFunctionOnSet(Size, A) + SumFunctionOnSet(Size, B)
  BY <1>1, <1>2, SumUnion
<1>4. SumFunctionOnSet(f, A \union B) = SumFunctionOnSet(f, A) + SumFunctionOnSet(f, B)
  BY <1>1, <1>2, SumUnion
<1>6. Cardinality(A \union B) = Cardinality(A) + Cardinality(B)
  BY ZenonT(40), <1>1, CountUnion
<1>7. /\ Package(p, A) \in Pkg /\ Package(p, B) \in Pkg /\ Package(p, A \union B) \in Pkg
      /\ Package(p, A \union B).n = Package(p, A).n + Package(p, B).n
      /\ Package(p, A \union B).size = Package(p, A).size + Package(p, B).size
      /\ Package(p, A \union B).fee = Package(p, A).fee + Package(p, B).fee
  BY <1>1, <1>3, <1>4, <1>6, PackageParts DEF f
<1>8. Plus(Package(p, A), Package(p, B)) \in Pkg
  BY <1>7 DEF Plus, Pkg
<1> QED
  BY <1>7, <1>8, PkgEq DEF Plus

\* Plus and Minus are inverse to each other.
LEMMA PkgMinus ==
  ASSUME NEW x \in Pkg, NEW y \in Pkg
  PROVE  Minus(Plus(x, y), y) = x /\ Plus(x, y) \in Pkg /\ Minus(x, y) \in Pkg /\ Plus(x, y) = Plus(y, x)
<1>1. x = [n |-> x.n, size |-> x.size, fee |-> x.fee] /\ x.n \in Int /\ x.size \in Int /\ x.fee \in Int
  BY DEF Pkg
<1>2. y.n \in Int /\ y.size \in Int /\ y.fee \in Int
  BY DEF Pkg
<1> QED
  BY <1>1, <1>2 DEF Plus, Minus, Pkg

\* A package without a part of it.
LEMMA PackageMinus ==
  ASSUME NEW p \in Pools, NEW A \in SUBSET Mem(p), NEW B \in SUBSET A
  PROVE  Package(p, A \ B) = Minus(Package(p, A), Package(p, B))
<1>1. (A \ B) \union B = A /\ (A \ B) \intersect B = {}
      /\ A \ B \in SUBSET Mem(p) /\ B \in SUBSET Mem(p)
  OBVIOUS
<1>2. Package(p, A) = Plus(Package(p, A \ B), Package(p, B))
  BY <1>1, PackageUnion
<1>3. Package(p, A \ B) \in Pkg /\ Package(p, B) \in Pkg
  BY Zenon, <1>1, PackageParts
<1> QED
  BY <1>2, <1>3, PkgMinus

\* The package of a single entry.
LEMMA PackageOne ==
  ASSUME NEW p \in Pools, NEW t \in Mem(p)
  PROVE  Package(p, {t}) = [n |-> 1, size |-> Size[t], fee |-> ModifiedFee(p, t)]
<1> DEFINE f == [u \in Mem(p) |-> ModifiedFee(p, u)]
<1>1. \A u \in Mem(p) : Size[u] \in Int /\ f[u] \in Int
  BY EntryType
<1>2. IsFiniteSet(Mem(p)) /\ {t} \in SUBSET Mem(p) /\ {t} \ {t} = {}
  BY PoolType
<1> HIDE DEF f
<1>3. /\ SumFunctionOnSet(f, {}) = 0
      /\ \A T \in SUBSET Mem(p) : \A x \in T : SumFunctionOnSet(f, T) = f[x] + SumFunctionOnSet(f, T \ {x})
  BY <1>1, <1>2, SumRules
<1>4. /\ SumFunctionOnSet(Size, {}) = 0
      /\ \A T \in SUBSET Mem(p) : \A x \in T : SumFunctionOnSet(Size, T) = Size[x] + SumFunctionOnSet(Size, T \ {x})
  BY <1>1, <1>2, SumRules
<1>5. SumFunctionOnSet(f, {t}) = f[t] /\ SumFunctionOnSet(Size, {t}) = Size[t]
  BY <1>1, <1>2, <1>3, <1>4
<1>6. Cardinality({t}) = 1
  <2>1. /\ Cardinality({}) = 0
        /\ \A T \in SUBSET Mem(p) : \A x \in T : Cardinality(T) = 1 + Cardinality(T \ {x})
    BY <1>2, Counting
  <2> QED
    BY <1>2, <2>1
<1>7. f[t] = ModifiedFee(p, t)
  BY DEF f
<1>8. Package(p, {t}).n = 1 /\ Package(p, {t}).size = Size[t] /\ Package(p, {t}).fee = ModifiedFee(p, t)
      /\ Package(p, {t}) \in Pkg
  BY <1>2, <1>5, <1>6, <1>7, PackageParts DEF f
<1> QED
  BY <1>8 DEF Pkg

\* A package that is not empty has a positive number and size.
LEMMA PackagePositive ==
  ASSUME NEW p \in Pools, NEW S \in SUBSET Mem(p), S # {}
  PROVE  Package(p, S).n \in Nat \ {0} /\ Package(p, S).size \in Nat \ {0}
<1>1. IsFiniteSet(S) /\ \A t \in S : Size[t] \in Nat \ {0}
  BY Zenon, PackageParts, EntryType
<1>2. SumFunctionOnSet(Size, S) \in Nat \ {0}
  BY <1>1, SumPositive
<1>3. Cardinality(S) # 0
  <2>1. S \in SUBSET S /\ \A x \in S : S \ {x} \in SUBSET S
    OBVIOUS
  <2>2. \A T \in SUBSET S : Cardinality(T) \in Nat /\ \A x \in T : Cardinality(T) = 1 + Cardinality(T \ {x})
    BY <1>1, Counting
  <2>3. PICK x \in S : TRUE
    OBVIOUS
  <2>4. Cardinality(S) = 1 + Cardinality(S \ {x}) /\ Cardinality(S \ {x}) \in Nat
    BY Zenon, <2>1, <2>2
  <2> QED
    BY <2>4
<1> QED
  BY Zenon, <1>2, <1>3, PackageParts

\* A package depends on the fee deltas of its entries only.
LEMMA PackageSame ==
  ASSUME NEW p \in Pools, NEW q \in Pools, NEW S \in SUBSET (Mem(p) \intersect Mem(q)),
         \A t \in S : q.tx[t].feeDelta = p.tx[t].feeDelta
  PROVE  Package(q, S) = Package(p, S)
<1> DEFINE f == [t \in Mem(p) |-> ModifiedFee(p, t)]
           g == [t \in Mem(q) |-> ModifiedFee(q, t)]
<1>1. IsFiniteSet(S) /\ \A t \in S : f[t] \in Int /\ g[t] = f[t]
  BY Zenon, PackageParts, EntryType DEF ModifiedFee
<1> HIDE DEF f, g
<1>2. SumFunctionOnSet(g, S) = SumFunctionOnSet(f, S)
  BY <1>1, SumSame
<1>3. /\ Package(p, S).n = Package(q, S).n /\ Package(p, S).size = Package(q, S).size
      /\ Package(p, S).fee = Package(q, S).fee /\ Package(p, S) \in Pkg /\ Package(q, S) \in Pkg
  BY <1>2, PackageParts DEF f, g
<1> QED
  BY <1>3, PkgEq

(***************************************************************************)
(* Reachability                                                            *)
(***************************************************************************)
\* What is reached contains the start, and no link leads out of it.
LEMMA ReachIn ==
  ASSUME NEW p, NEW S \in SUBSET Mem(p), NEW kind,
         \A t \in Mem(p) : p.tx[t][kind] \subseteq Mem(p)
  PROVE  /\ Reachable(p, S, kind) \in SUBSET Mem(p) /\ S \subseteq Reachable(p, S, kind)
         /\ \A t \in Reachable(p, S, kind) : p.tx[t][kind] \subseteq Reachable(p, S, kind)
BY DEF Reachable, Mem

\* It is the least such set.
LEMMA ReachLeast ==
  ASSUME NEW p, NEW S, NEW kind, NEW C \in SUBSET Mem(p), S \subseteq C,
         \A t \in C : p.tx[t][kind] \subseteq C
  PROVE  Reachable(p, S, kind) \subseteq C
BY DEF Reachable, Mem

\* The links stay within the pool, and those to parents and to children agree.
Linked(p) ==
  \A t \in Mem(p) : /\ p.tx[t].parents \subseteq Mem(p) /\ p.tx[t].children \subseteq Mem(p)
                    /\ \A u \in Mem(p) : u \in p.tx[t].children <=> t \in p.tx[u].parents

Down(p, t) == CalculateDescendants(p, {t})

\* What ReachIn and ReachLeast say of the descendants.
LEMMA DownIn ==
  ASSUME NEW p, Linked(p), NEW S \in SUBSET Mem(p)
  PROVE  /\ CalculateDescendants(p, S) \in SUBSET Mem(p) /\ S \subseteq CalculateDescendants(p, S)
         /\ \A t \in CalculateDescendants(p, S) : p.tx[t].children \subseteq CalculateDescendants(p, S)
<1>1. \A t \in Mem(p) : p.tx[t]["children"] \subseteq Mem(p)
  BY DEF Linked
<1> QED
  BY <1>1, ReachIn DEF CalculateDescendants

\* The same of one entry.
LEMMA DownOne ==
  ASSUME NEW p, Linked(p), NEW t \in Mem(p)
  PROVE  /\ Down(p, t) \in SUBSET Mem(p) /\ t \in Down(p, t)
         /\ \A u \in Down(p, t) : p.tx[u].children \subseteq Down(p, t)
<1>1. {t} \in SUBSET Mem(p)
  OBVIOUS
<1> QED
  BY Zenon, <1>1, DownIn DEF Down

\* No smaller set has them.
LEMMA DownLeast ==
  ASSUME NEW p, NEW S, NEW C \in SUBSET Mem(p), S \subseteq C,
         \A t \in C : p.tx[t].children \subseteq C
  PROVE  CalculateDescendants(p, S) \subseteq C
BY ReachLeast DEF CalculateDescendants

\* What they say of the ancestors.
LEMMA UpIn ==
  ASSUME NEW p, Linked(p), NEW t \in Mem(p)
  PROVE  /\ Ancestors(p, t) \in SUBSET Mem(p) /\ p.tx[t].parents \subseteq Ancestors(p, t)
         /\ \A a \in Ancestors(p, t) : p.tx[a].parents \subseteq Ancestors(p, t)
<1>1. \A u \in Mem(p) : p.tx[u]["parents"] \subseteq Mem(p)
  BY DEF Linked
<1>2. p.tx[t].parents \in SUBSET Mem(p)
  BY DEF Linked
<1> QED
  BY <1>1, <1>2, ReachIn DEF Ancestors

\* Nor for the ancestors.
LEMMA UpLeast ==
  ASSUME NEW p, NEW t, NEW C \in SUBSET Mem(p), p.tx[t].parents \subseteq C,
         \A a \in C : p.tx[a].parents \subseteq C
  PROVE  Ancestors(p, t) \subseteq C
BY ReachLeast DEF Ancestors

\* The descendants of a descendant are descendants.
LEMMA DownTrans ==
  ASSUME NEW p, Linked(p), NEW S \in SUBSET Mem(p), NEW t \in CalculateDescendants(p, S)
  PROVE  Down(p, t) \subseteq CalculateDescendants(p, S)
<1>1. /\ CalculateDescendants(p, S) \in SUBSET Mem(p)
      /\ \A u \in CalculateDescendants(p, S) : p.tx[u].children \subseteq CalculateDescendants(p, S)
  BY DownIn
<1>2. {t} \subseteq CalculateDescendants(p, S)
  OBVIOUS
<1> QED
  BY <1>1, <1>2, DownLeast DEF Down

\* The ancestors of an ancestor are ancestors.
LEMMA UpTrans ==
  ASSUME NEW p, Linked(p), NEW t \in Mem(p), NEW a \in Ancestors(p, t)
  PROVE  Ancestors(p, a) \subseteq Ancestors(p, t)
<1>1. /\ Ancestors(p, t) \in SUBSET Mem(p)
      /\ \A b \in Ancestors(p, t) : p.tx[b].parents \subseteq Ancestors(p, t)
  BY UpIn
<1> QED
  BY <1>1, UpLeast

\* u is an ancestor of r when r is a descendant of u.
LEMMA Dual ==
  ASSUME NEW p, Linked(p), NEW u \in Mem(p), NEW r \in Mem(p), r # u
  PROVE  u \in Ancestors(p, r) <=> r \in Down(p, u)
<1>1. r \in Down(p, u) => u \in Ancestors(p, r)
  <2> DEFINE C == {c \in Mem(p) : c = u \/ u \in Ancestors(p, c)}
  <2>1. ASSUME NEW c \in C, NEW d \in p.tx[c].children
        PROVE  d \in C
    <3>1. c \in Mem(p) /\ d \in Mem(p) /\ c \in p.tx[d].parents
      BY DEF Linked
    <3>2. c \in Ancestors(p, d)
      BY <3>1, UpIn
    <3>3. Ancestors(p, c) \subseteq Ancestors(p, d)
      BY <3>1, <3>2, UpTrans
    <3> QED
      BY <3>1, <3>2, <3>3
  <2>2. C \in SUBSET Mem(p) /\ {u} \subseteq C /\ \A c \in C : p.tx[c].children \subseteq C
    BY <2>1
  <2> HIDE DEF C
  <2>3. Down(p, u) \subseteq C
    BY <2>2, DownLeast DEF Down
  <2> QED
    BY <2>3 DEF C
<1>2. u \in Ancestors(p, r) => r \in Down(p, u)
  <2> DEFINE C == {c \in Mem(p) : r \in Down(p, c)}
  <2>1. ASSUME NEW c \in Mem(p), NEW d \in Mem(p), d \in p.tx[c].parents, r \in Down(p, c)
        PROVE  r \in Down(p, d)
    <3>1. c \in p.tx[d].children
      BY <2>1 DEF Linked
    <3>2. d \in Down(p, d) /\ c \in Down(p, d)
      BY <3>1, DownIn DEF Down
    <3>3. Down(p, c) \subseteq Down(p, d)
      BY <3>2, DownTrans DEF Down
    <3> QED
      BY <2>1, <3>3
  <2>2. r \in Down(p, r)
    BY DownIn DEF Down
  <2>3. p.tx[r].parents \subseteq Mem(p) /\ \A c \in Mem(p) : p.tx[c].parents \subseteq Mem(p)
    BY DEF Linked
  <2>4. C \in SUBSET Mem(p) /\ p.tx[r].parents \subseteq C /\ \A c \in C : p.tx[c].parents \subseteq C
    BY <2>1, <2>2, <2>3
  <2> HIDE DEF C
  <2>5. Ancestors(p, r) \subseteq C
    BY <2>4, UpLeast
  <2> QED
    BY <2>5 DEF C
<1> QED
  BY <1>1, <1>2

(***************************************************************************)
(* Removing entries                                                        *)
(***************************************************************************)
\* What RemoveStaged does to the parts of the pool and of an entry that stays.
Staged(p, q, S, upd) ==
  /\ q \in Pools /\ Mem(q) = Mem(p) \ S /\ q.delta = p.delta
  /\ DOMAIN q.next = DOMAIN p.next \ UNION {Ins(r) : r \in S}
  /\ \A o \in DOMAIN q.next : q.next[o] = p.next[o]
  /\ \A u \in Mem(q) :
       /\ q.tx[u].feeDelta = p.tx[u].feeDelta
       /\ q.tx[u].spendsCoinbase = p.tx[u].spendsCoinbase
       /\ q.tx[u].children = p.tx[u].children \ S
       /\ q.tx[u].parents = p.tx[u].parents \ S
       /\ q.tx[u].desc = Minus(p.tx[u].desc, Package(p, {r \in S : u \in Ancestors(p, r)}))
       /\ q.tx[u].anc = IF upd THEN Minus(p.tx[u].anc, Package(p, {r \in S : u \in Down(p, r)}))
                        ELSE p.tx[u].anc

LEMMA StagedParts ==
  ASSUME NEW p \in Pools, Linked(p), NEW S \in SUBSET Mem(p), NEW upd \in BOOLEAN
  PROVE  Staged(p, RemoveStaged(p, S, upd), S, upd)
<1> DEFINE q == RemoveStaged(p, S, upd)
           below == [r \in S |-> CalculateDescendants(p, {r})]
           above == [r \in S |-> Ancestors(p, r)]
           Updated(u) ==
             [p.tx[u] EXCEPT
                !.anc = IF upd THEN Minus(@, Package(p, {r \in S : u \in below[r]})) ELSE @,
                !.desc = Minus(@, Package(p, {r \in S : u \in above[r]})),
                !.children = @ \ {r \in S : u \in p.tx[r].parents},
                !.parents = @ \ {r \in S : u \in p.tx[r].children}]
           N == DOMAIN p.next \ UNION {Ins(r) : r \in S}
<1>1. q = [p EXCEPT !.tx = [u \in DOMAIN p.tx \ S |-> Updated(u)], !.next = Restrict(p.next, N)]
  BY DEF RemoveStaged
<1>2. ASSUME NEW u \in Mem(p) \ S
      PROVE  /\ Updated(u) \in Entry
             /\ Updated(u).feeDelta = p.tx[u].feeDelta
             /\ Updated(u).spendsCoinbase = p.tx[u].spendsCoinbase
             /\ Updated(u).children = p.tx[u].children \ S
             /\ Updated(u).parents = p.tx[u].parents \ S
             /\ Updated(u).desc = Minus(p.tx[u].desc, Package(p, {r \in S : u \in Ancestors(p, r)}))
             /\ Updated(u).anc = IF upd THEN Minus(p.tx[u].anc, Package(p, {r \in S : u \in Down(p, r)}))
                                 ELSE p.tx[u].anc
  <2>1. p.tx[u] \in Entry /\ p.tx[u].anc \in Pkg /\ p.tx[u].desc \in Pkg
    BY EntryType
  <2>2. /\ {r \in S : u \in below[r]} = {r \in S : u \in Down(p, r)}
        /\ {r \in S : u \in above[r]} = {r \in S : u \in Ancestors(p, r)}
    BY DEF Down
  <2>3. /\ {r \in S : u \in Down(p, r)} \in SUBSET Mem(p)
        /\ {r \in S : u \in Ancestors(p, r)} \in SUBSET Mem(p)
    OBVIOUS
  <2> DEFINE a == Package(p, {r \in S : u \in Down(p, r)})
             d == Package(p, {r \in S : u \in Ancestors(p, r)})
  <2>4. a \in Pkg /\ d \in Pkg
    BY Zenon, <2>3, PackageParts
  <2>5. Minus(p.tx[u].anc, a) \in Pkg /\ Minus(p.tx[u].desc, d) \in Pkg
    BY <2>1, <2>4, PkgMinus
  <2>6. /\ p.tx[u].children \ {r \in S : u \in p.tx[r].parents} = p.tx[u].children \ S
        /\ p.tx[u].parents \ {r \in S : u \in p.tx[r].children} = p.tx[u].parents \ S
    BY DEF Linked
  <2>7. Updated(u) = [p.tx[u] EXCEPT !.anc = IF upd THEN Minus(@, a) ELSE @, !.desc = Minus(@, d),
                                     !.children = @ \ S, !.parents = @ \ S]
    BY Zenon, <2>1, <2>2, <2>6 DEF Entry
  <2> HIDE DEF a, d, Updated
  <2>8. Updated(u) \in Entry
    <3>1. (IF upd THEN Minus(p.tx[u].anc, a) ELSE p.tx[u].anc) \in Pkg
      BY <2>1, <2>5
    <3>2. p.tx[u].children \ S \in SUBSET Tx /\ p.tx[u].parents \ S \in SUBSET Tx
      BY <2>1 DEF Entry
    <3> QED
      BY Zenon, <2>1, <2>5, <2>7, <3>1, <3>2 DEF Entry
  <2>9. /\ Updated(u).feeDelta = p.tx[u].feeDelta
        /\ Updated(u).spendsCoinbase = p.tx[u].spendsCoinbase
        /\ Updated(u).children = p.tx[u].children \ S
        /\ Updated(u).parents = p.tx[u].parents \ S
        /\ Updated(u).desc = Minus(p.tx[u].desc, d)
        /\ Updated(u).anc = IF upd THEN Minus(p.tx[u].anc, a) ELSE p.tx[u].anc
    BY <2>1, <2>7 DEF Entry
  <2> QED
    BY Zenon, <2>8, <2>9 DEF a, d
<1> HIDE DEF Updated
<1>3. Restrict(p.next, N) = [o \in N |-> p.next[o]]
  BY DEF Restrict
<1>4. p = [tx |-> p.tx, next |-> p.next, delta |-> p.delta] /\ Mem(p) \in SUBSET (Tx \ Coinbase)
  BY PoolType DEF Pools
<1>5. /\ q.tx = [u \in Mem(p) \ S |-> Updated(u)] /\ q.next = [o \in N |-> p.next[o]]
      /\ q.delta = p.delta
      /\ q = [tx |-> q.tx, next |-> q.next, delta |-> q.delta]
  BY Zenon, <1>1, <1>3, <1>4 DEF Mem
<1>6. q.tx \in [Mem(p) \ S -> Entry] /\ q.next \in [N -> Tx] /\ q.delta \in [Tx -> Int]
      /\ Mem(p) \ S \in SUBSET (Tx \ Coinbase) /\ N \in SUBSET Outpoints
  <2>1. q.tx \in [Mem(p) \ S -> Entry]
    <3>1. \A u \in Mem(p) \ S : Updated(u) \in Entry
      BY Zenon, <1>2
    <3> QED
      BY <1>5, <3>1
  <2>2. N \in SUBSET Outpoints /\ (\A o \in N : p.next[o] \in Tx) /\ p.delta \in [Tx -> Int]
    BY PoolType
  <2> QED
    BY <1>4, <1>5, <2>1, <2>2
<1> HIDE DEF q, N
<1>7. q \in Pools
  BY <1>5, <1>6 DEF Pools
<1>8. Mem(q) = Mem(p) \ S
  BY <1>6 DEF Mem
<1> QED
  BY ZenonT(40), <1>2, <1>5, <1>7, <1>8 DEF q, N, Staged

\* The packages that an entry accounts for are those its links lead to.
Counted(p) ==
  \A t \in Mem(p) : /\ p.tx[t].anc = Package(p, {t} \union Ancestors(p, t))
                    /\ p.tx[t].desc = Package(p, Down(p, t))

\* mapNextTx has the inputs of the entries, each spent by one entry.
NextOk(p) ==
  /\ DOMAIN p.next = UNION {Ins(t) : t \in Mem(p)}
  /\ \A t \in Mem(p) : \A o \in Ins(t) : p.next[o] = t

Fine(p) == p \in Pools /\ Linked(p) /\ Counted(p) /\ NextOk(p)

\* S is a set of entries with all their descendants.
DownClosed(p, S) == S \in SUBSET Mem(p) /\ \A t \in S : p.tx[t].children \subseteq S

\* q is p without the entries of G.
Less(p, q, G) ==
  /\ Fine(q) /\ Mem(q) = Mem(p) \ G /\ q.delta = p.delta
  /\ \A u \in Mem(q) : /\ q.tx[u].feeDelta = p.tx[u].feeDelta
                       /\ q.tx[u].spendsCoinbase = p.tx[u].spendsCoinbase
                       /\ q.tx[u].children = p.tx[u].children \ G

\* Along the links nobody above S comes from S.
LEMMA UpOutside ==
  ASSUME NEW p, Linked(p), NEW S, DownClosed(p, S), NEW u \in Mem(p) \ S
  PROVE  Ancestors(p, u) \intersect S = {} /\ p.tx[u].parents \intersect S = {}
<1> DEFINE C == Mem(p) \ S
<1>1. \A a \in C : p.tx[a].parents \subseteq C
  BY DEF Linked, DownClosed
<1>2. C \in SUBSET Mem(p) /\ p.tx[u].parents \subseteq C
  BY <1>1
<1> HIDE DEF C
<1>3. Ancestors(p, u) \subseteq C
  BY <1>1, <1>2, UpLeast
<1> QED
  BY <1>2, <1>3 DEF C

\* Removing a set of entries with all their descendants, as RemoveStaged does when
\* it does not update the descendants, leaves the rest in order.
LEMMA RemoveClosed ==
  ASSUME NEW p, Fine(p), NEW S, DownClosed(p, S)
  PROVE  Less(p, RemoveStaged(p, S, FALSE), S)
<1> DEFINE q == RemoveStaged(p, S, FALSE)
<1>1. p \in Pools /\ Linked(p) /\ Counted(p) /\ NextOk(p) /\ S \in SUBSET Mem(p)
  BY DEF Fine, DownClosed
<1>a. /\ q \in Pools /\ Mem(q) = Mem(p) \ S /\ q.delta = p.delta
      /\ DOMAIN q.next = DOMAIN p.next \ UNION {Ins(r) : r \in S}
      /\ \A o \in DOMAIN q.next : q.next[o] = p.next[o]
      /\ \A u \in Mem(q) :
           /\ q.tx[u].feeDelta = p.tx[u].feeDelta
           /\ q.tx[u].spendsCoinbase = p.tx[u].spendsCoinbase
           /\ q.tx[u].children = p.tx[u].children \ S
           /\ q.tx[u].parents = p.tx[u].parents \ S
           /\ q.tx[u].desc = Minus(p.tx[u].desc, Package(p, {r \in S : u \in Ancestors(p, r)}))
           /\ q.tx[u].anc = IF FALSE THEN Minus(p.tx[u].anc, Package(p, {r \in S : u \in Down(p, r)}))
                            ELSE p.tx[u].anc
  <2>1. Staged(p, q, S, FALSE)
    BY Zenon, <1>1, StagedParts
  <2> QED
    BY Zenon, <2>1 DEF Staged
<1> HIDE DEF q
<1>2. q \in Pools /\ Mem(q) = Mem(p) \ S /\ q.delta = p.delta
  BY <1>a
<1>b. /\ DOMAIN q.next = DOMAIN p.next \ UNION {Ins(r) : r \in S}
      /\ \A o \in DOMAIN q.next : q.next[o] = p.next[o]
  BY <1>a
<1>c. \A u \in Mem(q) : q.tx[u].children = p.tx[u].children \ S
  BY Zenon, <1>a
<1>d. \A u \in Mem(q) : /\ q.tx[u].feeDelta = p.tx[u].feeDelta
                        /\ q.tx[u].spendsCoinbase = p.tx[u].spendsCoinbase
  BY Zenon, <1>a
<1>e. \A u \in Mem(q) :
        /\ q.tx[u].desc = Minus(p.tx[u].desc, Package(p, {r \in S : u \in Ancestors(p, r)}))
        /\ q.tx[u].anc = p.tx[u].anc
  BY Zenon, <1>a
<1>3. \A u \in Mem(q) : q.tx[u].parents = p.tx[u].parents
  <2>1. \A u \in Mem(q) : q.tx[u].parents = p.tx[u].parents \ S
    BY Zenon, <1>a
  <2>2. \A u \in Mem(q) : p.tx[u].parents \intersect S = {}
    BY <1>1, <1>2, UpOutside
  <2> QED
    BY Zenon, <2>1, <2>2
<1>4. Linked(q)
  <2>1. ASSUME NEW t \in Mem(q)
        PROVE  /\ q.tx[t].parents \subseteq Mem(q) /\ q.tx[t].children \subseteq Mem(q)
               /\ \A u \in Mem(q) : u \in q.tx[t].children <=> t \in q.tx[u].parents
    <3>1. t \in Mem(p) /\ t \notin S /\ p.tx[t].parents \intersect S = {}
      BY <1>1, <1>2, UpOutside
    <3> QED
      BY <1>1, <1>2, <1>3, <1>c, <3>1 DEF Linked
  <2> QED
    BY <2>1 DEF Linked
<1>5. NextOk(q)
  <2>1. DOMAIN q.next = UNION {Ins(t) : t \in Mem(q)}
    BY <1>1, <1>2, <1>b DEF NextOk
  <2> QED
    BY <1>1, <1>2, <1>b, <2>1 DEF NextOk
<1>6. ASSUME NEW u \in Mem(q)
      PROVE  Ancestors(q, u) = Ancestors(p, u)
  <2>1. u \in Mem(p) /\ u \in Mem(q)
    BY <1>2
  <2>2. Ancestors(p, u) \subseteq Mem(q)
    BY <1>1, <1>2, <2>1, UpOutside, UpIn
  <2>3. Ancestors(q, u) \subseteq Ancestors(p, u)
    <3>1. /\ Ancestors(p, u) \in SUBSET Mem(q) /\ q.tx[u].parents \subseteq Ancestors(p, u)
          /\ \A a \in Ancestors(p, u) : q.tx[a].parents \subseteq Ancestors(p, u)
      BY <1>1, <1>3, <2>1, <2>2, UpIn
    <3> QED
      BY <3>1, UpLeast
  <2>4. Ancestors(p, u) \subseteq Ancestors(q, u)
    <3>1. /\ Ancestors(q, u) \in SUBSET Mem(q) /\ q.tx[u].parents \subseteq Ancestors(q, u)
          /\ \A a \in Ancestors(q, u) : q.tx[a].parents \subseteq Ancestors(q, u)
      BY <1>4, <2>1, UpIn
    <3>2. /\ Ancestors(q, u) \in SUBSET Mem(p) /\ p.tx[u].parents \subseteq Ancestors(q, u)
          /\ \A a \in Ancestors(q, u) : p.tx[a].parents \subseteq Ancestors(q, u)
      BY <1>2, <1>3, <3>1
    <3> QED
      BY <3>2, UpLeast
  <2> QED
    BY <2>3, <2>4
<1>7. ASSUME NEW u \in Mem(q)
      PROVE  Down(q, u) = Down(p, u) \ S
  <2>1. u \in Mem(p) /\ u \notin S
    BY <1>2
  <2>2. /\ Down(p, u) \in SUBSET Mem(p) /\ u \in Down(p, u)
        /\ \A t \in Down(p, u) : p.tx[t].children \subseteq Down(p, u)
    BY Zenon, <1>1, <2>1, DownIn DEF Down
  <2>3. /\ Down(q, u) \in SUBSET Mem(q) /\ u \in Down(q, u)
        /\ \A t \in Down(q, u) : q.tx[t].children \subseteq Down(q, u)
    BY Zenon, <1>4, DownIn DEF Down
  <2>4. Down(q, u) \subseteq Down(p, u) \ S
    <3> DEFINE C == Down(p, u) \ S
    <3>1. C \in SUBSET Mem(q) /\ {u} \subseteq C /\ \A t \in C : q.tx[t].children \subseteq C
      BY <1>2, <1>c, <2>1, <2>2
    <3> HIDE DEF C
    <3>2. Down(q, u) \subseteq C
      BY <3>1, DownLeast DEF Down
    <3> QED
      BY <3>2 DEF C
  <2>5. Down(p, u) \subseteq Down(q, u) \union S
    <3>1. /\ Down(q, u) \union S \in SUBSET Mem(p) /\ {u} \subseteq Down(q, u) \union S
          /\ \A t \in Down(q, u) \union S : p.tx[t].children \subseteq Down(q, u) \union S
      BY <1>2, <1>c, <2>1, <2>3 DEF DownClosed
    <3> QED
      BY Zenon, <3>1, DownLeast DEF Down
  <2> QED
    BY <2>4, <2>5
<1>8. ASSUME NEW u \in Mem(q)
      PROVE  /\ q.tx[u].anc = Package(q, {u} \union Ancestors(q, u))
             /\ q.tx[u].desc = Package(q, Down(q, u))
  <2>1. u \in Mem(p) /\ u \notin S
    BY <1>2
  <2>2. Ancestors(q, u) \in SUBSET Mem(q) /\ Down(q, u) \in SUBSET Mem(q) /\ Down(p, u) \in SUBSET Mem(p)
    BY <1>1, <1>4, <2>1, UpIn, DownIn DEF Down
  <2>3. ASSUME NEW T \in SUBSET Mem(q)
        PROVE  Package(q, T) = Package(p, T)
    <3>1. T \in SUBSET (Mem(p) \intersect Mem(q)) /\ \A t \in T : q.tx[t].feeDelta = p.tx[t].feeDelta
      BY <1>2, <1>d
    <3> QED
      BY <1>1, <1>2, <3>1, PackageSame
  <2>4. q.tx[u].anc = Package(q, {u} \union Ancestors(q, u))
    <3>1. {u} \union Ancestors(q, u) \in SUBSET Mem(q)
      BY <2>2
    <3>2. p.tx[u].anc = Package(p, {u} \union Ancestors(p, u))
      BY <1>1, <2>1 DEF Counted
    <3> QED
      BY Zenon, <1>e, <1>6, <2>3, <3>1, <3>2
  <2>5. {r \in S : u \in Ancestors(p, r)} = Down(p, u) \intersect S
    BY <1>1, <2>1, Dual
  <2>6. p.tx[u].desc = Package(p, Down(p, u))
    BY Zenon, <1>1, <2>1 DEF Counted
  <2>7. Package(p, Down(p, u) \ (Down(p, u) \intersect S))
          = Minus(Package(p, Down(p, u)), Package(p, Down(p, u) \intersect S))
    BY <1>1, <2>2, PackageMinus
  <2>8. Down(p, u) \ (Down(p, u) \intersect S) = Down(q, u)
    BY <1>7
  <2> QED
    BY Zenon, <1>e, <2>2, <2>3, <2>4, <2>5, <2>6, <2>7, <2>8
<1>9. Fine(q)
  BY <1>2, <1>4, <1>5, <1>8 DEF Fine, Counted
<1>10. Less(p, q, S)
  BY <1>2, <1>c, <1>d, <1>9 DEF Less
<1> QED
  BY Zenon, <1>10 DEF q

\* Removing an entry without parents in the pool, as RemoveStaged does for a
\* transaction that a block confirms, leaves its descendants in order.
LEMMA RemoveTop ==
  ASSUME NEW p, Fine(p), NEW t \in Mem(p), p.tx[t].parents = {}
  PROVE  Less(p, RemoveStaged(p, {t}, TRUE), {t})
<1> DEFINE q == RemoveStaged(p, {t}, TRUE)
<1>1. p \in Pools /\ Linked(p) /\ Counted(p) /\ NextOk(p)
  BY DEF Fine
<1>a. /\ q \in Pools /\ Mem(q) = Mem(p) \ {t} /\ q.delta = p.delta
      /\ DOMAIN q.next = DOMAIN p.next \ UNION {Ins(r) : r \in {t}}
      /\ \A o \in DOMAIN q.next : q.next[o] = p.next[o]
      /\ \A u \in Mem(q) :
           /\ q.tx[u].feeDelta = p.tx[u].feeDelta
           /\ q.tx[u].spendsCoinbase = p.tx[u].spendsCoinbase
           /\ q.tx[u].children = p.tx[u].children \ {t}
           /\ q.tx[u].parents = p.tx[u].parents \ {t}
           /\ q.tx[u].desc = Minus(p.tx[u].desc, Package(p, {r \in {t} : u \in Ancestors(p, r)}))
           /\ q.tx[u].anc = IF TRUE THEN Minus(p.tx[u].anc, Package(p, {r \in {t} : u \in Down(p, r)}))
                            ELSE p.tx[u].anc
  <2>1. {t} \in SUBSET Mem(p)
    OBVIOUS
  <2>2. Staged(p, q, {t}, TRUE)
    BY Zenon, <1>1, <2>1, StagedParts
  <2> QED
    BY Zenon, <2>2 DEF Staged
<1> HIDE DEF q
<1>2. q \in Pools /\ Mem(q) = Mem(p) \ {t} /\ q.delta = p.delta
  BY Zenon, <1>a
<1>b. /\ DOMAIN q.next = DOMAIN p.next \ Ins(t)
      /\ \A o \in DOMAIN q.next : q.next[o] = p.next[o]
  BY <1>a
<1>c. \A u \in Mem(q) : q.tx[u].children = p.tx[u].children /\ t \notin p.tx[u].children
  <2>1. \A u \in Mem(q) : q.tx[u].children = p.tx[u].children \ {t}
    BY Zenon, <1>a
  <2>2. \A u \in Mem(q) : t \notin p.tx[u].children
    BY Zenon, <1>1, <1>2 DEF Linked
  <2> QED
    BY Zenon, <2>1, <2>2
<1>d. \A u \in Mem(q) : /\ q.tx[u].feeDelta = p.tx[u].feeDelta
                        /\ q.tx[u].spendsCoinbase = p.tx[u].spendsCoinbase
  BY Zenon, <1>a
<1>e. \A u \in Mem(q) :
        /\ q.tx[u].desc = Minus(p.tx[u].desc, Package(p, {r \in {t} : u \in Ancestors(p, r)}))
        /\ q.tx[u].anc = Minus(p.tx[u].anc, Package(p, {r \in {t} : u \in Down(p, r)}))
  BY Zenon, <1>a
<1>3. \A u \in Mem(q) : q.tx[u].parents = p.tx[u].parents \ {t}
  BY Zenon, <1>a
<1>4. Linked(q)
  <2>1. ASSUME NEW v \in Mem(q)
        PROVE  /\ q.tx[v].parents \subseteq Mem(q) /\ q.tx[v].children \subseteq Mem(q)
               /\ \A u \in Mem(q) : u \in q.tx[v].children <=> v \in q.tx[u].parents
    BY <1>1, <1>2, <1>3, <1>c DEF Linked
  <2> QED
    BY Zenon, <2>1 DEF Linked
<1>5. NextOk(q)
  <2>1. DOMAIN q.next = UNION {Ins(v) : v \in Mem(q)}
    BY <1>1, <1>2, <1>b DEF NextOk
  <2> QED
    BY Zenon, <1>1, <1>2, <1>b, <2>1 DEF NextOk
<1>6. ASSUME NEW u \in Mem(q)
      PROVE  Ancestors(q, u) = Ancestors(p, u) \ {t}
  <2>1. u \in Mem(p)
    BY <1>2
  <2>2. Ancestors(q, u) \subseteq Ancestors(p, u) \ {t}
    <3> DEFINE C == Ancestors(p, u) \ {t}
    <3>1. /\ C \in SUBSET Mem(q) /\ q.tx[u].parents \subseteq C
          /\ \A a \in C : q.tx[a].parents \subseteq C
      BY <1>1, <1>2, <1>3, <2>1, UpIn
    <3> HIDE DEF C
    <3>2. Ancestors(q, u) \subseteq C
      BY <3>1, UpLeast
    <3> QED
      BY <3>2 DEF C
  <2>3. Ancestors(p, u) \subseteq Ancestors(q, u) \union {t}
    <3> DEFINE C == Ancestors(q, u) \union {t}
    <3>1. /\ Ancestors(q, u) \in SUBSET Mem(q) /\ q.tx[u].parents \subseteq Ancestors(q, u)
          /\ \A a \in Ancestors(q, u) : q.tx[a].parents \subseteq Ancestors(q, u)
      BY <1>4, UpIn
    <3>2. C \in SUBSET Mem(p) /\ p.tx[u].parents \subseteq C /\ \A a \in C : p.tx[a].parents \subseteq C
      BY <1>2, <1>3, <3>1
    <3> HIDE DEF C
    <3>3. Ancestors(p, u) \subseteq C
      BY <3>2, UpLeast
    <3> QED
      BY <3>3 DEF C
  <2>4. Ancestors(q, u) \subseteq Mem(q)
    BY <1>4, UpIn
  <2> QED
    BY <1>2, <2>2, <2>3, <2>4
<1>7. ASSUME NEW u \in Mem(q)
      PROVE  Down(q, u) = Down(p, u)
  <2>1. u \in Mem(p)
    BY <1>2
  <2>2. /\ Down(p, u) \in SUBSET Mem(p) /\ u \in Down(p, u)
        /\ \A v \in Down(p, u) : p.tx[v].children \subseteq Down(p, u)
    BY Zenon, <1>1, <2>1, DownIn DEF Down
  <2>3. /\ Down(q, u) \in SUBSET Mem(q) /\ u \in Down(q, u)
        /\ \A v \in Down(q, u) : q.tx[v].children \subseteq Down(q, u)
    BY Zenon, <1>4, DownIn DEF Down
  <2>4. Down(p, u) \subseteq Down(q, u)
    <3>1. /\ Down(q, u) \in SUBSET Mem(p) /\ {u} \subseteq Down(q, u)
          /\ \A v \in Down(q, u) : p.tx[v].children \subseteq Down(q, u)
      BY <1>2, <1>c, <2>3
    <3> QED
      BY Zenon, <3>1, DownLeast DEF Down
  <2>5. Down(q, u) \subseteq Down(p, u)
    <3>1. /\ Down(p, u) \in SUBSET Mem(q) /\ {u} \subseteq Down(p, u)
          /\ \A v \in Down(p, u) : q.tx[v].children \subseteq Down(p, u)
      BY <1>c, <2>2, <2>3, <2>4
    <3> QED
      BY Zenon, <3>1, DownLeast DEF Down
  <2> QED
    BY Zenon, <2>4, <2>5
<1>8. ASSUME NEW u \in Mem(q)
      PROVE  /\ q.tx[u].anc = Package(q, {u} \union Ancestors(q, u))
             /\ q.tx[u].desc = Package(q, Down(q, u))
  <2>1. u \in Mem(p) /\ u # t
    BY <1>2
  <2>2. /\ Ancestors(q, u) \in SUBSET Mem(q) /\ Down(q, u) \in SUBSET Mem(q)
        /\ Down(p, u) \in SUBSET Mem(p) /\ Ancestors(p, u) \in SUBSET Mem(p)
    BY <1>1, <1>4, <2>1, UpIn, DownIn DEF Down
  <2>3. ASSUME NEW T \in SUBSET Mem(q)
        PROVE  Package(q, T) = Package(p, T)
    <3>1. T \in SUBSET (Mem(p) \intersect Mem(q)) /\ \A v \in T : q.tx[v].feeDelta = p.tx[v].feeDelta
      BY <1>2, <1>d
    <3> QED
      BY Zenon, <1>1, <1>2, <3>1, PackageSame
  <2>4. q.tx[u].anc = Package(q, {u} \union Ancestors(q, u))
    <3> DEFINE A == {u} \union Ancestors(p, u)
               B == {r \in {t} : u \in Down(p, r)}
    <3>1. B \in SUBSET A /\ A \in SUBSET Mem(p) /\ A \ B = {u} \union Ancestors(q, u)
      BY <1>1, <1>6, <2>1, <2>2, Dual
    <3>2. p.tx[u].anc = Package(p, A)
      BY <1>1, <2>1 DEF Counted
    <3>3. q.tx[u].anc = Minus(p.tx[u].anc, Package(p, B))
      BY Zenon, <1>e
    <3> HIDE DEF A, B
    <3>4. Package(p, A \ B) = Minus(Package(p, A), Package(p, B))
      BY <1>1, <3>1, PackageMinus
    <3>5. Package(q, A \ B) = Package(p, A \ B)
      BY <2>2, <2>3, <3>1
    <3> QED
      BY <3>1, <3>2, <3>3, <3>4, <3>5
  <2>5. {r \in {t} : u \in Ancestors(p, r)} = {}
    <3>1. Ancestors(p, t) \subseteq {}
      <4>1. {} \in SUBSET Mem(p) /\ p.tx[t].parents \subseteq {} /\ \A a \in {} : p.tx[a].parents \subseteq {}
        OBVIOUS
      <4> QED
        BY <4>1, UpLeast
    <3> QED
      BY <3>1
  <2>6. p.tx[u].desc = Package(p, Down(p, u))
    BY Zenon, <1>1, <2>1 DEF Counted
  <2>7. Package(p, Down(p, u) \ {}) = Minus(Package(p, Down(p, u)), Package(p, {}))
    <3>1. {} \in SUBSET Down(p, u)
      OBVIOUS
    <3> QED
      BY Zenon, <1>1, <2>2, <3>1, PackageMinus
  <2>8. Down(p, u) \ {} = Down(q, u)
    BY <1>7
  <2> QED
    BY Zenon, <1>e, <2>2, <2>3, <2>4, <2>5, <2>6, <2>7, <2>8
<1>9. Fine(q)
  BY <1>2, <1>4, <1>5, <1>8 DEF Fine, Counted
<1>10. \A u \in Mem(q) : q.tx[u].children = p.tx[u].children \ {t}
  BY <1>c
<1>11. Less(p, q, {t})
  BY <1>2, <1>d, <1>9, <1>10 DEF Less
<1> QED
  BY Zenon, <1>11 DEF q

(***************************************************************************)
(* Adding an entry                                                         *)
(***************************************************************************)
\* What ReachIn and ReachLeast say of the ancestors of a new entry.
LEMMA NewIn ==
  ASSUME NEW p, Linked(p), NEW t
  PROVE  /\ NewAncestors(p, t) \in SUBSET Mem(p) /\ InputTxs(t) \intersect Mem(p) \subseteq NewAncestors(p, t)
         /\ \A a \in NewAncestors(p, t) : p.tx[a].parents \subseteq NewAncestors(p, t)
<1>1. \A u \in Mem(p) : p.tx[u]["parents"] \subseteq Mem(p)
  BY DEF Linked
<1>2. InputTxs(t) \intersect Mem(p) \in SUBSET Mem(p)
  OBVIOUS
<1> QED
  BY Zenon, <1>1, <1>2, ReachIn DEF NewAncestors, Mem

\* No smaller set has them.
LEMMA NewLeast ==
  ASSUME NEW p, NEW t, NEW C \in SUBSET Mem(p), InputTxs(t) \intersect Mem(p) \subseteq C,
         \A a \in C : p.tx[a].parents \subseteq C
  PROVE  NewAncestors(p, t) \subseteq C
BY ReachLeast DEF NewAncestors, Mem

\* q is p with the entry t, which has these ancestors.
Added(p, q, t, ancestors, own) ==
  /\ q \in Pools /\ Mem(q) = Mem(p) \union {t} /\ q.delta = p.delta
  /\ DOMAIN q.next = DOMAIN p.next \union Ins(t)
  /\ \A o \in DOMAIN q.next : q.next[o] = IF o \in Ins(t) THEN t ELSE p.next[o]
  /\ /\ q.tx[t].feeDelta = p.delta[t] /\ q.tx[t].children = {}
     /\ q.tx[t].parents = InputTxs(t) \intersect Mem(p)
     /\ q.tx[t].spendsCoinbase = (InputTxs(t) \intersect Coinbase # {})
     /\ q.tx[t].anc = Plus(own, Package(p, ancestors)) /\ q.tx[t].desc = own
  /\ \A u \in Mem(p) :
       /\ q.tx[u].feeDelta = p.tx[u].feeDelta
       /\ q.tx[u].spendsCoinbase = p.tx[u].spendsCoinbase
       /\ q.tx[u].parents = p.tx[u].parents
       /\ q.tx[u].children = IF u \in InputTxs(t) THEN p.tx[u].children \union {t}
                             ELSE p.tx[u].children
       /\ q.tx[u].anc = p.tx[u].anc
       /\ q.tx[u].desc = IF u \in ancestors THEN Plus(p.tx[u].desc, own) ELSE p.tx[u].desc

\* What addUnchecked does to the parts of the pool.
LEMMA AddParts ==
  ASSUME NEW p \in Pools, NEW t \in Tx \ Coinbase, t \notin Mem(p), NEW ancestors \in SUBSET Mem(p),
         Ins(t) \intersect DOMAIN p.next = {}
  PROVE  Added(p, addUnchecked(p, t, ancestors), t, ancestors,
               [n |-> 1, size |-> Size[t], fee |-> Fee[t] + p.delta[t]])
<1> DEFINE q == addUnchecked(p, t, ancestors)
           own == [n |-> 1, size |-> Size[t], fee |-> Fee[t] + p.delta[t]]
           parents == InputTxs(t) \intersect DOMAIN p.tx
           new == [feeDelta |-> p.delta[t], parents |-> parents, children |-> {},
                   spendsCoinbase |-> InputTxs(t) \intersect Coinbase # {},
                   anc |-> Plus(own, Package(p, ancestors)), desc |-> own]
           Updated(u) == [p.tx[u] EXCEPT !.children = IF u \in parents THEN @ \union {t} ELSE @,
                                         !.desc = IF u \in ancestors THEN Plus(@, own) ELSE @]
           tx == [u \in DOMAIN p.tx \union {t} |-> IF u = t THEN new ELSE Updated(u)]
           next == [o \in DOMAIN p.next \union Ins(t) |-> IF o \in DOMAIN p.next THEN p.next[o] ELSE t]
<1>1. q = [p EXCEPT !.tx = tx, !.next = next]
  BY Zenon DEF addUnchecked
<1>2. own \in Pkg /\ Package(p, ancestors) \in Pkg /\ p.delta[t] \in Int
  <2>1. Size[t] \in Int /\ Fee[t] \in Int
    BY TxMemPoolConstants
  <2>2. p.delta[t] \in Int
    BY PoolType
  <2> QED
    <3>1. Fee[t] + p.delta[t] \in Int
      BY <2>1, <2>2
    <3>2. own \in Pkg
      BY <2>1, <3>1 DEF Pkg
    <3> QED
      BY Zenon, <2>2, <3>2, PackageParts
<1>3. Plus(own, Package(p, ancestors)) \in Pkg
  BY <1>2, PkgMinus
<1>4. Mem(p) \in SUBSET (Tx \ Coinbase) /\ p.tx \in [Mem(p) -> Entry]
  BY PoolType
<1> HIDE DEF own
<1>5. new \in Entry
  BY Zenon, <1>2, <1>3, <1>4 DEF Entry, Mem
<1>6. ASSUME NEW u \in Mem(p)
      PROVE  /\ Updated(u) \in Entry
             /\ Updated(u).feeDelta = p.tx[u].feeDelta
             /\ Updated(u).spendsCoinbase = p.tx[u].spendsCoinbase
             /\ Updated(u).parents = p.tx[u].parents
             /\ Updated(u).children = IF u \in InputTxs(t) THEN p.tx[u].children \union {t}
                                      ELSE p.tx[u].children
             /\ Updated(u).anc = p.tx[u].anc
             /\ Updated(u).desc = IF u \in ancestors THEN Plus(p.tx[u].desc, own) ELSE p.tx[u].desc
  <2>1. p.tx[u] \in Entry /\ p.tx[u].desc \in Pkg
    BY EntryType
  <2>2. Plus(p.tx[u].desc, own) \in Pkg
    BY <1>2, <2>1, PkgMinus
  <2>3. u \in parents <=> u \in InputTxs(t)
    BY DEF Mem
  <2>4. t \in Tx
    OBVIOUS
  <2> HIDE DEF parents
  <2> QED
    BY Zenon, <2>1, <2>2, <2>3, <2>4 DEF Entry
<1>7. next = [o \in DOMAIN p.next \union Ins(t) |-> IF o \in Ins(t) THEN t ELSE p.next[o]]
  OBVIOUS
<1>8. p = [tx |-> p.tx, next |-> p.next, delta |-> p.delta]
  BY DEF Pools
<1> HIDE DEF new, Updated, next
<1>9. /\ q.tx = tx /\ q.next = next /\ q.delta = p.delta
      /\ q = [tx |-> q.tx, next |-> q.next, delta |-> q.delta]
  <2> HIDE DEF tx, q
  <2> QED
    BY Zenon, <1>1, <1>8
<1>10. tx \in [Mem(p) \union {t} -> Entry] /\ Mem(p) \union {t} \in SUBSET (Tx \ Coinbase)
  BY Zenon, <1>4, <1>5, <1>6 DEF Mem
<1>11. DOMAIN p.next \union Ins(t) \in SUBSET Outpoints /\ next \in [DOMAIN p.next \union Ins(t) -> Tx]
  <2>1. DOMAIN p.next \in SUBSET Outpoints /\ \A o \in DOMAIN p.next : p.next[o] \in Tx
    BY PoolType
  <2>2. Ins(t) \in SUBSET Outpoints
    BY DEF Outpoints
  <2> QED
    BY <1>7, <2>1, <2>2
<1> HIDE DEF q
<1>12. p.delta \in [Tx -> Int]
  BY PoolType
<1>13. q \in Pools
  BY <1>9, <1>10, <1>11, <1>12 DEF Pools
<1>14. Mem(q) = Mem(p) \union {t}
  BY <1>9, <1>10 DEF Mem
<1>15. \A u \in Mem(p) : q.tx[u] = Updated(u)
  BY <1>9 DEF Mem
<1>16. /\ q.tx[t].feeDelta = p.delta[t] /\ q.tx[t].children = {}
       /\ q.tx[t].parents = InputTxs(t) \intersect Mem(p)
       /\ q.tx[t].spendsCoinbase = (InputTxs(t) \intersect Coinbase # {})
       /\ q.tx[t].anc = Plus(own, Package(p, ancestors)) /\ q.tx[t].desc = own
  <2>1. q.tx[t] = new
    BY <1>9
  <2> QED
    BY <2>1 DEF new, Mem
<1> HIDE DEF tx
<1>17. /\ DOMAIN q.next = DOMAIN p.next \union Ins(t)
       /\ \A o \in DOMAIN q.next : q.next[o] = IF o \in Ins(t) THEN t ELSE p.next[o]
  BY <1>7, <1>9
<1>18. Added(p, q, t, ancestors, own)
  <2>1. \A u \in Mem(p) :
           /\ q.tx[u].feeDelta = p.tx[u].feeDelta
           /\ q.tx[u].spendsCoinbase = p.tx[u].spendsCoinbase
           /\ q.tx[u].parents = p.tx[u].parents
           /\ q.tx[u].children = IF u \in InputTxs(t) THEN p.tx[u].children \union {t}
                                 ELSE p.tx[u].children
           /\ q.tx[u].anc = p.tx[u].anc
           /\ q.tx[u].desc = IF u \in ancestors THEN Plus(p.tx[u].desc, own) ELSE p.tx[u].desc
    BY ZenonT(40), <1>6, <1>15
  <2> QED
    BY Zenon, <1>9, <1>13, <1>14, <1>16, <1>17, <2>1 DEF Added
<1> QED
  BY <1>18 DEF own, q

\* q is p with the new entry t, in order.
Joined(p, q, t) ==
  /\ Fine(q) /\ Mem(q) = Mem(p) \union {t} /\ q.delta = p.delta
  /\ /\ q.tx[t].feeDelta = p.delta[t] /\ q.tx[t].children = {}
     /\ q.tx[t].spendsCoinbase = (InputTxs(t) \intersect Coinbase # {})
  /\ \A u \in Mem(p) :
       /\ q.tx[u].feeDelta = p.tx[u].feeDelta
       /\ q.tx[u].spendsCoinbase = p.tx[u].spendsCoinbase
       /\ q.tx[u].children = IF u \in InputTxs(t) THEN p.tx[u].children \union {t}
                             ELSE p.tx[u].children

\* A new entry that conflicts with no other leaves the pool in order, with the
\* links to its parents.
LEMMA AddFine ==
  ASSUME NEW p, Fine(p), NEW t \in Tx \ Coinbase, t \notin Mem(p), Ins(t) \intersect DOMAIN p.next = {}
  PROVE  Joined(p, addUnchecked(p, t, NewAncestors(p, t)), t)
<1> DEFINE above == NewAncestors(p, t)
           q == addUnchecked(p, t, above)
           own == [n |-> 1, size |-> Size[t], fee |-> Fee[t] + p.delta[t]]
<1>1. p \in Pools /\ Linked(p) /\ Counted(p) /\ NextOk(p)
  BY DEF Fine
<1>2. /\ above \in SUBSET Mem(p) /\ InputTxs(t) \intersect Mem(p) \subseteq above
      /\ \A a \in above : p.tx[a].parents \subseteq above
  BY Zenon, <1>1, NewIn
<1>a. Added(p, q, t, above, own)
  <2> HIDE DEF above
  <2>1. above \in SUBSET Mem(p) /\ p \in Pools
    BY <1>1, <1>2
  <2> QED
    BY <2>1, AddParts
<1> HIDE DEF q, own, above
<1>3. q \in Pools /\ Mem(q) = Mem(p) \union {t} /\ q.delta = p.delta
  BY <1>a DEF Added
<1>b. /\ DOMAIN q.next = DOMAIN p.next \union Ins(t)
      /\ \A o \in DOMAIN q.next : q.next[o] = IF o \in Ins(t) THEN t ELSE p.next[o]
  BY <1>a DEF Added
<1>c. /\ q.tx[t].feeDelta = p.delta[t] /\ q.tx[t].children = {}
      /\ q.tx[t].parents = InputTxs(t) \intersect Mem(p)
      /\ q.tx[t].spendsCoinbase = (InputTxs(t) \intersect Coinbase # {})
  BY Zenon, <1>a DEF Added
<1>d. \A u \in Mem(p) : q.tx[u].feeDelta = p.tx[u].feeDelta /\ q.tx[u].spendsCoinbase = p.tx[u].spendsCoinbase
  BY Zenon, <1>a DEF Added
<1>e. \A u \in Mem(p) : q.tx[u].parents = p.tx[u].parents
  BY Zenon, <1>a DEF Added
<1>f. \A u \in Mem(p) : q.tx[u].children = IF u \in InputTxs(t) THEN p.tx[u].children \union {t}
                                           ELSE p.tx[u].children
  BY Zenon, <1>a DEF Added
<1>g. /\ q.tx[t].anc = Plus(own, Package(p, above)) /\ q.tx[t].desc = own
      /\ \A u \in Mem(p) :
           /\ q.tx[u].anc = p.tx[u].anc
           /\ q.tx[u].desc = IF u \in above THEN Plus(p.tx[u].desc, own) ELSE p.tx[u].desc
  BY Zenon, <1>a DEF Added
<1>4. Linked(q)
  <2>1. ASSUME NEW v \in Mem(q)
        PROVE  /\ q.tx[v].parents \subseteq Mem(q) /\ q.tx[v].children \subseteq Mem(q)
               /\ \A u \in Mem(q) : u \in q.tx[v].children <=> v \in q.tx[u].parents
    <3>1. CASE v = t
      <4>1. \A u \in Mem(p) : t \notin q.tx[u].parents
        BY <1>1, <1>e DEF Linked
      <4>2. t \notin InputTxs(t)
        BY TxMemPoolConstants
      <4> QED
        BY <1>3, <1>c, <3>1, <4>1, <4>2
    <3>2. CASE v \in Mem(p)
      <4>1. ASSUME NEW u \in Mem(p)
            PROVE  u \in q.tx[v].children <=> v \in q.tx[u].parents
        <5>1. q.tx[u].parents = p.tx[u].parents /\ (u \in q.tx[v].children <=> u \in p.tx[v].children)
          BY Zenon, <1>e, <1>f, <3>2
        <5> QED
          BY <1>1, <3>2, <5>1 DEF Linked
      <4>2. t \in q.tx[v].children <=> v \in q.tx[t].parents
        BY Zenon, <1>1, <1>c, <1>f, <3>2 DEF Linked
      <4>3. q.tx[v].parents \subseteq Mem(q) /\ q.tx[v].children \subseteq Mem(q)
        BY Zenon, <1>1, <1>3, <1>e, <1>f, <3>2 DEF Linked
      <4> QED
        BY <1>3, <4>1, <4>2, <4>3
    <3> QED
      BY <1>3, <3>1, <3>2
  <2> QED
    BY <2>1 DEF Linked
<1>5. NextOk(q)
  <2>1. DOMAIN q.next = UNION {Ins(v) : v \in Mem(q)}
    BY <1>1, <1>3, <1>b DEF NextOk
  <2>2. ASSUME NEW v \in Mem(q), NEW o \in Ins(v)
        PROVE  q.next[o] = v
    <3>1. CASE v = t
      BY <1>b, <3>1
    <3>2. CASE v \in Mem(p)
      BY <1>1, <1>b, <3>2 DEF NextOk
    <3> QED
      BY <1>3, <3>1, <3>2
  <2> QED
    BY <2>1, <2>2 DEF NextOk
<1>6. Ancestors(q, t) = above
  <2>1. Ancestors(q, t) \subseteq above
    <3>1. /\ above \in SUBSET Mem(q) /\ q.tx[t].parents \subseteq above
          /\ \A a \in above : q.tx[a].parents \subseteq above
      BY <1>2, <1>3, <1>c, <1>e
    <3> QED
      BY <3>1, UpLeast
  <2>2. above \subseteq Ancestors(q, t) \ {t}
    <3> DEFINE C == Ancestors(q, t) \ {t}
    <3>1. /\ Ancestors(q, t) \in SUBSET Mem(q) /\ q.tx[t].parents \subseteq Ancestors(q, t)
          /\ \A a \in Ancestors(q, t) : q.tx[a].parents \subseteq Ancestors(q, t)
      BY <1>3, <1>4, UpIn
    <3>2. \A a \in Mem(p) : t \notin p.tx[a].parents
      BY <1>1 DEF Linked
    <3>3. /\ C \in SUBSET Mem(p) /\ InputTxs(t) \intersect Mem(p) \subseteq C
          /\ \A a \in C : p.tx[a].parents \subseteq C
      BY <1>3, <1>c, <1>e, <3>1, <3>2
    <3> HIDE DEF C
    <3>4. above \subseteq C
      BY <3>3, NewLeast DEF above
    <3> QED
      BY <3>4 DEF C
  <2> QED
    BY <2>1, <2>2
<1>7. ASSUME NEW u \in Mem(p)
      PROVE  Ancestors(q, u) = Ancestors(p, u)
  <2>1. /\ Ancestors(p, u) \in SUBSET Mem(p) /\ p.tx[u].parents \subseteq Ancestors(p, u)
        /\ \A a \in Ancestors(p, u) : p.tx[a].parents \subseteq Ancestors(p, u)
    BY <1>1, UpIn
  <2>2. Ancestors(q, u) \subseteq Ancestors(p, u)
    <3>1. /\ Ancestors(p, u) \in SUBSET Mem(q) /\ q.tx[u].parents \subseteq Ancestors(p, u)
          /\ \A a \in Ancestors(p, u) : q.tx[a].parents \subseteq Ancestors(p, u)
      BY <1>3, <1>e, <2>1
    <3> QED
      BY <3>1, UpLeast
  <2>3. /\ Ancestors(q, u) \in SUBSET Mem(p) /\ q.tx[u].parents \subseteq Ancestors(q, u)
        /\ \A a \in Ancestors(q, u) : q.tx[a].parents \subseteq Ancestors(q, u)
    BY <1>3, <1>4, <2>1, <2>2, UpIn
  <2>4. Ancestors(p, u) \subseteq Ancestors(q, u)
    <3>1. /\ p.tx[u].parents \subseteq Ancestors(q, u)
          /\ \A a \in Ancestors(q, u) : p.tx[a].parents \subseteq Ancestors(q, u)
      BY <1>e, <2>3
    <3> QED
      BY <2>3, <3>1, UpLeast
  <2> QED
    BY <2>2, <2>4
<1>8. Down(q, t) = {t}
  <2>1. {t} \in SUBSET Mem(q) /\ \A v \in {t} : q.tx[v].children \subseteq {t}
    BY <1>3, <1>c
  <2>2. Down(q, t) \subseteq {t}
    BY Zenon, <2>1, DownLeast DEF Down
  <2>3. t \in Down(q, t)
    BY <1>4, <2>1, DownIn DEF Down
  <2> QED
    BY <2>2, <2>3
<1>9. ASSUME NEW u \in Mem(p)
      PROVE  Down(q, u) = IF u \in above THEN Down(p, u) \union {t} ELSE Down(p, u)
  <2>1. /\ Down(p, u) \in SUBSET Mem(p) /\ u \in Down(p, u)
        /\ \A v \in Down(p, u) : p.tx[v].children \subseteq Down(p, u)
    BY <1>1, DownOne
  <2>2. /\ Down(q, u) \in SUBSET Mem(q) /\ u \in Down(q, u)
        /\ \A v \in Down(q, u) : q.tx[v].children \subseteq Down(q, u)
    <3>1. {u} \in SUBSET Mem(q)
      BY <1>3
    <3> QED
      BY Zenon, <1>4, <3>1, DownIn DEF Down
  <2>3. Down(q, u) \subseteq Down(p, u) \union {t}
    <3> DEFINE C == Down(p, u) \union {t}
    <3>1. C \in SUBSET Mem(q) /\ {u} \subseteq C /\ \A v \in C : q.tx[v].children \subseteq C
      BY ZenonT(40), <1>3, <1>c, <1>f, <2>1
    <3> HIDE DEF C
    <3>2. Down(q, u) \subseteq C
      BY <3>1, DownLeast DEF Down
    <3> QED
      BY <3>2 DEF C
  <2>4. Down(p, u) \subseteq Down(q, u)
    <3> DEFINE C == Down(q, u) \ {t}
    <3>0. \A v \in Mem(p) : p.tx[v].children \subseteq Mem(p)
      BY <1>1 DEF Linked
    <3>1. C \in SUBSET Mem(p) /\ {u} \subseteq C /\ \A v \in C : p.tx[v].children \subseteq C
      BY Zenon, <1>3, <1>f, <2>2, <3>0
    <3> HIDE DEF C
    <3>2. Down(p, u) \subseteq C
      BY <3>1, DownLeast DEF Down
    <3> QED
      BY <3>2 DEF C
  <2>5. t \in Down(q, u) <=> u \in above
    <3>1. u \in Mem(q) /\ t \in Mem(q) /\ t # u
      BY <1>3
    <3> QED
      BY <1>4, <1>6, <3>1, Dual
  <2> QED
    BY <2>3, <2>4, <2>5
<1>10. ASSUME NEW T \in SUBSET Mem(p)
       PROVE  Package(q, T) = Package(p, T)
  <2>1. T \in SUBSET (Mem(p) \intersect Mem(q)) /\ \A v \in T : q.tx[v].feeDelta = p.tx[v].feeDelta
    BY <1>3, <1>d
  <2> QED
    BY <1>1, <1>3, <2>1, PackageSame
<1>11. Package(q, {t}) = own
  <2>1. t \in Mem(q) /\ ModifiedFee(q, t) = Fee[t] + p.delta[t]
    BY <1>3, <1>c DEF ModifiedFee
  <2> QED
    BY <1>3, <2>1, PackageOne DEF own
<1>12. ASSUME NEW T \in SUBSET Mem(p)
       PROVE  /\ Package(q, T \union {t}) = Plus(Package(p, T), own)
              /\ Package(q, {t} \union T) = Plus(own, Package(p, T))
  <2>1. T \in SUBSET Mem(q) /\ {t} \in SUBSET Mem(q) /\ T \intersect {t} = {} /\ {t} \intersect T = {}
    BY <1>3
  <2>2. /\ Package(q, T \union {t}) = Plus(Package(q, T), Package(q, {t}))
        /\ Package(q, {t} \union T) = Plus(Package(q, {t}), Package(q, T))
    BY <1>3, <2>1, PackageUnion
  <2> QED
    BY <1>10, <1>11, <2>2
<1>13. ASSUME NEW u \in Mem(q)
       PROVE  /\ q.tx[u].anc = Package(q, {u} \union Ancestors(q, u))
              /\ q.tx[u].desc = Package(q, Down(q, u))
  <2>1. CASE u = t
    <3>1. q.tx[t].anc = Package(q, {t} \union Ancestors(q, t))
      BY <1>2, <1>g, <1>6, <1>12
    <3>2. q.tx[t].desc = Package(q, Down(q, t))
      BY <1>g, <1>8, <1>11
    <3> QED
      BY <2>1, <3>1, <3>2
  <2>2. CASE u \in Mem(p)
    <3>1. p.tx[u].anc = Package(p, {u} \union Ancestors(p, u)) /\ p.tx[u].desc = Package(p, Down(p, u))
      BY <1>1, <2>2 DEF Counted
    <3>2. {u} \union Ancestors(p, u) \in SUBSET Mem(p) /\ Down(p, u) \in SUBSET Mem(p)
      BY <1>1, <2>2, UpIn, DownIn DEF Down
    <3>3. q.tx[u].anc = Package(q, {u} \union Ancestors(q, u))
      BY Zenon, <1>g, <1>7, <1>10, <2>2, <3>1, <3>2
    <3>4. q.tx[u].desc = Package(q, Down(q, u))
      BY <1>g, <1>9, <1>10, <1>12, <2>2, <3>1, <3>2
    <3> QED
      BY <3>3, <3>4
  <2> QED
    BY <1>3, <2>1, <2>2
<1>14. Fine(q)
  BY <1>3, <1>4, <1>5, <1>13 DEF Fine, Counted
<1>15. Joined(p, q, t)
  BY Zenon, <1>3, <1>c, <1>d, <1>f, <1>14 DEF Joined
<1> QED
  BY <1>15 DEF q, above

(***************************************************************************)
(* The pool, the chain and the transactions in between                     *)
(***************************************************************************)
\* The links are those of the inputs, but the entries of U, which came back from
\* disconnected blocks, are not linked to children outside U.
LinksAre(p, U) ==
  \A t, u \in Mem(p) : u \in p.tx[t].children <=> t \in InputTxs(u) /\ (t \in U => u \in U)

\* What an entry keeps of its transaction.
Noted(p) ==
  \A t \in Mem(p) : /\ p.tx[t].feeDelta = p.delta[t]
                    /\ p.tx[t].spendsCoinbase = (InputTxs(t) \intersect Coinbase # {})

\* The transactions of the pool, of the queue Q and of the chain that ends in b
\* are apart.
Apart(p, U, Q, b) ==
  /\ Mem(p) \intersect Confirmed(b) = {} /\ Mem(p) \intersect Q = {}
  /\ Q \intersect Confirmed(b) = {} /\ U \intersect Q = {}

\* What an entry spends is there, or in the queue.
Supplied(p, Q, b) ==
  \A u \in Mem(p) : \A o \in Ins(u) : o[1] \in Mem(p) \union Q \/ HaveCoin(b, o)

\* What was disconnected does not spend what came to the pool on its own, and what
\* came back does not spend what is still in the queue.
Above(p, U, Q) ==
  /\ \A x \in Q \union U : InputTxs(x) \intersect Mem(p) \subseteq U
  /\ \A x \in Q, u \in U : x \notin InputTxs(u)

\* The entries of q are entries of p and keep the same of their transactions.
Kept(p, q) ==
  /\ Mem(q) \subseteq Mem(p) /\ q.delta = p.delta
  /\ \A u \in Mem(q) : /\ q.tx[u].feeDelta = p.tx[u].feeDelta
                       /\ q.tx[u].spendsCoinbase = p.tx[u].spendsCoinbase

InOrder(p, U, Q, b) ==
  Fine(p) /\ LinksAre(p, U) /\ Apart(p, U, Q, b) /\ Supplied(p, Q, b) /\ Above(p, U, Q)

(***************************************************************************)
(* The chains that ConnectBlock accepts                                    *)
(***************************************************************************)
Valid(b) == b \in Block /\ Anc[b] \intersect Invalid = {}

\* The inputs of a transaction.
LEMMA InsType ==
  ASSUME NEW t \in Tx
  PROVE  /\ \A o \in Ins(t) : o[1] \in InputTxs(t)
         /\ InputTxs(t) \subseteq Tx /\ t \notin InputTxs(t)
         /\ \A x \in InputTxs(t) : \E o \in Ins(t) : o[1] = x
         /\ t \notin Coinbase => Ins(t) # {}
<1>1. vin[t] \in Seq(Tx \X Nat) /\ t \notin InputTxs(t) /\ (t \in Coinbase <=> vin[t] = <<>>)
  BY TxMemPoolConstants
<1>2. \A i \in DOMAIN vin[t] : vin[t][i] \in Tx \X Nat
  BY <1>1
<1>3. \A o \in Ins(t) : o[1] \in Tx
  BY <1>2 DEF Ins, Range
<1>4. vin[t] # <<>> => Ins(t) # {}
  <2>1. vin[t] # <<>> => 1 \in DOMAIN vin[t]
    BY <1>1
  <2> QED
    BY Zenon, <2>1 DEF Ins, Range
<1> QED
  BY <1>1, <1>3, <1>4 DEF InputTxs

\* The transactions of a block.
LEMMA BodyType ==
  ASSUME NEW b \in Block
  PROVE  /\ Len(Body[b]) \in Nat /\ DOMAIN Body[b] = 1 .. Len(Body[b])
         /\ \A i \in DOMAIN Body[b] : Body[b][i] \in Tx
         /\ Range(Body[b]) = {Body[b][i] : i \in DOMAIN Body[b]} /\ Range(Body[b]) \subseteq Tx
<1>1. Body[b] \in Seq(Tx)
  BY TxMemPoolConstants
<1> QED
  BY <1>1 DEF Range

\* What a chain confirms is what its last block confirms and what was before.
LEMMA ConfirmedStep ==
  ASSUME NEW b \in Block
  PROVE  /\ Confirmed(b) \subseteq Tx
         /\ b = Genesis => Confirmed(b) = Range(Body[b])
         /\ b # Genesis => Confirmed(b) = Confirmed(Prev[b]) \union Range(Body[b])
         /\ \A a \in Anc[b] : Confirmed(a) \subseteq Confirmed(b)
<1>1. Anc[b] \subseteq Block /\ \A a \in Block : Range(Body[a]) \subseteq Tx
  BY BlockTree, BodyType
<1>2. b = Genesis => Anc[b] = {b}
  BY BlockTree
<1>3. b # Genesis => Anc[b] = {b} \union Anc[Prev[b]]
  BY BlockTree
<1>4. \A a \in Anc[b] : Anc[a] \subseteq Anc[b]
  BY AncTrans
<1> QED
  BY <1>1, <1>2, <1>3, <1>4 DEF Confirmed

\* The parts of a valid chain are valid.
LEMMA ValidPrev ==
  ASSUME NEW b, Valid(b)
  PROVE  /\ b # Genesis => Valid(Prev[b]) /\ Prev[b] \in Anc[b]
         /\ \A a \in Anc[b] : Valid(a)
<1>1. \A a \in Anc[b] : a \in Block /\ Anc[a] \subseteq Anc[b]
  BY AncTrans, BlockTree DEF Valid
<1>2. b # Genesis => Prev[b] \in Anc[b]
  BY AncSelf, BlockTree DEF Valid
<1> QED
  BY <1>1, <1>2 DEF Valid

\* What BlocksConnect says of one transaction.
LEMMA BodyConnects ==
  ASSUME NEW b, Valid(b), NEW i \in DOMAIN Body[b]
  PROVE  /\ Body[b][i] \notin Before(b, i)
         /\ InputTxs(Body[b][i]) \subseteq Before(b, i)
         /\ \A t \in Before(b, i) : Ins(t) \intersect Ins(Body[b][i]) = {}
         /\ Before(b, i) \subseteq Confirmed(b)
         /\ b # Genesis => Confirmed(Prev[b]) \subseteq Before(b, i)
         /\ \A j \in DOMAIN Body[b] : j < i => Body[b][j] \in Before(b, i)
<1>1. b \in Block /\ Anc[b] \intersect Invalid = {}
  BY DEF Valid
<1>2. /\ Body[b][i] \notin Before(b, i)
      /\ \A o \in Ins(Body[b][i]) : o[1] \in Before(b, i) /\ \A t \in Before(b, i) : o \notin Ins(t)
  BY <1>1, BlocksConnect
<1>3. DOMAIN Body[b] = 1 .. Len(Body[b]) /\ Len(Body[b]) \in Nat
  BY <1>1, BodyType
<1>4. \A j \in 1 .. i - 1 : j \in DOMAIN Body[b]
  BY <1>3
<1>5. Before(b, i) \subseteq Confirmed(b)
  <2>1. {Body[b][j] : j \in 1 .. i - 1} \subseteq Range(Body[b])
    BY <1>4 DEF Range
  <2> QED
    BY <1>1, <2>1, ConfirmedStep DEF Before
<1>6. \A j \in DOMAIN Body[b] : j < i => Body[b][j] \in Before(b, i)
  <2>1. \A j \in DOMAIN Body[b] : j < i => j \in 1 .. i - 1
    BY <1>3
  <2> QED
    BY <2>1 DEF Before
<1>7. b # Genesis => Confirmed(Prev[b]) \subseteq Before(b, i)
  BY DEF Before
<1>8. InputTxs(Body[b][i]) \subseteq Before(b, i)
  BY <1>2 DEF InputTxs
<1>9. \A t \in Before(b, i) : Ins(t) \intersect Ins(Body[b][i]) = {}
  BY <1>2
<1> QED
  BY <1>2, <1>5, <1>6, <1>7, <1>8, <1>9

\* In a valid chain a transaction spends outputs of the chain, no two spend the
\* same, and no block confirms again what was confirmed before.
LEMMA ChainSpends ==
  ASSUME NEW b, Valid(b)
  PROVE  /\ \A t \in Confirmed(b) : InputTxs(t) \subseteq Confirmed(b)
         /\ \A t, u \in Confirmed(b) : t # u => Ins(t) \intersect Ins(u) = {}
         /\ b # Genesis => Range(Body[b]) \intersect Confirmed(Prev[b]) = {}
<1> DEFINE P(a) == /\ \A t \in Confirmed(a) : InputTxs(t) \subseteq Confirmed(a)
                   /\ \A t, u \in Confirmed(a) : t # u => Ins(t) \intersect Ins(u) = {}
           S == {a \in Block : Valid(a) => P(a)}
<1>1. ASSUME NEW a, Valid(a), a # Genesis => P(Prev[a])
      PROVE  P(a)
  <2>1. a \in Block
    BY <1>1 DEF Valid
  <2> DEFINE Old == IF a = Genesis THEN {} ELSE Confirmed(Prev[a])
  <2>2. Confirmed(a) = Old \union {Body[a][i] : i \in DOMAIN Body[a]}
    BY Zenon, <2>1, ConfirmedStep, BodyType
  <2>3. /\ \A t \in Old : InputTxs(t) \subseteq Old
        /\ \A t, u \in Old : t # u => Ins(t) \intersect Ins(u) = {}
    BY <1>1
  <2>4. \A i \in DOMAIN Body[a] :
          /\ InputTxs(Body[a][i]) \subseteq Confirmed(a)
          /\ \A t \in Old : Ins(t) \intersect Ins(Body[a][i]) = {}
          /\ \A j \in DOMAIN Body[a] : j < i => Ins(Body[a][j]) \intersect Ins(Body[a][i]) = {}
    <3> SUFFICES ASSUME NEW i \in DOMAIN Body[a]
                 PROVE  /\ InputTxs(Body[a][i]) \subseteq Confirmed(a)
                        /\ \A t \in Old : Ins(t) \intersect Ins(Body[a][i]) = {}
                        /\ \A j \in DOMAIN Body[a] : j < i => Ins(Body[a][j]) \intersect Ins(Body[a][i]) = {}
      OBVIOUS
    <3>1. Old \subseteq Before(a, i)
      BY DEF Before
    <3> HIDE DEF Old
    <3> QED
      BY <1>1, <3>1, BodyConnects
  <2> HIDE DEF Old
  <2>5. \A t \in Confirmed(a) : InputTxs(t) \subseteq Confirmed(a)
    BY <2>2, <2>3, <2>4
  <2>6. DOMAIN Body[a] \subseteq Nat
    BY <2>1, BodyType
  <2>7. \A i, j \in DOMAIN Body[a] : i # j => Ins(Body[a][j]) \intersect Ins(Body[a][i]) = {}
    <3>1. \A i, j \in DOMAIN Body[a] : i < j \/ j < i \/ i = j
      BY <2>6
    <3> QED
      BY <2>4, <3>1
  <2>8. \A t, u \in Confirmed(a) : t # u => Ins(t) \intersect Ins(u) = {}
    BY <2>2, <2>3, <2>4, <2>7
  <2> QED
    BY <2>5, <2>8
<1>2. Genesis \in S
  BY <1>1, BlockTree
<1>3. ASSUME NEW a \in Block \ {Genesis}, Prev[a] \in S
      PROVE  a \in S
  <2>1. Valid(a) => Valid(Prev[a])
    BY ValidPrev
  <2> QED
    BY <1>1, <1>3, <2>1
<1> HIDE DEF S
<1>4. \A a \in Block : a \in S
  BY <1>2, <1>3, BlockInduction
<1>5. P(b)
  BY <1>4 DEF S, Valid
<1>6. b # Genesis => Range(Body[b]) \intersect Confirmed(Prev[b]) = {}
  <2>1. b \in Block
    BY DEF Valid
  <2>2. b # Genesis => \A i \in DOMAIN Body[b] : Body[b][i] \notin Confirmed(Prev[b])
    BY BodyConnects
  <2> QED
    BY Zenon, <2>1, <2>2, BodyType
<1> QED
  BY <1>5, <1>6

\* No transaction is in a valid chain twice, so Earlier is an order; and what a
\* transaction spends comes before it.
LEMMA EarlierOrder ==
  ASSUME NEW b, Valid(b)
  PROVE  /\ \A t \in Confirmed(b) : \A x \in InputTxs(t) : Earlier(b, x, t)
         /\ \A t, u : ~(Earlier(b, t, u) /\ Earlier(b, u, t))
<1>0. b \in Block /\ Anc[b] \subseteq Block /\ \A a \in Anc[b] : Valid(a)
  BY BlockTree, ValidPrev DEF Valid
<1>1. ASSUME NEW a \in Anc[b], NEW c \in Anc[b], a \in Anc[c], a # c,
             NEW i \in DOMAIN Body[a], NEW j \in DOMAIN Body[c]
      PROVE  Body[a][i] # Body[c][j]
  <2>1. c # Genesis /\ a \in Anc[Prev[c]]
    BY <1>0, <1>1, BlockTree
  <2>2. Body[a][i] \in Confirmed(Prev[c])
    BY <2>1 DEF Confirmed, Range
  <2> QED
    BY <1>0, <2>1, <2>2, BodyConnects
<1>2. ASSUME NEW a \in Anc[b], NEW i \in DOMAIN Body[a], NEW j \in DOMAIN Body[a], i < j
      PROVE  Body[a][i] # Body[a][j]
  BY <1>0, <1>2, BodyConnects
<1>3. ASSUME NEW a \in Anc[b], NEW c \in Anc[b],
             NEW i \in DOMAIN Body[a], NEW j \in DOMAIN Body[c], Body[a][i] = Body[c][j]
      PROVE  a = c /\ i = j
  <2>1. a = c
    BY <1>0, <1>1, <1>3, AncLinear
  <2>2. i \in Nat /\ j \in Nat
    BY <1>0, BodyType
  <2>3. i < j \/ j < i \/ i = j
    BY <2>2
  <2> QED
    BY <1>2, <1>3, <2>1, <2>3
<1>4. ASSUME NEW t, NEW u, Earlier(b, t, u), Earlier(b, u, t)
      PROVE  FALSE
  <2>1. PICK a \in Anc[b], c \in Anc[b] : \E i \in DOMAIN Body[a], j \in DOMAIN Body[c] :
          Body[a][i] = t /\ Body[c][j] = u /\ (Height[a] < Height[c] \/ (a = c /\ i < j))
    BY <1>4 DEF Earlier
  <2>2. PICK i \in DOMAIN Body[a], j \in DOMAIN Body[c] :
          Body[a][i] = t /\ Body[c][j] = u /\ (Height[a] < Height[c] \/ (a = c /\ i < j))
    BY <2>1
  <2>3. PICK d \in Anc[b], e \in Anc[b] : \E k \in DOMAIN Body[d], l \in DOMAIN Body[e] :
          Body[d][k] = u /\ Body[e][l] = t /\ (Height[d] < Height[e] \/ (d = e /\ k < l))
    BY <1>4 DEF Earlier
  <2>4. PICK k \in DOMAIN Body[d], l \in DOMAIN Body[e] :
          Body[d][k] = u /\ Body[e][l] = t /\ (Height[d] < Height[e] \/ (d = e /\ k < l))
    BY <2>3
  <2>5. a = e /\ i = l /\ c = d /\ j = k
    BY <1>3, <2>2, <2>4
  <2>6. i \in Nat /\ j \in Nat /\ Height[a] \in Nat /\ Height[c] \in Nat
    <3>1. a \in Block /\ c \in Block
      BY <1>0
    <3>2. i \in Nat /\ j \in Nat
      BY <3>1, BodyType
    <3>3. Height[a] \in Nat /\ Height[c] \in Nat
      BY <3>1, BlockTree
    <3> QED
      BY <3>2, <3>3
  <2>7. (Height[a] < Height[c] \/ (a = c /\ i < j)) /\ (Height[c] < Height[a] \/ (c = a /\ j < i))
    BY Zenon, <2>2, <2>4, <2>5
  <2> QED
    BY <2>6, <2>7
<1>5. ASSUME NEW t \in Confirmed(b), NEW x \in InputTxs(t)
      PROVE  Earlier(b, x, t)
  <2>1. PICK c \in Anc[b] : t \in Range(Body[c])
    BY DEF Confirmed
  <2>2. PICK j \in DOMAIN Body[c] : t = Body[c][j]
    BY <2>1 DEF Range
  <2>3. x \in Before(c, j)
    BY <1>0, <2>2, BodyConnects
  <2>4. CASE \E k \in 1 .. j - 1 : x = Body[c][k]
    <3>1. PICK k \in 1 .. j - 1 : x = Body[c][k]
      BY <2>4
    <3>2. k \in DOMAIN Body[c] /\ k < j
      BY <1>0, BodyType
    <3> QED
      BY <2>2, <3>1, <3>2 DEF Earlier
  <2>5. CASE c # Genesis /\ x \in Confirmed(Prev[c])
    <3>1. PICK a \in Anc[Prev[c]] : x \in Range(Body[a])
      BY <2>5 DEF Confirmed
    <3>2. PICK i \in DOMAIN Body[a] : x = Body[a][i]
      BY <3>1 DEF Range
    <3>3. Prev[c] \in Block /\ Height[c] = Height[Prev[c]] + 1 /\ Anc[c] = {c} \union Anc[Prev[c]]
      BY <1>0, <2>5, BlockTree
    <3>4. a \in Block /\ Height[a] \in Nat /\ Height[Prev[c]] \in Nat
      BY <3>3, BlockTree
    <3>5. a = Prev[c] \/ Height[a] < Height[Prev[c]]
      BY <3>3, AncHeight
    <3>6. Height[a] < Height[c]
      BY <3>3, <3>4, <3>5
    <3>7. a \in Anc[b]
      BY <1>0, <3>3, AncTrans
    <3> QED
      BY <2>2, <3>2, <3>6, <3>7 DEF Earlier
  <2> QED
    BY <2>3, <2>4, <2>5 DEF Before
<1> QED
  BY <1>4, <1>5

(***************************************************************************)
(* Removing entries                                                        *)
(***************************************************************************)
\* Without entries that no entry that stays depends on, all is as it was.
LEMMA LessInOrder ==
  ASSUME NEW p, NEW q, NEW G, NEW U, NEW Q, NEW b, InOrder(p, U, Q, b), Less(p, q, G),
         \A u \in Mem(q) : InputTxs(u) \intersect G = {}
  PROVE  InOrder(q, U, Q, b)
<1>1. Fine(q) /\ Mem(q) = Mem(p) \ G /\ q.delta = p.delta
  BY DEF Less
<1>2. LinksAre(q, U)
  <2>1. LinksAre(p, U) /\ \A u \in Mem(q) : q.tx[u].children = p.tx[u].children \ G
    BY DEF InOrder, Less
  <2> QED
    BY <1>1, <2>1 DEF LinksAre
<1>4. Apart(q, U, Q, b) /\ Above(q, U, Q)
  BY <1>1 DEF InOrder, Apart, Above
<1>5. Supplied(q, Q, b)
  <2>1. \A u \in Mem(q) : \A o \in Ins(u) : o[1] \notin G
    BY DEF InputTxs
  <2> QED
    BY <1>1, <2>1 DEF InOrder, Supplied
<1> QED
  BY <1>1, <1>2, <1>4, <1>5 DEF InOrder

\* Removing a set of entries with their descendants.
LEMMA RemoveStagedOk ==
  ASSUME NEW p, NEW G, NEW U, NEW Q, NEW b, InOrder(p, U, Q, b), DownClosed(p, G), G \intersect U = {}
  PROVE  /\ InOrder(RemoveStaged(p, G, FALSE), U, Q, b)
         /\ Mem(RemoveStaged(p, G, FALSE)) = Mem(p) \ G
         /\ \A u \in Mem(p) \ G : InputTxs(u) \intersect G = {}
         /\ Kept(p, RemoveStaged(p, G, FALSE))
<1> DEFINE q == RemoveStaged(p, G, FALSE)
<1>1. Less(p, q, G)
  <2>1. Fine(p)
    BY DEF InOrder
  <2> QED
    BY Zenon, <2>1, RemoveClosed
<1>2. \A u \in Mem(p) \ G : InputTxs(u) \intersect G = {}
  BY DEF InOrder, LinksAre, DownClosed
<1> HIDE DEF q
<1>3. Mem(q) = Mem(p) \ G /\ Kept(p, q)
  BY <1>1 DEF Less, Kept
<1>4. InOrder(q, U, Q, b)
  BY <1>1, <1>2, <1>3, LessInOrder
<1> QED
  BY Zenon, <1>2, <1>3, <1>4 DEF q

\* The descendants of entries outside U are a set like that.
LEMMA DescendantsOutside ==
  ASSUME NEW p, NEW S, NEW U, NEW Q, NEW b, InOrder(p, U, Q, b), S \in SUBSET (Mem(p) \ U)
  PROVE  LET G == CalculateDescendants(p, S)
         IN  DownClosed(p, G) /\ G \intersect U = {} /\ S \subseteq G
<1> DEFINE G == CalculateDescendants(p, S)
           C == Mem(p) \ U
<1>1. Linked(p) /\ LinksAre(p, U) /\ Above(p, U, Q)
  BY DEF InOrder, Fine
<1>2. G \in SUBSET Mem(p) /\ S \subseteq G /\ \A t \in G : p.tx[t].children \subseteq G
  BY <1>1, DownIn
<1>3. C \in SUBSET Mem(p) /\ S \subseteq C /\ \A t \in C : p.tx[t].children \subseteq C
  BY <1>1 DEF Linked, LinksAre, Above
<1> HIDE DEF C
<1>4. G \subseteq C
  BY <1>3, DownLeast
<1> HIDE DEF G
<1> QED
  BY <1>2, <1>4 DEF C, DownClosed, G

\* RemoveWithDescendants keeps the pool in order.
LEMMA RemoveOk ==
  ASSUME NEW p, NEW S, NEW U, NEW Q, NEW b, InOrder(p, U, Q, b), S \in SUBSET (Mem(p) \ U)
  PROVE  LET q == RemoveWithDescendants(p, S)
         IN  /\ InOrder(q, U, Q, b) /\ Mem(q) \subseteq Mem(p) \ S /\ Kept(p, q)
             /\ \A u \in Mem(q) : InputTxs(u) \intersect Mem(p) \subseteq Mem(q)
<1> DEFINE G == CalculateDescendants(p, S)
<1>1. DownClosed(p, G) /\ G \intersect U = {} /\ S \subseteq G
  BY DescendantsOutside
<1> HIDE DEF G
<1> DEFINE q == RemoveStaged(p, G, FALSE)
<1>2. InOrder(q, U, Q, b) /\ Mem(q) = Mem(p) \ G /\ Kept(p, q) /\ \A u \in Mem(p) \ G : InputTxs(u) \intersect G = {}
  BY Zenon, <1>1, RemoveStagedOk
<1> HIDE DEF q
<1>3. q = RemoveWithDescendants(p, S)
  BY DEF q, G, RemoveWithDescendants
<1>4. Mem(q) \subseteq Mem(p) \ S /\ \A u \in Mem(q) : InputTxs(u) \intersect Mem(p) \subseteq Mem(q)
  BY <1>1, <1>2
<1> QED
  BY <1>2, <1>3, <1>4

\* ClearPrioritisation changes nothing but mapDeltas.
LEMMA ClearParts ==
  ASSUME NEW p, NEW T, Fine(p)
  PROVE  LET q == ClearPrioritisation(p, T)
         IN  /\ Fine(q) /\ Mem(q) = Mem(p) /\ q.tx = p.tx /\ q.next = p.next
             /\ \A t \in Tx : q.delta[t] = IF t \in T THEN 0 ELSE p.delta[t]
<1> DEFINE q == ClearPrioritisation(p, T)
<1>1. p \in Pools /\ Linked(p) /\ Counted(p) /\ NextOk(p)
  BY DEF Fine
<1>2. p = [tx |-> p.tx, next |-> p.next, delta |-> p.delta]
  BY <1>1 DEF Pools
<1>3. p.delta \in [Tx -> Int] /\ Mem(p) \in SUBSET (Tx \ Coinbase) /\ p.tx \in [Mem(p) -> Entry]
  BY <1>1, PoolType
<1>4. q = [tx |-> p.tx, next |-> p.next, delta |-> [t \in Tx |-> IF t \in T THEN 0 ELSE p.delta[t]]]
  BY <1>2 DEF ClearPrioritisation
<1> HIDE DEF q
<1>5. q.tx = p.tx /\ q.next = p.next /\ Mem(q) = Mem(p)
  BY <1>4 DEF Mem
<1>6. \A t \in Tx : q.delta[t] = IF t \in T THEN 0 ELSE p.delta[t]
  BY <1>4
<1>7. q \in Pools
  <2>1. [t \in Tx |-> IF t \in T THEN 0 ELSE p.delta[t]] \in [Tx -> Int]
    BY <1>3
  <2> QED
    BY <1>1, <1>4, <2>1 DEF Pools
<1>8. Linked(q) /\ NextOk(q)
  BY <1>1, <1>5 DEF Linked, NextOk
<1>9. \A t \in Mem(q) : Ancestors(q, t) = Ancestors(p, t) /\ Down(q, t) = Down(p, t)
  BY <1>5 DEF Ancestors, Down, CalculateDescendants, Reachable
<1>10. ASSUME NEW S \in SUBSET Mem(q)
       PROVE  Package(q, S) = Package(p, S)
  <2>1. S \in SUBSET (Mem(p) \intersect Mem(q)) /\ \A u \in S : q.tx[u].feeDelta = p.tx[u].feeDelta
    BY <1>5
  <2> QED
    BY <1>1, <1>7, <2>1, PackageSame
<1>11. Counted(q)
  <2> SUFFICES ASSUME NEW t \in Mem(q)
               PROVE  /\ q.tx[t].anc = Package(q, {t} \union Ancestors(q, t))
                      /\ q.tx[t].desc = Package(q, Down(q, t))
    BY DEF Counted
  <2>1. {t} \union Ancestors(q, t) \in SUBSET Mem(q) /\ Down(q, t) \in SUBSET Mem(q)
    BY <1>8, UpIn, DownIn DEF Down
  <2>2. p.tx[t].anc = Package(p, {t} \union Ancestors(p, t)) /\ p.tx[t].desc = Package(p, Down(p, t))
    BY <1>1, <1>5 DEF Counted
  <2> QED
    BY <1>5, <1>9, <1>10, <2>1, <2>2
<1>12. Fine(q)
  BY <1>7, <1>8, <1>11 DEF Fine
<1> QED
  BY <1>5, <1>6, <1>12 DEF q

\* Fee deltas play no part in the order of the pool.
LEMMA ClearOk ==
  ASSUME NEW p, NEW T, NEW U, NEW Q, NEW b, InOrder(p, U, Q, b)
  PROVE  InOrder(ClearPrioritisation(p, T), U, Q, b)
<1> DEFINE q == ClearPrioritisation(p, T)
<1>1. Fine(p)
  BY DEF InOrder
<1>2. Fine(q) /\ Mem(q) = Mem(p) /\ q.tx = p.tx
  BY <1>1, ClearParts
<1> HIDE DEF q
<1>3. InOrder(q, U, Q, b)
  BY <1>2 DEF InOrder, LinksAre, Apart, Supplied, Above
<1> QED
  BY <1>3 DEF q

\* removeRecursive for transactions of the queue, which leave it.
LEMMA RemoveRecursiveOk ==
  ASSUME NEW p, NEW T, NEW U, NEW Q, NEW b, InOrder(p, U, Q, b), T \in SUBSET Q
  PROVE  LET q == removeRecursive(p, T) IN InOrder(q, U, Q \ T, b) /\ Kept(p, q)
<1> DEFINE S == UNION {IF t \in DOMAIN p.tx THEN {t} ELSE Spenders(p, t) : t \in T}
           q == RemoveWithDescendants(p, S)
<1>1. Fine(p) /\ NextOk(p) /\ Above(p, U, Q) /\ Apart(p, U, Q, b)
  BY DEF InOrder, Fine
<1>2. T \intersect Mem(p) = {}
  BY <1>1 DEF Apart
<1>3. ASSUME NEW t \in T
      PROVE  Spenders(p, t) = {u \in Mem(p) : t \in InputTxs(u)}
  <2>1. \A o \in DOMAIN p.next : p.next[o] \in Mem(p) /\ o \in Ins(p.next[o])
    BY <1>1 DEF NextOk
  <2>2. \A u \in Mem(p) : \A o \in Ins(u) : o \in DOMAIN p.next /\ p.next[o] = u
    BY <1>1 DEF NextOk
  <2> QED
    BY <2>1, <2>2 DEF Spenders, InputTxs
<1>4. S = {u \in Mem(p) : InputTxs(u) \intersect T # {}}
  BY <1>2, <1>3 DEF Mem
<1>5. S \in SUBSET (Mem(p) \ U)
  BY <1>1, <1>4 DEF Above
<1> HIDE DEF S
<1>6. InOrder(q, U, Q, b) /\ Mem(q) \subseteq Mem(p) \ S /\ Kept(p, q)
  BY Zenon, <1>5, RemoveOk
<1> HIDE DEF q
<1>7. \A u \in Mem(q) : \A o \in Ins(u) : o[1] \notin T
  BY <1>4, <1>6 DEF InputTxs
<1>8. InOrder(q, U, Q \ T, b)
  <2>1. Supplied(q, Q \ T, b)
    BY <1>6, <1>7 DEF InOrder, Supplied
  <2>2. Apart(q, U, Q \ T, b) /\ Above(q, U, Q \ T)
    BY <1>6 DEF InOrder, Apart, Above
  <2> QED
    BY <1>6, <2>1, <2>2 DEF InOrder
<1> QED
  BY <1>6, <1>8 DEF q, S, removeRecursive

\* A disconnected block gives its transactions to the queue.
LEMMA DisconnectOk ==
  ASSUME NEW p, NEW Q, NEW b, Valid(b), b # Genesis, InOrder(p, {}, Q, b)
  PROVE  InOrder(p, {}, Q \union Range(Body[b]), Prev[b])
<1> DEFINE B == Range(Body[b])
<1>1. Confirmed(b) = Confirmed(Prev[b]) \union B /\ B \intersect Confirmed(Prev[b]) = {}
  BY ConfirmedStep, ChainSpends DEF Valid
<1>2. \A t \in Confirmed(b) : InputTxs(t) \subseteq Confirmed(b)
  BY ChainSpends
<1> HIDE DEF B
<1>3. Apart(p, {}, Q, b) /\ Above(p, {}, Q) /\ Supplied(p, Q, b)
  BY DEF InOrder
<1>4. Apart(p, {}, Q \union B, Prev[b]) /\ Above(p, {}, Q \union B)
  BY <1>1, <1>2, <1>3 DEF Apart, Above
<1>5. \A o : HaveCoin(b, o) => o[1] \in B \/ HaveCoin(Prev[b], o)
  BY <1>1 DEF HaveCoin
<1>6. Supplied(p, Q \union B, Prev[b])
  BY Zenon, <1>3, <1>5 DEF Supplied
<1> QED
  BY Zenon, <1>4, <1>6 DEF InOrder, B

(***************************************************************************)
(* Connecting a block                                                      *)
(***************************************************************************)
\* removeConflicts leaves no entry that spends what t spends.
LEMMA RemoveConflictsOk ==
  ASSUME NEW p, NEW t \in Tx, NEW Q, NEW b, InOrder(p, {}, Q, b), Noted(p), t \notin Mem(p)
  PROVE  LET q == removeConflicts(p, t)
         IN  /\ InOrder(q, {}, Q, b) /\ Noted(q) /\ Mem(q) \subseteq Mem(p)
             /\ \A u \in Mem(q) : Ins(u) \intersect Ins(t) = {}
<1> DEFINE spent == {i \in DOMAIN vin[t] : vin[t][i] \in DOMAIN p.next /\ p.next[vin[t][i]] # t}
           conflict == [i \in spent |-> p.next[vin[t][i]]]
           found == {i \in spent : \A j \in spent :
                       j < i => conflict[i] \notin CalculateDescendants(p, {conflict[j]})}
           T == {conflict[i] : i \in found}
           S == {conflict[i] : i \in spent}
           c == ClearPrioritisation(p, T)
           q == removeRecursive(c, S)
<1>1. q = removeConflicts(p, t)
  BY Zenon DEF removeConflicts
<1>2. T \subseteq S
  BY Zenon
<1>3. Fine(p) /\ NextOk(p) /\ p \in Pools
  BY DEF InOrder, Fine
<1>4. /\ \A o \in DOMAIN p.next : p.next[o] \in Mem(p)
      /\ \A u \in Mem(p) : \A o \in Ins(u) : o \in DOMAIN p.next /\ p.next[o] = u
  BY <1>3 DEF NextOk
<1>5. S \subseteq Mem(p)
  BY Zenon, <1>4
<1>6. \A u \in Mem(p) : Ins(u) \intersect Ins(t) # {} => u \in S
  <2> SUFFICES ASSUME NEW u \in Mem(p), NEW o \in Ins(u), o \in Ins(t)
               PROVE  u \in S
    OBVIOUS
  <2>1. PICK i \in DOMAIN vin[t] : o = vin[t][i]
    BY DEF Ins, Range
  <2>2. i \in spent /\ conflict[i] = u
    BY Zenon, <1>4, <2>1
  <2> HIDE DEF spent, conflict
  <2> QED
    BY <2>2
<1> HIDE DEF T, S, found, conflict, spent, q
<1>7. Mem(c) = Mem(p) /\ c.tx = p.tx /\ \A u \in Tx : c.delta[u] = IF u \in T THEN 0 ELSE p.delta[u]
  BY <1>3, ClearParts
<1>8. InOrder(c, {}, Q, b)
  BY ClearOk
<1> HIDE DEF c
<1>9. q = RemoveWithDescendants(c, S)
  <2>1. UNION {IF u \in DOMAIN c.tx THEN {u} ELSE Spenders(c, u) : u \in S} = S
    BY <1>5, <1>7 DEF Mem
  <2> QED
    BY <2>1 DEF q, removeRecursive
<1>10. InOrder(q, {}, Q, b) /\ Mem(q) \subseteq Mem(c) \ S /\ Kept(c, q)
  <2>1. S \in SUBSET (Mem(c) \ {})
    BY <1>5, <1>7
  <2> QED
    BY <1>8, <1>9, <2>1, RemoveOk
<1>11. Noted(q)
  <2>1. \A u \in Mem(q) : u \in Tx /\ u \in Mem(p) /\ u \notin T
    BY Zenon, <1>2, <1>3, <1>7, <1>10, PoolType
  <2>2. ASSUME NEW u \in Mem(q)
        PROVE  /\ q.tx[u].feeDelta = p.tx[u].feeDelta /\ q.delta[u] = p.delta[u]
               /\ q.tx[u].spendsCoinbase = p.tx[u].spendsCoinbase
    BY Zenon, <1>7, <1>10, <2>1 DEF Kept
  <2> QED
    BY Zenon, <2>1, <2>2 DEF Noted
<1>12. Mem(q) \subseteq Mem(p) /\ \A u \in Mem(q) : Ins(u) \intersect Ins(t) = {}
  BY <1>6, <1>7, <1>10
<1> QED
  BY <1>1, <1>10, <1>11, <1>12

\* The first i transactions of b.
Done(b, i) == {Body[b][j] : j \in 1 .. i}

\* The pool when i transactions of b have been removed: they are as if in the queue.
Halfway(p, Q, b, i) ==
  /\ InOrder(p, {}, Q \union Done(b, i), Prev[b]) /\ Noted(p)
  /\ \A u \in Mem(p) : \A t \in Done(b, i) : Ins(u) \intersect Ins(t) = {}

\* One round of removeForBlock.
LEMMA RemoveTxOk ==
  ASSUME NEW b, Valid(b), b # Genesis, NEW Q, NEW i \in DOMAIN Body[b], NEW p, Halfway(p, Q, b, i - 1)
  PROVE  LET q == RemoveTx(p, Body[b][i]) IN Halfway(q, Q, b, i) /\ Mem(q) \subseteq Mem(p)
<1> DEFINE t == Body[b][i]
           Q1 == Q \union Done(b, i - 1)
           Q2 == Q \union Done(b, i)
           r == IF t \in DOMAIN p.tx THEN RemoveStaged(p, {t}, TRUE) ELSE p
           s == removeConflicts(r, t)
           q == ClearPrioritisation(s, {t})
<1>1. t \in Tx /\ i \in Nat \ {0}
  BY BodyType DEF Valid
<1>2. Done(b, i) = Done(b, i - 1) \union {t}
  <2>1. 1 .. i = (1 .. i - 1) \union {i}
    BY <1>1
  <2> QED
    BY <2>1 DEF Done
<1>3. t \notin Confirmed(Prev[b]) /\ InputTxs(t) \subseteq Confirmed(Prev[b]) \union Done(b, i - 1)
  <2>1. Before(b, i) = Confirmed(Prev[b]) \union Done(b, i - 1)
    BY DEF Before, Done
  <2> QED
    BY <2>1, BodyConnects
<1> HIDE DEF t
<1>4. /\ Fine(p) /\ LinksAre(p, {}) /\ Apart(p, {}, Q1, Prev[b]) /\ Supplied(p, Q1, Prev[b])
      /\ Above(p, {}, Q1) /\ Noted(p)
      /\ \A u \in Mem(p) : \A x \in Done(b, i - 1) : Ins(u) \intersect Ins(x) = {}
  BY Zenon DEF Halfway, InOrder
<1>5. InputTxs(t) \intersect Mem(p) = {}
  BY Zenon, <1>3, <1>4 DEF Apart
<1>6. Less(p, r, {t})
  <2>1. CASE t \in Mem(p)
    <3>1. p.tx[t].parents = {}
      BY Zenon, <1>4, <1>5, <2>1 DEF Fine, Linked, LinksAre
    <3>2. r = RemoveStaged(p, {t}, TRUE)
      BY <2>1 DEF Mem
    <3> QED
      BY Zenon, <1>4, <2>1, <3>1, <3>2, RemoveTop
  <2>2. CASE t \notin Mem(p)
    <3>1. r = p
      BY Zenon, <2>2 DEF Mem
    <3>2. Mem(p) = Mem(p) \ {t} /\ \A u \in Mem(p) : p.tx[u].children = p.tx[u].children \ {t}
      BY Zenon, <1>4, <2>2 DEF Fine, Linked
    <3> QED
      BY Zenon, <1>4, <3>1, <3>2 DEF Less
  <2> QED
    BY Zenon, <2>1, <2>2
<1> HIDE DEF r
<1>7. Fine(r) /\ Mem(r) = Mem(p) \ {t} /\ r.delta = p.delta
  BY <1>6 DEF Less
<1>8. InOrder(r, {}, Q2, Prev[b])
  <2>1. LinksAre(r, {})
    <3>1. \A u \in Mem(r) : r.tx[u].children = p.tx[u].children \ {t}
      BY <1>6 DEF Less
    <3> QED
      BY Zenon, <1>4, <1>7, <3>1 DEF LinksAre
  <2>2. Apart(r, {}, Q2, Prev[b])
    BY Zenon, <1>2, <1>3, <1>4, <1>7 DEF Apart
  <2>3. Supplied(r, Q2, Prev[b])
    BY Zenon, <1>2, <1>4, <1>7 DEF Supplied
  <2>4. Above(r, {}, Q2)
    BY Zenon, <1>2, <1>4, <1>5, <1>7 DEF Above
  <2> QED
    BY Zenon, <1>7, <2>1, <2>2, <2>3, <2>4 DEF InOrder
<1>9. Noted(r)
  BY Zenon, <1>4, <1>6, <1>7 DEF Noted, Less
<1>10. /\ InOrder(s, {}, Q2, Prev[b]) /\ Noted(s) /\ Mem(s) \subseteq Mem(r)
       /\ \A u \in Mem(s) : Ins(u) \intersect Ins(t) = {}
  BY Zenon, <1>1, <1>7, <1>8, <1>9, RemoveConflictsOk
<1> HIDE DEF s
<1>11. InOrder(q, {}, Q2, Prev[b])
  BY Zenon, <1>10, ClearOk
<1>12. Mem(q) = Mem(s) /\ q.tx = s.tx /\ \A u \in Tx : q.delta[u] = IF u \in {t} THEN 0 ELSE s.delta[u]
  <2>1. Fine(s)
    BY Zenon, <1>10 DEF InOrder
  <2> QED
    BY ZenonT(40), <2>1, ClearParts
<1> HIDE DEF q
<1>13. Noted(q)
  <2>1. \A u \in Mem(q) : u # t /\ u \in Tx
    BY Zenon, <1>7, <1>10, <1>12, PoolType DEF Fine
  <2> QED
    BY Zenon, <1>10, <1>12, <2>1 DEF Noted
<1>14. \A u \in Mem(q) : \A x \in Done(b, i) : Ins(u) \intersect Ins(x) = {}
  BY Zenon, <1>2, <1>4, <1>7, <1>10, <1>12
<1>15. Halfway(q, Q, b, i) /\ Mem(q) \subseteq Mem(p)
  BY Zenon, <1>7, <1>10, <1>11, <1>12, <1>13, <1>14 DEF Halfway
<1> QED
  BY Zenon, <1>15 DEF q, s, r, t, RemoveTx

\* removeForBlock, then, in the words of the chain that ends in the new block.
LEMMA RemoveForBlockOk ==
  ASSUME NEW b, Valid(b), b # Genesis, NEW Q, NEW p, InOrder(p, {}, Q, Prev[b]), Noted(p)
  PROVE  LET q == removeForBlock(p, b)
         IN  InOrder(q, {}, Q \ Range(Body[b]), b) /\ Noted(q) /\ Mem(q) \subseteq Mem(p)
<1> DEFINE N == Len(Body[b])
           Ok == {x \in Pools \X (0 .. N) : Halfway(x[1], Q, b, x[2]) /\ Mem(x[1]) \subseteq Mem(p)}
           F == [x \in Pools \X (1 .. N) |-> RemoveTx(x[1], Body[b][x[2]])]
           Def(f) == f = [i \in 0 .. N |-> IF i = 0 THEN p ELSE RemoveTx(f[i - 1], Body[b][i])]
<1>1. N \in Nat /\ DOMAIN Body[b] = 1 .. N
  BY Zenon, BodyType DEF Valid
<1> HIDE DEF N
<1>2. <<p, 0>> \in Ok
  <2>1. Done(b, 0) = {}
    BY DEF Done
  <2>2. Q \union Done(b, 0) = Q
    BY <2>1
  <2>3. Halfway(p, Q, b, 0)
    BY <2>1, <2>2 DEF Halfway
  <2>4. p \in Pools /\ 0 \in 0 .. N
    BY <1>1 DEF InOrder, Fine
  <2> QED
    BY <2>3, <2>4
<1>3. ASSUME NEW i \in 1 .. N, NEW s, <<s, i - 1>> \in Ok
      PROVE  <<RemoveTx(s, Body[b][i]), i>> \in Ok
  <2>1. Halfway(s, Q, b, i - 1) /\ Mem(s) \subseteq Mem(p)
    BY <1>3
  <2> DEFINE r == RemoveTx(s, Body[b][i])
  <2>2. i \in DOMAIN Body[b] /\ i \in 0 .. N
    BY <1>1
  <2>3. Halfway(r, Q, b, i) /\ Mem(r) \subseteq Mem(s)
    BY Zenon, <2>1, <2>2, RemoveTxOk
  <2> HIDE DEF r
  <2>4. r \in Pools
    BY <2>3 DEF Halfway, InOrder, Fine
  <2>5. <<r, i>> \in Ok
    BY <2>1, <2>2, <2>3, <2>4
  <2> QED
    BY Zenon, <2>5 DEF r
<1>4. \A s, i : <<s, i>> \in Ok => s \in Pools
  OBVIOUS
<1> HIDE DEF Ok
<1>5. \E f : Def(f)
  <2> HIDE DEF F
  <2>0. PICK f : IsRounds(f, N, p, F)
    BY <1>1, Rounds
  <2>1. f = [i \in 0 .. N |-> f[i]] /\ f[0] = p /\ \A i \in 1 .. N : f[i] = F[<<f[i - 1], i>>]
    BY Zenon, <2>0 DEF IsRounds
  <2> DEFINE I == {i \in 0 .. N : <<f[i], i>> \in Ok}
  <2>2. 0 \in I
    BY <1>1, <1>2, <2>1
  <2>3. ASSUME NEW i \in 1 .. N, i - 1 \in 0 .. N, <<f[i - 1], i - 1>> \in Ok
        PROVE  f[i] = RemoveTx(f[i - 1], Body[b][i])
    <3>1. f[i] = F[<<f[i - 1], i>>]
      BY Zenon, <2>1
    <3>2. f[i - 1] \in Pools
      BY <1>4, <2>3
    <3> HIDE DEF I
    <3> QED
      BY <3>1, <3>2 DEF F
  <2>4. \A i \in 1 .. N : i - 1 \in I => i \in I
    BY <1>3, <2>3
  <2> HIDE DEF I
  <2>5. \A i \in 0 .. N : i \in I
    BY Zenon, <1>1, <2>2, <2>4, UpTo
  <2>6. \A i \in 1 .. N : f[i] = RemoveTx(f[i - 1], Body[b][i])
    <3>1. \A i \in 1 .. N : i - 1 \in 0 .. N
      BY <1>1
    <3> QED
      BY Zenon, <2>3, <2>5, <3>1 DEF I
  <2>7. f[0] = p /\ f = [i \in 0 .. N |-> f[i]]
    BY <1>1, <2>1
  <2>8. \A i \in 0 .. N : f[i] = IF i = 0 THEN p ELSE RemoveTx(f[i - 1], Body[b][i])
    <3>1. \A i \in 0 .. N : i = 0 \/ i \in 1 .. N
      BY <1>1
    <3> QED
      BY Zenon, <2>6, <2>7, <3>1
  <2>9. Def(f)
    BY <2>7, <2>8
  <2> QED
    BY Zenon, <2>9
<1> DEFINE After == CHOOSE f : Def(f)
<1>6. Def(After)
  BY Zenon, <1>5
<1>7. removeForBlock(p, b) = After[N]
  BY Zenon DEF removeForBlock, N
<1> HIDE DEF After
<1> DEFINE g == [i \in 0 .. N |-> IF i = 0 THEN p ELSE RemoveTx(After[i - 1], Body[b][i])]
<1>g. g[0] = p /\ \A i \in 1 .. N : g[i] = RemoveTx(After[i - 1], Body[b][i])
  BY <1>1
<1> HIDE DEF g
<1>h. After = g
  BY Zenon, <1>6 DEF g
<1>8. <<After[N], N>> \in Ok
  <2> DEFINE I == {i \in 0 .. N : <<After[i], i>> \in Ok}
  <2>1. 0 \in I
    BY <1>1, <1>2, <1>g, <1>h
  <2>2. ASSUME NEW i \in 1 .. N, i - 1 \in I
        PROVE  i \in I
    <3>1. After[i] = RemoveTx(After[i - 1], Body[b][i])
      BY <1>g, <1>h
    <3>2. i - 1 \in 0 .. N /\ i \in 0 .. N /\ <<After[i - 1], i - 1>> \in Ok
      BY <2>2
    <3> QED
      BY <1>3, <3>1, <3>2
  <2> HIDE DEF I
  <2>3. \A i \in 0 .. N : i \in I
    BY Zenon, <1>1, <2>1, <2>2, UpTo
  <2>4. N \in 0 .. N
    BY <1>1
  <2> QED
    BY <2>3, <2>4 DEF I
<1> DEFINE q == After[N]
           B == Range(Body[b])
<1>9. Halfway(q, Q, b, N) /\ Mem(q) \subseteq Mem(p)
  BY <1>8 DEF Ok
<1> HIDE DEF q
<1>10. Done(b, N) = B
  BY <1>1 DEF Done, Range
<1>11. Confirmed(b) = Confirmed(Prev[b]) \union B /\ B \intersect Confirmed(Prev[b]) = {}
  BY ConfirmedStep, ChainSpends DEF Valid
<1>12. \A t \in Confirmed(Prev[b]) : InputTxs(t) \subseteq Confirmed(Prev[b])
  BY Zenon, ValidPrev, ChainSpends
<1> HIDE DEF B
<1>13. /\ Fine(q) /\ LinksAre(q, {}) /\ Apart(q, {}, Q \union B, Prev[b]) /\ Supplied(q, Q \union B, Prev[b])
       /\ Above(q, {}, Q \union B) /\ Noted(q)
       /\ \A u \in Mem(q) : \A t \in B : Ins(u) \intersect Ins(t) = {}
  BY <1>9, <1>10 DEF Halfway, InOrder
<1>14. Apart(q, {}, Q \ B, b) /\ Above(q, {}, Q \ B)
  <2>1. Q \intersect Confirmed(Prev[b]) = {}
    BY DEF InOrder, Apart
  <2> QED
    BY Zenon, <1>11, <1>13, <2>1 DEF Apart, Above
<1>15. Supplied(q, Q \ B, b)
  <2> SUFFICES ASSUME NEW u \in Mem(q), NEW o \in Ins(u)
               PROVE  o[1] \in Mem(q) \union (Q \ B) \/ HaveCoin(b, o)
    BY DEF Supplied
  <2>1. \A t \in B : o \notin Ins(t)
    BY <1>13
  <2>2. CASE HaveCoin(Prev[b], o)
    BY <1>11, <2>1, <2>2 DEF HaveCoin
  <2>3. CASE o[1] \in B
    <3>1. \A t \in Confirmed(Prev[b]) : o \notin Ins(t)
      BY <1>11, <1>12, <2>3 DEF InputTxs
    <3> QED
      BY <1>11, <2>1, <2>3, <3>1 DEF HaveCoin
  <2>4. CASE o[1] \in Mem(q) \union (Q \ B)
    BY <2>4
  <2>5. o[1] \in Mem(q) \union Q \union B \/ HaveCoin(Prev[b], o)
    BY Zenon, <1>13 DEF Supplied
  <2> QED
    BY Zenon, <2>2, <2>3, <2>4, <2>5
<1>16. InOrder(q, {}, Q \ B, b) /\ Noted(q)
  BY Zenon, <1>13, <1>14, <1>15 DEF InOrder
<1> QED
  BY <1>7, <1>9, <1>16 DEF q, B

(***************************************************************************)
(* Accepting a transaction                                                 *)
(***************************************************************************)
\* q is p with the new entry t.
More(p, q, t) ==
  /\ Fine(q) /\ Mem(q) = Mem(p) \union {t} /\ q.tx[t].children = {} /\ t \notin Mem(p)
  /\ \A u \in Mem(p) : q.tx[u].children = IF u \in InputTxs(t) THEN p.tx[u].children \union {t}
                                          ELSE p.tx[u].children

\* Accepted removes the conflicts and adds the transaction; what it spends stays.
LEMMA AcceptedParts ==
  ASSUME NEW p, NEW U, NEW Q, NEW b, InOrder(p, U, Q, b), Noted(p),
         NEW t \in Tx \ Coinbase, t \notin Mem(p),
         Conflicts(p, t) \intersect NewAncestors(p, t) = {}, Conflicts(p, t) \intersect U = {}
  PROVE  \E q : /\ InOrder(q, U, Q, b) /\ Mem(q) \subseteq Mem(p)
                /\ InputTxs(t) \intersect Mem(p) \subseteq Mem(q)
                /\ More(q, Accepted(p, t), t) /\ Noted(Accepted(p, t))
                /\ Accepted(p, t).delta = p.delta
                /\ \A u \in Mem(q) : InputTxs(u) \intersect Mem(p) \subseteq Mem(q)
<1> DEFINE C == Conflicts(p, t)
           A == NewAncestors(p, t)
           G == CalculateDescendants(p, C)
           q == RemoveStaged(p, G, FALSE)
           r == addUnchecked(q, t, A)
<1>1. Accepted(p, t) = r
  BY DEF Accepted, RemoveWithDescendants
<1>2. Fine(p) /\ Linked(p) /\ NextOk(p)
  BY DEF InOrder, Fine
<1>3. C \in SUBSET (Mem(p) \ U)
  BY <1>2 DEF Conflicts, NextOk
<1>4. A \in SUBSET Mem(p) /\ InputTxs(t) \intersect Mem(p) \subseteq A /\ \A a \in A : p.tx[a].parents \subseteq A
  BY <1>2, NewIn
<1> HIDE DEF C, A
<1>5. DownClosed(p, G) /\ G \intersect U = {} /\ C \subseteq G
  BY <1>3, DescendantsOutside
<1>6. G \intersect A = {}
  <2> DEFINE D == Mem(p) \ A
  <2>1. D \in SUBSET Mem(p) /\ C \subseteq D /\ \A x \in D : p.tx[x].children \subseteq D
    BY <1>2, <1>3, <1>4 DEF Linked, C, A
  <2> HIDE DEF D
  <2>2. G \subseteq D
    BY <2>1, DownLeast
  <2> QED
    BY <2>2 DEF D
<1> HIDE DEF G
<1>7. /\ InOrder(q, U, Q, b) /\ Mem(q) = Mem(p) \ G /\ Kept(p, q)
      /\ \A u \in Mem(p) \ G : InputTxs(u) \intersect G = {}
  BY Zenon, <1>5, RemoveStagedOk
<1>8. Less(p, q, G)
  BY Zenon, <1>2, <1>5, RemoveClosed
<1> HIDE DEF q
<1>9. \A u, v \in Mem(q) : v \in q.tx[u].parents <=> v \in p.tx[u].parents
  <2>1. Linked(q) /\ \A v \in Mem(q) : q.tx[v].children = p.tx[v].children \ G
    BY <1>7, <1>8 DEF InOrder, Fine, Less
  <2>2. \A v \in Mem(q) : v \in Mem(p) /\ v \notin G
    BY Zenon, <1>7
  <2>3. \A u, v \in Mem(q) : u \in q.tx[v].children <=> u \in p.tx[v].children
    BY Zenon, <2>1, <2>2
  <2>4. \A u, v \in Mem(q) : u \in q.tx[v].children <=> v \in q.tx[u].parents
    BY Zenon, <2>1 DEF Linked
  <2>5. \A u, v \in Mem(q) : u \in p.tx[v].children <=> v \in p.tx[u].parents
    BY Zenon, <1>2, <2>2 DEF Linked
  <2> QED
    BY Zenon, <2>3, <2>4, <2>5
<1>10. A \in SUBSET Mem(q) /\ InputTxs(t) \intersect Mem(p) = InputTxs(t) \intersect Mem(q)
  BY <1>4, <1>6, <1>7
<1>11. NewAncestors(q, t) = A
  <2>1. Linked(q)
    BY <1>7 DEF InOrder, Fine
  <2> DEFINE B == NewAncestors(q, t)
  <2>2. B \in SUBSET Mem(q) /\ InputTxs(t) \intersect Mem(q) \subseteq B /\ \A a \in B : q.tx[a].parents \subseteq B
    BY <2>1, NewIn
  <2>3. \A a \in A : q.tx[a].parents \subseteq A
    <3>1. \A a \in Mem(q) : q.tx[a].parents \subseteq Mem(q)
      BY <2>1 DEF Linked
    <3> QED
      BY <1>4, <1>9, <1>10, <3>1
  <2>4. B \subseteq A
    BY <1>4, <1>10, <2>3, NewLeast
  <2> HIDE DEF B
  <2>5. \A a \in B : p.tx[a].parents \subseteq B
    BY <1>4, <1>9, <1>10, <2>2, <2>4
  <2>6. B \in SUBSET Mem(p) /\ InputTxs(t) \intersect Mem(p) \subseteq B
    BY <1>7, <1>10, <2>2
  <2>7. A \subseteq B
    BY <2>5, <2>6, NewLeast DEF A
  <2> QED
    BY <2>4, <2>7 DEF B
<1>12. Fine(q) /\ t \notin Mem(q) /\ Ins(t) \intersect DOMAIN q.next = {}
  <2>1. Fine(q) /\ NextOk(q)
    BY <1>7 DEF InOrder, Fine
  <2>2. ASSUME NEW o \in Ins(t), o \in DOMAIN q.next
        PROVE  FALSE
    <3>1. PICK u \in Mem(q) : o \in Ins(u)
      BY <2>1, <2>2 DEF NextOk
    <3>2. o \in DOMAIN p.next /\ p.next[o] = u
      BY <1>2, <1>7, <3>1 DEF NextOk
    <3> QED
      BY <1>5, <1>7, <3>2 DEF C, Conflicts
  <2> QED
    BY <1>7, <2>1, <2>2
<1>13. Joined(q, r, t)
  BY <1>11, <1>12, AddFine
<1> HIDE DEF r
<1>14. More(q, r, t)
  BY <1>12, <1>13 DEF More, Joined
<1>17. InOrder(q, U, Q, b) /\ Mem(q) \subseteq Mem(p) /\ InputTxs(t) \intersect Mem(p) \subseteq Mem(q)
  BY <1>7, <1>10
<1>15. Noted(r) /\ r.delta = p.delta
  <2>1. /\ Mem(r) = Mem(q) \union {t} /\ r.delta = p.delta /\ r.tx[t].feeDelta = p.delta[t]
        /\ r.tx[t].spendsCoinbase = (InputTxs(t) \intersect Coinbase # {})
    BY <1>7, <1>13 DEF Joined, Kept
  <2>2. \A u \in Mem(q) : r.tx[u].feeDelta = p.tx[u].feeDelta /\ r.tx[u].spendsCoinbase = p.tx[u].spendsCoinbase
    BY Zenon, <1>7, <1>13 DEF Joined, Kept
  <2>3. \A u \in Mem(q) : /\ r.tx[u].feeDelta = r.delta[u]
                          /\ r.tx[u].spendsCoinbase = (InputTxs(u) \intersect Coinbase # {})
    BY Zenon, <1>17, <2>1, <2>2 DEF Noted
  <2> QED
    BY <2>1, <2>3 DEF Noted
<1>16. \A u \in Mem(q) : InputTxs(u) \intersect Mem(p) \subseteq Mem(q)
  BY <1>7
<1> QED
  BY Zenon, <1>1, <1>14, <1>15, <1>16, <1>17

\* A transaction whose inputs exist is not in the chain.
LEMMA NotConfirmed ==
  ASSUME NEW b, Valid(b), NEW M, M \intersect Confirmed(b) = {}, NEW t \in Tx \ Coinbase,
         \A o \in Ins(t) : o[1] \in M \/ HaveCoin(b, o)
  PROVE  t \notin Confirmed(b)
<1> SUFFICES ASSUME t \in Confirmed(b) PROVE FALSE
  OBVIOUS
<1>1. PICK o \in Ins(t) : TRUE
  BY InsType
<1>2. o[1] \in Confirmed(b)
  BY <1>1, InsType, ChainSpends
<1> QED
  BY <1>1, <1>2 DEF HaveCoin

\* AcceptToMemoryPool outside a reorganisation.
LEMMA AcceptOk ==
  ASSUME NEW p, NEW b, Valid(b), InOrder(p, {}, {}, b), Noted(p), NEW t \in Tx \ Coinbase, t \notin Mem(p),
         \A o \in Ins(t) : o[1] \in Mem(p) \/ HaveCoin(b, o),
         Conflicts(p, t) \intersect NewAncestors(p, t) = {}
  PROVE  LET r == Accepted(p, t)
         IN  /\ InOrder(r, {}, {}, b) /\ Noted(r) /\ Mem(r) \subseteq Mem(p) \union {t}
             /\ \A u \in Mem(r) : InputTxs(u) \intersect Mem(p) \subseteq Mem(r)
<1> DEFINE r == Accepted(p, t)
<1>1. PICK q : /\ InOrder(q, {}, {}, b) /\ Mem(q) \subseteq Mem(p)
               /\ InputTxs(t) \intersect Mem(p) \subseteq Mem(q)
               /\ More(q, r, t) /\ Noted(r)
               /\ \A u \in Mem(q) : InputTxs(u) \intersect Mem(p) \subseteq Mem(q)
  <2>1. Conflicts(p, t) \intersect {} = {}
    OBVIOUS
  <2> QED
    BY Zenon, <2>1, AcceptedParts
<1> HIDE DEF r
<1>2. /\ Fine(r) /\ Mem(r) = Mem(q) \union {t} /\ r.tx[t].children = {} /\ t \notin Mem(q)
      /\ \A u \in Mem(q) : r.tx[u].children = IF u \in InputTxs(t) THEN q.tx[u].children \union {t}
                                              ELSE q.tx[u].children
  BY <1>1 DEF More
<1>3. LinksAre(q, {}) /\ Apart(q, {}, {}, b) /\ Supplied(q, {}, b)
  BY <1>1 DEF InOrder
<1>4. t \notin Confirmed(b)
  <2>1. Mem(p) \intersect Confirmed(b) = {}
    BY DEF InOrder, Apart
  <2> QED
    BY <2>1, NotConfirmed
<1>5. \A u \in Mem(q) : t \notin InputTxs(u)
  BY <1>2, <1>3, <1>4 DEF Supplied, HaveCoin, InputTxs
<1>6. t \notin InputTxs(t)
  BY InsType
<1>7. LinksAre(r, {})
  <2> SUFFICES ASSUME NEW v \in Mem(r), NEW u \in Mem(r)
               PROVE  u \in r.tx[v].children <=> v \in InputTxs(u)
    BY DEF LinksAre
  <2>1. CASE v = t
    BY <1>2, <1>5, <1>6, <2>1
  <2>2. CASE v \in Mem(q) /\ u = t
    <3>1. t \notin q.tx[v].children
      BY Zenon, <1>1, <1>2, <2>2 DEF InOrder, Fine, Linked
    <3> QED
      BY Zenon, <1>2, <2>2, <3>1
  <2>3. CASE v \in Mem(q) /\ u \in Mem(q)
    BY ZenonT(40), <1>2, <1>3, <2>3 DEF LinksAre
  <2> QED
    BY <1>2, <2>1, <2>2, <2>3
<1>8. Apart(r, {}, {}, b) /\ Above(r, {}, {})
  BY <1>2, <1>3, <1>4 DEF Apart, Above
<1>9. Supplied(r, {}, b)
  <2>1. \A o \in Ins(t) : o[1] \in Mem(q) \/ HaveCoin(b, o)
    BY <1>1 DEF InputTxs
  <2> QED
    BY <1>2, <1>3, <2>1 DEF Supplied
<1>10. InOrder(r, {}, {}, b)
  BY <1>2, <1>7, <1>8, <1>9 DEF InOrder
<1>11. Mem(r) \subseteq Mem(p) \union {t} /\ \A u \in Mem(r) : InputTxs(u) \intersect Mem(p) \subseteq Mem(r)
  BY <1>1, <1>2
<1> QED
  BY <1>1, <1>10, <1>11 DEF r

\* AcceptToMemoryPool for a transaction of the queue that depends on no other in it.
LEMMA AddBackOk ==
  ASSUME NEW p, NEW U, NEW Q, NEW b, Valid(b), InOrder(p, U, Q, b), Noted(p),
         NEW t \in Tx \ Coinbase, t \in Q, t \notin Mem(p),
         \A o \in Ins(t) : o[1] \in Mem(p) \/ HaveCoin(b, o),
         Conflicts(p, t) \intersect NewAncestors(p, t) = {}, Conflicts(p, t) \intersect U = {},
         \A x \in Q : x \notin InputTxs(t)
  PROVE  LET r == Accepted(p, t)
         IN  InOrder(r, U \union {t}, Q \ {t}, b) /\ Noted(r)
<1> DEFINE r == Accepted(p, t)
           V == U \union {t}
           R == Q \ {t}
<1>1. PICK q : /\ InOrder(q, U, Q, b) /\ InputTxs(t) \intersect Mem(p) \subseteq Mem(q)
               /\ More(q, r, t) /\ Noted(r)
  BY Zenon, AcceptedParts
<1> HIDE DEF r
<1>2. /\ Fine(r) /\ Mem(r) = Mem(q) \union {t} /\ r.tx[t].children = {} /\ t \notin Mem(q)
      /\ \A u \in Mem(q) : r.tx[u].children = IF u \in InputTxs(t) THEN q.tx[u].children \union {t}
                                              ELSE q.tx[u].children
  BY <1>1 DEF More
<1>3. LinksAre(q, U) /\ Apart(q, U, Q, b) /\ Supplied(q, Q, b) /\ Above(q, U, Q)
  BY <1>1 DEF InOrder
<1>4. t \notin InputTxs(t) /\ t \notin Confirmed(b) /\ t \notin U
  BY <1>3, InsType DEF Apart
<1>5. \A u \in Mem(q) : t \in InputTxs(u) => u \notin V
  BY <1>2, <1>3 DEF Above
<1>7. LinksAre(r, V)
  <2> SUFFICES ASSUME NEW v \in Mem(r), NEW u \in Mem(r)
               PROVE  u \in r.tx[v].children <=> v \in InputTxs(u) /\ (v \in V => u \in V)
    BY DEF LinksAre
  <2>1. CASE v = t
    BY <1>2, <1>4, <1>5, <2>1
  <2>2. CASE v \in Mem(q) /\ u = t
    <3>1. t \notin q.tx[v].children
      BY Zenon, <1>1, <1>2, <2>2 DEF InOrder, Fine, Linked
    <3> QED
      BY Zenon, <1>2, <2>2, <3>1
  <2>3. CASE v \in Mem(q) /\ u \in Mem(q)
    <3>1. v # t /\ u # t /\ (u \in q.tx[v].children <=> v \in InputTxs(u) /\ (v \in U => u \in U))
      BY <1>2, <1>3, <2>3 DEF LinksAre
    <3>2. u \in r.tx[v].children <=> u \in q.tx[v].children
      BY Zenon, <1>2, <2>3, <3>1
    <3> QED
      BY <3>1, <3>2
  <2> QED
    BY <1>2, <2>1, <2>2, <2>3
<1>8. Apart(r, V, R, b)
  BY Zenon, <1>2, <1>3, <1>4 DEF Apart
<1>9. Above(r, V, R)
  <2>1. InputTxs(t) \intersect Mem(q) \subseteq U
    BY <1>3 DEF Above
  <2> QED
    BY <1>2, <1>3, <1>4, <2>1 DEF Above
<1>10. Supplied(r, R, b)
  <2>1. \A o \in Ins(t) : o[1] \in Mem(q) \/ HaveCoin(b, o)
    BY <1>1 DEF InputTxs
  <2> QED
    BY <1>2, <1>3, <2>1 DEF Supplied
<1>11. InOrder(r, V, R, b)
  BY Zenon, <1>2, <1>7, <1>8, <1>9, <1>10 DEF InOrder
<1> QED
  BY <1>1, <1>11 DEF r
==============================================================================
