-------------------------- MODULE BlockTreeProofs ---------------------------
(*****************************************************************************)
(* Lemmas on the tree of blocks, for every finite tree, and on finite sets.  *)
(* They take the little they need of numbers from WellFoundedInduction: the  *)
(* fewer facts are in sight, the faster the provers are.                     *)
(*****************************************************************************)
EXTENDS BlockIndex, Sequences, TLAPS, WellFoundedInduction

(***************************************************************************)
(* Numbers and finite sets                                                 *)
(***************************************************************************)
\* A set of natural numbers that is not empty has a least element.
LEMMA LeastNat ==
  ASSUME NEW T \in SUBSET Nat, T # {}
  PROVE  \E n \in T : \A m \in T : n <= m
<1>1. PICK n \in T : \A m \in T : ~(<<m, n>> \in OpToRel(<, Nat))
  <2>1. IsWellFoundedOn(OpToRel(<, Nat), Nat)
    BY NatLessThanWellFounded
  <2>2. QED
    BY <2>1, WFMin
<1>2. \A m \in T : ~(m < n)
  BY Zenon, <1>1 DEF OpToRel
<1>3. QED
  BY <1>2

\* The elements of T can be listed in n places.
Listed(T, n) == \E s \in [1 .. n -> T] : \A z \in T : \E j \in 1 .. n : s[j] = z

\* A subset of a finite set can be listed and is finite.
LEMMA FiniteSubset ==
  ASSUME NEW S, IsFiniteSet(S), NEW T \in SUBSET S
  PROVE  IsFiniteSet(T) /\ \E n \in Nat : Listed(T, n)
<1>1. PICK q \in Seq(S) : \A z \in S : \E j \in 1 .. Len(q) : q[j] = z
  BY DEF IsFiniteSet
<1>2. CASE T = {}
  <2>1. <<>> \in Seq(T) /\ \A z \in T : \E j \in 1 .. Len(<<>>) : <<>>[j] = z
    BY <1>2
  <2> DEFINE s == [j \in 1 .. 0 |-> 0]
  <2>2. s \in [1 .. 0 -> T] /\ \A z \in T : \E j \in 1 .. 0 : s[j] = z
    BY <1>2
  <2>3. Listed(T, 0)
    BY Zenon, <2>2 DEF Listed
  <2> QED
    BY <2>1, <2>3 DEF IsFiniteSet
<1>3. CASE T # {}
  <2>1. PICK t \in T : TRUE
    BY <1>3
  <2> DEFINE n == Len(q)
             s == [j \in 1 .. n |-> IF q[j] \in T THEN q[j] ELSE t]
  <2>2. n \in Nat /\ s \in [1 .. n -> T]
    BY <1>1
  <2>3. s \in Seq(T) /\ Len(s) = n
    BY <2>2
  <2>4. \A z \in T : \E j \in 1 .. n : s[j] = z
    BY <1>1
  <2> HIDE DEF n, s
  <2> QED
    BY <2>2, <2>3, <2>4 DEF IsFiniteSet, Listed
<1> QED
  BY <1>2, <1>3

\* What is true of the empty set, and of a subset of a finite set when it is true
\* of it without any one of its elements, is true of all subsets.
LEMMA SubsetInduction ==
  ASSUME NEW S, IsFiniteSet(S), NEW Good, {} \in Good,
         \A T \in SUBSET S : T # {} /\ (\A x \in T : T \ {x} \in Good) => T \in Good
  PROVE  \A T \in SUBSET S : T \in Good
<1> SUFFICES ASSUME NEW A \in SUBSET S, A \notin Good PROVE FALSE
  OBVIOUS
<1> DEFINE Bad == {n \in Nat : \E T \in SUBSET S : T \notin Good /\ Listed(T, n)}
<1>1. Bad \in SUBSET Nat /\ Bad # {}
  BY FiniteSubset
<1>2. PICK n \in Bad : \A m \in Bad : n <= m
  <2> HIDE DEF Bad
  <2> QED BY <1>1, LeastNat
<1>3. PICK T \in SUBSET S : T \notin Good /\ Listed(T, n)
  BY <1>2
<1>4. PICK s \in [1 .. n -> T] : \A z \in T : \E j \in 1 .. n : s[j] = z
  BY <1>3 DEF Listed
<1>5. ASSUME NEW x \in T, T \ {x} \notin Good
      PROVE  FALSE
  <2>1. PICK y \in T \ {x} : TRUE
    BY <1>5
  <2>2. PICK i \in 1 .. n : s[i] = x
    BY <1>4
  <2>3. n - 1 \in Nat /\ n \in Nat
    BY <1>2, <2>2
  <2> DEFINE Moved(j) == IF j < i THEN s[j] ELSE s[j + 1]
             r == [j \in 1 .. n - 1 |-> IF Moved(j) = x THEN y ELSE Moved(j)]
  <2>4. r \in [1 .. n - 1 -> T \ {x}]
    BY <2>2, <2>3
  <2>5. ASSUME NEW z \in T \ {x}
        PROVE  \E j \in 1 .. n - 1 : r[j] = z
    <3>1. PICK k \in 1 .. n : s[k] = z
      BY <1>4
    <3>2. CASE k < i
      <4>1. k \in 1 .. n - 1 /\ r[k] = z
        BY <2>3, <3>1, <3>2
      <4> QED
        BY <4>1
    <3>3. CASE ~(k < i)
      <4>1. k # i
        BY <2>2, <3>1
      <4>2. k - 1 \in 1 .. n - 1 /\ ~(k - 1 < i) /\ (k - 1) + 1 = k
        BY <2>3, <3>3, <4>1
      <4>3. r[k - 1] = z
        BY <3>1, <4>2
      <4> QED
        BY <4>2, <4>3
    <3> QED
      BY <3>2, <3>3
  <2> HIDE DEF r
  <2>6. Listed(T \ {x}, n - 1)
    BY <2>4, <2>5 DEF Listed
  <2>7. n - 1 \in Bad
    BY <1>5, <2>3, <2>6
  <2> QED
    BY <1>2, <2>3, <2>7
<1> QED
  BY <1>3, <1>5

\* h adds up f over every subset of S.
IsSum(h, f, S) ==
  /\ h \in [SUBSET S -> Int] /\ h[{}] = 0
  /\ \A T \in SUBSET S : \A x \in T : h[T] = f[x] + h[T \ {x}]

\* The sums over the subsets of a finite set exist.
LEMMA SumExists ==
  ASSUME NEW S, IsFiniteSet(S), NEW f, \A x \in S : f[x] \in Int
  PROVE  \E h : IsSum(h, f, S)
<1> DEFINE Good == {T \in SUBSET S : \E h : IsSum(h, f, T)}
<1>1. {} \in Good
  <2>1. IsSum([T \in SUBSET {} |-> 0], f, {})
    BY DEF IsSum
  <2> QED
    BY <2>1
<1>2. ASSUME NEW T \in SUBSET S, T # {}, \A x \in T : T \ {x} \in Good
      PROVE  T \in Good
  <2>a. PICK a \in T : T \ {a} \in Good
    BY Zenon, <1>2
  <2>1. PICK h : IsSum(h, f, T \ {a})
    BY <2>a
  <2> DEFINE g == [X \in SUBSET T |-> IF a \in X THEN f[a] + h[X \ {a}] ELSE h[X]]
  <2>2. f[a] \in Int /\ \A X \in SUBSET (T \ {a}) : h[X] \in Int
    BY <2>1 DEF IsSum
  <2>3. g \in [SUBSET T -> Int] /\ g[{}] = 0
    <3>1. \A X \in SUBSET T : X \ {a} \in SUBSET (T \ {a}) /\ (a \notin X => X \in SUBSET (T \ {a}))
      OBVIOUS
    <3>2. h[{}] = 0
      BY <2>1 DEF IsSum
    <3> QED
      BY <2>2, <3>1, <3>2
  <2>4. ASSUME NEW X \in SUBSET T, NEW x \in X
        PROVE  g[X] = f[x] + g[X \ {x}]
    <3>1. f[x] \in Int /\ X \ {x} \in SUBSET T
      OBVIOUS
    <3>2. CASE x = a
      <4>1. g[X] = f[a] + h[X \ {a}] /\ g[X \ {a}] = h[X \ {a}]
        BY <3>1, <3>2
      <4> QED
        BY <3>2, <4>1
    <3>3. CASE x # a /\ a \in X
      <4>1. X \ {a} \in SUBSET (T \ {a}) /\ x \in X \ {a}
        BY <3>3
      <4>2. h[X \ {a}] = f[x] + h[(X \ {a}) \ {x}]
        BY Zenon, <2>1, <4>1 DEF IsSum
      <4>3. (X \ {a}) \ {x} = (X \ {x}) \ {a} /\ (X \ {x}) \ {a} \in SUBSET (T \ {a})
        OBVIOUS
      <4>4. g[X] = f[a] + h[X \ {a}] /\ g[X \ {x}] = f[a] + h[(X \ {x}) \ {a}]
        BY <3>1, <3>3
      <4>5. h[(X \ {x}) \ {a}] \in Int
        BY <2>2, <4>3
      <4>6. h[X \ {a}] = f[x] + h[(X \ {x}) \ {a}]
        BY <4>2, <4>3
      <4>7. \A i, j, k \in Int : i + (j + k) = j + (i + k)
        OBVIOUS
      <4> HIDE DEF g
      <4> QED
        BY <2>2, <3>1, <4>4, <4>5, <4>6, <4>7
    <3>4. CASE a \notin X
      <4>1. X \in SUBSET (T \ {a}) /\ a \notin X \ {x}
        BY <3>4
      <4>2. h[X] = f[x] + h[X \ {x}]
        BY <2>1, <4>1 DEF IsSum
      <4> QED
        BY <3>1, <3>4, <4>1, <4>2
    <3> QED
      BY <3>2, <3>3, <3>4
  <2>5. IsSum(g, f, T)
    <3> HIDE DEF g
    <3> QED
      BY <2>3, <2>4 DEF IsSum
  <2> HIDE DEF g
  <2> QED
    BY <2>5
<1> HIDE DEF Good
<1>3. \A T \in SUBSET S : T \in Good
  BY Zenon, <1>1, <1>2, SubsetInduction
<1>4. S \in Good
  BY <1>3
<1> QED
  BY <1>4 DEF Good

\* Cardinality counts: it is 0 for the empty set, and one more than without an
\* element.
LEMMA Counting ==
  ASSUME NEW S, IsFiniteSet(S)
  PROVE  /\ Cardinality({}) = 0
         /\ \A T \in SUBSET S : /\ Cardinality(T) \in Nat
                                /\ \A x \in T : Cardinality(T) = 1 + Cardinality(T \ {x})
<1> DEFINE f == [x \in S |-> 1]
<1>0. \A x \in S : f[x] = 1
  OBVIOUS
<1>1. PICK h : IsSum(h, f, S)
  BY <1>0, SumExists
<1>2. h[{}] = 0 /\ \A T \in SUBSET S : h[T] \in Int /\ \A x \in T : h[T] = 1 + h[T \ {x}]
  BY <1>0, <1>1 DEF IsSum
<1> HIDE DEF f
<1>3. ASSUME NEW A \in SUBSET S
      PROVE  Cardinality(A) = h[A]
  <2> DEFINE Ok(g) == g = [T \in SUBSET A |-> IF T = {} THEN 0 ELSE 1 + g[T \ {CHOOSE x : x \in T}]]
             k == [T \in SUBSET A |-> h[T]]
  <2>1. Ok(k)
    <3>1. ASSUME NEW T \in SUBSET A
          PROVE  k[T] = IF T = {} THEN 0 ELSE 1 + k[T \ {CHOOSE x : x \in T}]
      <4>1. CASE T # {}
        <5>1. (CHOOSE x : x \in T) \in T
          BY <4>1
        <5> QED
          BY <1>2, <4>1, <5>1
      <4> QED
        BY <1>2, <4>1
    <3>2. k = [T \in SUBSET A |-> k[T]]
      OBVIOUS
    <3> HIDE DEF k
    <3> QED
      BY Zenon, <3>1, <3>2
  <2>2. ASSUME NEW g, Ok(g)
        PROVE  g[A] = h[A]
    <3> DEFINE Good == {T \in SUBSET A : g[T] = h[T]}
    <3>1. {} \in Good
      BY <1>2, <2>2
    <3>2. ASSUME NEW T \in SUBSET A, T # {}, \A x \in T : T \ {x} \in Good
          PROVE  T \in Good
      <4>1. PICK x \in T : x = CHOOSE y : y \in T
        BY <3>2
      <4>2. g[T] = 1 + g[T \ {x}] /\ h[T] = 1 + h[T \ {x}]
        BY <1>2, <2>2, <3>2, <4>1
      <4>3. g[T \ {x}] = h[T \ {x}]
        BY Zenon, <3>2, <4>1
      <4> QED
        BY <4>2, <4>3
    <3>3. IsFiniteSet(A)
      BY FiniteSubset
    <3> HIDE DEF Good
    <3>4. \A T \in SUBSET A : T \in Good
      BY <3>1, <3>2, <3>3, SubsetInduction
    <3> QED
      BY <3>4 DEF Good
  <2> DEFINE CS == CHOOSE g : Ok(g)
  <2> HIDE DEF k
  <2>3. Ok(CS)
    <3> HIDE DEF Ok
    <3> QED BY <2>1
  <2>4. Cardinality(A) = CS[A]
    BY Zenon DEF Cardinality
  <2> HIDE DEF CS, Ok
  <2> QED
    BY <2>2, <2>3, <2>4
<1>4. {} \in SUBSET S /\ \A T \in SUBSET S : \A x \in T : T \ {x} \in SUBSET S
  OBVIOUS
<1>5. \A T \in SUBSET S : h[T] \in Nat
  <2> DEFINE Good == {T \in SUBSET S : h[T] >= 0}
  <2>1. {} \in Good
    BY <1>2
  <2>2. ASSUME NEW T \in SUBSET S, T # {}, \A x \in T : T \ {x} \in Good
        PROVE  T \in Good
    <3>1. PICK x \in T : h[T \ {x}] >= 0
      BY <2>2
    <3>2. h[T] = 1 + h[T \ {x}] /\ h[T \ {x}] \in Int
      BY <1>2
    <3> QED
      BY <3>1, <3>2
  <2> HIDE DEF Good
  <2>3. \A T \in SUBSET S : T \in Good
    BY <2>1, <2>2, SubsetInduction
  <2> QED
    BY <1>2, <2>3 DEF Good
<1> QED
  BY <1>2, <1>3, <1>4, <1>5

\* What counts for two sets with nothing in common.
LEMMA CountUnion ==
  ASSUME NEW S, IsFiniteSet(S), NEW A \in SUBSET S, NEW B \in SUBSET S, A \intersect B = {}
  PROVE  Cardinality(A \union B) = Cardinality(A) + Cardinality(B)
<1> DEFINE Good == {T \in SUBSET A : Cardinality(T \union B) = Cardinality(T) + Cardinality(B)}
<1>0. /\ Cardinality({}) = 0
      /\ \A T \in SUBSET S : Cardinality(T) \in Nat /\ \A x \in T : Cardinality(T) = 1 + Cardinality(T \ {x})
  BY Counting
<1>1. {} \in Good
  BY <1>0
<1>2. ASSUME NEW T \in SUBSET A, T # {}, \A x \in T : T \ {x} \in Good
      PROVE  T \in Good
  <2>1. PICK x \in T : Cardinality((T \ {x}) \union B) = Cardinality(T \ {x}) + Cardinality(B)
    BY <1>2
  <2>2. /\ T \union B \in SUBSET S /\ T \in SUBSET S /\ T \ {x} \in SUBSET S /\ x \in T \union B
        /\ (T \union B) \ {x} = (T \ {x}) \union B
    OBVIOUS
  <2>3. Cardinality(T \union B) = 1 + Cardinality((T \ {x}) \union B)
    <3>1. Cardinality(T \union B) = 1 + Cardinality((T \union B) \ {x})
      BY Zenon, <1>0, <2>2
    <3> QED
      BY Zenon, <2>2, <3>1
  <2>4. /\ Cardinality(T) = 1 + Cardinality(T \ {x}) /\ Cardinality(T \ {x}) \in Nat
        /\ Cardinality(B) \in Nat
    BY <1>0, <2>2
  <2> QED
    BY <2>1, <2>3, <2>4
<1>3. IsFiniteSet(A)
  BY FiniteSubset
<1> HIDE DEF Good
<1>4. \A T \in SUBSET A : T \in Good
  BY Zenon, <1>1, <1>2, <1>3, SubsetInduction
<1> QED
  BY <1>4 DEF Good

(***************************************************************************)
(* The tree of blocks                                                      *)
(***************************************************************************)
\* What is true of the genesis block, and of a block when it is true of its
\* parent, is true of all blocks.
LEMMA BlockInduction ==
  ASSUME NEW S, Genesis \in S, \A b \in Block \ {Genesis} : Prev[b] \in S => b \in S
  PROVE  \A b \in Block : b \in S
<1> SUFFICES ASSUME NEW a \in Block, a \notin S PROVE FALSE
  OBVIOUS
<1> DEFINE T == {Height[b] : b \in Block \ S}
<1>1. T \in SUBSET Nat /\ T # {}
  BY BlockTree
<1>2. PICK n \in T : \A m \in T : n <= m
  <2> HIDE DEF T
  <2> QED BY <1>1, LeastNat
<1>3. PICK b \in Block \ S : Height[b] = n
  BY <1>2
<1>4. b # Genesis /\ Prev[b] \in Block \ S /\ Height[b] = Height[Prev[b]] + 1
  BY <1>3, BlockTree
<1>5. Height[Prev[b]] \in T
  BY <1>4
<1>6. Height[b] <= Height[Prev[b]]
  BY <1>2, <1>3, <1>5
<1> QED
  BY <1>4, <1>6, BlockTree

\* A block is its own ancestor and has the genesis block as one.
LEMMA AncSelf == \A b \in Block : b \in Anc[b]
BY BlockTree

\* Every chain ends in the genesis block.
LEMMA AncGenesis == \A b \in Block : Genesis \in Anc[b]
<1> DEFINE S == {b \in Block : Genesis \in Anc[b]}
<1>1. Genesis \in S
  BY BlockTree
<1>2. \A b \in Block \ {Genesis} : Prev[b] \in S => b \in S
  BY BlockTree
<1> HIDE DEF S
<1>3. \A b \in Block : b \in S
  BY <1>1, <1>2, BlockInduction
<1> QED
  BY <1>3 DEF S

\* An ancestor other than the block itself is lower.
LEMMA AncHeight == \A b \in Block : \A a \in Anc[b] : a = b \/ Height[a] < Height[b]
<1> DEFINE S == {b \in Block : \A a \in Anc[b] : a = b \/ Height[a] < Height[b]}
<1>1. Genesis \in S
  BY BlockTree
<1>2. ASSUME NEW b \in Block \ {Genesis}, Prev[b] \in S
      PROVE  b \in S
  <2>1. Anc[b] = {b} \union Anc[Prev[b]] /\ Height[b] = Height[Prev[b]] + 1
    BY BlockTree
  <2>2. \A a \in Anc[Prev[b]] : a = Prev[b] \/ Height[a] < Height[Prev[b]]
    BY <1>2
  <2>3. Height[Prev[b]] \in Nat /\ \A a \in Anc[Prev[b]] : Height[a] \in Nat
    BY BlockTree
  <2> QED
    BY <2>1, <2>2, <2>3
<1> HIDE DEF S
<1>3. \A b \in Block : b \in S
  BY <1>1, <1>2, BlockInduction
<1> QED
  BY <1>3 DEF S

\* The ancestors of an ancestor are ancestors.
LEMMA AncTrans == \A b \in Block : \A a \in Anc[b] : Anc[a] \subseteq Anc[b]
<1> DEFINE S == {b \in Block : \A a \in Anc[b] : Anc[a] \subseteq Anc[b]}
<1>1. Genesis \in S
  BY BlockTree
<1>2. \A b \in Block \ {Genesis} : Prev[b] \in S => b \in S
  BY BlockTree
<1> HIDE DEF S
<1>3. \A b \in Block : b \in S
  BY <1>1, <1>2, BlockInduction
<1> QED
  BY <1>3 DEF S

\* Of two ancestors of a block, one is an ancestor of the other.
LEMMA AncLinear ==
  \A d \in Block : \A a, b \in Anc[d] : a \in Anc[b] \/ b \in Anc[a]
<1> DEFINE S == {d \in Block : \A a, b \in Anc[d] : a \in Anc[b] \/ b \in Anc[a]}
<1>1. Genesis \in S
  BY BlockTree
<1>2. ASSUME NEW d \in Block \ {Genesis}, Prev[d] \in S
      PROVE  d \in S
  <2>1. Anc[d] = {d} \union Anc[Prev[d]]
    BY BlockTree
  <2>2. \A a, b \in Anc[Prev[d]] : a \in Anc[b] \/ b \in Anc[a]
    BY <1>2
  <2> QED
    BY <2>1, <2>2
<1> HIDE DEF S
<1>3. \A b \in Block : b \in S
  BY <1>1, <1>2, BlockInduction
<1> QED
  BY <1>3 DEF S

\* A chain has a block at every height up to that of its last block.
LEMMA AncAtHeight ==
  \A b \in Block : \A k \in 0 .. Height[b] : \E a \in Anc[b] : Height[a] = k
<1> DEFINE S == {b \in Block : \A k \in 0 .. Height[b] : \E a \in Anc[b] : Height[a] = k}
<1>1. Genesis \in S
  BY BlockTree
<1>2. ASSUME NEW b \in Block \ {Genesis}, Prev[b] \in S
      PROVE  b \in S
  <2>1. /\ Anc[b] = {b} \union Anc[Prev[b]] /\ Height[b] = Height[Prev[b]] + 1
        /\ Height[Prev[b]] \in Nat
    BY BlockTree
  <2>2. \A k \in 0 .. Height[Prev[b]] : \E a \in Anc[Prev[b]] : Height[a] = k
    BY <1>2
  <2>3. ASSUME NEW k \in 0 .. Height[b]
        PROVE  \E a \in Anc[b] : Height[a] = k
    <3>1. k \in 0 .. Height[Prev[b]] \/ k = Height[b]
      BY <2>1
    <3> QED
      BY <2>1, <2>2, <3>1
  <2> QED
    BY <2>3
<1> HIDE DEF S
<1>3. \A b \in Block : b \in S
  BY <1>1, <1>2, BlockInduction
<1> QED
  BY <1>3 DEF S

\* Above an ancestor of a block, other than the block itself, there is a next
\* block on the way.
LEMMA NextExists ==
  \A m \in Block : \A a \in Anc[m] \ {m} : \E b \in Anc[m] \ Anc[a] : Prev[b] = a
<1> DEFINE P(m) == \A a \in Anc[m] \ {m} : \E b \in Anc[m] \ {Genesis} : Prev[b] = a
           S == {m \in Block : P(m)}
<1>1. Genesis \in S
  BY BlockTree
<1>2. ASSUME NEW m \in Block \ {Genesis}, Prev[m] \in S
      PROVE  m \in S
  <2>1. Anc[m] = {m} \union Anc[Prev[m]]
    BY BlockTree
  <2>2. P(Prev[m])
    BY <1>2
  <2> QED
    BY <2>1, <2>2
<1> HIDE DEF S
<1>3. \A b \in Block : b \in S
  BY <1>1, <1>2, BlockInduction
<1>4. \A m \in Block : P(m)
  BY <1>3 DEF S
<1>5. ASSUME NEW m \in Block, NEW a \in Anc[m] \ {m}
      PROVE  \E b \in Anc[m] \ Anc[a] : Prev[b] = a
  <2>1. PICK b \in Anc[m] \ {Genesis} : Prev[b] = a
    BY <1>4, <1>5
  <2>2. a \in Block /\ b \in Block /\ Height[b] = Height[a] + 1 /\ Height[a] \in Nat
    BY <2>1, BlockTree
  <2>3. b \notin Anc[a]
    BY <2>2, AncHeight
  <2> QED
    BY <2>1, <2>3
<1> QED
  BY <1>5
=============================================================================
