--------------------------- MODULE ChameleonHash ---------------------------
(***************************************************************************)
(* CChamHash of chameleon.h: the chameleon hash that stands between the    *)
(* double-SHA256 of a transaction and its txid.  Whoever knows the         *)
(* trapdoor tk can, for a new message m2, compute (r2, s2) under which m2  *)
(* has the hash the old message had under (r1, s1).                        *)
(*                                                                         *)
(* The constants are the members p, q, g, tk and hk of the class.  SHA256  *)
(* is external: hashInput(m, r) is a constant operator.                    *)
(***************************************************************************)
EXTENDS Integers

CONSTANTS p, q, g, tk, hk,   \* the parameters fixed by the constructor
          Digest,            \* the 256-bit digests a message is given as
          hashInput(_, _)    \* SHA256 of the decimal digits of m and r

\* The residues r, s and m have to be in: cHash asserts it of each of them.
Zq == 0 .. q - 1

\* maP.Exponentiate(b, e): modular exponentiation, the library's function.
ExpMod(b, e) ==
  LET pow[n \in Nat] == IF n = 0 THEN 1 % p ELSE (b * pow[n - 1]) % p
  IN  pow[e]

\* The library's addition and subtraction modulo q correct their result by q
\* at most once; an argument outside Zq can leave the result outside Zq.
AddQ(a, b) == IF a + b >= q THEN a + b - q ELSE a + b

SubtractQ(a, b) == IF a - b < 0 THEN a - b + q ELSE a - b

\* Integer::SetPositive: the sign is dropped.
SetPositive(h) == IF h < 0 THEN -h ELSE h

\* y^m * g^s mod p: a residue modulo p, from which cHash subtracts modulo q.
T3(m, s) == (ExpMod(hk, m) * ExpMod(g, s)) % p

\* cHash: the hash h of the digest mTemp under r and s.  (The txid is sh, the
\* SHA256 of h; what keeps h keeps it.)
cHash(mTemp, r, s) == SetPositive(SubtractQ(r, T3(hashInput(mTemp, r), s)))

\* hCol with its k fixed to 1: the r2 and s2 that give m2 the hash h.
K == 1

\* maQ.Reduce(r, q) subtracts q from the residue g^k and adds it back.
ColR(h) == AddQ(h, SubtractQ(g % q, q))

\* Mutant: plain subtraction in the exponent.
ColS_NotReduced(h, m2) == K - ((hashInput(m2, ColR(h)) * tk) % q)

ColS(h, m2) == SubtractQ(K, (hashInput(m2, ColR(h)) * tk) % q)

hCol(h, m2) == [r |-> ColR(h), s |-> ColS(h, m2)]

\* hVer: its assertion h2 == h1, for the pair hCol computed.
hVer(h1, m2, c) == cHash(m2, c.r, c.s) = h1

(***************************************************************************)
(* What the constructor's numbers satisfy.  The group order is asserted    *)
(* there; the rest are the number-theoretic facts the scheme rests on.     *)
(***************************************************************************)
ASSUME GroupOrder == /\ q \in Nat /\ g \in Nat /\ tk \in Nat /\ hk \in Nat
                     /\ p = 2 * q + 1
                     /\ 1 < g /\ g < q

\* SHA256 digests are shorter than q, so cHash's assertion on m never fails.
ASSUME DigestsInZq == \A m \in Digest, r \in Zq : hashInput(m, r) \in Zq

ASSUME ExpModInZp == \A b \in {g, hk}, e \in Zq : ExpMod(b, e) \in 0 .. p - 1

\* hk = g^tk and g has order q: the trapdoor cancels y^m down to g^k.
ASSUME Trapdoor == \A m \in Zq : T3(m, SubtractQ(K, (m * tk) % q)) = g

\* -1 is not in the subgroup that g generates, so T3 is never p - 1.
ASSUME MinusOneOutside == \A m \in Zq, s \in Zq : T3(m, s) # p - 1
=============================================================================
