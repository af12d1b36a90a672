----------------------------- MODULE MCMutableTx -----------------------------
(* Instance: the group of order 11 modulo 23, g = 2, hk = 2^8 = 3.  The     *)
(* digests are small polynomial hashes, different for the scripts that one  *)
(* transaction can have.                                                    *)
EXTENDS MutableTx

MCDigest == 0 .. 96

MCHashInput(m, r) == (7 * m + 3 * r + 5) % 11

FillCode(f) == CASE f = "data" -> 1 [] f = "00" -> 2 [] f = "41" -> 3

MCHashOutputs(out) == (31 * out.size + 17 * FillCode(out.fill)) % 97

MCHashTx(rs, ss, out, wit) ==
  (5 * rs + 13 * ss + 29 * MCHashOutputs(out) + IF wit THEN 41 ELSE 0) % 97

MCSeeds == {0, 1, 5, 10}
MCSizes == {1, 2, 36, 77}
MCAllSizes == MCSizes \union {78, 257}
MCWitness == BOOLEAN
WithWitness == {TRUE}
=============================================================================
