------------------------------ MODULE MutableTx ------------------------------
(***************************************************************************)
(* One mutable transaction as it lies in a block file, and what            *)
(* CheckBlockUChain (validation.cpp) does to it each time a mutant         *)
(* transaction orders its OP_RETURN data to be hidden (zeros) or replaced  *)
(* (0x41): the data is overwritten, and new chameleon values are computed  *)
(* first for the hash its signatures cover, then for its txid.             *)
(*                                                                         *)
(* A transaction is a record: out, the OP_RETURN script; rscriptSig and    *)
(* sscriptSig, rValue and sValue, the chameleon values; wit, whether it    *)
(* carries a witness.  Inputs, the other outputs, the version and the lock *)
(* time never change and are left out.  A script is its size and what      *)
(* fills it: "data", or the byte a mutation wrote.                         *)
(***************************************************************************)
EXTENDS ChameleonHash

CONSTANTS HashOutputs(_),    \* SHA256 of the serialized outputs
          HashTx(_, _, _, _),\* SHA256 of rscriptSig, sscriptSig, outputs, witness
          Sizes,             \* the OP_RETURN script sizes considered
          Seeds,             \* the chameleon values of new transactions
          MaxMutations,      \* bound: mutations of one transaction
          MaxScriptSize,     \* bound: no script grows beyond it
          Witness            \* the values of HasWitness() considered

VARIABLES tx,    \* the transaction as currently stored
          tx0,   \* the transaction as it was mined (history)
          lastOp,\* the last order executed, "none" before the first (history)
          nMut   \* how often it was mutated (bound)

txVars == <<tx, tx0, lastOp, nMut>>

Orders == {"6a226444", "6a226341"}

(***************************************************************************)
(* Scripts                                                                 *)
(***************************************************************************)
Fill == {"00", "41"}

Script == [fill : {"data"} \union Fill, size : 0 .. MaxScriptSize]

ASSUME MutableTxConstants ==
  /\ MaxMutations \in Nat /\ MaxScriptSize \in Nat
  /\ Sizes \subseteq Nat
  /\ \A n \in Sizes : 0 < n /\ n + 4 * MaxMutations <= MaxScriptSize
  /\ Seeds \subseteq Zq /\ Witness \subseteq BOOLEAN

ASSUME DigestsOfTx ==
  /\ \A out \in Script : HashOutputs(out) \in Digest
  /\ \A rs \in Zq, ss \in Zq, out \in Script, w \in BOOLEAN :
       HashTx(rs, ss, out, w) \in Digest

\* The two orders: 6a226444... hides, 6a226341... replaces.
FillOf(op) == IF op = "6a226341" THEN "41" ELSE "00"

\* Mutant: one byte of data too many.
NewScript_OffByOne(op, old) ==
  [fill |-> FillOf(op), size |-> old.size + 1]

\* What operator<< puts in front of n bytes: their number, from 76 on behind
\* OP_PUSHDATA1, OP_PUSHDATA2 or OP_PUSHDATA4.
PushSize(n) == IF n < 76 THEN 1 ELSE IF n <= 255 THEN 2 ELSE IF n <= 65535 THEN 3 ELSE 5

\* newScript << OP_RETURN << data with szO - 2 bytes of data.
NewScript(op, old) ==
  LET n == IF old.size > 2 THEN old.size - 2 ELSE 0
  IN  [fill |-> FillOf(op), size |-> 1 + PushSize(n) + n]

(***************************************************************************)
(* Hashes of a transaction                                                 *)
(***************************************************************************)
\* SerializeHash with rValue and sValue zeroed.  The serialization version
\* decides whether the witness goes in.
NoWitnessDigest(t) == HashTx(t.rscriptSig, t.sscriptSig, t.out, FALSE)

FullDigest(t) == HashTx(t.rscriptSig, t.sscriptSig, t.out, t.wit)

\* ComputeHash: the txid, without the witness.
GetHash(t) == cHash(NoWitnessDigest(t), t.rValue, t.sValue)

\* The hash a block's witness commitment covers.
GetWitnessHash(t) == IF ~t.wit THEN GetHash(t)
                     ELSE cHash(FullDigest(t), t.rValue, t.sValue)

\* SignatureHash, chamCollision 1: what a legacy signature covers of the outputs.
chamHashtxo(t) == cHash(HashOutputs(t.out), t.rscriptSig, t.sscriptSig)

(***************************************************************************)
(* Mutation: steps 1 to 6 of CheckBlockUChain                              *)
(***************************************************************************)
\* Mutant: only the r of the script collision is stored.
MutateScript_NoS(t, op) ==
  LET out == NewScript(op, t.out)
      c   == hCol(chamHashtxo(t), HashOutputs(out))
  IN  [out |-> out, rscriptSig |-> c.r, sscriptSig |-> t.sscriptSig,
       rValue |-> t.rValue, sValue |-> t.sValue, wit |-> t.wit]

\* Steps 2 to 5: change the data, and find the script collision.
MutateScript(t, op) ==
  LET out == NewScript(op, t.out)
      c   == hCol(chamHashtxo(t), HashOutputs(out))
  IN  [out |-> out, rscriptSig |-> c.r, sscriptSig |-> c.s,
       rValue |-> t.rValue, sValue |-> t.sValue, wit |-> t.wit]

\* Mutant: the txid collision is for the script values of the old version.
Mutated_StaleDigest(t, op) ==
  LET new == MutateScript(t, op)
      c   == hCol(cHash(FullDigest(t), t.rValue, t.sValue),
                  HashTx(t.rscriptSig, t.sscriptSig, new.out, t.wit))
  IN  [out |-> new.out,
       rscriptSig |-> new.rscriptSig, sscriptSig |-> new.sscriptSig,
       rValue |-> c.r, sValue |-> c.s, wit |-> new.wit]

\* Mutant: data that was already rewritten is left alone, the optimisation
\* that a comment in CheckBlockUChain considers.
Mutated_OnlyOnce(t, op) ==
  IF t.out.fill # "data" THEN t
  ELSE LET new == MutateScript(t, op)
           c   == hCol(cHash(FullDigest(t), t.rValue, t.sValue), FullDigest(new))
       IN  [out |-> new.out,
            rscriptSig |-> new.rscriptSig, sscriptSig |-> new.sscriptSig,
            rValue |-> c.r, sValue |-> c.s, wit |-> new.wit]

\* Steps 1 and 6: find the txid collision.  Both digests are taken with the
\* default serialization version, which includes a witness.
Mutated(t, op) ==
  LET new == MutateScript(t, op)
      c   == hCol(cHash(FullDigest(t), t.rValue, t.sValue), FullDigest(new))
  IN  [out |-> new.out,
       rscriptSig |-> new.rscriptSig, sscriptSig |-> new.sscriptSig,
       rValue |-> c.r, sValue |-> c.s, wit |-> new.wit]

StoredTx == [out : Script, rscriptSig : Zq, sscriptSig : Zq,
       rValue : Zq, sValue : Zq, wit : BOOLEAN]

(***************************************************************************)
(* The wallet, the raw-transaction RPC and the miner set all four values   *)
(* of a new transaction to the hash of the tip; the genesis block has two  *)
(* different ones, and a transaction from the network may have any.        *)
(***************************************************************************)
TxInit ==
  /\ tx \in [out : {[fill |-> "data", size |-> n] : n \in Sizes},
            rscriptSig : Seeds, sscriptSig : Seeds,
            rValue : Seeds, sValue : Seeds, wit : Witness]
  /\ tx0 = tx
  /\ lastOp = "none"
  /\ nMut = 0

\* One execution of the order op against the stored transaction.
Mutate(op) ==
  /\ nMut < MaxMutations
  /\ tx' = Mutated(tx, op)
  /\ lastOp' = op
  /\ nMut' = nMut + 1
  /\ UNCHANGED tx0

Hide == Mutate("6a226444")

Replace == Mutate("6a226341")

TxNext == Hide \/ Replace

TxSpec == TxInit /\ [][TxNext]_txVars
-----------------------------------------------------------------------------
TxTypeOK == /\ tx \in StoredTx /\ tx0 \in StoredTx
          /\ lastOp \in Orders \union {"none"}
          /\ nMut \in 0 .. MaxMutations

\* However often its data is rewritten, a transaction keeps its txid, so the
\* Merkle tree of its block and every outpoint that refers to it stay valid
\* (the "txid collision" of step 6).
TxidKept == GetHash(tx) = GetHash(tx0)

\* The same of the transactions without a witness, for which the digest of step
\* 6 is the digest that ComputeHash takes.
PlainTxidKept == ~tx0.wit => TxidKept

\* Every transaction keeps the hash under which its block's witness commitment
\* has it.
WitnessHashKept == GetWitnessHash(tx) = GetWitnessHash(tx0)

\* ... and its legacy signatures stay valid: the chameleon hash that stands for
\* the outputs in SignatureHash does not change (steps 2 to 5).
SignaturesKept == chamHashtxo(tx) = chamHashtxo(tx0)

\* The scripts with an opcode and a length of one byte each.
Fits == tx0.out.size \in 2 .. 77

\* The stored transaction depends on the last order only, not on how many
\* orders were executed before it, nor on which, if its script fits.  The trie
\* relies on it: a node that rebuilds its trie from rewritten blocks executes the
\* same orders on other versions of the transaction and must come to the same
\* value.
LastOrderDecides == Fits /\ lastOp # "none" => tx = Mutated(tx0, lastOp)

\* A rewritten transaction takes the room of the original in the block file,
\* where it is written over it, if its script fits.
SizeKept == Fits => tx.out.size = tx0.out.size
=============================================================================
