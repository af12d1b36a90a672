SPECIFICATION TxSpec
CONSTANTS
  p = 23
  q = 11
  g = 2
  tk = 8
  hk = 3
  Digest <- MCDigest
  hashInput <- MCHashInput
  HashOutputs <- MCHashOutputs
  HashTx <- MCHashTx
  Sizes <- MCAllSizes
  Seeds <- MCSeeds
  MaxMutations = 3
  MaxScriptSize = 269
  Witness <- MCWitness
INVARIANTS TxTypeOK PlainTxidKept WitnessHashKept SignaturesKept LastOrderDecides SizeKept
CHECK_DEADLOCK FALSE
