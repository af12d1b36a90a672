SPECIFICATION TxSpec
CONSTANTS
  p = 23
  q = 11
  g = 2
  tk = 8
  hk = 3
  Digest <- MCDigest
  hashInput <- MCHashInput
  HashOutputs <- MCHashOutputs
  HashTx <- MCHashTx
  Sizes <- MCSizes
  Seeds <- MCSeeds
  MaxMutations = 3
  MaxScriptSize = 89
  Witness <- WithWitness
INVARIANT TxidKept
CHECK_DEADLOCK FALSE
