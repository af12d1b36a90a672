SPECIFICATION Spec
CONSTANTS
  Block = {0, 1, 2, 3, 4}
  Genesis = 0
  Prev <- CombPrev
  Height <- CombHeight
  Anc <- CombAnc
  Addr <- CombAddr
  BadContext = {}
  Invalid = {3}
  Threads = {"net"}
  Import = "net"
  Nil = Nil
  Rpcs = {"invalidate", "precious"}
  MinBlocksToKeep = 2
  MaxRpcs = 2
  MaxRestarts = 1
INVARIANTS TypeOK ChainTxExact UnlinkedComplete CandidatesSound FailedHasCause CandidateLeft CandidatesComplete BestChainActive
