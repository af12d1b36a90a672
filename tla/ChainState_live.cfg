SPECIFICATION FairSpec
CONSTANTS
  Block = {0, 1, 2, 3, 4, 5}
  Genesis = 0
  Prev <- ForkPrev
  Height <- ForkHeight
  Anc <- ForkAnc
  Addr <- ForkAddr
  BadContext = {5}
  Invalid = {2}
  Threads = {"net", "rpc"}
  Import = "net"
  Nil = Nil
  Rpcs = {"precious","reconsider"}
  MinBlocksToKeep = 2
  MaxRpcs = 1
  MaxRestarts = 0
INVARIANT ActiveChainValid
PROPERTY ActivationEnds
