SPECIFICATION Spec
CONSTANTS
  Block = {0, 1, 2, 3, 4, 5}
  Genesis = 0
  Prev <- ForkPrev
  Height <- ForkHeight
  Anc <- ForkAnc
  Addr <- ForkAddr
  BadContext = {}
  Invalid = {}
  Threads = {"net", "rpc"}
  Import = "net"
  Nil = Nil
  Rpcs = {}
  MinBlocksToKeep = 2
  MaxRpcs = 0
  MaxRestarts = 0
INVARIANT BestChainActive
