SPECIFICATION USpec
CONSTANTS
  Block = {0, 1, 2, 3, 4}
  Genesis = 0
  Prev <- PairPrev
  Height <- PairHeight
  Anc <- PairAnc
  Addr <- PairAddr
  BadContext = {}
  Invalid = {}
  Threads = {"net", "rpc"}
  Import = "net"
  Nil = Nil
  Rpcs = {"invalidate", "reconsider", "precious"}
  MinBlocksToKeep = 2
  MaxRpcs = 1
  MaxRestarts = 1
  Tx <- PairTx
  Op <- PairOp
  Target <- PairTarget
  HasData <- PairTx
  Bodies <- PairBodies
  Age = 2
  MaxHeight = 4
  LateMiner = {}
  PeerTips = {4}
  OutOfOrder = FALSE
  Templates = FALSE
  Crashes = TRUE
  Depths = {6}
  Levels = {}
INVARIANT OnlyOrdered
PROPERTY RewrittenWhenDue
CHECK_DEADLOCK FALSE
