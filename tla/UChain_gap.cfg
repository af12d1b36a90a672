SPECIFICATION USpec
CONSTANTS
  Block = {0, 1, 2, 3, 4, 5}
  Genesis = 0
  Prev <- ShortPrev
  Height <- ShortHeight
  Anc <- ShortAnc
  Addr <- ShortAddr
  BadContext = {}
  Invalid = {}
  Threads = {"net"}
  Import = "net"
  Nil = Nil
  Rpcs = {}
  MinBlocksToKeep = 2
  MaxRpcs = 0
  MaxRestarts = 1
  Tx <- MCTx
  Op <- MCOp
  Target <- MCTarget
  HasData <- MCTx
  Bodies <- ShortBodies
  Age = 2
  MaxHeight = 5
  LateMiner = {}
  PeerTips = {}
  OutOfOrder = TRUE
  Templates = FALSE
  Crashes = FALSE
  Depths = {6}
  Levels = {5}
INVARIANT NoAbort
