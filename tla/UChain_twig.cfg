SPECIFICATION USpec
CONSTANTS
  Block = {0, 1, 2, 3, 4, 5, 6, 7}
  Genesis = 0
  Prev <- TwigPrev
  Height <- TwigHeight
  Anc <- TwigAnc
  Addr <- TwigAddr
  BadContext = {}
  Invalid = {}
  Threads = {"net"}
  Import = "net"
  Nil = Nil
  Rpcs = {}
  MinBlocksToKeep = 2
  MaxRpcs = 0
  MaxRestarts = 1
  Tx <- MCTx
  Op <- MCOp
  Target <- MCTarget
  HasData <- MCTx
  Bodies <- TwigBodies
  Age = 2
  MaxHeight = 6
  LateMiner = {}
  PeerTips = {}
  OutOfOrder = FALSE
  Templates = FALSE
  Crashes = FALSE
  Depths = {1, 6}
  Levels = {4, 5}
INVARIANTS UTypeOK HonestAccepted CachedRoots FilesUpToDate NoAbort
