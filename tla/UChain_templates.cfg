SPECIFICATION USpec
CONSTANTS
  Block = {0, 1, 2, 3, 4, 5}
  Genesis = 0
  Prev <- StubPrev
  Height <- StubHeight
  Anc <- StubAnc
  Addr <- StubAddr
  BadContext = {}
  Invalid = {}
  Threads = {"net"}
  Import = "net"
  Nil = Nil
  Rpcs = {"invalidate", "reconsider", "precious"}
  MinBlocksToKeep = 2
  MaxRpcs = 0
  MaxRestarts = 1
  Tx <- MCTx
  Op <- MCOp
  Target <- MCTarget
  HasData <- MCTx
  Bodies <- StubBodies
  Age = 2
  MaxHeight = 4
  LateMiner = {5}
  PeerTips = {4}
  OutOfOrder = TRUE
  Templates = TRUE
  Crashes = FALSE
  Depths = {6}
  Levels = {4}
INVARIANTS TemplateRoot RootsEnforced
