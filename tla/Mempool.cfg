CONSTANTS
  Tx <- MCTx
  Coinbase <- MCCoinbase
  vin <- MCvin
  Fee <- MCFee
  Size <- MCSize
  Signals = {"c"}
  Timelocked = {"c"}
  Block = {0, 1, 2, 3, 4, 5, 6, 7}
  Genesis = 0
  Prev <- MCPrev
  Height <- MCHeight
  Anc <- MCAnc
  Body <- MCBody
  Invalid = {4}
  COINBASE_MATURITY = 2
  LimitAncestors = 4
  LimitAncestorSize = 6
  LimitDescendants = 5
  LimitDescendantSize = 6
  MaxDescendantsToVisit = 2
  IncrementalRelayFee = 1
  MaxMempool = 4
  MaxDisconnected = 3
  Deltas <- MCDeltas
  MaxPrioritise = 1
SPECIFICATION Spec
INVARIANTS MTypeOK PackagesMatchLinks LinksExact PoolMinable DisconnectedApart
