CONSTANTS
  Outpoint = {"a", "b", "c", "d", "e", "m"}
  Coin = {1, 2, 3, 4}
  Spent = 0
  Block = {0, 1, 2, 3, 4, 5, 6, 7}
  Nil = Nil
  Unspendable = {"m"}
  Genesis = 0
  Prev <- MCPrev
  Body <- MCBody
  Bip30Exempt = {2}
  Buried = {0, 1, 2}
  MaxCrashes = 2
SPECIFICATION CSpec
INVARIANTS FlagsSound UtxoExact NoFault
PROPERTIES CoinsSpec ContractKept
