SPECIFICATION ReplaySpec
CONSTANTS
  Symbols = {AAPL}
  NoSymbol = NoSymbol
  MaxEvents = 3
  MCPrices = {1}
  MCQuantities = {1, 2}
  MCFills = {1}
  MCTypes = {"Add", "Cancel", "Execute"}
  Feed <- MCFeed
  MaxBatch = 2
  MaxWhims = 2
INVARIANTS
  ReplayAgrees
  AheadOnlyByCutBatch
PROPERTIES
  ReplayCompletes
