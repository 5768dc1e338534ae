SPECIFICATION Spec
CONSTANTS
  Symbols = {AAPL, GOOGL}
  NoSymbol = NoSymbol
  MaxEvents = 4
  MCPrices = {1}
  MCQuantities = {1, 2}
  MCFills = {1}
  MCTypes = {"Add", "Cancel", "Execute"}
  Feed <- MCFeed
INVARIANT
  RemainderRests
