SPECIFICATION MarketSpec
CONSTANTS
  Symbols = {AAPL, GOOGL}
  NoSymbol = NoSymbol
  ConfigSymbols = {AAPL, GOOGL}
  EventCount = 4
  DrawnPrices = {1}
  DrawnQuantities = {1}
  Spreads = {1}
  Times <- MCTimes
  MaxBatch = 2
  Feed <- NoFeed
INVARIANTS
  GapOnlyByDrop
  IdsMeetOrders
PROPERTIES
  GapIsForever
  CallsReturn
  AllProcessed
