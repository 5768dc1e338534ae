SPECIFICATION Spec
CONSTANTS
  Symbols = {AAPL}
  NoSymbol = NoSymbol
  MaxEvents = 4
  MCPrices = {1, 2}
  MCQuantities = {1, 2}
  MCFills = {2}
  MCTypes = {"Add", "Cancel", "Execute", "Quote"}
  Feed <- MCFeed
INVARIANTS
  OrdersConsistent
  BooksWellFormed
  BooksNeverCrossed
  QueuesInArrivalOrder
  ExecutionsTraceable
PROPERTIES
  ImplementsMarket
  PriceTimePriority
