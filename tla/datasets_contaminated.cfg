SPECIFICATION Spec
CONSTANTS
  AAPL = AAPL
  MSFT = MSFT
  Steps <- MCSteps
  Past <- MCPast
  MaxEvents = 10
  Window = 2
  TrainShare = 2
  ValidationShare = 1
  Whole = 4
  PriceColumn = "int64"
INVARIANTS
  TargetsBeforeCutoff
CHECK_DEADLOCK FALSE
