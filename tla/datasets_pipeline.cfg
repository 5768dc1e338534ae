SPECIFICATION Spec
CONSTANTS
  AAPL = AAPL
  MSFT = MSFT
  Steps <- MCSteps
  Past <- Nothing
  MaxEvents = 10
  Window = 2
  TrainShare = 2
  ValidationShare = 1
  Whole = 4
  PriceColumn = "Int64"
INVARIANTS
  PipelineGivesDataset
CHECK_DEADLOCK FALSE
