SPECIFICATION Spec
CONSTANTS
  Events <- MCEvents
  Cuts = {0, 35}
  MaxAppends = 2
  MaxOpens = 1
  MaxResets = 0
  MaxBatch = 1
INVARIANTS
  WrittenEventsValidate
