SPECIFICATION Spec
CONSTANTS
  Events <- MCEvents
  Cuts = {0, 2, 35, 64}
  MaxAppends = 3
  MaxOpens = 2
  MaxResets = 1
  MaxBatch = 2
INVARIANTS
  PythonReadsWhatWasWritten
  ReadersAgree
  TypeOK
  ReadsWhatWasWritten
  FlushedSurvives
PROPERTIES
  CleanEndIsComplete
  ReadingEnds

