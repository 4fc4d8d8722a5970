SPECIFICATION FairSpec
CONSTANTS
  Streams = 2
  BatchSize = 2
  Capacity = 1
  MaxConns = 2
  RefTables = 1
  MaxRows = 5
  MaxRuns = 2
CHECK_DEADLOCK FALSE
INVARIANTS IInv
PROPERTIES EveryRunEnds
