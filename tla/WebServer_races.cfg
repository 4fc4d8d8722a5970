SPECIFICATION FairSpec
CONSTANTS
  r1 = r1
  r2 = r2
  bench = bench
  Request <- Tabs
  Command = bench
  Racer <- Racers
  MaxOrderId = 0
  HasOrders = TRUE
  Reps = 1
  Statements = 2
  Writer = {w1, w2}
  OpsPerWriter = 1
  HotRows = 1
  Offered <- Choices
  Asked <- TxUpdates
  MaxRequests = 3
  MaxBeside = 1
ACTION_CONSTRAINT FirstFreeTab
CHECK_DEADLOCK FALSE
INVARIANTS ServerInv ResultsAreWhole CountsAreTrue ShownOnce
PROPERTIES FlagIsCleared
