SPECIFICATION FairSpec
CONSTANTS
  c1 = c1
  c2 = c2
  None = None
  Session = {s1, s2}
  Customer = {c1, c2}
  Warehouse = {1, 2}
  Product = {1, 2}
  Row <- SeedRows
  InitStock <- OneUnit
  Rank <- HomeFirst
  OrderId = {1, 2, 3}
  SeedOrders <- PendingSeed
  AddQty = {1}
  SetQty = {0}
  MaxAdded = 1
INVARIANTS IInv StockMatchesOrders OrderConsistent CheckoutsNeverDeadlock NothingOrderedTwice
PROPERTIES AddsAreOrdered ImplementsOrderBook EveryTransactionEnds
