SPECIFICATION Spec
CONSTANTS
  GoSession = {g1}
  NetSession = {n1}
  Buyer = {b1, b2}
  Price = {p1, p2}
  None = None
  MaxTime = 2
SYMMETRY Same
INVARIANTS IInv EachSaleJoinsOnce
PROPERTIES ImplementsPriceBook
