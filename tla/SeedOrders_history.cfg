SPECIFICATION OrdersSpec
CONSTANTS
  Days = 4
  Catalog <- TwoProducts
  Promotions <- OnePromotion
  FirstWeekdays = {3}
  PayDelays = {1}
  ShipDelays = {1, 2}
  TransitDelays = {1, 3}
  LaterDelays = {1, 2}
  Quantities = {3}
  AddressCounts = {2}
  MaxCustomers = 2
  MaxLines = 2
  MaxOrders = 2
CHECK_DEADLOCK FALSE
INVARIANTS LinesJoinTheirVersion PromotionsApply SeededRowsAgree RefundsAreFair
