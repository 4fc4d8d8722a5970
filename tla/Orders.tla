------------------------------- MODULE Orders -------------------------------
(***************************************************************************)
(* The store's order tables: the constants, the order record and the       *)
(* assumptions that the order book (OrderBook) and its implementation by   *)
(* transactions (Checkout) share.  One record stands for an orders row     *)
(* with its order_items, payments, shipments and returns; the failed       *)
(* payment attempts, which only the seeder writes, are left out.           *)
(***************************************************************************)
EXTENDS Integers

CONSTANTS
  Customer,    \* customers, one cart each
  Warehouse,   \* warehouse ids
  Product,     \* product ids
  Row,         \* the inventory rows that exist: pairs <<warehouse, product>>
  InitStock,   \* quantity_on_hand of each row before the first request
  OrderId,     \* order ids the identity column can give out
  SeedOrders,  \* the orders the seeder wrote: [OrderId -> Order]
  None         \* no session, customer, warehouse or row

Status    == {"none", "pending", "paid", "shipped", "delivered", "cancelled"}
Payment   == {"none", "authorized", "captured", "refunded"}
Shipment  == {"none", "preparing", "in_transit", "delivered"}

(* A product is on at most one line of an order (the primary key of        *)
(* cart_items); a quantity of 0 stands for no line.                        *)
Lines == [Product -> Nat]

Order == [status   : Status,
          customer : Customer \cup {None},
          lines    : Lines,
          from     : [Product -> Warehouse \cup {None}],
          payment  : Payment,
          ship     : [Warehouse -> Shipment],
          returned : [Product -> Nat]]

NoLines == [p \in Product |-> 0]

NoOrder == [status |-> "none", customer |-> None, lines |-> NoLines,
            from |-> [p \in Product |-> None], payment |-> "none",
            ship |-> [w \in Warehouse |-> "none"], returned |-> NoLines]

ASSUME IdsAssumption ==
  /\ Warehouse \subseteq Nat
  /\ Product \subseteq Nat
  /\ OrderId \subseteq Nat
  /\ None \notin Customer
  /\ None \notin Warehouse
  /\ None \notin Row

ASSUME StockAssumption ==
  /\ Row \subseteq Warehouse \X Product
  /\ InitStock \in [Row -> Nat]

(* The seeder writes whole orders: a line has a warehouse, only a          *)
(* delivered order has returns, an order not shipped yet has a payment.    *)
ASSUME SeedAssumption ==
  /\ SeedOrders \in [OrderId -> Order]
  /\ \A o \in OrderId, p \in Product :
       /\ (SeedOrders[o].lines[p] > 0) <=> (SeedOrders[o].from[p] # None)
       /\ SeedOrders[o].returned[p] <= SeedOrders[o].lines[p]
       /\ SeedOrders[o].returned[p] > 0 => SeedOrders[o].status = "delivered"
  /\ \A o \in OrderId : /\ SeedOrders[o].status = "pending" => SeedOrders[o].payment = "authorized"
                        /\ SeedOrders[o].status = "paid" => SeedOrders[o].payment = "captured"

(* The warehouses an order ships from: one shipment each.                  *)
Parcels(from, status) ==
  [w \in Warehouse |-> IF \E p \in Product : from[p] = w THEN status ELSE "none"]

PaidOrder(c, lines, from) ==
  [status |-> "paid", customer |-> c, lines |-> lines, from |-> from,
   payment |-> "captured", ship |-> Parcels(from, "preparing"), returned |-> NoLines]

(* The parcels of an order whose status is old move on to new.             *)
Moved(ship, old, new) == [w \in Warehouse |-> IF ship[w] = old THEN new ELSE ship[w]]

(* An order after it ships, after it is delivered, and after one unit of   *)
(* product p comes back.                                                   *)
Shipped(order) ==
  [order EXCEPT !.status = "shipped", !.ship = Moved(@, "preparing", "in_transit")]
Delivered(order) ==
  [order EXCEPT !.status = "delivered", !.ship = Moved(@, "in_transit", "delivered")]
UnitReturned(order, p) == [order EXCEPT !.returned[p] = @ + 1]
=============================================================================
