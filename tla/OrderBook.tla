------------------------------ MODULE OrderBook -----------------------------
(***************************************************************************)
(* What the store promises about stock and orders, without carts, locks,   *)
(* transactions or failures: an order is placed as a whole, from stock     *)
(* that is there, and takes exactly its lines from it; it then ships, is   *)
(* delivered and returned unit by unit, or is cancelled as a whole and     *)
(* gives its lines back.  Checkout implements this specification.          *)
(***************************************************************************)
EXTENDS Orders

VARIABLES inv, orders

Init == inv = InitStock /\ orders = SeedOrders

(* n is the order that appears under the unused id o.                      *)
Place(o) ==
  LET n == orders'[o]
  IN /\ orders[o].status = "none"
     /\ orders' = [orders EXCEPT ![o] = n]
     /\ n \in Order
     /\ n = PaidOrder(n.customer, n.lines, n.from)
     /\ n.customer # None
     /\ n.lines # NoLines
     /\ \A p \in Product : IF n.lines[p] = 0 THEN n.from[p] = None
                           ELSE <<n.from[p], p>> \in Row /\ inv[<<n.from[p], p>>] >= n.lines[p]
     /\ inv' = [r \in Row |-> IF n.from[r[2]] = r[1] THEN inv[r] - n.lines[r[2]] ELSE inv[r]]

Ship(o) ==
  /\ orders[o].status = "paid"
  /\ orders' = [orders EXCEPT ![o] = Shipped(@)]
  /\ UNCHANGED inv

Deliver(o) ==
  /\ orders[o].status = "shipped"
  /\ orders' = [orders EXCEPT ![o] = Delivered(@)]
  /\ UNCHANGED inv

Return(o, p) ==
  /\ orders[o].status = "delivered"
  /\ orders[o].returned[p] < orders[o].lines[p]
  /\ orders' = [orders EXCEPT ![o] = UnitReturned(@, p)]
  /\ UNCHANGED inv

Cancel(o) ==
  /\ orders[o].status \in {"pending", "paid"}
  /\ orders' = [orders EXCEPT ![o].status = "cancelled",
                              ![o].ship = [w \in Warehouse |-> "none"],
                              ![o].payment = "refunded"]
  /\ inv' = [r \in Row |-> IF orders[o].from[r[2]] = r[1] THEN inv[r] + orders[o].lines[r[2]]
                           ELSE inv[r]]

Next == \E o \in OrderId : \/ Place(o) \/ Ship(o) \/ Deliver(o) \/ Cancel(o)
                           \/ \E p \in Product : Return(o, p)

Spec == Init /\ [][Next]_<<inv, orders>>
=============================================================================
