------------------------------ MODULE Checkout ------------------------------
(***************************************************************************)
(* The transactional core of the Go store: carts, checkout and the order   *)
(* lifecycle (internal/web/checkout.go) over the rows of PostgreSQL at     *)
(* READ COMMITTED.                                                         *)
(*                                                                         *)
(* A session is one HTTP request inside one database transaction.  The     *)
(* handlers take row locks (SELECT ... FOR UPDATE, UPDATE) and keep them   *)
(* to the end of the transaction; a handler is cut into steps where        *)
(* another transaction can act between two of its statements and be        *)
(* noticed, or where it can wait for a lock.  Ship, deliver and return     *)
(* take one lock, the order's, and touch only rows that lock protects, so  *)
(* each is one step.                                                       *)
(*                                                                         *)
(* The writes of a transaction are invisible until COMMIT, so they are     *)
(* made in the committing step; every row a transaction writes is locked   *)
(* by it before, the cart lines excepted (cartUpdate locks no cart).       *)
(*                                                                         *)
(* An operator named X_Y is X with the mistake Y in it; such operators     *)
(* show that the properties below notice the mistake and are used nowhere  *)
(* else.                                                                   *)
(***************************************************************************)
EXTENDS Orders, Totals

CONSTANTS
  Session,     \* request slots, each runs one transaction at a time
  Rank,        \* Rank[c][w]: position of w in the preference list of c
  AddQty,      \* quantities a form can send to cartAdd (1..99 in the code)
  SetQty,      \* quantities a form can send to cartUpdate (0..99 in the code)
  MaxAdded     \* bound: units of one product a customer ever puts in the cart

ASSUME SessionAssumption ==
  /\ None \notin Session
  /\ Rank \in [Customer -> [Warehouse -> Nat]]
  /\ AddQty \subseteq Nat \ {0}
  /\ SetQty \subseteq Nat
  /\ MaxAdded \in Nat

(* The identity column gives out finitely many ids.                        *)
ASSUME FiniteAssumption == IsFiniteSet(OrderId)

VARIABLES
  inv,        \* inventory.quantity_on_hand, committed
  cartRow,    \* customers that have a row in carts
  cart,       \* cart_items.quantity, 0 where there is no line
  orders,     \* orders, order_items, payments, shipments and returns by order
  cartLock,   \* who holds the row lock on a customer's carts row
  orderLock,  \* who holds the row lock on an orders row
  rowLock,    \* who holds the row lock on an inventory row
  tx,         \* the transaction of each session
  added       \* history: units ever put into a cart, by customer and product

locks == <<cartLock, orderLock, rowLock>>
vars  == <<inv, cartRow, cart, orders, cartLock, orderLock, rowLock, tx, added>>

Phase == {"idle",     \* no transaction
          "cart",     \* checkout: wants the lock on its cart
          "lines",    \* checkout: has the cart, reads the lines next
          "stock",    \* checkout: locks the stock rows, then places the order
          "order",    \* cancel: wants the lock on the order
          "restock"}  \* cancel: locks the stock rows, then commits

Transaction == [phase : Phase,
                cust  : Customer \cup {None},
                ord   : OrderId \cup {None},
                lines : Lines,              \* the cart lines it read
                stock : [Row -> Int],       \* the stock map it read
                need  : SUBSET Row,         \* stock rows it has still to lock
                want  : Row \cup {None}]    \* the row it asks for now

NoTx == [phase |-> "idle", cust |-> None, ord |-> None, lines |-> NoLines,
         stock |-> [r \in Row |-> 0], need |-> {}, want |-> None]

(* Every variable has its type; quantities in carts and orders are never   *)
(* negative.                                                               *)
TypeOK ==
  /\ inv \in [Row -> Int]
  /\ cartRow \in SUBSET Customer
  /\ cart \in [Customer -> Lines]
  /\ orders \in [OrderId -> Order]
  /\ cartLock \in [Customer -> Session \cup {None}]
  /\ orderLock \in [OrderId -> Session \cup {None}]
  /\ rowLock \in [Row -> Session \cup {None}]
  /\ tx \in [Session -> Transaction]
  /\ added \in [Customer -> Lines]

Init ==
  /\ inv = InitStock
  /\ cartRow = {}
  /\ cart = [c \in Customer |-> NoLines]
  /\ orders = SeedOrders
  /\ cartLock = [c \in Customer |-> None]
  /\ orderLock = [o \in OrderId |-> None]
  /\ rowLock = [r \in Row |-> None]
  /\ tx = [s \in Session |-> NoTx]
  /\ added = [c \in Customer |-> NoLines]

-----------------------------------------------------------------------------
(* Locks and the end of a transaction.                                     *)

InPhase(s, phase) == tx[s].phase = phase

CartFree_NoForUpdate(c) == TRUE
CartFree(c) == cartLock[c] = None

OrderFree_NoForUpdate(o) == TRUE
OrderFree(o) == orderLock[o] = None

RowFree_NoForUpdate(r) == TRUE
RowFree(r) == rowLock[r] = None

(* ORDER BY warehouse_id, product_id.                                      *)
Before(r, q) == \/ r[1] < q[1]
                \/ r[1] = q[1] /\ r[2] < q[2]

Firsts_NoOrderBy(S) == S
Firsts(S) == {r \in S : \A q \in S : q = r \/ Before(r, q)}

(* The stock row a statement may ask for next when it has still to lock S. *)
(* Checkout locks in a fixed order; the UPDATE of a cancel has no ORDER BY *)
(* and locks in whatever order its join produces the rows.                 *)
NextWanted(phase, S) == IF S = {} THEN {None}
                        ELSE IF phase = "stock" THEN Firsts(S) ELSE S

RowsOf(lines) == {r \in Row : lines[r[2]] > 0}

(* The stock rows an order's lines came from (the join of a cancel finds   *)
(* only rows that exist).                                                  *)
OrderRows(o) == {r \in Row : orders[o].from[r[2]] = r[1]}

(* COMMIT and ROLLBACK release every lock of the transaction.              *)
Release(s) ==
  /\ cartLock' = [c \in Customer |-> IF cartLock[c] = s THEN None ELSE cartLock[c]]
  /\ orderLock' = [o \in OrderId |-> IF orderLock[o] = s THEN None ELSE orderLock[o]]
  /\ rowLock' = [r \in Row |-> IF rowLock[r] = s THEN None ELSE rowLock[r]]

End(s) == tx' = [tx EXCEPT ![s] = NoTx] /\ Release(s)

(* BeginFunc rolls back when the function it runs returns an error.        *)
Rollback_Forgotten(s) == /\ tx' = [tx EXCEPT ![s] = NoTx]
                         /\ UNCHANGED <<inv, cartRow, cart, orders, locks, added>>
Rollback(s) == End(s) /\ UNCHANGED <<inv, cartRow, cart, orders, added>>

(* Whom the transaction s waits for: the holder of the row it asks for.    *)
Blocker(s) ==
  CASE InPhase(s, "cart")  -> cartLock[tx[s].cust]
    [] InPhase(s, "order") -> orderLock[tx[s].ord]
    [] tx[s].want # None   -> rowLock[tx[s].want]
    [] OTHER               -> None

(* A cycle (or a union of cycles) of transactions that wait for each       *)
(* other.                                                                  *)
Deadlocked(S) == S # {} /\ {Blocker(s) : s \in S} = S

UnusedIds   == {o \in OrderId : orders[o].status = "none"}
CheckingOut == {s \in Session : tx[s].phase \in {"cart", "lines", "stock"}}

-----------------------------------------------------------------------------
(* The cart page.                                                          *)

(* cartAdd: the upsert of the carts row waits for its lock, then adds to   *)
(* the line.                                                               *)
CartAdd(c, p, q) ==
  /\ CartFree(c)
  /\ added[c][p] + q <= MaxAdded
  /\ cartRow' = cartRow \cup {c}
  /\ cart' = [cart EXCEPT ![c][p] = @ + q]
  /\ added' = [added EXCEPT ![c][p] = @ + q]
  /\ UNCHANGED <<inv, orders, locks, tx>>

(* cartUpdate: one statement that sets or (at 0) deletes an existing line  *)
(* and takes no lock on the cart.  Raising a quantity puts units in.       *)
NewQty_Subtracts(old, q) == old - q
NewQty(old, q) == q

CartUpdate(c, p, q) ==
  LET more == IF q > cart[c][p] THEN q - cart[c][p] ELSE 0
  IN /\ cart[c][p] > 0
     /\ added[c][p] + more <= MaxAdded
     /\ cart' = [cart EXCEPT ![c][p] = NewQty(@, q)]
     /\ added' = [added EXCEPT ![c][p] = @ + more]
     /\ UNCHANGED <<inv, cartRow, orders, locks, tx>>

-----------------------------------------------------------------------------
(* Checkout.                                                               *)

(* A request arrives.  Bound: ids are left for every checkout under way.   *)
BeginCheckout(s, c) ==
  /\ InPhase(s, "idle")
  /\ Cardinality(CheckingOut) < Cardinality(UnusedIds)
  /\ tx' = [tx EXCEPT ![s] = [@ EXCEPT !.phase = "cart", !.cust = c]]
  /\ UNCHANGED <<inv, cartRow, cart, orders, locks, added>>

(* 1. Lock the cart; without a carts row the cart is empty.                *)
LockCart(s) ==
  /\ InPhase(s, "cart")
  /\ tx[s].cust \in cartRow
  /\ CartFree(tx[s].cust)
  /\ cartLock' = [cartLock EXCEPT ![tx[s].cust] = s]
  /\ tx' = [tx EXCEPT ![s] = [@ EXCEPT !.phase = "lines"]]
  /\ UNCHANGED <<inv, cartRow, cart, orders, orderLock, rowLock, added>>

(* 2. Read the lines.  The SELECT that locks the stock comes next and asks *)
(* for the first inventory row of these products.                          *)
ReadLines(s) ==
  LET lines == cart[tx[s].cust]
      rows  == RowsOf(lines)
  IN /\ InPhase(s, "lines")
     /\ lines # NoLines
     /\ \E r \in NextWanted("stock", rows) :
          tx' = [tx EXCEPT ![s] = [@ EXCEPT !.phase = "stock", !.lines = lines,
                                             !.need = rows, !.want = r]]
     /\ UNCHANGED <<inv, cartRow, cart, orders, locks, added>>

(* No carts row, or no line in it.                                         *)
EmptyCart(s) ==
  /\ \/ InPhase(s, "cart") /\ tx[s].cust \notin cartRow
     \/ InPhase(s, "lines") /\ cart[tx[s].cust] = NoLines
  /\ Rollback(s)

(* 3. A promotion code that is not active, or covers no line.              *)
PromoRejected(s) ==
  /\ InPhase(s, "lines")
  /\ cart[tx[s].cust] # NoLines
  /\ Rollback(s)

(* 4. Lock the stock row the statement asks for, and go on to the next.    *)
(* Checkout notes the quantity in its stock map: FOR UPDATE returns the    *)
(* row as it is once locked.                                               *)
LockRow(s) ==
  LET r    == tx[s].want
      left == tx[s].need \ {r}
      map  == IF InPhase(s, "stock") THEN [tx[s].stock EXCEPT ![r] = inv[r]] ELSE tx[s].stock
  IN /\ r # None
     /\ RowFree(r)
     /\ rowLock' = [rowLock EXCEPT ![r] = s]
     /\ \E next \in NextWanted(tx[s].phase, left) :
          tx' = [tx EXCEPT ![s] = [@ EXCEPT !.need = left, !.want = next, !.stock = map]]
     /\ UNCHANGED <<inv, cartRow, cart, orders, cartLock, orderLock, added>>

(* 5. The warehouses that have enough for the line of p, by the stock map, *)
(* and the most preferred of them.                                         *)
Enough_AnyStock(s, p) == {w \in Warehouse : /\ <<w, p>> \in Row
                                            /\ tx[s].stock[<<w, p>>] > 0}
Enough(s, p) == {w \in Warehouse : /\ <<w, p>> \in Row
                                   /\ tx[s].stock[<<w, p>>] >= tx[s].lines[p]}

Preferred(s, p) == CHOOSE w \in Enough(s, p) :
                     \A v \in Enough(s, p) : Rank[tx[s].cust][w] <= Rank[tx[s].cust][v]

ReadyToPlace(s) == InPhase(s, "stock") /\ tx[s].want = None

NotEnoughStock(s) ==
  /\ ReadyToPlace(s)
  /\ \E p \in Product : tx[s].lines[p] > 0 /\ Enough(s, p) = {}
  /\ Rollback(s)

ShipFrom(s) == [p \in Product |-> IF tx[s].lines[p] > 0 THEN Preferred(s, p) ELSE None]

(* 6. Every line is subtracted from the current quantity of its row.       *)
Take(s) == [r \in Row |-> IF ShipFrom(s)[r[2]] = r[1] THEN inv[r] - tx[s].lines[r[2]]
                          ELSE inv[r]]

(* 6-11 and COMMIT: take the stock, write the order, its lines, payment    *)
(* and shipments, and delete every line the cart has by then.              *)
PlaceOrder(s) ==
  /\ ReadyToPlace(s)
  /\ \A p \in Product : tx[s].lines[p] > 0 => Enough(s, p) # {}
  /\ inv' = Take(s)
  /\ \E o \in UnusedIds :
       /\ \A x \in UnusedIds : o <= x
       /\ orders' = [orders EXCEPT ![o] = PaidOrder(tx[s].cust, tx[s].lines, ShipFrom(s))]
  /\ cart' = [cart EXCEPT ![tx[s].cust] = NoLines]
  /\ End(s)
  /\ UNCHANGED <<cartRow, added>>

-----------------------------------------------------------------------------
(* orderAction: every action first locks the order row.                    *)

Ship(o) ==
  /\ OrderFree(o)
  /\ orders[o].status = "paid"
  /\ orders' = [orders EXCEPT ![o] = Shipped(@)]
  /\ UNCHANGED <<inv, cartRow, cart, locks, tx, added>>

Deliver(o) ==
  /\ OrderFree(o)
  /\ orders[o].status = "shipped"
  /\ orders' = [orders EXCEPT ![o] = Delivered(@)]
  /\ UNCHANGED <<inv, cartRow, cart, locks, tx, added>>

(* One unit of a line back; the stock is not touched.                      *)
UnitsLeft_Always1(o, p) == 1
UnitsLeft(o, p) == orders[o].lines[p] - orders[o].returned[p]

Return(o, p) ==
  /\ OrderFree(o)
  /\ orders[o].status = "delivered"
  /\ UnitsLeft(o, p) >= 1
  /\ orders' = [orders EXCEPT ![o] = UnitReturned(@, p)]
  /\ UNCHANGED <<inv, cartRow, cart, locks, tx, added>>

BeginCancel(s, o) ==
  /\ InPhase(s, "idle")
  /\ orders[o].status # "none"
  /\ tx' = [tx EXCEPT ![s] = [@ EXCEPT !.phase = "order", !.ord = o]]
  /\ UNCHANGED <<inv, cartRow, cart, orders, locks, added>>

CanCancel_AnyStatus(o) == TRUE
CanCancel(o) == orders[o].status \in {"pending", "paid"}

LockOrder(s) ==
  /\ InPhase(s, "order")
  /\ OrderFree(tx[s].ord)
  /\ CanCancel(tx[s].ord)
  /\ orderLock' = [orderLock EXCEPT ![tx[s].ord] = s]
  /\ \E r \in NextWanted("restock", OrderRows(tx[s].ord)) :
       tx' = [tx EXCEPT ![s] = [@ EXCEPT !.phase = "restock",
                                        !.need = OrderRows(tx[s].ord), !.want = r]]
  /\ UNCHANGED <<inv, cartRow, cart, orders, cartLock, rowLock, added>>

TooLateToCancel(s) ==
  /\ InPhase(s, "order")
  /\ OrderFree(tx[s].ord)
  /\ ~CanCancel(tx[s].ord)
  /\ Rollback(s)

(* The order once cancelled: no shipments, the payment refunded.           *)
Cancelled_KeepsParcels(order) ==
  [order EXCEPT !.status = "cancelled",
     !.payment = IF @ \in {"captured", "authorized"} THEN "refunded" ELSE @]
Cancelled(order) ==
  [order EXCEPT !.status = "cancelled",
     !.ship = [w \in Warehouse |-> "none"],
     !.payment = IF @ \in {"captured", "authorized"} THEN "refunded" ELSE @]

(* The stock goes back where each line came from; COMMIT.                  *)
CommitCancel(s) ==
  LET o == tx[s].ord
  IN /\ InPhase(s, "restock")
     /\ tx[s].want = None
     /\ inv' = [r \in Row |-> IF r \in OrderRows(o) THEN inv[r] + orders[o].lines[r[2]]
                              ELSE inv[r]]
     /\ orders' = [orders EXCEPT ![o] = Cancelled(@)]
     /\ End(s)
     /\ UNCHANGED <<cartRow, cart, added>>

-----------------------------------------------------------------------------
(* PostgreSQL and the network.                                             *)

(* The deadlock detector rolls back one transaction of a cycle.            *)
DeadlockVictim(s) ==
  /\ \E S \in SUBSET Session : s \in S /\ Deadlocked(S)
  /\ Rollback(s)

(* The request is cancelled, the connection is lost or the server stops    *)
(* at any point of the transaction.                                        *)
Fail(s) == ~InPhase(s, "idle") /\ Rollback(s)

-----------------------------------------------------------------------------

CheckoutStep(s) == \/ LockCart(s) \/ ReadLines(s) \/ EmptyCart(s) \/ PromoRejected(s)
                   \/ NotEnoughStock(s) \/ PlaceOrder(s)
CancelStep(s)   == LockOrder(s) \/ TooLateToCancel(s) \/ CommitCancel(s)

Next ==
  \/ \E c \in Customer, p \in Product :
       \/ \E q \in AddQty : CartAdd(c, p, q)
       \/ \E q \in SetQty : CartUpdate(c, p, q)
  \/ \E o \in OrderId : Ship(o) \/ Deliver(o) \/ \E p \in Product : Return(o, p)
  \/ \E s \in Session :
       \/ \E c \in Customer : BeginCheckout(s, c)
       \/ \E o \in OrderId : BeginCancel(s, o)
       \/ CheckoutStep(s) \/ LockRow(s) \/ CancelStep(s)
       \/ DeadlockVictim(s) \/ Fail(s)

Spec == Init /\ [][Next]_vars

(* A handler that can go on does, PostgreSQL grants a lock to its waiters  *)
(* in turn (so a waiter is not overtaken for ever), and its deadlock       *)
(* detector runs.  Nobody has to send a request.                           *)
GetsLock(s) == LockCart(s) \/ LockRow(s) \/ LockOrder(s) \/ TooLateToCancel(s)
GoesOn(s)   == ReadLines(s) \/ EmptyCart(s) \/ NotEnoughStock(s) \/ PlaceOrder(s) \/ CommitCancel(s)

Fairness ==
  \A s \in Session : SF_vars(GetsLock(s)) /\ WF_vars(GoesOn(s)) /\ WF_vars(DeadlockVictim(s))

FairSpec == Spec /\ Fairness

-----------------------------------------------------------------------------
(* Properties.                                                             *)

(* Whatever the transactions do, the store behaves like the order book:    *)
(* orders appear whole, with their stock, and end as a whole.              *)
Book == INSTANCE OrderBook WITH
          Customer <- Customer, Product <- Product, Warehouse <- Warehouse, Row <- Row,
          OrderId <- OrderId, None <- None, InitStock <- InitStock, SeedOrders <- SeedOrders,
          inv <- inv, orders <- orders
ImplementsOrderBook == Book!Spec

(* No interleaving drives a stock row below zero: the row's CHECK          *)
(* (quantity_on_hand >= 0) is never what stops a checkout (placeOrder, 4   *)
(* to 6).                                                                  *)
NoOversell == \A r \in Row : inv[r] >= 0

(* Units that orders hold of row r.  The seeder's stock is counted without *)
(* its own orders, so cancelling one of those adds to it.                  *)
Units(o, r) == IF orders[o].from[r[2]] = r[1] THEN orders[o].lines[r[2]] ELSE 0
Seeded(o)   == SeedOrders[o].status # "none"
Placed == {o \in OrderId : ~Seeded(o) /\ orders[o].status \notin {"none", "cancelled"}}
Undone == {o \in OrderId : /\ Seeded(o)
                           /\ orders[o].status = "cancelled"
                           /\ SeedOrders[o].status # "cancelled"}
Taken(r) == LET units == [o \in OrderId |-> Units(o, r)]
            IN Total(units, Placed) - Total(units, Undone)

(* "No order without stock, no stock taken without an order": whatever     *)
(* interleaves, fails or is cancelled twice, the stock missing from a row  *)
(* is what live orders took from it (placeOrder 6 and 7, cancel).          *)
StockMatchesOrders == \A r \in Row : inv[r] = InitStock[r] - Taken(r)

(* The stock map checkout decides on is the committed stock of the rows it *)
(* has locked, up to its own commit.                                       *)
StockMapIsCurrent ==
  \A s \in Session, r \in Row :
    InPhase(s, "stock") /\ rowLock[r] = s => tx[s].stock[r] = inv[r]

(* Shipping and cancelling at the same time cannot both win: status,       *)
(* payment and parcels of an order tell one story (orderAction).           *)
ParcelStatus(status) == CASE status = "paid"      -> "preparing"
                          [] status = "shipped"   -> "in_transit"
                          [] status = "delivered" -> "delivered"
OrderConsistent ==
  \A o \in OrderId : ~Seeded(o) /\ orders[o].status # "none" =>
    IF orders[o].status = "cancelled"
    THEN orders[o].payment = "refunded" /\ \A w \in Warehouse : orders[o].ship[w] = "none"
    ELSE /\ orders[o].payment = "captured"
         /\ orders[o].ship = Parcels(orders[o].from, ParcelStatus(orders[o].status))

(* Once an order has left the warehouse no interleaving cancels it, and a  *)
(* cancelled order stays cancelled (the row lock of orderAction).          *)
ShippedStaysShipped ==
  [][\A o \in OrderId :
       /\ orders[o].status \in {"shipped", "delivered"} => orders'[o].status # "cancelled"
       /\ orders[o].status = "cancelled" => orders'[o].status = "cancelled"]_orders

(* A double click, a retry or a failed checkout never orders a unit twice: *)
(* all the units a customer ever ordered are units that were put in the    *)
(* cart, each once (the cart lock of placeOrder and its step 11).          *)
OrderedBy(c) == {o \in OrderId : /\ ~Seeded(o)
                                 /\ orders[o].status # "none"
                                 /\ orders[o].customer = c}
OrderedUnits(c, p) == Total([o \in OrderId |-> orders[o].lines[p]], OrderedBy(c))
NothingOrderedTwice ==
  \A c \in Customer, p \in Product : OrderedUnits(c, p) + cart[c][p] <= added[c][p]

Places(s) == ReadyToPlace(s) /\ orders' # orders /\ tx'[s] # tx[s]

(* Emptying the cart never drops a product the checkout did not order: a   *)
(* cartAdd waits for the cart lock ("must never lose a write").            *)
AddsAreOrdered ==
  [][\A s \in Session : Places(s) =>
       \A p \in Product : cart[tx[s].cust][p] > 0 => tx[s].lines[p] > 0]_vars

(* The same for quantities: what checkout deletes from the cart is what it *)
(* ordered, so no change the customer made to a line is lost.              *)
CartWritesAreOrdered ==
  [][\A s \in Session : Places(s) => cart[tx[s].cust] = tx[s].lines]_vars

(* A customer gets back at most the units that were delivered, one by one  *)
(* and from concurrent requests (the return action).                       *)
ReturnsBounded ==
  \A o \in OrderId, p \in Product :
    /\ orders[o].returned[p] <= orders[o].lines[p]
    /\ orders[o].returned[p] > 0 => orders[o].status = "delivered"

(* "Two checkouts that lock the same rows in the same order cannot         *)
(* deadlock": no cycle of waiting transactions is made of checkouts only.  *)
CheckoutsNeverDeadlock == \A S \in SUBSET CheckingOut : ~Deadlocked(S)

(* No cycle of waiting transactions at all ("fixed lock order: no          *)
(* deadlocks").                                                            *)
NoDeadlock == \A S \in SUBSET Session : ~Deadlocked(S)

(* Every transaction ends: it commits, is refused, or is rolled back.      *)
EveryTransactionEnds == \A s \in Session : []<>InPhase(s, "idle")

-----------------------------------------------------------------------------
(* Why it works: an inductive invariant.                                   *)

(* A checkout has its customer and a cancel its order.                     *)
TxShape ==
  \A s \in Session :
    /\ tx[s].phase \in {"cart", "lines", "stock"} => tx[s].cust \in Customer
    /\ tx[s].phase \in {"order", "restock"} => tx[s].ord \in OrderId

(* A statement that asks for no further row has none left to lock.         *)
NeedIsWanted == \A s \in Session : tx[s].want = None => tx[s].need = {}

(* Only a statement that locks stock rows asks for one or holds one.       *)
RowsAreForStock ==
  \A s \in Session : tx[s].phase \notin {"stock", "restock"} =>
    tx[s].want = None /\ \A r \in Row : rowLock[r] # s

(* A checkout holds, or has still to lock, every stock row of its lines;   *)
(* what it holds is in its map with the committed quantity.                *)
CheckoutHolds ==
  \A s \in Session : InPhase(s, "stock") =>
    /\ tx[s].lines # NoLines
    /\ RowsOf(tx[s].lines) \subseteq tx[s].need \cup {r \in Row : rowLock[r] = s}

(* A checkout past step 1 holds its cart, so every line added to the cart  *)
(* was there when it read the lines.                                       *)
CartHeld ==
  \A s \in Session :
    /\ tx[s].phase \in {"lines", "stock"} => cartLock[tx[s].cust] = s
    /\ InPhase(s, "stock") => \A p \in Product : cart[tx[s].cust][p] > 0 => tx[s].lines[p] > 0

(* A cancel holds its order, which can still be cancelled, and holds or    *)
(* has still to lock the stock rows of its lines.                          *)
CancelHolds ==
  \A s \in Session : InPhase(s, "restock") =>
    /\ orderLock[tx[s].ord] = s
    /\ CanCancel(tx[s].ord)
    /\ OrderRows(tx[s].ord) \subseteq tx[s].need \cup {r \in Row : rowLock[r] = s}

(* An order that has not shipped has a payment to refund.                  *)
PaymentToRefund ==
  \A o \in OrderId : CanCancel(o) => orders[o].payment \in {"authorized", "captured"}

(* A checkout that asks for a row has those before it, and none after it;  *)
(* a cart is held by a checkout that is past step 1.                       *)
LocksInOrder ==
  /\ \A s \in Session : InPhase(s, "stock") /\ tx[s].want # None =>
       /\ tx[s].want \in Firsts(tx[s].need)
       /\ \A r \in Row : rowLock[r] = s => Before(r, tx[s].want)
  /\ \A c \in Customer, s \in Session :
       cartLock[c] = s => tx[s].phase \in {"lines", "stock"}

(* The locks each phase of a transaction holds, and what they protect.     *)
LockInv == /\ TypeOK /\ TxShape /\ NeedIsWanted /\ RowsAreForStock /\ CheckoutHolds
           /\ CartHeld /\ CancelHolds /\ PaymentToRefund /\ StockMapIsCurrent /\ NoOversell

(* A seeded order keeps its row, and a cancelled one stays cancelled.      *)
SeedsStay ==
  \A o \in OrderId :
    /\ Seeded(o) => orders[o].status # "none"
    /\ SeedOrders[o].status = "cancelled" => orders[o].status = "cancelled"

(* The lines a checkout has read were put in the cart and not ordered yet: *)
(* while it holds the cart nobody else orders them, and a cartUpdate after *)
(* the reading can only put in more.                                       *)
LinesWereAdded ==
  \A s \in Session : InPhase(s, "stock") =>
    \A p \in Product :
      OrderedUnits(tx[s].cust, p) + tx[s].lines[p] <= added[tx[s].cust][p]

(* The inductive invariant: the locks, and the two accounts they protect,  *)
(* of the stock against the orders and of the orders against the carts.    *)
IInv == LockInv /\ SeedsStay /\ LinesWereAdded /\ StockMatchesOrders /\ NothingOrderedTwice
=============================================================================
