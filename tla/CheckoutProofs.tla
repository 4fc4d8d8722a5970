--------------------------- MODULE CheckoutProofs ---------------------------
(***************************************************************************)
(* Proofs about Checkout, for every number of sessions, customers,         *)
(* warehouses, products and orders: type correctness, the inductive        *)
(* invariant of the row locks and what follows from it, the order book,    *)
(* and the accounts of stock, orders and carts that the locks protect.     *)
(***************************************************************************)
EXTENDS Checkout, FiniteSetTheorems, WellFoundedInduction, TLAPS

-----------------------------------------------------------------------------
(* Facts about the operators.                                              *)

(* A statement with rows left to lock asks for one of them; with none left *)
(* it asks for no row.  Checkout asks for the first one.                   *)
LEMMA NextWantedFact ==
  ASSUME NEW phase, NEW S \in SUBSET Row, NEW r \in NextWanted(phase, S)
  PROVE  /\ r \in S \cup {None}
         /\ r = None <=> S = {}
         /\ phase = "stock" /\ r # None => r \in Firsts(S)
  BY IdsAssumption DEF NextWanted, Firsts

(* The end of a transaction gives up its own locks and no other.           *)
LEMMA ReleaseFact ==
  ASSUME TypeOK, NEW s \in Session, End(s)
  PROVE  /\ tx' \in [Session -> Transaction]
         /\ tx'[s] = NoTx
         /\ \A t \in Session \ {s} : tx'[t] = tx[t]
         /\ cartLock' \in [Customer -> Session \cup {None}]
         /\ orderLock' \in [OrderId -> Session \cup {None}]
         /\ rowLock' \in [Row -> Session \cup {None}]
         /\ \A t \in Session \ {s} :
              /\ \A c \in Customer : cartLock'[c] = t <=> cartLock[c] = t
              /\ \A o \in OrderId : orderLock'[o] = t <=> orderLock[o] = t
              /\ \A r \in Row : rowLock'[r] = t <=> rowLock[r] = t
         /\ \A r \in Row : rowLock'[r] # s
  <1>1. NoTx \in Transaction
    BY DEF NoTx, Transaction, Phase, NoLines, Lines
  <1>2. QED
    BY <1>1, SessionAssumption DEF End, Release, TypeOK

(* The order that checkout writes is an order.                             *)
LEMMA PaidOrderType ==
  ASSUME NEW c \in Customer, NEW lines \in Lines,
         NEW from \in [Product -> Warehouse \cup {None}]
  PROVE  PaidOrder(c, lines, from) \in Order
  BY DEF PaidOrder, Order, Parcels, NoLines, Lines, Status, Payment, Shipment

(* A nonempty set of naturals has a least element.                         *)
LEMMA LeastNatural ==
  ASSUME NEW T \in SUBSET Nat, T # {}
  PROVE  \E x \in T : \A y \in T : x <= y
  <1> DEFINE R == {pair \in Nat \X Nat : pair[1] < pair[2]}
  <1>1. IsWellFoundedOn(R, Nat)
    BY NatLessThanWellFounded, Zenon DEF OpToRel
  <1> HIDE DEF R
  <1>2. \E x \in T : \A y \in T : <<y, x>> \notin R
    BY <1>1, WFMin, Zenon
  <1>3. \A x, y \in Nat : <<y, x>> \in R <=> y < x
    BY DEF R
  <1>4. PICK x \in T : \A y \in T : <<y, x>> \notin R
    BY <1>2
  <1>5. ASSUME NEW y \in T PROVE x <= y
    <2>1. x \in Nat /\ y \in Nat
      OBVIOUS
    <2>2. ~(y < x)
      BY <2>1, <1>3, <1>4
    <2>3. QED
      BY <2>1, <2>2
  <1>6. QED
    BY <1>5

(* Once every row of its lines is locked, each line ships from a warehouse *)
(* that has the row and, by the stock map, enough units.                   *)
LEMMA ShipFromFact ==
  ASSUME TypeOK, TxShape, NEW s \in Session, InPhase(s, "stock"),
         \A q \in Product : tx[s].lines[q] > 0 => Enough(s, q) # {}
  PROVE  /\ ShipFrom(s) \in [Product -> Warehouse \cup {None}]
         /\ \A p \in Product :
              /\ tx[s].lines[p] = 0 => ShipFrom(s)[p] = None
              /\ tx[s].lines[p] > 0 => /\ <<ShipFrom(s)[p], p>> \in Row
                                       /\ tx[s].stock[<<ShipFrom(s)[p], p>>] >= tx[s].lines[p]
  <1> USE DEF InPhase
  <1>1. /\ tx[s].cust \in Customer
        /\ tx[s].lines \in Lines
    BY DEF TxShape, TypeOK, Transaction
  <1>2. ASSUME NEW q \in Product, tx[s].lines[q] > 0
        PROVE  Preferred(s, q) \in Enough(s, q)
    <2> DEFINE Ranks == {Rank[tx[s].cust][w] : w \in Enough(s, q)}
    <2>1. /\ Enough(s, q) \in SUBSET Warehouse
          /\ Enough(s, q) # {}
      BY <1>2 DEF Enough
    <2>2. Ranks \in SUBSET Nat /\ Ranks # {}
      BY <1>1, <2>1, SessionAssumption
    <2>3. \E x \in Ranks : \A y \in Ranks : x <= y
      BY <2>2, LeastNatural
    <2>4. \E w \in Enough(s, q) : \A v \in Enough(s, q) :
            Rank[tx[s].cust][w] <= Rank[tx[s].cust][v]
      BY <2>3
    <2>5. QED
      BY <2>4 DEF Preferred
  <1>3. ASSUME NEW q \in Product, tx[s].lines[q] > 0
        PROVE  /\ Preferred(s, q) \in Warehouse
               /\ <<Preferred(s, q), q>> \in Row
               /\ tx[s].stock[<<Preferred(s, q), q>>] >= tx[s].lines[q]
    BY <1>2, <1>3 DEF Enough
  <1>4. \A q \in Product : ShipFrom(s)[q] = IF tx[s].lines[q] > 0 THEN Preferred(s, q) ELSE None
    BY DEF ShipFrom
  <1>5. ShipFrom(s) \in [Product -> Warehouse \cup {None}]
    BY <1>3 DEF ShipFrom
  <1>6. QED
    BY <1>1, <1>3, <1>4, <1>5 DEF Lines

-----------------------------------------------------------------------------
(* Type correctness.                                                       *)

TypeInv == TypeOK /\ TxShape

(* The initial state has the types.                                        *)
LEMMA InitTypeInv == Init => TypeInv
  BY IdsAssumption, StockAssumption, SeedAssumption, SessionAssumption
  DEF Init, TypeInv, TypeOK, TxShape, NoTx, NoLines, Lines, Transaction, Phase

(* A rollback leaves a well-typed state.                                   *)
LEMMA RollbackTypeInv ==
  ASSUME TypeInv, NEW s \in Session, Rollback(s)
  PROVE  TypeInv'
  <1>1. End(s) /\ UNCHANGED <<inv, cartRow, cart, orders, added>>
    BY DEF Rollback
  <1>2. TypeOK'
    BY <1>1, ReleaseFact DEF TypeInv, TypeOK
  <1>3. TxShape'
    BY <1>1, ReleaseFact DEF TypeInv, TxShape, NoTx
  <1>4. QED
    BY <1>2, <1>3 DEF TypeInv

(* The cart page keeps the types.                                          *)
LEMMA CartTypeInv ==
  ASSUME TypeInv, NEW c \in Customer, NEW p \in Product,
         \/ \E q \in AddQty : CartAdd(c, p, q)
         \/ \E q \in SetQty : CartUpdate(c, p, q)
  PROVE  TypeInv'
  <1>1. CASE \E q \in AddQty : CartAdd(c, p, q)
    BY <1>1, SessionAssumption DEF CartAdd, TypeInv, TypeOK, TxShape, Lines, locks
  <1>2. CASE \E q \in SetQty : CartUpdate(c, p, q)
    BY <1>2, SessionAssumption DEF CartUpdate, NewQty, TypeInv, TypeOK, TxShape, Lines, locks
  <1>3. QED
    BY <1>1, <1>2

(* Ship, deliver and return change one order and keep its type.            *)
LEMMA OrderUpdateType ==
  ASSUME NEW order \in Order, NEW p \in Product
  PROVE  /\ Shipped(order) \in Order
         /\ Delivered(order) \in Order
         /\ UnitReturned(order, p) \in Order
         /\ Cancelled(order) \in Order
  <1>1. Shipped(order) \in Order
    BY DEF Shipped, Order, Status, Shipment, Moved
  <1>2. Delivered(order) \in Order
    BY DEF Delivered, Order, Status, Shipment, Moved
  <1>3. UnitReturned(order, p) \in Order
    BY DEF UnitReturned, Order, Lines
  <1>4. Cancelled(order) \in Order
    BY DEF Cancelled, Order, Status, Shipment, Payment
  <1>5. QED
    BY <1>1, <1>2, <1>3, <1>4

(* A step of one transaction is seen in that transaction's state only.     *)
LEMMA TxUpdate ==
  ASSUME TypeOK, NEW s \in Session, NEW t \in Transaction, tx' = [tx EXCEPT ![s] = t]
  PROVE  /\ tx' \in [Session -> Transaction]
         /\ tx'[s] = t
         /\ \A u \in Session \ {s} : tx'[u] = tx[u]
  BY DEF TypeOK

(* Ship, deliver and return keep the types.                                *)
LEMMA OrderActionTypeInv ==
  ASSUME TypeInv, NEW o \in OrderId,
         Ship(o) \/ Deliver(o) \/ \E p \in Product : Return(o, p)
  PROVE  TypeInv'
  <1>1. orders[o] \in Order
    BY DEF TypeInv, TypeOK
  <1>2. PICK order \in Order : orders' = [orders EXCEPT ![o] = order]
    <2>1. CASE Ship(o)
      BY <1>1, <2>1 DEF Ship, Shipped, Order, Status, Shipment, Moved
    <2>2. CASE Deliver(o)
      BY <1>1, <2>2 DEF Deliver, Delivered, Order, Status, Shipment, Moved
    <2>3. CASE \E p \in Product : Return(o, p)
      BY <1>1, <2>3, OrderUpdateType DEF Return
    <2>4. QED
      BY <2>1, <2>2, <2>3
  <1>3. UNCHANGED <<inv, cartRow, cart, locks, tx, added>>
    BY DEF Ship, Deliver, Return
  <1>4. QED
    BY <1>2, <1>3 DEF TypeInv, TypeOK, TxShape, locks

(* A request that arrives has its customer or its order, and no lock yet.  *)
LEMMA BeginFact ==
  ASSUME TypeInv, NEW s \in Session,
         \/ \E c \in Customer : BeginCheckout(s, c)
         \/ \E o \in OrderId : BeginCancel(s, o)
  PROVE  \E t \in Transaction :
           /\ tx' = [tx EXCEPT ![s] = t]
           /\ \/ t.phase = "cart" /\ t.cust \in Customer
              \/ t.phase = "order" /\ t.ord \in OrderId
           /\ t.need = tx[s].need /\ t.want = tx[s].want
  <1>1. tx[s] \in Transaction
    BY DEF TypeInv, TypeOK
  <1>2. CASE \E c \in Customer : BeginCheckout(s, c)
    <2>1. PICK c \in Customer : BeginCheckout(s, c)
      BY <1>2
    <2> DEFINE t == [tx[s] EXCEPT !.phase = "cart", !.cust = c]
    <2>2. /\ t \in Transaction /\ t.phase = "cart" /\ t.cust = c
          /\ t.need = tx[s].need /\ t.want = tx[s].want
      BY <1>1 DEF Transaction, Phase
    <2>3. tx' = [tx EXCEPT ![s] = t]
      BY <2>1 DEF BeginCheckout
    <2> HIDE DEF t
    <2>4. QED
      BY <2>2, <2>3
  <1>3. CASE \E o \in OrderId : BeginCancel(s, o)
    <2>1. PICK o \in OrderId : BeginCancel(s, o)
      BY <1>3
    <2> DEFINE t == [tx[s] EXCEPT !.phase = "order", !.ord = o]
    <2>2. /\ t \in Transaction /\ t.phase = "order" /\ t.ord = o
          /\ t.need = tx[s].need /\ t.want = tx[s].want
      BY <1>1 DEF Transaction, Phase
    <2>3. tx' = [tx EXCEPT ![s] = t]
      BY <2>1 DEF BeginCancel
    <2> HIDE DEF t
    <2>4. QED
      BY <2>2, <2>3
  <1>4. QED
    BY <1>2, <1>3

(* A request that arrives keeps the types.                                 *)
LEMMA BeginTypeInv ==
  ASSUME TypeInv, NEW s \in Session,
         \/ \E c \in Customer : BeginCheckout(s, c)
         \/ \E o \in OrderId : BeginCancel(s, o)
  PROVE  TypeInv'
  <1>1. PICK t \in Transaction :
           /\ tx' = [tx EXCEPT ![s] = t]
           /\ \/ t.phase = "cart" /\ t.cust \in Customer
              \/ t.phase = "order" /\ t.ord \in OrderId
    BY BeginFact
  <1>2. UNCHANGED <<inv, cartRow, cart, orders, locks, added>>
    BY DEF BeginCheckout, BeginCancel
  <1>3. QED
    BY <1>1, <1>2, TxUpdate DEF TypeInv, TypeOK, TxShape, locks

-----------------------------------------------------------------------------
(* What the locking steps do to the transaction.                           *)

(* Step 1 of checkout.                                                     *)
LEMMA LockCartFact ==
  ASSUME TypeInv, NEW s \in Session, LockCart(s)
  PROVE  \E t \in Transaction :
           /\ tx' = [tx EXCEPT ![s] = t]
           /\ t.phase = "lines" /\ t.cust = tx[s].cust
           /\ t.need = tx[s].need /\ t.want = tx[s].want
           /\ t.cust \in Customer
  <1>1. tx[s] \in Transaction
    BY DEF TypeInv, TypeOK
  <1> DEFINE t == [tx[s] EXCEPT !.phase = "lines"]
  <1>2. /\ t \in Transaction /\ t.phase = "lines" /\ t.cust = tx[s].cust
        /\ t.need = tx[s].need /\ t.want = tx[s].want
    BY <1>1 DEF Transaction, Phase
  <1>3. tx' = [tx EXCEPT ![s] = t] /\ tx[s].cust \in Customer
    BY DEF LockCart, TypeInv, TxShape, InPhase
  <1>4. QED
    BY <1>2, <1>3

(* Step 2 of checkout.                                                     *)
LEMMA ReadLinesFact ==
  ASSUME TypeInv, NEW s \in Session, ReadLines(s)
  PROVE  \E t \in Transaction :
           /\ tx' = [tx EXCEPT ![s] = t]
           /\ t.phase = "stock" /\ t.cust = tx[s].cust /\ t.cust \in Customer
           /\ t.lines = cart[t.cust] /\ t.lines # NoLines
           /\ t.need = RowsOf(t.lines)
           /\ t.want \in t.need \cup {None} /\ (t.want = None => t.need = {})
           /\ t.want # None => t.want \in Firsts(t.need)
  <1>1. /\ tx[s] \in Transaction
        /\ tx[s].cust \in Customer
        /\ cart[tx[s].cust] \in Lines /\ cart[tx[s].cust] # NoLines
        /\ RowsOf(cart[tx[s].cust]) \in SUBSET Row
    BY DEF ReadLines, RowsOf, InPhase, TypeInv, TypeOK, TxShape
  <1> DEFINE lines == cart[tx[s].cust]
             rows  == RowsOf(lines)
  <1>2. PICK r \in NextWanted("stock", rows) :
          tx' = [tx EXCEPT ![s] = [@ EXCEPT !.phase = "stock", !.lines = lines,
                                            !.need = rows, !.want = r]]
    BY DEF ReadLines
  <1>3. r \in rows \cup {None} /\ (r = None <=> rows = {}) /\ (r # None => r \in Firsts(rows))
    BY <1>1, NextWantedFact
  <1> DEFINE t == [tx[s] EXCEPT !.phase = "stock", !.lines = lines,
                                !.need = rows, !.want = r]
  <1>4. /\ t \in Transaction /\ t.phase = "stock" /\ t.cust = tx[s].cust
        /\ t.lines = lines /\ t.need = rows /\ t.want = r
    BY <1>1, <1>3 DEF Transaction, Phase
  <1>5. tx' = [tx EXCEPT ![s] = t]
    BY <1>2
  <1>6. QED
    BY <1>1, <1>3, <1>4, <1>5

(* A stock row is locked; a checkout notes its quantity.                   *)
LEMMA LockRowFact ==
  ASSUME TypeInv, NEW s \in Session, LockRow(s)
  PROVE  /\ tx[s].want \in Row
         /\ \E t \in Transaction :
              /\ tx' = [tx EXCEPT ![s] = t]
              /\ t.phase = tx[s].phase /\ t.cust = tx[s].cust /\ t.ord = tx[s].ord
              /\ t.lines = tx[s].lines
              /\ t.need = tx[s].need \ {tx[s].want}
              /\ t.want \in t.need \cup {None} /\ (t.want = None => t.need = {})
              /\ tx[s].phase = "stock" /\ t.want # None => t.want \in Firsts(t.need)
              /\ \A r \in Row : t.stock[r] = IF r = tx[s].want /\ tx[s].phase = "stock"
                                             THEN inv[r] ELSE tx[s].stock[r]
  <1>1. /\ tx[s] \in Transaction
        /\ tx[s].want \in Row
        /\ inv \in [Row -> Int]
    BY DEF LockRow, TypeInv, TypeOK, Transaction
  <1> DEFINE w     == tx[s].want
             left  == tx[s].need \ {w}
             stock == IF InPhase(s, "stock") THEN [tx[s].stock EXCEPT ![w] = inv[w]]
                      ELSE tx[s].stock
  <1>2. PICK r \in NextWanted(tx[s].phase, left) :
          tx' = [tx EXCEPT ![s] = [@ EXCEPT !.need = left, !.want = r, !.stock = stock]]
    BY DEF LockRow
  <1>3. left \in SUBSET Row
    BY <1>1 DEF Transaction
  <1>4. /\ r \in left \cup {None} /\ (r = None <=> left = {})
        /\ tx[s].phase = "stock" /\ r # None => r \in Firsts(left)
    BY <1>3, NextWantedFact
  <1>5. /\ stock \in [Row -> Int]
        /\ \A q \in Row : stock[q] = IF q = w /\ tx[s].phase = "stock"
                                     THEN inv[q] ELSE tx[s].stock[q]
    BY <1>1 DEF Transaction, InPhase
  <1> DEFINE t == [tx[s] EXCEPT !.need = left, !.want = r, !.stock = stock]
  <1>6. tx' = [tx EXCEPT ![s] = t]
    BY <1>2
  <1> HIDE DEF stock
  <1>7. /\ t \in Transaction /\ t.phase = tx[s].phase /\ t.cust = tx[s].cust
        /\ t.ord = tx[s].ord /\ t.lines = tx[s].lines
        /\ t.need = left /\ t.want = r /\ t.stock = stock
    BY <1>1, <1>3, <1>4, <1>5 DEF Transaction
  <1> HIDE DEF t
  <1>8. /\ t.want \in t.need \cup {None} /\ (t.want = None => t.need = {})
        /\ tx[s].phase = "stock" /\ t.want # None => t.want \in Firsts(t.need)
        /\ \A q \in Row : t.stock[q] = IF q = w /\ tx[s].phase = "stock"
                                       THEN inv[q] ELSE tx[s].stock[q]
    BY <1>4, <1>5, <1>7
  <1>9. QED
    BY <1>1, <1>6, <1>7, <1>8

(* A cancel locks its order and asks for the stock rows of its lines.      *)
LEMMA LockOrderFact ==
  ASSUME TypeInv, NEW s \in Session, LockOrder(s)
  PROVE  /\ tx[s].ord \in OrderId
         /\ \E t \in Transaction :
              /\ tx' = [tx EXCEPT ![s] = t]
              /\ t.phase = "restock" /\ t.ord = tx[s].ord
              /\ t.need = OrderRows(t.ord)
              /\ t.want \in t.need \cup {None} /\ (t.want = None => t.need = {})
  <1> DEFINE rows == OrderRows(tx[s].ord)
  <1>1. /\ tx[s] \in Transaction
        /\ tx[s].ord \in OrderId
        /\ rows \in SUBSET Row
    BY DEF LockOrder, OrderRows, InPhase, TypeInv, TypeOK, TxShape
  <1>2. PICK r \in NextWanted("restock", rows) :
          tx' = [tx EXCEPT ![s] = [@ EXCEPT !.phase = "restock", !.need = rows, !.want = r]]
    BY DEF LockOrder
  <1> HIDE DEF rows
  <1>3. r \in rows \cup {None} /\ (r = None <=> rows = {})
    BY <1>1, NextWantedFact
  <1> DEFINE t == [tx[s] EXCEPT !.phase = "restock", !.need = rows, !.want = r]
  <1>4. /\ t \in Transaction /\ t.phase = "restock" /\ t.ord = tx[s].ord
        /\ t.need = rows /\ t.want = r
    BY <1>1, <1>3 DEF Transaction, Phase
  <1>5. tx' = [tx EXCEPT ![s] = t]
    BY <1>2
  <1>6. QED
    BY <1>1, <1>3, <1>4, <1>5 DEF rows

-----------------------------------------------------------------------------
(* The inductive invariant.                                                *)

(* The initial state satisfies it.                                         *)
LEMMA InitLockInv == Init => LockInv
  <1> SUFFICES ASSUME Init PROVE LockInv
    OBVIOUS
  <1>1. TypeOK /\ TxShape
    BY InitTypeInv DEF TypeInv
  <1>2. \A s \in Session : tx[s] = NoTx
    BY DEF Init
  <1>3. NeedIsWanted /\ RowsAreForStock /\ CheckoutHolds /\ CartHeld
    BY <1>2, SessionAssumption
    DEF Init, NoTx, NeedIsWanted, RowsAreForStock, CheckoutHolds, CartHeld, InPhase
  <1>4. CancelHolds /\ StockMapIsCurrent
    BY <1>2 DEF NoTx, CancelHolds, StockMapIsCurrent, InPhase
  <1>5. PaymentToRefund /\ NoOversell
    BY SeedAssumption, StockAssumption DEF Init, PaymentToRefund, NoOversell, CanCancel
  <1>6. QED
    BY <1>1, <1>3, <1>4, <1>5 DEF LockInv

(* The parts that speak of transactions and locks survive the end of a     *)
(* transaction, whatever it commits, as long as the rows and the order     *)
(* that the others hold do not change.                                     *)
LEMMA EndLockInv ==
  ASSUME LockInv, NEW s \in Session, End(s), TypeOK',
         \A t \in Session \ {s}, r \in Row : rowLock[r] = t => inv'[r] = inv[r],
         \A t \in Session \ {s} : InPhase(t, "restock") =>
             orders'[tx[t].ord] = orders[tx[t].ord],
         \A t \in Session \ {s} : InPhase(t, "stock") => cart'[tx[t].cust] = cart[tx[t].cust]
  PROVE  /\ TxShape' /\ NeedIsWanted' /\ RowsAreForStock' /\ CheckoutHolds'
         /\ CartHeld' /\ CancelHolds' /\ StockMapIsCurrent'
  <1> USE DEF InPhase
  <1>1. TypeOK
    BY DEF LockInv
  <1>2. /\ tx'[s] = NoTx
        /\ \A t \in Session \ {s} : tx'[t] = tx[t]
        /\ \A t \in Session \ {s} :
             /\ \A c \in Customer : cartLock'[c] = t <=> cartLock[c] = t
             /\ \A o \in OrderId : orderLock'[o] = t <=> orderLock[o] = t
             /\ \A r \in Row : rowLock'[r] = t <=> rowLock[r] = t
        /\ \A r \in Row : rowLock'[r] # s
    BY <1>1, ReleaseFact
  <1>3. /\ tx'[s].phase = "idle" /\ tx'[s].want = None /\ tx'[s].need = {}
    BY <1>2 DEF NoTx
  <1>4. TxShape'
    BY <1>2, <1>3 DEF LockInv, TxShape
  <1>5. NeedIsWanted'
    BY <1>2, <1>3 DEF LockInv, NeedIsWanted
  <1>6. RowsAreForStock'
    BY <1>2, <1>3 DEF LockInv, RowsAreForStock
  <1>7. CheckoutHolds'
    BY <1>2, <1>3 DEF LockInv, CheckoutHolds
  <1>8. CartHeld'
    BY <1>2, <1>3 DEF LockInv, TxShape, CartHeld
  <1>9. CancelHolds'
    BY <1>2, <1>3 DEF LockInv, TxShape, CancelHolds, CanCancel, OrderRows
  <1>10. StockMapIsCurrent'
    BY <1>2, <1>3 DEF LockInv, StockMapIsCurrent
  <1>11. QED
    BY <1>4, <1>5, <1>6, <1>7, <1>8, <1>9, <1>10

(* A rollback.                                                             *)
LEMMA RollbackLockInv ==
  ASSUME LockInv, NEW s \in Session, Rollback(s)
  PROVE  LockInv'
  <1>1. TypeOK'
    BY RollbackTypeInv DEF LockInv, TypeInv
  <1>2. End(s) /\ UNCHANGED <<inv, cartRow, cart, orders, added>>
    BY DEF Rollback
  <1>3. /\ TxShape' /\ NeedIsWanted' /\ RowsAreForStock' /\ CheckoutHolds'
        /\ CartHeld' /\ CancelHolds' /\ StockMapIsCurrent'
    BY <1>1, <1>2, EndLockInv
  <1>4. PaymentToRefund' /\ NoOversell'
    BY <1>2 DEF LockInv, PaymentToRefund, CanCancel, NoOversell
  <1>5. QED
    BY <1>1, <1>3, <1>4 DEF LockInv

(* cartAdd and cartUpdate: no checkout that has read its lines sees a new  *)
(* one.                                                                    *)
LEMMA CartLockInv ==
  ASSUME LockInv, NEW c \in Customer, NEW p \in Product,
         \/ \E q \in AddQty : CartAdd(c, p, q)
         \/ \E q \in SetQty : CartUpdate(c, p, q)
  PROVE  LockInv'
  <1>1. TypeOK' /\ TxShape'
    BY CartTypeInv DEF LockInv, TypeInv
  <1>2. UNCHANGED <<inv, orders, cartLock, orderLock, rowLock, tx>>
    BY DEF CartAdd, CartUpdate, locks
  <1>3. /\ NeedIsWanted' /\ RowsAreForStock' /\ CheckoutHolds' /\ CancelHolds'
        /\ PaymentToRefund' /\ StockMapIsCurrent' /\ NoOversell'
    BY <1>2 DEF LockInv, NeedIsWanted, RowsAreForStock, CheckoutHolds, CancelHolds, CanCancel,
                OrderRows, PaymentToRefund, StockMapIsCurrent, NoOversell, InPhase
  <1>4. ASSUME NEW s \in Session, InPhase(s, "stock"), NEW q \in Product,
               cart'[tx[s].cust][q] > 0
        PROVE  tx[s].lines[q] > 0
    <2>1. tx[s].cust \in Customer /\ cartLock[tx[s].cust] = s
      BY <1>4 DEF LockInv, TxShape, CartHeld, InPhase
    <2>2. cart[tx[s].cust][q] > 0 => tx[s].lines[q] > 0
      BY <1>4 DEF LockInv, CartHeld
    <2>3. CASE \E n \in AddQty : CartAdd(c, p, n)
      <3>1. c # tx[s].cust
        BY <2>1, <2>3, SessionAssumption DEF CartAdd, CartFree
      <3>2. cart'[tx[s].cust] = cart[tx[s].cust]
        BY <2>1, <2>3, <3>1 DEF CartAdd, LockInv, TypeOK
      <3>3. QED
        BY <1>4, <2>2, <3>2
    <2>4. CASE \E n \in SetQty : CartUpdate(c, p, n)
      <3>1. cart'[tx[s].cust][q] = cart[tx[s].cust][q] \/ cart[tx[s].cust][q] > 0
        BY <2>1, <2>4 DEF CartUpdate, LockInv, TypeOK, Lines
      <3>2. QED
        BY <1>4, <2>2, <3>1
    <2>5. QED
      BY <2>3, <2>4
  <1>5. CartHeld'
    BY <1>2, <1>4 DEF LockInv, CartHeld, InPhase
  <1>6. QED
    BY <1>1, <1>3, <1>5 DEF LockInv

(* Ship, deliver and return: the order is not locked, so no cancel holds   *)
(* it.                                                                     *)
LEMMA OrderActionLockInv ==
  ASSUME LockInv, NEW o \in OrderId,
         Ship(o) \/ Deliver(o) \/ \E p \in Product : Return(o, p)
  PROVE  LockInv'
  <1>1. TypeOK' /\ TxShape'
    BY OrderActionTypeInv DEF LockInv, TypeInv
  <1>2. /\ orderLock[o] = None
        /\ UNCHANGED <<inv, cart, cartLock, orderLock, rowLock, tx>>
    BY DEF Ship, Deliver, Return, OrderFree, locks
  <1>3. \A x \in OrderId \ {o} : orders'[x] = orders[x]
    BY DEF Ship, Deliver, Return, LockInv, TypeOK
  <1>4. orders'[o].status \in {"shipped", "delivered"}
    <2>1. orders[o] \in Order
      BY DEF LockInv, TypeOK
    <2>2. CASE Ship(o)
      BY <2>1, <2>2 DEF Ship, Shipped, LockInv, TypeOK, Order
    <2>3. CASE Deliver(o)
      BY <2>1, <2>3 DEF Deliver, Delivered, LockInv, TypeOK, Order
    <2>4. CASE \E p \in Product : Return(o, p)
      BY <2>1, <2>4 DEF Return, UnitReturned, LockInv, TypeOK, Order
    <2>5. QED
      BY <2>2, <2>3, <2>4
  <1>5. /\ NeedIsWanted' /\ RowsAreForStock' /\ CheckoutHolds' /\ CartHeld'
        /\ StockMapIsCurrent' /\ NoOversell'
    BY <1>2 DEF LockInv, NeedIsWanted, RowsAreForStock, CheckoutHolds, CartHeld,
                StockMapIsCurrent, NoOversell, InPhase
  <1>6. CancelHolds'
    <2>1. ASSUME NEW s \in Session, InPhase(s, "restock")
          PROVE  tx[s].ord \in OrderId \ {o}
      BY <2>1, <1>2, SessionAssumption DEF LockInv, TxShape, CancelHolds, InPhase
    <2>2. QED
      BY <1>2, <1>3, <2>1 DEF LockInv, CancelHolds, CanCancel, OrderRows, InPhase
  <1>7. PaymentToRefund'
    BY <1>3, <1>4 DEF LockInv, PaymentToRefund, CanCancel
  <1>8. QED
    BY <1>1, <1>5, <1>6, <1>7 DEF LockInv

(* A request arrives: the transaction holds nothing yet.                   *)
LEMMA BeginLockInv ==
  ASSUME LockInv, NEW s \in Session,
         \/ \E c \in Customer : BeginCheckout(s, c)
         \/ \E o \in OrderId : BeginCancel(s, o)
  PROVE  LockInv'
  <1>1. TypeOK' /\ TxShape'
    BY BeginTypeInv DEF LockInv, TypeInv
  <1>2. /\ tx[s].phase = "idle"
        /\ UNCHANGED <<inv, cart, orders, cartLock, orderLock, rowLock>>
    BY DEF BeginCheckout, BeginCancel, locks, InPhase
  <1>3. /\ tx'[s].phase \in {"cart", "order"}
        /\ tx'[s].want = tx[s].want /\ tx'[s].need = tx[s].need
        /\ \A t \in Session \ {s} : tx'[t] = tx[t]
    BY BeginFact, TxUpdate DEF LockInv, TypeInv
  <1>4. NeedIsWanted'
    BY <1>3 DEF LockInv, NeedIsWanted
  <1>5. RowsAreForStock'
    BY <1>2, <1>3 DEF LockInv, RowsAreForStock
  <1>6. CheckoutHolds' /\ CartHeld' /\ CancelHolds' /\ StockMapIsCurrent'
    <2>1. CheckoutHolds'
      BY <1>2, <1>3 DEF LockInv, CheckoutHolds, InPhase
    <2>2. CartHeld'
      BY <1>2, <1>3 DEF LockInv, CartHeld, InPhase
    <2>3. CancelHolds'
      BY <1>2, <1>3 DEF LockInv, CancelHolds, CanCancel, OrderRows, InPhase
    <2>4. StockMapIsCurrent'
      BY <1>2, <1>3 DEF LockInv, StockMapIsCurrent, InPhase
    <2>5. QED
      BY <2>1, <2>2, <2>3, <2>4
  <1>7. PaymentToRefund' /\ NoOversell'
    BY <1>2 DEF LockInv, PaymentToRefund, CanCancel, NoOversell
  <1>8. QED
    BY <1>1, <1>4, <1>5, <1>6, <1>7 DEF LockInv

(* Step 1 of checkout takes the cart: nobody else is past it there.        *)
LEMMA LockCartLockInv ==
  ASSUME LockInv, NEW s \in Session, LockCart(s)
  PROVE  LockInv'
  <1>1. TypeInv /\ TypeOK
    BY DEF LockInv, TypeInv
  <1>2. PICK t \in Transaction :
           /\ tx' = [tx EXCEPT ![s] = t]
           /\ t.phase = "lines" /\ t.cust = tx[s].cust
           /\ t.need = tx[s].need /\ t.want = tx[s].want
           /\ t.cust \in Customer
    BY <1>1, LockCartFact
  <1>3. /\ tx' \in [Session -> Transaction]
        /\ tx'[s] = t
        /\ \A u \in Session \ {s} : tx'[u] = tx[u]
    BY <1>1, <1>2, TxUpdate
  <1>4. /\ tx[s].phase = "cart" /\ cartLock[t.cust] = None
        /\ cartLock' = [cartLock EXCEPT ![t.cust] = s]
        /\ UNCHANGED <<inv, cartRow, cart, orders, orderLock, rowLock, added>>
    BY <1>2 DEF LockCart, CartFree, InPhase
  <1>5. TypeOK' /\ TxShape'
    BY <1>2, <1>3, <1>4 DEF LockInv, TypeOK, TxShape
  <1>6. NeedIsWanted' /\ RowsAreForStock'
    BY <1>2, <1>3, <1>4 DEF LockInv, NeedIsWanted, RowsAreForStock
  <1>7. CheckoutHolds' /\ StockMapIsCurrent'
    BY <1>2, <1>3, <1>4 DEF LockInv, CheckoutHolds, StockMapIsCurrent, InPhase
  <1>8. CartHeld'
    BY <1>2, <1>3, <1>4, SessionAssumption DEF LockInv, TypeOK, TxShape, CartHeld, InPhase
  <1>9. CancelHolds'
    BY <1>2, <1>3, <1>4 DEF LockInv, CancelHolds, CanCancel, OrderRows, InPhase
  <1>10. PaymentToRefund' /\ NoOversell'
    BY <1>4 DEF LockInv, PaymentToRefund, CanCancel, NoOversell
  <1>11. QED
    BY <1>5, <1>6, <1>7, <1>8, <1>9, <1>10 DEF LockInv

(* Step 2 reads the lines of the locked cart and holds no stock row yet.   *)
LEMMA ReadLinesLockInv ==
  ASSUME LockInv, NEW s \in Session, ReadLines(s)
  PROVE  LockInv'
  <1>1. TypeInv /\ TypeOK
    BY DEF LockInv, TypeInv
  <1>2. PICK t \in Transaction :
           /\ tx' = [tx EXCEPT ![s] = t]
           /\ t.phase = "stock" /\ t.cust = tx[s].cust /\ t.cust \in Customer
           /\ t.lines = cart[t.cust] /\ t.lines # NoLines
           /\ t.need = RowsOf(t.lines)
           /\ t.want \in t.need \cup {None} /\ (t.want = None => t.need = {})
    BY <1>1, ReadLinesFact
  <1>3. /\ tx' \in [Session -> Transaction]
        /\ tx'[s] = t
        /\ \A u \in Session \ {s} : tx'[u] = tx[u]
    BY <1>1, <1>2, TxUpdate
  <1>4. /\ tx[s].phase = "lines"
        /\ UNCHANGED <<inv, cartRow, cart, orders, cartLock, orderLock, rowLock, added>>
    BY DEF ReadLines, locks, InPhase
  <1>5. cartLock[t.cust] = s /\ \A r \in Row : rowLock[r] # s
    BY <1>2, <1>4 DEF LockInv, CartHeld, RowsAreForStock
  <1>6. TypeOK' /\ TxShape'
    BY <1>2, <1>3, <1>4 DEF LockInv, TypeOK, TxShape
  <1>7. NeedIsWanted' /\ RowsAreForStock'
    BY <1>2, <1>3, <1>4 DEF LockInv, NeedIsWanted, RowsAreForStock
  <1>8. CheckoutHolds' /\ StockMapIsCurrent'
    BY <1>2, <1>3, <1>4, <1>5 DEF LockInv, CheckoutHolds, StockMapIsCurrent, InPhase
  <1>9. CartHeld'
    BY <1>2, <1>3, <1>4, <1>5 DEF LockInv, CartHeld, InPhase
  <1>10. CancelHolds'
    BY <1>2, <1>3, <1>4 DEF LockInv, CancelHolds, CanCancel, OrderRows, InPhase
  <1>11. PaymentToRefund' /\ NoOversell'
    BY <1>4 DEF LockInv, PaymentToRefund, CanCancel, NoOversell
  <1>12. QED
    BY <1>6, <1>7, <1>8, <1>9, <1>10, <1>11 DEF LockInv

(* A stock row is locked: nobody else holds it, and checkout notes what it *)
(* has.                                                                    *)
LEMMA LockRowLockInv ==
  ASSUME LockInv, NEW s \in Session, LockRow(s)
  PROVE  LockInv'
  <1> DEFINE w == tx[s].want
  <1>1. TypeInv /\ TypeOK
    BY DEF LockInv, TypeInv
  <1>2. w \in Row
    BY <1>1, LockRowFact
  <1>3. PICK t \in Transaction :
           /\ tx' = [tx EXCEPT ![s] = t]
           /\ t.phase = tx[s].phase /\ t.cust = tx[s].cust /\ t.ord = tx[s].ord
           /\ t.lines = tx[s].lines
           /\ t.need = tx[s].need \ {w}
           /\ t.want \in t.need \cup {None} /\ (t.want = None => t.need = {})
           /\ \A r \in Row : t.stock[r] = IF r = w /\ tx[s].phase = "stock"
                                          THEN inv[r] ELSE tx[s].stock[r]
    BY <1>1, LockRowFact
  <1>4. /\ tx' \in [Session -> Transaction]
        /\ tx'[s] = t
        /\ \A u \in Session \ {s} : tx'[u] = tx[u]
    BY <1>1, <1>3, TxUpdate
  <1>5. /\ rowLock[w] = None
        /\ rowLock' = [rowLock EXCEPT ![w] = s]
        /\ UNCHANGED <<inv, cartRow, cart, orders, cartLock, orderLock, added>>
    BY DEF LockRow, RowFree
  <1>6. tx[s].phase \in {"stock", "restock"}
    BY <1>2, IdsAssumption DEF LockInv, RowsAreForStock
  <1>7. /\ rowLock'[w] = s
        /\ \A r \in Row \ {w} : rowLock'[r] = rowLock[r]
        /\ \A r \in Row, u \in Session \ {s} : rowLock'[r] = u <=> rowLock[r] = u
    BY <1>1, <1>2, <1>5, SessionAssumption DEF TypeOK
  <1> HIDE DEF w
  <1>8. TypeOK' /\ TxShape'
    BY <1>2, <1>3, <1>4, <1>5 DEF LockInv, TypeOK, TxShape
  <1>9. NeedIsWanted' /\ RowsAreForStock'
    BY <1>3, <1>4, <1>6, <1>7 DEF LockInv, NeedIsWanted, RowsAreForStock
  <1>10. CheckoutHolds'
    BY <1>3, <1>4, <1>7 DEF LockInv, CheckoutHolds, InPhase, RowsOf
  <1>11. StockMapIsCurrent'
    BY <1>3, <1>4, <1>5, <1>7 DEF LockInv, StockMapIsCurrent, InPhase
  <1>12. CartHeld'
    BY <1>3, <1>4, <1>5 DEF LockInv, CartHeld, InPhase
  <1>13. CancelHolds'
    BY <1>3, <1>4, <1>5, <1>7 DEF LockInv, CancelHolds, CanCancel, OrderRows, InPhase
  <1>14. PaymentToRefund' /\ NoOversell'
    BY <1>5 DEF LockInv, PaymentToRefund, CanCancel, NoOversell
  <1>15. QED
    BY <1>8, <1>9, <1>10, <1>11, <1>12, <1>13, <1>14 DEF LockInv

(* A cancel takes its order: nobody else holds it.                         *)
LEMMA LockOrderLockInv ==
  ASSUME LockInv, NEW s \in Session, LockOrder(s)
  PROVE  LockInv'
  <1>1. TypeInv /\ TypeOK
    BY DEF LockInv, TypeInv
  <1>2. tx[s].ord \in OrderId
    BY <1>1, LockOrderFact
  <1>3. PICK t \in Transaction :
           /\ tx' = [tx EXCEPT ![s] = t]
           /\ t.phase = "restock" /\ t.ord = tx[s].ord
           /\ t.need = OrderRows(t.ord)
           /\ t.want \in t.need \cup {None} /\ (t.want = None => t.need = {})
    BY <1>1, LockOrderFact
  <1>4. /\ tx' \in [Session -> Transaction]
        /\ tx'[s] = t
        /\ \A u \in Session \ {s} : tx'[u] = tx[u]
    BY <1>1, <1>3, TxUpdate
  <1>5. /\ tx[s].phase = "order" /\ orderLock[t.ord] = None /\ CanCancel(t.ord)
        /\ orderLock' = [orderLock EXCEPT ![t.ord] = s]
        /\ UNCHANGED <<inv, cartRow, cart, orders, cartLock, rowLock, added>>
    BY <1>3 DEF LockOrder, OrderFree, InPhase
  <1>6. \A r \in Row : rowLock[r] # s
    BY <1>5 DEF LockInv, RowsAreForStock
  <1>7. TypeOK' /\ TxShape'
    BY <1>2, <1>3, <1>4, <1>5 DEF LockInv, TypeOK, TxShape
  <1>8. NeedIsWanted' /\ RowsAreForStock'
    BY <1>3, <1>4, <1>5 DEF LockInv, NeedIsWanted, RowsAreForStock
  <1>9. CheckoutHolds' /\ StockMapIsCurrent'
    BY <1>3, <1>4, <1>5 DEF LockInv, CheckoutHolds, StockMapIsCurrent, InPhase
  <1>10. CartHeld'
    BY <1>3, <1>4, <1>5 DEF LockInv, CartHeld, InPhase
  <1>11. CancelHolds'
    <2>1. \A u \in Session \ {s} : InPhase(u, "restock") => orderLock'[tx[u].ord] = u
      BY <1>1, <1>2, <1>3, <1>5, SessionAssumption DEF LockInv, TypeOK, TxShape, CancelHolds, InPhase
    <2>2. orderLock'[t.ord] = s
      BY <1>1, <1>2, <1>3, <1>5 DEF TypeOK
    <2>3. QED
      BY <1>3, <1>4, <1>5, <2>1, <2>2 DEF LockInv, CancelHolds, CanCancel, OrderRows, InPhase
  <1>12. PaymentToRefund' /\ NoOversell'
    BY <1>5 DEF LockInv, PaymentToRefund, CanCancel, NoOversell
  <1>13. QED
    BY <1>7, <1>8, <1>9, <1>10, <1>11, <1>12 DEF LockInv

(* The stock that a checkout takes is there: it holds the rows it takes    *)
(* from, and its map has their committed quantities.                       *)
LEMMA TakeFact ==
  ASSUME LockInv, NEW s \in Session, ReadyToPlace(s),
         \A p \in Product : tx[s].lines[p] > 0 => Enough(s, p) # {}
  PROVE  /\ ShipFrom(s) \in [Product -> Warehouse \cup {None}]
         /\ Take(s) \in [Row -> Int]
         /\ \A r \in Row : ShipFrom(s)[r[2]] = r[1] =>
              /\ rowLock[r] = s
              /\ tx[s].lines[r[2]] > 0 /\ inv[r] >= tx[s].lines[r[2]]
         /\ \A p \in Product :
              /\ tx[s].lines[p] = 0 => ShipFrom(s)[p] = None
              /\ tx[s].lines[p] > 0 => <<ShipFrom(s)[p], p>> \in Row
         /\ \A r \in Row : Take(s)[r] >= 0
         /\ \A r \in Row : rowLock[r] # s => Take(s)[r] = inv[r]
  <1>1. /\ TypeOK /\ TxShape /\ InPhase(s, "stock") /\ tx[s].want = None
    BY DEF LockInv, ReadyToPlace
  <1>2. /\ ShipFrom(s) \in [Product -> Warehouse \cup {None}]
        /\ \A p \in Product :
             /\ tx[s].lines[p] = 0 => ShipFrom(s)[p] = None
             /\ tx[s].lines[p] > 0 => /\ <<ShipFrom(s)[p], p>> \in Row
                                      /\ tx[s].stock[<<ShipFrom(s)[p], p>>] >= tx[s].lines[p]
    BY <1>1, ShipFromFact
  <1>3. tx[s].lines \in Lines /\ inv \in [Row -> Int]
    BY <1>1 DEF TypeOK, Transaction
  <1>4. \A r \in Row : r[1] \in Warehouse /\ r[2] \in Product /\ r = <<r[1], r[2]>>
    BY StockAssumption
  <1>5. RowsOf(tx[s].lines) \subseteq {r \in Row : rowLock[r] = s}
    BY <1>1 DEF LockInv, NeedIsWanted, CheckoutHolds
  <1>6. ASSUME NEW r \in Row, ShipFrom(s)[r[2]] = r[1]
        PROVE  /\ rowLock[r] = s
               /\ tx[s].lines[r[2]] > 0 /\ inv[r] >= tx[s].lines[r[2]]
    <2>1. tx[s].lines[r[2]] \in Nat /\ tx[s].lines[r[2]] # 0
      BY <1>2, <1>3, <1>4, <1>6, IdsAssumption DEF Lines
    <2>2. tx[s].lines[r[2]] > 0
      BY <2>1
    <2>3. tx[s].stock[r] >= tx[s].lines[r[2]]
      BY <1>2, <1>4, <1>6, <2>2
    <2>4. rowLock[r] = s
      BY <1>5, <2>2 DEF RowsOf
    <2>5. tx[s].stock[r] = inv[r]
      BY <1>1, <2>4 DEF LockInv, StockMapIsCurrent
    <2>6. QED
      BY <2>2, <2>3, <2>4, <2>5
  <1>7. \A r \in Row : Take(s)[r] = IF ShipFrom(s)[r[2]] = r[1]
                                    THEN inv[r] - tx[s].lines[r[2]] ELSE inv[r]
    BY DEF Take
  <1>8. Take(s) \in [Row -> Int]
    BY <1>3, <1>4 DEF Take, Lines
  <1>9. ASSUME NEW r \in Row PROVE Take(s)[r] >= 0 /\ (rowLock[r] # s => Take(s)[r] = inv[r])
    <2>1. inv[r] >= 0
      BY DEF LockInv, NoOversell
    <2>2. CASE ShipFrom(s)[r[2]] = r[1]
      BY <1>3, <1>4, <1>6, <1>7, <2>2 DEF Lines
    <2>3. CASE ShipFrom(s)[r[2]] # r[1]
      BY <1>7, <2>1, <2>3
    <2>4. QED
      BY <2>2, <2>3
  <1>10. QED
    BY <1>2, <1>6, <1>8, <1>9

(* What placing an order writes.                                           *)
LEMMA PlaceOrderFact ==
  ASSUME LockInv, NEW s \in Session, PlaceOrder(s)
  PROVE  \E o \in OrderId :
           /\ tx[s].cust \in Customer /\ tx[s].lines \in Lines /\ tx[s].lines # NoLines
           /\ orders[o].status = "none"
           /\ PaidOrder(tx[s].cust, tx[s].lines, ShipFrom(s)) \in Order
           /\ orders' = [orders EXCEPT ![o] = PaidOrder(tx[s].cust, tx[s].lines, ShipFrom(s))]
           /\ inv' = Take(s)
           /\ cart' = [cart EXCEPT ![tx[s].cust] = NoLines]
           /\ End(s) /\ UNCHANGED <<cartRow, added>>
  <1>1. /\ ReadyToPlace(s)
        /\ \A p \in Product : tx[s].lines[p] > 0 => Enough(s, p) # {}
    BY DEF PlaceOrder
  <1>2. ShipFrom(s) \in [Product -> Warehouse \cup {None}]
    BY <1>1, TakeFact
  <1>3. tx[s].cust \in Customer /\ tx[s].lines \in Lines /\ tx[s].lines # NoLines
    BY <1>1 DEF ReadyToPlace, InPhase, LockInv, TypeOK, TxShape, CheckoutHolds, Transaction
  <1>4. PICK o \in UnusedIds :
          orders' = [orders EXCEPT ![o] = PaidOrder(tx[s].cust, tx[s].lines, ShipFrom(s))]
    BY DEF PlaceOrder
  <1>5. PaidOrder(tx[s].cust, tx[s].lines, ShipFrom(s)) \in Order
    BY <1>2, <1>3, PaidOrderType
  <1>6. o \in OrderId /\ orders[o].status = "none"
    BY DEF UnusedIds
  <1>7. QED
    BY <1>3, <1>4, <1>5, <1>6 DEF PlaceOrder

(* Placing the order changes rows that this transaction locked, the cart   *)
(* it locked and an order nobody knows yet.                                *)
LEMMA PlaceOrderLockInv ==
  ASSUME LockInv, NEW s \in Session, PlaceOrder(s)
  PROVE  LockInv'
  <1> DEFINE c == tx[s].cust
             n == PaidOrder(c, tx[s].lines, ShipFrom(s))
  <1>1. /\ InPhase(s, "stock") /\ ReadyToPlace(s)
        /\ \A p \in Product : tx[s].lines[p] > 0 => Enough(s, p) # {}
    BY DEF PlaceOrder, ReadyToPlace
  <1>2. PICK o \in OrderId :
           /\ c \in Customer
           /\ orders[o].status = "none"
           /\ n \in Order
           /\ orders' = [orders EXCEPT ![o] = n]
           /\ inv' = Take(s)
           /\ cart' = [cart EXCEPT ![c] = NoLines]
           /\ End(s) /\ UNCHANGED <<cartRow, added>>
    BY PlaceOrderFact
  <1>3. /\ Take(s) \in [Row -> Int]
        /\ \A r \in Row : Take(s)[r] >= 0
        /\ \A r \in Row : rowLock[r] # s => Take(s)[r] = inv[r]
    BY <1>1, TakeFact
  <1>4. /\ tx' \in [Session -> Transaction]
        /\ cartLock' \in [Customer -> Session \cup {None}]
        /\ orderLock' \in [OrderId -> Session \cup {None}]
        /\ rowLock' \in [Row -> Session \cup {None}]
    BY <1>2, ReleaseFact DEF LockInv
  <1>5. n.status = "paid" /\ n.payment = "captured"
    BY DEF PaidOrder
  <1> HIDE DEF n
  <1>6. TypeOK'
    BY <1>2, <1>3, <1>4 DEF LockInv, TypeOK, NoLines, Lines
  <1>7. \A x \in OrderId : orders'[x] = IF x = o THEN n ELSE orders[x]
    BY <1>2 DEF LockInv, TypeOK
  <1>8. \A t \in Session \ {s}, r \in Row : rowLock[r] = t => inv'[r] = inv[r]
    BY <1>2, <1>3
  <1>9. \A t \in Session \ {s} : InPhase(t, "restock") => orders'[tx[t].ord] = orders[tx[t].ord]
    BY <1>2, <1>7 DEF LockInv, TxShape, CancelHolds, CanCancel, InPhase
  <1>10. \A t \in Session \ {s} : InPhase(t, "stock") => cart'[tx[t].cust] = cart[tx[t].cust]
    BY <1>1, <1>2 DEF LockInv, TypeOK, TxShape, CartHeld, InPhase
  <1>11. /\ TxShape' /\ NeedIsWanted' /\ RowsAreForStock' /\ CheckoutHolds'
         /\ CartHeld' /\ CancelHolds' /\ StockMapIsCurrent'
    BY <1>2, <1>6, <1>8, <1>9, <1>10, EndLockInv
  <1>12. PaymentToRefund'
    BY <1>5, <1>7 DEF LockInv, PaymentToRefund, CanCancel
  <1>13. NoOversell'
    BY <1>2, <1>3 DEF NoOversell
  <1>14. QED
    BY <1>6, <1>11, <1>12, <1>13 DEF LockInv

(* Cancelling changes the order and the stock rows this transaction locked.*)
LEMMA CommitCancelLockInv ==
  ASSUME LockInv, NEW s \in Session, CommitCancel(s)
  PROVE  LockInv'
  <1> DEFINE o == tx[s].ord
  <1>1. /\ InPhase(s, "restock") /\ tx[s].want = None
        /\ inv' = [r \in Row |-> IF r \in OrderRows(o) THEN inv[r] + orders[o].lines[r[2]]
                                 ELSE inv[r]]
        /\ orders' = [orders EXCEPT ![o] = Cancelled(@)]
        /\ End(s)
        /\ UNCHANGED <<cartRow, cart, added>>
    BY DEF CommitCancel
  <1>2. /\ o \in OrderId /\ orderLock[o] = s
        /\ \A r \in OrderRows(o) : rowLock[r] = s
    BY <1>1 DEF LockInv, TxShape, CancelHolds, NeedIsWanted, InPhase
  <1>3. /\ tx' \in [Session -> Transaction]
        /\ cartLock' \in [Customer -> Session \cup {None}]
        /\ orderLock' \in [OrderId -> Session \cup {None}]
        /\ rowLock' \in [Row -> Session \cup {None}]
    BY <1>1, ReleaseFact DEF LockInv
  <1>4. orders[o] \in Order /\ Cancelled(orders[o]) \in Order
    <2>1. orders[o] \in Order
      BY <1>2 DEF LockInv, TypeOK
    <2>2. QED
      BY <2>1 DEF Cancelled, Order, Status, Shipment, Payment
  <1>5. Cancelled(orders[o]).status = "cancelled"
    BY <1>4 DEF Cancelled, Order
  <1>6. \A r \in Row : r[2] \in Product
    BY StockAssumption
  <1>7. /\ inv' \in [Row -> Int]
        /\ \A r \in Row : inv'[r] >= 0
        /\ \A r \in Row : r \notin OrderRows(o) => inv'[r] = inv[r]
    <2>1. /\ inv \in [Row -> Int] /\ \A r \in Row : inv[r] >= 0
          /\ orders[o].lines \in [Product -> Nat]
      BY <1>4 DEF LockInv, TypeOK, NoOversell, Order, Lines
    <2> HIDE DEF o
    <2>2. QED
      BY <1>1, <1>6, <2>1
  <1> HIDE DEF o
  <1>8. \A x \in OrderId : orders'[x] = IF x = o THEN Cancelled(orders[o]) ELSE orders[x]
    BY <1>1, <1>2 DEF LockInv, TypeOK
  <1>9. TypeOK'
    BY <1>1, <1>2, <1>3, <1>4, <1>7 DEF LockInv, TypeOK
  <1>10. \A t \in Session \ {s}, r \in Row : rowLock[r] = t => inv'[r] = inv[r]
    BY <1>2, <1>7
  <1>11. \A t \in Session \ {s} : InPhase(t, "restock") => orders'[tx[t].ord] = orders[tx[t].ord]
    BY <1>2, <1>8 DEF LockInv, TxShape, CancelHolds, InPhase
  <1>12. \A t \in Session \ {s} : InPhase(t, "stock") => cart'[tx[t].cust] = cart[tx[t].cust]
    BY <1>1
  <1>13. /\ TxShape' /\ NeedIsWanted' /\ RowsAreForStock' /\ CheckoutHolds'
         /\ CartHeld' /\ CancelHolds' /\ StockMapIsCurrent'
    BY <1>1, <1>9, <1>10, <1>11, <1>12, EndLockInv
  <1>14. PaymentToRefund'
    BY <1>5, <1>8 DEF LockInv, PaymentToRefund, CanCancel
  <1>15. NoOversell'
    BY <1>7 DEF NoOversell
  <1>16. QED
    BY <1>9, <1>13, <1>14, <1>15 DEF LockInv

(* A step that changes nothing.                                            *)
LEMMA StutterLockInv ==
  ASSUME LockInv, UNCHANGED vars
  PROVE  LockInv'
  <1> USE DEF vars, locks, LockInv
  <1>1. TypeOK' /\ TxShape' /\ NeedIsWanted' /\ RowsAreForStock'
    BY DEF TypeOK, TxShape, NeedIsWanted, RowsAreForStock
  <1>2. CheckoutHolds' /\ CartHeld' /\ CancelHolds'
    BY DEF CheckoutHolds, CartHeld, CancelHolds, CanCancel, OrderRows, InPhase
  <1>3. PaymentToRefund' /\ StockMapIsCurrent' /\ NoOversell'
    BY DEF PaymentToRefund, CanCancel, StockMapIsCurrent, NoOversell, InPhase
  <1>4. QED
    BY <1>1, <1>2, <1>3

(* Every step keeps the invariant.                                         *)
LEMMA NextLockInv == LockInv /\ [Next]_vars => LockInv'
  <1> SUFFICES ASSUME LockInv, [Next]_vars PROVE LockInv'
    OBVIOUS
  <1>1. ASSUME NEW c \in Customer, NEW p \in Product,
               \/ \E q \in AddQty : CartAdd(c, p, q)
               \/ \E q \in SetQty : CartUpdate(c, p, q)
        PROVE  LockInv'
    BY <1>1, CartLockInv
  <1>2. ASSUME NEW o \in OrderId, Ship(o) \/ Deliver(o) \/ \E p \in Product : Return(o, p)
        PROVE  LockInv'
    BY <1>2, OrderActionLockInv
  <1>3. ASSUME NEW s \in Session,
               \/ \E c \in Customer : BeginCheckout(s, c)
               \/ \E o \in OrderId : BeginCancel(s, o)
        PROVE  LockInv'
    BY <1>3, BeginLockInv
  <1>4. ASSUME NEW s \in Session, CheckoutStep(s) PROVE LockInv'
    <2>1. CASE LockCart(s)
      BY <2>1, LockCartLockInv
    <2>2. CASE ReadLines(s)
      BY <2>2, ReadLinesLockInv
    <2>3. CASE EmptyCart(s) \/ PromoRejected(s) \/ NotEnoughStock(s)
      BY <2>3, RollbackLockInv DEF EmptyCart, PromoRejected, NotEnoughStock
    <2>4. CASE PlaceOrder(s)
      BY <2>4, PlaceOrderLockInv
    <2>5. QED
      BY <1>4, <2>1, <2>2, <2>3, <2>4 DEF CheckoutStep
  <1>5. ASSUME NEW s \in Session, LockRow(s) PROVE LockInv'
    BY <1>5, LockRowLockInv
  <1>6. ASSUME NEW s \in Session, CancelStep(s) PROVE LockInv'
    <2>1. CASE LockOrder(s)
      BY <2>1, LockOrderLockInv
    <2>2. CASE TooLateToCancel(s)
      BY <2>2, RollbackLockInv DEF TooLateToCancel
    <2>3. CASE CommitCancel(s)
      BY <2>3, CommitCancelLockInv
    <2>4. QED
      BY <1>6, <2>1, <2>2, <2>3 DEF CancelStep
  <1>7. ASSUME NEW s \in Session, DeadlockVictim(s) \/ Fail(s) PROVE LockInv'
    BY <1>7, RollbackLockInv DEF DeadlockVictim, Fail
  <1>8. CASE UNCHANGED vars
    BY <1>8, StutterLockInv
  <1>9. QED
    BY <1>1, <1>2, <1>3, <1>4, <1>5, <1>6, <1>7, <1>8 DEF Next

(* The locks that each phase of a transaction holds, and what they         *)
(* protect, are as described in every reachable state.                     *)
THEOREM LocksHold == Spec => []LockInv
  BY InitLockInv, NextLockInv, PTL DEF Spec

(* Type correctness.                                                       *)
THEOREM TypeCorrect == Spec => []TypeOK
  <1>1. LockInv => TypeOK
    BY DEF LockInv
  <1>2. QED
    BY <1>1, LocksHold, PTL

(* No interleaving of checkouts and cancels sells more than a warehouse    *)
(* has (placeOrder, 4 to 6).                                               *)
THEOREM NothingOversold == Spec => []NoOversell
  <1>1. LockInv => NoOversell
    BY DEF LockInv
  <1>2. QED
    BY <1>1, LocksHold, PTL

(* The stock map that checkout decides on is the committed stock.          *)
THEOREM StockMapCurrent == Spec => []StockMapIsCurrent
  <1>1. LockInv => StockMapIsCurrent
    BY DEF LockInv
  <1>2. QED
    BY <1>1, LocksHold, PTL

-----------------------------------------------------------------------------
(* Steps that may never happen.                                            *)

(* Only the actions below write orders.                                    *)
LEMMA OrderWriters ==
  ASSUME [Next]_vars, orders' # orders
  PROVE  \/ \E o \in OrderId : Ship(o) \/ Deliver(o) \/ \E p \in Product : Return(o, p)
         \/ \E s \in Session : PlaceOrder(s) \/ CommitCancel(s)
  <1>1. \A s \in Session : Rollback(s) => UNCHANGED orders
    BY DEF Rollback
  <1>2. UNCHANGED vars => UNCHANGED orders
    BY DEF vars
  <1>3. \A c \in Customer, p \in Product, q \in AddQty : CartAdd(c, p, q) => UNCHANGED orders
    BY DEF CartAdd
  <1>4. \A c \in Customer, p \in Product, q \in SetQty : CartUpdate(c, p, q) => UNCHANGED orders
    BY DEF CartUpdate
  <1>5. /\ \A s \in Session, c \in Customer : BeginCheckout(s, c) => UNCHANGED orders
        /\ \A s \in Session, o \in OrderId : BeginCancel(s, o) => UNCHANGED orders
    BY DEF BeginCheckout, BeginCancel
  <1>6. \A s \in Session :
          LockCart(s) \/ ReadLines(s) \/ LockRow(s) \/ LockOrder(s) => UNCHANGED orders
    BY DEF LockCart, ReadLines, LockRow, LockOrder
  <1>7. \A s \in Session :
          \/ EmptyCart(s) \/ PromoRejected(s) \/ NotEnoughStock(s)
          \/ TooLateToCancel(s) \/ DeadlockVictim(s) \/ Fail(s)
          => UNCHANGED orders
    BY <1>1 DEF EmptyCart, PromoRejected, NotEnoughStock, TooLateToCancel, DeadlockVictim, Fail
  <1>8. QED
    BY <1>2, <1>3, <1>4, <1>5, <1>6, <1>7 DEF Next, CheckoutStep, CancelStep

(* An order that has shipped is never cancelled, and a cancelled order     *)
(* never comes back (orderAction).                                         *)
THEOREM ShippedForGood == Spec => ShippedStaysShipped
  <1> DEFINE Kept(o) ==
        /\ orders[o].status \in {"shipped", "delivered"} => orders'[o].status # "cancelled"
        /\ orders[o].status = "cancelled" => orders'[o].status = "cancelled"
  <1>1. ASSUME LockInv, [Next]_vars, orders' # orders, NEW x \in OrderId
        PROVE  Kept(x)
    <2>1. \A o \in OrderId : orders[o] \in Order
      BY <1>1 DEF LockInv, TypeOK
    <2>2. ASSUME NEW o \in OrderId, Ship(o) PROVE Kept(x)
      BY <1>1, <2>1, <2>2 DEF Ship, Shipped, LockInv, TypeOK, Order
    <2>3. ASSUME NEW o \in OrderId, Deliver(o) PROVE Kept(x)
      BY <1>1, <2>1, <2>3 DEF Deliver, Delivered, LockInv, TypeOK, Order
    <2>4. ASSUME NEW o \in OrderId, NEW p \in Product, Return(o, p) PROVE Kept(x)
      <3>1. orders'[x].status = orders[x].status
        BY <1>1, <2>1, <2>4 DEF Return, UnitReturned, LockInv, TypeOK, Order
      <3>2. QED
        BY <3>1
    <2>5. ASSUME NEW s \in Session, PlaceOrder(s) PROVE Kept(x)
      <3>1. PICK o \in OrderId :
              /\ orders[o].status = "none"
              /\ orders' = [orders EXCEPT ![o] = PaidOrder(tx[s].cust, tx[s].lines, ShipFrom(s))]
        BY <1>1, <2>5, PlaceOrderFact
      <3>2. CASE x = o
        BY <3>1, <3>2
      <3>3. CASE x # o
        <4>1. orders'[x] = orders[x]
          BY <1>1, <3>1, <3>3 DEF LockInv, TypeOK
        <4>2. QED
          BY <4>1
      <3>4. QED
        BY <3>2, <3>3
    <2>6. ASSUME NEW s \in Session, CommitCancel(s) PROVE Kept(x)
      <3>1. /\ tx[s].ord \in OrderId /\ CanCancel(tx[s].ord)
            /\ orders' = [orders EXCEPT ![tx[s].ord] = Cancelled(@)]
        BY <1>1, <2>6 DEF CommitCancel, LockInv, TxShape, CancelHolds, InPhase
      <3>2. CASE x = tx[s].ord
        BY <3>1, <3>2 DEF CanCancel
      <3>3. CASE x # tx[s].ord
        <4>1. orders'[x] = orders[x]
          BY <1>1, <3>1, <3>3 DEF LockInv, TypeOK
        <4>2. QED
          BY <4>1
      <3>4. QED
        BY <3>2, <3>3
    <2> HIDE DEF Kept
    <2>7. QED
      BY <1>1, <2>2, <2>3, <2>4, <2>5, <2>6, OrderWriters
  <1>2. LockInv /\ [Next]_vars => [\A o \in OrderId : Kept(o)]_orders
    BY <1>1
  <1>3. QED
    BY <1>2, LocksHold, PTL DEF Spec, ShippedStaysShipped

(* Checkout never empties a cart of a product that it did not order        *)
(* ("must never lose a write").                                            *)
THEOREM NoAddIsLost == Spec => AddsAreOrdered
  <1> DEFINE Kept == \A s \in Session : Places(s) =>
               \A p \in Product : cart[tx[s].cust][p] > 0 => tx[s].lines[p] > 0
  <1>1. LockInv => Kept
    BY DEF LockInv, CartHeld, Places, ReadyToPlace, InPhase
  <1>2. LockInv /\ [Next]_vars => [Kept]_vars
    BY <1>1
  <1>3. QED
    BY <1>2, LocksHold, PTL DEF Spec, AddsAreOrdered

-----------------------------------------------------------------------------
(* The store implements the order book.                                    *)

(* A commit of checkout places an order in the book.                       *)
LEMMA PlaceRefines ==
  ASSUME LockInv, NEW s \in Session, PlaceOrder(s)
  PROVE  \E o \in OrderId : Book!Place(o)
  <1> DEFINE n == PaidOrder(tx[s].cust, tx[s].lines, ShipFrom(s))
  <1>1. PICK o \in OrderId :
           /\ tx[s].cust \in Customer /\ tx[s].lines \in Lines /\ tx[s].lines # NoLines
           /\ orders[o].status = "none"
           /\ n \in Order
           /\ orders' = [orders EXCEPT ![o] = n]
           /\ inv' = Take(s)
    BY PlaceOrderFact
  <1>2. /\ ReadyToPlace(s)
        /\ \A p \in Product : tx[s].lines[p] > 0 => Enough(s, p) # {}
    BY DEF PlaceOrder
  <1>3. /\ \A r \in Row : ShipFrom(s)[r[2]] = r[1] =>
              tx[s].lines[r[2]] > 0 /\ inv[r] >= tx[s].lines[r[2]]
        /\ \A p \in Product :
              /\ tx[s].lines[p] = 0 => ShipFrom(s)[p] = None
              /\ tx[s].lines[p] > 0 => <<ShipFrom(s)[p], p>> \in Row
    BY <1>2, TakeFact
  <1>4. /\ n.customer = tx[s].cust /\ n.lines = tx[s].lines /\ n.from = ShipFrom(s)
    BY DEF PaidOrder
  <1>5. n = Book!PaidOrder(n.customer, n.lines, n.from)
    BY DEF PaidOrder, Book!PaidOrder, Parcels, Book!Parcels, NoLines, Book!NoLines
  <1>6. n \in Book!Order
    BY <1>1 DEF Order, Book!Order, Lines, Book!Lines, Status, Book!Status,
                Payment, Book!Payment, Shipment, Book!Shipment
  <1> HIDE DEF n
  <1>7. orders'[o] = n
    BY <1>1 DEF LockInv, TypeOK
  <1>8. ASSUME NEW p \in Product
        PROVE  IF n.lines[p] = 0 THEN n.from[p] = None
               ELSE <<n.from[p], p>> \in Row /\ inv[<<n.from[p], p>>] >= n.lines[p]
    <2>1. tx[s].lines[p] \in Nat
      BY <1>1 DEF Lines
    <2>2. CASE tx[s].lines[p] = 0
      BY <1>3, <1>4, <2>2
    <2>3. CASE tx[s].lines[p] > 0
      BY <1>3, <1>4, <2>3
    <2>4. QED
      BY <2>1, <2>2, <2>3
  <1>9. inv' = [r \in Row |-> IF n.from[r[2]] = r[1] THEN inv[r] - n.lines[r[2]] ELSE inv[r]]
    BY <1>1, <1>4 DEF Take
  <1>10. n.customer # None /\ n.lines # Book!NoLines
    BY <1>1, <1>4, IdsAssumption DEF NoLines, Book!NoLines
  <1>11. orders' = [orders EXCEPT ![o] = orders'[o]]
    BY <1>1, <1>7 DEF n
  <1>12. /\ orders'[o] \in Book!Order
         /\ orders'[o] = Book!PaidOrder(orders'[o].customer, orders'[o].lines, orders'[o].from)
         /\ orders'[o].customer # None /\ orders'[o].lines # Book!NoLines
    BY <1>5, <1>6, <1>7, <1>10
  <1>13. \A p \in Product :
           IF orders'[o].lines[p] = 0 THEN orders'[o].from[p] = None
           ELSE /\ <<orders'[o].from[p], p>> \in Row
                /\ inv[<<orders'[o].from[p], p>>] >= orders'[o].lines[p]
    BY <1>7, <1>8
  <1>14. inv' = [r \in Row |-> IF orders'[o].from[r[2]] = r[1]
                               THEN inv[r] - orders'[o].lines[r[2]] ELSE inv[r]]
    BY <1>7, <1>9
  <1>15. Book!Place(o)
    BY <1>1, <1>11, <1>12, <1>13, <1>14, Zenon DEF Book!Place
  <1>16. QED
    BY <1>15

(* A commit of cancel cancels the order in the book, with its stock.       *)
LEMMA CancelRefines ==
  ASSUME LockInv, NEW s \in Session, CommitCancel(s)
  PROVE  \E o \in OrderId : Book!Cancel(o)
  <1> DEFINE o == tx[s].ord
  <1>1. /\ InPhase(s, "restock")
        /\ inv' = [r \in Row |-> IF r \in OrderRows(o) THEN inv[r] + orders[o].lines[r[2]]
                                 ELSE inv[r]]
        /\ orders' = [orders EXCEPT ![o] = Cancelled(@)]
    BY DEF CommitCancel
  <1>2. o \in OrderId /\ CanCancel(o) /\ orders[o].payment \in {"authorized", "captured"}
    BY <1>1 DEF LockInv, TxShape, CancelHolds, PaymentToRefund, InPhase
  <1> HIDE DEF o
  <1>3. orders[o] \in Order
    BY <1>2 DEF LockInv, TypeOK
  <1>4. Cancelled(orders[o]) = [orders[o] EXCEPT !.status = "cancelled",
                                  !.ship = [w \in Warehouse |-> "none"], !.payment = "refunded"]
    BY <1>2, <1>3 DEF Cancelled, Order
  <1>5. orders' = [orders EXCEPT ![o].status = "cancelled",
                                 ![o].ship = [w \in Warehouse |-> "none"],
                                 ![o].payment = "refunded"]
    BY <1>1, <1>4
  <1>6. inv' = [r \in Row |-> IF orders[o].from[r[2]] = r[1] THEN inv[r] + orders[o].lines[r[2]]
                              ELSE inv[r]]
    BY <1>1 DEF OrderRows
  <1>7. QED
    BY <1>2, <1>5, <1>6 DEF Book!Cancel, CanCancel

(* Every step of the store is a step of the book, or changes neither stock *)
(* nor orders.                                                             *)
LEMMA NextRefines == LockInv /\ [Next]_vars => [Book!Next]_<<inv, orders>>
  <1> SUFFICES ASSUME LockInv, [Next]_vars, ~UNCHANGED <<inv, orders>>
               PROVE  Book!Next
    OBVIOUS
  <1>1. CASE orders' # orders
    <2>1. ASSUME NEW o \in OrderId, Ship(o) PROVE Book!Ship(o)
      BY <2>1 DEF Ship, Book!Ship, Shipped, Book!Shipped, Moved, Book!Moved
    <2>2. ASSUME NEW o \in OrderId, Deliver(o) PROVE Book!Deliver(o)
      BY <2>2 DEF Deliver, Book!Deliver, Delivered, Book!Delivered, Moved, Book!Moved
    <2>3. ASSUME NEW o \in OrderId, NEW p \in Product, Return(o, p) PROVE Book!Return(o, p)
      <3>1. orders[o].returned[p] \in Nat /\ orders[o].lines[p] \in Nat
        BY DEF LockInv, TypeOK, Order, Lines
      <3>2. orders[o].returned[p] < orders[o].lines[p]
        BY <2>3, <3>1 DEF Return, UnitsLeft
      <3>3. QED
        BY <2>3, <3>2 DEF Return, Book!Return, UnitReturned, Book!UnitReturned
    <2>4. ASSUME NEW s \in Session, PlaceOrder(s) \/ CommitCancel(s)
          PROVE  \E o \in OrderId : Book!Place(o) \/ Book!Cancel(o)
      BY <2>4, PlaceRefines, CancelRefines
    <2>5. QED
      BY <1>1, <2>1, <2>2, <2>3, <2>4, OrderWriters DEF Book!Next
  <1>2. CASE UNCHANGED orders
    <2>1. UNCHANGED inv
      <3>1. \A s \in Session : Rollback(s) => UNCHANGED inv
        BY DEF Rollback
      <3>2. \A s \in Session : ~PlaceOrder(s) /\ ~CommitCancel(s)
        <4>1. ASSUME NEW s \in Session, PlaceOrder(s) PROVE FALSE
          <5>1. PICK o \in OrderId :
                  /\ orders[o].status = "none"
                  /\ orders' = [orders EXCEPT ![o] =
                                  PaidOrder(tx[s].cust, tx[s].lines, ShipFrom(s))]
            BY <4>1, PlaceOrderFact
          <5>2. orders'[o].status = "paid"
            BY <5>1 DEF PaidOrder, LockInv, TypeOK
          <5>3. QED
            BY <1>2, <5>1, <5>2
        <4>2. ASSUME NEW s \in Session, CommitCancel(s) PROVE FALSE
          <5>1. /\ tx[s].ord \in OrderId /\ CanCancel(tx[s].ord)
                /\ orders' = [orders EXCEPT ![tx[s].ord] = Cancelled(@)]
            BY <4>2 DEF CommitCancel, LockInv, TxShape, CancelHolds, InPhase
          <5>2. orders[tx[s].ord] \in Order
            BY <5>1 DEF LockInv, TypeOK
          <5>3. orders'[tx[s].ord].status = "cancelled"
            BY <5>1, <5>2 DEF Cancelled, LockInv, TypeOK, Order
          <5>4. QED
            BY <1>2, <5>1, <5>3 DEF CanCancel
        <4>3. QED
          BY <4>1, <4>2
      <3>3. UNCHANGED vars => UNCHANGED inv
        BY DEF vars
      <3>4. \A s \in Session :
              \/ EmptyCart(s) \/ PromoRejected(s) \/ NotEnoughStock(s)
              \/ TooLateToCancel(s) \/ DeadlockVictim(s) \/ Fail(s)
              => UNCHANGED inv
        BY <3>1 DEF EmptyCart, PromoRejected, NotEnoughStock, TooLateToCancel,
                    DeadlockVictim, Fail
      <3>5. \A s \in Session :
              LockCart(s) \/ ReadLines(s) \/ LockRow(s) \/ LockOrder(s) => UNCHANGED inv
        BY DEF LockCart, ReadLines, LockRow, LockOrder
      <3>6. /\ \A s \in Session, c \in Customer : BeginCheckout(s, c) => UNCHANGED inv
            /\ \A s \in Session, o \in OrderId : BeginCancel(s, o) => UNCHANGED inv
        BY DEF BeginCheckout, BeginCancel
      <3>7. /\ \A c \in Customer, p \in Product, q \in AddQty : CartAdd(c, p, q) => UNCHANGED inv
            /\ \A c \in Customer, p \in Product, q \in SetQty :
                  CartUpdate(c, p, q) => UNCHANGED inv
        BY DEF CartAdd, CartUpdate
      <3>8. \A o \in OrderId :
              Ship(o) \/ Deliver(o) \/ (\E p \in Product : Return(o, p)) => UNCHANGED inv
        BY DEF Ship, Deliver, Return
      <3>9. QED
        BY <3>2, <3>3, <3>4, <3>5, <3>6, <3>7, <3>8 DEF Next, CheckoutStep, CancelStep
    <2>2. QED
      BY <1>2, <2>1
  <1>3. QED
    BY <1>1, <1>2

(* The store behaves like the order book: orders appear whole, with their  *)
(* stock, and end as a whole.                                              *)
THEOREM StoreImplementsBook == Spec => ImplementsOrderBook
  <1>1. Init => Book!Init
    BY DEF Init, Book!Init
  <1>2. QED
    BY <1>1, LocksHold, NextRefines, PTL DEF Spec, ImplementsOrderBook, Book!Spec

-----------------------------------------------------------------------------
(* Statuses, payments and parcels.                                         *)

(* Parcels that move on stay the parcels of the order's warehouses.        *)
LEMMA MovedParcels ==
  ASSUME NEW from, NEW old, NEW new, old # "none"
  PROVE  Moved(Parcels(from, old), old, new) = Parcels(from, new)
  BY DEF Moved, Parcels

(* What a cancel leaves of an order that had a payment.                    *)
LEMMA CancelledFields ==
  ASSUME NEW order \in Order, order.payment \in {"authorized", "captured"}
  PROVE  /\ Cancelled(order).status = "cancelled"
         /\ Cancelled(order).payment = "refunded"
         /\ \A w \in Warehouse : Cancelled(order).ship[w] = "none"
         /\ Cancelled(order).returned = order.returned
         /\ Cancelled(order).lines = order.lines
  <1>1. Cancelled(order) = [order EXCEPT !.status = "cancelled",
                              !.ship = [w \in Warehouse |-> "none"], !.payment = "refunded"]
    BY DEF Cancelled, Order
  <1> QED
    BY <1>1 DEF Order

(* Every step keeps the story of an order straight: a cancel that has its  *)
(* order locked finds the status it saw, and shipping needs a paid one.    *)
LEMMA ConsistentStep == LockInv /\ OrderConsistent /\ [Next]_vars => OrderConsistent'
  <1> DEFINE Story(order) ==
        IF order.status = "cancelled"
        THEN order.payment = "refunded" /\ \A w \in Warehouse : order.ship[w] = "none"
        ELSE /\ order.payment = "captured"
             /\ order.ship = Parcels(order.from, ParcelStatus(order.status))
  <1> SUFFICES ASSUME LockInv, OrderConsistent, [Next]_vars, orders' # orders,
                      NEW x \in OrderId, ~Seeded(x), orders'[x].status # "none"
               PROVE  Story(orders'[x])
    BY DEF OrderConsistent
  <1>1. orders \in [OrderId -> Order] /\ \A o \in OrderId : orders[o] \in Order
    BY DEF LockInv, TypeOK
  <1>2. orders[x].status # "none" => Story(orders[x])
    BY DEF OrderConsistent
  <1>3. orders'[x] = orders[x] => Story(orders'[x])
    BY <1>2
  <1>4. ASSUME NEW o \in OrderId, Ship(o) PROVE Story(orders'[x])
    <2>1. CASE x = o
      <3>1. orders'[x] = Shipped(orders[x]) /\ orders[x].status = "paid"
        BY <1>1, <1>4, <2>1 DEF Ship
      <3>2. orders[x].payment = "captured" /\ orders[x].ship = Parcels(orders[x].from, "preparing")
        BY <1>2, <3>1 DEF ParcelStatus
      <3>3. Moved(orders[x].ship, "preparing", "in_transit") = Parcels(orders[x].from, "in_transit")
        BY <3>2, MovedParcels
      <3>4. orders[x] \in Order
        BY <1>1
      <3>5. /\ orders'[x].status = "shipped" /\ orders'[x].payment = "captured"
            /\ orders'[x].from = orders[x].from
            /\ orders'[x].ship = Parcels(orders[x].from, "in_transit")
        BY <3>1, <3>2, <3>3, <3>4 DEF Shipped, Order
      <3> QED
        BY <3>5 DEF ParcelStatus
    <2>2. CASE x # o
      BY <1>1, <1>3, <1>4, <2>2 DEF Ship
    <2> QED
      BY <2>1, <2>2
  <1>5. ASSUME NEW o \in OrderId, Deliver(o) PROVE Story(orders'[x])
    <2>1. CASE x = o
      <3>1. orders'[x] = Delivered(orders[x]) /\ orders[x].status = "shipped"
        BY <1>1, <1>5, <2>1 DEF Deliver
      <3>2. orders[x].payment = "captured" /\ orders[x].ship = Parcels(orders[x].from, "in_transit")
        BY <1>2, <3>1 DEF ParcelStatus
      <3>3. Moved(orders[x].ship, "in_transit", "delivered") = Parcels(orders[x].from, "delivered")
        BY <3>2, MovedParcels
      <3>4. orders[x] \in Order
        BY <1>1
      <3>5. /\ orders'[x].status = "delivered" /\ orders'[x].payment = "captured"
            /\ orders'[x].from = orders[x].from
            /\ orders'[x].ship = Parcels(orders[x].from, "delivered")
        BY <3>1, <3>2, <3>3, <3>4 DEF Delivered, Order
      <3> QED
        BY <3>5 DEF ParcelStatus
    <2>2. CASE x # o
      BY <1>1, <1>3, <1>5, <2>2 DEF Deliver
    <2> QED
      BY <2>1, <2>2
  <1>6. ASSUME NEW o \in OrderId, NEW p \in Product, Return(o, p) PROVE Story(orders'[x])
    <2>1. CASE x = o
      <3>1. orders'[x] = UnitReturned(orders[x], p) /\ orders[x] \in Order
        BY <1>1, <1>6, <2>1 DEF Return
      <3>2. /\ orders'[x].status = orders[x].status /\ orders'[x].payment = orders[x].payment
            /\ orders'[x].from = orders[x].from /\ orders'[x].ship = orders[x].ship
        BY <3>1 DEF UnitReturned, Order
      <3> QED
        BY <1>2, <3>2
    <2>2. CASE x # o
      BY <1>1, <1>3, <1>6, <2>2 DEF Return
    <2> QED
      BY <2>1, <2>2
  <1>7. ASSUME NEW s \in Session, PlaceOrder(s) PROVE Story(orders'[x])
    <2>1. PICK o \in OrderId :
            orders' = [orders EXCEPT ![o] = PaidOrder(tx[s].cust, tx[s].lines, ShipFrom(s))]
      BY <1>7, PlaceOrderFact
    <2>2. CASE x = o
      BY <1>1, <2>1, <2>2 DEF PaidOrder, ParcelStatus
    <2>3. CASE x # o
      BY <1>1, <1>3, <2>1, <2>3
    <2> QED
      BY <2>2, <2>3
  <1>8. ASSUME NEW s \in Session, CommitCancel(s) PROVE Story(orders'[x])
    <2>1. /\ tx[s].ord \in OrderId /\ CanCancel(tx[s].ord)
          /\ orders[tx[s].ord].payment \in {"authorized", "captured"}
          /\ orders' = [orders EXCEPT ![tx[s].ord] = Cancelled(@)]
      BY <1>8 DEF CommitCancel, LockInv, TxShape, CancelHolds, PaymentToRefund, InPhase
    <2>2. CASE x = tx[s].ord
      <3>1. orders'[x] = Cancelled(orders[x]) /\ orders[x] \in Order
        BY <1>1, <2>1, <2>2
      <3>2. /\ orders'[x].status = "cancelled" /\ orders'[x].payment = "refunded"
            /\ \A w \in Warehouse : orders'[x].ship[w] = "none"
        BY <2>1, <2>2, <3>1, CancelledFields
      <3> QED
        BY <3>2
    <2>3. CASE x # tx[s].ord
      BY <1>1, <1>3, <2>1, <2>3
    <2> QED
      BY <2>2, <2>3
  <1> HIDE DEF Story
  <1> QED
    BY <1>4, <1>5, <1>6, <1>7, <1>8, OrderWriters

(* Shipping and cancelling at the same time cannot both win: status,       *)
(* payment and parcels tell one story (orderAction).                       *)
THEOREM OrdersTellOneStory == Spec => []OrderConsistent
  <1>1. Init => OrderConsistent
    BY DEF Init, OrderConsistent, Seeded
  <1> QED
    BY <1>1, ConsistentStep, LocksHold, PTL DEF Spec

(* Every step keeps returns within what was delivered: the order's row is  *)
(* locked while its lines are compared with what came back.                *)
LEMMA ReturnsStep == LockInv /\ ReturnsBounded /\ [Next]_vars => ReturnsBounded'
  <1> DEFINE Bounded(order) == \A p \in Product :
               /\ order.returned[p] <= order.lines[p]
               /\ order.returned[p] > 0 => order.status = "delivered"
  <1> SUFFICES ASSUME LockInv, ReturnsBounded, [Next]_vars, orders' # orders, NEW x \in OrderId
               PROVE  Bounded(orders'[x])
    BY DEF ReturnsBounded
  <1>1. orders \in [OrderId -> Order] /\ orders[x] \in Order
    BY DEF LockInv, TypeOK
  <1>2. Bounded(orders[x])
    BY DEF ReturnsBounded
  <1>3. orders'[x] = orders[x] => Bounded(orders'[x])
    BY <1>2
  <1>4. ASSUME NEW o \in OrderId, Ship(o) \/ Deliver(o) PROVE Bounded(orders'[x])
    <2>1. CASE x = o
      <3>1. /\ orders[x].status \in {"paid", "shipped"}
            /\ orders'[x].returned = orders[x].returned /\ orders'[x].lines = orders[x].lines
        <4>1. CASE Ship(o)
          BY <1>1, <2>1, <4>1 DEF Ship, Shipped, Order
        <4>2. CASE Deliver(o)
          BY <1>1, <2>1, <4>2 DEF Deliver, Delivered, Order
        <4> QED
          BY <1>4, <4>1, <4>2
      <3> QED
        BY <1>2, <3>1
    <2>2. CASE x # o
      BY <1>1, <1>3, <1>4, <2>2 DEF Ship, Deliver
    <2> QED
      BY <2>1, <2>2
  <1>5. ASSUME NEW o \in OrderId, NEW p \in Product, Return(o, p) PROVE Bounded(orders'[x])
    <2>1. CASE x = o
      <3>1. /\ orders[x].status = "delivered" /\ orders[x].lines[p] - orders[x].returned[p] >= 1
            /\ orders'[x] = UnitReturned(orders[x], p)
        BY <1>1, <1>5, <2>1 DEF Return, UnitsLeft
      <3>2. /\ orders'[x].status = orders[x].status /\ orders'[x].lines = orders[x].lines
            /\ orders'[x].returned = [orders[x].returned EXCEPT ![p] = @ + 1]
        BY <1>1, <3>1 DEF UnitReturned, Order
      <3>3. orders[x].returned \in [Product -> Nat] /\ orders[x].lines \in [Product -> Nat]
        BY <1>1 DEF Order, Lines
      <3> QED
        BY <1>2, <3>1, <3>2, <3>3
    <2>2. CASE x # o
      BY <1>1, <1>3, <1>5, <2>2 DEF Return
    <2> QED
      BY <2>1, <2>2
  <1>6. ASSUME NEW s \in Session, PlaceOrder(s) PROVE Bounded(orders'[x])
    <2>1. PICK o \in OrderId :
            /\ orders' = [orders EXCEPT ![o] = PaidOrder(tx[s].cust, tx[s].lines, ShipFrom(s))]
            /\ tx[s].lines \in Lines
      BY <1>6, PlaceOrderFact
    <2>2. CASE x = o
      BY <1>1, <2>1, <2>2 DEF PaidOrder, NoLines, Lines
    <2>3. CASE x # o
      BY <1>1, <1>3, <2>1, <2>3
    <2> QED
      BY <2>2, <2>3
  <1>7. ASSUME NEW s \in Session, CommitCancel(s) PROVE Bounded(orders'[x])
    <2>1. /\ tx[s].ord \in OrderId /\ CanCancel(tx[s].ord)
          /\ orders[tx[s].ord].payment \in {"authorized", "captured"}
          /\ orders' = [orders EXCEPT ![tx[s].ord] = Cancelled(@)]
      BY <1>7 DEF CommitCancel, LockInv, TxShape, CancelHolds, PaymentToRefund, InPhase
    <2>2. CASE x = tx[s].ord
      <3>1. /\ orders[x].status \in {"pending", "paid"}
            /\ orders'[x].returned = orders[x].returned /\ orders'[x].lines = orders[x].lines
        BY <1>1, <2>1, <2>2, CancelledFields DEF CanCancel
      <3> QED
        BY <1>2, <3>1
    <2>3. CASE x # tx[s].ord
      BY <1>1, <1>3, <2>1, <2>3
    <2> QED
      BY <2>2, <2>3
  <1> HIDE DEF Bounded
  <1> QED
    BY <1>4, <1>5, <1>6, <1>7, OrderWriters

(* A customer gets back at most the units that were delivered, from        *)
(* concurrent requests too (the return action of orderAction).             *)
THEOREM NoUnitReturnedTwice == Spec => []ReturnsBounded
  <1>1. Init => ReturnsBounded
    BY SeedAssumption DEF Init, ReturnsBounded
  <1> QED
    BY <1>1, ReturnsStep, LocksHold, PTL DEF Spec

-----------------------------------------------------------------------------
(* Checkouts lock in order.                                                *)

(* Rows are ordered by warehouse, then by product.                         *)
LEMMA BeforeTransitive ==
  ASSUME NEW q \in Row, NEW r \in Row, NEW t \in Row, Before(q, r), Before(r, t)
  PROVE  Before(q, t)
  <1>1. \A x \in Row : x[1] \in Nat /\ x[2] \in Nat
    BY IdsAssumption, StockAssumption
  <1> QED
    BY <1>1 DEF Before

(* A transaction that ends holds nothing; the others are as they were.     *)
LEMMA EndKeepsOrder ==
  ASSUME LockInv, LocksInOrder, NEW s \in Session, End(s)
  PROVE  LocksInOrder'
  <1>1. /\ tx'[s] = NoTx /\ \A t \in Session \ {s} : tx'[t] = tx[t]
        /\ \A t \in Session \ {s}, r \in Row : rowLock'[r] = t <=> rowLock[r] = t
        /\ \A t \in Session \ {s}, c \in Customer : cartLock'[c] = t <=> cartLock[c] = t
    BY ReleaseFact DEF LockInv
  <1>2. \A c \in Customer : cartLock'[c] # s
    BY SessionAssumption DEF End, Release
  <1> QED
    BY <1>1, <1>2 DEF LocksInOrder, InPhase, NoTx

(* Once a row is locked, the next one asked for comes after it.            *)
LEMMA LockRowKeepsOrder ==
  ASSUME LockInv, LocksInOrder, NEW s \in Session, LockRow(s)
  PROVE  LocksInOrder'
  <1> DEFINE w == tx[s].want
  <1>1. TypeInv /\ TypeOK
    BY DEF LockInv, TypeInv
  <1>2. w \in Row /\ w # None
    BY <1>1, LockRowFact, IdsAssumption
  <1>3. PICK t \in Transaction :
          /\ tx' = [tx EXCEPT ![s] = t]
          /\ t.phase = tx[s].phase
          /\ t.need = tx[s].need \ {w}
          /\ t.want \in t.need \cup {None}
          /\ tx[s].phase = "stock" /\ t.want # None => t.want \in Firsts(t.need)
    BY <1>1, LockRowFact
  <1>4. tx'[s] = t /\ \A u \in Session \ {s} : tx'[u] = tx[u]
    BY <1>1, <1>3, TxUpdate
  <1>5. rowLock' = [rowLock EXCEPT ![w] = s] /\ cartLock' = cartLock
    BY DEF LockRow
  <1>6. rowLock'[w] = s /\ \A r \in Row : r # w => rowLock'[r] = rowLock[r]
    BY <1>1, <1>2, <1>5 DEF TypeOK
  <1> HIDE DEF w
  <1>7. ASSUME NEW u \in Session, tx'[u].phase = "stock", tx'[u].want # None
        PROVE  /\ tx'[u].want \in Firsts(tx'[u].need)
               /\ \A r \in Row : rowLock'[r] = u => Before(r, tx'[u].want)
    <2>1. CASE u = s
      <3>1. tx[s].phase = "stock" /\ t.want \in Firsts(t.need) /\ t.want # None
        BY <1>3, <1>4, <1>7, <2>1
      <3>2. w \in Firsts(tx[s].need) /\ \A r \in Row : rowLock[r] = s => Before(r, w)
        BY <1>2, <3>1 DEF LocksInOrder, InPhase, w
      <3>3. t.want \in Row /\ t.want \in tx[s].need /\ t.want # w
        BY <1>3, <3>1 DEF Transaction, Firsts
      <3>4. Before(w, t.want)
        BY <3>2, <3>3 DEF Firsts
      <3>5. \A r \in Row : rowLock'[r] = s => Before(r, t.want)
        BY <1>2, <1>6, <3>2, <3>3, <3>4, BeforeTransitive
      <3> QED
        BY <1>4, <2>1, <3>1, <3>5
    <2>2. CASE u # s
      <3>1. tx'[u] = tx[u] /\ \A r \in Row : rowLock'[r] = u => rowLock[r] = u
        BY <1>4, <1>6, <2>2
      <3> QED
        BY <1>7, <3>1 DEF LocksInOrder, InPhase
    <2> QED
      BY <2>1, <2>2
  <1>8. \A c \in Customer, u \in Session :
          cartLock'[c] = u => tx'[u].phase \in {"lines", "stock"}
    BY <1>3, <1>4, <1>5 DEF LocksInOrder
  <1> QED
    BY <1>7, <1>8 DEF LocksInOrder, InPhase

(* A transaction that takes no row lock, and asks for a first row only     *)
(* while it holds none.                                                    *)
LEMMA StepKeepsOrder ==
  ASSUME LockInv, LocksInOrder, NEW s \in Session, NEW t \in Transaction,
         tx' = [tx EXCEPT ![s] = t], UNCHANGED rowLock,
         tx[s].phase \notin {"stock", "restock"},
         t.phase = "stock" /\ t.want # None => t.want \in Firsts(t.need),
         \A c \in Customer : cartLock'[c] = s => t.phase \in {"lines", "stock"},
         \A c \in Customer, u \in Session : u # s /\ cartLock'[c] = u => cartLock[c] = u
  PROVE  LocksInOrder'
  <1>1. tx'[s] = t /\ \A u \in Session \ {s} : tx'[u] = tx[u]
    BY TxUpdate DEF LockInv
  <1>2. \A r \in Row : rowLock[r] # s
    BY DEF LockInv, RowsAreForStock
  <1> QED
    BY <1>1, <1>2 DEF LocksInOrder, InPhase

(* Every step keeps the order of locks.                                    *)
LEMMA LocksInOrderStep == LockInv /\ LocksInOrder /\ [Next]_vars => LocksInOrder'
  <1> SUFFICES ASSUME LockInv, LocksInOrder, [Next]_vars PROVE LocksInOrder'
    OBVIOUS
  <1>0. TypeInv
    BY DEF LockInv, TypeInv
  <1>1. UNCHANGED <<tx, cartLock, rowLock>> => LocksInOrder'
    BY DEF LocksInOrder, InPhase
  <1>2. ASSUME NEW c \in Customer, NEW p \in Product,
               \/ \E q \in AddQty : CartAdd(c, p, q)
               \/ \E q \in SetQty : CartUpdate(c, p, q)
        PROVE  LocksInOrder'
    BY <1>1, <1>2 DEF CartAdd, CartUpdate, locks
  <1>3. ASSUME NEW o \in OrderId, Ship(o) \/ Deliver(o) \/ \E p \in Product : Return(o, p)
        PROVE  LocksInOrder'
    BY <1>1, <1>3 DEF Ship, Deliver, Return, locks
  <1>4. ASSUME NEW s \in Session,
               \/ \E c \in Customer : BeginCheckout(s, c)
               \/ \E o \in OrderId : BeginCancel(s, o)
        PROVE  LocksInOrder'
    <2>1. PICK t \in Transaction :
            /\ tx' = [tx EXCEPT ![s] = t] /\ t.phase \in {"cart", "order"}
      BY <1>0, <1>4, BeginFact
    <2>2. UNCHANGED <<cartLock, rowLock>> /\ tx[s].phase = "idle"
      BY <1>4 DEF BeginCheckout, BeginCancel, locks, InPhase
    <2>3. \A c \in Customer : cartLock'[c] # s
      BY <2>2 DEF LocksInOrder
    <2> QED
      BY <2>1, <2>2, <2>3, StepKeepsOrder
  <1>5. ASSUME NEW s \in Session, LockCart(s) PROVE LocksInOrder'
    <2>1. PICK t \in Transaction : tx' = [tx EXCEPT ![s] = t] /\ t.phase = "lines"
      BY <1>0, <1>5, LockCartFact
    <2>2. /\ cartLock' = [cartLock EXCEPT ![tx[s].cust] = s]
          /\ UNCHANGED rowLock /\ tx[s].phase = "cart"
      BY <1>5 DEF LockCart, InPhase
    <2>3. \A c \in Customer, u \in Session : u # s /\ cartLock'[c] = u => cartLock[c] = u
      BY <2>2 DEF LockInv, TypeOK
    <2> QED
      BY <2>1, <2>2, <2>3, StepKeepsOrder
  <1>6. ASSUME NEW s \in Session, ReadLines(s) PROVE LocksInOrder'
    <2>1. PICK t \in Transaction :
            /\ tx' = [tx EXCEPT ![s] = t] /\ t.phase = "stock"
            /\ t.want # None => t.want \in Firsts(t.need)
      BY <1>0, <1>6, ReadLinesFact
    <2>2. UNCHANGED <<cartLock, rowLock>> /\ tx[s].phase = "lines"
      BY <1>6 DEF ReadLines, InPhase, locks
    <2> QED
      BY <2>1, <2>2, StepKeepsOrder
  <1>7. ASSUME NEW s \in Session, LockOrder(s) PROVE LocksInOrder'
    <2>1. PICK t \in Transaction : tx' = [tx EXCEPT ![s] = t] /\ t.phase = "restock"
      BY <1>0, <1>7, LockOrderFact
    <2>2. UNCHANGED <<cartLock, rowLock>> /\ tx[s].phase = "order"
      BY <1>7 DEF LockOrder, InPhase
    <2>3. \A c \in Customer : cartLock'[c] # s
      BY <2>2 DEF LocksInOrder
    <2> QED
      BY <2>1, <2>2, <2>3, StepKeepsOrder
  <1>8. ASSUME NEW s \in Session,
               \/ EmptyCart(s) \/ PromoRejected(s) \/ NotEnoughStock(s) \/ PlaceOrder(s)
               \/ TooLateToCancel(s) \/ CommitCancel(s) \/ DeadlockVictim(s) \/ Fail(s)
        PROVE  LocksInOrder'
    <2>1. End(s)
      BY <1>8 DEF EmptyCart, PromoRejected, NotEnoughStock, PlaceOrder, TooLateToCancel,
         CommitCancel, DeadlockVictim, Fail, Rollback
    <2> QED
      BY <2>1, EndKeepsOrder
  <1>9. CASE UNCHANGED vars
    BY <1>1, <1>9 DEF vars
  <1> QED
    BY <1>2, <1>3, <1>4, <1>5, <1>6, <1>7, <1>8, <1>9, LockRowKeepsOrder
    DEF Next, CheckoutStep, CancelStep

(* Among rows that somebody asks for, one comes first.                     *)
LEMMA FirstRow ==
  ASSUME NEW W \in SUBSET Row, W # {}
  PROVE  \E r \in W : \A q \in W : ~Before(q, r)
  <1>1. \A x \in Row : x[1] \in Nat /\ x[2] \in Nat
    BY IdsAssumption, StockAssumption
  <1> DEFINE first  == {r[1] : r \in W}
  <1>2. PICK m \in first : \A n \in first : m <= n
    BY <1>1, LeastNatural
  <1> DEFINE second == {r[2] : r \in {q \in W : q[1] = m}}
  <1>3. PICK k \in second : \A n \in second : k <= n
    <2>1. second \in SUBSET Nat /\ second # {}
      BY <1>1, <1>2
    <2> QED
      BY <2>1, LeastNatural
  <1>4. PICK r \in W : r[1] = m /\ r[2] = k
    BY <1>3
  <1>5. ASSUME NEW q \in W, Before(q, r) PROVE FALSE
    <2>1. m <= q[1] /\ q[1] \in Nat /\ m \in Nat /\ k \in Nat /\ q[2] \in Nat
      BY <1>1, <1>2, <1>4
    <2>2. q[1] = m /\ q[2] < k
      BY <1>4, <1>5, <2>1 DEF Before
    <2>3. k <= q[2]
      BY <1>3, <2>2
    <2> QED
      BY <2>1, <2>2, <2>3
  <1> QED
    BY <1>4, <1>5

(* No cycle of waiting transactions is made of checkouts only: each holds  *)
(* rows before the one it asks for, so nobody in the cycle waits for the   *)
(* one that asks for the first row (placeOrder, ORDER BY ... FOR UPDATE).  *)
THEOREM NoCheckoutCycle == Spec => []CheckoutsNeverDeadlock
  <1>1. Init => LocksInOrder
    BY SessionAssumption DEF Init, LocksInOrder, InPhase, NoTx
  <1>2. LockInv /\ LocksInOrder => CheckoutsNeverDeadlock
    <2> SUFFICES ASSUME LockInv, LocksInOrder, NEW S \in SUBSET CheckingOut, Deadlocked(S)
                 PROVE  FALSE
      BY DEF CheckoutsNeverDeadlock
    <2>1. S \subseteq Session /\ None \notin S /\ S # {}
      BY SessionAssumption DEF CheckingOut, Deadlocked
    <2>2. /\ \A t \in S : Blocker(t) \in S
          /\ \A b \in S : \E t \in S : Blocker(t) = b
      BY DEF Deadlocked
    <2>3. ASSUME NEW t \in S
          PROVE  \/ tx[t].phase = "cart" /\ Blocker(t) = cartLock[tx[t].cust] /\ tx[t].cust \in Customer
                 \/ tx[t].phase = "stock" /\ tx[t].want # None /\ Blocker(t) = rowLock[tx[t].want]
      <3>1. tx[t].phase \in {"cart", "lines", "stock"} /\ Blocker(t) # None
        BY <2>1, <2>2 DEF CheckingOut
      <3>2. tx[t].phase = "cart" => tx[t].cust \in Customer
        BY <2>1 DEF LockInv, TxShape
      <3>3. tx[t].phase # "stock" => tx[t].want = None
        BY <2>1, <3>1 DEF LockInv, RowsAreForStock
      <3> QED
        BY <3>1, <3>2, <3>3 DEF Blocker, InPhase
    <2>4. ASSUME NEW t \in S, tx[t].want # None PROVE tx[t].want \in Row
      BY <2>1, <2>4 DEF LockInv, TypeOK, Transaction
    <2>5. ASSUME NEW b \in S PROVE tx[b].phase = "stock" /\ tx[b].want # None
      <3>1. PICK t \in S : Blocker(t) = b
        BY <2>2
      <3>2. tx[b].phase # "cart"
        <4>1. CASE tx[t].phase = "cart"
          BY <2>1, <2>3, <3>1, <4>1 DEF LocksInOrder
        <4>2. CASE tx[t].phase # "cart"
          BY <2>1, <2>3, <2>4, <3>1, <4>2 DEF LockInv, RowsAreForStock
        <4> QED
          BY <4>1, <4>2
      <3> QED
        BY <2>3, <3>2
    <2> DEFINE W == {tx[b].want : b \in S}
    <2>6. PICK r \in W : \A q \in W : ~Before(q, r)
      <3>1. W \in SUBSET Row /\ W # {}
        BY <2>1, <2>4, <2>5
      <3> QED
        BY <3>1, FirstRow
    <2>7. PICK b \in S : tx[b].want = r
      BY <2>6
    <2>8. PICK t \in S : Blocker(t) = b
      BY <2>2
    <2>9. rowLock[tx[t].want] = b /\ tx[t].want \in Row
      BY <2>3, <2>4, <2>5, <2>8
    <2>10. Before(tx[t].want, tx[b].want)
      BY <2>1, <2>5, <2>9 DEF LocksInOrder, InPhase
    <2> QED
      BY <2>6, <2>7, <2>10
  <1> QED
    BY <1>1, <1>2, LocksInOrderStep, LocksHold, PTL DEF Spec
-----------------------------------------------------------------------------
(* The accounts.  The units of a set of orders are numbered, so a sum over *)
(* orders is the size of a set, and one order more adds its own units.     *)

LEMMA UnitsFinite ==
  ASSUME NEW S, IsFiniteSet(S), NEW n, \A o \in S : n[o] \in Nat
  PROVE  /\ IsFiniteSet(UNION {{o} \X (1 .. n[o]) : o \in S})
         /\ Total(n, S) \in Nat
  <1> DEFINE Part(o) == {o} \X (1 .. n[o])
             f == [o \in S |-> Part(o)]
             T == {Part(o) : o \in S}
  <1>1. ASSUME NEW o \in S PROVE IsFiniteSet(Part(o))
    <2>1. IsFiniteSet({o})
      BY FS_Singleton
    <2>2. n[o] \in Int /\ 1 \in Int
      OBVIOUS
    <2>3. IsFiniteSet(1 .. n[o])
      BY <2>2, FS_Interval
    <2>4. QED
      BY <2>1, <2>3, FS_Product
  <1>2. f \in Surjection(S, T)
    BY DEF Surjection
  <1>3. IsFiniteSet(T)
    BY <1>2, FS_Surjection
  <1>4. IsFiniteSet(UNION T)
    BY <1>1, <1>3, FS_UNION
  <1>5. QED
    BY <1>4, FS_CardinalityType DEF Total

LEMMA TotalNone ==
  ASSUME NEW n PROVE Total(n, {}) = 0
  <1>1. UNION {{o} \X (1 .. n[o]) : o \in {}} = {}
    OBVIOUS
  <1>2. QED
    BY <1>1, FS_EmptySet DEF Total

LEMMA TotalSame ==
  ASSUME NEW S, NEW n, NEW m, \A o \in S : n[o] = m[o]
  PROVE  Total(n, S) = Total(m, S)
  <1>1. {{o} \X (1 .. n[o]) : o \in S} = {{o} \X (1 .. m[o]) : o \in S}
    OBVIOUS
  <1>2. QED
    BY <1>1 DEF Total

LEMMA TotalAdd ==
  ASSUME NEW S, IsFiniteSet(S), NEW n, NEW x, x \notin S,
         \A o \in S \cup {x} : n[o] \in Nat
  PROVE  Total(n, S \cup {x}) = Total(n, S) + n[x]
  <1> DEFINE A == UNION {{o} \X (1 .. n[o]) : o \in S}
             B == {x} \X (1 .. n[x])
  <1>1. UNION {{o} \X (1 .. n[o]) : o \in S \cup {x}} = A \cup B
    OBVIOUS
  <1>2. A \cap B = {}
    OBVIOUS
  <1>3. IsFiniteSet(A) /\ Cardinality(A) = Total(n, S) /\ Cardinality(A) \in Nat
    BY UnitsFinite DEF Total
  <1>4. IsFiniteSet(B) /\ Cardinality(B) = n[x]
    <2>1. IsFiniteSet({x}) /\ Cardinality({x}) = 1
      BY FS_Singleton
    <2>2. IsFiniteSet(1 .. n[x]) /\ Cardinality(1 .. n[x]) = n[x]
      BY FS_Interval
    <2>3. Cardinality(B) = 1 * n[x] /\ IsFiniteSet(B)
      BY <2>1, <2>2, FS_Product
    <2>4. QED
      BY <2>3
  <1> HIDE DEF A, B
  <1>5. Cardinality(A \cup B) = Cardinality(A) + Cardinality(B) - Cardinality({})
    BY <1>2, <1>3, <1>4, FS_Union
  <1>6. Cardinality(A \cup B) = Total(n, S) + n[x]
    BY <1>3, <1>4, <1>5, FS_EmptySet
  <1>7. QED
    BY <1>1, <1>6 DEF Total

(* What the accounts see of an order: nothing of it changes but in the     *)
(* commits of a checkout and of a cancel.                                  *)
LEMMA OrderKept ==
  ASSUME LockInv, [Next]_vars, \A s \in Session : ~PlaceOrder(s) /\ ~CommitCancel(s)
  PROVE  /\ inv' = inv
         /\ \A x \in OrderId :
              /\ orders'[x].status = "none" <=> orders[x].status = "none"
              /\ orders'[x].status = "cancelled" <=> orders[x].status = "cancelled"
              /\ orders'[x].lines = orders[x].lines /\ orders'[x].from = orders[x].from
              /\ orders'[x].customer = orders[x].customer
  <1> DEFINE Kept(old, new) ==
        /\ new.status = "none" <=> old.status = "none"
        /\ new.status = "cancelled" <=> old.status = "cancelled"
        /\ new.lines = old.lines /\ new.from = old.from /\ new.customer = old.customer
  <1>1. orders \in [OrderId -> Order] /\ \A o \in OrderId : orders[o] \in Order
    BY DEF LockInv, TypeOK
  <1>2. inv' = inv
    <2>1. \A s \in Session : Rollback(s) => UNCHANGED inv
      BY DEF Rollback
    <2>2. \A s \in Session : CheckoutStep(s) \/ LockRow(s) \/ CancelStep(s) => UNCHANGED inv
      BY <2>1 DEF CheckoutStep, CancelStep, LockCart, ReadLines, EmptyCart, PromoRejected,
           NotEnoughStock, LockRow, LockOrder, TooLateToCancel
    <2>3. QED
      BY <2>1, <2>2 DEF Next, vars, CartAdd, CartUpdate, Ship, Deliver, Return,
           BeginCheckout, BeginCancel, DeadlockVictim, Fail
  <1>3. ASSUME NEW o \in OrderId, NEW order \in Order, Kept(orders[o], order),
               orders' = [orders EXCEPT ![o] = order], NEW x \in OrderId
        PROVE  Kept(orders[x], orders'[x])
    BY <1>1, <1>3
  <1>4. ASSUME NEW o \in OrderId, Ship(o), NEW x \in OrderId PROVE Kept(orders[x], orders'[x])
    <2>1. Shipped(orders[o]) \in Order /\ Kept(orders[o], Shipped(orders[o]))
      BY <1>1, <1>4 DEF Ship, Shipped, Moved, Order, Status, Shipment
    <2>2. QED
      BY <1>3, <1>4, <2>1 DEF Ship
  <1>5. ASSUME NEW o \in OrderId, Deliver(o), NEW x \in OrderId PROVE Kept(orders[x], orders'[x])
    <2>1. Delivered(orders[o]) \in Order /\ Kept(orders[o], Delivered(orders[o]))
      BY <1>1, <1>5 DEF Deliver, Delivered, Moved, Order, Status, Shipment
    <2>2. QED
      BY <1>3, <1>5, <2>1 DEF Deliver
  <1>6. ASSUME NEW o \in OrderId, NEW p \in Product, Return(o, p), NEW x \in OrderId
        PROVE  Kept(orders[x], orders'[x])
    <2>1. orders[o] \in Order /\ orders[o].returned[p] + 1 \in Nat
      BY <1>1 DEF Order
    <2>2. Kept(orders[o], UnitReturned(orders[o], p))
      BY <2>1 DEF UnitReturned, Order
    <2>3. UnitReturned(orders[o], p) \in Order
      BY <2>1 DEF UnitReturned, Order
    <2>4. QED
      BY <1>3, <1>6, <2>2, <2>3 DEF Return
  <1>7. CASE orders' # orders
    BY <1>2, <1>4, <1>5, <1>6, <1>7, OrderWriters
  <1>8. QED
    BY <1>2, <1>7

(* What the accounts see of a checkout's commit: an order that nobody had. *)
LEMMA OrderAdded ==
  ASSUME LockInv, SeedsStay, NEW s \in Session, PlaceOrder(s)
  PROVE  \E o \in OrderId :
           /\ orders[o].status = "none" /\ ~Seeded(o)
           /\ orders'[o].status = "paid"
           /\ orders'[o].customer = tx[s].cust /\ orders'[o].lines = tx[s].lines
           /\ orders'[o].from = ShipFrom(s)
           /\ \A x \in OrderId \ {o} : orders'[x] = orders[x]
           /\ tx[s].cust \in Customer /\ tx[s].lines \in Lines /\ inv' = Take(s)
           /\ cart' = [cart EXCEPT ![tx[s].cust] = NoLines]
           /\ End(s) /\ UNCHANGED added
  <1>1. PICK o \in OrderId :
           /\ tx[s].cust \in Customer /\ tx[s].lines \in Lines
           /\ orders[o].status = "none"
           /\ orders' = [orders EXCEPT ![o] = PaidOrder(tx[s].cust, tx[s].lines, ShipFrom(s))]
           /\ inv' = Take(s)
           /\ cart' = [cart EXCEPT ![tx[s].cust] = NoLines]
           /\ End(s) /\ UNCHANGED <<cartRow, added>>
    BY PlaceOrderFact
  <1>2. orders'[o] = PaidOrder(tx[s].cust, tx[s].lines, ShipFrom(s))
    BY <1>1 DEF LockInv, TypeOK
  <1>3. \A x \in OrderId \ {o} : orders'[x] = orders[x]
    BY <1>1 DEF LockInv, TypeOK
  <1>4. ~Seeded(o)
    BY <1>1 DEF SeedsStay
  <1>5. QED
    BY <1>1, <1>2, <1>3, <1>4 DEF PaidOrder

(* What the accounts see of a cancel's commit: an order that could be      *)
(* cancelled is, and keeps its lines.                                      *)
LEMMA OrderCancelled ==
  ASSUME LockInv, NEW s \in Session, CommitCancel(s)
  PROVE  \E o \in OrderId :
           /\ CanCancel(o) /\ orders'[o].status = "cancelled"
           /\ orders'[o].customer = orders[o].customer /\ orders'[o].lines = orders[o].lines
           /\ orders'[o].from = orders[o].from
           /\ \A x \in OrderId \ {o} : orders'[x] = orders[x]
           /\ \A r \in Row : inv'[r] = inv[r] + Units(o, r)
           /\ End(s) /\ UNCHANGED <<cart, added>>
  <1> DEFINE o == tx[s].ord
  <1>1. /\ InPhase(s, "restock")
        /\ inv' = [r \in Row |-> IF r \in OrderRows(o) THEN inv[r] + orders[o].lines[r[2]]
                                 ELSE inv[r]]
        /\ orders' = [orders EXCEPT ![o] = Cancelled(@)]
        /\ End(s)
        /\ UNCHANGED <<cartRow, cart, added>>
    BY DEF CommitCancel
  <1>2. o \in OrderId /\ CanCancel(o)
    BY <1>1 DEF LockInv, TxShape, CancelHolds, InPhase
  <1> HIDE DEF o
  <1>3. orders \in [OrderId -> Order] /\ orders[o] \in Order /\ inv \in [Row -> Int]
    BY <1>2 DEF LockInv, TypeOK
  <1>4. orders'[o] = Cancelled(orders[o]) /\ \A x \in OrderId \ {o} : orders'[x] = orders[x]
    BY <1>1, <1>2, <1>3
  <1>5. /\ orders'[o].status = "cancelled" /\ orders'[o].lines = orders[o].lines
        /\ orders'[o].customer = orders[o].customer /\ orders'[o].from = orders[o].from
    BY <1>3, <1>4 DEF Cancelled, Order
  <1>6. ASSUME NEW r \in Row PROVE inv'[r] = inv[r] + Units(o, r)
    <2>1. CASE r \in OrderRows(o)
      BY <1>1, <2>1 DEF OrderRows, Units
    <2>2. CASE r \notin OrderRows(o)
      BY <1>1, <1>3, <2>2 DEF OrderRows, Units
    <2>3. QED
      BY <2>1, <2>2
  <1>7. QED
    BY <1>1, <1>2, <1>4, <1>5, <1>6

(* The stock a set of live orders took is a number for every row.          *)
LEMMA UnitsAreNumbers ==
  TypeOK => /\ \A x \in OrderId, r \in Row : Units(x, r) \in Nat
            /\ \A x \in OrderId, p \in Product : orders[x].lines[p] \in Nat
            /\ IsFiniteSet(Placed) /\ IsFiniteSet(Undone)
            /\ \A c \in Customer : IsFiniteSet(OrderedBy(c))
  <1> HAVE TypeOK
  <1>1. \A x \in OrderId, p \in Product : orders[x].lines[p] \in Nat
    BY DEF TypeOK, Order, Lines
  <1>2. \A r \in Row : r[2] \in Product
    BY StockAssumption
  <1>3. Placed \in SUBSET OrderId /\ Undone \in SUBSET OrderId
    BY DEF Placed, Undone
  <1>4. \A c \in Customer : OrderedBy(c) \in SUBSET OrderId
    BY DEF OrderedBy
  <1>5. QED
    BY <1>1, <1>2, <1>3, <1>4, FiniteAssumption, FS_Subset DEF Units

(* The stock account after a step: what a checkout takes and its order     *)
(* records are the same units, and so are those that a cancel puts back.   *)
LEMMA StockStep ==
  LockInv /\ SeedsStay /\ StockMatchesOrders /\ [Next]_vars => SeedsStay' /\ StockMatchesOrders'
  <1> SUFFICES ASSUME LockInv, SeedsStay, StockMatchesOrders, [Next]_vars
               PROVE  SeedsStay' /\ StockMatchesOrders'
    OBVIOUS
  <1> DEFINE n(r) == [x \in OrderId |-> Units(x, r)]
             m(r) == [x \in OrderId |-> Units(x, r)']
  <1>1. LockInv' /\ TypeOK /\ TypeOK'
    BY NextLockInv DEF LockInv
  <1>2. /\ \A x \in OrderId, r \in Row : Units(x, r) \in Nat /\ Units(x, r)' \in Nat
        /\ IsFiniteSet(Placed) /\ IsFiniteSet(Undone)
        /\ IsFiniteSet(Placed') /\ IsFiniteSet(Undone')
    <2>1. /\ \A x \in OrderId, r \in Row : Units(x, r) \in Nat
          /\ IsFiniteSet(Placed) /\ IsFiniteSet(Undone)
      BY <1>1, UnitsAreNumbers
    <2>2. (/\ \A x \in OrderId, r \in Row : Units(x, r) \in Nat
           /\ \A x \in OrderId, p \in Product : orders[x].lines[p] \in Nat
           /\ IsFiniteSet(Placed) /\ IsFiniteSet(Undone)
           /\ \A c \in Customer : IsFiniteSet(OrderedBy(c)))'
      BY <1>1, UnitsAreNumbers, PTL
    <2>3. QED
      BY <2>1, <2>2
  <1>3. /\ Placed \subseteq OrderId /\ Undone \subseteq OrderId
        /\ Placed' \subseteq OrderId /\ Undone' \subseteq OrderId
    BY DEF Placed, Undone
  <1>4. ASSUME NEW r \in Row
        PROVE  /\ Taken(r) = Total(n(r), Placed) - Total(n(r), Undone)
               /\ Taken(r)' = Total(m(r), Placed') - Total(m(r), Undone')
               /\ Total(n(r), Placed) \in Nat /\ Total(n(r), Undone) \in Nat
               /\ Total(m(r), Placed') \in Nat /\ Total(m(r), Undone') \in Nat
               /\ inv[r] \in Int /\ InitStock[r] \in Nat
               /\ inv[r] = InitStock[r] - Taken(r)
    <2>1. /\ Taken(r) = Total(n(r), Placed) - Total(n(r), Undone)
          /\ Taken(r)' = Total(m(r), Placed') - Total(m(r), Undone')
      BY DEF Taken
    <2>2. Total(n(r), Placed) \in Nat /\ Total(n(r), Undone) \in Nat
      BY <1>2, <1>3, UnitsFinite
    <2>3. Total(m(r), Placed') \in Nat /\ Total(m(r), Undone') \in Nat
      BY <1>2, <1>3, UnitsFinite
    <2>4. QED
      BY <1>1, <2>1, <2>2, <2>3, StockAssumption DEF TypeOK, StockMatchesOrders
  <1>5. CASE \A s \in Session : ~PlaceOrder(s) /\ ~CommitCancel(s)
    <2>1. /\ inv' = inv
          /\ \A x \in OrderId :
               /\ orders'[x].status = "none" <=> orders[x].status = "none"
               /\ orders'[x].status = "cancelled" <=> orders[x].status = "cancelled"
               /\ orders'[x].lines = orders[x].lines /\ orders'[x].from = orders[x].from
      BY <1>5, OrderKept
    <2>2. Placed' = Placed /\ Undone' = Undone
      BY <2>1 DEF Placed, Undone, Seeded
    <2>3. ASSUME NEW r \in Row PROVE inv'[r] = InitStock[r] - Taken(r)'
      <3>1. n(r) = m(r)
        BY <2>1 DEF Units
      <3>2. QED
        BY <1>4, <2>1, <2>2, <3>1
    <2>4. SeedsStay'
      BY <2>1 DEF SeedsStay, Seeded
    <2>5. QED
      BY <2>3, <2>4 DEF StockMatchesOrders
  <1>6. ASSUME NEW s \in Session, PlaceOrder(s) PROVE SeedsStay' /\ StockMatchesOrders'
    <2>1. PICK o \in OrderId :
            /\ orders[o].status = "none" /\ ~Seeded(o)
            /\ orders'[o].status = "paid"
            /\ orders'[o].lines = tx[s].lines /\ orders'[o].from = ShipFrom(s)
            /\ \A x \in OrderId \ {o} : orders'[x] = orders[x]
            /\ inv' = Take(s)
      BY <1>6, OrderAdded
    <2>2. Placed' = Placed \cup {o} /\ o \notin Placed /\ Undone' = Undone /\ o \notin Undone
      BY <2>1 DEF Placed, Undone, Seeded
    <2>3. ASSUME NEW r \in Row PROVE inv'[r] = InitStock[r] - Taken(r)'
      <3>1. \A x \in Placed \cup Undone : n(r)[x] = m(r)[x]
        BY <1>3, <2>1, <2>2 DEF Units
      <3>2. Total(m(r), Placed) = Total(n(r), Placed) /\ Total(m(r), Undone) = Total(n(r), Undone)
        BY <3>1, TotalSame
      <3>3. Total(m(r), Placed \cup {o}) = Total(m(r), Placed) + m(r)[o]
        <4>1. \A x \in Placed \cup {o} : m(r)[x] \in Nat
          BY <1>2, <1>3
        <4>2. QED
          BY <1>2, <2>2, <4>1, TotalAdd
      <3>4. inv'[r] = inv[r] - m(r)[o] /\ m(r)[o] \in Nat
        <4>1. inv'[r] = IF ShipFrom(s)[r[2]] = r[1] THEN inv[r] - tx[s].lines[r[2]] ELSE inv[r]
          BY <2>1 DEF Take
        <4>2. m(r)[o] = IF ShipFrom(s)[r[2]] = r[1] THEN tx[s].lines[r[2]] ELSE 0
          BY <2>1 DEF Units
        <4>3. m(r)[o] \in Nat
          BY <1>2
        <4> HIDE DEF n, m
        <4>4. inv[r] \in Int
          BY <1>4
        <4>5. CASE ShipFrom(s)[r[2]] = r[1]
          BY <4>1, <4>2, <4>3, <4>5
        <4>6. CASE ShipFrom(s)[r[2]] # r[1]
          BY <4>1, <4>2, <4>4, <4>6
        <4>7. QED
          BY <4>3, <4>5, <4>6
      <3> HIDE DEF n, m
      <3>5. QED
        BY <1>4, <2>2, <3>2, <3>3, <3>4
    <2>4. SeedsStay'
      BY <2>1 DEF SeedsStay, Seeded
    <2>5. QED
      BY <2>3, <2>4 DEF StockMatchesOrders
  <1>7. ASSUME NEW s \in Session, CommitCancel(s) PROVE SeedsStay' /\ StockMatchesOrders'
    <2>1. PICK o \in OrderId :
            /\ CanCancel(o) /\ orders'[o].status = "cancelled"
            /\ orders'[o].lines = orders[o].lines /\ orders'[o].from = orders[o].from
            /\ \A x \in OrderId \ {o} : orders'[x] = orders[x]
            /\ \A r \in Row : inv'[r] = inv[r] + Units(o, r)
      BY <1>7, OrderCancelled
    <2>2. \A r \in Row : n(r) = m(r)
      <3>1. \A x \in OrderId : orders'[x].lines = orders[x].lines /\ orders'[x].from = orders[x].from
        BY <2>1
      <3>2. QED
        BY <3>1 DEF Units
    <2>3. SeedOrders[o].status # "cancelled"
      BY <2>1 DEF SeedsStay, CanCancel
    <2>4. ASSUME NEW r \in Row PROVE inv'[r] = InitStock[r] - Taken(r)'
      <3>1. n(r)[o] = Units(o, r) /\ n(r)[o] \in Nat /\ n(r) = m(r) /\ inv'[r] = inv[r] + n(r)[o]
        BY <1>2, <2>1, <2>2
      <3>2. \A x \in OrderId : n(r)[x] \in Nat
        BY <1>2
      <3> HIDE DEF n, m
      <3>3. CASE Seeded(o)
        <4>1. Placed' = Placed /\ Undone' = Undone \cup {o} /\ o \notin Undone
          BY <2>1, <2>3, <3>3 DEF Placed, Undone, Seeded, CanCancel
        <4>2. Total(n(r), Undone') = Total(n(r), Undone) + n(r)[o]
          BY <1>2, <1>3, <3>2, <4>1, TotalAdd
        <4>3. QED
          BY <1>4, <3>1, <4>1, <4>2
      <3>4. CASE ~Seeded(o)
        <4>1. Undone' = Undone /\ Placed = Placed' \cup {o} /\ o \notin Placed'
          BY <2>1, <3>4 DEF Placed, Undone, Seeded, CanCancel
        <4>2. Total(n(r), Placed) = Total(n(r), Placed') + n(r)[o]
          BY <1>2, <1>3, <3>2, <4>1, TotalAdd
        <4>3. QED
          BY <1>4, <3>1, <4>1, <4>2
      <3>5. QED
        BY <3>3, <3>4
    <2>5. SeedsStay'
      BY <2>1 DEF SeedsStay, Seeded
    <2>6. QED
      BY <2>4, <2>5 DEF StockMatchesOrders
  <1>8. QED
    BY <1>5, <1>6, <1>7

(* What a customer ordered changes when a checkout of that customer        *)
(* commits, by its lines, and at no other time.                            *)
LEMMA OrderedStep ==
  ASSUME LockInv, SeedsStay, [Next]_vars, NEW c \in Customer, NEW p \in Product
  PROVE  /\ OrderedUnits(c, p) \in Nat
         /\ (\A s \in Session : ~(PlaceOrder(s) /\ tx[s].cust = c)) =>
              OrderedUnits(c, p)' = OrderedUnits(c, p)
         /\ \A s \in Session : PlaceOrder(s) /\ tx[s].cust = c =>
              OrderedUnits(c, p)' = OrderedUnits(c, p) + tx[s].lines[p]
  <1> DEFINE n == [x \in OrderId |-> orders[x].lines[p]]
             m == [x \in OrderId |-> orders'[x].lines[p]]
  <1>1. LockInv' /\ TypeOK /\ TypeOK'
    BY NextLockInv DEF LockInv
  <1>2. /\ \A x \in OrderId : n[x] \in Nat
        /\ IsFiniteSet(OrderedBy(c)) /\ OrderedBy(c) \subseteq OrderId
    BY <1>1, UnitsAreNumbers DEF OrderedBy
  <1>3. \A x \in OrderId : m[x] \in Nat
    BY <1>1 DEF TypeOK, Order, Lines
  <1>4. OrderedUnits(c, p) = Total(n, OrderedBy(c)) /\ OrderedUnits(c, p)' = Total(m, OrderedBy(c)')
    BY DEF OrderedUnits
  <1>5. OrderedUnits(c, p) \in Nat
    BY <1>2, <1>4, UnitsFinite
  <1>6. ASSUME \A x \in OrderId : /\ orders'[x].status = "none" <=> orders[x].status = "none"
                                  /\ orders'[x].lines = orders[x].lines
                                  /\ orders'[x].customer = orders[x].customer
        PROVE  OrderedUnits(c, p)' = OrderedUnits(c, p)
    <2>1. OrderedBy(c)' = OrderedBy(c) /\ n = m
      BY <1>6 DEF OrderedBy, Seeded
    <2>2. QED
      BY <1>4, <2>1
  <1>7. CASE \A s \in Session : ~PlaceOrder(s) /\ ~CommitCancel(s)
    <2>1. OrderedUnits(c, p)' = OrderedUnits(c, p)
      BY <1>6, <1>7, OrderKept
    <2>2. QED
      BY <1>5, <1>7, <2>1
  <1>8. ASSUME NEW s \in Session, PlaceOrder(s)
        PROVE  OrderedUnits(c, p)' = IF tx[s].cust = c THEN OrderedUnits(c, p) + tx[s].lines[p]
                                     ELSE OrderedUnits(c, p)
    <2>1. PICK o \in OrderId :
            /\ orders[o].status = "none" /\ ~Seeded(o)
            /\ orders'[o].status = "paid"
            /\ orders'[o].customer = tx[s].cust /\ orders'[o].lines = tx[s].lines
            /\ \A x \in OrderId \ {o} : orders'[x] = orders[x]
      BY <1>8, OrderAdded
    <2>2. o \notin OrderedBy(c)
      BY <2>1 DEF OrderedBy
    <2>3. Total(m, OrderedBy(c)) = Total(n, OrderedBy(c))
      <3>1. \A x \in OrderedBy(c) : m[x] = n[x]
        BY <1>2, <2>1, <2>2
      <3>2. QED
        BY <3>1, TotalSame
    <2>4. CASE tx[s].cust = c
      <3>1. OrderedBy(c)' = OrderedBy(c) \cup {o}
        BY <2>1, <2>4 DEF OrderedBy, Seeded
      <3>2. \A x \in OrderedBy(c) \cup {o} : m[x] \in Nat
        BY <1>2, <1>3
      <3>3. m[o] = tx[s].lines[p]
        BY <2>1
      <3> HIDE DEF n, m
      <3>4. Total(m, OrderedBy(c) \cup {o}) = Total(m, OrderedBy(c)) + m[o]
        BY <1>2, <2>2, <3>2, TotalAdd
      <3>5. QED
        BY <1>4, <2>3, <2>4, <3>1, <3>3, <3>4
    <2>5. CASE tx[s].cust # c
      <3>1. OrderedBy(c)' = OrderedBy(c)
        BY <2>1, <2>5 DEF OrderedBy, Seeded
      <3>2. QED
        BY <1>4, <2>3, <2>5, <3>1
    <2>6. QED
      BY <2>4, <2>5
  <1>9. ASSUME NEW s \in Session, CommitCancel(s)
        PROVE  /\ OrderedUnits(c, p)' = OrderedUnits(c, p)
               /\ \A t \in Session : ~PlaceOrder(t)
    <2>1. PICK o \in OrderId :
            /\ CanCancel(o) /\ orders'[o].status = "cancelled"
            /\ orders'[o].customer = orders[o].customer /\ orders'[o].lines = orders[o].lines
            /\ \A x \in OrderId \ {o} : orders'[x] = orders[x]
      BY <1>9, OrderCancelled
    <2>2. \A x \in OrderId : orders[x].status = "none" => orders'[x].status = "none"
      BY <2>1 DEF CanCancel
    <2>3. OrderedUnits(c, p)' = OrderedUnits(c, p)
      <3>1. \A x \in OrderId : /\ orders'[x].status = "none" <=> orders[x].status = "none"
                               /\ orders'[x].lines = orders[x].lines
                               /\ orders'[x].customer = orders[x].customer
        BY <2>1 DEF CanCancel
      <3>2. QED
        BY <1>6, <3>1
    <2>4. ASSUME NEW t \in Session, PlaceOrder(t) PROVE FALSE
      BY <2>2, <2>4, OrderAdded
    <2>5. QED
      BY <2>3, <2>4
  <1>10. QED
    BY <1>5, <1>7, <1>8, <1>9

(* The cart account after a step that touches no cart and no order, and in *)
(* which no checkout reads its lines.                                      *)
LEMMA QuietCarts ==
  ASSUME LockInv, SeedsStay, LinesWereAdded, NothingOrderedTwice, [Next]_vars,
         \A s \in Session : ~PlaceOrder(s), UNCHANGED <<cart, added>>,
         \A t \in Session : tx'[t].phase = "stock" =>
           tx[t].phase = "stock" /\ tx'[t].cust = tx[t].cust /\ tx'[t].lines = tx[t].lines
  PROVE  LinesWereAdded' /\ NothingOrderedTwice'
  <1>1. \A c \in Customer, p \in Product : OrderedUnits(c, p)' = OrderedUnits(c, p)
    BY OrderedStep
  <1>2. NothingOrderedTwice'
    BY <1>1 DEF NothingOrderedTwice
  <1>3. LinesWereAdded'
    BY <1>1 DEF LinesWereAdded, InPhase, LockInv, TxShape
  <1>4. QED
    BY <1>2, <1>3

(* Putting units in a cart, or changing a line, under a checkout or not.   *)
LEMMA CartKeepsAccount ==
  ASSUME LockInv, SeedsStay, LinesWereAdded, NothingOrderedTwice, [Next]_vars,
         NEW c \in Customer, NEW p \in Product,
         \/ \E q \in AddQty : CartAdd(c, p, q)
         \/ \E q \in SetQty : CartUpdate(c, p, q)
  PROVE  LinesWereAdded' /\ NothingOrderedTwice'
  <1>1. /\ cart \in [Customer -> [Product -> Nat]] /\ added \in [Customer -> [Product -> Nat]]
        /\ \A s \in Session : tx[s].lines \in [Product -> Nat]
    BY DEF LockInv, TypeOK, Lines, Transaction
  <1>2. \E a, b \in Nat : /\ a >= b - cart[c][p]
                          /\ cart' = [cart EXCEPT ![c][p] = b]
                          /\ added' = [added EXCEPT ![c][p] = @ + a]
    <2>1. CASE \E q \in AddQty : CartAdd(c, p, q)
      <3>1. PICK q \in AddQty : CartAdd(c, p, q)
        BY <2>1
      <3>2. q \in Nat /\ cart[c][p] \in Nat
        BY <1>1, SessionAssumption
      <3>3. /\ cart' = [cart EXCEPT ![c][p] = cart[c][p] + q]
            /\ added' = [added EXCEPT ![c][p] = @ + q]
        BY <3>1 DEF CartAdd
      <3>4. cart[c][p] + q \in Nat /\ q >= (cart[c][p] + q) - cart[c][p]
        BY <3>2
      <3>5. QED
        BY <3>2, <3>3, <3>4
    <2>2. CASE \E q \in SetQty : CartUpdate(c, p, q)
      <3>1. PICK q \in SetQty : CartUpdate(c, p, q)
        BY <2>2
      <3>2. q \in Nat /\ cart[c][p] \in Nat
        BY <1>1, SessionAssumption
      <3> DEFINE more == IF q > cart[c][p] THEN q - cart[c][p] ELSE 0
      <3>3. more \in Nat /\ more >= q - cart[c][p]
        BY <3>2
      <3>4. /\ cart' = [cart EXCEPT ![c][p] = q]
            /\ added' = [added EXCEPT ![c][p] = @ + more]
        BY <3>1 DEF CartUpdate, NewQty
      <3> HIDE DEF more
      <3>5. QED
        BY <3>2, <3>3, <3>4
    <2>3. QED
      BY <2>1, <2>2
  <1>3. PICK a \in Nat, b \in Nat : /\ a >= b - cart[c][p]
                                    /\ cart' = [cart EXCEPT ![c][p] = b]
                                    /\ added' = [added EXCEPT ![c][p] = @ + a]
    BY <1>2
  <1>4. UNCHANGED <<orders, tx>>
    BY DEF CartAdd, CartUpdate
  <1>5. \A d \in Customer, x \in Product :
          OrderedUnits(d, x)' = OrderedUnits(d, x) /\ OrderedUnits(d, x) \in Nat
    <2>1. \A s \in Session : ~PlaceOrder(s)
      BY <1>4, OrderAdded
    <2>2. QED
      BY <2>1, OrderedStep
  <1>6. \A d \in Customer, x \in Product :
          /\ added'[d][x] >= added[d][x]
          /\ added'[d][x] - cart'[d][x] >= added[d][x] - cart[d][x]
    <2> SUFFICES ASSUME NEW d \in Customer, NEW x \in Product
                 PROVE  /\ added'[d][x] >= added[d][x]
                        /\ added'[d][x] - cart'[d][x] >= added[d][x] - cart[d][x]
      OBVIOUS
    <2>1. added[d][x] \in Nat /\ cart[d][x] \in Nat
      BY <1>1
    <2>2. CASE d = c /\ x = p
      <3>1. added'[d][x] = added[d][x] + a /\ cart'[d][x] = b
        BY <1>1, <1>3, <2>2
      <3>2. QED
        BY <1>3, <2>1, <2>2, <3>1
    <2>3. CASE ~(d = c /\ x = p)
      <3>1. added'[d][x] = added[d][x] /\ cart'[d][x] = cart[d][x]
        BY <1>1, <1>3, <2>3
      <3>2. QED
        BY <2>1, <3>1
    <2>4. QED
      BY <2>2, <2>3
  <1>7. LockInv' /\ cart' \in [Customer -> [Product -> Nat]]
                 /\ added' \in [Customer -> [Product -> Nat]]
    BY NextLockInv DEF LockInv, TypeOK, Lines
  <1>8. NothingOrderedTwice'
    <2> SUFFICES ASSUME NEW d \in Customer, NEW x \in Product
                 PROVE  OrderedUnits(d, x)' + cart'[d][x] <= added'[d][x]
      BY DEF NothingOrderedTwice
    <2>1. OrderedUnits(d, x) + cart[d][x] <= added[d][x]
      BY DEF NothingOrderedTwice
    <2>2. QED
      BY <1>1, <1>5, <1>6, <1>7, <2>1
  <1>9. LinesWereAdded'
    <2> SUFFICES ASSUME NEW s \in Session, tx[s].phase = "stock", NEW x \in Product
                 PROVE  OrderedUnits(tx[s].cust, x)' + tx[s].lines[x] <= added'[tx[s].cust][x]
      BY <1>4 DEF LinesWereAdded, InPhase
    <2>1. tx[s].cust \in Customer /\ tx'[s].cust = tx[s].cust
      BY <1>4 DEF LockInv, TxShape
    <2>2. OrderedUnits(tx[s].cust, x) + tx[s].lines[x] <= added[tx[s].cust][x]
      BY DEF LinesWereAdded, InPhase
    <2>3. OrderedUnits(tx[s].cust, x)' = OrderedUnits(tx[s].cust, x)
      BY <1>5, <2>1
    <2>4. QED
      BY <1>1, <1>5, <1>6, <1>7, <2>1, <2>2, <2>3
  <1>10. QED
    BY <1>8, <1>9

(* Reading the lines: they are in the cart, so they were put in.           *)
LEMMA ReadKeepsAccount ==
  ASSUME LockInv, SeedsStay, LinesWereAdded, NothingOrderedTwice, [Next]_vars,
         NEW s \in Session, ReadLines(s)
  PROVE  LinesWereAdded' /\ NothingOrderedTwice'
  <1>1. TypeInv
    BY DEF LockInv, TypeInv
  <1>2. PICK t \in Transaction : /\ tx' = [tx EXCEPT ![s] = t]
                                 /\ t.cust \in Customer /\ t.lines = cart[t.cust]
    BY <1>1, ReadLinesFact
  <1>3. UNCHANGED <<orders, cart, added>>
    BY DEF ReadLines
  <1>4. \A d \in Customer, x \in Product : OrderedUnits(d, x)' = OrderedUnits(d, x)
    <2>1. \A u \in Session : ~PlaceOrder(u)
      BY <1>3, OrderAdded
    <2>2. QED
      BY <2>1, OrderedStep
  <1>5. NothingOrderedTwice'
    BY <1>3, <1>4 DEF NothingOrderedTwice
  <1>6. tx'[s] = t /\ \A u \in Session \ {s} : tx'[u] = tx[u]
    BY <1>2 DEF LockInv, TypeOK
  <1>7. LinesWereAdded'
    <2> SUFFICES ASSUME NEW u \in Session, tx'[u].phase = "stock", NEW x \in Product
                 PROVE  OrderedUnits(tx[u].cust, x)' + tx'[u].lines[x] <= added'[tx'[u].cust][x]
      BY DEF LinesWereAdded, InPhase
    <2>1. CASE u = s
      BY <1>2, <1>3, <1>4, <1>6, <2>1 DEF NothingOrderedTwice
    <2>2. CASE u # s
      <3>1. tx[u].cust \in Customer /\ tx'[u] = tx[u]
        BY <1>6, <2>2 DEF LockInv, TxShape
      <3>2. QED
        BY <1>3, <1>4, <3>1 DEF LinesWereAdded, InPhase
    <2>3. QED
      BY <2>1, <2>2
  <1>8. QED
    BY <1>5, <1>7

(* Placing the order: the units it orders leave the account of what the    *)
(* customer may still order, with the whole cart.                          *)
LEMMA PlaceKeepsAccount ==
  ASSUME LockInv, SeedsStay, LinesWereAdded, NothingOrderedTwice, [Next]_vars,
         NEW s \in Session, PlaceOrder(s)
  PROVE  LinesWereAdded' /\ NothingOrderedTwice'
  <1> DEFINE c == tx[s].cust
  <1>1. /\ InPhase(s, "stock") /\ c \in Customer /\ tx[s].lines \in [Product -> Nat]
        /\ cart' = [cart EXCEPT ![c] = NoLines] /\ added' = added /\ End(s)
    BY OrderAdded DEF PlaceOrder, ReadyToPlace, Lines
  <1>2. /\ cart \in [Customer -> [Product -> Nat]] /\ added \in [Customer -> [Product -> Nat]]
        /\ TypeOK
    BY DEF LockInv, TypeOK, Lines
  <1>3. \A u \in Session \ {s} : tx[u].phase = "stock" => tx[u].cust # c
    BY <1>1 DEF LockInv, CartHeld, InPhase
  <1>4. ASSUME NEW u \in Session \ {s}, PlaceOrder(u) PROVE tx[u].cust # c
    BY <1>3, <1>4 DEF PlaceOrder, ReadyToPlace, InPhase
  <1>5. tx'[s] = NoTx /\ \A u \in Session \ {s} : tx'[u] = tx[u]
    BY <1>1, <1>2, ReleaseFact
  <1>6. ASSUME NEW u \in Session \ {s} PROVE ~PlaceOrder(u)
    <2>1. SUFFICES ASSUME PlaceOrder(u) PROVE FALSE
      OBVIOUS
    <2>2. tx'[u] = NoTx
      BY <1>2, <2>1, OrderAdded, ReleaseFact
    <2>3. tx[u].phase = "stock"
      BY <2>1 DEF PlaceOrder, ReadyToPlace, InPhase
    <2>4. QED
      BY <1>5, <2>2, <2>3 DEF NoTx
  <1> HIDE DEF c
  <1>7. ASSUME NEW d \in Customer, NEW x \in Product
        PROVE  /\ OrderedUnits(d, x) \in Nat
               /\ d = c => OrderedUnits(d, x)' = OrderedUnits(d, x) + tx[s].lines[x]
               /\ d # c => OrderedUnits(d, x)' = OrderedUnits(d, x)
    BY <1>6, OrderedStep DEF c
  <1>8. NothingOrderedTwice'
    <2> SUFFICES ASSUME NEW d \in Customer, NEW x \in Product
                 PROVE  OrderedUnits(d, x)' + cart'[d][x] <= added'[d][x]
      BY DEF NothingOrderedTwice
    <2>1. CASE d = c
      <3>1. OrderedUnits(c, x) + tx[s].lines[x] <= added[c][x]
        BY <1>1 DEF LinesWereAdded, c
      <3>2. cart'[d][x] = 0
        BY <1>1, <1>2, <2>1 DEF NoLines
      <3>3. OrderedUnits(d, x)' = OrderedUnits(c, x) + tx[s].lines[x] /\ OrderedUnits(c, x) \in Nat
        BY <1>7, <2>1
      <3>4. tx[s].lines[x] \in Nat /\ added[c][x] \in Nat /\ added'[d][x] = added[c][x]
        BY <1>1, <1>2, <2>1
      <3>5. QED
        BY <3>1, <3>2, <3>3, <3>4
    <2>2. CASE d # c
      BY <1>1, <1>2, <1>7, <2>2 DEF NothingOrderedTwice
    <2>3. QED
      BY <2>1, <2>2
  <1>9. LinesWereAdded'
    <2> SUFFICES ASSUME NEW u \in Session, tx'[u].phase = "stock", NEW x \in Product
                 PROVE  OrderedUnits(tx[u].cust, x)' + tx'[u].lines[x] <= added'[tx'[u].cust][x]
      BY DEF LinesWereAdded, InPhase
    <2>1. u # s
      BY <1>5 DEF NoTx
    <2>2. tx'[u] = tx[u] /\ tx[u].cust \in Customer /\ tx[u].cust # c
      BY <1>3, <1>5, <2>1 DEF LockInv, TxShape
    <2>3. QED
      BY <1>1, <1>7, <2>2 DEF LinesWereAdded, InPhase
  <1>10. QED
    BY <1>8, <1>9

(* The cart account after every step.                                      *)
LEMMA CartStep ==
  LockInv /\ SeedsStay /\ LinesWereAdded /\ NothingOrderedTwice /\ [Next]_vars
    => LinesWereAdded' /\ NothingOrderedTwice'
  <1> SUFFICES ASSUME LockInv, SeedsStay, LinesWereAdded, NothingOrderedTwice, [Next]_vars
               PROVE  LinesWereAdded' /\ NothingOrderedTwice'
    OBVIOUS
  <1> DEFINE NoRead == \A t \in Session : tx'[t].phase = "stock" =>
               tx[t].phase = "stock" /\ tx'[t].cust = tx[t].cust /\ tx'[t].lines = tx[t].lines
  <1>1. TypeInv /\ TypeOK
    BY DEF LockInv, TypeInv
  <1>2. ASSUME \A s \in Session : ~PlaceOrder(s), UNCHANGED <<cart, added>>, NoRead
        PROVE  LinesWereAdded' /\ NothingOrderedTwice'
    BY <1>2, QuietCarts
  <1>3. ASSUME NEW s \in Session, NEW t \in Transaction, tx' = [tx EXCEPT ![s] = t],
               \/ t.phase # "stock"
               \/ t.phase = tx[s].phase /\ t.cust = tx[s].cust /\ t.lines = tx[s].lines
        PROVE  NoRead
    BY <1>1, <1>3 DEF TypeOK
  <1>4. ASSUME NEW s \in Session, End(s) PROVE NoRead
    BY <1>1, <1>4, ReleaseFact DEF NoTx
  <1>5. CASE \E s \in Session : PlaceOrder(s)
    BY <1>5, PlaceKeepsAccount
  <1>6. CASE \E s \in Session : ReadLines(s)
    BY <1>6, ReadKeepsAccount
  <1>7. ASSUME NEW c \in Customer, NEW p \in Product,
               \/ \E q \in AddQty : CartAdd(c, p, q)
               \/ \E q \in SetQty : CartUpdate(c, p, q)
        PROVE  LinesWereAdded' /\ NothingOrderedTwice'
    BY <1>7, CartKeepsAccount
  <1> USE DEF locks
  <1>8. ASSUME NEW o \in OrderId, Ship(o) \/ Deliver(o) \/ \E p \in Product : Return(o, p)
        PROVE  NoRead /\ UNCHANGED <<cart, added>>
    BY <1>8 DEF Ship, Deliver, Return
  <1>9. ASSUME NEW s \in Session, Rollback(s) PROVE NoRead /\ UNCHANGED <<cart, added>>
    BY <1>4, <1>9 DEF Rollback
  <1>10. ASSUME NEW s \in Session, CommitCancel(s) PROVE NoRead /\ UNCHANGED <<cart, added>>
    BY <1>4, <1>10 DEF CommitCancel
  <1>11. ASSUME NEW s \in Session, \/ \E c \in Customer : BeginCheckout(s, c)
                                   \/ \E o \in OrderId : BeginCancel(s, o)
         PROVE  NoRead /\ UNCHANGED <<cart, added>>
    <2>1. PICK t \in Transaction : /\ tx' = [tx EXCEPT ![s] = t]
                                   /\ t.phase = "cart" \/ t.phase = "order"
      BY <1>1, <1>11, BeginFact
    <2>2. UNCHANGED <<cart, added>>
      BY <1>11 DEF BeginCheckout, BeginCancel
    <2>3. QED
      BY <1>3, <2>1, <2>2
  <1>12. ASSUME NEW s \in Session, LockCart(s) PROVE NoRead /\ UNCHANGED <<cart, added>>
    <2>1. PICK t \in Transaction : tx' = [tx EXCEPT ![s] = t] /\ t.phase = "lines"
      BY <1>1, <1>12, LockCartFact
    <2>2. QED
      BY <1>3, <1>12, <2>1 DEF LockCart
  <1>13. ASSUME NEW s \in Session, LockRow(s) PROVE NoRead /\ UNCHANGED <<cart, added>>
    <2>1. PICK t \in Transaction :
            /\ tx' = [tx EXCEPT ![s] = t]
            /\ t.phase = tx[s].phase /\ t.cust = tx[s].cust /\ t.lines = tx[s].lines
      BY <1>1, <1>13, LockRowFact
    <2>2. QED
      BY <1>3, <1>13, <2>1 DEF LockRow
  <1>14. ASSUME NEW s \in Session, LockOrder(s) PROVE NoRead /\ UNCHANGED <<cart, added>>
    <2>1. PICK t \in Transaction : tx' = [tx EXCEPT ![s] = t] /\ t.phase = "restock"
      BY <1>1, <1>14, LockOrderFact
    <2>2. QED
      BY <1>3, <1>14, <2>1 DEF LockOrder
  <1>15. CASE UNCHANGED vars
    BY <1>2, <1>5, <1>15 DEF vars
  <1> HIDE DEF NoRead
  <1>16. CASE \A s \in Session : ~PlaceOrder(s) /\ ~ReadLines(s)
    <2>1. ASSUME NEW s \in Session, EmptyCart(s) \/ PromoRejected(s) \/ NotEnoughStock(s)
                   \/ TooLateToCancel(s) \/ DeadlockVictim(s) \/ Fail(s)
          PROVE  NoRead /\ UNCHANGED <<cart, added>>
      BY <1>9, <2>1 DEF EmptyCart, PromoRejected, NotEnoughStock, TooLateToCancel,
           DeadlockVictim, Fail
    <2>2. ASSUME NEW s \in Session, CheckoutStep(s) \/ CancelStep(s)
          PROVE  NoRead /\ UNCHANGED <<cart, added>>
      BY <1>10, <1>12, <1>14, <1>16, <2>1, <2>2 DEF CheckoutStep, CancelStep
    <2>3. QED
      BY <1>2, <1>7, <1>8, <1>11, <1>13, <1>15, <1>16, <2>1, <2>2 DEF Next
  <1>17. QED
    BY <1>5, <1>6, <1>16

(* The accounts before the first request: nobody ordered anything yet.      *)
LEMMA InitAccounts == Init => SeedsStay /\ LinesWereAdded /\ StockMatchesOrders /\ NothingOrderedTwice
  <1> SUFFICES ASSUME Init
               PROVE  SeedsStay /\ LinesWereAdded /\ StockMatchesOrders /\ NothingOrderedTwice
    OBVIOUS
  <1>1. orders = SeedOrders /\ inv = InitStock
    BY DEF Init
  <1>2. SeedsStay
    BY <1>1 DEF SeedsStay, Seeded
  <1>3. LinesWereAdded
    BY DEF Init, LinesWereAdded, InPhase, NoTx
  <1>4. StockMatchesOrders
    <2>1. Placed = {} /\ Undone = {}
      BY <1>1 DEF Placed, Undone, Seeded
    <2>2. \A r \in Row : Taken(r) = 0
      BY <2>1, TotalNone DEF Taken
    <2>3. QED
      BY <1>1, <2>2, StockAssumption DEF StockMatchesOrders
  <1>5. NothingOrderedTwice
    <2>1. \A c \in Customer : OrderedBy(c) = {}
      BY <1>1 DEF OrderedBy, Seeded
    <2>2. \A c \in Customer, p \in Product : OrderedUnits(c, p) = 0
      BY <2>1, TotalNone DEF OrderedUnits
    <2>3. \A c \in Customer, p \in Product : cart[c][p] = 0 /\ added[c][p] = 0
      BY DEF Init, NoLines
    <2>4. QED
      BY <2>2, <2>3 DEF NothingOrderedTwice
  <1>6. QED
    BY <1>2, <1>3, <1>4, <1>5

(* The locks that each phase of a transaction holds, and the accounts they *)
(* protect: of the stock against the orders, and of the orders against     *)
(* what was put in the carts.                                              *)
THEOREM InvariantHolds == Spec => []IInv
  <1>1. Init => IInv
    BY InitLockInv, InitAccounts DEF IInv
  <1>2. IInv /\ [Next]_vars => IInv'
    BY NextLockInv, StockStep, CartStep DEF IInv
  <1>3. QED
    BY <1>1, <1>2, PTL DEF Spec

(* Whatever interleaves, fails or is cancelled, the stock missing from a   *)
(* row is what live orders took from it (placeOrder 6 and 7, cancel).      *)
THEOREM StockAccounted == Spec => []StockMatchesOrders
  <1>1. IInv => StockMatchesOrders
    BY DEF IInv
  <1>2. QED
    BY <1>1, InvariantHolds, PTL

(* No unit a customer put in the cart is ever ordered twice (the cart lock *)
(* of placeOrder and its step 11).                                         *)
THEOREM NoUnitOrderedTwice == Spec => []NothingOrderedTwice
  <1>1. IInv => NothingOrderedTwice
    BY DEF IInv
  <1>2. QED
    BY <1>1, InvariantHolds, PTL
=============================================================================
