----------------------------- MODULE SeedOrders -----------------------------
(***************************************************************************)
(* The customers and the orders the data generator makes up, day by day    *)
(* (buildCustomers, generateOrders, emitOrder): who may order what, at     *)
(* which price, how far the order got before the end of the history, and   *)
(* what was returned and reviewed.  Each random number is an arbitrary     *)
(* choice; an instant is 2 * day for a morning, 2 * day + 1 for an evening. *)
(* An order is made in the parts of emitOrder, and forgotten when it is    *)
(* done, as the generator does.                                            *)
(***************************************************************************)
EXTENDS SeedData, Totals

CONSTANTS
  Days,         \* days of history
  Catalog,      \* products: sequence of [created, prices], prices in cents
  Promotions,   \* promotions: sequence of [starts, ends, pct, set]
  FirstWeekdays,    \* weekdays the exchange rates may begin with
  PayDelays, ShipDelays, TransitDelays, LaterDelays,
                \* instants from the order to the payment, on to the shipment,
                \* the delivery, and a return or a review
  Quantities,   \* units on a line
  AddressCounts,    \* addresses of a customer
  MaxCustomers, MaxLines, MaxOrders    \* bounds

End == 2 * Days
TaxPct == 7
Recent == 1    \* three days: a return asked for later is still open

Midnight(d) == 2 * d
DayOf(t) == t \div 2

Product == DOMAIN Catalog

ASSUME SeedOrdersAssumption ==
  /\ Days \in Nat \ {0} /\ {MaxCustomers, MaxLines, MaxOrders} \subseteq Nat
  /\ FirstWeekdays \subseteq 0..6
  /\ Quantities \cup AddressCounts \subseteq Nat \ {0}
  /\ PayDelays \cup ShipDelays \cup TransitDelays \cup LaterDelays \subseteq Nat \ {0}
  \* most products are older than the history
  /\ \E p \in Product : Catalog[p].created < 0

(* What buildProducts leaves: the prices of a product in time order, the   *)
(* first one from its creation on (SeedCatalog; the instant that stands    *)
(* for NULL is left out).                                                  *)
ASSUME CatalogAssumption ==
  \A p \in Product : LET prices == Catalog[p].prices IN
    /\ prices \in Seq([from : Int \ {Nothing}, cents : Nat])
    /\ prices # <<>> /\ prices[1].from = Catalog[p].created
    /\ \A i, j \in DOMAIN prices : i < j => prices[i].from < prices[j].from

(* A promotion lasts whole days (buildPromotions, date).                   *)
ASSUME PromotionsAssumption ==
  \A i \in DOMAIN Promotions : LET promo == Promotions[i] IN
    /\ i # 0 /\ promo.pct \in Nat
    /\ promo.starts \in Int /\ promo.starts = Midnight(DayOf(promo.starts))
    /\ promo.ends \in Int /\ promo.ends = Midnight(DayOf(promo.ends))

VARIABLES
  first,       \* weekday of the first exchange rate
  customers,   \* created, address ids and how many, of each customer, by id
  firstCust,   \* firstCustOfDay: id of the first sign-up of each day so far
  day,         \* the day orders are generated for
  clock,       \* when the last order was placed
  count,       \* orders so far
  order,       \* the order that is being made, <<>> between two
  line,        \* the next line of it to be returned, or reviewed
  return,      \* the last return of it
  reviewed     \* reviews written so far, by product and customer

ordersVars == <<first, customers, firstCust, day, clock, count, order, line, return, reviewed>>

theOrder == <<order, line, return, reviewed>>

NoOrder == <<>>
NoReturn == [qty |-> 0, status |-> "none", refund |-> 0, at |-> Nothing]
NoShipment == [status |-> "none", shipped |-> Nothing, delivered |-> Nothing]

OrdersInit ==
  /\ first \in FirstWeekdays
  /\ customers = <<>> /\ firstCust = <<>>
  /\ day = 0 /\ clock = 0 /\ count = 0
  /\ order = NoOrder /\ line = 0 /\ return = NoReturn
  /\ reviewed = [k \in Product \X (1..MaxCustomers) |-> 0]

-----------------------------------------------------------------------------
(* buildCustomers: the sign-ups of a day, in time order; on the last day   *)
(* come all that are left.  Address ids go on from customer to customer.   *)

AddressId_Restart == 1
AddressId == IF customers = <<>> THEN 1 ELSE Last(customers).address + Last(customers).addresses

SignUp ==
  /\ Len(firstCust) \in 1..Days /\ Len(customers) < MaxCustomers
  /\ LET d == Len(firstCust) - 1
     IN \E t \in {Midnight(d), Midnight(d) + 1}, n \in AddressCounts :
          /\ \A c \in DOMAIN customers : customers[c].created <= t
          /\ customers' = Append(customers, [created |-> t, address |-> AddressId, addresses |-> n])
  /\ UNCHANGED <<first, firstCust, day, clock, count, theOrder>>

(* The next day begins; the entry after the last day closes the index.     *)
NextSignUpDay ==
  /\ Len(firstCust) <= Days
  /\ Len(firstCust) = Days => Len(customers) = MaxCustomers
  /\ firstCust' = Append(firstCust, Len(customers) + 1)
  /\ UNCHANGED <<first, customers, day, clock, count, theOrder>>

FirstOf(d) == firstCust[d + 1]

-----------------------------------------------------------------------------
(* generateOrders: days 1 to the last.  Demand grows with the customers    *)
(* who signed up before the day: with none, the day has no orders.         *)

BuiltCustomers == Len(firstCust) = Days + 1

NextOrderDay ==
  /\ BuiltCustomers /\ day < Days - 1 /\ order = NoOrder
  /\ day' = day + 1 /\ clock' = Midnight(day + 1)
  /\ UNCHANGED <<first, customers, firstCust, count, theOrder>>

HasDemand_Always(d) == TRUE
HasDemand(d) == d > 0 /\ FirstOf(d) > 1

(* pickCustomer: one who signed up on some day up to d, before the order;  *)
(* after 30 refused draws anyone who signed up before the day.             *)
PickedCustomers(d, placed) ==
  {c \in 1..(FirstOf(d + 1) - 1) : customers[c].created < placed} \cup (1..(FirstOf(d) - 1))

(* pickProduct: one that exists when the order is placed; the last resort  *)
(* of the loop is one that existed before.                                 *)
PickedProducts_Any(placed) == Product
PickedProducts(placed) == {p \in Product : Catalog[p].created <= placed}

(* The rate as cents of the currency per dollar: it moves every business   *)
(* day (Nothing, the rate before the first row, is told apart).            *)
Rate(d) == IF d = Nothing THEN 77 ELSE 100 + d

Line_AnyProduct(p, qty, placed, promo) ==
  LET unit == PriceAt(Catalog[p].prices, placed).cents
  IN [product |-> p, qty |-> qty, unit |-> unit,
      disc |-> IF promo = 0 THEN 0 ELSE Rounded(qty * unit * Promotions[promo].pct, 100)]

(* An order line: the price that is valid now, at the rate of the day; the *)
(* discount only on products of the promotion.                             *)
Line(p, qty, placed, promo) ==
  LET cents == PriceAt(Catalog[p].prices, placed).cents
      unit  == Rounded(cents * Rate(RateAt(Fx(first, Days), DayOf(placed))), 100)
      pct   == IF promo # 0 /\ p \in Promotions[promo].set THEN Promotions[promo].pct ELSE 0
  IN [product |-> p, qty |-> qty, unit |-> unit, disc |-> Rounded(qty * unit * pct, 100)]

SumOf(amounts) == Total(amounts, DOMAIN amounts)

(* Line drafts with a product twice are merged: the second is dropped.     *)
Drafts == UNION {{s \in [1..n -> Product \X Quantities] : IsInjective([i \in 1..n |-> s[i][1]])}
                 : n \in 1..MaxLines}

(* Who orders what, and the money.                                         *)
PlaceOrder ==
  /\ BuiltCustomers /\ HasDemand(day) /\ count < MaxOrders /\ order = NoOrder
  /\ \E placed \in {t \in {Midnight(day), Midnight(day) + 1} : t >= clock} :
     \E c \in PickedCustomers(day, placed),
        promo \in {0} \cup ActivePromotions(Promotions, Midnight(day)),
        draft \in {s \in Drafts : \A i \in DOMAIN s : s[i][1] \in PickedProducts(placed)} :
       LET lines    == [i \in DOMAIN draft |-> Line(draft[i][1], draft[i][2], placed, promo)]
           discount == SumOf([i \in DOMAIN lines |-> lines[i].disc])
           net      == SumOf([i \in DOMAIN lines |-> lines[i].qty * lines[i].unit]) - discount
       IN /\ order' = [customer |-> c, address |-> customers[c].address, placed |-> placed,
                       promo |-> IF discount = 0 THEN 0 ELSE promo, lines |-> lines,
                       total |-> net + Rounded(net * TaxPct, 100), status |-> "none",
                       updated |-> placed, payments |-> <<>>, shipment |-> NoShipment]
          /\ clock' = placed
  /\ count' = count + 1
  /\ UNCHANGED <<first, customers, firstCust, day, line, return, reviewed>>

(* How far the order got before the end of the history.                    *)
Reached_Inclusive(t) == t <= End
Reached(t) == t < End
StatusAt(cancelled, paid, shipped, delivered) ==
  IF cancelled                THEN "cancelled"
  ELSE IF ~Reached(paid)      THEN "pending"
  ELSE IF ~Reached(shipped)   THEN "paid"
  ELSE IF ~Reached(delivered) THEN "shipped"
  ELSE "delivered"

(* The payments of an order: a failed attempt may come before the capture. *)
Payments(status, placed, paid) ==
  CASE status = "pending"   -> {<<[status |-> "authorized", at |-> placed]>>}
    [] status = "cancelled" -> {<<[status |-> s, at |-> placed]>> : s \in {"refunded", "failed"}}
    [] OTHER -> {<<[status |-> "captured", at |-> paid]>>,
                 <<[status |-> "failed", at |-> placed], [status |-> "captured", at |-> paid]>>}

Shipment(status, shipped, delivered) ==
  CASE status = "paid"      -> [status |-> "preparing", shipped |-> Nothing, delivered |-> Nothing]
    [] status = "shipped"   -> [status |-> "in_transit", shipped |-> shipped, delivered |-> Nothing]
    [] status = "delivered" -> [status |-> "delivered", shipped |-> shipped, delivered |-> delivered]
    [] OTHER                -> NoShipment

WriteOrder ==
  /\ order # NoOrder /\ order.status = "none"
  /\ \E cancelled \in BOOLEAN, a \in PayDelays, b \in ShipDelays, e \in TransitDelays :
       LET paid      == order.placed + a
           shipped   == paid + b
           delivered == shipped + e
           status    == StatusAt(cancelled, paid, shipped, delivered)
           updated   == CASE status = "cancelled" -> order.placed + b
                          [] status = "pending"   -> order.placed
                          [] status = "paid"      -> paid
                          [] status = "shipped"   -> shipped
                          [] OTHER                -> delivered
       IN \E payments \in Payments(status, order.placed, paid) :
            order' = [order EXCEPT !.status = status,
                                   !.updated = IF updated > End THEN End - 1 ELSE updated,
                                   !.payments = payments,
                                   !.shipment = Shipment(status, shipped, delivered)]
  /\ line' = 1
  /\ UNCHANGED <<first, customers, firstCust, day, clock, count, return, reviewed>>

(* The rest is for orders that were delivered, line by line: first the     *)
(* returns, then the reviews.                                              *)
Delivered == order # NoOrder /\ order.status = "delivered"

(* A line is returned at most once, after the delivery and before the end; *)
(* a recent return is still open.  The refund is the price of the units    *)
(* less their share of the discount.                                       *)
Refund_NoShare(l, qty) == qty * l.unit - l.disc
Refund(l, qty) == qty * l.unit - (l.disc * qty) \div l.qty

Decisions(at) == IF End - at <= Recent THEN {"requested"} ELSE {"refunded", "approved", "rejected"}

ReturnLine ==
  /\ Delivered /\ line \in DOMAIN order.lines
  /\ LET l == order.lines[line]
     IN return' \in {NoReturn} \cup
          UNION {{[qty |-> q, status |-> st, at |-> at,
                   refund |-> IF st \in {"refunded", "approved"} THEN Refund(l, q) ELSE 0]
                  : q \in 1..l.qty, st \in Decisions(at)}
                 : at \in {t \in {order.shipment.delivered + w : w \in LaterDelays} : Reached(t)}}
  /\ line' = line + 1
  /\ UNCHANGED <<first, customers, firstCust, day, clock, count, order, reviewed>>

(* A customer reviews a product once, whatever it orders again.            *)
NotReviewed_Always(p, c) == TRUE
NotReviewed(p, c) == reviewed[<<p, c>>] = 0

ReviewLine ==
  /\ Delivered /\ line > Len(order.lines) /\ line <= 2 * Len(order.lines)
  /\ LET k == <<order.lines[line - Len(order.lines)].product, order.customer>>
     IN \/ UNCHANGED reviewed
        \/ /\ NotReviewed(k[1], k[2])
           /\ \E w \in LaterDelays : Reached(order.shipment.delivered + w)
           /\ reviewed' = [reviewed EXCEPT ![k] = @ + 1]
  /\ line' = line + 1 /\ return' = NoReturn
  /\ UNCHANGED <<first, customers, firstCust, day, clock, count, order>>

OrderDone ==
  /\ order # NoOrder /\ order.status # "none"
  /\ Delivered => line > 2 * Len(order.lines)
  /\ order' = NoOrder /\ line' = 0 /\ return' = NoReturn
  /\ UNCHANGED <<first, customers, firstCust, day, clock, count, reviewed>>

OrdersNext == \/ SignUp \/ NextSignUpDay \/ NextOrderDay
        \/ PlaceOrder \/ WriteOrder \/ ReturnLine \/ ReviewLine \/ OrderDone

OrdersSpec == OrdersInit /\ [][OrdersNext]_ordersVars

-----------------------------------------------------------------------------
(* Properties.                                                             *)

Ordered == order # NoOrder
Written == Ordered /\ order.status # "none"

(* The index of sign-up days cuts the customers exactly by day, and the    *)
(* address ids of the customers follow each other: the iterator that       *)
(* writes the addresses uses each id once.                                 *)
CustomersAreIndexed ==
  /\ \A d \in 0..(Days - 1) : BuiltCustomers =>
       {c \in DOMAIN customers : DayOf(customers[c].created) = d} = FirstOf(d)..(FirstOf(d + 1) - 1)
  /\ \A c \in DOMAIN customers :
       customers[c].address = 1 + SumOf([k \in 1..(c - 1) |-> customers[k].addresses])

(* What a seeded line cost is what the warehouse will join it with: the    *)
(* price version valid when the order was placed, and the rate of the last *)
(* business day on or before it (an ASOF join).                            *)
AsOf(day0) == Max({d \in 0..(Lead + day0) : BusinessDay(first, d)})
LinesJoinTheirVersion ==
  Ordered => \A i \in DOMAIN order.lines :
    LET l == order.lines[i]
        valid == {r \in PriceRows(Catalog[l.product].prices) : ValidAt(r, order.placed)}
    IN /\ Cardinality(valid) = 1
       /\ \A r \in valid : l.unit = Rounded(r.cents * Rate(AsOf(DayOf(order.placed))), 100)

(* A code on an order is a code that was active and discounted something,  *)
(* and only its products are discounted.                                   *)
PromotionsApply ==
  Ordered =>
    /\ order.promo = 0 <=> \A i \in DOMAIN order.lines : order.lines[i].disc = 0
    /\ order.promo # 0 => ValidAt([from |-> Promotions[order.promo].starts,
                                   to |-> Promotions[order.promo].ends], order.placed)
    /\ \A i \in DOMAIN order.lines : order.lines[i].disc > 0 =>
         order.lines[i].product \in Promotions[order.promo].set

(* Status, payments, parcel, returns and dates of an order tell one story, *)
(* nothing but a payment attempt is dated after the end of the history,    *)
(* and the store's handlers find what they rely on: a paid or pending      *)
(* order has a payment to refund and no parcel that left.                  *)
OrderTellsOneStory ==
  Written =>
    LET s == order.shipment
    IN /\ order.status \in {"shipped", "delivered"} <=> s.shipped # Nothing
       /\ s.shipped # Nothing => order.placed < s.shipped /\ s.shipped < End
       /\ order.status = "delivered" <=> s.delivered # Nothing
       /\ s.delivered # Nothing => s.shipped <= s.delivered /\ s.delivered < End
       /\ order.placed <= order.updated /\ order.updated <= End
       /\ (\E i \in DOMAIN order.payments : order.payments[i].status \in {"authorized", "captured"})
            <=> order.status # "cancelled"
       /\ return # NoReturn => s.delivered < return.at /\ return.at < End

(* The store returns the units that are left one by one, each with its     *)
(* share of the discount rounded down: over a whole line a customer gets   *)
(* back what was paid, or at most a cent per unit more.                    *)
StoreRefund(l) == l.unit - l.disc \div l.qty
RefundsAreFair ==
  return.status \in {"refunded", "approved"} =>
    LET l   == order.lines[line - 1]
        all == return.refund + (l.qty - return.qty) * StoreRefund(l)
        net == l.qty * l.unit - l.disc
    IN net <= all /\ all < net + l.qty

(* A customer never has two reviews of a product, whatever it orders       *)
(* again (the unique index reviews_one_per_customer).                      *)
OneReviewEach == \A k \in DOMAIN reviewed : reviewed[k] <= 1

(* Together: the rows of the seeded store agree with each other, and who   *)
(* orders had signed up before.                                            *)
SeededRowsAgree ==
  /\ CustomersAreIndexed /\ OrderTellsOneStory /\ OneReviewEach
  /\ Ordered => customers[order.customer].created < order.placed

-----------------------------------------------------------------------------
(* What the properties rest on.                                            *)

Customer  == [created : Nat, address : Nat, addresses : AddressCounts]
OrderLine == [product : Product, qty : Quantities, unit : Nat, disc : Nat]
Payment   == [status : {"authorized", "captured", "failed", "refunded"}, at : Int]
Parcel    == [status : {"none", "preparing", "in_transit", "delivered"}, shipped : Int, delivered : Int]
Order ==
  [customer : Nat, address : Nat, placed : 0..(End - 1), promo : {0} \cup DOMAIN Promotions,
   lines : Seq(OrderLine), total : Int,
   status : {"none", "cancelled", "pending", "paid", "shipped", "delivered"},
   updated : Int, payments : Seq(Payment), shipment : Parcel]
Return == [qty : Nat, status : {"none", "requested", "refunded", "approved", "rejected"},
           refund : Int, at : Int]

OrdersTypeOK ==
  /\ first \in FirstWeekdays /\ customers \in Seq(Customer) /\ firstCust \in Seq(Nat)
  /\ day \in 0..(Days - 1) /\ clock \in Nat /\ count \in Nat /\ line \in Nat
  /\ Ordered => order \in Order /\ order.customer \in DOMAIN customers
  /\ return \in Return /\ reviewed \in [Product \X (1..MaxCustomers) -> Nat]

(* The first customer of a day is the first who did not sign up before it. *)
IndexCutsByDay ==
  /\ Len(firstCust) <= Days + 1
  /\ \A c \in DOMAIN customers : customers[c].created < Midnight(Len(firstCust))
  /\ \A e \in DOMAIN firstCust :
       /\ firstCust[e] \in 1..(Len(customers) + 1)
       /\ \A c \in DOMAIN customers : c < firstCust[e] <=> customers[c].created < Midnight(e - 1)

(* Only a delivered order has a return, of units of the line before.       *)
ReturnIsOfLine ==
  return # NoReturn =>
    /\ Delivered /\ line - 1 \in DOMAIN order.lines
    /\ return.qty \in 1..order.lines[line - 1].qty
    /\ return.status \in {"refunded", "approved"} =>
         return.refund = Refund(order.lines[line - 1], return.qty)

(* Together: the inductive invariant of the generator.                     *)
OrdersInv ==
  OrdersTypeOK /\ IndexCutsByDay /\ ReturnIsOfLine
  /\ SeededRowsAgree /\ LinesJoinTheirVersion /\ PromotionsApply
=============================================================================
