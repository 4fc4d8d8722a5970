---------------------------- MODULE PriceHistory ----------------------------
(***************************************************************************)
(* The price of one product: the rows of product_prices (one per version,  *)
(* valid_to is NULL in the current one) and products.price_usd, as         *)
(* changed by the Go store (changePrice, one UPDATE that finds the open    *)
(* version) and by the .NET store (ProductService, which reads the open    *)
(* version without a lock and saves it later), bought by checkouts, and    *)
(* extracted by the ETL table by table.                                    *)
(*                                                                         *)
(* A price change is one database transaction.  Its row locks and the      *)
(* unique indexes make whoever comes second wait for the first to end, so  *)
(* from the lock it waits for to COMMIT it is one step; what it read       *)
(* before that is a step of its own.  Time is now() of the database and of *)
(* the .NET process, on one clock; two transactions may have the same.     *)
(*                                                                         *)
(* An operator named X_Y is X with the mistake Y in it and is used nowhere *)
(* else.                                                                   *)
(***************************************************************************)
EXTENDS Integers, FiniteSets

CONSTANTS
  GoSession,   \* price changes of the Go store
  NetSession,  \* requests of the .NET product service
  Buyer,       \* checkouts, each places one order
  Price,       \* prices a form can send (positive amounts)
  None,        \* no price
  MaxTime      \* bound: last instant of the clock

ASSUME PriceHistoryAssumption ==
  /\ None \notin Price
  /\ MaxTime \in Nat
  /\ GoSession \cap NetSession = {}
  /\ IsFiniteSet(Buyer)

VARIABLES
  clock,     \* the time
  versions,  \* rows of product_prices
  price,     \* products.price_usd, None while the product does not exist
  created,   \* the product was created (its id is never used again)
  tx,        \* the transaction of each session
  buy,       \* each checkout: its order line
  raw        \* what the ETL has extracted

vars == <<clock, versions, price, created, tx, buy, raw>>

Session == GoSession \cup NetSession
Time == 0..MaxTime
Open == MaxTime + 1     \* no valid_to; the ETL writes 9999-12-31
Version == [from : Time, to : 1..Open, price : Price]
Live == price # None

NoTx == [phase |-> "idle", at |-> 0, price |-> None, target |-> {}]
NoOrder == [phase |-> "idle", placed |-> 0, price |-> None, id |-> 0]
NoRaw == [phase |-> "idle", max |-> 0, live |-> FALSE, versions |-> {}, orders |-> {}]

(* Every variable has its type; a transaction has at most one version in   *)
(* hand.                                                                   *)
TypeOK ==
  /\ clock \in Time
  /\ versions \subseteq Version
  /\ price \in Price \cup {None}
  /\ created \in BOOLEAN
  /\ tx \in [Session -> [phase  : {"idle", "close", "read", "save", "delete"},
                         at     : Time,
                         price  : Price \cup {None},
                         target : SUBSET Version]]
  /\ buy \in [Buyer -> [phase  : {"idle", "priced", "inserted", "placed"},
                        placed : Time,
                        price  : Price \cup {None},
                        id     : 0..Cardinality(Buyer)]]
  /\ raw \in [phase    : {"idle", "watermark", "products", "prices", "done"},
              max      : 0..Cardinality(Buyer),
              live     : BOOLEAN,
              versions : SUBSET Version,
              orders   : SUBSET Buyer]

Init ==
  /\ clock = 0 /\ versions = {} /\ price = None /\ created = FALSE
  /\ tx = [s \in Session |-> NoTx]
  /\ buy = [b \in Buyer |-> NoOrder]
  /\ raw = NoRaw

-----------------------------------------------------------------------------
(* The constraints of product_prices that a price change at time t, which  *)
(* closes v and inserts a new open version, has to pass: CHECK (valid_to > *)
(* valid_from), the unique index of open versions, and the primary key.    *)

OpenVersions(S) == {v \in S : v.to = Open}

ValidRange_NoCheck(v, t) == TRUE
ValidRange(v, t) == v.from < t

OneCurrent_NoIndex(v) == TRUE
OneCurrent(v) == OpenVersions(versions) \subseteq {v}

NewKey(t) == \A v \in versions : v.from # t

InPhase(s, phase) == tx[s].phase = phase

(* A statement fails, the client leaves or the connection is lost; a       *)
(* violated constraint ends the same way.                                  *)
Rollback(s) ==
  /\ ~InPhase(s, "idle")
  /\ tx' = [tx EXCEPT ![s] = NoTx]
  /\ UNCHANGED <<clock, versions, price, created, buy, raw>>

(* v is closed at the transaction's time, a version of its price is opened *)
(* and the price goes to the product; one COMMIT.                          *)
Reprice(s, v, p) ==
  LET t == tx[s].at
  IN /\ ValidRange(v, t) /\ OneCurrent(v) /\ NewKey(t)
     /\ versions' = (versions \ {v}) \cup {[v EXCEPT !.to = t],
                                          [from |-> t, to |-> Open, price |-> p]}
     /\ price' = p
     /\ tx' = [tx EXCEPT ![s] = NoTx]
     /\ UNCHANGED <<clock, created, buy, raw>>

Tick == /\ clock < MaxTime
        /\ clock' = clock + 1
        /\ UNCHANGED <<versions, price, created, tx, buy, raw>>

-----------------------------------------------------------------------------
(* The Go store.                                                           *)

(* now() is the time of the BEGIN, some instant before the UPDATE takes its *)
(* snapshot: the open version it will close once it has the row's lock.    *)
GoPick(s) ==
  /\ InPhase(s, "idle")
  /\ \E t \in 0..clock :
       tx' = [tx EXCEPT ![s] = [NoTx EXCEPT !.phase = "close", !.at = t,
                                            !.target = OpenVersions(versions)]]
  /\ UNCHANGED <<clock, versions, price, created, buy, raw>>

(* With the lock the UPDATE looks at the row again: a version closed       *)
(* meanwhile is not updated, no row is affected and the handler answers    *)
(* "not found" (Rollback).                                                 *)
StillOpen(v) == v \in versions

GoClose(s) ==
  /\ InPhase(s, "close")
  /\ \E v \in tx[s].target, p \in Price : StillOpen(v) /\ Reprice(s, v, p)

-----------------------------------------------------------------------------
(* The .NET store.                                                         *)

(* CreateAsync: the product and its first version in one SaveChanges.  The *)
(* time was taken before the INSERT committed.                             *)
NetCreate(s) ==
  /\ ~created /\ InPhase(s, "idle")
  /\ \E t \in 0..clock, p \in Price :
       /\ versions' = {[from |-> t, to |-> Open, price |-> p]}
       /\ price' = p
  /\ created' = TRUE
  /\ UNCHANGED <<clock, tx, buy, raw>>

(* UpdateAsync reads the product; when the form has the price it shows,    *)
(* the history is left alone and nothing of this module changes.           *)
NetRead(s) ==
  /\ InPhase(s, "idle") /\ Live
  /\ \E p \in Price \ {price} :
       tx' = [tx EXCEPT ![s] = [NoTx EXCEPT !.phase = "read", !.at = clock, !.price = p]]
  /\ UNCHANGED <<clock, versions, price, created, buy, raw>>

(* DateTime.UtcNow, then the SELECT of the open version.                   *)
NetReadOpen(s) ==
  /\ InPhase(s, "read")
  /\ \E t \in tx[s].at..clock :
       tx' = [tx EXCEPT ![s].phase = "save", ![s].at = t, ![s].target = OpenVersions(versions)]
  /\ UNCHANGED <<clock, versions, price, created, buy, raw>>

(* SaveChanges: the version it read is updated by its primary key, open or *)
(* not, the new one is inserted, and the product is updated; a row that is *)
(* gone is a concurrency error (Rollback).                                 *)
NetSave(s) ==
  /\ InPhase(s, "save")
  /\ \E v \in versions : (\E seen \in tx[s].target : seen.from = v.from) /\ Reprice(s, v, tx[s].price)

(* DeleteAsync: no line of the product may have been sold.                 *)
Sold == {b \in Buyer : buy[b].phase = "placed"}

NetCount(s) ==
  /\ InPhase(s, "idle") /\ Live /\ Sold = {}
  /\ tx' = [tx EXCEPT ![s] = [NoTx EXCEPT !.phase = "delete"]]
  /\ UNCHANGED <<clock, versions, price, created, buy, raw>>

(* The foreign key from order_items stops the DELETE when an order was     *)
(* placed since the count, and makes it wait for one in flight.            *)
NoLineRefers == \A b \in Buyer : buy[b].phase \notin {"inserted", "placed"}

NetDelete(s) ==
  /\ InPhase(s, "delete") /\ Live /\ NoLineRefers
  /\ versions' = {} /\ price' = None
  /\ tx' = [tx EXCEPT ![s] = NoTx]
  /\ UNCHANGED <<clock, created, buy, raw>>

-----------------------------------------------------------------------------
(* A checkout: placed_at is the start of its transaction, the price is     *)
(* read later with the cart lines, the id comes from the sequence.         *)

BuyRead(b) ==
  /\ buy[b].phase = "idle" /\ Live
  /\ \E t \in 0..clock :
       buy' = [buy EXCEPT ![b] = [phase |-> "priced", placed |-> t, price |-> price, id |-> 0]]
  /\ UNCHANGED <<clock, versions, price, created, tx, raw>>

NextId == 1 + Cardinality({b \in Buyer : buy[b].id # 0})

BuyInsert(b) ==
  /\ buy[b].phase = "priced" /\ Live
  /\ buy' = [buy EXCEPT ![b].phase = "inserted", ![b].id = NextId]
  /\ UNCHANGED <<clock, versions, price, created, tx, raw>>

BuyCommit(b) ==
  /\ buy[b].phase = "inserted"
  /\ buy' = [buy EXCEPT ![b].phase = "placed"]
  /\ UNCHANGED <<clock, versions, price, created, tx, raw>>

-----------------------------------------------------------------------------
(* The extract: the watermark, products, product_prices, then orders and   *)
(* their lines up to the watermark; each statement sees what is committed. *)

Extract(from, to, next) == /\ raw.phase = from
                           /\ raw' = [next EXCEPT !.phase = to]
                           /\ UNCHANGED <<clock, versions, price, created, tx, buy>>

MaxId == CHOOSE n \in 0..Cardinality(Buyer) :
           /\ n = 0 \/ \E b \in Sold : buy[b].id = n
           /\ \A b \in Sold : buy[b].id <= n

Watermark_None == Cardinality(Buyer)
Watermark == MaxId

EtlBegin    == Extract("idle", "watermark", [NoRaw EXCEPT !.max = Watermark])
EtlProducts == Extract("watermark", "products", [raw EXCEPT !.live = Live])
EtlPrices   == Extract("products", "prices", [raw EXCEPT !.versions = versions])
EtlOrders   == Extract("prices", "done", [raw EXCEPT !.orders = {b \in Sold : buy[b].id <= raw.max}])

-----------------------------------------------------------------------------
Next ==
  \/ Tick
  \/ \E s \in GoSession : GoPick(s) \/ GoClose(s)
  \/ \E s \in NetSession : \/ NetCreate(s) \/ NetRead(s) \/ NetReadOpen(s) \/ NetSave(s)
                           \/ NetCount(s) \/ NetDelete(s)
  \/ \E s \in Session : Rollback(s)
  \/ \E b \in Buyer : BuyRead(b) \/ BuyInsert(b) \/ BuyCommit(b)
  \/ EtlBegin \/ EtlProducts \/ EtlPrices \/ EtlOrders

Spec == Init /\ [][Next]_vars

-----------------------------------------------------------------------------
(* Properties.                                                             *)

(* Whoever changes prices, and however stale what it read: the history is  *)
(* a log that is only appended to, and the price on the product is its     *)
(* last entry (changePrice, UpdateAsync).                                  *)
Book == INSTANCE PriceBook WITH log     <- {<<v.from, v.price>> : v \in versions},
                                current <- price
ImplementsPriceBook == Book!Spec

(* The versions follow each other without gap or overlap, and the last one *)
(* is open: two price changes, one from each program, never close the same *)
(* version or leave two open.                                              *)
Gapless ==
  /\ \A v, w \in versions : v.from < w.from => v.to <= w.from
  /\ \A v \in versions : v.to # Open => \E w \in versions : w.from = v.to
  /\ Live <=> \E v \in versions : v.to = Open /\ v.price = price

(* A stale price change never rewrites a version that was closed: it would *)
(* move the end of a period whose orders are already in the warehouse.     *)
ClosedStaysClosed ==
  [][Live' => \A v \in versions : v.to # Open => v \in versions']_vars

(* fact_sales: the versions an order line joins with.                      *)
DimProduct == IF raw.live THEN raw.versions ELSE {}
Joined(b) == {v \in DimProduct : v.from <= buy[b].placed /\ buy[b].placed < v.to}
FirstVersion == CHOOSE v \in versions : \A w \in versions : v.from <= w.from

(* An extract that reads prices before orders, while prices change and     *)
(* orders are placed, counts no sale twice, and none is missing that was   *)
(* placed since the product exists.                                        *)
EachSaleJoinsOnce ==
  raw.phase = "done" => \A b \in raw.orders :
    /\ Cardinality(Joined(b)) <= 1
    /\ buy[b].placed >= FirstVersion.from => Joined(b) # {}

(* "Facts join to the version that was valid when the order was placed, so *)
(* a 2024 sale keeps its 2024 list price even after the price changes"     *)
(* (02_dimensions.sql).                                                    *)
JoinsTheVersionSold ==
  raw.phase = "done" => \A b \in raw.orders : \A v \in Joined(b) : v.price = buy[b].price

(* The inductive invariant: a transaction holds versions it once saw open. *)
TargetsWereOpen ==
  \A s \in Session : \A v \in tx[s].target : v.to = Open

(* Whoever inserted a line keeps the product alive, and so do the orders    *)
(* an extract is about to load: it found the product, and its versions     *)
(* begin with the first one.                                               *)
SalesKeepProduct ==
  /\ \A b \in Buyer : buy[b].id # 0 <=> buy[b].phase \in {"inserted", "placed"}
  /\ \A b \in Buyer : buy[b].phase \in {"inserted", "placed"} => Live
  /\ \A b \in raw.orders : b \in Sold /\ buy[b].id <= raw.max
  /\ raw.max > 0 =>
       /\ Sold # {}
       /\ raw.phase \in {"products", "prices", "done"} => raw.live
       /\ raw.phase \in {"prices", "done"} =>
            \A v \in versions : \E w \in raw.versions : w.from <= v.from

(* A set of versions in which each instant after the first has its own.     *)
History(S) ==
  /\ \A v \in S : v.from < v.to
  /\ \A v, w \in S : v.from = w.from => v = w
  /\ \A v, w \in S : v.from < w.from => v.to <= w.from
  /\ \A v \in S, t \in Time : v.from <= t => \E w \in S : w.from <= t /\ t < w.to

IInv == /\ TypeOK /\ Gapless /\ TargetsWereOpen /\ SalesKeepProduct
        /\ History(versions) /\ History(raw.versions)
        /\ Live => created
        /\ Live \/ versions = {}
        /\ \A s \in Session : tx[s].phase \in {"read", "save"} => tx[s].price \in Price
        /\ \A s \in Session : tx[s].at <= clock
        /\ \A v \in versions : v.from <= clock
=============================================================================
