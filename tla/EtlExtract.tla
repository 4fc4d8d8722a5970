----------------------------- MODULE EtlExtract -----------------------------
(***************************************************************************)
(* What a build of the .NET program reads while the store goes on:         *)
(* Etl/WarehouseBuilder.cs with etl/01_extract.sql (full) and              *)
(* etl/incremental/incremental.sql (incremental).                          *)
(*                                                                         *)
(* Every statement of a run sees PostgreSQL as of its own moment, so an    *)
(* order can be placed or move on between two of them, and a transaction   *)
(* that took its id or its now() early can commit late.  A run is kept     *)
(* whole by the watermark, by the order in which it reads the tables and   *)
(* by looking back a little further than the last run's clock.             *)
(*                                                                         *)
(* Lock, files and swap are those of EtlBuild: here one run at a time      *)
(* replaces the warehouse or leaves it.  What a table says of an order is  *)
(* abstracted to the order and the status it had when the table was read   *)
(* (of a cancelled order, say, that it has no shipments).                  *)
(***************************************************************************)
EXTENDS Integers, FiniteSetsExt

CONSTANTS
  Session,    \* connections of the store that can be in a transaction
  Order,      \* order ids, 1 to some bound
  Seed,       \* status of each order that is there from the start
  MaxTx,      \* bound: how many transactions the store begins
  MaxTime,    \* bound: the last tick of PostgreSQL's clock
  Overlap     \* how far an incremental run looks back (5 minutes)

Status == {"pending", "paid", "shipped", "delivered", "cancelled"}

ASSUME ExtractAssumption ==
  /\ IsFiniteSet(Order) /\ Order = 1..Cardinality(Order)
  /\ \E n \in 0..Cardinality(Order) : Seed \in [1..n -> Status]
  /\ MaxTx \in Nat /\ MaxTime \in Nat
  /\ Overlap \in Nat \ {0}

VARIABLES
  now,      \* PostgreSQL's clock
  orders,   \* the committed orders: status and updated_at
  returns,  \* the committed returns: id and order
  ids,      \* the last ids the sequences gave out, and the transactions so far
  tx,       \* the open transaction of each session
  dw,       \* the current warehouse
  run       \* the run at work

vars == <<now, orders, returns, ids, tx, dw, run>>

-----------------------------------------------------------------------------
(* The store.                                                              *)

Time == (-Overlap)..MaxTime

OrderRow  == [status : Status \cup {"none"}, updated : Time]
ReturnRow == [id : 1..MaxTx, order : Order]
Tx == [kind : {"none", "order", "return"}, order : Order \cup {0},
       status : Status \cup {"none"}, ret : 0..MaxTx, began : Time]

NoTx == [kind |-> "none", order |-> 0, status |-> "none", ret |-> 0, began |-> 0]

Committed == {o \in Order : orders[o].status # "none"}
Locked(o) == \E s \in Session : tx[s].kind # "none" /\ tx[s].order = o

(* What the buttons of an order page do to its status.                     *)
Moves == {<<"paid", "shipped">>, <<"shipped", "delivered">>,
          <<"paid", "cancelled">>, <<"pending", "cancelled">>}

(* A transaction has just taken its id or its row lock.  It began, and its *)
(* now() is from, some time before: it may have waited for the lock.  No   *)
(* transaction lasts as long as Overlap.                                   *)
Opens(s, kind, o, status, ret) ==
  /\ tx[s].kind = "none" /\ ids.tx < MaxTx
  /\ \E began \in (now - Overlap + 1)..now :
       tx' = [tx EXCEPT ![s] = [kind |-> kind, order |-> o, status |-> status,
                                ret |-> ret, began |-> began]]
  /\ UNCHANGED <<now, orders, returns, dw, run>>

Place(s) ==
  /\ ids.order + 1 \in Order
  /\ ids' = [ids EXCEPT !.order = @ + 1, !.tx = @ + 1]
  /\ Opens(s, "order", ids'.order, "paid", 0)

Change(s, o) ==
  /\ o \in Committed /\ ~Locked(o)
  /\ \E status \in Status : /\ <<orders[o].status, status>> \in Moves
                            /\ Opens(s, "order", o, status, 0)
  /\ ids' = [ids EXCEPT !.tx = @ + 1]

(* A return inserts its row; the order's row is locked, not changed.       *)
Return(s, o) ==
  /\ orders[o].status = "delivered" /\ ~Locked(o)
  /\ ids' = [ids EXCEPT !.return = @ + 1, !.tx = @ + 1]
  /\ Opens(s, "return", o, "none", ids'.return)

Commit(s) ==
  /\ tx[s].kind # "none"
  /\ IF tx[s].kind = "order"
     THEN /\ orders' = [orders EXCEPT ![tx[s].order] =
                                        [status |-> tx[s].status, updated |-> tx[s].began]]
          /\ UNCHANGED returns
     ELSE /\ returns' = returns \cup {[id |-> tx[s].ret, order |-> tx[s].order]}
          /\ UNCHANGED orders
  /\ tx' = [tx EXCEPT ![s] = NoTx]
  /\ UNCHANGED <<now, ids, dw, run>>

(* The ids it took are not given out again.                                *)
Rollback(s) ==
  /\ tx[s].kind # "none"
  /\ tx' = [tx EXCEPT ![s] = NoTx]
  /\ UNCHANGED <<now, orders, returns, ids, dw, run>>

Tick ==
  /\ now < MaxTime
  /\ \A s \in Session : tx[s].kind # "none" => now + 1 < tx[s].began + Overlap
  /\ now' = now + 1
  /\ UNCHANGED <<orders, returns, ids, tx, dw, run>>

-----------------------------------------------------------------------------
(* A run.                                                                  *)

(* The statements that read rows of orders, one after another.             *)
After_OrdersLast ==
  [first |-> "order_items", order_items |-> "payments", payments |-> "shipments",
   shipments |-> "orders", orders |-> "returns", returns |-> "finish"]
After ==
  [first |-> "orders", orders |-> "order_items", order_items |-> "payments",
   payments |-> "shipments", shipments |-> "returns", returns |-> "finish"]

Table == {"orders", "order_items", "payments", "shipments"}
Row   == [order : Order, status : Status]
Empty == [t \in Table |-> {}]

(* there: some run has ended well; upTo and extracted: dw.etl_info.        *)
Warehouse == [there : BOOLEAN, upTo : Nat, extracted : Time,
              raw : [Table -> SUBSET Row], returns : SUBSET ReturnRow]

(* changed: the temporary table changed_orders; raw and returns: what the  *)
(* run has read so far; seen and due, history: the orders and returns that *)
(* were committed when it read the clock.                                  *)
Run == [step : {"idle", "watermark", "changed", "returns", "finish"} \cup Table,
        full : BOOLEAN, extracted : Time, upTo : Nat, changed : SUBSET Order,
        raw : [Table -> SUBSET Row], returns : SUBSET ReturnRow,
        seen : SUBSET Row, due : SUBSET ReturnRow]

NoRun == [step |-> "idle", full |-> TRUE, extracted |-> 0, upTo |-> 0, changed |-> {},
          raw |-> Empty, returns |-> {}, seen |-> {}, due |-> {}]

(* Every variable has its type.                                            *)
TypeOK ==
  /\ now \in 0..MaxTime
  /\ orders \in [Order -> OrderRow]
  /\ returns \subseteq ReturnRow
  /\ ids \in [order : Order \cup {0}, return : 0..MaxTx, tx : 0..MaxTx]
  /\ tx \in [Session -> Tx]
  /\ dw \in Warehouse
  /\ run \in Run

Init ==
  /\ now = 0
  /\ orders = [o \in Order |-> [status |-> IF o \in DOMAIN Seed THEN Seed[o] ELSE "none",
                                updated |-> -Overlap]]
  /\ returns = {}
  /\ ids = [order |-> Cardinality(DOMAIN Seed), return |-> 0, tx |-> 0]
  /\ tx = [s \in Session |-> NoTx]
  /\ dw = [there |-> FALSE, upTo |-> 0, extracted |-> 0, raw |-> Empty, returns |-> {}]
  /\ run = NoRun

RowsOf(ids_) == {[order |-> o, status |-> orders[o].status] : o \in Committed \cap ids_}

(* The build is asked for, an incremental one if there is a warehouse, and *)
(* reads PostgreSQL's clock before the watermark.                          *)
Start(full) ==
  /\ run.step = "idle"
  /\ full \/ dw.there
  /\ run' = [NoRun EXCEPT !.step = "watermark", !.full = full, !.extracted = now,
                          !.seen = RowsOf(Order), !.due = returns]
  /\ UNCHANGED <<now, orders, returns, ids, tx, dw>>

(* coalesce(max(id), 0) of the orders.                                     *)
ReadWatermark ==
  /\ run.step = "watermark"
  /\ \E max \in Committed \cup {0} :
       /\ \A o \in Committed : o <= max
       /\ run' = [run EXCEPT !.step = IF run.full THEN After.first ELSE "changed", !.upTo = max]
  /\ UNCHANGED <<now, orders, returns, ids, tx, dw>>

Since_NoOverlap == dw.extracted
Since == dw.extracted - Overlap

MaxReturnId == Max({r.id : r \in dw.returns} \cup {0})

FindChanged ==
  /\ run.step = "changed"
  /\ run' = [run EXCEPT
       !.step = After.first,
       !.changed = {o \in Committed : \/ dw.upTo < o /\ o <= run.upTo
                                      \/ o <= dw.upTo /\ orders[o].updated > Since}
                   \cup {r.order : r \in {x \in returns : x.id > MaxReturnId /\ x.order <= run.upTo}}]
  /\ UNCHANGED <<now, orders, returns, ids, tx, dw>>

(* The orders a statement asks for: up to the watermark, or the new ones   *)
(* and those of OLD_CHANGED_IDS.                                           *)
Asked_NoWatermark == {o \in Order : run.full \/ dw.upTo < o \/ o \in run.changed}
Asked == {o \in Order : \/ o <= run.upTo /\ (run.full \/ dw.upTo < o)
                        \/ ~run.full /\ o <= dw.upTo /\ o \in run.changed}

ReadTable(t) ==
  /\ run.step = t
  /\ run' = [run EXCEPT !.step = After[t], !.raw[t] = RowsOf(Asked)]
  /\ UNCHANGED <<now, orders, returns, ids, tx, dw>>

ReadReturns ==
  /\ run.step = "returns"
  /\ run' = [run EXCEPT !.step = After.returns, !.returns = {r \in returns : r.order \in Asked}]
  /\ UNCHANGED <<now, orders, returns, ids, tx, dw>>

(* What an incremental run keeps of a table: all but the changed orders.   *)
Kept_All(rows) == rows
Kept(rows) == {r \in rows : r.order \notin run.changed}

Finish ==
  /\ run.step = "finish"
  /\ dw' = [there |-> TRUE, upTo |-> run.upTo, extracted |-> run.extracted,
            raw |-> [t \in Table |-> IF run.full THEN run.raw[t]
                                     ELSE Kept(dw.raw[t]) \cup run.raw[t]],
            returns |-> IF run.full THEN run.returns ELSE Kept(dw.returns) \cup run.returns]
  /\ run' = NoRun
  /\ UNCHANGED <<now, orders, returns, ids, tx>>

(* A run that fails leaves the warehouse as it is (EtlBuild).              *)
Abort ==
  /\ run.step # "idle"
  /\ run' = NoRun
  /\ UNCHANGED <<now, orders, returns, ids, tx, dw>>

RunStep == ReadWatermark \/ FindChanged \/ ReadReturns \/ Finish
           \/ \E t \in Table : ReadTable(t)

Next ==
  \/ \E s \in Session : \/ Place(s) \/ Commit(s) \/ Rollback(s)
                        \/ \E o \in Order : Change(s, o) \/ Return(s, o)
  \/ Tick
  \/ \E full \in BOOLEAN : Start(full)
  \/ RunStep \/ Abort

Spec == Init /\ [][Next]_vars

-----------------------------------------------------------------------------
(* Properties.                                                             *)

Newer == Moves \cup {<<"paid", "delivered">>}
AtLeast(a, b) == a = b \/ <<b, a>> \in Newer

(* "A change committed while the last run was reading is not lost": what a *)
(* run leaves behind has every order that was committed when it read the   *)
(* clock, at least as far on, although an incremental run reads only what  *)
(* it takes for changed, and whatever the runs before it met.              *)
NoOrderMissed ==
  [][Finish =>
       \A r \in run.seen : \E x \in dw'.raw["orders"] :
         x.order = r.order /\ AtLeast(x.status, r.status)]_vars

(* The same for returns.                                                   *)
NoReturnMissed ==
  [][Finish => run.due \subseteq dw'.returns]_vars

(* The facts never have half of an order: an order that is in the          *)
(* warehouse has its lines, payment and parcels there too, read no earlier *)
(* than the order itself (the watermark and the order of the statements).  *)
OrdersAreWhole ==
  \A r \in dw.raw["orders"], t \in Table :
    \E x \in dw.raw[t] : x.order = r.order /\ AtLeast(x.status, r.status)

(* Handling an order twice gives the same result: no run leaves two        *)
(* versions of an order in one table (delete and insert).                  *)
OneVersion ==
  \A t \in Table : \A a, b \in dw.raw[t] : a.order = b.order => a = b

-----------------------------------------------------------------------------
(* Why it works: an inductive invariant.                                   *)

(* A transaction holds its order alone, moves it by one button, and is     *)
(* shorter than the overlap.                                               *)
OpenTx ==
  \A s \in Session : tx[s].kind # "none" =>
    /\ tx[s].order \in Order
    /\ tx[s].kind = "return" => tx[s].ret # 0
    /\ tx[s].kind = "order" =>
         /\ tx[s].status # "none"
         /\ tx[s].order \in Committed => <<orders[tx[s].order].status, tx[s].status>> \in Moves
    /\ now < tx[s].began + Overlap
    /\ \A x \in Session : x # s /\ tx[x].kind # "none" => tx[x].order # tx[s].order

IdsGivenOut ==
  /\ ids.return <= ids.tx
  /\ \A o \in Committed : o <= ids.order
  /\ \A s \in Session : tx[s].order <= ids.order

(* Whatever was read was so, and the order has only moved on since.        *)
WasSo(rows) == \A r \in rows : r.order \in Committed /\ AtLeast(orders[r.order].status, r.status)

RowsWereSo == /\ \A t \in Table : WasSo(dw.raw[t]) /\ WasSo(run.raw[t])
              /\ WasSo(run.seen)

(* Orders placed while a run is at work wait for the next one, whatever    *)
(* each statement of the run could see of them.                            *)
UpToWatermark ==
  /\ dw.upTo \in Committed \cup {0}
  /\ \A t \in Table : \A r \in dw.raw[t] : r.order <= dw.upTo

(* rows has order o as it is now; or its last change, or one under way,    *)
(* comes later than what a run that looks back from time sees as old.      *)
UpToDate(o, rows, time) == \/ [order |-> o, status |-> orders[o].status] \in rows
                           \/ orders[o].updated > time - Overlap
TxAfter(time) == \A s \in Session : tx[s].kind # "none" => tx[s].began > time - Overlap

(* An order the warehouse has missed or has an old row of is one the next  *)
(* incremental run will take for changed.                                  *)
LoadedOrPending ==
  dw.there =>
    /\ dw.extracted <= now /\ TxAfter(dw.extracted)
    /\ \A o \in Committed : o <= dw.upTo => UpToDate(o, dw.raw["orders"], dw.extracted)

(* rows has every row of seen, at least as far on.                         *)
Covers(rows, seen) ==
  \A r \in seen : \E x \in rows : x.order = r.order /\ AtLeast(x.status, r.status)

(* The run so far.  Chosen: it has fixed what to read; Done: the tables it *)
(* has read.                                                               *)
Done == [orders |-> {}, order_items |-> {"orders"}, payments |-> {"orders", "order_items"},
         shipments |-> {"orders", "order_items", "payments"}, returns |-> Table, finish |-> Table]
Chosen == DOMAIN Done

RunStarted == run.step # "idle" =>
  /\ run.extracted <= now /\ TxAfter(run.extracted)
  /\ ~run.full => dw.there

RunWatermark == run.step \in Chosen \cup {"changed"} =>
  /\ \A r \in run.seen : r.order <= run.upTo
  /\ run.upTo \in Committed \cup {0} /\ dw.upTo <= run.upTo

(* What it will not read again is in the warehouse already.                *)
OldIsLoaded == run.step \in Chosen /\ ~run.full =>
  /\ \A o \in Committed : o <= dw.upTo /\ o \notin run.changed =>
       UpToDate(o, dw.raw["orders"], run.extracted)
  /\ Covers(dw.raw["orders"], {r \in run.seen : r.order <= dw.upTo /\ r.order \notin run.changed})

(* What it has read.                                                       *)
NothingRead == run.step \notin Chosen => run.raw = Empty

AskedIsRead == run.step \in Chosen =>
  /\ \A t \in Table : \A a, b \in run.raw[t] : a.order \in Asked /\ (a.order = b.order => a = b)
  /\ \A t \in Done[run.step] : Covers(run.raw[t], run.raw["orders"])
  /\ run.step # "orders" =>
       /\ \A o \in Committed \cap Asked : UpToDate(o, run.raw["orders"], run.extracted)
       /\ Covers(run.raw["orders"], {r \in run.seen : r.order \in Asked})

IInv == /\ TypeOK /\ OpenTx /\ IdsGivenOut /\ RowsWereSo /\ UpToWatermark /\ LoadedOrPending
        /\ RunStarted /\ RunWatermark /\ OldIsLoaded /\ NothingRead /\ AskedIsRead
        /\ OrdersAreWhole /\ OneVersion
=============================================================================
