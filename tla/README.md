# DuckStore, specified and checked

DuckStore is a store on PostgreSQL with an analytics warehouse in a DuckDB file
beside it, served by a Go program and, over the same database and the same file,
by a .NET one. This directory holds TLA+ models of the parts that carry state,
concurrency or an algorithm that is easy to get wrong, the TLC runs that check
them, and the TLAPS proofs about them. `PROJECT.json` links every definition to
the lines it models, every property to the hazard it guards, and every property
to a plausible bug (a *mutant*) that breaks it.

## 1. Inventory

Components, what each keeps, and what makes it correct.

| Component | State | Operations and interactions | Hard behaviour | Correct when | Modelled in |
|---|---|---|---|---|---|
| Cart, checkout, orders (`internal/web/checkout.go`) | `carts`, `cart_items`, `inventory`, `orders` and its children, in PostgreSQL | `cartAdd`, `cartUpdate`, `checkout`/`placeOrder` (eleven statements, one transaction), `orderAction` (ship, deliver, cancel, return) | row locks taken in steps, decisions on values read earlier, rollback at any statement, deadlocks | no unit sold twice, ordered twice or lost; status, payment and parcels tell one story | `Orders`, `OrderBook`, `Checkout` |
| Schema (`internal/pg/schema`) | tables, CHECKs, unique indexes | constrains every writer | which constraint is the last line of defence | constraints never stop a correct transaction | types and guards of `Checkout`, `PriceHistory`, `Seed*` |
| Prices (`internal/web/store.go`, `ProductService.cs`) | `products.price_usd`, `product_prices` | `changePrice`, `CreateAsync`, `UpdateAsync`, `DeleteAsync`, beside checkouts and the ETL | both programs change prices at once; EF reads, then writes; the ETL reads table by table | the history is a log with one open version; every sale joins one version | `PriceBook`, `PriceHistory` |
| ETL build (`internal/warehouse/etl.go`, `WarehouseBuilder.cs`) | `etl.lock`, the warehouse file, `.building` files, the Parquet directory | lock, clean, load, close, rename; reads PostgreSQL | two programs, crashes between any two steps, leftovers | readers find a whole, never older file; a failure changes all or nothing | `EtlBuild`, `PublishedWarehouse` |
| Extraction (`etl/01_extract.sql`, `etl/incremental/incremental.sql`) | `raw.*`, `dw.etl_info` | watermark, table after table, delta, delete and insert | each statement sees another moment; late commits; runs that build on runs | every committed order gets in, whole and once | `EtlExtract` |
| ETL in the background (`internal/web/etl.go`, `EtlService.cs`) | the current or last run of a server | request, task, end, page; calls the build, then the reader's `Reload` | two requests, a command line holding the lock, a restart | the page tells the truth; a good run is fresh; every run ends | `EtlRunner` |
| Go warehouse reader (`internal/warehouse/warehouse.go`) | open database, its file identity, `RWMutex` | `With`, `Reload`, `Watch` | reload under running queries, two reloaders, swap between stat and attach | no query on a closed database, no leak, the latest file in the end | `WarehouseReader` |
| .NET warehouse reader (`DuckDbWarehouse.cs`) | root connection, stamp, gate | `OpenAsync`, `CurrentRoot` | stamp before the gate, dispose while another duplicates | a query runs on the file it found or a newer one | `DuckDbWarehouse` |
| Race page, query log, request wrapper (`internal/web/race.go`, `qlog.go`, `server.go`) | running flag, results, logs kept for the page after a redirect, cookies | `raceRun`, `put`, `take`, flash, recovery of panics; calls `bench.Run` | two tabs, a handler that panics, a log that expires | one race at a time, whole results, each log shown once, the flag comes free | `WebServer` |
| Engine race (`internal/bench`) | tables `bench.*`, a scratch file, counters | variants: reads, single-row and bulk writes, concurrent writers | the web server and `duckstore bench` on the same tables, scratch file and write-ahead log; conflicts counted by goroutines | a measurement counts what was done, where nobody else writes | `EngineRace` |
| SQL splitter (`sqlsplit.go`), console (`console.go`, `query.go`) and `duckstore sql` | none; a connection of the pool | `Split`; statements one by one up to the first error; rows up to a limit | quotes, comments, `$tag$`; settings that stay on a pooled connection | the pieces are statements; the page shows what ran; the pool stays clean | `SqlSplit`, `SqlConsole` |
| Seeder, data (`generator.go`, `orders.go`, `reference.go`) | catalog, price history, rates, promotions, staff, customers | `build*`, `generateOrders`, `emitOrder` | boundary instants, weekends without rates, draws without replacement, the end of the history | the rows agree with each other, with the constraints and with the warehouse's joins | `SeedData`, `SeedStaff`, `SeedCatalog`, `SeedOrders` |
| Seeder, load (`seed.go`, `copy.go`) | channels of batches, a connection pool | generator goroutine, one COPY per table, constraints afterwards | error of one goroutine, signal, crash, second run | constraints only on complete tables; every run ends | `SeedPipeline` |
| .NET load test (`LoadTest.cs`) | counters | its own checkout, open loop | writes beside the store | implements the order book too | no |
| Pages, dashboards, charts, reports, API clients | none between requests | read-only queries and rendering | none of it stateful | | no |
| Star schema exports (`SqlServerLoader.cs`, `StarToPostgres.cs`, `WarehouseComparer.cs`) | target database | sequential copies of a finished file | I/O | | no |
| Commands, lessons, measurements | none | wiring, texts | | | as processes of the modules of what they run |

## 2. Modules

**`Orders`** is the order record and the functions from an order to an order
(`PaidOrder`, `Shipped`, `Delivered`, `UnitReturned`). **`OrderBook`** is what the
store promises: placing, shipping, delivering, returning and cancelling are atomic,
stock included.

**`Checkout`** is the code. A session is a database connection; `tx[s]` is what the
Go function has in its local variables and the phase it is in: `cart` (wants the
cart lock), `lines`, `stock` (locks the rows of its products in
`ORDER BY warehouse_id, product_id`), then `PlaceOrder`, which is statements 5 to 11
and `COMMIT`: they touch only rows it has locked or inserts, so nobody sees a
moment between them. Cancel locks its order, then the stock rows its `UPDATE`
reaches, in any order, because that statement has none. Row locks are variables;
`DeadlockVictim` is PostgreSQL's detector, `Fail` any error or disconnect. Ship,
deliver, return and the cart handlers are short enough to be one action each.

**`PriceBook`** promises a log of prices. **`PriceHistory`** is the versions of one
product under `changePrice` (snapshot and row lock of the `UPDATE`, then the rest)
and `ProductService` (read, later save), with checkouts that read the price and an
ETL run that reads watermark, products, prices and orders one after another.
A version is its start, end and price; transactions take their time (`at`) before they
read.

**`EtlBuild`** follows `Build` and `BuildAsync`, path by path on disk: a builder is
one run of either program. A file is its watermark, whether it was closed, and
whether it records an extraction time. `Fail` and `Crash` come between any two
steps and leave the disk as it is.
**`EtlRunner`** EXTENDS it with the servers that start builds in the background;
command lines build beside them. **`PublishedWarehouse`** is what readers may rely
on, whoever builds: the warehouse is replaced whole by a newer one in one step, the
Parquet files are withdrawn and published again. The refinement maps what is at a path
to the orders a reader finds there: a watermark, nothing, or something broken.

**`EtlExtract`** opens up the step `Load`: what a full and an incremental run of
the .NET program read of the order tables while transactions of the store are
open. `now()` of a transaction is its start, so an order can commit with an
`updated_at` from before a run read the clock. What a table says of an order is the
status the order had when the table was read.

**`WarehouseReader`** is `With`, `Reload` and `Watch` with the two mutexes;
**`DuckDbWarehouse`** is `OpenAsync` and `CurrentRoot` with the gate. Both see a
build as one rename (`Swap`), which is what `ImplementsWarehouse` shows it to be.

**`EngineRace`** is `bench.Run` and what it calls, for any number of callers: the
variants of a scenario, warm-up and timed runs, the tables of each write test, the
loops of single-row writes, the concurrent writers and their conflicts, and the
scratch file with its write-ahead log, both of which a second process removes and creates
anew by name while the first still has them open. A file is there as long as it has a name
or is open (`Files`); an open that finds a log replays it, throws it away or fails
(`OpenScratch`). The tables on Postgres are shared by name, so `disturbed` keeps in mind
whose table another racer has written to. **`WebServer`** EXTENDS it with the requests of one browser
and the wrapper around every handler; the command is one more caller.

**`SqlSplit`** is the splitter, function by function, on sequences of characters,
followed by what it promises, written as a reader that takes one character at a
time. The reader is SQL's and not the splitter's: it nests block comments, as both
engines do, and notes what `Split` does not know (`Beyond`: a comment in a comment, a `$`
in a name). **`SqlConsole`** EXTENDS it: a script is typed key by key, posted, split and
run with any outcome of each statement, on the page or by the command. On DuckDB the page
logs each statement itself; on Postgres a statement is three, `BEGIN READ ONLY`, `SET LOCAL
statement_timeout` and the visitor's, each of which may fail, and the log is what the
pool's tracer saw go to the server.

**`SeedData`** has the algorithms the generator's phases share (`priceAt`, `weighted`,
exchange rates), **`SeedStaff`** the hierarchy and the warehouses.
**`SeedCatalog`** walks the category definitions, one call of `walk` or one return from
it at a time (`up` is the category whose children the innermost call is at, `done` how
many each call has stored), then makes up products, promotions and suppliers;
**`SeedOrders`** customers and orders, day by day; every random number is a choice.
**`SeedPipeline`** is a run of the seeder with its goroutines and channels.

**`Totals`** is a sum over a finite set, for the accounts of `Checkout` and the counters
of `EngineRace`: the number of numbered units, so that it needs no recursion.

`MC*` modules give the constants values. `*Proofs` hold the proofs. Operators
named `Name_Something` before `Name` are the mutants: the same definition with a
plausible bug; no specification uses them.

How they compose: `EtlRunner` EXTENDS `EtlBuild`, `WebServer` EXTENDS `EngineRace`,
`SqlConsole` EXTENDS `SqlSplit`, `SeedCatalog` and `SeedOrders` EXTEND `SeedData`
(`MCSeedCatalog` adds `SeedStaff`, whose staff plan is RECURSIVE); `Checkout`
implements `OrderBook`, `PriceHistory` implements `PriceBook`, `EtlBuild` and
`EtlRunner` implement `PublishedWarehouse`, by INSTANCE.

## 3. Runs

| Run | Instance | States | What it shows |
|---|---|---|---|
| `checkout_core` | 2 sessions, 2 customers with opposite warehouse preferences, 2 warehouses x 2 products of 1 unit, one row missing, the seeder's pending order on that row and 2 new orders | 298,208 | stock, orders, payments and parcels agree, nothing ordered twice, added products never vanish, no cycle of checkouts waits, `Checkout` implements `OrderBook`, every transaction ends |
| `etlrunner` | a server with 2 Go tasks, a .NET command line, 1 order, 2 failures, crashes or restarts | 269,357 | to readers, builds are publications; all or nothing, published in the end; page, freshness, end of every run |
| `etlextract_changes` | 3 orders (1 seeded), 2 sessions, 3 transactions, 2 ticks, overlap 2 | 800,338 (symmetric) | no order missed; whole and once (parts of `IInv`) |
| `etlextract_returns` | 2 delivered orders, 2 returns | violation | see Findings |
| `warehousereader` | watcher, ETL page, 2 queries, 3 databases, 3 swaps | 81,586 | no query on a closed database, no leak, the latest in the end |
| `duckdbwarehouse_root` | 3 queries, 4 instances, 3 swaps | 26,814 (symmetric) | each query on its file or newer |
| `prices` | a price change of each program, 2 checkouts, a run of the ETL, 2 prices, 3 instants | 3,129,965 (symmetric) | the price history is a log; each sale joins one version |
| `seed_catalog` | 2 category trees of 2 and 3 levels, 2 products, 2 price changes, 1 promotion, 2 suppliers, history from day 2 to 4 | 536,512 | tree, history, constraints and staff |
| `seed_orders` | 4 days around a weekend, 2 products, 1 promotion, 2 customers, 2 orders of up to 2 lines | 71,371 | versions, rates, promotions, lifecycle and refunds agree |
| `seed_load` | 2 tables of up to 5 rows, batches of 2, channels of 1, 2 connections, 2 runs | 90,604 | constraints only on complete tables; every run ends |
| `web_races` | 2 tabs, 3 requests, the bench command once, 5 scenarios, 2 writers, 2 statements per loop | 364,464 (first free tab) | one race at a time, whole results, true counts, logs shown once, the flag comes free |
| `sql_console` | all scripts of up to 5 keystrokes from 12 keys, those of up to 3 are run; 1 row kept of 2 | 349,321 | splitter, page and pool |

Why the bounds are enough. Two sessions are every pair of transactions that can
meet; a third could only wait behind one of them, and the proofs cover any number.
One unit per row makes each checkout of the same product a race for it; two
warehouses and two products are the smallest stock in which lock order matters; the
missing row is the one the seeder's order needs. A command line and two tasks with
two failures give a run that starts on the leftovers of another, and fails too, while
a third is refused the lock; the proofs cover any number of builders, orders and failures. Two
reloaders and two databases overlap; the third database is the one a faster reloader
opens meanwhile. Three queries are two that hold an old stamp or root, and the one
that replaces it. In `etlextract_changes` two orders can take their ids in one order
and commit in the other, across the clock, the watermark and any of the five reads,
and the clock goes far enough for an unchanged order to fall out of the overlap. In
`prices` three instants let both changes and a sale fall on the same instant, before
and after one another, and two checkouts commit in the other order than they took
their ids. The seeder's history of four days begins on a Saturday
(the first exchange rate is of ten days before, a Wednesday), so two of its days have
no rate of their own; it has a price change, a launch, a promotion that ends inside it,
and delays that step over its end. Two batches and a rest per table, over a channel that holds
one, make the generator wait; the second run finds what a failed one left. In
`web_races` the first request can race the bulk insert; the second only opens pages or
posts a form; the third can race concurrent writers, which have conflicts, a lookup whose
random id panics on an empty warehouse, or a lookup that does not. The command runs beside
the third, from any moment of it: its updates use the writers' table on Postgres and the
same names of scratch file and log. Tabs without a request are in the same state, so a
request comes from the first of them (`FirstFreeTab`, an action constraint): it leaves
out no state but mirror images, and restrains arrivals, which no fairness is about. Five keystrokes, some of which
type a whole tag or comment sign, are every pairing of openings, closings and separators
that `Split` looks at, and a comment in a comment with a separator; three are a script of
two statements on the page. Every
bound is a constant with the word "bound" in its comment or named in the table.
Symmetry is used only in runs without liveness properties.

### Findings

- **`etlextract_returns`**: an incremental run finds returns by
  `id > MAX_RETURN_ID`. A return with a lower id that commits after its order's
  returns were read is never loaded (until its order changes or a full run).

The modules state more that the code does not keep, without a run of its own. Put
the named definition into the cfg of the module's run to see the counterexample.

- `Checkout`, `NoDeadlock`: cancel's `UPDATE inventory ... FROM order_items`
  (`checkout.go:543`) takes its row locks in join order, so a cancel and a checkout
  can deadlock, although the comment at `checkout.go:224` says "ORDER BY gives a fixed
  lock order: no deadlocks". `CheckoutsNeverDeadlock` shows it holds among checkouts,
  `EveryTransactionEnds` that the detector resolves it.
- `Checkout`, `CartWritesAreOrdered` (with `SetQty = {0, 1, 2}`): `cartUpdate` does not
  take the cart lock; a quantity it changes while checkout runs is deleted with the
  cart (`checkout.go:340`) without being ordered. `checkout.go:22` says these
  transactions "lock what they touch and must never lose a write". `AddsAreOrdered`
  shows that `cartAdd`, which waits for the lock, is safe.
- `DuckDbWarehouse`, `NoQueryLosesItsRoot`: `OpenAsync` duplicates the root after
  leaving the gate (`DuckDbWarehouse.cs:44`); another query may have disposed it in
  between. Line 18 says "Queries still running on the old root finish normally".
- `PriceHistory`, `JoinsTheVersionSold`: a sale joins the version of its `placed_at`,
  which is the start of its transaction; the price it paid was read later.
  `02_dimensions.sql:73` says "Facts join to the version that was valid when the order
  was placed, so a 2024 sale keeps its 2024 list price".
- `WebServer`, `RefusedOnlyWhileRunning`: on a warehouse without orders
  `rand.Int64N(0)` panics (`bench.go:222`), the server recovers (`server.go:110`) and
  the running flag stays set: every later race is refused because one "is still
  running" (`race.go:78`). `FlagIsCleared` says that this is the only way.
- `SqlConsole`, `CommentsDoNotSplit`: Postgres and DuckDB nest block comments, `Split`
  ends one at the first `*/` (`sqlsplit.go:30`); a `;` in what is left of the outer
  comment splits the statement, although `sqlsplit.go:2` says that it "understands
  quotes, comments and Postgres dollar-quoted strings, so a ';' inside them does not
  split". `SplitIsLexical` shows that without a comment in a comment, and
  without a `$` in a name (`a$b$` opens a dollar quote for `Split`), it splits where SQL
  does.
- `EngineRace`: an update that finds no row counts as done (`bench.go:300`, `bench.go:440`),
  so a race whose `bench` table another process empties and fills again reports operations
  its table does not have. `TablesHoldTheirOps` therefore speaks of tables no other
  racer has written to; without `Undisturbed` TLC finds it violated.
- A cancel of an order whose warehouse has no inventory row for a line restocks
  nothing for it (`checkout.go:543`, an inner join; the seeder picks warehouses
  without looking at the inventory); `checkout_core` reaches it.
- A build that fails between the rename of the file and that of the Parquet directory
  is reported as failed although `docs/02-architecture.md:82` says it "leaves the
  current warehouse untouched"; `AllOrNothing` is what does hold.

Smaller ones met on the way: `payments.paid_at` of a seeded order may lie at or after
the end of the history, and `updated_at` may equal it, although `generator.go` calls
the end exclusive; a page answered in one tab clears the cookie another tab has just
been given, so the log kept for it is never shown (`qlog.go:199`); a `-- step:` label
after a block comment is dropped by the splitter.

## 4. Fairness

- `Checkout`: weak fairness of the steps of each transaction (a handler runs, a
  statement whose lock is free gets it) and of the deadlock detector
  (`deadlock_timeout`), strong fairness of the lock steps, because PostgreSQL queues
  waiters. Nobody has to begin a transaction.
- `EtlRunner`: a run that has the lock goes on; goroutines and tasks run once started
  and end when the build has returned; among the command lines that ask for full
  builds (schedule, cron) somebody gets a lock that keeps coming free. Nothing is
  assumed of one particular run: with `LOCK_NB` a single caller may find the lock
  taken for ever. Incremental runs and button presses are not assumed.
- `WarehouseReader`: only the watcher's ticker is assumed to begin reloads; once
  begun, a reload goes on, a mutex is eventually granted, and queries finish.
- `SeedPipeline`: goroutines that can go on do, PostgreSQL answers a COPY. Errors,
  signals and crashes are never assumed; a cancelled context is noticed (`CtxDone`).
- `WebServer`: a request that has begun is handled to its end, which the 15 minutes of
  `raceRun`'s context justify. Nothing is assumed of the bench command, which may
  stop for ever in any step.

Safety runs use the specification without fairness.

## 5. Proofs

For every value of the constants, from the ASSUMEs of the modules alone:

| Module | Theorem | Property |
|---|---|---|
| `CheckoutProofs` | `LocksHold`, `TypeCorrect` | `LockInv`, `TypeOK` |
| | `InvariantHolds`, `StockAccounted`, `NoUnitOrderedTwice` | `IInv`, `StockMatchesOrders`, `NothingOrderedTwice` |
| | `NothingOversold`, `StockMapCurrent` | `NoOversell`, `StockMapIsCurrent` |
| | `OrdersTellOneStory`, `NoUnitReturnedTwice` | `OrderConsistent`, `ReturnsBounded` |
| | `NoCheckoutCycle` | `CheckoutsNeverDeadlock` |
| | `ShippedForGood`, `NoAddIsLost` | `ShippedStaysShipped`, `AddsAreOrdered` |
| | `StoreImplementsBook` | `ImplementsOrderBook` (refinement) |
| `PriceHistoryProofs` | `PriceInvariant`, `SalesJoinOnce` | `IInv`, `EachSaleJoinsOnce` |
| | `ClosedVersionsStay` | `ClosedStaysClosed` |
| | `PricesImplementBook` | `ImplementsPriceBook` (refinement) |
| `EtlProofs` (`EtlBuild`) | `InvariantHolds`, `WarehouseAlwaysWhole`, `ParquetNeverAhead` | `IInv`, `WarehouseIsWhole`, `ParquetNotAhead` |
| | `BuildsPublish` | `ImplementsWarehouse` (refinement) |
| | `WarehouseNeverGoesBack`, `GoodBuildPublishes`, `FailedBuildsAllOrNothing` | `NeverGoesBack`, `Published`, `AllOrNothing` |
| (`EtlRunner`) | `RunnerInvariantHolds`, `PagesTellTheTruth`, `GoodRunsAreFresh` | `RInv`, `PageTellsTruth`, `GoodRunIsFresh` |
| | `ServersPublish` | `ImplementsWarehouse` (refinement) |
| `WarehouseReaderProofs` | `InvariantHolds`, `QueriesAreSafe`, `RecordedIsOpen`, `NoDatabaseLeaks` | `IInv`, `NoQueryOnClosed`, `CurrentIsCurrent`, `NothingLeaks` |
| `DuckDbWarehouseProofs` | `InvariantHolds`, `QueriesSeeLatest`, `StampedIsOpen` | `IInv`, `QuerySeesLatest`, `CurrentIsCurrent` |
| `EtlExtractProofs` | `InvariantHolds`, `OrdersWhole`, `OneVersionEach`, `NoOrderIsMissed` | `IInv`, `OrdersAreWhole`, `OneVersion`, `NoOrderMissed` |
| `SeedProofs` (`SeedPipeline`) | `SeedInvariant`, `SeedConstraintsOnCompleteData`, `SeedRowsInOrder`, `SeedNoRowsAfterConstraints` | `IInv`, `ConstraintsOnCompleteData`, `RowsInOrder`, `NoRowsAfterConstraints` |
| (`SeedOrders`) | `OrdersInvHolds`, `RowsAgree`, `RefundsFair` | `OrdersInv`, `SeededRowsAgree`, `RefundsAreFair` |
| | `LinesJoin`, `CodesApply` | `LinesJoinTheirVersion`, `PromotionsApply` |
| (`SeedCatalog`) | `CatalogInvHolds`, `TreeFollowed` | `CatalogInv` (of `SeedProofs`), `TreeIsFollowed` |
| | `HistoryGapless`, `RowsPass` | `HistoryIsGapless`, `RowsPassConstraints` |
| `WebServerProofs` (with `EngineRace`) | `ServerInvHolds`, `LogsShownOnce` | `ServerInv`, `ShownOnce` |
| | `WholeResults`, `TrueCounts` | `ResultsAreWhole`, `CountsAreTrue` |
| (`SqlConsole`, `SqlSplit`) | `ConsoleInvHolds`, `PageHonest`, `PoolClean` | `ConsoleInv`, `PageIsHonest`, `PoolIsClean` |

Properties that are parts of an invariant a run checks (`NoOversell`,
`PageTellsTruth`, `NothingLeaks`, ...) have theorems of their own and no run of
their own.

The invariants, and why each is needed:

- **Checkout.** That stock never goes below zero is not inductive: it rests on the
  stock map being the committed stock (`StockMapIsCurrent`) for rows the session has
  locked, that on the session holding every row of its lines when it places the
  order (`CheckoutHolds`), and that on rows only being locked in the stock phases
  (`RowsAreForStock`). `CancelHolds` and `CartHeld` do the same for the order and
  cart locks. On top of it, `LocksInOrder` says that a checkout holds only rows before
  the one it asks for, so in a cycle of checkouts nobody could wait for the one that
  asks for the first row of all (`NoCheckoutCycle`). The refinement maps every step but
  `PlaceOrder`, `Ship`, `Deliver`, `Return` and `CommitCancel` to a stutter.
- **Checkout, the accounts.** `LockInv` is the part above; `StockMatchesOrders` and
  `NothingOrderedTwice` sum over the orders and are proved on top of it. One order moves
  at a time, so the proof is about what one statement adds to a sum: placing an order
  takes its lines' units off the rows the session holds, a cancel puts back those of the
  rows that exist. What has to be carried along is that a seeded order
  keeps its row, and stays cancelled if it was (`SeedsStay`), and that what a customer has
  ordered and what the checkout under way has read of the cart were both once added to it
  (`LinesWereAdded`): nobody else orders from a locked cart.
- **PriceHistory.** A change may close what another one has closed since it read: the
  induction needs that what a transaction read was open then (`TargetsWereOpen`) and
  its time not later than now, so that `ValidRange` and `OneCurrent` together leave
  only changes of the last version. `History` says of the versions, and of the copy the
  extract took, that every instant since the first has exactly one. That a loaded
  order finds them at all is `SalesKeepProduct`: the watermark was read before the
  products, a sale stops `DeleteAsync`, so nothing extracted lacks its product. The
  refinement maps both programs' changes to an append and all else to a stutter.
- **EtlBuild.** Exactly the holder of the lock is at work (`LockIsHeld`), so the
  `.building` file (`BuildingIsMine`) and directory (`ParquetIsMine`) are its own,
  and its watermark, read under the lock, is at least the warehouse's
  (`WatermarkOrder`). `UntouchedUntilSwap` compares the file with a history variable.
  The refinement maps the rename of the file to a publication and that of the Parquet
  directory to another, its removal to a withdrawal, and every other step, a failure or
  the death of a server included, to a stutter or a new order.
- **EtlRunner.** One task per server at a time, and what a task covers once it has
  read its watermark (`SinceCovered`). Proved over `EtlBuild`'s `NextInv`.
- **WarehouseReader, DuckDbWarehouse.** Who owns each open database or instance, and
  that a recorded identity is never newer than what is open.
- **EtlExtract.** `NoOrderMissed` speaks of one step, but rests on every run before
  it. An order below the warehouse's watermark that the warehouse lacks, or has an old
  row of, changed or will change after what the next incremental run takes for old
  (`LoadedOrPending`). That survives a late commit because an open transaction began
  after it (`TxAfter`, from `OpenTx`), and a finished run because what it did not ask
  for was in the warehouse when it looked for changes (`OldIsLoaded`) and what it asked
  for was there when it read the orders (`AskedIsRead`). That statuses only move on
  makes a later read at least as good as an earlier one (`RowsWereSo`). `OneVersion`
  and `OrdersAreWhole` join the induction, as an incremental run keeps old rows.
- **SeedPipeline.** That constraints meet complete tables rests on every COPY having
  ended over a closed and empty channel, which alone says nothing: a generator that
  fails closes its channels too. `RowsInOrder` says where every row is (read, on its
  way, or in the buffer), and `GroupConsistent` that without an error a channel is
  closed only when everything made was sent; that the group's error is looked at
  before the constraints joins the two.

- **SeedCatalog.** `TreeIsFollowed` counts the children of a category once the walk is
  over; while it is not, `WalkIsInOrder` says that `done` is the number of children stored
  so far, and complete for every category but those above `up`, whose calls of `walk` have
  not returned: a call that returns moves `up` to the parent, so nothing is left behind.
  That one pass over the categories finds every descendant of a name, at any depth, rests
  on parents being stored before children (`RowsPassConstraints`), by a least
  counterexample along the recursive function in `Below`. `HistoryIsGapless` follows from
  `PricesAscend`: prices begin with the product and no two begin together, which is why
  `AddPoint` drops an equal instant; of the prices valid at an instant the last is then
  the only one. `CatalogInv` joins these; TLC agrees with it on the instance of the run.
- **SeedOrders.** That a line joins one version needs no invariant beyond the order
  itself, but facts about what it was made with: the prices of a product are in time
  order and begin with the product (`CatalogAssumption`, which is what `buildProducts`
  leaves, see `PricesAscend` below), promotions last whole days
  (`PromotionsAssumption`, `buildPromotions`), and the rate carried over a weekend is the
  one of the last business day (by a least counterexample, since `Fx` is recursive). The
  sign-up index has to be kept half built (`IndexCutsByDay`), and that a return is one of
  the line just passed (`ReturnIsOfLine`).
- **WebServer, EngineRace.** Of each racer (`RacerInv`): which variant it is at, with as
  many results as there were variants before (`InOrder`) and in the phases that variant
  has (`DoesItsVariant`); counters at nothing between two tests (`Rested`); a scratch file
  nobody else has open, although another process may have put a new one under its name
  (`HasItsFile`). From this, that every update of the concurrent writers is done, failed
  or still to be made (`UpdatesAddUp`), that the table in the open file, or the table on
  Postgres as long as no other racer wrote to it, has exactly what was counted
  (`TableFollows`), and that finished measurements say so (`MeasuresRight`).
  `TableFollows` has to speak of the setup too: how the table was made is what makes the
  loops start from nothing. What a statement of another racer does to a table is either
  to another file (`HasItsFile`) or is noted in `disturbed` (`Holds`), so it keeps the
  invariant of everybody else. Of a Postgres table that was disturbed nothing is claimed
  but that the updates reported and refused add up (`Right`).
  The server needs that a request measures exactly while it has a run (`RunsAreOwned`) and
  that only one does, under the flag's name (`MeasuredAlone`); for the logs, that tokens
  are unique and a shown log is gone from the store (`TokensAreUnique`).
- **SqlConsole.** Results follow the script one by one, and only the last may have
  failed; the log of a script on DuckDB follows the results, that of one on Postgres has
  three entries for each statement but the last, and so many of that as its transaction
  got through (`SentReadOnly`, with `roTx`); a connection is held by a running script
  alone (`ConsoleInv`). That there is a
  next statement to run rests on `Split` returning a sequence of statements for every
  script, which is proved for the three recursive readers it is made of
  (`SplitFact`: each of their steps moves on in the script, so they are defined
  everywhere), as is what the limit leaves of any number of rows (`OutcomesFact`).

Assumptions on constants are those named in the modules; besides types they say that
the sets of a model are finite where the code counts (`FiniteAssumption`), and what the
generator's earlier phases leave.

Only model-checked: liveness (`EveryTransactionEnds`, `EventuallyPublished`, the two
`EveryRunEnds`, `EventuallyLatest`, `FlagIsCleared`), which is out of the prover's
reach; `SplitIsSound`, which compares two recursive readers of the same text, an
induction over the text, of the scripts `Beyond` finds nothing in; and `StaffServesEveryCountry`, a statement about the fixed
lists of `reference.go` and the staff made from them by a RECURSIVE operator: it has no
constants, so what TLC evaluates is all of it. `OrdersInv`, `ConsoleInv` and
`CatalogInv` were checked by TLC too, on the instances of `seed_orders`, `sql_console`
and `seed_catalog`, but are not listed there: the properties they consist of are.

## 6. Not modelled

- In `Checkout`: money, promotion codes beyond "rejected or not", timestamps of orders,
  texts. The cents of discounts, taxes and refunds are in `SeedOrders`, for the
  generator's orders and the store's refund of their units.
- What the SQL of dimensions and marts computes, but for the product dimension and its
  join; the other reports and dashboards.
- Lines of orders without their order: an order with a low id that commits late can
  have its lines in `raw.order_items` and not its row in `raw.orders` until the next
  run; the facts join the two, which is why `OrdersAreWhole` starts from the row.
- `Close` and `Dispose` at process exit; the optional live PostgreSQL attach.
- Systems without `flock` (`lockFile` does nothing there), and reseeding under a
  running store, which makes ids start again and invalidates every watermark.
- `EtlExtract` assumes that no transaction lasts as long as the overlap of five
  minutes; one that did could be missed.
- Two reloaders that overtake each other may serve the older of two new files for
  at most one tick of the watcher (`EventuallyLatest` shows it passes).
- In `EngineRace`: durations, medians, the ranking and its chart, the SQL of the
  questions (the tables of the write tests are modelled, the analytical answers are
  not), sample rows.
- In `SqlSplit`: strings with backslash escapes (`E'..'`) and tags of letters outside
  ASCII, neither of which `Split` knows; both are missing from the alphabet.
- In `SqlConsole`: global settings of DuckDB, which outlive any connection; the option
  that puts `EXPLAIN` before each statement that is sent and logged, while the page
  shows it without; the `ROLLBACK` that ends a read-only transaction, which has a
  context of its own and is not in the page's log. `SqlScript.cs`, a second splitter for
  the .NET ETL scripts.
- In `EngineRace`: parts of a log. The log a killed process leaves stands for all that was
  in its file; whoever opens a file beside it gets all of that or nothing of it.
- In the seeder: names, texts, the curve of demand (which customer or product is more
  likely), progress output, `03_fx_rates_daily.sql` beyond its place in the order.
- The .NET load test: its checkout repeats `placeOrder`, but for one parcel where the
  store sends one per warehouse. Its generators are arrival times and measurements.
- Pages, charts, clients, exports and wiring (last rows of the inventory).

## 7. Plan

1. (done) Checkout, EtlBuild, EtlRunner, the two readers, EtlExtract.
2. (done) PriceHistory; the seeder; the race page with the engine race; the splitter
   and the console.
3. (done) `EtlBuild` and `EtlRunner` refine the one-step publication the readers see.
   Left of the composition: the price versions among the tables an incremental run
   reads; what holds of returns in spite of the finding (a full run misses none).
4. The load test's checkout as a second implementation of `OrderBook`; `SqlScript.cs`
   against `SqlSplit`.
5. (done) Proofs about `EngineRace` and `WebServer`, `SeedOrders`, `SqlConsole`, and the
   accounts of `Checkout`.
6. (done) Proofs about `SeedCatalog`, with its walk step by step. Left: the two readers
   of `SqlSplit` against each other, by induction on the position, which needs a prover
   that can instantiate an induction theorem.
