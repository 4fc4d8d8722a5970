----------------------------- MODULE EngineRace -----------------------------
(***************************************************************************)
(* The engine race (internal/bench): one question measured on Postgres and *)
(* on DuckDB.  Any number of runs go on side by side: they share the       *)
(* tables of the bench schema, and the names of one scratch file and of    *)
(* its write-ahead log.                                                    *)
(*                                                                         *)
(* A DuckDB file that loses its name stays open for whoever opened it, and *)
(* opening one that is open fails.  A commit may go to the log, a          *)
(* checkpoint and a close may remove it, and an open with a log beside the *)
(* file replays it, throws it away or fails, whoever wrote it (DuckDB, the *)
(* file system: external).                                                 *)
(* Every statement may fail.  Durations and sample rows are left out; the  *)
(* rows hit by a random id are arbitrary.                                  *)
(***************************************************************************)
EXTENDS Integers, Sequences, FiniteSets, Totals

CONSTANTS
  Racer,          \* who calls bench.Run
  MaxOrderId,     \* of the warehouse; 0 when it was built before any order
  HasOrders,      \* the store has orders
  Reps,           \* timed runs of a quick read: 5
  Statements,     \* of a loop of single-row writes: 5000, 300
  Writer,         \* the concurrent writers: 8
  OpsPerWriter,   \* 150
  HotRows         \* 16

ASSUME EngineRaceAssumption ==
  /\ MaxOrderId \in Nat /\ HasOrders \in BOOLEAN /\ IsFiniteSet(Racer) /\ IsFiniteSet(Writer)
  /\ {Reps, Statements, OpsPerWriter, HotRows} \subseteq Nat \ {0}

(* One for each racer, one that is only known by its log, a free one.      *)
File == 1..(Cardinality(Racer) + 2)
Postgres == 0
NoFile == -1

VARIABLES
  run,       \* the state of bench.Run for each racer
  db,        \* the tables: of Postgres, and of each scratch file
  opened,    \* the scratch file a racer has open
  path,      \* the file called bench_scratch.duckdb
  wal,       \* the file whose changes are in bench_scratch.duckdb.wal
  disturbed  \* history: whose table of Postgres another racer wrote to

raceVars == <<run, db, opened, path, wal, disturbed>>

-----------------------------------------------------------------------------
(* scenarios.go.  The text of a query is left out.                         *)

V(engine, exec, oneTx) == [engine |-> engine, exec |-> exec, oneTx |-> oneTx]
Reads == <<V("postgres", "read", FALSE), V("duckdb", "read", FALSE), V("duckdb", "read", FALSE)>>
Writes(exec, oneTx) == <<V("postgres", exec, oneTx), V("duckdb", exec, oneTx)>>

Analytics == {"monthly-revenue", "category-rollup", "active-customers", "cohort-retention", "brand-returns"}
Lookups == {"order-lookup", "customer-orders"}
WriteTests == {"tx-inserts", "tx-updates", "autocommit-inserts", "concurrent-updates", "bulk-insert"}
scenarios ==
  [id \in Analytics \cup Lookups \cup WriteTests |->
     [args |-> CASE id = "order-lookup" -> "order"
                 [] id = "customer-orders" -> "customer"
                 [] OTHER -> "none",
      variants |-> CASE id = "tx-inserts" -> Writes("inserts", TRUE)
                     [] id = "tx-updates" -> Writes("updates", TRUE)
                     [] id = "autocommit-inserts" -> Writes("inserts", FALSE)
                     [] id = "concurrent-updates" -> Writes("concurrent", FALSE)
                     [] id = "bulk-insert" -> Writes("bulk", FALSE)
                     [] OTHER -> Reads]]

-----------------------------------------------------------------------------
Gone  == [there |-> FALSE, rows |-> {}, taken |-> [r \in 0..HotRows |-> 0]]
Empty == [Gone EXCEPT !.there = TRUE]
NoTables == [events |-> Gone, stock |-> Gone, bulk |-> Gone]

Unmeasured == [err |-> FALSE, ops |-> 0, errors |-> 0]
Resting == [w \in Writer |-> [at |-> "next", row |-> 0, snap |-> 0, left |-> 0]]

(* left counts down a loop, or up the steps of a setup; tx: a transaction  *)
(* is open, and has changed mine rows; ok and failed are the counters of   *)
(* concurrent.                                                             *)
Idle == [pc |-> "idle", sc |-> "none", v |-> 1, left |-> 0, m |-> Unmeasured, res |-> <<>>,
         tx |-> FALSE, mine |-> 0,
         writers |-> Resting, ok |-> 0, failed |-> 0, fatal |-> FALSE]

RaceInit ==
  /\ run = [p \in Racer |-> Idle]
  /\ db = [s \in {Postgres} \cup File |-> NoTables]
  /\ opened = [p \in Racer |-> NoFile]
  /\ path = NoFile /\ wal = NoFile
  /\ disturbed = {}

Variants(p) == scenarios[run[p].sc].variants
Variant(p)  == Variants(p)[run[p].v]
Store(p)    == IF Variant(p).engine = "postgres" THEN Postgres ELSE opened[p]
TableOf(p)  == CASE Variant(p).exec = "inserts" -> "events"
                 [] Variant(p).exec = "bulk" -> "bulk"
                 [] OTHER -> "stock"
Table(p)    == db[Store(p)][TableOf(p)]

(* A statement leaves t in the table, whoever else made theirs there.      *)
HasTable(q) ==
  run[q].pc \in {"loop", "bulk", "writers", "measured"} \/ (run[q].pc = "setup" /\ run[q].left > 3)
Sharing(p)  == {q \in Racer \ {p} : HasTable(q) /\ Store(q) = Store(p) /\ TableOf(q) = TableOf(p)}
Holds(p, t) ==
  /\ db' = [db EXCEPT ![Store(p)][TableOf(p)] = t]
  /\ disturbed' = IF t = Table(p) THEN disturbed ELSE disturbed \cup Sharing(p)
  /\ wal' = wal \/ (t # Table(p) /\ Store(p) # Postgres /\ wal = NoFile /\ wal' = Store(p))

(* Who works on the same table of the same database; the rows a racer's    *)
(* open transactions have locked there.                                    *)
Working(q) == run[q].pc \in {"loop", "writers"}
Beside(p)  == {q \in Racer : Working(q) /\ Store(q) = Store(p) /\ TableOf(q) = TableOf(p)}
Locks(q)   == {run[q].writers[w].row : w \in {u \in Writer : run[q].writers[u].at = "locked"}}
              \cup (IF ~run[q].tx THEN {} ELSE IF TableOf(q) = "events" THEN 1..run[q].mine ELSE {0})
Locked(p)  == UNION {Locks(q) : q \in Beside(p)}

At(p, pc) == run[p].pc = pc
Goto(p, pc) == run' = [run EXCEPT ![p].pc = pc]

(* A file without a name and without a log, that nobody has open, is gone. *)
Reachable(s) == s \in {Postgres, path', wal'} \cup {opened'[q] : q \in Racer}
Files(d) == db' = [s \in DOMAIN d |-> IF Reachable(s) THEN d[s] ELSE NoTables]

(* What a variant returns: the scratch file is closed and removed first.   *)
After(p) == IF opened[p] = NoFile THEN "measured" ELSE "close"
Returns(p, m) ==
  run' = [run EXCEPT ![p] = [Idle EXCEPT !.pc = After(p), !.m = m, !.sc = run[p].sc,
                                         !.v = run[p].v, !.res = run[p].res]]
Fails(p) == Returns(p, [Unmeasured EXCEPT !.err = TRUE])
Counts(p, ops, errors) == Returns(p, [err |-> FALSE, ops |-> ops, errors |-> errors])

-----------------------------------------------------------------------------
(* Run.                                                                    *)

Begin(p, id) == run' = [run EXCEPT ![p] = [Idle EXCEPT !.pc = "args", !.sc = id]]

(* rand.Int64N panics when there is no id to draw.                         *)
ChooseArgs(p) ==
  /\ At(p, "args")
  /\ LET args == scenarios[run[p].sc].args IN
       \/ args = "none" /\ Goto(p, "variant")
       \/ args = "order" /\ Goto(p, IF MaxOrderId > 0 THEN "variant" ELSE "panic")
       \/ args = "customer" /\ HasOrders /\ Goto(p, "variant")
       \/ args # "none" /\ Goto(p, "failed")
  /\ UNCHANGED <<db, opened, path, wal, disturbed>>

NextVariant(p) ==
  /\ At(p, "variant")
  /\ IF run[p].v > Len(Variants(p)) THEN Goto(p, "done")
     ELSE run' = [run EXCEPT ![p].pc = IF Variant(p).exec = "read" THEN "warm" ELSE "setup",
                             ![p].left = 1, ![p].m = Unmeasured]
  /\ UNCHANGED <<db, opened, path, wal, disturbed>>

(* Nothing is kept of a run that was cancelled, or whose 15 minutes are    *)
(* over: late may become true at any time, and is looked at only here.     *)
EndVariant_Keeps(p) ==
  /\ At(p, "measured")
  /\ \E late \in BOOLEAN :
       run' = [run EXCEPT ![p].pc = IF late THEN "done" ELSE "variant",
                          ![p].res = Append(@, run[p].m), ![p].v = @ + 1]
  /\ disturbed' = disturbed \ {p}
  /\ UNCHANGED <<db, opened, path, wal>>
EndVariant(p) ==
  /\ At(p, "measured")
  /\ \E late \in BOOLEAN :
       IF late THEN run' = [run EXCEPT ![p].pc = "failed", ![p].res = <<>>]
       ELSE run' = [run EXCEPT ![p].pc = "variant", ![p].res = Append(@, run[p].m), ![p].v = @ + 1]
  /\ disturbed' = disturbed \ {p}
  /\ UNCHANGED <<db, opened, path, wal>>

(* runRead: one warm-up, then the timed runs.                              *)
WarmUp(p) ==
  /\ At(p, "warm")
  /\ \/ Fails(p)
     \/ \E n \in {1, Reps} : run' = [run EXCEPT ![p].pc = "timed", ![p].left = n]
  /\ UNCHANGED <<db, opened, path, wal, disturbed>>

TimedRun(p) ==
  /\ At(p, "timed")
  /\ \/ Fails(p)
     \/ run[p].left > 1 /\ run' = [run EXCEPT ![p].left = @ - 1]
     \/ run[p].left = 1 /\ Counts(p, 0, 0)
  /\ UNCHANGED <<db, opened, path, wal, disturbed>>

(* pgSetup with the DDL of the test; scratch and duckSetup.                *)
Setup(p) ==
  (IF Variant(p).engine = "postgres" THEN <<"schema", "drop", "create">> ELSE <<"clean", "open", "create">>)
  \o (IF TableOf(p) = "stock" THEN <<"fill", "vacuum">> ELSE <<>>)

StartWork(p) ==
  CASE Variant(p).exec = "concurrent" ->
         run' = [run EXCEPT ![p].pc = "writers", ![p].left = 0,
                            ![p].writers = [w \in Writer |-> [Resting[w] EXCEPT !.left = OpsPerWriter]]]
    [] Variant(p).exec = "bulk" -> run' = [run EXCEPT ![p].pc = "bulk", ![p].left = 2]
    [] OTHER -> run' = [run EXCEPT ![p].pc = "loop", ![p].left = Statements]

SetupDone(p) ==
  IF run[p].left < Len(Setup(p)) THEN run' = [run EXCEPT ![p].left = @ + 1] ELSE StartWork(p)

(* scratch: clean, then NewConnector.                                      *)
CleanScratch == path' = NoFile /\ wal' = NoFile /\ UNCHANGED <<opened, disturbed>> /\ Files(db)

OpenScratch(p) ==
  LET f == IF path # NoFile THEN path
           ELSE CHOOSE f \in File : f \notin {opened[q] : q \in Racer} \cup {wal}
  IN  /\ path \notin {opened[q] : q \in Racer} \ {NoFile}
      /\ path' = f /\ opened' = [opened EXCEPT ![p] = f] /\ UNCHANGED disturbed
      /\ \/ wal' = NoFile /\ Files(db)
         \/ wal # NoFile /\ wal' \in {NoFile, f} /\ Files([db EXCEPT ![f] = db[wal]])

Checkpoints == wal' \in {wal, NoFile} /\ Files(db)

SetupStep(p) ==
  /\ At(p, "setup")
  /\ LET step == Setup(p)[run[p].left] IN
       \/ step = "schema" /\ SetupDone(p) /\ UNCHANGED <<db, opened, path, wal, disturbed>>
       \/ step = "drop" /\ Locked(p) = {} /\ SetupDone(p) /\ Holds(p, Gone) /\ UNCHANGED <<opened, path>>
       \/ step = "create" /\ ~Table(p).there /\ SetupDone(p) /\ Holds(p, Empty) /\ UNCHANGED <<opened, path>>
       \/ /\ step = "fill" /\ Table(p).there /\ Table(p).rows = {} /\ SetupDone(p)
          /\ Holds(p, [Table(p) EXCEPT !.rows = 0..HotRows]) /\ UNCHANGED <<opened, path>>
       \/ /\ step = "vacuum" /\ SetupDone(p) /\ UNCHANGED <<opened, path, disturbed>>
          /\ IF Store(p) = Postgres THEN UNCHANGED <<db, wal>> ELSE Checkpoints
       \/ step = "clean" /\ SetupDone(p) /\ CleanScratch
       \/ step = "open" /\ SetupDone(p) /\ OpenScratch(p)
       \/ step # "clean" /\ Fails(p) /\ UNCHANGED <<db, opened, path, wal, disturbed>>

(* pgLoop, duckLoop: in one transaction, or each statement in its own.  A  *)
(* row inserted by a transaction that is open is waited for; an update of  *)
(* a table that is empty changes nothing, and counts.  Row 0 stands for    *)
(* the rows that are not hot.                                              *)
Changed(p, t, n) ==
  IF Variant(p).exec = "inserts" THEN [t EXCEPT !.rows = @ \cup n]
  ELSE [t EXCEPT !.taken[0] = @ + Cardinality(n)]

LoopStep(p) ==
  /\ At(p, "loop") /\ run[p].left > 0
  /\ LET id == Statements - run[p].left + 1
         new == Variant(p).exec = "inserts"
         hit == IF new \/ 0 \in Table(p).rows THEN {id} ELSE {}
     IN
       \/ Fails(p) /\ UNCHANGED <<db, wal, disturbed>>
       \/ /\ Table(p).there /\ new => id \notin Table(p).rows
          /\ (IF new THEN id ELSE 0) \notin UNION {Locks(q) : q \in Beside(p) \ {p}}
          /\ run' = [run EXCEPT ![p].left = @ - 1, ![p].tx = Variant(p).oneTx,
                                ![p].mine = IF Variant(p).oneTx THEN @ + Cardinality(hit) ELSE @]
          /\ IF Variant(p).oneTx THEN UNCHANGED <<db, wal, disturbed>> ELSE Holds(p, Changed(p, Table(p), hit))
  /\ UNCHANGED <<opened, path>>

LoopEnds_Uncommitted(p) ==
  /\ At(p, "loop") /\ run[p].left = 0
  /\ Counts(p, Statements, 0) /\ UNCHANGED <<db, opened, path, wal, disturbed>>
LoopEnds(p) ==
  /\ At(p, "loop") /\ run[p].left = 0
  /\ \/ run[p].tx /\ Fails(p) /\ UNCHANGED <<db, wal, disturbed>>
     \/ Counts(p, Statements, 0) /\ Holds(p, Changed(p, Table(p), 1..run[p].mine))
  /\ UNCHANGED <<opened, path>>

(* pgBulkInsert drops its table when it is done, duckBulkInsert does not.  *)
BulkInsert(p) ==
  /\ At(p, "bulk")
  /\ \/ Fails(p) /\ UNCHANGED <<db, wal, disturbed>>
     \/ /\ run[p].left = 2 /\ Table(p).there
        /\ Holds(p, [Table(p) EXCEPT !.rows = {1}])
        /\ IF Variant(p).engine = "postgres" THEN run' = [run EXCEPT ![p].left = 1] ELSE Counts(p, 1, 0)
     \/ run[p].left = 1 /\ Table(p).there /\ Holds(p, Gone) /\ Counts(p, 1, 0)
  /\ UNCHANGED <<opened, path>>

(* concurrent: the writers update hot rows, each update its own            *)
(* transaction.  Postgres waits for the row; DuckDB refuses to change one  *)
(* that another transaction has changed since this one began, and the      *)
(* update is counted as failed, not retried.  Any other error ends the     *)
(* writer that met it.                                                     *)
Me(p, w) == run[p].writers[w]
Is(p, w, at) == At(p, "writers") /\ Me(p, w).at = at

WriterBegins(p, w) ==
  /\ Is(p, w, "next") /\ Me(p, w).left > 0
  /\ \E r \in 1..HotRows :
       run' = [run EXCEPT ![p].writers[w] = [at |-> "begun", row |-> r, left |-> Me(p, w).left,
                 snap |-> IF Variant(p).engine = "postgres" THEN 0 ELSE Table(p).taken[r]]]
  /\ UNCHANGED <<db, opened, path, wal, disturbed>>

isConflict(p, w) ==
  /\ Variant(p).engine = "duckdb"
  /\ Me(p, w).row \in Locked(p) \/ Table(p).taken[Me(p, w).row] # Me(p, w).snap

Next1(p, w) == [Resting[w] EXCEPT !.left = Me(p, w).left - 1]

Refused_Lost(p, w) == run' = [run EXCEPT ![p].writers[w] = Next1(p, w)]
Refused_Ok(p, w) == run' = [run EXCEPT ![p].writers[w] = Next1(p, w), ![p].ok = @ + 1]
Refused(p, w) == run' = [run EXCEPT ![p].writers[w] = Next1(p, w), ![p].failed = @ + 1]

WriterUpdates(p, w) ==
  /\ Is(p, w, "begun") /\ Table(p).there
  /\ IF isConflict(p, w)
     THEN Refused(p, w)
     ELSE /\ Variant(p).engine = "postgres" => Me(p, w).row \notin Locked(p)
          /\ run' = [run EXCEPT ![p].writers[w].at = "locked"]
  /\ UNCHANGED <<db, opened, path, wal, disturbed>>

WriterCommits(p, w) ==
  /\ Is(p, w, "locked")
  /\ LET r == Me(p, w).row IN
       Holds(p, IF r \in Table(p).rows THEN [Table(p) EXCEPT !.taken[r] = @ + 1] ELSE Table(p))
  /\ run' = [run EXCEPT ![p].writers[w] = Next1(p, w), ![p].ok = @ + 1]
  /\ UNCHANGED <<opened, path>>

WriterFails(p, w) ==
  /\ At(p, "writers") /\ Me(p, w).at # "next"
  /\ run' = [run EXCEPT ![p].writers[w] = Resting[w], ![p].fatal = TRUE]
  /\ UNCHANGED <<db, opened, path, wal, disturbed>>

WritersEnd(p) ==
  /\ At(p, "writers") /\ run[p].writers = Resting
  /\ IF run[p].fatal THEN Fails(p) ELSE Counts(p, run[p].ok, run[p].failed)
  /\ UNCHANGED <<db, opened, path, wal, disturbed>>

(* The deferred done of scratch: close, then remove what has the name.     *)
CloseScratch(p) ==
  /\ At(p, "close") /\ Goto(p, "clean")
  /\ opened' = [opened EXCEPT ![p] = NoFile] /\ UNCHANGED <<path, disturbed>>
  /\ Checkpoints

RemoveScratch(p) == At(p, "clean") /\ Goto(p, "measured") /\ CleanScratch

Race(p) ==
  \/ ChooseArgs(p) \/ NextVariant(p) \/ EndVariant(p)
  \/ WarmUp(p) \/ TimedRun(p)
  \/ SetupStep(p) \/ LoopStep(p) \/ LoopEnds(p) \/ BulkInsert(p)
  \/ \E w \in Writer : WriterBegins(p, w) \/ WriterUpdates(p, w) \/ WriterCommits(p, w) \/ WriterFails(p, w)
  \/ WritersEnd(p) \/ CloseScratch(p) \/ RemoveScratch(p)

-----------------------------------------------------------------------------
(* Why it works: what each racer knows of its run, its file and its table. *)

Measurement == [err : BOOLEAN, ops : Nat, errors : Nat]
WriterState == [at : {"next", "begun", "locked"}, row : 0..HotRows, snap : Nat, left : Nat]
RunState ==
  [pc : {"idle", "args", "variant", "warm", "timed", "setup", "loop", "bulk", "writers",
         "close", "clean", "measured", "done", "failed", "panic"},
   sc : DOMAIN scenarios \cup {"none"}, v : Nat \ {0}, left : Nat, m : Measurement,
   res : Seq(Measurement), tx : BOOLEAN, mine : Nat,
   writers : [Writer -> WriterState], ok : Nat, failed : Nat, fatal : BOOLEAN]
TableState == [there : BOOLEAN, rows : SUBSET Nat, taken : [0..HotRows -> Nat]]
Tables == [events : TableState, stock : TableState, bulk : TableState]

RaceTypeOK ==
  /\ run \in [Racer -> RunState] /\ db \in [{Postgres} \cup File -> Tables]
  /\ opened \in [Racer -> File \cup {NoFile}] /\ {path, wal} \subseteq File \cup {NoFile}
  /\ disturbed \subseteq Racer

(* The measurements taken so far are those of the variants before this     *)
(* one; a run that failed has none.                                        *)
InOrder(p) ==
  run[p].pc # "idle" =>
    /\ run[p].sc \in DOMAIN scenarios /\ run[p].v <= Len(Variants(p)) + 1
    /\ IF At(p, "failed") THEN run[p].res = <<>> ELSE Len(run[p].res) = run[p].v - 1
    /\ At(p, "args") => run[p].v = 1
    /\ At(p, "done") => run[p].v = Len(Variants(p)) + 1
    /\ run[p].pc \notin {"args", "variant", "done", "failed", "panic"} => run[p].v <= Len(Variants(p))

(* What is done with a variant is what the variant is for.                 *)
DoesItsVariant(p) ==
  LET exec == Variant(p).exec IN
  /\ run[p].pc \in {"warm", "timed"} => exec = "read"
  /\ At(p, "setup") => exec # "read" /\ run[p].left \in 1..Len(Setup(p))
  /\ At(p, "loop") => exec \in {"inserts", "updates"} /\ run[p].left <= Statements
  /\ At(p, "bulk") => exec = "bulk"
  /\ At(p, "writers") => exec = "concurrent"
  /\ run[p].pc \in {"close", "clean"} => exec # "read" /\ Variant(p).engine = "duckdb"

(* The counters of a test start at nothing.                                *)
Rested(p) ==
  run[p].pc \notin {"loop", "bulk", "writers"} =>
    ~run[p].tx /\ run[p].mine = 0 /\ run[p].ok = 0 /\ run[p].failed = 0 /\ ~run[p].fatal

(* A scratch file is open from the second step of a setup to the close,    *)
(* and nobody else has it open.                                            *)
NeedsFile(p) ==
  \/ At(p, "close")
  \/ /\ run[p].pc \in {"loop", "bulk", "writers"} \/ (At(p, "setup") /\ run[p].left > 2)
     /\ Variant(p).engine = "duckdb"
HasItsFile(p) ==
  /\ opened[p] # NoFile <=> NeedsFile(p)
  /\ \A q \in Racer \ {p} : opened[p] # NoFile => opened[q] # opened[p]

(* An update is counted as done or as failed, or is still to be made; none *)
(* fails on Postgres.                                                      *)
ToDo(p) == Total([w \in Writer |-> run[p].writers[w].left], Writer)
UpdatesAddUp(p) ==
  At(p, "writers") =>
    /\ ~run[p].fatal => run[p].ok + run[p].failed + ToDo(p) = Cardinality(Writer) * OpsPerWriter
    /\ Variant(p).engine = "postgres" => run[p].failed = 0
    /\ \A w \in Writer : run[p].writers[w].at # "next" =>
         run[p].writers[w].row \in 1..HotRows /\ run[p].writers[w].left > 0

(* A measurement of the writers without an error counts every update.      *)
Right(v, m) ==
  v.exec = "concurrent" /\ ~m.err =>
    /\ m.ops + m.errors = Cardinality(Writer) * OpsPerWriter
    /\ v.engine = "postgres" => m.errors = 0
MeasuresRight(p) ==
  /\ \A i \in DOMAIN run[p].res : Right(Variants(p)[i], run[p].res[i])
  /\ run[p].pc \in {"close", "clean", "measured"} => Right(Variant(p), run[p].m)

(* How often the rows of a table were updated; what was done to the table  *)
(* of a test.                                                              *)
TakenFrom(t) == Total(t.taken, DOMAIN t.taken)
Done(p) == IF Variant(p).exec = "inserts" THEN Cardinality(Table(p).rows) ELSE TakenFrom(Table(p))

(* The table a test has in its file, or on Postgres as long as no other    *)
(* racer wrote to it: what it did so far and no more.  The rows of an open *)
(* transaction are its own until it commits.                               *)
Filled == [Empty EXCEPT !.rows = 0..HotRows]
Undisturbed(p) == HasTable(p) /\ Variant(p).engine = "postgres" /\ p \notin disturbed
Followed(p) == opened[p] # NoFile \/ Undisturbed(p)
TableFollows(p) ==
  LET t    == Table(p)
      done == Statements - run[p].left
      out  == IF Variant(p).oneTx THEN 0 ELSE done
  IN  Followed(p) =>
      /\ At(p, "setup") /\ run[p].left = 4 => t = Empty
      /\ At(p, "setup") /\ run[p].left = 5 => t = Filled
      /\ At(p, "loop") => run[p].mine = done - out
      /\ At(p, "loop") /\ Variant(p).exec = "inserts" => t.rows = 1..out
      /\ At(p, "loop") /\ Variant(p).exec = "updates" => t.rows = 0..HotRows /\ TakenFrom(t) = out
      /\ At(p, "writers") => t.rows = 0..HotRows /\ TakenFrom(t) = run[p].ok
      /\ run[p].pc \in {"close", "measured"} /\ ~run[p].m.err /\ Variant(p).exec \notin {"read", "bulk"} =>
           Done(p) = run[p].m.ops

RacerInv(p) == /\ InOrder(p) /\ DoesItsVariant(p) /\ Rested(p) /\ HasItsFile(p)
               /\ UpdatesAddUp(p) /\ MeasuresRight(p) /\ TableFollows(p)
=============================================================================
