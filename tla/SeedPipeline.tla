---------------------------- MODULE SeedPipeline ----------------------------
(***************************************************************************)
(* A run of the data generator (internal/seed): the schema, the reference  *)
(* tables one by one, then the orders, generated in one goroutine while    *)
(* one COPY per table takes batches of rows from a channel, then the       *)
(* constraints, the daily rates and the statistics.  Any step may fail, a  *)
(* signal may cancel the run, the process may die, and the seeder may be   *)
(* run again.                                                              *)
(*                                                                         *)
(* Rows of a table are numbered in the order they are generated; a batch   *)
(* is an interval of numbers.  COPY (pgx, Postgres) is external: a table   *)
(* is loaded whole or not at all.                                          *)
(***************************************************************************)
EXTENDS Integers, Sequences, FiniteSets

CONSTANTS
  Streams,     \* tables that are generated: orders, order_items, ...
  BatchSize,   \* rows of a batch
  Capacity,    \* batches a channel holds
  MaxConns,    \* connections of the pool
  RefTables,   \* reference tables
  MaxRows, MaxRuns    \* bounds: rows generated per table, runs of the seeder

ASSUME SeedPipelineAssumption ==
  /\ Streams \in Nat /\ MaxConns \in Nat /\ 0 < Streams /\ Streams <= MaxConns
  /\ BatchSize \in Nat \ {0} /\ Capacity \in Nat \ {0} /\ RefTables \in Nat \ {0}
  /\ MaxRows \in Nat /\ MaxRuns \in Nat

Stream == 1..Streams

VARIABLES
  runs,         \* runs so far
  phase,        \* step of the current run, or how it ended
  cancelled,    \* a signal has cancelled the run's context
  failed,       \* a goroutine of the group has failed: its context is cancelled
  refs,         \* reference tables copied
  constrained,  \* keys and constraints exist
  gen,          \* the generator: [at, to], to is the stream it sends to
  made,         \* rows generated
  sent,         \* rows sent: those in sent+1 .. made are in the buffer
  chan,         \* batches in the channel
  closed,       \* the channel is closed
  read,         \* rows the copy goroutine took from the channel
  copy,         \* state of the copy goroutine
  table         \* rows in the table

run    == <<runs, phase, cancelled>>
queues == <<made, sent, chan, closed>>
store  == <<refs, constrained, table>>
vars   == <<run, failed, gen, queues, read, copy, store>>

Ended == {"done", "failed"}
Steps == {"schema", "reference", "orders", "constraints", "rates", "vacuum"}

Init ==
  /\ runs = 1 /\ phase = "schema" /\ cancelled = FALSE /\ failed = FALSE
  /\ refs = 0 /\ constrained = FALSE
  /\ gen = [at |-> "none", to |-> {}]
  /\ made = [s \in Stream |-> 0] /\ sent = made
  /\ chan = [s \in Stream |-> <<>>] /\ closed = [s \in Stream |-> FALSE]
  /\ read = made /\ copy = [s \in Stream |-> "none"]
  /\ table = made

-----------------------------------------------------------------------------
(* Run: the steps one after the other.  A schema file is one batch: all of *)
(* it happens or nothing.                                                  *)

ApplySchemaFile(step, next) ==
  /\ phase = step
  /\ phase' = next
  /\ UNCHANGED <<runs, cancelled, failed, gen, queues, read, copy>>

CreateSchema ==
  /\ ApplySchemaFile("schema", "reference")
  /\ refs' = 0 /\ constrained' = FALSE /\ table' = [s \in Stream |-> 0]

(* copyReference: one table after the other.                               *)
CopyReference ==
  /\ phase = "reference" /\ refs < RefTables
  /\ refs' = refs + 1
  /\ UNCHANGED <<run, failed, gen, queues, read, copy, constrained, table>>

(* copyOrders: new streams, and a group of goroutines.                     *)
StartGroup ==
  /\ phase = "reference" /\ refs = RefTables
  /\ phase' = "orders" /\ failed' = FALSE
  /\ gen' = [at |-> "run", to |-> {}]
  /\ made' = [s \in Stream |-> 0] /\ sent' = made' /\ read' = made'
  /\ chan' = [s \in Stream |-> <<>>] /\ closed' = [s \in Stream |-> FALSE]
  /\ copy' = [s \in Stream |-> "acquire"]
  /\ UNCHANGED <<runs, cancelled, store>>

(* grp.Wait: the run goes on when all have ended, without an error.        *)
GroupEnded_NoCopies == gen.at = "done"
GroupEnded == gen.at = "done" /\ \A s \in Stream : copy[s] = "done"

Wait ==
  /\ phase = "orders" /\ GroupEnded
  /\ phase' = IF failed THEN "failed" ELSE "constraints"
  /\ UNCHANGED <<runs, cancelled, failed, gen, queues, read, copy, store>>

AddConstraints ==
  /\ ApplySchemaFile("constraints", "rates")
  /\ constrained' = TRUE /\ UNCHANGED <<refs, table>>

DailyRates == ApplySchemaFile("rates", "vacuum") /\ UNCHANGED store

Vacuum == ApplySchemaFile("vacuum", "done") /\ UNCHANGED store

(* A step fails: the server refuses it, or the context is cancelled.       *)
StepFails ==
  /\ phase \in Steps \ {"orders"}
  /\ phase' = "failed"
  /\ UNCHANGED <<runs, cancelled, failed, gen, queues, read, copy, store>>

(* SIGINT or SIGTERM.                                                      *)
Interrupt ==
  /\ phase \in Steps /\ ~cancelled
  /\ cancelled' = TRUE
  /\ UNCHANGED <<runs, phase, failed, gen, queues, read, copy, store>>

(* The process dies; its connections break and open COPYs are rolled back. *)
NoGroup ==
  /\ gen' = [at |-> "none", to |-> {}] /\ copy' = [s \in Stream |-> "none"]

Crash ==
  /\ phase \in Steps
  /\ phase' = "failed" /\ NoGroup
  /\ UNCHANGED <<runs, cancelled, failed, queues, read, store>>

(* The seeder is run again, on the store the last run left.                *)
RunAgain ==
  /\ phase \in Ended /\ runs < MaxRuns
  /\ runs' = runs + 1 /\ phase' = "schema" /\ cancelled' = FALSE /\ NoGroup
  /\ UNCHANGED <<failed, queues, read, store>>

-----------------------------------------------------------------------------
(* The generator.  A row that fills the buffer makes it send the batch;    *)
(* a send waits for room in the channel or for the end of the context.     *)

CtxDone == cancelled \/ failed
Buffered(s) == made[s] - sent[s]
HasRoom(s) == Len(chan[s]) < Capacity

Add(s) ==
  /\ gen.at = "run" /\ made[s] < MaxRows
  /\ made' = [made EXCEPT ![s] = @ + 1]
  /\ gen' = IF Buffered(s) + 1 < BatchSize THEN gen ELSE [at |-> "send", to |-> {s}]
  /\ UNCHANGED <<run, failed, sent, chan, closed, read, copy, store>>

(* The batch goes into the channel, and the stream starts an empty buffer. *)
Push_KeepsBuffer(s) ==
  /\ chan' = [chan EXCEPT ![s] = Append(@, [lo |-> 1, hi |-> made[s]])]
  /\ sent' = [sent EXCEPT ![s] = made[s]]
Push(s) ==
  /\ chan' = [chan EXCEPT ![s] = Append(@, [lo |-> sent[s] + 1, hi |-> made[s]])]
  /\ sent' = [sent EXCEPT ![s] = made[s]]

Send(s) ==
  /\ gen = [at |-> "send", to |-> {s}] /\ HasRoom(s)
  /\ Push(s)
  /\ gen' = [at |-> "run", to |-> {}]
  /\ UNCHANGED <<run, failed, made, closed, read, copy, store>>

(* generateOrders returns: finish is called for every stream, whatever     *)
(* happened, after the last order or after a send the context has ended.   *)
LastOrder ==
  /\ gen.at = "run"
  /\ gen' = [at |-> "finish", to |-> Stream]
  /\ UNCHANGED <<run, failed, queues, read, copy, store>>

SendCancelled ==
  /\ gen.at = "send" /\ CtxDone
  /\ gen' = [at |-> "finish err", to |-> Stream]
  /\ UNCHANGED <<run, failed, queues, read, copy, store>>

Finishing == gen.at \in {"finish", "finish err"}

(* finish, stream by stream: flush what is left, and close the channel,    *)
(* also when the flush has failed; the first error is the one returned.    *)
Finish_LeavesOpen(s) ==
  /\ Finishing /\ s \in gen.to /\ \A x \in gen.to : s <= x
  /\ \/ /\ Buffered(s) > 0 => HasRoom(s)
        /\ IF Buffered(s) > 0 THEN Push(s) ELSE UNCHANGED <<sent, chan>>
        /\ gen' = [at |-> gen.at, to |-> gen.to \ {s}]
        /\ closed' = [closed EXCEPT ![s] = TRUE]
     \/ /\ Buffered(s) > 0 /\ CtxDone
        /\ gen' = [at |-> "finish err", to |-> gen.to \ {s}]
        /\ UNCHANGED <<sent, chan, closed>>
  /\ UNCHANGED <<run, failed, made, read, copy, store>>
Finish(s) ==
  /\ Finishing /\ s \in gen.to /\ \A x \in gen.to : s <= x
  /\ \/ /\ Buffered(s) = 0
        /\ gen' = [at |-> gen.at, to |-> gen.to \ {s}]
        /\ UNCHANGED <<sent, chan>>
     \/ /\ Buffered(s) > 0 /\ HasRoom(s)
        /\ Push(s)
        /\ gen' = [at |-> gen.at, to |-> gen.to \ {s}]
     \/ /\ Buffered(s) > 0 /\ CtxDone
        /\ gen' = [at |-> "finish err", to |-> gen.to \ {s}]
        /\ UNCHANGED <<sent, chan>>
  /\ closed' = [closed EXCEPT ![s] = TRUE]
  /\ UNCHANGED <<run, failed, made, read, copy, store>>

GeneratorEnds ==
  /\ Finishing /\ gen.to = {}
  /\ failed' = (failed \/ gen.at = "finish err")
  /\ gen' = [gen EXCEPT !.at = "done"]
  /\ UNCHANGED <<run, queues, read, copy, store>>

-----------------------------------------------------------------------------
(* The copy goroutines (stream.copy).  CopyFrom takes a connection of the  *)
(* pool and reads rows until the channel is closed.                        *)

Connected == {s \in Stream : copy[s] \in {"copy", "broken"}}

Acquire(s) ==
  /\ copy[s] = "acquire" /\ Cardinality(Connected) < MaxConns
  /\ copy' = [copy EXCEPT ![s] = "copy"]
  /\ UNCHANGED <<run, failed, gen, queues, read, store>>

(* The rows of the next batch, one after the other.                        *)
Receive(s) ==
  /\ copy[s] \in {"copy", "broken"} /\ chan[s] # <<>>
  /\ read' = [read EXCEPT ![s] = Head(chan[s]).hi]
  /\ chan' = [chan EXCEPT ![s] = Tail(@)]
  /\ UNCHANGED <<run, failed, gen, made, sent, closed, copy, store>>

NoMoreRows(s) == closed[s] /\ chan[s] = <<>>

(* The end of the rows ends the COPY and commits it.  A cancelled context  *)
(* may come too late for it.                                               *)
CopyEnds(s) ==
  /\ copy[s] = "copy" /\ NoMoreRows(s)
  /\ copy' = [copy EXCEPT ![s] = "done"]
  /\ table' = [table EXCEPT ![s] = read[s]]
  /\ UNCHANGED <<run, failed, gen, queues, read, refs, constrained>>

(* The server refuses the rows, or the context ends: CopyFrom returns when *)
(* its reader has ended, at once or, "broken", when that got enough rows   *)
(* to see it, or the last one.                                             *)
Fails_Swallowed(s) == UNCHANGED failed
Fails(s) == failed' = TRUE

CopyFails(s) ==
  /\ copy[s] \in {"acquire", "copy"}
  /\ copy' = [copy EXCEPT ![s] = "done"]
  /\ Fails(s)
  /\ UNCHANGED <<run, gen, queues, read, store>>

CopyBreaks(s) ==
  /\ copy[s] = "copy"
  /\ copy' = [copy EXCEPT ![s] = "broken"]
  /\ UNCHANGED <<run, failed, gen, queues, read, store>>

BrokenEnds(s) ==
  /\ copy[s] = "broken" /\ (NoMoreRows(s) \/ read[s] > 0)
  /\ copy' = [copy EXCEPT ![s] = "done"]
  /\ Fails(s)
  /\ UNCHANGED <<run, gen, queues, read, store>>

-----------------------------------------------------------------------------
(* A goroutine runs only as part of a group that is waited for.            *)
Generator == \/ LastOrder \/ SendCancelled \/ GeneratorEnds
             \/ \E s \in Stream : Add(s) \/ Send(s) \/ Finish(s)
Copier(s) == Acquire(s) \/ Receive(s) \/ CopyEnds(s) \/ CopyFails(s) \/ CopyBreaks(s) \/ BrokenEnds(s)
Main == CreateSchema \/ CopyReference \/ StartGroup \/ Wait \/ AddConstraints \/ DailyRates \/ Vacuum

Next == \/ Main \/ StepFails \/ Interrupt \/ Crash \/ RunAgain
        \/ Generator \/ \E s \in Stream : Copier(s)

Spec == Init /\ [][Next]_vars

(* The goroutines are scheduled, the generator has a last order, a COPY    *)
(* gets its answer, and one whose context has ended sees it.               *)
Fairness ==
  /\ WF_vars(Main) /\ WF_vars(GeneratorEnds \/ SendCancelled \/ LastOrder)
  /\ \A s \in Stream :
       /\ WF_vars(Send(s)) /\ WF_vars(Finish(s))
       /\ WF_vars(Acquire(s)) /\ WF_vars(Receive(s)) /\ WF_vars(CopyEnds(s))
       /\ WF_vars(NoMoreRows(s) /\ BrokenEnds(s)) /\ WF_vars(CtxDone /\ CopyFails(s))

FairSpec == Spec /\ Fairness

-----------------------------------------------------------------------------
(* Properties.                                                             *)

(* Every variable has its type.                                            *)
Batch == [lo : Nat, hi : Nat]
TypeOK ==
  /\ runs \in Nat /\ phase \in Steps \cup Ended /\ cancelled \in BOOLEAN /\ failed \in BOOLEAN
  /\ refs \in 0..RefTables /\ constrained \in BOOLEAN
  /\ gen \in [at : {"none", "run", "send", "finish", "finish err", "done"}, to : SUBSET Stream]
  /\ made \in [Stream -> Nat] /\ sent \in [Stream -> Nat]
  /\ read \in [Stream -> Nat] /\ table \in [Stream -> Nat]
  /\ chan \in [Stream -> Seq(Batch)] /\ closed \in [Stream -> BOOLEAN]
  /\ copy \in [Stream -> {"none", "acquire", "copy", "broken", "done"}]

(* Rows reach the COPY in order, each once: what was taken, what is in the *)
(* channel, batch after batch, and what is buffered follow each other, and *)
(* no channel holds more than its capacity.                                *)
Follows(s) ==
  /\ read[s] <= sent[s] /\ sent[s] <= made[s]
  /\ \A i \in 1..Len(chan[s]) :
       /\ chan[s][i].lo <= chan[s][i].hi /\ chan[s][i].hi <= sent[s]
       /\ chan[s][i].lo = (IF i = 1 THEN read[s] ELSE chan[s][i - 1].hi) + 1
  /\ sent[s] = IF chan[s] = <<>> THEN read[s] ELSE chan[s][Len(chan[s])].hi
  /\ Len(chan[s]) <= Capacity
RowsInOrder == \A s \in Stream : Follows(s)

(* Nothing of the group outlives the step: when the constraints are added, *)
(* or the run has failed, no goroutine generates, sends or copies.         *)
NothingOutlivesTheStep ==
  phase # "orders" =>
    /\ gen.at \in {"none", "done"}
    /\ \A s \in Stream : copy[s] \in {"none", "done"}

(* Keys and constraints exist only on a store that has every reference     *)
(* table and every generated row: an error anywhere in the group, or a     *)
(* COPY that ended early because the generator gave up, keeps the run from *)
(* getting that far, and the next run starts from nothing.                 *)
Loaded == refs = RefTables /\ \A s \in Stream : table[s] = made[s]
ConstraintsOnCompleteData == constrained \/ phase \in {"constraints", "rates", "vacuum"} => Loaded

(* What makes it so: while the group runs, a channel is closed only by     *)
(* finish; an error of the generator is known by the time it has ended,    *)
(* one of a COPY at once; and without one, what ended is complete.         *)
GroupConsistent ==
  /\ phase \in {"reference", "orders", "constraints"} => ~constrained
  /\ phase = "orders" =>
       /\ refs = RefTables
       /\ gen.at \in {"run", "send"} => \A s \in Stream : ~closed[s]
       /\ gen.at = "send" => \A s \in gen.to : Buffered(s) > 0
       /\ gen.at \in {"finish", "finish err"} => \A s \in Stream : closed[s] <=> s \notin gen.to
       /\ gen.at = "finish" => \A s \in Stream : closed[s] => sent[s] = made[s]
       /\ gen.at = "done" /\ ~failed => \A s \in Stream : sent[s] = made[s]
       /\ ~failed => \A s \in Stream :
            copy[s] = "done" => closed[s] /\ chan[s] = <<>> /\ table[s] = read[s]

(* The inductive invariant.                                                *)
IInv == /\ TypeOK /\ RowsInOrder /\ NothingOutlivesTheStep
        /\ GroupConsistent /\ ConstraintsOnCompleteData

(* A table that has its constraints gets no more rows from the seeder.     *)
NoRowsAfterConstraints == [][constrained /\ constrained' => UNCHANGED <<table, refs>>]_vars

(* A run ends, however its goroutines are scheduled and whichever of them  *)
(* fails: none waits for good for room, for rows or for a connection.      *)
EveryRunEnds == (phase \in Steps) ~> (phase \in Ended)
=============================================================================
