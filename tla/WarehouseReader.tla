--------------------------- MODULE WarehouseReader ---------------------------
(***************************************************************************)
(* The Go server's access to the warehouse file                            *)
(* (internal/warehouse/warehouse.go): queries run under a read lock on the *)
(* database that is open, while reloaders (the watcher and the goroutine   *)
(* of the ETL page) open a new file and put it in the old one's place.     *)
(*                                                                         *)
(* A file is its version: each swap of a build makes the next one.  A      *)
(* database is an opening of the file; two openings of one version are     *)
(* two databases.                                                          *)
(***************************************************************************)
EXTENDS Integers, FiniteSets

CONSTANTS
  Reloader,   \* goroutines that call Reload
  Watcher,    \* the one that calls it at every tick
  Query,      \* goroutines that call With
  Database,   \* databases that can be opened (bound)
  MaxVersion, \* bound: swaps of the file
  None        \* no database

ASSUME ReaderAssumption ==
  /\ Watcher \in Reloader
  /\ MaxVersion \in Nat
  /\ None \notin Database

VARIABLES
  file,     \* the version of the file on disk, 0 while there is none
  version,  \* the version each database attached, 0 while it is not open
  db,       \* w.db
  stat,     \* w.stat: the version of the file it was taken of, 0 for nil
  pc,       \* the step of each reloader
  seen,     \* the version a reloader saw in os.Stat
  mine,     \* the database a reloader has opened, or has still to close
  using     \* the database each running query uses

vars == <<file, version, db, stat, pc, seen, mine, using>>

Step == {"idle", "compare", "open", "announce", "lock", "close"}

(* Every variable has its type.                                            *)
TypeOK ==
  /\ file \in 0..MaxVersion
  /\ version \in [Database -> 0..MaxVersion]
  /\ db \in Database \cup {None}
  /\ stat \in 0..MaxVersion
  /\ pc \in [Reloader -> Step]
  /\ seen \in [Reloader -> 0..MaxVersion]
  /\ mine \in [Reloader -> Database \cup {None}]
  /\ using \in [Query -> Database \cup {None}]

Init ==
  /\ file = 0
  /\ version = [d \in Database |-> 0]
  /\ db = None
  /\ stat = 0
  /\ pc = [r \in Reloader |-> "idle"]
  /\ seen = [r \in Reloader |-> 0]
  /\ mine = [r \in Reloader |-> None]
  /\ using = [q \in Query |-> None]

-----------------------------------------------------------------------------

(* A build renames a new file over the old one.                            *)
Swap ==
  /\ file < MaxVersion
  /\ file' = file + 1
  /\ UNCHANGED <<version, db, stat, pc, seen, mine, using>>

(* The RWMutex: once a reloader waits for the lock, no new reader gets it. *)
WriterWaits == \E r \in Reloader : pc[r] = "lock"
NoReaders_NotWaited == TRUE
NoReaders == \A q \in Query : using[q] = None

Goes(r, from, to) == pc[r] = from /\ pc' = [pc EXCEPT ![r] = to]

(* os.Stat; without a file there is nothing to do.                         *)
Stat(r) ==
  /\ file > 0
  /\ Goes(r, "idle", "compare")
  /\ seen' = [seen EXCEPT ![r] = file]
  /\ UNCHANGED <<file, version, db, stat, mine, using>>

Same_OnceOpen(r) == stat # 0
Same(r) == stat = seen[r]

(* The comparison with the file that is open.                              *)
Compare(r) ==
  /\ ~WriterWaits
  /\ Goes(r, "compare", IF Same(r) THEN "idle" ELSE "open")
  /\ UNCHANGED <<file, version, db, stat, seen, mine, using>>

(* openWarehouse attaches the file that is there by now.                   *)
Open(r) ==
  /\ \E d \in Database :
       /\ version[d] = 0
       /\ version' = [version EXCEPT ![d] = file]
       /\ mine' = [mine EXCEPT ![r] = d]
  /\ Goes(r, "open", "announce")
  /\ UNCHANGED <<file, db, stat, seen, using>>

(* It may fail: the watcher tries again at its next tick.                  *)
OpenFails(r) ==
  /\ Goes(r, "open", "idle")
  /\ UNCHANGED <<file, version, db, stat, seen, mine, using>>

(* mu.Lock() is called: one writer at a time gets as far as waiting for    *)
(* the readers ...                                                         *)
Announce(r) ==
  /\ ~WriterWaits
  /\ Goes(r, "announce", "lock")
  /\ UNCHANGED <<file, version, db, stat, seen, mine, using>>

(* ... and returns when no query is running: the new database is put in    *)
(* the place of the old one, with what Stat said of the file.              *)
StatOf_Again(r) == file
StatOf(r) == seen[r]

Install(r) ==
  /\ NoReaders
  /\ Goes(r, "lock", "close")
  /\ db' = mine[r]
  /\ stat' = StatOf(r)
  /\ mine' = [mine EXCEPT ![r] = db]
  /\ UNCHANGED <<file, version, seen, using>>

CloseOld_Forgotten(r) ==
  /\ Goes(r, "close", "idle")
  /\ mine' = [mine EXCEPT ![r] = None]
  /\ UNCHANGED <<file, version, db, stat, seen, using>>
CloseOld(r) ==
  /\ Goes(r, "close", "idle")
  /\ version' = [d \in Database |-> IF d = mine[r] THEN 0 ELSE version[d]]
  /\ mine' = [mine EXCEPT ![r] = None]
  /\ UNCHANGED <<file, db, stat, seen, using>>

(* With: a query runs on the current database under the read lock; with    *)
(* none open it is refused.                                                *)
Begin(q) ==
  /\ using[q] = None
  /\ ~WriterWaits
  /\ using' = [using EXCEPT ![q] = db]
  /\ UNCHANGED <<file, version, db, stat, pc, seen, mine>>

Finish(q) ==
  /\ using[q] # None
  /\ using' = [using EXCEPT ![q] = None]
  /\ UNCHANGED <<file, version, db, stat, pc, seen, mine>>

-----------------------------------------------------------------------------

Reload(r) == \/ Compare(r) \/ Open(r) \/ OpenFails(r) \/ Announce(r) \/ Install(r) \/ CloseOld(r)

Next ==
  \/ Swap
  \/ \E r \in Reloader : Stat(r) \/ Reload(r)
  \/ \E q \in Query : Begin(q) \/ Finish(q)

Spec == Init /\ [][Next]_vars

(* The watcher's ticker runs for ever (the ETL page need never reload      *)
(* again), a Reload goes on and does not fail for ever, the mutex is fair  *)
(* to those that wait for it, and queries end.                             *)
Fairness ==
  /\ WF_vars(Stat(Watcher))
  /\ \A r \in Reloader : /\ WF_vars(Install(r)) /\ WF_vars(CloseOld(r))
                         /\ SF_vars(Compare(r)) /\ SF_vars(Open(r)) /\ SF_vars(Announce(r))
  /\ \A q \in Query : WF_vars(Finish(q))

FairSpec == Spec /\ Fairness

-----------------------------------------------------------------------------
(* Properties.                                                             *)

(* No query ever runs on a database that has been closed, although the old *)
(* one is closed outside the lock ("closes the old one after running       *)
(* queries finish").                                                       *)
NoQueryOnClosed == \A q \in Query : using[q] # None => version[using[q]] # 0

(* When the recorded file information says the open database is current,   *)
(* it is: a swap between Stat and ATTACH, or two reloaders that overtake   *)
(* each other, never leave an old file open that no later Reload notices.  *)
CurrentIsCurrent == stat # 0 /\ stat = file => db # None /\ version[db] = file

(* Databases are not leaked: between reloads only the current one is open. *)
NothingLeaks ==
  (\A r \in Reloader : pc[r] = "idle") => \A d \in Database : version[d] # 0 => d = db

(* Once builds stop, every query is given the latest file, however the     *)
(* watcher and the ETL page overtook each other before.                    *)
EventuallyLatest == <>[](file > 0 => db # None /\ version[db] = file)

-----------------------------------------------------------------------------
(* Why it works: an inductive invariant.                                   *)

(* A database belongs to the server, to one reloader, or to nobody and is  *)
(* then closed.                                                            *)
Owners ==
  /\ \A r \in Reloader : mine[r] # None =>
       /\ mine[r] # db
       /\ version[mine[r]] # 0
       /\ \A o \in Reloader : mine[o] = mine[r] => o = r
  /\ \A d \in Database : version[d] # 0 => d = db \/ \E r \in Reloader : mine[r] = d
  /\ \A r \in Reloader : /\ pc[r] \in {"idle", "compare", "open"} => mine[r] = None
                         /\ pc[r] \in {"announce", "lock"} => mine[r] # None

(* What a reloader has opened is at least as new as what it saw, and the   *)
(* open database at least as new as the recorded file.                     *)
NewerThanSeen ==
  /\ \A d \in Database : version[d] <= file
  /\ \A r \in Reloader : /\ seen[r] <= file
                         /\ pc[r] # "idle" => seen[r] # 0
                         /\ pc[r] \in {"announce", "lock"} => seen[r] <= version[mine[r]]
  /\ db = None <=> stat = 0
  /\ db # None => version[db] # 0 /\ stat <= version[db]

(* Running queries use the open database.                                  *)
QueriesUseCurrent == \A q \in Query : using[q] # None => using[q] = db

IInv == TypeOK /\ Owners /\ NewerThanSeen /\ QueriesUseCurrent
=============================================================================
