------------------------------ MODULE EtlBuild ------------------------------
(***************************************************************************)
(* How the warehouse file is replaced: internal/warehouse/etl.go (Go) and  *)
(* Etl/WarehouseBuilder.cs (.NET), which share the data directory, its     *)
(* lock file and its layout.                                               *)
(*                                                                         *)
(* A builder is one run of either program: `duckstore etl`, the ETL button *)
(* of the Go server, the .NET command line or the .NET service.  It takes  *)
(* the lock, writes a new file beside the current one, and renames it over *)
(* the current one; a full build does the same with the Parquet directory. *)
(* A run can fail or its process can die between any two steps.            *)
(*                                                                         *)
(* The contents of a file are abstracted to the watermark it was built     *)
(* with, whether it is complete, and whether it records the extraction     *)
(* time an incremental run starts from.                                    *)
(***************************************************************************)
EXTENDS Integers

CONSTANTS
  Builder,      \* runs that may build
  DotNet,       \* those of the .NET program; the others are Go
  MaxOrder,     \* bound: the highest order id the store reaches
  MaxFailures,  \* bound: how many runs fail or crash
  None          \* nobody holds the lock

ASSUME BuilderAssumption ==
  /\ DotNet \subseteq Builder
  /\ MaxOrder \in Nat
  /\ MaxFailures \in Nat
  /\ None \notin Builder

VARIABLES
  store,     \* the highest order id committed in PostgreSQL
  lock,      \* the run that holds the flock on etl.lock
  disk,      \* what is at each path of the data directory
  pc,        \* the step each run takes next
  mode,      \* full or incremental
  upTo,      \* the watermark each run read
  result,    \* how the last build of each run ended
  before,    \* history: the warehouse file when the run took the lock
  failures   \* failures and crashes so far

vars == <<store, lock, disk, pc, mode, upTo, result, before, failures>>

Mode   == {"full", "incremental"}
Result == {"none", "ok", "busy", "failed", "crashed"}
Path   == {"warehouse", "building", "parquet", "parquetBuilding"}
Step   == {"idle", "clean", "cleanParquet", "copy", "watermark", "load", "export", "close",
           "swap", "dropParquet", "dropRest", "swapParquet", "unlock"}

(* timed: dw.etl_info has the column extracted_at.                         *)
File   == [there : BOOLEAN, whole : BOOLEAN, upTo : Nat, timed : BOOLEAN]
NoFile == [there |-> FALSE, whole |-> FALSE, upTo |-> 0, timed |-> FALSE]

(* Every variable has its type.                                            *)
TypeOK ==
  /\ store \in Nat
  /\ lock \in Builder \cup {None}
  /\ disk \in [Path -> File]
  /\ pc \in [Builder -> Step]
  /\ mode \in [Builder -> Mode]
  /\ upTo \in [Builder -> Nat]
  /\ result \in [Builder -> Result]
  /\ before \in [Builder -> File]
  /\ failures \in Nat

Init ==
  /\ store = 0
  /\ lock = None
  /\ disk = [p \in Path |-> NoFile]
  /\ pc = [b \in Builder |-> "idle"]
  /\ mode = [b \in Builder |-> "full"]
  /\ upTo = [b \in Builder |-> 0]
  /\ result = [b \in Builder |-> "none"]
  /\ before = [b \in Builder |-> NoFile]
  /\ failures = 0

-----------------------------------------------------------------------------

(* The store goes on taking orders.                                        *)
PlaceOrder ==
  /\ store < MaxOrder
  /\ store' = store + 1
  /\ UNCHANGED <<lock, disk, pc, mode, upTo, result, before, failures>>

(* A step of a run that holds the lock: it leads to the next step.         *)
Goes(b, from, to) == pc[b] = from /\ pc' = [pc EXCEPT ![b] = to]

Put(path, file)   == disk' = [disk EXCEPT ![path] = file]
Rename(from, to)  == disk' = [disk EXCEPT ![to] = disk[from], ![from] = NoFile]

Full(b) == mode[b] = "full"

LockFree_NoFlock(b) == TRUE
LockFree(b) == lock = None

(* LOCK_EX | LOCK_NB: the lock is taken or the run ends at once.  Only the *)
(* .NET program knows incremental runs.                                    *)
Lock(b, m) ==
  /\ LockFree(b)
  /\ m = "incremental" => b \in DotNet
  /\ Goes(b, "idle", "clean")
  /\ lock' = b
  /\ mode' = [mode EXCEPT ![b] = m]
  /\ result' = [result EXCEPT ![b] = "none"]
  /\ before' = [before EXCEPT ![b] = disk["warehouse"]]
  /\ UNCHANGED <<store, disk, upTo, failures>>

AlreadyRunning(b) ==
  /\ pc[b] = "idle"
  /\ ~LockFree(b)
  /\ result' = [result EXCEPT ![b] = "busy"]
  /\ UNCHANGED <<store, lock, disk, pc, mode, upTo, before, failures>>

(* What an interrupted run left behind is removed.                         *)
RemoveBuilding(b) ==
  /\ Goes(b, "clean", "cleanParquet")
  /\ Put("building", NoFile)
  /\ UNCHANGED <<store, lock, mode, upTo, result, before, failures>>

RemoveParquetBuilding(b) ==
  /\ Goes(b, "cleanParquet", IF Full(b) THEN "watermark" ELSE "copy")
  /\ Put("parquetBuilding", NoFile)
  /\ UNCHANGED <<store, lock, mode, upTo, result, before, failures>>

(* An incremental run starts from a copy of the current warehouse.         *)
CopyWarehouse_Moved(b) ==
  /\ disk["warehouse"].there
  /\ Goes(b, "copy", "watermark")
  /\ Rename("warehouse", "building")
  /\ UNCHANGED <<store, lock, mode, upTo, result, before, failures>>
CopyWarehouse(b) ==
  /\ disk["warehouse"].there
  /\ Goes(b, "copy", "watermark")
  /\ Put("building", disk["warehouse"])
  /\ UNCHANGED <<store, lock, mode, upTo, result, before, failures>>

(* The new file is opened and max(id) of the orders read.                  *)
ReadWatermark(b) ==
  /\ Goes(b, "watermark", "load")
  /\ Put("building", [disk["building"] EXCEPT !.there = TRUE, !.whole = FALSE])
  /\ upTo' = [upTo EXCEPT ![b] = store]
  /\ UNCHANGED <<store, lock, mode, result, before, failures>>

(* The scripts run and the metadata tables are written.  An incremental    *)
(* run needs the extraction time of the file it started from.              *)
Load(b) ==
  /\ ~Full(b) => disk["building"].timed
  /\ Goes(b, "load", IF Full(b) THEN "export" ELSE "close")
  /\ Put("building", [there |-> TRUE, whole |-> FALSE, upTo |-> upTo[b], timed |-> b \in DotNet])
  /\ UNCHANGED <<store, lock, mode, upTo, result, before, failures>>

Export(b) ==
  /\ Goes(b, "export", "close")
  /\ Put("parquetBuilding", [there |-> TRUE, whole |-> TRUE, upTo |-> upTo[b], timed |-> FALSE])
  /\ UNCHANGED <<store, lock, mode, upTo, result, before, failures>>

(* CHECKPOINT and close.                                                   *)
Close_Unfinished(b) ==
  /\ Goes(b, "close", "swap")
  /\ UNCHANGED <<store, lock, disk, mode, upTo, result, before, failures>>
Close(b) ==
  /\ Goes(b, "close", "swap")
  /\ Put("building", [disk["building"] EXCEPT !.whole = TRUE])
  /\ UNCHANGED <<store, lock, mode, upTo, result, before, failures>>

Swap(b) ==
  /\ Goes(b, "swap", IF Full(b) THEN "dropParquet" ELSE "unlock")
  /\ Rename("building", "warehouse")
  /\ UNCHANGED <<store, lock, mode, upTo, result, before, failures>>

(* Removing a directory is not atomic: first some files are gone.          *)
DropParquet(b) ==
  /\ Goes(b, "dropParquet", "dropRest")
  /\ Put("parquet", [disk["parquet"] EXCEPT !.whole = FALSE])
  /\ UNCHANGED <<store, lock, mode, upTo, result, before, failures>>

DropTheRest(b) ==
  /\ Goes(b, "dropRest", "swapParquet")
  /\ Put("parquet", NoFile)
  /\ UNCHANGED <<store, lock, mode, upTo, result, before, failures>>

SwapParquet_NotRenamed(b) ==
  /\ Goes(b, "swapParquet", "unlock")
  /\ UNCHANGED <<store, lock, disk, mode, upTo, result, before, failures>>
SwapParquet(b) ==
  /\ Goes(b, "swapParquet", "unlock")
  /\ Rename("parquetBuilding", "parquet")
  /\ UNCHANGED <<store, lock, mode, upTo, result, before, failures>>

(* The variables of a run that has returned, or died, are gone.            *)
Forget(ended) ==
  /\ mode' = [b \in Builder |-> IF b \in ended THEN "full" ELSE mode[b]]
  /\ upTo' = [b \in Builder |-> IF b \in ended THEN 0 ELSE upTo[b]]
  /\ before' = [b \in Builder |-> IF b \in ended THEN NoFile ELSE before[b]]

Unlock(b) ==
  /\ Goes(b, "unlock", "idle")
  /\ lock' = None
  /\ result' = [result EXCEPT ![b] = "ok"]
  /\ Forget({b})
  /\ UNCHANGED <<store, disk, failures>>

(* A run that ends early releases the lock: the deferred unlock when a     *)
(* step returns an error, the operating system when the process dies.      *)
Freed_LockFileLeft == lock
Freed == None

EndsEarly(b, how) ==
  /\ Goes(b, pc[b], "idle")
  /\ lock' = Freed
  /\ result' = [result EXCEPT ![b] = how]
  /\ failures' = failures + 1
  /\ Forget({b})
  /\ UNCHANGED <<store, disk>>

(* No warehouse to start from, or one without an extraction time.          *)
CannotIncrement(b) ==
  \/ pc[b] = "copy" /\ ~disk["warehouse"].there
  \/ pc[b] = "load" /\ ~Full(b) /\ ~disk["building"].timed

NotIncremental(b) ==
  /\ CannotIncrement(b)
  /\ Goes(b, pc[b], "idle")
  /\ lock' = Freed
  /\ result' = [result EXCEPT ![b] = "failed"]
  /\ Forget({b})
  /\ UNCHANGED <<store, disk, failures>>

Fail(b)  == pc[b] \notin {"idle", "unlock"} /\ failures < MaxFailures /\ EndsEarly(b, "failed")
Crash(b) == pc[b] # "idle" /\ failures < MaxFailures /\ EndsEarly(b, "crashed")

-----------------------------------------------------------------------------

Work(b) == \/ RemoveBuilding(b) \/ RemoveParquetBuilding(b) \/ CopyWarehouse(b)
           \/ ReadWatermark(b) \/ Load(b) \/ Export(b) \/ Close(b) \/ Swap(b)
           \/ DropParquet(b) \/ DropTheRest(b) \/ SwapParquet(b) \/ Unlock(b)
           \/ NotIncremental(b)

Next ==
  \/ PlaceOrder
  \/ \E b \in Builder : \/ \E m \in Mode : Lock(b, m)
                        \/ AlreadyRunning(b) \/ Work(b) \/ Fail(b) \/ Crash(b)

Spec == Init /\ [][Next]_vars

(* A run that has the lock goes on, and full builds go on being asked for  *)
(* (the schedule, cron or a user): while the lock keeps coming free, one   *)
(* of them gets it.                                                        *)
Fairness == /\ \A b \in Builder : WF_vars(Work(b))
            /\ SF_vars(\E b \in Builder : Lock(b, "full"))

FairSpec == Spec /\ Fairness

-----------------------------------------------------------------------------
(* Properties.                                                             *)

(* Readers never meet a half-written warehouse: whatever is at the path    *)
(* was closed before it was renamed there, with two runs at a time and     *)
(* with leftovers of interrupted ones (Build, swap).                       *)
WarehouseIsWhole == disk["warehouse"].there => disk["warehouse"].whole

(* The warehouse never disappears and never goes back to an older state of *)
(* the store: a run reads its watermark after it has the lock, so a slow   *)
(* run cannot rename an older file over a newer one.                       *)
NeverGoesBack ==
  [][disk["warehouse"].there =>
       disk'["warehouse"].there /\ disk["warehouse"].upTo <= disk'["warehouse"].upTo]_disk

(* What readers find at a path: the orders of a whole file, nothing (-1),  *)
(* or something half-written or half-removed (-2).                         *)
Readable(path) ==
  IF ~disk[path].there THEN -1 ELSE IF disk[path].whole THEN disk[path].upTo ELSE -2

(* To readers, the steps of any number of runs are a series of publications *)
(* (PublishedWarehouse): each replaces the warehouse as a whole by one at  *)
(* least as new, and the Parquet files come back as those of the warehouse *)
(* (Build and BuildAsync, the renames and their order).                    *)
Warehouse == INSTANCE PublishedWarehouse WITH warehouse <- Readable("warehouse"),
                                              parquet   <- Readable("parquet")
ImplementsWarehouse == Warehouse!Spec

(* The Parquet files are never ahead of the warehouse: they show no order  *)
(* the warehouse does not have, also after a crash between the renames.    *)
ParquetNotAhead == disk["parquet"].there => disk["parquet"].upTo <= disk["warehouse"].upTo

(* A build that ends well leaves its own data in the warehouse, and a full *)
(* one in the Parquet directory too.                                       *)
Published ==
  [][\A b \in Builder : result'[b] = "ok" /\ result[b] # "ok" =>
       /\ disk'["warehouse"].upTo = upTo[b]
       /\ Full(b) => disk'["parquet"].whole /\ disk'["parquet"].upTo = upTo[b]]_vars

(* A run that fails or dies has either not touched the warehouse or has    *)
(* replaced it by its own, complete one; the report of a failure does not  *)
(* say which ("a failed build never breaks the current warehouse").        *)
AllOrNothing ==
  [][\A b \in Builder : result'[b] \in {"failed", "crashed"} /\ result' # result /\ pc[b] # "idle" =>
       \/ disk'["warehouse"] = before[b]
       \/ disk'["warehouse"].whole /\ disk'["warehouse"].upTo = upTo[b]]_vars

(* Once failures stop, every order gets into the warehouse and into the    *)
(* Parquet files: no leftover and no lock of a dead run stops later runs.  *)
EventuallyPublished ==
  []<>(\A path \in {"warehouse", "parquet"} : disk[path].whole /\ disk[path].upTo = store)

-----------------------------------------------------------------------------
(* Why it works: an inductive invariant.                                   *)

(* Exactly the run that holds the lock is at work.                         *)
LockIsHeld == \A b \in Builder : pc[b] # "idle" <=> lock = b

(* The .building file is the holder's: it carries the holder's watermark   *)
(* once loaded, and is complete when it is time to rename it.              *)
BuildingIsMine ==
  \A b \in Builder :
    /\ pc[b] \in {"export", "close", "swap"} =>
         disk["building"].there /\ disk["building"].upTo = upTo[b]
    /\ pc[b] = "swap" => disk["building"].whole

(* So is the Parquet directory beside it.                                  *)
ParquetSteps == {"export", "dropParquet", "dropRest", "swapParquet"}
ParquetIsMine ==
  \A b \in Builder :
    /\ pc[b] \in ParquetSteps => Full(b)
    /\ Full(b) /\ pc[b] \in {"close", "swap", "dropParquet", "dropRest", "swapParquet"} =>
         disk["parquetBuilding"].whole /\ disk["parquetBuilding"].upTo = upTo[b]
    /\ Full(b) /\ pc[b] = "unlock" => disk["parquet"].whole /\ disk["parquet"].upTo = upTo[b]

(* Nobody has seen more of the store than there is; the holder's watermark *)
(* is at least the warehouse's, and equal to it after the rename.          *)
WatermarkOrder ==
  /\ disk["warehouse"].upTo <= store
  /\ \A b \in Builder :
       /\ upTo[b] <= store
       /\ pc[b] \in {"load", "export", "close", "swap"} => disk["warehouse"].upTo <= upTo[b]
       /\ pc[b] \in {"dropParquet", "dropRest", "swapParquet", "unlock"} =>
            disk["warehouse"].there /\ disk["warehouse"].upTo = upTo[b]

(* The warehouse is the one the holder found until it renames its own.     *)
UntouchedUntilSwap ==
  \A b \in Builder :
    pc[b] \in {"clean", "cleanParquet", "copy", "watermark", "load", "export", "close", "swap"} =>
      disk["warehouse"] = before[b]

IInv == /\ TypeOK /\ LockIsHeld /\ BuildingIsMine /\ ParquetIsMine /\ WatermarkOrder
        /\ UntouchedUntilSwap /\ WarehouseIsWhole /\ ParquetNotAhead
=============================================================================
