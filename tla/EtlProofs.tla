------------------------------ MODULE EtlProofs ------------------------------
(***************************************************************************)
(* Proofs about EtlBuild and EtlRunner.                                    *)
(*                                                                         *)
(* EtlBuild, for any number of runs and any bounds: the inductive          *)
(* invariant IInv, and from it that readers never meet a half-written      *)
(* warehouse, that it never goes back in time, that the Parquet files are  *)
(* never ahead of it, that a build that ends well has published its data   *)
(* and that one that fails has changed all or nothing.                     *)
(*                                                                         *)
(* EtlRunner, for any number of servers, tasks and command lines: the      *)
(* inductive invariant RInv, and from it that a page that shows no running *)
(* run tells the truth, and that a run that ended without an error covers  *)
(* what was in the store when it was asked for.                            *)
(***************************************************************************)
EXTENDS EtlRunner, TLAPS

-----------------------------------------------------------------------------
(* The builds.                                                             *)

(* The parts of the invariant about files, that is, all but its type.      *)
FileInv == /\ LockIsHeld /\ BuildingIsMine /\ ParquetIsMine /\ WatermarkOrder
           /\ WarehouseIsWhole /\ ParquetNotAhead

(* The steps of a run that only it can take: it holds the lock.            *)
LEMMA HolderIsAlone ==
  ASSUME LockIsHeld, NEW b \in Builder, pc[b] # "idle"
  PROVE  /\ lock = b
         /\ \A x \in Builder : x # b => pc[x] = "idle"
BY DEF LockIsHeld

(* Init establishes the invariant.                                         *)
LEMMA InitInv == Init => IInv
<1> SUFFICES ASSUME Init PROVE IInv
  OBVIOUS
<1> USE BuilderAssumption DEF Init
<1>1. TypeOK
  BY DEF TypeOK, NoFile, File, Path, Mode, Step, Result
<1>2. LockIsHeld
  BY DEF LockIsHeld
<1>3. BuildingIsMine /\ ParquetIsMine
  BY DEF BuildingIsMine, ParquetIsMine, ParquetSteps, Full
<1>4. WatermarkOrder /\ WarehouseIsWhole /\ ParquetNotAhead
  BY DEF WatermarkOrder, WarehouseIsWhole, ParquetNotAhead, NoFile, Path
<1>5. UntouchedUntilSwap
  BY DEF UntouchedUntilSwap
<1> QED
  BY <1>1, <1>2, <1>3, <1>4, <1>5 DEF IInv

-----------------------------------------------------------------------------
(* Types.                                                                  *)

(* A run that moves on keeps pc well typed.                                *)
LEMMA GoesType ==
  ASSUME TypeOK, NEW b \in Builder, NEW from, NEW to \in Step, Goes(b, from, to)
  PROVE  pc' \in [Builder -> Step]
BY DEF TypeOK, Goes

(* So does disk when a file is put at a path.                              *)
LEMMA PutType ==
  ASSUME TypeOK, NEW p \in Path, NEW f \in File, Put(p, f)
  PROVE  disk' \in [Path -> File]
BY DEF TypeOK, Put

(* And when a file is renamed.                                             *)
LEMMA RenameType ==
  ASSUME TypeOK, NEW p \in Path, NEW q \in Path, Rename(p, q)
  PROVE  disk' \in [Path -> File]
BY DEF TypeOK, Rename, NoFile, File

(* When runs end, only their own variables go.                             *)
LEMMA Forgotten ==
  ASSUME TypeOK, NEW ended \in SUBSET Builder, Forget(ended)
  PROVE  /\ mode' \in [Builder -> Mode] /\ upTo' \in [Builder -> Nat] /\ before' \in [Builder -> File]
         /\ \A x \in Builder : x \notin ended =>
              mode'[x] = mode[x] /\ upTo'[x] = upTo[x] /\ before'[x] = before[x]
         /\ \A x \in Builder : upTo'[x] = 0 \/ upTo'[x] = upTo[x]
<1>1. NoFile \in File /\ "full" \in Mode
  BY DEF NoFile, File, Mode
<1> QED
  BY <1>1 DEF Forget, TypeOK

(* Every step keeps the types.                                             *)
LEMMA TypeInv == TypeOK /\ [Next]_vars => TypeOK'
<1> SUFFICES ASSUME TypeOK, [Next]_vars PROVE TypeOK'
  OBVIOUS
<1> USE BuilderAssumption
<1>1. CASE PlaceOrder
  BY <1>1 DEF PlaceOrder, TypeOK
<1>2. CASE UNCHANGED vars
  BY <1>2 DEF vars, TypeOK
<1>3. ASSUME NEW b \in Builder, NEW m \in Mode, Lock(b, m)
      PROVE  TypeOK'
  <2>1. pc' \in [Builder -> Step]
    BY <1>3, GoesType DEF Lock, Step
  <2>2. result' \in [Builder -> Result]
    BY <1>3 DEF Lock, TypeOK, Result
  <2>3. before' \in [Builder -> File]
    BY <1>3 DEF Lock, TypeOK, Path
  <2> QED
    BY <1>3, <2>1, <2>2, <2>3 DEF Lock, TypeOK
<1>4. ASSUME NEW b \in Builder, AlreadyRunning(b)
      PROVE  TypeOK'
  <2>1. result' \in [Builder -> Result]
    BY <1>4 DEF AlreadyRunning, TypeOK, Result
  <2> QED
    BY <1>4, <2>1 DEF AlreadyRunning, TypeOK
<1>5. ASSUME NEW b \in Builder, Work(b)
      PROVE  TypeOK'
  <2>1. NoFile \in File
    BY DEF NoFile, File
  <2>2. disk["building"] \in File /\ disk["parquet"] \in File /\ disk["warehouse"] \in File
    BY DEF TypeOK, Path
  <2> USE <2>1, <2>2
  <2>3. CASE RemoveBuilding(b)
    <3>1. pc' \in [Builder -> Step]
      BY <2>3, GoesType DEF RemoveBuilding, Step
    <3>2. disk' \in [Path -> File]
      BY <2>3, PutType DEF RemoveBuilding, Path
    <3> QED
      BY <2>3, <3>1, <3>2 DEF RemoveBuilding, TypeOK
  <2>4. CASE RemoveParquetBuilding(b)
    <3>1. pc' \in [Builder -> Step]
      BY <2>4, GoesType DEF RemoveParquetBuilding, Step
    <3>2. disk' \in [Path -> File]
      BY <2>4, PutType DEF RemoveParquetBuilding, Path
    <3> QED
      BY <2>4, <3>1, <3>2 DEF RemoveParquetBuilding, TypeOK
  <2>5. CASE CopyWarehouse(b)
    <3>1. pc' \in [Builder -> Step]
      BY <2>5, GoesType DEF CopyWarehouse, Step
    <3>2. disk' \in [Path -> File]
      BY <2>5, PutType DEF CopyWarehouse, Path
    <3> QED
      BY <2>5, <3>1, <3>2 DEF CopyWarehouse, TypeOK
  <2>6. CASE ReadWatermark(b)
    <3>1. pc' \in [Builder -> Step]
      BY <2>6, GoesType DEF ReadWatermark, Step
    <3>2. [disk["building"] EXCEPT !.there = TRUE, !.whole = FALSE] \in File
      BY DEF File
    <3>3. disk' \in [Path -> File]
      BY <2>6, <3>2, PutType DEF ReadWatermark, Path
    <3> QED
      BY <2>6, <3>1, <3>3 DEF ReadWatermark, TypeOK
  <2>7. CASE Load(b)
    <3>1. pc' \in [Builder -> Step]
      BY <2>7, GoesType DEF Load, Step
    <3>2. [there |-> TRUE, whole |-> FALSE, upTo |-> upTo[b], timed |-> b \in DotNet] \in File
      BY DEF File, TypeOK
    <3>3. disk' \in [Path -> File]
      BY <2>7, <3>2, PutType DEF Load, Path
    <3> QED
      BY <2>7, <3>1, <3>3 DEF Load, TypeOK
  <2>8. CASE Export(b)
    <3>1. pc' \in [Builder -> Step]
      BY <2>8, GoesType DEF Export, Step
    <3>2. [there |-> TRUE, whole |-> TRUE, upTo |-> upTo[b], timed |-> FALSE] \in File
      BY DEF File, TypeOK
    <3>3. disk' \in [Path -> File]
      BY <2>8, <3>2, PutType DEF Export, Path
    <3> QED
      BY <2>8, <3>1, <3>3 DEF Export, TypeOK
  <2>9. CASE Close(b)
    <3>1. pc' \in [Builder -> Step]
      BY <2>9, GoesType DEF Close, Step
    <3>2. [disk["building"] EXCEPT !.whole = TRUE] \in File
      BY DEF File
    <3>3. disk' \in [Path -> File]
      BY <2>9, <3>2, PutType DEF Close, Path
    <3> QED
      BY <2>9, <3>1, <3>3 DEF Close, TypeOK
  <2>10. CASE Swap(b)
    <3>1. pc' \in [Builder -> Step]
      BY <2>10, GoesType DEF Swap, Step
    <3>2. disk' \in [Path -> File]
      BY <2>10, RenameType DEF Swap, Path
    <3> QED
      BY <2>10, <3>1, <3>2 DEF Swap, TypeOK
  <2>11. CASE DropParquet(b)
    <3>1. pc' \in [Builder -> Step]
      BY <2>11, GoesType DEF DropParquet, Step
    <3>2. [disk["parquet"] EXCEPT !.whole = FALSE] \in File
      BY DEF File
    <3>3. disk' \in [Path -> File]
      BY <2>11, <3>2, PutType DEF DropParquet, Path
    <3> QED
      BY <2>11, <3>1, <3>3 DEF DropParquet, TypeOK
  <2>12. CASE DropTheRest(b)
    <3>1. pc' \in [Builder -> Step]
      BY <2>12, GoesType DEF DropTheRest, Step
    <3>2. disk' \in [Path -> File]
      BY <2>12, PutType DEF DropTheRest, Path
    <3> QED
      BY <2>12, <3>1, <3>2 DEF DropTheRest, TypeOK
  <2>13. CASE SwapParquet(b)
    <3>1. pc' \in [Builder -> Step]
      BY <2>13, GoesType DEF SwapParquet, Step
    <3>2. disk' \in [Path -> File]
      BY <2>13, RenameType DEF SwapParquet, Path
    <3> QED
      BY <2>13, <3>1, <3>2 DEF SwapParquet, TypeOK
  <2>14. CASE Unlock(b)
    <3>1. pc' \in [Builder -> Step]
      BY <2>14, GoesType DEF Unlock, Step
    <3>2. result' \in [Builder -> Result]
      BY <2>14 DEF Unlock, TypeOK, Result
    <3> QED
      BY <2>14, <3>1, <3>2, Forgotten DEF Unlock, TypeOK
  <2>15. CASE NotIncremental(b)
    <3>1. pc' \in [Builder -> Step]
      BY <2>15, GoesType DEF NotIncremental, Step
    <3>2. result' \in [Builder -> Result]
      BY <2>15 DEF NotIncremental, TypeOK, Result
    <3> QED
      BY <2>15, <3>1, <3>2, Forgotten DEF NotIncremental, Freed, TypeOK
  <2> QED
    BY <1>5, <2>3, <2>4, <2>5, <2>6, <2>7, <2>8, <2>9, <2>10, <2>11, <2>12, <2>13, <2>14, <2>15
       DEF Work
<1>6. ASSUME NEW b \in Builder, NEW how \in {"failed", "crashed"}, EndsEarly(b, how)
      PROVE  TypeOK'
  <2>1. pc' \in [Builder -> Step]
    BY <1>6, GoesType DEF EndsEarly, Step
  <2>2. result' \in [Builder -> Result]
    BY <1>6 DEF EndsEarly, TypeOK, Result
  <2> QED
    BY <1>6, <2>1, <2>2, Forgotten DEF EndsEarly, Freed, TypeOK
<1> QED
  BY <1>1, <1>2, <1>3, <1>4, <1>5, <1>6 DEF Next, Fail, Crash

-----------------------------------------------------------------------------
(* Files.                                                                  *)

(* A step of the holder that keeps the lock: the others stay idle.         *)
LEMMA GoesOn ==
  ASSUME TypeOK, LockIsHeld, NEW b \in Builder, NEW from, NEW to,
         from # "idle", to # "idle", Goes(b, from, to), lock' = lock
  PROVE  /\ LockIsHeld'
         /\ pc[b] = from /\ pc'[b] = to
         /\ \A x \in Builder : x # b => pc'[x] = "idle"
<1>1. pc[b] = from /\ pc'[b] = to /\ \A x \in Builder : x # b => pc'[x] = pc[x]
  BY DEF Goes, TypeOK
<1>2. \A x \in Builder : x # b => pc'[x] = "idle"
  BY <1>1, HolderIsAlone
<1> QED
  BY <1>1, <1>2, HolderIsAlone DEF LockIsHeld

(* When the lock comes free, nobody is at work.                            *)
LEMMA GoesIdle ==
  ASSUME TypeOK, LockIsHeld, NEW b \in Builder, pc[b] # "idle",
         NEW from, Goes(b, from, "idle"), lock' = None
  PROVE  LockIsHeld' /\ \A x \in Builder : pc'[x] = "idle"
<1>1. pc'[b] = "idle" /\ \A x \in Builder : x # b => pc'[x] = pc[x]
  BY DEF Goes, TypeOK
<1> QED
  BY <1>1, HolderIsAlone, BuilderAssumption DEF LockIsHeld

(* Then what is on disk is all that matters.                               *)
LEMMA NoneAtWork ==
  ASSUME TypeOK, FileInv, NEW b \in Builder, Forget({b}), UNCHANGED <<store, disk>>,
         LockIsHeld', \A x \in Builder : pc'[x] = "idle"
  PROVE  FileInv'
<1>1. store \in Nat /\ \A x \in Builder : upTo'[x] <= store
  BY Forgotten DEF TypeOK, FileInv, WatermarkOrder
<1>2. BuildingIsMine' /\ ParquetIsMine'
  BY DEF BuildingIsMine, ParquetIsMine, ParquetSteps
<1>3. WatermarkOrder' /\ WarehouseIsWhole' /\ ParquetNotAhead'
  BY <1>1 DEF FileInv, WatermarkOrder, WarehouseIsWhole, ParquetNotAhead
<1> QED
  BY <1>2, <1>3 DEF FileInv

(* Every step keeps the invariant about files.                             *)
LEMMA FileStep == IInv /\ [Next]_vars => FileInv'
<1> SUFFICES ASSUME IInv, [Next]_vars PROVE FileInv'
  OBVIOUS
<1>0. TypeOK /\ LockIsHeld /\ FileInv
  BY DEF IInv, FileInv
<1>1. CASE PlaceOrder
  <2>1. disk["warehouse"].upTo \in Nat /\ store \in Nat /\ \A x \in Builder : upTo[x] \in Nat
    BY <1>0 DEF TypeOK, Path, File
  <2> QED
    BY <1>0, <1>1, <2>1 DEF PlaceOrder, FileInv, LockIsHeld, BuildingIsMine, ParquetIsMine, ParquetSteps,
              WatermarkOrder, WarehouseIsWhole, ParquetNotAhead, Full
<1>2. CASE UNCHANGED vars
  BY <1>0, <1>2 DEF vars, FileInv, LockIsHeld, BuildingIsMine, ParquetIsMine, ParquetSteps,
              WatermarkOrder, WarehouseIsWhole, ParquetNotAhead, Full
<1>3. ASSUME NEW b \in Builder, NEW m \in Mode, Lock(b, m)
      PROVE  FileInv'
  <2>1. \A x \in Builder : pc[x] = "idle"
    BY <1>0, <1>3, BuilderAssumption DEF Lock, LockFree, LockIsHeld
  <2>2. pc'[b] = "clean" /\ \A x \in Builder : x # b => pc'[x] = "idle"
    BY <1>0, <1>3, <2>1 DEF Lock, Goes, TypeOK
  <2>3. UNCHANGED <<store, disk, upTo>> /\ lock' = b
    BY <1>3 DEF Lock
  <2> QED
    BY <1>0, <2>2, <2>3 DEF FileInv, LockIsHeld, BuildingIsMine, ParquetIsMine, ParquetSteps,
              WatermarkOrder, WarehouseIsWhole, ParquetNotAhead, Full
<1>4. ASSUME NEW b \in Builder, AlreadyRunning(b)
      PROVE  FileInv'
  BY <1>0, <1>4 DEF AlreadyRunning, FileInv, LockIsHeld, BuildingIsMine, ParquetIsMine, ParquetSteps,
              WatermarkOrder, WarehouseIsWhole, ParquetNotAhead, Full
<1>5. ASSUME NEW b \in Builder, NEW how, EndsEarly(b, how), pc[b] # "idle"
      PROVE  FileInv'
  <2>1. LockIsHeld' /\ \A x \in Builder : pc'[x] = "idle"
    BY <1>0, <1>5, GoesIdle DEF EndsEarly, Freed
  <2>2. UNCHANGED <<store, disk>> /\ Forget({b})
    BY <1>5 DEF EndsEarly
  <2> QED
    BY <1>0, <2>1, <2>2, NoneAtWork
<1>6. ASSUME NEW b \in Builder, Work(b)
      PROVE  FileInv'
  <2>0. disk \in [Path -> File] /\ upTo \in [Builder -> Nat] /\ store \in Nat /\ upTo[b] \in Nat
        /\ disk["warehouse"] \in File /\ disk["building"] \in File
        /\ disk["parquet"] \in File /\ disk["parquetBuilding"] \in File
    BY <1>0 DEF TypeOK, Path
  <2>3. CASE RemoveBuilding(b)
    <3>1. Goes(b, "clean", "cleanParquet")
          /\ UNCHANGED <<store, lock, mode, upTo>>
      BY <2>3 DEF RemoveBuilding
    <3>2. LockIsHeld' /\ pc[b] = "clean" /\ pc'[b] = "cleanParquet"
          /\ \A x \in Builder : x # b => pc'[x] = "idle"
      BY <1>0, <3>1, GoesOn
    <3>3. /\ disk'["warehouse"] = disk["warehouse"]
          /\ disk'["building"] = NoFile
          /\ disk'["parquet"] = disk["parquet"]
          /\ disk'["parquetBuilding"] = disk["parquetBuilding"]
      BY <2>0, <2>3 DEF RemoveBuilding, Put, Path
    <3> QED
      BY <1>0, <2>0, <3>1, <3>2, <3>3 DEF FileInv, BuildingIsMine, ParquetIsMine, ParquetSteps,
           WatermarkOrder, WarehouseIsWhole, ParquetNotAhead, Full, NoFile
  <2>4. CASE RemoveParquetBuilding(b)
    <3>1. Goes(b, "cleanParquet", IF Full(b) THEN "watermark" ELSE "copy")
          /\ UNCHANGED <<store, lock, mode, upTo>>
      BY <2>4 DEF RemoveParquetBuilding
    <3>2. LockIsHeld' /\ pc[b] = "cleanParquet" /\ pc'[b] = (IF Full(b) THEN "watermark" ELSE "copy")
          /\ \A x \in Builder : x # b => pc'[x] = "idle"
      <4>1. PICK to \in Step \ {"idle"} : to = (IF Full(b) THEN "watermark" ELSE "copy")
        BY DEF Step
      <4> QED
        BY <1>0, <3>1, <4>1, GoesOn
    <3>3. /\ disk'["warehouse"] = disk["warehouse"]
          /\ disk'["building"] = disk["building"]
          /\ disk'["parquet"] = disk["parquet"]
          /\ disk'["parquetBuilding"] = NoFile
      BY <2>0, <2>4 DEF RemoveParquetBuilding, Put, Path
    <3> QED
      BY <1>0, <2>0, <3>1, <3>2, <3>3 DEF FileInv, BuildingIsMine, ParquetIsMine, ParquetSteps,
           WatermarkOrder, WarehouseIsWhole, ParquetNotAhead, Full, NoFile
  <2>5. CASE CopyWarehouse(b)
    <3>1. Goes(b, "copy", "watermark")
          /\ UNCHANGED <<store, lock, mode, upTo>>
      BY <2>5 DEF CopyWarehouse
    <3>2. LockIsHeld' /\ pc[b] = "copy" /\ pc'[b] = "watermark"
          /\ \A x \in Builder : x # b => pc'[x] = "idle"
      BY <1>0, <3>1, GoesOn
    <3>3. /\ disk'["warehouse"] = disk["warehouse"]
          /\ disk'["building"] = disk["warehouse"]
          /\ disk'["parquet"] = disk["parquet"]
          /\ disk'["parquetBuilding"] = disk["parquetBuilding"]
      BY <2>0, <2>5 DEF CopyWarehouse, Put, Path
    <3> QED
      BY <1>0, <2>0, <3>1, <3>2, <3>3 DEF FileInv, BuildingIsMine, ParquetIsMine, ParquetSteps,
           WatermarkOrder, WarehouseIsWhole, ParquetNotAhead, Full
  <2>6. CASE ReadWatermark(b)
    <3>1. Goes(b, "watermark", "load")
          /\ UNCHANGED <<store, lock, mode>>
      BY <2>6 DEF ReadWatermark
    <3>2. LockIsHeld' /\ pc[b] = "watermark" /\ pc'[b] = "load"
          /\ \A x \in Builder : x # b => pc'[x] = "idle"
      BY <1>0, <3>1, GoesOn
    <3>3. /\ disk'["warehouse"] = disk["warehouse"]
          /\ disk'["building"] = [disk["building"] EXCEPT !.there = TRUE, !.whole = FALSE]
          /\ disk'["parquet"] = disk["parquet"]
          /\ disk'["parquetBuilding"] = disk["parquetBuilding"]
      BY <2>0, <2>6 DEF ReadWatermark, Put, Path
    <3>4. upTo'[b] = store /\ \A x \in Builder : x # b => upTo'[x] = upTo[x]
      BY <2>0, <2>6 DEF ReadWatermark
    <3> QED
      BY <1>0, <2>0, <3>1, <3>2, <3>3, <3>4 DEF FileInv, BuildingIsMine, ParquetIsMine, ParquetSteps,
           WatermarkOrder, WarehouseIsWhole, ParquetNotAhead, Full
  <2>7. CASE Load(b)
    <3>1. Goes(b, "load", IF Full(b) THEN "export" ELSE "close")
          /\ UNCHANGED <<store, lock, mode, upTo>>
      BY <2>7 DEF Load
    <3>2. LockIsHeld' /\ pc[b] = "load" /\ pc'[b] = (IF Full(b) THEN "export" ELSE "close")
          /\ \A x \in Builder : x # b => pc'[x] = "idle"
      <4>1. PICK to \in Step \ {"idle"} : to = (IF Full(b) THEN "export" ELSE "close")
        BY DEF Step
      <4> QED
        BY <1>0, <3>1, <4>1, GoesOn
    <3>3. /\ disk'["warehouse"] = disk["warehouse"]
          /\ disk'["building"] = [there |-> TRUE, whole |-> FALSE, upTo |-> upTo[b], timed |-> b \in DotNet]
          /\ disk'["parquet"] = disk["parquet"]
          /\ disk'["parquetBuilding"] = disk["parquetBuilding"]
      BY <2>0, <2>7 DEF Load, Put, Path
    <3> QED
      BY <1>0, <2>0, <3>1, <3>2, <3>3 DEF FileInv, BuildingIsMine, ParquetIsMine, ParquetSteps,
           WatermarkOrder, WarehouseIsWhole, ParquetNotAhead, Full
  <2>8. CASE Export(b)
    <3>1. Goes(b, "export", "close")
          /\ UNCHANGED <<store, lock, mode, upTo>>
      BY <2>8 DEF Export
    <3>2. LockIsHeld' /\ pc[b] = "export" /\ pc'[b] = "close"
          /\ \A x \in Builder : x # b => pc'[x] = "idle"
      BY <1>0, <3>1, GoesOn
    <3>3. /\ disk'["warehouse"] = disk["warehouse"]
          /\ disk'["building"] = disk["building"]
          /\ disk'["parquet"] = disk["parquet"]
          /\ disk'["parquetBuilding"] = [there |-> TRUE, whole |-> TRUE, upTo |-> upTo[b], timed |-> FALSE]
      BY <2>0, <2>8 DEF Export, Put, Path
    <3> QED
      BY <1>0, <2>0, <3>1, <3>2, <3>3 DEF FileInv, BuildingIsMine, ParquetIsMine, ParquetSteps,
           WatermarkOrder, WarehouseIsWhole, ParquetNotAhead, Full
  <2>9. CASE Close(b)
    <3>1. Goes(b, "close", "swap")
          /\ UNCHANGED <<store, lock, mode, upTo>>
      BY <2>9 DEF Close
    <3>2. LockIsHeld' /\ pc[b] = "close" /\ pc'[b] = "swap"
          /\ \A x \in Builder : x # b => pc'[x] = "idle"
      BY <1>0, <3>1, GoesOn
    <3>3. /\ disk'["warehouse"] = disk["warehouse"]
          /\ disk'["building"] = [disk["building"] EXCEPT !.whole = TRUE]
          /\ disk'["parquet"] = disk["parquet"]
          /\ disk'["parquetBuilding"] = disk["parquetBuilding"]
      BY <2>0, <2>9 DEF Close, Put, Path
    <3> QED
      BY <1>0, <2>0, <3>1, <3>2, <3>3 DEF FileInv, BuildingIsMine, ParquetIsMine, ParquetSteps,
           WatermarkOrder, WarehouseIsWhole, ParquetNotAhead, Full
  <2>10. CASE Swap(b)
    <3>1. Goes(b, "swap", IF Full(b) THEN "dropParquet" ELSE "unlock")
          /\ UNCHANGED <<store, lock, mode, upTo>>
      BY <2>10 DEF Swap
    <3>2. LockIsHeld' /\ pc[b] = "swap" /\ pc'[b] = (IF Full(b) THEN "dropParquet" ELSE "unlock")
          /\ \A x \in Builder : x # b => pc'[x] = "idle"
      <4>1. PICK to \in Step \ {"idle"} : to = (IF Full(b) THEN "dropParquet" ELSE "unlock")
        BY DEF Step
      <4> QED
        BY <1>0, <3>1, <4>1, GoesOn
    <3>3. /\ disk'["warehouse"] = disk["building"]
          /\ disk'["building"] = NoFile
          /\ disk'["parquet"] = disk["parquet"]
          /\ disk'["parquetBuilding"] = disk["parquetBuilding"]
      BY <2>0, <2>10 DEF Swap, Rename, Path
    <3> QED
      BY <1>0, <2>0, <3>1, <3>2, <3>3 DEF FileInv, BuildingIsMine, ParquetIsMine, ParquetSteps,
           WatermarkOrder, WarehouseIsWhole, ParquetNotAhead, Full, NoFile, File
  <2>11. CASE DropParquet(b)
    <3>1. Goes(b, "dropParquet", "dropRest")
          /\ UNCHANGED <<store, lock, mode, upTo>>
      BY <2>11 DEF DropParquet
    <3>2. LockIsHeld' /\ pc[b] = "dropParquet" /\ pc'[b] = "dropRest"
          /\ \A x \in Builder : x # b => pc'[x] = "idle"
      BY <1>0, <3>1, GoesOn
    <3>3. /\ disk'["warehouse"] = disk["warehouse"]
          /\ disk'["building"] = disk["building"]
          /\ disk'["parquet"] = [disk["parquet"] EXCEPT !.whole = FALSE]
          /\ disk'["parquetBuilding"] = disk["parquetBuilding"]
      BY <2>0, <2>11 DEF DropParquet, Put, Path
    <3> QED
      BY <1>0, <2>0, <3>1, <3>2, <3>3 DEF FileInv, BuildingIsMine, ParquetIsMine, ParquetSteps,
           WatermarkOrder, WarehouseIsWhole, ParquetNotAhead, Full
  <2>12. CASE DropTheRest(b)
    <3>1. Goes(b, "dropRest", "swapParquet")
          /\ UNCHANGED <<store, lock, mode, upTo>>
      BY <2>12 DEF DropTheRest
    <3>2. LockIsHeld' /\ pc[b] = "dropRest" /\ pc'[b] = "swapParquet"
          /\ \A x \in Builder : x # b => pc'[x] = "idle"
      BY <1>0, <3>1, GoesOn
    <3>3. /\ disk'["warehouse"] = disk["warehouse"]
          /\ disk'["building"] = disk["building"]
          /\ disk'["parquet"] = NoFile
          /\ disk'["parquetBuilding"] = disk["parquetBuilding"]
      BY <2>0, <2>12 DEF DropTheRest, Put, Path
    <3> QED
      BY <1>0, <2>0, <3>1, <3>2, <3>3 DEF FileInv, BuildingIsMine, ParquetIsMine, ParquetSteps,
           WatermarkOrder, WarehouseIsWhole, ParquetNotAhead, Full, NoFile
  <2>13. CASE SwapParquet(b)
    <3>1. Goes(b, "swapParquet", "unlock")
          /\ UNCHANGED <<store, lock, mode, upTo>>
      BY <2>13 DEF SwapParquet
    <3>2. LockIsHeld' /\ pc[b] = "swapParquet" /\ pc'[b] = "unlock"
          /\ \A x \in Builder : x # b => pc'[x] = "idle"
      BY <1>0, <3>1, GoesOn
    <3>3. /\ disk'["warehouse"] = disk["warehouse"]
          /\ disk'["building"] = disk["building"]
          /\ disk'["parquet"] = disk["parquetBuilding"]
          /\ disk'["parquetBuilding"] = NoFile
      BY <2>0, <2>13 DEF SwapParquet, Rename, Path
    <3> QED
      BY <1>0, <2>0, <3>1, <3>2, <3>3 DEF FileInv, BuildingIsMine, ParquetIsMine, ParquetSteps,
           WatermarkOrder, WarehouseIsWhole, ParquetNotAhead, Full, NoFile
  <2>14. CASE Unlock(b)
    <3>0. Goes(b, "unlock", "idle") /\ lock' = None /\ pc[b] = "unlock"
      BY <2>14 DEF Unlock, Goes
    <3>1. LockIsHeld' /\ \A x \in Builder : pc'[x] = "idle"
      BY <1>0, <3>0, GoesIdle
    <3> QED
      BY <1>0, <2>14, <3>1, NoneAtWork DEF Unlock
  <2>15. CASE NotIncremental(b)
    <3>1. LockIsHeld' /\ \A x \in Builder : pc'[x] = "idle"
      BY <1>0, <2>15, GoesIdle DEF NotIncremental, CannotIncrement, Freed
    <3> QED
      BY <1>0, <2>15, <3>1, NoneAtWork DEF NotIncremental
  <2> QED
    BY <1>6, <2>3, <2>4, <2>5, <2>6, <2>7, <2>8, <2>9, <2>10, <2>11, <2>12, <2>13, <2>14, <2>15
       DEF Work
<1> QED
  BY <1>1, <1>2, <1>3, <1>4, <1>5, <1>6 DEF Next, Fail, Crash

(* No step of a run but its rename changes the warehouse file.             *)
LEMMA WorkKeepsWarehouse ==
  ASSUME TypeOK, NEW b \in Builder, Work(b), ~Swap(b)
  PROVE  disk'["warehouse"] = disk["warehouse"]
<1>1. ASSUME NEW p \in Path, p # "warehouse", NEW f, Put(p, f)
      PROVE  disk'["warehouse"] = disk["warehouse"]
  BY <1>1 DEF Put, TypeOK, Path
<1>2. CASE SwapParquet(b)
  BY <1>2 DEF SwapParquet, Rename, TypeOK, Path
<1>3. CASE Unlock(b) \/ NotIncremental(b)
  BY <1>3 DEF Unlock, NotIncremental
<1>4. CASE RemoveBuilding(b) \/ RemoveParquetBuilding(b) \/ CopyWarehouse(b) \/ ReadWatermark(b)
  BY <1>4, <1>1 DEF RemoveBuilding, RemoveParquetBuilding, CopyWarehouse, ReadWatermark, Path
<1>5. CASE Load(b) \/ Export(b) \/ Close(b) \/ DropParquet(b) \/ DropTheRest(b)
  BY <1>5, <1>1 DEF Load, Export, Close, DropParquet, DropTheRest, Path
<1> QED
  BY <1>2, <1>3, <1>4, <1>5 DEF Work

(* What any step does to the warehouse file: nothing, unless it is the     *)
(* rename of the run that holds the lock.                                  *)
LEMMA OnlySwapReplaces ==
  ASSUME TypeOK, [Next]_vars
  PROVE  \/ disk'["warehouse"] = disk["warehouse"]
         \/ \E b \in Builder : Swap(b)
BY WorkKeepsWarehouse DEF Next, vars, PlaceOrder, Lock, AlreadyRunning, Fail, Crash, EndsEarly

(* The warehouse stays the one the holder found, until it renames its own. *)
LEMMA UntouchedStep == IInv /\ [Next]_vars => UntouchedUntilSwap'
<1> SUFFICES ASSUME IInv, [Next]_vars PROVE UntouchedUntilSwap'
  OBVIOUS
<1> DEFINE Early == {"clean", "cleanParquet", "copy", "watermark", "load", "export", "close", "swap"}
<1>0. TypeOK /\ LockIsHeld /\ \A x \in Builder : pc[x] \in Early => disk["warehouse"] = before[x]
  BY DEF IInv, UntouchedUntilSwap
<1>1. CASE PlaceOrder \/ UNCHANGED vars \/ \E b \in Builder : AlreadyRunning(b)
  BY <1>1 DEF IInv, UntouchedUntilSwap, PlaceOrder, AlreadyRunning, vars
<1>2. ASSUME NEW b \in Builder, NEW m \in Mode, Lock(b, m)
      PROVE  UntouchedUntilSwap'
  <2>1. \A x \in Builder : pc[x] = "idle"
    BY <1>0, <1>2, BuilderAssumption DEF Lock, LockFree, LockIsHeld
  <2>2. \A x \in Builder : x # b => pc'[x] = "idle"
    BY <1>0, <1>2, <2>1 DEF Lock, Goes, TypeOK
  <2>3. disk' = disk /\ before'[b] = disk["warehouse"]
    BY <1>0, <1>2 DEF Lock, TypeOK
  <2> QED
    BY <2>2, <2>3 DEF UntouchedUntilSwap
<1>3. ASSUME NEW b \in Builder, Fail(b) \/ Crash(b)
      PROVE  UntouchedUntilSwap'
  <2>1. disk' = disk /\ pc'[b] = "idle"
        /\ \A x \in Builder : x # b => pc'[x] = pc[x] /\ before'[x] = before[x]
    BY <1>0, <1>3, Forgotten DEF Fail, Crash, EndsEarly, Goes, TypeOK
  <2> QED
    BY <1>0, <2>1 DEF UntouchedUntilSwap
<1>4. ASSUME NEW b \in Builder, Work(b)
      PROVE  UntouchedUntilSwap'
  <2>1. /\ \A x \in Builder : x # b => pc'[x] = pc[x] /\ before'[x] = before[x]
        /\ before' = before \/ pc'[b] = "idle"
    <3>1. CASE Unlock(b) \/ NotIncremental(b)
      BY <1>0, <3>1, Forgotten DEF Unlock, NotIncremental, Goes, TypeOK
    <3>2. CASE ~Unlock(b) /\ ~NotIncremental(b)
      BY <1>0, <1>4, <3>2 DEF Work, RemoveBuilding, RemoveParquetBuilding, CopyWarehouse, ReadWatermark,
         Load, Export, Close, Swap, DropParquet, DropTheRest, SwapParquet, Goes, TypeOK
    <3> QED
      BY <3>1, <3>2
  <2>2. CASE Swap(b)
    <3>1. pc[b] = "swap" /\ pc'[b] \in {"dropParquet", "unlock"}
      BY <1>0, <2>2 DEF Swap, Goes, TypeOK
    <3>2. \A x \in Builder : x # b => pc'[x] = "idle"
      BY <1>0, <2>1, <3>1, HolderIsAlone
    <3> QED
      BY <3>1, <3>2 DEF UntouchedUntilSwap
  <2>3. CASE ~Swap(b)
    <3>1. disk'["warehouse"] = disk["warehouse"]
      BY <1>0, <1>4, <2>3, WorkKeepsWarehouse
    <3>2. pc'[b] \in Early => pc[b] \in Early
      BY <1>0, <1>4, <2>3 DEF Work, RemoveBuilding, RemoveParquetBuilding, CopyWarehouse, ReadWatermark,
         Load, Export, Close, DropParquet, DropTheRest, SwapParquet, Unlock, NotIncremental, Goes, TypeOK
    <3> QED
      BY <1>0, <2>1, <3>1, <3>2 DEF UntouchedUntilSwap
  <2> QED
    BY <2>2, <2>3
<1> QED
  BY <1>1, <1>2, <1>3, <1>4 DEF Next

(* Every step keeps the invariant.                                         *)
LEMMA NextInv == IInv /\ [Next]_vars => IInv'
BY TypeInv, FileStep, UntouchedStep DEF IInv, FileInv

(* The inductive invariant holds in every reachable state.                 *)
THEOREM InvariantHolds == Spec => []IInv
BY InitInv, NextInv, PTL DEF Spec

(* Readers never meet a half-written warehouse (Build, the swap).          *)
THEOREM WarehouseAlwaysWhole == Spec => []WarehouseIsWhole
<1>1. IInv => WarehouseIsWhole
  BY DEF IInv
<1> QED
  BY InvariantHolds, <1>1, PTL

(* The Parquet files are never ahead of the warehouse (Build, the order of *)
(* the renames).                                                           *)
THEOREM ParquetNeverAhead == Spec => []ParquetNotAhead
<1>1. IInv => ParquetNotAhead
  BY DEF IInv
<1> QED
  BY InvariantHolds, <1>1, PTL

(* The rename replaces the warehouse by a file that knows at least as many *)
(* orders.                                                                 *)
LEMMA SwapMovesOn ==
  ASSUME IInv, NEW b \in Builder, Swap(b)
  PROVE  disk'["warehouse"].there /\ disk["warehouse"].upTo <= disk'["warehouse"].upTo
<1>1. pc[b] = "swap"
  BY DEF Swap, Goes
<1>2. disk'["warehouse"] = disk["building"]
  BY DEF Swap, Rename, IInv, TypeOK, Path
<1> QED
  BY <1>1, <1>2 DEF IInv, BuildingIsMine, WatermarkOrder

(* So no step loses the warehouse or makes it older.                       *)
LEMMA NeverOlder ==
  ASSUME IInv, [Next]_vars, disk["warehouse"].there
  PROVE  disk'["warehouse"].there /\ disk["warehouse"].upTo <= disk'["warehouse"].upTo
<1>1. disk["warehouse"].upTo \in Nat
  BY DEF IInv, TypeOK, Path, File
<1>2. CASE disk'["warehouse"] = disk["warehouse"]
  BY <1>1, <1>2
<1>3. CASE \E b \in Builder : Swap(b)
  BY <1>3, SwapMovesOn
<1> QED
  BY <1>2, <1>3, OnlySwapReplaces DEF IInv

(* The warehouse never disappears and never goes back to an older state of *)
(* the store (Build: the watermark is read under the lock).                *)
THEOREM WarehouseNeverGoesBack == Spec => NeverGoesBack
<1> DEFINE NotOlder == disk["warehouse"].there =>
                         disk'["warehouse"].there /\ disk["warehouse"].upTo <= disk'["warehouse"].upTo
<1>1. IInv /\ [Next]_vars => [NotOlder]_disk
  BY NeverOlder
<1> QED
  BY InvariantHolds, <1>1, PTL DEF Spec, NeverGoesBack

(* A build that ends well has published its own data (Build, the last      *)
(* steps before it returns).                                               *)
THEOREM GoodBuildPublishes == Spec => Published
<1> DEFINE Ok(b) == result'[b] = "ok" /\ result[b] # "ok" =>
                      /\ disk'["warehouse"].upTo = upTo[b]
                      /\ Full(b) => disk'["parquet"].whole /\ disk'["parquet"].upTo = upTo[b]
<1>1. IInv /\ [Next]_vars => [\A b \in Builder : Ok(b)]_vars
  <2> SUFFICES ASSUME IInv, [Next]_vars, NEW b \in Builder, result'[b] = "ok", result[b] # "ok"
               PROVE  /\ disk'["warehouse"].upTo = upTo[b]
                      /\ Full(b) => disk'["parquet"].whole /\ disk'["parquet"].upTo = upTo[b]
    OBVIOUS
  <2>1. Unlock(b)
    <3>1. result \in [Builder -> Result]
      BY DEF IInv, TypeOK
    <3>2. ASSUME NEW x \in Builder, Work(x), ~Unlock(x)
          PROVE  result'[b] = result[b] \/ result'[b] = "failed"
      BY <3>1, <3>2 DEF Work, RemoveBuilding, RemoveParquetBuilding, CopyWarehouse, ReadWatermark,
         Load, Export, Close, Swap, DropParquet, DropTheRest, SwapParquet, NotIncremental
    <3>3. ASSUME NEW x \in Builder, Unlock(x), x # b
          PROVE  result'[b] = result[b]
      BY <3>1, <3>3 DEF Unlock
    <3>4. ASSUME NEW x \in Builder, \/ \E m \in Mode : Lock(x, m)
                                    \/ AlreadyRunning(x) \/ Fail(x) \/ Crash(x)
          PROVE  result'[b] # "ok"
      BY <3>1, <3>4 DEF Lock, AlreadyRunning, Fail, Crash, EndsEarly
    <3>5. ~PlaceOrder /\ ~UNCHANGED vars
      BY DEF PlaceOrder, vars
    <3> QED
      BY <3>2, <3>3, <3>4, <3>5 DEF Next
  <2>2. pc[b] = "unlock" /\ disk' = disk
    BY <2>1 DEF Unlock, Goes
  <2> QED
    BY <2>2 DEF IInv, WatermarkOrder, ParquetIsMine
<1> QED
  BY InvariantHolds, <1>1, PTL DEF Spec, Published

(* A run that fails or dies has left the warehouse as it found it or has   *)
(* replaced it by its own, complete one (Build, its early returns).        *)
THEOREM FailedBuildsAllOrNothing == Spec => AllOrNothing
<1> DEFINE Clean(b) == result'[b] \in {"failed", "crashed"} /\ result' # result /\ pc[b] # "idle" =>
                         \/ disk'["warehouse"] = before[b]
                         \/ disk'["warehouse"].whole /\ disk'["warehouse"].upTo = upTo[b]
<1>1. IInv /\ [Next]_vars => [\A b \in Builder : Clean(b)]_vars
  <2> SUFFICES ASSUME IInv, [Next]_vars, NEW b \in Builder,
                      result'[b] \in {"failed", "crashed"}, result' # result, pc[b] # "idle"
               PROVE  \/ disk'["warehouse"] = before[b]
                      \/ disk'["warehouse"].whole /\ disk'["warehouse"].upTo = upTo[b]
    OBVIOUS
  <2>1. disk' = disk
    BY DEF Next, vars, PlaceOrder, Lock, AlreadyRunning, Fail, Crash, EndsEarly,
       Work, RemoveBuilding, RemoveParquetBuilding, CopyWarehouse, ReadWatermark,
       Load, Export, Close, Swap, DropParquet, DropTheRest, SwapParquet, Unlock, NotIncremental
  <2>2. pc[b] \in Step
    BY DEF IInv, TypeOK
  <2> QED
    BY <2>1, <2>2 DEF IInv, UntouchedUntilSwap, WatermarkOrder, WarehouseIsWhole, Step
<1> QED
  BY InvariantHolds, <1>1, PTL DEF Spec, AllOrNothing

-----------------------------------------------------------------------------
(* What readers see.                                                       *)

(* What a reader finds depends on the path alone.                          *)
LEMMA SameToReaders ==
  ASSUME NEW p \in Path, disk'[p] = disk[p]
  PROVE  Readable(p)' = Readable(p)
BY DEF Readable

(* All steps but four leave what readers open alone.                       *)
LEMMA OthersKeepBoth ==
  ASSUME TypeOK, NEW b \in Builder, Work(b), ~Swap(b), ~DropParquet(b), ~DropTheRest(b), ~SwapParquet(b)
  PROVE  /\ store' = store
         /\ \A p \in {"warehouse", "parquet"} : disk'[p] = disk[p]
<1>1. ASSUME NEW p \in {"building", "parquetBuilding"}, NEW f, Put(p, f)
      PROVE  \A q \in {"warehouse", "parquet"} : disk'[q] = disk[q]
  BY <1>1 DEF Put, TypeOK, Path
<1>2. CASE Unlock(b) \/ NotIncremental(b)
  BY <1>2 DEF Unlock, NotIncremental
<1>3. CASE RemoveBuilding(b) \/ RemoveParquetBuilding(b) \/ CopyWarehouse(b) \/ ReadWatermark(b)
  BY <1>3, <1>1 DEF RemoveBuilding, RemoveParquetBuilding, CopyWarehouse, ReadWatermark
<1>4. CASE Load(b) \/ Export(b) \/ Close(b)
  BY <1>4, <1>1 DEF Load, Export, Close
<1> QED
  BY <1>2, <1>3, <1>4 DEF Work

(* The rename of the file is a publication.                                *)
LEMMA SwapPublishes ==
  ASSUME IInv, NEW b \in Builder, Swap(b)
  PROVE  Warehouse!Publish
<1>1. pc[b] = "swap" /\ store' = store
  BY DEF Swap, Goes
<1>2. disk'["warehouse"] = disk["building"] /\ disk'["parquet"] = disk["parquet"]
  BY DEF Swap, Rename, IInv, TypeOK, Path
<1>3. disk["building"].there /\ disk["building"].whole /\ disk["building"].upTo = upTo[b]
  BY <1>1 DEF IInv, BuildingIsMine
<1>4. Readable("warehouse")' = upTo[b] /\ Readable("parquet")' = Readable("parquet")
  BY <1>2, <1>3, SameToReaders DEF Readable, Path
<1>5. upTo[b] \in 0..store /\ disk["warehouse"].upTo <= upTo[b]
  BY <1>1 DEF IInv, TypeOK, WatermarkOrder
<1>6. Readable("warehouse") <= upTo[b]
  BY <1>5 DEF Readable, IInv, WarehouseIsWhole, TypeOK
<1> QED
  BY <1>1, <1>4, <1>5, <1>6 DEF Warehouse!Publish

(* The old Parquet files go, part by part.                                 *)
LEMMA DropWithdraws ==
  ASSUME TypeOK, NEW b \in Builder, DropParquet(b) \/ DropTheRest(b)
  PROVE  Warehouse!WithdrawParquet
<1>1. store' = store /\ disk'["warehouse"] = disk["warehouse"] /\ ~disk'["parquet"].whole
  BY DEF DropParquet, DropTheRest, Put, TypeOK, Path, File, NoFile
<1> QED
  BY <1>1, SameToReaders DEF Readable, Path, Warehouse!WithdrawParquet, Warehouse!Missing, Warehouse!Broken

(* The new ones are of the warehouse.                                      *)
LEMMA SwapParquetPublishes ==
  ASSUME IInv, NEW b \in Builder, SwapParquet(b)
  PROVE  Warehouse!PublishParquet \/ Warehouse!WithdrawParquet
<1>1. pc[b] = "swapParquet" /\ store' = store
  BY DEF SwapParquet, Goes
<1>2. disk'["parquet"] = disk["parquetBuilding"] /\ disk'["warehouse"] = disk["warehouse"]
  BY DEF SwapParquet, Rename, IInv, TypeOK, Path
<1>3. disk["parquetBuilding"].whole /\ disk["parquetBuilding"].upTo = upTo[b]
  BY <1>1 DEF IInv, ParquetIsMine, ParquetSteps
<1>4. Readable("warehouse") = upTo[b] /\ upTo[b] \in Nat
  BY <1>1 DEF IInv, TypeOK, WatermarkOrder, WarehouseIsWhole, Readable
<1>5. Readable("parquet")' \in {-1, upTo[b]} /\ Readable("warehouse")' = Readable("warehouse")
  BY <1>2, <1>3, SameToReaders DEF Readable, Path
<1> QED
  BY <1>1, <1>4, <1>5 DEF Warehouse!PublishParquet, Warehouse!WithdrawParquet, Warehouse!Missing, Warehouse!Broken

(* Every step of the builds is a publication, a withdrawal, a new order or *)
(* nothing to readers.                                                     *)
LEMMA StepPublishes ==
  ASSUME IInv, [Next]_vars
  PROVE  [Warehouse!Next]_<<store, Readable("warehouse"), Readable("parquet")>>
<1> USE DEF Warehouse!Next
<1>1. CASE store' = store /\ \A p \in {"warehouse", "parquet"} : disk'[p] = disk[p]
  BY <1>1, SameToReaders DEF Path
<1>2. CASE PlaceOrder
  BY <1>2, SameToReaders DEF PlaceOrder, Path, Warehouse!Order
<1>3. ASSUME NEW b \in Builder, Work(b)
      PROVE  [Warehouse!Next]_<<store, Readable("warehouse"), Readable("parquet")>>
  <2>1. CASE Swap(b)
    BY <2>1, SwapPublishes
  <2>2. CASE DropParquet(b) \/ DropTheRest(b)
    BY <2>2, DropWithdraws DEF IInv
  <2>3. CASE SwapParquet(b)
    BY <2>3, SwapParquetPublishes
  <2>4. CASE ~Swap(b) /\ ~DropParquet(b) /\ ~DropTheRest(b) /\ ~SwapParquet(b)
    BY <1>1, <1>3, <2>4, OthersKeepBoth DEF IInv
  <2> QED
    BY <2>1, <2>2, <2>3, <2>4
<1> QED
  BY <1>1, <1>2, <1>3 DEF Next, vars, Lock, AlreadyRunning, Fail, Crash, EndsEarly

(* Before the first build there is nothing to read.                        *)
LEMMA NothingPublished == Init => Warehouse!Init
BY DEF Init, Readable, NoFile, Path, Warehouse!Init, Warehouse!Missing

(* The builds are publications to readers (Build and BuildAsync).          *)
THEOREM BuildsPublish == Spec => ImplementsWarehouse
<1>1. IInv /\ [Next]_vars => [Warehouse!Next]_<<store, Readable("warehouse"), Readable("parquet")>>
  BY StepPublishes
<1> QED
  BY <1>1, NothingPublished, InvariantHolds, PTL DEF Spec, ImplementsWarehouse, Warehouse!Spec

-----------------------------------------------------------------------------
(* The runs of a server.                                                   *)

(* The steps of EtlBuild that some step of EtlRunner takes.                *)
BuildStep(b) == \/ \E m \in Mode : Lock(b, m)
                \/ AlreadyRunning(b) \/ Work(b) \/ Fail(b) \/ Crash(b)

(* The steps of a run after it has read its watermark.                     *)
Loaded == {"load", "export", "close", "swap", "dropParquet", "dropRest", "swapParquet", "unlock"}

(* Tasks are builders, and belong to one server.                           *)
LEMMA TasksApart ==
  /\ \A s \in Server : TaskOf[s] \subseteq Task /\ TaskOf[s] \subseteq Builder
  /\ Task \subseteq Builder
  /\ \A t \in Task : \E s \in Server : t \in TaskOf[s]
  /\ \A s, x \in Server : \A t \in TaskOf[s] : t \in TaskOf[x] => s = x
BY ServerAssumption DEF Task

(* A build step concerns one builder.                                      *)
LEMMA OthersUntouched ==
  ASSUME TypeOK, NEW b \in Builder, BuildStep(b), NEW x \in Builder, x # b
  PROVE  pc'[x] = pc[x] /\ upTo'[x] = upTo[x] /\ result'[x] = result[x]
<1>1. CASE Work(b) /\ ~Unlock(b) /\ ~NotIncremental(b)
  BY <1>1 DEF Work, RemoveBuilding, RemoveParquetBuilding, CopyWarehouse, ReadWatermark, Load,
      Export, Close, Swap, DropParquet, DropTheRest, SwapParquet, Goes, TypeOK
<1>2. CASE (\E m \in Mode : Lock(b, m)) \/ AlreadyRunning(b)
  BY <1>2 DEF Lock, AlreadyRunning, Goes, TypeOK
<1>3. CASE Unlock(b) \/ NotIncremental(b) \/ Fail(b) \/ Crash(b)
  BY <1>3, Forgotten DEF Unlock, NotIncremental, Fail, Crash, EndsEarly, Goes, TypeOK
<1> QED
  BY <1>1, <1>2, <1>3 DEF BuildStep

(* What a build step does to the builder that takes it.                    *)
LEMMA HowItGoes ==
  ASSUME IInv, NEW b \in Builder, BuildStep(b)
  PROVE  /\ pc'[b] \in Loaded =>
              \/ pc[b] \in Loaded /\ upTo'[b] = upTo[b]
              \/ pc[b] = "watermark" /\ upTo'[b] = store
         /\ pc'[b] = "idle" /\ result'[b] = "ok" =>
              /\ pc[b] = "unlock"
              /\ disk'["warehouse"].there /\ disk'["warehouse"].upTo = upTo[b]
         /\ store' = store
<1> USE DEF Goes, Loaded
<1>1. CASE (\E m \in Mode : Lock(b, m)) \/ AlreadyRunning(b) \/ Fail(b) \/ Crash(b)
  BY <1>1 DEF Lock, AlreadyRunning, Fail, Crash, EndsEarly, IInv, TypeOK
<1>2. CASE ReadWatermark(b)
  BY <1>2 DEF ReadWatermark, IInv, TypeOK
<1>3. CASE Unlock(b)
  BY <1>3 DEF Unlock, IInv, TypeOK, WatermarkOrder
<1>4. CASE NotIncremental(b)
  BY <1>4 DEF NotIncremental, IInv, TypeOK
<1>5. CASE RemoveBuilding(b) \/ RemoveParquetBuilding(b) \/ CopyWarehouse(b)
  BY <1>5 DEF RemoveBuilding, RemoveParquetBuilding, CopyWarehouse, IInv, TypeOK
<1>6. CASE \/ Load(b) \/ Export(b) \/ Close(b) \/ Swap(b)
           \/ DropParquet(b) \/ DropTheRest(b) \/ SwapParquet(b)
  BY <1>6 DEF Load, Export, Close, Swap, DropParquet, DropTheRest, SwapParquet, IInv, TypeOK
<1> QED
  BY <1>1, <1>2, <1>3, <1>4, <1>5, <1>6 DEF BuildStep, Work

(* A builder that is idle can only take the lock or find it taken.         *)
LEMMA IdleStarts ==
  ASSUME IInv, NEW b \in Builder, Work(b) \/ Fail(b) \/ Crash(b)
  PROVE  pc[b] # "idle"
BY DEF Work, RemoveBuilding, RemoveParquetBuilding, CopyWarehouse, ReadWatermark, Load, Export, Close,
   Swap, DropParquet, DropTheRest, SwapParquet, Unlock, NotIncremental, CannotIncrement, Fail, Crash, Goes

-----------------------------------------------------------------------------

(* RunnerInit establishes the invariant.                                   *)
LEMMA RunnerInitInv == RunnerInit => RInv
<1> SUFFICES ASSUME RunnerInit PROVE RInv
  OBVIOUS
<1>1. IInv
  BY InitInv DEF RunnerInit
<1>2. RunnerTypeOK
  BY <1>1 DEF RunnerInit, RunnerTypeOK, IInv, Run, NoRun, Job
<1>3. OneTaskAtATime
  BY TasksApart DEF RunnerInit, Init, OneTaskAtATime
<1>4. SinceCovered
  BY TasksApart DEF RunnerInit, Init, SinceCovered, NoRun
<1> QED
  BY <1>1, <1>2, <1>3, <1>4 DEF RInv

(* The builder b takes a step, for a task whose job is or becomes that of  *)
(* a builder at work, or for a command line; the pages show what they did. *)
LEMMA BuildStepInv ==
  ASSUME RInv, NEW b \in Builder, BuildStep(b), run' = run,
         \/ job' = job /\ (b \in Task => pc[b] # "idle")
         \/ b \in Task /\ job[b] # "idle" /\ job' = [job EXCEPT ![b] = "building"]
  PROVE  RInv'
<1>0. [Next]_vars
  BY DEF BuildStep, Next
<1>1. IInv'
  BY <1>0, NextInv DEF RInv
<1>2. RunnerTypeOK'
  BY <1>1 DEF RInv, RunnerTypeOK, IInv, Job
<1>3. \A t \in Task : job'[t] = "building" \/ (t # b /\ job'[t] = job[t])
  <2>1. job \in [Task -> Job] /\ \A t \in Task : pc[t] # "idle" => job[t] = "building"
    BY DEF RInv, OneTaskAtATime, RunnerTypeOK
  <2>2. CASE job' = job /\ (b \in Task => pc[b] # "idle")
    BY <2>1, <2>2
  <2>3. CASE job' = [job EXCEPT ![b] = "building"]
    BY <2>1, <2>3
  <2> QED
    BY <2>2, <2>3
<1>4. \A t \in Task : job'[t] # "idle" => job[t] # "idle"
  BY <1>3 DEF RInv, OneTaskAtATime, RunnerTypeOK
<1>5. OneTaskAtATime'
  <2>1. ASSUME NEW t \in Task, job'[t] # "building" PROVE pc'[t] = "idle"
    BY <1>3, <2>1, OthersUntouched, TasksApart DEF RInv, IInv, OneTaskAtATime
  <2> QED
    BY <2>1, <1>4, TasksApart DEF RInv, OneTaskAtATime
<1>6. SinceCovered'
  <2>1. store' = store
    BY HowItGoes DEF RInv
  <2>2. ASSUME NEW n \in Nat, disk["warehouse"].there, n <= disk["warehouse"].upTo
        PROVE  disk'["warehouse"].there /\ n <= disk'["warehouse"].upTo
    <3>1. disk["warehouse"].upTo \in Nat /\ disk'["warehouse"].upTo \in Nat
      BY <1>1 DEF RInv, IInv, TypeOK, Path, File
    <3> QED
      BY <1>0, <2>2, <3>1, NeverOlder DEF RInv
  <2>3. \A s \in Server : run[s].since \in Nat
    BY DEF RInv, RunnerTypeOK, Run
  <2>4. ASSUME NEW s \in Server, NEW t \in TaskOf[s], job'[t] = "building"
        PROVE  /\ pc'[t] \in Loaded => run[s].since <= upTo'[t]
               /\ pc'[t] = "idle" /\ result'[t] = "ok" =>
                    disk'["warehouse"].there /\ run[s].since <= disk'["warehouse"].upTo
    <3>0. t \in Task /\ t \in Builder
      BY TasksApart
    <3>1. CASE t = b
      <4>1. pc[t] # "idle" => job[t] = "building"
        BY <3>0 DEF RInv, OneTaskAtATime
      <4>2. pc[t] \in Loaded => run[s].since <= upTo[t]
        BY <4>1 DEF RInv, SinceCovered, Loaded
      <4>3. run[s].since <= store
        BY DEF RInv, SinceCovered
      <4> QED
        BY <3>1, <4>2, <4>3, HowItGoes DEF RInv, Loaded
    <3>2. CASE t # b
      <4>1. pc'[t] = pc[t] /\ upTo'[t] = upTo[t] /\ result'[t] = result[t] /\ job[t] = "building"
        BY <1>3, <2>4, <3>0, <3>2, OthersUntouched DEF RInv, IInv, RunnerTypeOK
      <4> QED
        BY <2>2, <2>3, <4>1 DEF RInv, SinceCovered, Loaded
    <3> QED
      BY <3>1, <3>2
  <2>5. ASSUME NEW s \in Server, run[s].state = "ended", ~run[s].error
        PROVE  disk'["warehouse"].there /\ run[s].since <= disk'["warehouse"].upTo
    BY <2>2, <2>3, <2>5 DEF RInv, SinceCovered
  <2> QED
    BY <2>1, <2>4, <2>5 DEF RInv, SinceCovered, Loaded
<1> QED
  BY <1>1, <1>2, <1>5, <1>6 DEF RInv

(* A new order moves the store only.                                       *)
LEMMA PlaceOrderInv ==
  ASSUME RInv, PlaceOrder, UNCHANGED <<run, job>>
  PROVE  RInv'
<1>1. IInv'
  BY NextInv DEF RInv, Next
<1>2. RunnerTypeOK' /\ OneTaskAtATime'
  BY <1>1 DEF RInv, RunnerTypeOK, IInv, OneTaskAtATime, PlaceOrder
<1>3. store \in Nat /\ \A s \in Server : run[s].since \in Nat
  BY DEF RInv, RunnerTypeOK, IInv, TypeOK, Run
<1>4. SinceCovered'
  BY <1>3 DEF RInv, SinceCovered, PlaceOrder
<1> QED
  BY <1>1, <1>2, <1>4 DEF RInv

(* A request that is accepted starts a run of what is in the store now.    *)
LEMMA RequestInv ==
  ASSUME RInv, NEW s \in Server, NEW t \in TaskOf[s], NEW m \in Mode, Request(s, t, m)
  PROVE  RInv'
<1> USE DEF Request
<1>0. t \in Task /\ store \in Nat /\ run[s].state # "running"
  BY TasksApart DEF RInv, IInv, TypeOK, MayStart
<1>1. IInv'
  BY NextInv DEF RInv
<1>2. RunnerTypeOK'
  BY <1>0, <1>1 DEF RInv, RunnerTypeOK, IInv, Run, Job, Mode
<1>3. \A u \in TaskOf[s] : job[u] = "idle"
  BY <1>0 DEF RInv, OneTaskAtATime
<1>4. \A u \in Task : u # t => job'[u] = job[u]
  BY DEF RInv, RunnerTypeOK
<1>5. job'[t] \in Mode
  BY <1>0 DEF RInv, RunnerTypeOK
<1>6. \A x \in Server : x # s => run'[x] = run[x] /\ t \notin TaskOf[x]
  BY TasksApart DEF RInv, RunnerTypeOK
<1>7. run'[s] = [state |-> "running", error |-> FALSE, since |-> store]
  BY DEF RInv, RunnerTypeOK
<1>8. UNCHANGED <<pc, disk, store, upTo, result>>
  BY DEF vars
<1>9. OneTaskAtATime'
  <2>1. \A u \in Task : job'[u] # "building" => pc'[u] = "idle"
    BY <1>0, <1>4, <1>8 DEF RInv, OneTaskAtATime
  <2>2. ASSUME NEW x \in Server, NEW u \in TaskOf[x], job'[u] # "idle"
        PROVE  /\ run'[x].state = "running"
               /\ \A v \in TaskOf[x] : job'[v] # "idle" => v = u
    <3>1. CASE x = s
      BY <1>3, <1>4, <1>7, <2>2, <3>1, TasksApart
    <3>2. CASE x # s
      BY <1>4, <1>6, <2>2, <3>2, TasksApart DEF RInv, OneTaskAtATime
    <3> QED
      BY <3>1, <3>2
  <2> QED
    BY <2>1, <2>2 DEF OneTaskAtATime
<1>10. SinceCovered'
  <2>1. \A x \in Server : run'[x].since <= store'
    BY <1>0, <1>6, <1>7, <1>8 DEF RInv, SinceCovered
  <2>2. ASSUME NEW x \in Server, NEW u \in TaskOf[x], job'[u] = "building"
        PROVE  x # s /\ job[u] = "building"
    BY <1>3, <1>4, <1>5, <2>2, TasksApart DEF Mode
  <2>3. \A x \in Server : run'[x].state = "ended" => x # s
    BY <1>7
  <2> QED
    BY <1>6, <1>8, <2>1, <2>2, <2>3 DEF RInv, SinceCovered
<1> QED
  BY <1>1, <1>2, <1>9, <1>10 DEF RInv

(* A run ends when its task's build has returned.                          *)
LEMMA EndInv ==
  ASSUME RInv, NEW s \in Server, NEW t \in TaskOf[s], End(s, t)
  PROVE  RInv'
<1> PICK reloadFails \in BOOLEAN :
      run' = [run EXCEPT ![s].state = "ended", ![s].error = IsError(result[t]) \/ reloadFails]
  BY DEF End
<1> USE DEF End
<1>0. t \in Task /\ job[t] = "building" /\ pc[t] = "idle"
  BY TasksApart DEF Returned
<1>1. IInv'
  BY NextInv DEF RInv
<1>2. run \in [Server -> Run] /\ run[s] \in Run /\ job \in [Task -> Job]
  BY DEF RInv, RunnerTypeOK
<1>3. /\ run'[s].state = "ended" /\ run'[s].since = run[s].since
      /\ run'[s].error = (IsError(result[t]) \/ reloadFails)
      /\ \A x \in Server : x # s => run'[x] = run[x] /\ t \notin TaskOf[x]
  BY <1>2, TasksApart DEF Run
<1>4. (IsError(result[t]) \/ reloadFails) \in BOOLEAN
  BY DEF IsError
<1>5. run' \in [Server -> Run]
  BY <1>2, <1>4 DEF Run
<1>6. RunnerTypeOK'
  BY <1>0, <1>1, <1>2, <1>5 DEF RunnerTypeOK, IInv, Job
<1>7. job'[t] = "idle" /\ \A u \in Task : u # t => job'[u] = job[u]
  BY <1>0, <1>2
<1>8. UNCHANGED <<pc, disk, store, upTo, result>>
  BY DEF vars
<1>9. \A u \in TaskOf[s] : job'[u] = "idle"
  BY <1>0, <1>7, TasksApart DEF RInv, OneTaskAtATime
<1>10. OneTaskAtATime'
  <2>1. \A u \in Task : job'[u] # "building" => pc'[u] = "idle"
    BY <1>0, <1>7, <1>8 DEF RInv, OneTaskAtATime
  <2>2. ASSUME NEW x \in Server, NEW u \in TaskOf[x], job'[u] # "idle"
        PROVE  /\ run'[x].state = "running"
               /\ \A v \in TaskOf[x] : job'[v] # "idle" => v = u
    <3>1. x # s /\ run'[x] = run[x] /\ t \notin TaskOf[x]
      BY <1>3, <1>9, <2>2
    <3>2. \A v \in TaskOf[x] : job'[v] = job[v]
      BY <1>7, <3>1, TasksApart
    <3>3. run[x].state = "running" /\ \A v \in TaskOf[x] : job[v] # "idle" => v = u
      BY <2>2, <3>2 DEF RInv, OneTaskAtATime
    <3> QED
      BY <3>1, <3>2, <3>3
  <2> QED
    BY <2>1, <2>2 DEF OneTaskAtATime
<1>11. SinceCovered'
  <2>1. ASSUME NEW x \in Server PROVE run'[x].since <= store'
    <3>1. run'[x].since = run[x].since
      BY <1>3
    <3> QED
      BY <1>8, <3>1 DEF RInv, SinceCovered
  <2>2. ASSUME NEW x \in Server, NEW u \in TaskOf[x], job'[u] = "building"
        PROVE  x # s /\ job[u] = "building"
    BY <1>7, <1>9, <2>2, TasksApart
  <2>3. ~run'[s].error => disk["warehouse"].there /\ run[s].since <= disk["warehouse"].upTo
    BY <1>0, <1>3 DEF RInv, SinceCovered, IsError
  <2> QED
    BY <1>3, <1>8, <2>1, <2>2, <2>3 DEF RInv, SinceCovered
<1> QED
  BY <1>1, <1>6, <1>10, <1>11 DEF RInv

(* A server that is started again has no task at work.                     *)
LEMMA RestartInv ==
  ASSUME RInv, NEW s \in Server, Restart(s)
  PROVE  RInv'
<1> USE DEF Restart
<1>0. TypeOK /\ LockIsHeld /\ run \in [Server -> Run] /\ job \in [Task -> Job]
  BY DEF RInv, IInv, RunnerTypeOK
<1>1. \A b \in Builder : /\ pc'[b] = IF b \in TaskOf[s] THEN "idle" ELSE pc[b]
                         /\ result'[b] = IF b \in TaskOf[s] THEN "none" ELSE result[b]
  OBVIOUS
<1>1a. /\ mode' \in [Builder -> Mode] /\ upTo' \in [Builder -> Nat] /\ before' \in [Builder -> File]
       /\ \A b \in Builder : b \notin TaskOf[s] =>
            mode'[b] = mode[b] /\ upTo'[b] = upTo[b] /\ before'[b] = before[b]
       /\ \A b \in Builder : upTo'[b] = 0 \/ upTo'[b] = upTo[b]
  BY <1>0, TasksApart, Forgotten
<1>2. IInv'
  <2>1. TypeOK'
    <3>1. pc' \in [Builder -> Step]
      BY <1>0 DEF TypeOK, Step
    <3>2. result' \in [Builder -> Result]
      BY <1>0 DEF TypeOK, Result
    <3> QED
      BY <1>0, <1>1a, <3>1, <3>2 DEF TypeOK
  <2>2. LockIsHeld'
    BY <1>0, <1>1, BuilderAssumption DEF LockIsHeld
  <2>3. BuildingIsMine'
    BY <1>1, <1>1a DEF RInv, IInv, BuildingIsMine
  <2>4. ParquetIsMine'
    BY <1>1, <1>1a DEF RInv, IInv, ParquetIsMine, Full, ParquetSteps
  <2>5. WatermarkOrder'
    <3>1. store \in Nat /\ \A b \in Builder : upTo[b] \in Nat /\ upTo[b] <= store
      BY DEF RInv, IInv, TypeOK, WatermarkOrder
    <3>2. \A b \in Builder : upTo'[b] <= store
      <4> TAKE b \in Builder
      <4>1. upTo'[b] = 0 \/ upTo'[b] = upTo[b]
        BY <1>1a
      <4> QED
        BY <3>1, <4>1
    <3>3. \A b \in Builder : pc'[b] # "idle" => pc'[b] = pc[b] /\ upTo'[b] = upTo[b]
      BY <1>1, <1>1a
    <3> QED
      BY <3>2, <3>3 DEF RInv, IInv, WatermarkOrder
  <2>6. WarehouseIsWhole' /\ ParquetNotAhead'
    BY DEF RInv, IInv, WarehouseIsWhole, ParquetNotAhead
  <2>7. UntouchedUntilSwap'
    BY <1>1, <1>1a DEF RInv, IInv, UntouchedUntilSwap
  <2> QED
    BY <2>1, <2>2, <2>3, <2>4, <2>5, <2>6, <2>7 DEF IInv
<1>3. NoRun \in Run
  BY DEF NoRun, Run
<1>4. RunnerTypeOK'
  BY <1>0, <1>2, <1>3 DEF RunnerTypeOK, IInv, Job
<1>5. \A t \in Task : /\ t \in TaskOf[s] => job'[t] = "idle"
                      /\ t \notin TaskOf[s] => job'[t] = job[t]
  OBVIOUS
<1>6. run'[s] = NoRun /\ \A x \in Server : x # s => run'[x] = run[x]
  BY <1>0
<1>7. OneTaskAtATime'
  <2>1. \A t \in Task : job'[t] # "building" => pc'[t] = "idle"
    BY <1>1, <1>5, TasksApart DEF RInv, OneTaskAtATime
  <2>2. ASSUME NEW x \in Server, NEW t \in TaskOf[x], job'[t] # "idle"
        PROVE  /\ run'[x].state = "running"
               /\ \A u \in TaskOf[x] : job'[u] # "idle" => u = t
    BY <1>5, <1>6, <2>2, TasksApart DEF RInv, OneTaskAtATime
  <2> QED
    BY <2>1, <2>2 DEF OneTaskAtATime
<1>8. SinceCovered'
  <2>1. store \in Nat
    BY <1>0 DEF TypeOK
  <2>2. \A x \in Server : run'[x].since <= store'
    BY <1>6, <2>1 DEF RInv, SinceCovered, NoRun
  <2>3. ASSUME NEW x \in Server, NEW t \in TaskOf[x], job'[t] = "building"
        PROVE  x # s /\ job[t] = "building" /\ pc'[t] = pc[t]
               /\ result'[t] = result[t] /\ upTo'[t] = upTo[t]
    BY <1>1, <1>5, <1>1a, <2>3, TasksApart
  <2>4. \A x \in Server : run'[x].state = "ended" => x # s
    BY <1>6 DEF NoRun
  <2>5. UNCHANGED disk
    OBVIOUS
  <2>6. ASSUME NEW x \in Server, NEW t \in TaskOf[x], job'[t] = "building"
        PROVE  /\ pc'[t] \in Loaded => run'[x].since <= upTo'[t]
               /\ pc'[t] = "idle" /\ result'[t] = "ok" =>
                    disk'["warehouse"].there /\ run'[x].since <= disk'["warehouse"].upTo
    <3>1. /\ x # s /\ job[t] = "building" /\ pc'[t] = pc[t]
          /\ result'[t] = result[t] /\ upTo'[t] = upTo[t]
      BY <2>3, <2>6
    <3>2. run'[x].since = run[x].since
      BY <1>6, <3>1
    <3> QED
      BY <2>5, <3>1, <3>2 DEF RInv, SinceCovered, Loaded
  <2>7. ASSUME NEW x \in Server, run'[x].state = "ended", ~run'[x].error
        PROVE  disk'["warehouse"].there /\ run'[x].since <= disk'["warehouse"].upTo
    BY <1>6, <2>4, <2>5, <2>7 DEF RInv, SinceCovered
  <2> QED
    BY <2>2, <2>6, <2>7 DEF SinceCovered, Loaded
<1> QED
  BY <1>2, <1>4, <1>7, <1>8 DEF RInv

(* Every step keeps the invariant.                                         *)
LEMMA RunnerNextInv == RInv /\ [RunnerNext]_rvars => RInv'
<1> SUFFICES ASSUME RInv, [RunnerNext]_rvars PROVE RInv'
  OBVIOUS
<1>1. ASSUME NEW s \in Server,
             \/ \E t \in TaskOf[s] : End(s, t) \/ \E m \in Mode : Request(s, t, m)
             \/ Restart(s)
      PROVE  RInv'
  BY <1>1, EndInv, RequestInv, RestartInv
<1>2. ASSUME NEW t \in Task, Begin(t)
      PROVE  RInv'
  <2>1. BuildStep(t) /\ run' = run /\ job[t] # "idle" /\ job' = [job EXCEPT ![t] = "building"]
    BY <1>2 DEF Begin, BuildStep, Mode
  <2> QED
    BY <2>1, BuildStepInv, TasksApart
<1>3. CASE PlaceOrder /\ UNCHANGED <<run, job>>
  BY <1>3, PlaceOrderInv
<1>4. ASSUME NEW b \in Builder, CommandLine(b) \/ Work(b) \/ Fail(b), UNCHANGED <<run, job>>
      PROVE  RInv'
  <2>1. BuildStep(b) /\ (b \in Task => pc[b] # "idle")
    BY <1>4, IdleStarts DEF RInv, CommandLine, BuildStep
  <2> QED
    BY <1>4, <2>1, BuildStepInv
<1>5. CASE UNCHANGED rvars
  <2>1. IInv'
    BY <1>5, NextInv DEF RInv, rvars
  <2>2. UNCHANGED <<pc, disk, store, upTo, result, run, job>>
    BY <1>5 DEF rvars, vars
  <2> QED
    BY <2>1, <2>2 DEF RInv, RunnerTypeOK, IInv, OneTaskAtATime, SinceCovered
<1> QED
  BY <1>1, <1>2, <1>3, <1>4, <1>5 DEF RunnerNext

-----------------------------------------------------------------------------

(* The inductive invariant of the background runs.                         *)
THEOREM RunnerInvariantHolds == RunnerSpec => []RInv
BY RunnerInitInv, RunnerNextInv, PTL DEF RunnerSpec

(* While a page shows no running run, nothing of its server is at work     *)
(* (the gate of etlStart and Begin).                                       *)
THEOREM PagesTellTheTruth == RunnerSpec => []PageTellsTruth
<1>1. RInv => PageTellsTruth
  BY TasksApart DEF RInv, OneTaskAtATime, PageTellsTruth
<1> QED
  BY <1>1, RunnerInvariantHolds, PTL

(* A run that ended without an error has published what was in the store   *)
(* when it was asked for.                                                  *)
THEOREM GoodRunsAreFresh == RunnerSpec => []GoodRunIsFresh
<1>1. RInv => GoodRunIsFresh
  BY DEF RInv, IInv, SinceCovered, WarehouseIsWhole, GoodRunIsFresh
<1> QED
  BY <1>1, RunnerInvariantHolds, PTL

(* A server that starts builds, dies and starts again is nothing else to   *)
(* readers than builds are (etlStart, EtlService).                         *)
THEOREM ServersPublish == RunnerSpec => ImplementsWarehouse
<1>1. RInv /\ [RunnerNext]_rvars => [Warehouse!Next]_<<store, Readable("warehouse"), Readable("parquet")>>
  <2> SUFFICES ASSUME RInv, [RunnerNext]_rvars
               PROVE  [Warehouse!Next]_<<store, Readable("warehouse"), Readable("parquet")>>
    OBVIOUS
  <2>1. CASE [Next]_vars
    BY <2>1, StepPublishes DEF RInv
  <2>2. CASE \E s \in Server : Restart(s)
    BY <2>2, SameToReaders DEF Restart, Path
  <2> QED
    BY <2>1, <2>2, TasksApart DEF RunnerNext, rvars, Next, Begin, CommandLine, End, Request, Mode
<1>2. RunnerInit => Warehouse!Init
  BY NothingPublished DEF RunnerInit
<1> QED
  BY <1>1, <1>2, RunnerInvariantHolds, PTL DEF RunnerSpec, ImplementsWarehouse, Warehouse!Spec
=============================================================================
