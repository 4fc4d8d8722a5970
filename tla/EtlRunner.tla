----------------------------- MODULE EtlRunner -----------------------------
(***************************************************************************)
(* Builds in the background of a server: the ETL page of the Go server     *)
(* (internal/web/etl.go) and EtlService with EtlSchedule of the .NET       *)
(* service.  Each server remembers its current or last run behind a mutex  *)
(* and refuses a request while that run has not ended; a command line can  *)
(* build at the same time, so the run may still find etl.lock taken.       *)
(*                                                                         *)
(* The builds themselves are those of EtlBuild: a goroutine or task of a   *)
(* server is a builder, and so is a command-line run.                      *)
(***************************************************************************)
EXTENDS EtlBuild

CONSTANTS
  Server,  \* servers that run the ETL in the background
  TaskOf   \* the background tasks each server can start

ASSUME ServerAssumption ==
  /\ TaskOf \in [Server -> SUBSET Builder]
  /\ \A s, x \in Server : s # x => TaskOf[s] \cap TaskOf[x] = {}

VARIABLES
  run,   \* the current or last run of each server, as its page shows it
  job    \* what each task has to do for its run

rvars == <<vars, run, job>>

Task == UNION {TaskOf[s] : s \in Server}

(* since: history, the store's highest order id when the run was asked for *)
Run   == [state : {"none", "running", "ended"}, error : BOOLEAN, since : Nat]
NoRun == [state |-> "none", error |-> FALSE, since |-> 0]
Job   == {"idle", "full", "incremental", "building"}

(* Every variable has its type.                                            *)
RunnerTypeOK ==
  /\ TypeOK
  /\ run \in [Server -> Run]
  /\ job \in [Task -> Job]

RunnerInit ==
  /\ Init
  /\ run = [s \in Server |-> NoRun]
  /\ job = [t \in Task |-> "idle"]

-----------------------------------------------------------------------------

(* The gate of etlStart and of Begin: one run at a time.                   *)
MayStart_Always(s) == TRUE
MayStart(s) == run[s].state # "running"

(* A button, an API call, the schedule or the startup asks for a run, and  *)
(* a task is started for it.  A request that meets a running run changes   *)
(* nothing (it is told so, or the scheduled run is skipped).               *)
Request(s, t, m) ==
  /\ MayStart(s)
  /\ job[t] = "idle"
  /\ m = "incremental" => t \in DotNet
  /\ run' = [run EXCEPT ![s] = [state |-> "running", error |-> FALSE, since |-> store]]
  /\ job' = [job EXCEPT ![t] = m]
  /\ UNCHANGED vars

(* The task calls the builder, which gets the lock or not.                 *)
Begin(t) ==
  /\ job[t] \in Mode
  /\ Lock(t, job[t]) \/ AlreadyRunning(t)
  /\ job' = [job EXCEPT ![t] = "building"]
  /\ UNCHANGED run

(* The builder has returned: the run ends, with the error if there is one. *)
(* The Go server first reloads its warehouse, which may fail too.          *)
Returned(t) == job[t] = "building" /\ pc[t] = "idle"

IsError_NotWhenBusy(outcome) == outcome = "failed"
IsError(outcome) == outcome # "ok"

End_Forgotten(s, t) ==
  /\ Returned(t)
  /\ run' = IF IsError(result[t]) THEN run ELSE [run EXCEPT ![s].state = "ended"]
  /\ job' = [job EXCEPT ![t] = "idle"]
  /\ UNCHANGED vars
End(s, t) ==
  /\ Returned(t)
  /\ \E reloadFails \in {FALSE, t \notin DotNet} :
       run' = [run EXCEPT ![s].state = "ended", ![s].error = IsError(result[t]) \/ reloadFails]
  /\ job' = [job EXCEPT ![t] = "idle"]
  /\ UNCHANGED vars

(* The server process dies and is started again: nothing is remembered and *)
(* the lock of its build, if it had it, is free.                           *)
Restart(s) ==
  /\ failures < MaxFailures
  /\ pc' = [b \in Builder |-> IF b \in TaskOf[s] THEN "idle" ELSE pc[b]]
  /\ lock' = IF lock \in TaskOf[s] THEN None ELSE lock
  /\ result' = [b \in Builder |-> IF b \in TaskOf[s] THEN "none" ELSE result[b]]
  /\ failures' = failures + 1
  /\ run' = [run EXCEPT ![s] = NoRun]
  /\ job' = [t \in Task |-> IF t \in TaskOf[s] THEN "idle" ELSE job[t]]
  /\ Forget(TaskOf[s])
  /\ UNCHANGED <<store, disk>>

(* A command line run.                                                     *)
CommandLine(b) ==
  /\ b \notin Task
  /\ \/ \E m \in Mode : Lock(b, m)
     \/ AlreadyRunning(b) \/ Crash(b)

-----------------------------------------------------------------------------

RunnerNext ==
  \/ \E s \in Server : \/ \E t \in TaskOf[s] : End(s, t) \/ \E m \in Mode : Request(s, t, m)
                       \/ Restart(s)
  \/ \E t \in Task : Begin(t)
  \/ /\ PlaceOrder \/ \E b \in Builder : CommandLine(b) \/ Work(b) \/ Fail(b)
     /\ UNCHANGED <<run, job>>

RunnerSpec == RunnerInit /\ [][RunnerNext]_rvars

(* A task that was started runs, a build that has the lock goes on, and    *)
(* the task then ends its run; nobody has to ask a server for one.  From   *)
(* the command line (cron) full builds go on being started, and some run   *)
(* gets a lock that keeps coming free.                                     *)
RunnerFairness ==
  /\ SF_rvars((\E b \in Builder \ Task : Lock(b, "full")) /\ UNCHANGED <<run, job>>)
  /\ \A b \in Builder : WF_rvars(Work(b) /\ UNCHANGED <<run, job>>)
  /\ \A t \in Task : WF_rvars(Begin(t))
  /\ \A s \in Server : \A t \in TaskOf[s] : WF_rvars(End(s, t))

FairRunnerSpec == RunnerSpec /\ RunnerFairness

-----------------------------------------------------------------------------
(* Properties.                                                             *)

(* The page tells the truth: a run it shows as ended, or no run at all,    *)
(* means that nothing of this server is building or about to, so the next  *)
(* request cannot collide with it (the gate of etlStart and Begin).        *)
PageTellsTruth ==
  \A s \in Server : run[s].state # "running" =>
    \A t \in TaskOf[s] : pc[t] = "idle" /\ job[t] = "idle"

(* A run that ended without an error covers every order placed before it   *)
(* was asked for, whoever else was building meanwhile (Begin to Finished;  *)
(* the run that finds the lock taken must end with an error).              *)
GoodRunIsFresh ==
  \A s \in Server : run[s].state = "ended" /\ ~run[s].error =>
    disk["warehouse"].whole /\ run[s].since <= disk["warehouse"].upTo

(* Every run ends, well or with an error, so the button never stays        *)
(* disabled (the finally of ExecuteAsync, the deferred part of etlStart).  *)
EveryRunEnds == \A s \in Server : []<>(run[s].state # "running")

-----------------------------------------------------------------------------
(* Why it works: an inductive invariant.                                   *)

(* A server has one task at work, and only while its run is running; a     *)
(* task that has not called the builder is not one of its runs.            *)
OneTaskAtATime ==
  /\ \A t \in Task : job[t] # "building" => pc[t] = "idle"
  /\ \A s \in Server : \A t \in TaskOf[s] : job[t] # "idle" =>
       /\ run[s].state = "running"
       /\ \A u \in TaskOf[s] : job[u] # "idle" => u = t

(* Once a task has read its watermark, and still when it has ended well,   *)
(* it covers what was in the store when its run was asked for.             *)
SinceCovered ==
  /\ \A s \in Server : run[s].since <= store
  /\ \A s \in Server : \A t \in TaskOf[s] : job[t] = "building" =>
       /\ pc[t] \in {"load", "export", "close", "swap", "dropParquet", "dropRest",
                     "swapParquet", "unlock"} => run[s].since <= upTo[t]
       /\ pc[t] = "idle" /\ result[t] = "ok" =>
            disk["warehouse"].there /\ run[s].since <= disk["warehouse"].upTo
  /\ \A s \in Server : run[s].state = "ended" /\ ~run[s].error =>
       disk["warehouse"].there /\ run[s].since <= disk["warehouse"].upTo

RInv == RunnerTypeOK /\ IInv /\ OneTaskAtATime /\ SinceCovered
=============================================================================
