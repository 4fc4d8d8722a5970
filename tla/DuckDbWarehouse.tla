--------------------------- MODULE DuckDbWarehouse ---------------------------
(***************************************************************************)
(* The .NET service's access to the warehouse file                         *)
(* (Warehouse/DuckDbWarehouse.cs): one root connection has the file        *)
(* attached, every query runs on a duplicate of it, and the query that     *)
(* notices a new file replaces the root.  There is no watcher and no lock  *)
(* around a query: a duplicate keeps its DuckDB instance alive.            *)
(*                                                                         *)
(* A file is its version: each swap of a build makes the next one.         *)
(***************************************************************************)
EXTENDS Integers

CONSTANTS
  Query,      \* requests that call OpenAsync
  Instance,   \* DuckDB instances that can exist (bound)
  MaxVersion, \* bound: swaps of the file
  None        \* no instance

ASSUME WarehouseAssumption == MaxVersion \in Nat /\ None \notin Instance

VARIABLES
  file,     \* the version of the file on disk, 0 while there is none
  root,     \* _root
  stamp,    \* _stamp: the version of the file it was taken of
  open,     \* root connections that have not been disposed
  version,  \* the version each instance attached
  pc,       \* the step of each query
  seen,     \* the version whose stamp a query took
  on        \* the root a query was given, then the instance it runs on

vars == <<file, root, stamp, open, version, pc, seen, on>>

Step == {"idle", "gate", "install", "duplicate", "query"}

(* Every variable has its type.                                            *)
TypeOK ==
  /\ file \in 0..MaxVersion
  /\ root \in Instance \cup {None}
  /\ stamp \in 0..MaxVersion
  /\ open \subseteq Instance
  /\ version \in [Instance -> 0..MaxVersion]
  /\ pc \in [Query -> Step]
  /\ seen \in [Query -> 0..MaxVersion]
  /\ on \in [Query -> Instance \cup {None}]

Init ==
  /\ file = 0
  /\ root = None
  /\ stamp = 0
  /\ open = {}
  /\ version = [i \in Instance |-> 0]
  /\ pc = [q \in Query |-> "idle"]
  /\ seen = [q \in Query |-> 0]
  /\ on = [q \in Query |-> None]

-----------------------------------------------------------------------------

(* DuckDB: an instance lives while a connection to it is open.             *)
Alive(i) == i \in open \/ \E q \in Query : pc[q] = "query" /\ on[q] = i

(* An instance nothing refers to any more stands for a new one.            *)
New(i) == ~Alive(i) /\ \A q \in Query : on[q] # i

(* A build renames a new file over the old one.                            *)
Swap ==
  /\ file < MaxVersion
  /\ file' = file + 1
  /\ UNCHANGED <<root, stamp, open, version, pc, seen, on>>

Goes(q, from, to) == pc[q] = from /\ pc' = [pc EXCEPT ![q] = to]

(* The stamp is taken before the gate; without a file the query ends.      *)
TakeStamp(q) ==
  /\ file > 0
  /\ Goes(q, "idle", "gate")
  /\ seen' = [seen EXCEPT ![q] = file]
  /\ UNCHANGED <<file, root, stamp, open, version, on>>

(* lock (_gate): one query at a time gets as far as attaching.             *)
GateFree == \A q \in Query : pc[q] # "install"

(* Inside the gate: the root is current ...                                *)
Current_OnceOpen(q) == root # None
Current(q) == root # None /\ stamp = seen[q]

UseRoot(q) ==
  /\ GateFree
  /\ Current(q)
  /\ Goes(q, "gate", "duplicate")
  /\ on' = [on EXCEPT ![q] = root]
  /\ UNCHANGED <<file, root, stamp, open, version, seen>>

(* ... or a new one attaches the file that is there by now ...             *)
Attach(q) ==
  /\ GateFree
  /\ ~Current(q)
  /\ Goes(q, "gate", "install")
  /\ \E i \in Instance :
       /\ New(i)
       /\ version' = [version EXCEPT ![i] = file]
       /\ open' = open \cup {i}
       /\ on' = [on EXCEPT ![q] = i]
  /\ UNCHANGED <<file, root, stamp, seen>>

AttachFails(q) ==
  /\ GateFree
  /\ ~Current(q)
  /\ Goes(q, "gate", "idle")
  /\ UNCHANGED <<file, root, stamp, open, version, seen, on>>

(* ... and takes the place of the old one, which is disposed.              *)
StampOf_Again(q) == file
StampOf(q) == seen[q]

ReplaceRoot(q) ==
  /\ Goes(q, "install", "duplicate")
  /\ root' = on[q]
  /\ stamp' = StampOf(q)
  /\ open' = open \ {root}
  /\ UNCHANGED <<file, version, seen, on>>

(* Outside the gate: Duplicate needs an open connection.                   *)
Duplicate(q) ==
  /\ on[q] \in open
  /\ Goes(q, "duplicate", "query")
  /\ UNCHANGED <<file, root, stamp, open, version, seen, on>>

RootIsGone(q) ==
  /\ on[q] \notin open
  /\ Goes(q, "duplicate", "idle")
  /\ on' = [on EXCEPT ![q] = None]
  /\ UNCHANGED <<file, root, stamp, open, version, seen>>

(* The query disposes its duplicate.                                       *)
Finish(q) ==
  /\ Goes(q, "query", "idle")
  /\ on' = [on EXCEPT ![q] = None]
  /\ UNCHANGED <<file, root, stamp, open, version, seen>>

-----------------------------------------------------------------------------

Next ==
  \/ Swap
  \/ \E q \in Query : \/ TakeStamp(q) \/ UseRoot(q) \/ Attach(q) \/ AttachFails(q)
                      \/ ReplaceRoot(q) \/ Duplicate(q) \/ RootIsGone(q) \/ Finish(q)

Spec == Init /\ [][Next]_vars

-----------------------------------------------------------------------------
(* Properties.                                                             *)

(* A query runs on the warehouse that was on disk when it asked, or on a   *)
(* newer one, however many queries replace the root meanwhile and however  *)
(* late their stamps are ("Opens a connection to the latest warehouse").   *)
QuerySeesLatest == \A q \in Query : pc[q] = "query" => version[on[q]] >= seen[q]

(* A stamp that is the file's means that the root is: a swap between the   *)
(* stamp and ATTACH, or a query with an old stamp that passes the gate     *)
(* after one with a new stamp, never leaves an old root unnoticed.         *)
CurrentIsCurrent == stamp # 0 /\ stamp = file => root # None /\ version[root] = file

(* "Queries still running on the old root finish normally": a query that   *)
(* has been given the root gets to run.                                    *)
NoQueryLosesItsRoot ==
  [][\A q \in Query : pc[q] = "duplicate" /\ pc'[q] # pc[q] => pc'[q] = "query"]_vars

-----------------------------------------------------------------------------
(* Why it works: an inductive invariant.                                   *)

(* Only the root is an open root connection, and the one about to become   *)
(* it; a query that has attached or passed the gate has an instance.       *)
OnlyRootOpen ==
  /\ root # None => root \in open
  /\ \A i \in open : i # root => \E q \in Query : pc[q] = "install" /\ on[q] = i
  /\ \A q \in Query : /\ pc[q] \in {"install", "duplicate", "query"} <=> on[q] # None
                      /\ pc[q] = "install" => on[q] # root /\ on[q] \in open
  /\ \A q, x \in Query : pc[q] = "install" /\ pc[x] = "install" => q = x

(* The root is at least as new as its stamp, and what a query was given at *)
(* least as new as the stamp it took.                                      *)
NewerThanStamp ==
  /\ \A i \in Instance : version[i] <= file
  /\ root = None => stamp = 0
  /\ root # None => stamp <= version[root]
  /\ \A q \in Query : /\ seen[q] <= file
                      /\ pc[q] # "idle" => seen[q] # 0
                      /\ on[q] # None => seen[q] <= version[on[q]]

IInv == TypeOK /\ OnlyRootOpen /\ NewerThanStamp
=============================================================================
