-------------------------- MODULE PublishedWarehouse -------------------------
(***************************************************************************)
(* What the builds of the warehouse promise to its readers: the warehouse  *)
(* appears and is replaced in one step, whole, by one that knows at least  *)
(* as many orders, and never goes away; the Parquet files may, but when    *)
(* they come back they are those of the warehouse.  EtlBuild implements    *)
(* this specification, and so does EtlRunner.                              *)
(***************************************************************************)
EXTENDS Integers

VARIABLES
  store,       \* the highest order id in PostgreSQL
  warehouse,   \* the highest order id in the warehouse
  parquet      \* the highest order id in the Parquet files

Missing == -1    \* there is nothing at the path
Broken  == -2    \* something that is not complete

Init == store = 0 /\ warehouse = Missing /\ parquet = Missing

Order == store' = store + 1 /\ UNCHANGED <<warehouse, parquet>>

Publish == /\ warehouse' \in 0..store /\ warehouse <= warehouse'
           /\ UNCHANGED <<store, parquet>>

WithdrawParquet == parquet' \in {Missing, Broken} /\ UNCHANGED <<store, warehouse>>

PublishParquet == /\ warehouse # Missing /\ parquet' = warehouse
                  /\ UNCHANGED <<store, warehouse>>

Next == Order \/ Publish \/ WithdrawParquet \/ PublishParquet

Spec == Init /\ [][Next]_<<store, warehouse, parquet>>
=============================================================================
