------------------------- MODULE MCWarehouseReader -------------------------
(* Small instances of WarehouseReader: the watcher, the goroutine of the   *)
(* ETL page and two queries.                                               *)
EXTENDS WarehouseReader

CONSTANTS watch, etl, q1, q2, d1, d2, d3
=============================================================================
