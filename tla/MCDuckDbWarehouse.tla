-------------------------- MODULE MCDuckDbWarehouse --------------------------
(* Small instances of DuckDbWarehouse: three queries, of which two can be  *)
(* held up while the third replaces the root.                              *)
EXTENDS DuckDbWarehouse, TLC

CONSTANTS q1, q2, q3, i1, i2, i3, i4

WarehouseSymmetry == Permutations({q1, q2, q3}) \cup Permutations({i1, i2, i3, i4})
=============================================================================
