------------------------------- MODULE Totals -------------------------------
(* Sums over a finite set.                                                  *)
EXTENDS Integers, FiniteSets

(* How many units the members of S count for, n[x] of them for x: the      *)
(* units are numbered, member by member, and counted.                      *)
Total(n, S) == Cardinality(UNION {{x} \X (1 .. n[x]) : x \in S})
=============================================================================
