--------------------------- MODULE MCPriceHistory ---------------------------
(* A price change of each program, two checkouts and an extract.         *)
EXTENDS PriceHistory, TLC

Same == Permutations(Price) \cup Permutations(Buyer)
=============================================================================
