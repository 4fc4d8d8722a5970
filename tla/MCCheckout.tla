----------------------------- MODULE MCCheckout -----------------------------
(* Small stores for TLC: two warehouses, two products.                      *)
EXTENDS Checkout, TLC

CONSTANTS c1, c2  \* customers

OneUnit  == [r \in Row |-> 1]

(* c1 prefers the warehouses by id, any other customer the other way round. *)
HomeFirst == [c \in Customer |-> [w \in Warehouse |-> IF c = c1 THEN w ELSE 10 - w]]

(* The seeder left a pending order of c1 for two units of product 2 from    *)
(* warehouse 1, which has no inventory row for it.                          *)
SeedRows == {<<1, 1>>, <<2, 1>>, <<2, 2>>}
PendingSeed ==
  [o \in OrderId |->
     IF o # 1 THEN NoOrder
     ELSE [NoOrder EXCEPT !.status = "pending", !.customer = c1, !.payment = "authorized",
                          !.lines[2] = 2, !.from[2] = 1]]
=============================================================================
