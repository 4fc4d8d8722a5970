---------------------------- MODULE MCSeedOrders ----------------------------
(* Two products, one with two prices, launched during the history.          *)
EXTENDS SeedOrders

TwoProducts ==
  << [created |-> -5, prices |-> <<[from |-> -5, cents |-> 199], [from |-> 3, cents |-> 249]>>],
     [created |-> 3,  prices |-> <<[from |-> 3, cents |-> 101]>>] >>
OnePromotion == << [starts |-> 2, ends |-> 4, pct |-> 25, set |-> {1}] >>
=============================================================================
