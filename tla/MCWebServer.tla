---------------------------- MODULE MCWebServer ----------------------------
(* A browser with two tabs, and the command, which runs one scenario.       *)
EXTENDS WebServer

CONSTANTS r1, r2, bench

Tabs == {r1, r2}
Racers == {r1, r2, bench}
TxUpdates == <<"tx-updates">>
Choices == <<{"bulk-insert"}, {}, {"concurrent-updates", "order-lookup", "customer-orders"}>>

(* Two tabs without a request are in the same state: a request comes from   *)
(* the first of them.                                                       *)
FirstFreeTab ==
  \A r \in Tabs : req[r] = Free /\ req'[r] # Free => r = CHOOSE q \in Tabs : req[q] = Free
=============================================================================
