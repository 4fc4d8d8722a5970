------------------------------ MODULE PriceBook -----------------------------
(***************************************************************************)
(* What the price history of a product promises: a log of prices, to which *)
(* a change appends and from which nothing is ever removed while the       *)
(* product exists; the current price is the last entry.  PriceHistory      *)
(* implements this specification.                                          *)
(***************************************************************************)
EXTENDS Naturals

CONSTANTS Price, None

VARIABLES
  log,      \* the pairs <<time, price>> of the history
  current   \* the price on the product's page, None while there is no product

Init == log = {} /\ current = None

Append(at, price) == /\ \A e \in log : e[1] < at
                     /\ log' = log \cup {<<at, price>>}
                     /\ current' = price

(* A product that was never sold may go, with its history.                 *)
Remove == log' = {} /\ current' = None

(* What was appended is in log'.                                           *)
Next == Remove \/ \E e \in log' : e[2] \in Price /\ Append(e[1], e[2])

Spec == Init /\ [][Next]_<<log, current>>
=============================================================================
