------------------------------ MODULE SeedData ------------------------------
(***************************************************************************)
(* The algorithms of the data generator (internal/seed) that its phases    *)
(* share.  Its random numbers are inputs; names and texts are left out.    *)
(* Times are integers, days are counted from the first day of history.     *)
(*                                                                         *)
(* An operator named X_Y is X with the mistake Y in it and is used nowhere *)
(* else.                                                                   *)
(***************************************************************************)
EXTENDS Integers, SequencesExt

Nothing == -1   \* no row, no id, NULL

(* math.Round of the positive fraction a/b.                                *)
Rounded(a, b) == (2 * a + b) \div (2 * b)

(* gen.weighted, for the draw r < sum of the weights: the first index whose *)
(* share of the line from 0 to the sum contains r.                         *)
Weighted(weights, r) ==
  LET upto[i \in 0..Len(weights)] == IF i = 0 THEN 0 ELSE upto[i - 1] + weights[i]
  IN Min({i \in DOMAIN weights : r < upto[i]} \cup {Len(weights)})

(* product.priceAt: a binary search for the first price point at or after  *)
(* t, then the last one at or before it.                                   *)
PriceAt_Next(prices, t) ==
  prices[Min({i \in DOMAIN prices : prices[i].from >= t} \cup {Len(prices)})]
PriceAt(prices, t) ==
  LET i == Min({j \in DOMAIN prices : prices[j].from >= t} \cup {Len(prices) + 1})
  IN IF i <= Len(prices) /\ prices[i].from = t THEN prices[i] ELSE prices[Max({1, i - 1})]

(* The rows of product_prices, as the iterator of copyReference walks them: *)
(* a version ends where the next one begins, the last one is open.          *)
PriceRows(prices) ==
  {[from |-> prices[i].from, cents |-> prices[i].cents,
    to |-> IF i < Len(prices) THEN prices[i + 1].from ELSE Nothing] : i \in DOMAIN prices}

ValidAt(row, t) == row.from <= t /\ (row.to = Nothing \/ t < row.to)

(* The promotions that are active at t.                                    *)
ActivePromotions(promotions, t) ==
  {i \in DOMAIN promotions : promotions[i].starts <= t /\ t < promotions[i].ends}

-----------------------------------------------------------------------------
(* Exchange rates.  buildFX writes one row per business day and keeps an   *)
(* array with the last rate carried over weekends; a rate is named by the  *)
(* day its row is from, Nothing is the rate a currency starts with.        *)

Lead == 10    \* days of rates before the first day of history

(* Day 0 of the array is the weekday first (0 is Sunday).                  *)
BusinessDay(first, d) == (first + d) % 7 \notin {0, 6}

Fx_NoCarry(first, days) ==
  [d \in 0..(Lead + days) |-> IF BusinessDay(first, d) THEN d ELSE Nothing]
Fx(first, days) ==
  LET rate[d \in -1..(Lead + days)] ==
        IF d = -1 THEN Nothing ELSE IF BusinessDay(first, d) THEN d ELSE rate[d - 1]
  IN [d \in 0..(Lead + days) |-> rate[d]]

(* rateAt: the entry of the day, or the last one.                          *)
RateAt(fx, day) == fx[Min({Lead + day, Max(DOMAIN fx)})]

-----------------------------------------------------------------------------
(* Draws without repetition (product_suppliers, inventory): a draw that    *)
(* came before is skipped, so there may be fewer rows than draws.          *)
Drawn_Again(seen, x) == Append(seen, x)
Drawn(seen, x) == IF Contains(seen, x) THEN seen ELSE Append(seen, x)
=============================================================================
