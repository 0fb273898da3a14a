----------------------------- MODULE OrderTerms -----------------------------
(***************************************************************************)
(* Which orders of a pair trade with each other, in which order, and what  *)
(* a trade makes of the row of an order. An order has a user, a side, a    *)
(* price and an amount, and is identified by a number that grows with the  *)
(* time it was placed at, as its uuid does.                                *)
(***************************************************************************)
EXTENDS Integers

\* Orders of two users, one of each side, whose prices meet.
Crosses(o, p) ==
    /\ o.user # p.user
    /\ \/ o.side = "BUY"  /\ p.side = "SELL" /\ o.price >= p.price
       \/ o.side = "SELL" /\ p.side = "BUY"  /\ o.price <= p.price

\* Order o with id i comes before order p with id j of the same side. zrange sorts
\* by price, then by id; for bids the whole range is reversed.
Before(o, i, p, j) ==
    IF o.side = "SELL" THEN o.price < p.price \/ (o.price = p.price /\ i < j)
                       ELSE o.price > p.price \/ (o.price = p.price /\ i > j)

StatusOf(filled, remaining) ==
    IF remaining = 0 THEN "FILLED"
    ELSE IF filled > 0 THEN "PARTIALLY_FILLED"
    ELSE "OPEN"

\* Row o with other amounts (updateExecution).
Executed(o, filled, remaining) ==
    [o EXCEPT !.filled = filled, !.remaining = remaining,
              !.status = StatusOf(filled, remaining)]

\* An order that may be matched or cancelled.
Live(o) == o.status \in {"OPEN", "PARTIALLY_FILLED"}
=============================================================================
