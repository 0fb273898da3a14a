----------------------------- MODULE MCMatching -----------------------------
(***************************************************************************)
(* Matching for TLC: two asks of one user at different prices, which may   *)
(* be placed again, and a bid of another that takes three asks, of which   *)
(* it is to look at two.                                                   *)
(***************************************************************************)
EXTENDS Matching

Order(user, side, price, amount) ==
    [user |-> user, side |-> side, price |-> price, amount |-> amount]

MCRequest == {
    Order("u1", "SELL", 1, 1), Order("u1", "SELL", 2, 1),
    Order("u2", "BUY", 2, 3) }
=============================================================================
