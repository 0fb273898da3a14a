---------------------------- MODULE MCSettlement ----------------------------
(***************************************************************************)
(* Settlement for TLC. Two trades fill an order of u1 with an order of u2, *)
(* so that they have all four accounts in common, one of which is not      *)
(* open at first; the order of the ids mixes buyers and sellers. With      *)
(* Scale = 2 and odd products the two roundings differ, and whether a part *)
(* of the order is unlocked before, after or instead of its trade. A third *)
(* trade is one of u1 with itself; an event with another action would be   *)
(* dropped in the same way.                                                *)
(***************************************************************************)
EXTENDS Settlement

CONSTANTS u1, u2, eth, usdt, bad

Placed(user, side, p, n) ==
    [user |-> user, side |-> side, base |-> eth, quote |-> usdt, price |-> p, amount |-> n]

Buy == Placed(u1, "BUY", 3, 2)
Sell == Placed(u2, "SELL", 1, 2)
OwnSell == Placed(u1, "SELL", 2, 1)
MCOrder == {Buy, Sell, OwnSell}

Executed(buy, sell, p, q) ==
    [buyOrder |-> buy, sellOrder |-> sell, buyer |-> buy.user, seller |-> sell.user,
     base |-> eth, quote |-> usdt, price |-> p, quantity |-> q, buyerLimitPrice |-> buy.price]

First == Executed(Buy, Sell, 1, 1)
Second == Executed(Buy, Sell, 3, 1)
WithItself == Executed(Buy, OwnSell, 2, 1)

MCTrade == {First, Second, WithItself}
MCCopies == [e \in Event |-> IF e = First THEN 2 ELSE 1]
MCReleases == [o \in Order |-> IF o = Buy THEN 1 ELSE 0]
MCAccountId == [a \in Account |->
    IF a = <<u1, usdt>> THEN 1 ELSE IF a = <<u2, eth>> THEN 2
    ELSE IF a = <<u2, usdt>> THEN 3 ELSE 4]
MCReserved == [a \in Account |->
    SumFunction([o \in Order |-> LockOf(o, a)])]

\* No order is unlocked whole, but in part.
InParts == \A o \in Order : released[o] = 0 \/ released[o] < LockAmount(o, o.amount)
=============================================================================
