------------------------------ MODULE Exchange ------------------------------
(***************************************************************************)
(* What matching promises as long as the orders service works on one       *)
(* request at a time and none fails: an order is matched in one step, with *)
(* every maker among the Limit best getting what those before it leave     *)
(* over, and an order that is not filled can be cancelled. Nothing is      *)
(* promised afterwards.                                                    *)
(*                                                                         *)
(* Matching implements this specification with a book in Redis beside the  *)
(* table of orders.                                                        *)
(***************************************************************************)
EXTENDS OrderTerms, Sequences, Functions, FiniteSets

CONSTANTS
    Request,  \* the orders that may be placed: [user, side, price, amount] records
    Limit     \* how many of the best opposing orders a new one is matched with

VARIABLES
    orders,  \* the orders in the table, by id
    trades,  \* the trades made: [maker, taker, price, quantity] records
    serial   \* no requests have overlapped so far, and none has failed

exchangeVars == <<orders, trades, serial>>

New(r) == [user |-> r.user, side |-> r.side, price |-> r.price, amount |-> r.amount,
           filled |-> 0, remaining |-> r.amount, status |-> "OPEN"]

\* The live orders of its side that come before i.
Better(i) == {j \in DOMAIN orders : /\ Live(orders[j]) /\ orders[j].side = orders[i].side
                                   /\ Before(orders[j], j, orders[i], i)}

\* The orders an order r can trade with. Those of its own user count towards Limit.
Makers(r) == {i \in DOMAIN orders : /\ Live(orders[i]) /\ Crosses(r, orders[i])
                                   /\ Cardinality(Better(i)) < Limit}

\* What the makers before i take of an order r, and what they leave of it.
Taken(r, i) ==
    SumFunctionOnSet([j \in Makers(r) |-> orders[j].remaining],
                     {j \in Makers(r) : Before(orders[j], j, orders[i], i)})
LeftFor(r, i) == IF Taken(r, i) < r.amount THEN r.amount - Taken(r, i) ELSE 0

\* What i trades with r, and what all do.
Fill(r, i) ==
    IF i \notin Makers(r) THEN 0
    ELSE IF orders[i].remaining < LeftFor(r, i) THEN orders[i].remaining
    ELSE LeftFor(r, i)
Total(r) == SumFunctionOnSet([i \in DOMAIN orders |-> Fill(r, i)], DOMAIN orders)

\* Row o after it has traded q.
Traded(o, q) == IF q = 0 THEN o ELSE Executed(o, o.filled + q, o.remaining - q)

Init ==
    /\ orders = << >>
    /\ trades = {}
    /\ serial = TRUE

Place(r) ==
    /\ orders' = Append([i \in DOMAIN orders |-> Traded(orders[i], Fill(r, i))],
                        Traded(New(r), Total(r)))
    /\ trades' = trades \cup
          {[maker |-> i, taker |-> Len(orders) + 1, price |-> orders[i].price,
            quantity |-> Fill(r, i)] : i \in {j \in DOMAIN orders : Fill(r, j) > 0}}

Cancel(i) ==
    /\ Live(orders[i])
    /\ orders' = [orders EXCEPT ![i].status = "CANCELLED"]
    /\ UNCHANGED trades

Next ==
    \/ /\ serial /\ serial'
       /\ (\E r \in Request : Place(r)) \/ (\E i \in DOMAIN orders : Cancel(i))
    \/ ~serial'

Spec == Init /\ [][Next]_exchangeVars
=============================================================================
