---------------------------- MODULE TradeAmounts ----------------------------
(***************************************************************************)
(* The amounts of a trade (calculateSettlementAmounts and                  *)
(* buildSettlementLedgerParams of the accounts service), and the amounts   *)
(* the orders service locks and unlocks for an order. Prices, quantities   *)
(* and balances are decimals with eight places: here whole numbers of the  *)
(* smallest unit, Scale of which are one. A product is rounded back to a   *)
(* whole number of units: down in the accounts process, which configures   *)
(* ROUND_DOWN, and half up in the orders process, which keeps the default. *)
(***************************************************************************)
EXTENDS Integers

CONSTANT Scale

ASSUME ScaleAssumption == Scale \in Nat \ {0}

\* Mutant: the accounts process rounds half up as well.
TimesAsInOrders(x, y) == (2 * x * y + Scale) \div (2 * Scale)

Times(x, y) == (x * y) \div Scale
TimesHalfUp(x, y) == (2 * x * y + Scale) \div (2 * Scale)

QuoteCost(tr) == Times(tr.price, tr.quantity)

\* What the buyer locked over the price the trade was executed at.
SurplusRefund(tr) ==
    IF tr.buyerLimitPrice > tr.price
    THEN Times(tr.buyerLimitPrice - tr.price, tr.quantity)
    ELSE 0

\* The four accounts of a trade.
BuyerQuote(tr)  == <<tr.buyer, tr.quote>>
BuyerBase(tr)   == <<tr.buyer, tr.base>>
SellerQuote(tr) == <<tr.seller, tr.quote>>
SellerBase(tr)  == <<tr.seller, tr.base>>
AccountsOf(tr) == {BuyerQuote(tr), BuyerBase(tr), SellerQuote(tr), SellerBase(tr)}

\* Mutant: the surplus leaves the locked balance and goes nowhere.
AvailDeltaWithoutRefund(tr, a) ==
    IF a = BuyerBase(tr) THEN tr.quantity
    ELSE IF a = SellerQuote(tr) THEN QuoteCost(tr)
    ELSE 0

AvailDelta(tr, a) ==
    IF a = BuyerQuote(tr) THEN SurplusRefund(tr)
    ELSE IF a = BuyerBase(tr) THEN tr.quantity
    ELSE IF a = SellerQuote(tr) THEN QuoteCost(tr)
    ELSE 0

LockedDelta(tr, a) ==
    IF a = BuyerQuote(tr) THEN -(QuoteCost(tr) + SurplusRefund(tr))
    ELSE IF a = SellerBase(tr) THEN -tr.quantity
    ELSE 0

\* The account the funds of an order are locked on, and what the orders service locks when
\* it is placed, for all of it, or unlocks when it is cancelled, for the q that remain.
AccountOf(o) == <<o.user, IF o.side = "BUY" THEN o.quote ELSE o.base>>
LockAmount(o, q) == IF o.side = "BUY" THEN TimesHalfUp(o.price, q) ELSE q
=============================================================================
