------------------------------ MODULE CopyRatio ------------------------------
(***************************************************************************)
(* The quantities of copied orders, in the least units of the platform. A  *)
(* ratio has as many decimals as the library divides with, and its last    *)
(* one is rounded half up; a quantity is rounded down.                     *)
(***************************************************************************)
EXTENDS Integers

CONSTANT RatioScale   \* ratios are multiples of 1 / RatioScale

ASSUME RatioAssumption == RatioScale \in Nat \ {0}

\* a / b, rounded half up, in units of 1 / RatioScale.
Ratio(a, b) == (2 * a * RatioScale + b) \div (2 * b)

\* The quantity of a BUY: the master's, times what the follower allocated of his balance.
BuyQuantity(quantity, masterBalance, allocated) ==
    IF masterBalance = 0 \/ allocated = 0 \/ quantity = 0 THEN 0
    ELSE (quantity * Ratio(allocated, masterBalance)) \div RatioScale

\* The position of a subscription, never negative.
SubPosition(bought, sold) == IF bought <= sold THEN 0 ELSE bought - sold

\* The quantity of a SELL: the part of the position the master sold of his, at most all.
SellQuantity(quantity, masterBalance, position) ==
    LET whole == position * RatioScale
        part  == position * Ratio(quantity, masterBalance)
    IN  IF masterBalance = 0 \/ position = 0 \/ quantity = 0 THEN 0
        ELSE (IF part < whole THEN part ELSE whole) \div RatioScale
=============================================================================
