--------------------------- MODULE MCOutboxRelay ---------------------------
(***************************************************************************)
(* OutboxRelay for TLC: three events, two of them of the same pair, and    *)
(* batches of two, so that one relay cannot take all of them and the other *)
(* skips what is locked.                                                   *)
(***************************************************************************)
EXTENDS OutboxRelay

CONSTANTS e1, e2, e3

MCPartitionKey == [e \in Event |-> IF e = e3 THEN "BTC_USDT" ELSE "ETH_USDT"]
=============================================================================
