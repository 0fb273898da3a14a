----------------------------- MODULE MCBalances -----------------------------
(***************************************************************************)
(* Balances for TLC: two users, two currencies. The calls meet on accounts *)
(* and on keys: a deposit and a credit both open the account of u1, the    *)
(* debit and the unlock compete for the same locked funds, k3 is used for  *)
(* two types of call, and k2 by two users and for two currencies. A key is *)
(* posted once, so the ledgers are as long as there are keys, at most.     *)
(***************************************************************************)
EXTENDS Balances

CONSTANTS u1, u2, usdt, eth, k1, k2, k3, k4

Call(op, u, c, n, k) == [op |-> op, acct |-> <<u, c>>, amount |-> n, key |-> k]

MCRequest == {
    Call("DEPOSIT", u1, usdt, 2, k1),
    Call("LOCK", u1, usdt, 1, k2),
    Call("LOCK", u2, usdt, 1, k2),
    Call("LOCK", u1, eth, 1, k2),
    Call("UNLOCK", u1, usdt, 1, k3),
    Call("WITHDRAWAL", u1, usdt, 1, k4),
    Call("ON_CHAIN_DEPOSIT", u1, usdt, 1, k3) }
=============================================================================
