----------------------------- MODULE MCDeposits -----------------------------
(***************************************************************************)
(* Deposits for TLC: a transaction with one deposit the scanner asks for,  *)
(* after one whose event it does not; and one with two, of a token that is *)
(* not supported and of one that is. No amount that is credited is a whole *)
(* number of the platform's units. A block may be replaced, and its        *)
(* transaction mined again in another one.                                 *)
(***************************************************************************)
EXTENDS Deposits

Native(n) == [event |-> "NativeDeposited", user |-> "u1", token |-> "native", amount |-> n]
Token(c, n) == [event |-> "TokenDeposited", user |-> "u1", token |-> c, amount |-> n]
OfVault(n) == [event |-> VaultEvent, user |-> "u1", token |-> "native", amount |-> n]

MCLogs ==
    [t \in Transaction |->
        IF t = "single" THEN <<OfVault(7), Native(3)>>
        ELSE <<Token("other", 4), Token("usdt", 5)>>]

MCVaultLogs == [t \in Transaction |-> <<OfVault(4)>>]

\* One of the two transactions takes part in a behaviour.
OneOrTheOther ==
    \E t \in Transaction : \A u \in Transaction \ {t} : ~Contains(chain, u) /\ deposits[u] = NoRow

MCUnitsPerCoin == [c \in {"native", "usdt"} |-> 2]
=============================================================================
