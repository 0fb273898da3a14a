------------------------------ MODULE Clearing ------------------------------
(***************************************************************************)
(* What settlement promises: a trade moves the balances of its four        *)
(* accounts in one step, and does so at most once, while the orders        *)
(* service unlocks what it no longer wants locked.                         *)
(*                                                                         *)
(* Settlement implements this specification with Kafka consumers that see  *)
(* an event several times, overlap, and fail half way.                     *)
(***************************************************************************)
EXTENDS TradeAmounts

CONSTANTS
    Account,
    Trade,
    Order

VARIABLES
    accounts,  \* the balances of every account
    processed  \* the trades that have been settled

clearingVars == <<accounts, processed>>

\* At first every account has what the orders service had locked for its orders.
\* Opening an account that has none does not change its (zero) balances.
Init ==
    /\ accounts \in [Account -> [avail : {0}, locked : Nat]]
    /\ processed = {}

Clear(tr) ==
    /\ tr \notin processed
    /\ accounts' = [a \in Account |->
           [avail  |-> accounts[a].avail + AvailDelta(tr, a),
            locked |-> accounts[a].locked + LockedDelta(tr, a)]]
    /\ processed' = processed \cup {tr}

Release(o, q) ==
    /\ LockAmount(o, q) <= accounts[AccountOf(o)].locked
    /\ accounts' = [accounts EXCEPT ![AccountOf(o)] = [avail  |-> @.avail + LockAmount(o, q),
                                                      locked |-> @.locked - LockAmount(o, q)]]
    /\ UNCHANGED processed

Next ==
    \/ \E tr \in Trade : Clear(tr)
    \/ \E o \in Order : \E q \in 1 .. o.amount : Release(o, q)

Spec == Init /\ [][Next]_clearingVars
=============================================================================
