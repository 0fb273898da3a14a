--------------------------- MODULE MCWithdrawals ---------------------------
(***************************************************************************)
(* Withdrawals for TLC: a user with funds for two withdrawals, and another *)
(* who uses the key of one of them for the same amount.                    *)
(***************************************************************************)
EXTENDS Withdrawals, TLC

MCRequest == {
    [user |-> "u1", key |-> "k1", amount |-> 3],
    [user |-> "u1", key |-> "k2", amount |-> 2],
    [user |-> "u2", key |-> "k1", amount |-> 3] }

MCSymmetry == Permutations(Handler) \cup Permutations(Worker)

\* The two withdrawals of the user take part in a behaviour, or those of the key, with one
\* instance at a time and at most one failure. Handlers work at the same time on one key.
UnderWay(r) ==
    Requested(r) \/ \E h \in Handler : handling[h].pc # "idle" /\ handling[h].req = r

TwoAtMost ==
    /\ \A g, h \in Handler : handling[g].pc # "idle" /\ handling[h].pc # "idle" =>
          handling[g].req.key = handling[h].req.key
    /\ (\E r \in Request : r.user = "u2" /\ UnderWay(r)) =>
          /\ faults <= 1 /\ \E w \in Worker : work[w].pc = "down"
          /\ \A r \in Request : r.key = "k2" => ~UnderWay(r) /\ ~Repeats(LockCall(r))

\* Nothing depends on the order in which calls were posted, nor on what a handler did last.
Posted == [u \in User |-> {<<ledger[u][i].key, ledger[u][i].amount>> : i \in DOMAIN ledger[u]}]
Handled == [h \in Handler |-> IF handling[h].pc = "idle" THEN Idle ELSE handling[h]]
MCView == <<accounts, Posted, rows, outbox, chain, Handled, work, faults, failures>>
=============================================================================
