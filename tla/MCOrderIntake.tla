--------------------------- MODULE MCOrderIntake ---------------------------
(***************************************************************************)
(* OrderIntake for TLC: a user with funds for two orders, unless the first *)
(* is placed with the other amount its request is repeated with, and       *)
(* another user who uses one of the keys.                                  *)
(***************************************************************************)
EXTENDS OrderIntake, TLC

MCRequest == {
    [user |-> "u1", key |-> "k1", amount |-> 1],
    [user |-> "u1", key |-> "k1", amount |-> 2],
    [user |-> "u1", key |-> "k2", amount |-> 1],
    [user |-> "u2", key |-> "k1", amount |-> 1] }

MCSymmetry == Permutations(Handler) \cup Permutations(Canceller)

\* The keys of the user take part in a behaviour, or the key of the two users, with at
\* most one failure, one cancellation and no record that expires. A stale trade is the only
\* failure of its behaviour.
UnderWay(r) == records[ScopeOf(r)] # NoRecord \/ \E h \in Handler : work[h].pc # "idle" /\ work[h].req = r

MCBounds ==
    /\ "stale" \in Failures => Len(failures) = 1
    /\ (\E r \in Request : r.user = "u2" /\ UnderWay(r)) =>
          /\ \A r \in Request : r.key = "k2" => ~UnderWay(r)
          /\ Len(failures) <= 1
          /\ \E c \in Canceller : cancel[c].pc = "idle"
          /\ \A s \in Scope : ~records[s].expired

\* Nothing depends on the order in which calls were posted or failures happened, on what a
\* cancellation did that is over, nor on how much of an order in the table was filled.
Posted == [u \in User |-> {<<e.key, e.op, e.amount>> : e \in Range(ledger[u])}]
Table == [i \in DOMAIN orders |->
    IF i \in Placed THEN [orders[i] EXCEPT !.filled = 0] ELSE orders[i]]
Cancels == [c \in Canceller |-> IF cancel[c].pc = "done" THEN [NoCancel EXCEPT !.pc = "done"] ELSE cancel[c]]
MCView == <<accounts, Posted, records, Table, owed, work, Cancels, Failures, Len(failures)>>
=============================================================================
