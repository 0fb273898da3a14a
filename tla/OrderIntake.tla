----------------------------- MODULE OrderIntake -----------------------------
(***************************************************************************)
(* createOrder and cancelOrder of the orders service as sagas over three   *)
(* stores that share no transaction: the idempotency records, the balances *)
(* of the accounts service, and the table of orders.                       *)
(*                                                                         *)
(* createOrder looks for a record of its key, creates one, locks the funds *)
(* of the order, inserts and matches the order in one transaction, and     *)
(* completes the record; when the transaction throws it unlocks the funds  *)
(* and fails the record. cancelOrder cancels the row in one transaction    *)
(* and then unlocks the funds of what remained. A handler may fail at each *)
(* of these steps, or stop between them, and the caller of a step that was *)
(* done may not hear of it.                                                *)
(*                                                                         *)
(* The accounts service is its specification Ledger, which Balances        *)
(* implements. What happens between the statements of a matching is        *)
(* Matching's: here an order trades in one step, either as the table has   *)
(* it or, since the book and the table share no transaction, as somebody   *)
(* saw it earlier. A key of createOrder is the client's, and the keys of   *)
(* its calls to the accounts service name no user; every call of           *)
(* cancelOrder has a key of its own.                                       *)
(***************************************************************************)
EXTENDS OrderTerms, Sequences, FiniteSets, Functions

CONSTANTS
    User,
    Request,    \* the calls of createOrder: [user, key, amount] records
    Handler,    \* handlers of createOrder
    Canceller,  \* the calls of cancelOrder
    Funds,      \* what each user starts with
    MaxOrders,
    MaxFaults

ASSUME RequestAssumption ==
    /\ Request # {}
    /\ \A r \in Request : r.user \in User /\ r.amount \in Nat \ {0}

ASSUME BoundsAssumption ==
    Funds \in Nat /\ MaxOrders \in Nat /\ IsFiniteSet(Handler) /\ IsFiniteSet(Canceller)

VARIABLES
    accounts, ledger,  \* the balances, as in Ledger
    records,   \* records[s]: the idempotency record of a user and key
    orders,    \* the table of orders
    owed,      \* owed[i]: what order i has traded that is not yet settled
    work,      \* work[h]: how far h has come, with which request and order
    cancel,    \* cancel[c]: how far c has come, with which order and amount
    failures   \* the failures and stale trades there have been, of which kinds (history)

vars == <<accounts, ledger, records, orders, owed, work, cancel, failures>>

Scope == {<<r.user, r.key>> : r \in Request}
Id == 1 .. MaxOrders
NoRecord == [status |-> "NONE", amount |-> 0, order |-> 0, expired |-> FALSE]
NoRequest == CHOOSE r \in Request : TRUE
Idle == [pc |-> "idle", req |-> NoRequest, order |-> 0]
NoCancel == [pc |-> "idle", order |-> 0, amount |-> 0]

\* The calls to the accounts service, and what it promises about them.
Call(op, user, amount, key) == [op |-> op, acct |-> user, amount |-> amount, key |-> key]
Accounts == INSTANCE Ledger WITH Account <- User

Init ==
    /\ accounts = [u \in User |-> [exists |-> TRUE, avail |-> Funds, locked |-> 0]]
    /\ ledger = [u \in User |-> << >>]
    /\ records = [s \in Scope |-> NoRecord]
    /\ orders = << >>
    /\ owed = [i \in Id |-> 0]
    /\ work = [h \in Handler |-> Idle]
    /\ cancel = [c \in Canceller |-> NoCancel]
    /\ failures = << >>

ScopeOf(r) == <<r.user, r.key>>
Failures == {failures[i] : i \in DOMAIN failures}

Goto(h, step) == work' = [work EXCEPT ![h].pc = step]

\* A failure of this kind happens, or a trade of an order that has changed since.
Fault(kind) == Len(failures) < MaxFaults /\ failures' = Append(failures, kind)

\* The key of a call was posted, for the same operation and amount, whoever's it was.
Repeats(c) ==
    \E u \in User : \E i \in DOMAIN ledger[u] :
        LET e == ledger[u][i] IN e.key = c.key /\ e.op = c.op /\ e.amount = c.amount

\* A call takes effect, or it is taken for the repetition of one that did.
Accepted(c) == Accounts!Post(c) \/ (Repeats(c) /\ UNCHANGED <<accounts, ledger>>)

\* A call is refused: its key is another call's, or the balance does not suffice.
Refused(c) ==
    /\ LET entry == Accounts!EntryFor(c, accounts[c.acct])
       IN  IF Accounts!IsPosted(c.key) THEN ~Repeats(c) ELSE entry.avail < 0 \/ entry.locked < 0
    /\ UNCHANGED <<accounts, ledger>>

\* A call fails; it may have taken effect all the same.
Unanswered(c) == Accounts!Post(c) \/ UNCHANGED <<accounts, ledger>>

-----------------------------------------------------------------------------
(***************************************************************************)
(* createOrder.                                                            *)
(***************************************************************************)

\* The record in force for a key, if there is one.
FindRecord(s) == IF records[s].expired THEN NoRecord ELSE records[s]

\* No record is found, or one of the same request that failed. Otherwise the call is
\* answered at once, with the order of the record or an error, and changes nothing.
Begin(h, r) ==
    LET found == FindRecord(ScopeOf(r))
    IN  /\ work[h].pc = "idle"
        /\ \/ found.status = "NONE"
           \/ found.status = "FAILED" /\ found.amount = r.amount
        /\ work' = [work EXCEPT ![h] = [pc |-> "found", req |-> r, order |-> 0]]
        /\ UNCHANGED <<accounts, ledger, records, orders, owed, cancel, failures>>

NewRecord(r) == [status |-> "IN_PROGRESS", amount |-> r.amount, order |-> 0, expired |-> FALSE]

\* Mutant: nothing keeps a second record from being created.
CreateRecordAgain(h) ==
    /\ work[h].pc = "found"
    /\ records' = [records EXCEPT ![ScopeOf(work[h].req)] = NewRecord(work[h].req)]
    /\ Goto(h, "recorded")
    /\ UNCHANGED <<accounts, ledger, orders, owed, cancel, failures>>

\* The unique index refuses a second record of a user and key, whatever became of
\* the first one.
CreateRecord(h) ==
    LET s == ScopeOf(work[h].req)
    IN  /\ work[h].pc = "found"
        /\ IF records[s].status = "NONE"
           THEN records' = [records EXCEPT ![s] = NewRecord(work[h].req)] /\ Goto(h, "recorded")
           ELSE UNCHANGED records /\ work' = [work EXCEPT ![h] = Idle]
        /\ UNCHANGED <<accounts, ledger, orders, owed, cancel, failures>>

LockCall(r) == Call("LOCK", r.user, r.amount, <<"lock", r.key>>)

\* The funds are locked outside of any transaction.
Lock(h) ==
    /\ work[h].pc = "recorded"
    /\ \/ Accepted(LockCall(work[h].req)) /\ Goto(h, "locked")
       \/ Refused(LockCall(work[h].req)) /\ Goto(h, "failing")
    /\ UNCHANGED <<records, orders, owed, cancel, failures>>

\* An error is taken for a refusal.
LockFails(h) ==
    /\ work[h].pc = "recorded"
    /\ Unanswered(LockCall(work[h].req))
    /\ Goto(h, "failing")
    /\ Fault("lock")
    /\ UNCHANGED <<records, orders, owed, cancel>>

\* The transaction inserts the order and matches q of it. Until it commits, nobody else
\* sees the row.
InsertOrder(h) ==
    LET r == work[h].req
        i == Len(orders) + 1
    IN  /\ work[h].pc = "locked"
        /\ i <= MaxOrders
        /\ \E q \in 0 .. r.amount :
              orders' = Append(orders, [user |-> r.user, key |-> r.key, amount |-> r.amount,
                                        filled |-> q, remaining |-> r.amount - q, status |-> "UNPLACED"])
        /\ work' = [work EXCEPT ![h].pc = "matched", ![h].order = i]
        /\ UNCHANGED <<accounts, ledger, records, owed, cancel, failures>>

\* The transaction commits.
Place(i) ==
    /\ orders' = [orders EXCEPT ![i] = Executed(@, @.filled, @.remaining)]
    /\ owed' = [owed EXCEPT ![i] = @ + orders[i].filled]

PlaceOrder(h) ==
    /\ work[h].pc = "matched"
    /\ Place(work[h].order)
    /\ Goto(h, "placed")
    /\ UNCHANGED <<accounts, ledger, records, cancel, failures>>

\* A statement or the COMMIT throws: the transaction is rolled back, but not what it did
\* to the book.
PlaceOrderFails(h) ==
    /\ work[h].pc \in {"locked", "matched"}
    /\ Goto(h, "compensating")
    /\ Fault("rollback")
    /\ UNCHANGED <<accounts, ledger, records, orders, owed, cancel>>

\* The transaction commits, and the connection is lost before the service hears of it.
CommitUnanswered(h) ==
    /\ work[h].pc = "matched"
    /\ Place(work[h].order)
    /\ Goto(h, "compensating")
    /\ Fault("commit")
    /\ UNCHANGED <<accounts, ledger, records, cancel>>

\* Mutant: the compensation has the key of the lock.
UnlockCallWithLockKey(r) == Call("UNLOCK", r.user, r.amount, <<"lock", r.key>>)

UnlockCall(r) == Call("UNLOCK", r.user, r.amount, <<"unlock", r.key>>)

\* The funds are unlocked; that they cannot be is only logged.
Compensate(h) ==
    /\ work[h].pc = "compensating"
    /\ Accepted(UnlockCall(work[h].req)) \/ Refused(UnlockCall(work[h].req))
    /\ Goto(h, "failing")
    /\ UNCHANGED <<records, orders, owed, cancel, failures>>

CompensateFails(h) ==
    /\ work[h].pc = "compensating"
    /\ Unanswered(UnlockCall(work[h].req))
    /\ Goto(h, "failing")
    /\ Fault("unlock")
    /\ UNCHANGED <<records, orders, owed, cancel>>

FailRecord(h) ==
    /\ work[h].pc = "failing"
    /\ records' = [records EXCEPT ![ScopeOf(work[h].req)].status = "FAILED"]
    /\ work' = [work EXCEPT ![h] = Idle]
    /\ UNCHANGED <<accounts, ledger, orders, owed, cancel, failures>>

\* Mutant: the record is completed without the order.
CompleteRecordOnly(h) ==
    /\ work[h].pc = "placed"
    /\ records' = [records EXCEPT ![ScopeOf(work[h].req)].status = "COMPLETED"]
    /\ work' = [work EXCEPT ![h] = Idle]
    /\ UNCHANGED <<accounts, ledger, orders, owed, cancel, failures>>

CompleteRecord(h) ==
    /\ work[h].pc = "placed"
    /\ records' = [records EXCEPT ![ScopeOf(work[h].req)].status = "COMPLETED",
                                  ![ScopeOf(work[h].req)].order = work[h].order]
    /\ work' = [work EXCEPT ![h] = Idle]
    /\ UNCHANGED <<accounts, ledger, orders, owed, cancel, failures>>

\* The service stops, or a statement outside of the transaction throws, while h works
\* on a request: it leaves everything as it is.
Abandon(h) ==
    /\ work[h].pc # "idle"
    /\ work' = [work EXCEPT ![h] = Idle]
    /\ Fault("crash")
    /\ UNCHANGED <<accounts, ledger, records, orders, owed, cancel>>

\* 24 hours after it was created. No request takes that long.
Expire(s) ==
    /\ records[s].status # "NONE"
    /\ ~records[s].expired
    /\ \A h \in Handler : work[h].pc \in {"idle", "found"} \/ ScopeOf(work[h].req) # s
    /\ records' = [records EXCEPT ![s].expired = TRUE]
    /\ UNCHANGED <<accounts, ledger, orders, owed, work, cancel, failures>>

-----------------------------------------------------------------------------
(***************************************************************************)
(* cancelOrder.                                                            *)
(***************************************************************************)

\* The order is found, neither cancelled nor filled; otherwise the call is refused.
BeginCancel(c, i) ==
    /\ cancel[c].pc = "idle"
    /\ i \in DOMAIN orders /\ Live(orders[i])
    /\ cancel' = [cancel EXCEPT ![c] = [pc |-> "found", order |-> i, amount |-> 0]]
    /\ UNCHANGED <<accounts, ledger, records, orders, owed, work, failures>>

\* Mutant: the UPDATE does not look at the status.
CancelRowAnyway(c) ==
    LET i == cancel[c].order
    IN  /\ cancel[c].pc = "found"
        /\ orders' = [orders EXCEPT ![i].status = "CANCELLED"]
        /\ cancel' = [cancel EXCEPT ![c].pc = "cancelled", ![c].amount = orders[i].remaining]
        /\ UNCHANGED <<accounts, ledger, records, owed, work, failures>>

\* The conditional UPDATE commits, or finds an order that is not live any more.
CancelRow(c) ==
    LET i == cancel[c].order
    IN  /\ cancel[c].pc = "found"
        /\ IF Live(orders[i])
           THEN /\ orders' = [orders EXCEPT ![i].status = "CANCELLED"]
                /\ cancel' = [cancel EXCEPT ![c].pc = "cancelled", ![c].amount = orders[i].remaining]
           ELSE UNCHANGED orders /\ cancel' = [cancel EXCEPT ![c].pc = "done"]
        /\ UNCHANGED <<accounts, ledger, records, owed, work, failures>>

CancelCall(c) ==
    Call("UNLOCK", orders[cancel[c].order].user, cancel[c].amount, <<"cancel", c>>)

\* What remained is unlocked, if anything did; that it cannot be is only logged.
UnlockCancelled(c) ==
    /\ cancel[c].pc = "cancelled"
    /\ IF cancel[c].amount > 0 THEN Accepted(CancelCall(c)) \/ Refused(CancelCall(c))
       ELSE UNCHANGED <<accounts, ledger>>
    /\ cancel' = [cancel EXCEPT ![c].pc = "done"]
    /\ UNCHANGED <<records, orders, owed, work, failures>>

\* The transaction is rolled back or its commit unanswered, the call of the accounts
\* service fails, or the service stops.
CancelFails(c) ==
    /\ cancel[c].pc \in {"found", "cancelled"}
    /\ \/ UNCHANGED <<accounts, ledger>>
       \/ cancel[c].pc = "cancelled" /\ cancel[c].amount > 0 /\ Accounts!Post(CancelCall(c))
    /\ cancel' = [cancel EXCEPT ![c].pc = "done"]
    /\ Fault("cancel")
    /\ UNCHANGED <<records, orders, owed, work>>

-----------------------------------------------------------------------------
(***************************************************************************)
(* What happens to orders meanwhile.                                       *)
(***************************************************************************)

\* What a taker may trade with a live order.
Quantities(o) == 1 .. o.remaining

\* Another order trades with i, which is in the book as it is in the table.
Trade(i) ==
    /\ i \in DOMAIN orders /\ Live(orders[i])
    /\ \E q \in Quantities(orders[i]) :
          /\ orders' = [orders EXCEPT ![i] = Executed(@, @.filled + q, @.remaining - q)]
          /\ owed' = [owed EXCEPT ![i] = @ + q]
    /\ UNCHANGED <<accounts, ledger, records, work, cancel, failures>>

\* Another order trades with i as it was in the book and in the table when they were read:
\* before a cancellation or the trades of another taker committed, or after what a
\* transaction that was rolled back did to the book, where it may have put i itself. The
\* UPDATE has no condition but the identifier, and the trade counts even if it finds no row.
TradeStale(i) ==
    /\ i \in DOMAIN orders
    /\ \E seen \in 0 .. orders[i].filled, left \in 1 .. orders[i].amount : \E q \in 1 .. left :
          /\ orders' = IF orders[i].status = "UNPLACED" THEN orders
                       ELSE [orders EXCEPT ![i] = Executed(@, seen + q, left - q)]
          /\ owed' = [owed EXCEPT ![i] = @ + q]
    /\ Fault("stale")
    /\ UNCHANGED <<accounts, ledger, records, work, cancel>>

\* What i has traded is taken from the locked funds, which is not conditional.
Settle(i) ==
    /\ owed[i] > 0
    /\ accounts' = [accounts EXCEPT ![orders[i].user].locked = @ - owed[i]]
    /\ owed' = [owed EXCEPT ![i] = 0]
    /\ UNCHANGED <<ledger, records, orders, work, cancel, failures>>

Next ==
    \/ \E h \in Handler :
          \/ \E r \in Request : Begin(h, r)
          \/ CreateRecord(h) \/ Lock(h) \/ LockFails(h)
          \/ InsertOrder(h) \/ PlaceOrder(h) \/ PlaceOrderFails(h) \/ CommitUnanswered(h)
          \/ Compensate(h) \/ CompensateFails(h) \/ FailRecord(h) \/ CompleteRecord(h)
          \/ Abandon(h)
    \/ \E s \in Scope : Expire(s)
    \/ \E c \in Canceller :
          \/ \E i \in Id : BeginCancel(c, i)
          \/ CancelRow(c) \/ UnlockCancelled(c) \/ CancelFails(c)
    \/ \E i \in Id : Trade(i) \/ TradeStale(i) \/ Settle(i)

Spec == Init /\ [][Next]_vars

-----------------------------------------------------------------------------
(***************************************************************************)
(* What is true of it.                                                     *)
(***************************************************************************)

AccountsType == accounts \in [User -> [exists : {TRUE}, avail : Nat, locked : Int]]
RecordsType ==
    records \in [Scope -> [status : {"NONE", "IN_PROGRESS", "COMPLETED", "FAILED"},
                           amount : Nat, order : 0 .. Len(orders), expired : BOOLEAN]]
Row == [user : User, key : {r.key : r \in Request}, amount : Nat, filled : Nat,
        remaining : Nat, status : {"UNPLACED", "OPEN", "PARTIALLY_FILLED", "FILLED", "CANCELLED"}]
OrdersType == orders \in Seq(Row) /\ Len(orders) <= MaxOrders /\ owed \in [Id -> Nat]
WorkType ==
    /\ work \in [Handler -> [pc : {"idle", "found", "recorded", "locked", "matched", "placed",
                                   "compensating", "failing"},
                             req : Request, order : 0 .. Len(orders)]]
    /\ \A h \in Handler : work[h].pc = "matched" => work[h].order # 0
CancelType ==
    /\ cancel \in [Canceller -> [pc : {"idle", "found", "cancelled", "done"},
                                 order : 0 .. Len(orders), amount : Nat]]
    /\ \A c \in Canceller : cancel[c].pc # "idle" => cancel[c].order # 0
FailuresType ==
    failures \in Seq({"lock", "rollback", "commit", "unlock", "crash", "cancel", "stale"})

\* The stores and the handlers have the values they can have: no available balance is
\* negative, no order has less than nothing to trade, and who refers to an order refers to one there is.
TypeOK == AccountsType /\ RecordsType /\ OrdersType /\ WorkType /\ CancelType /\ FailuresType

\* What order i may still trade and has traded of the funds of u.
Claimed(u, i) ==
    IF i \in DOMAIN orders /\ orders[i].user = u
    THEN owed[i] + (IF Live(orders[i]) THEN orders[i].remaining ELSE 0) ELSE 0
OnOrders(u) == SumFunction([i \in Id |-> Claimed(u, i)])

\* What is locked for requests of u that are worked on.
Holding(u, h) ==
    IF work[h].pc \in {"locked", "matched", "compensating"} /\ work[h].req.user = u THEN work[h].req.amount ELSE 0
Giving(u, c) ==
    IF cancel[c].pc = "cancelled" /\ orders[cancel[c].order].user = u THEN cancel[c].amount ELSE 0
InFlight(u) ==
    SumFunction([h \in Handler |-> Holding(u, h)]) + SumFunction([c \in Canceller |-> Giving(u, c)])

\* Nobody else locked funds under a key of u, whose lock would be taken for a repetition.
LocksOwn(u) ==
    \A r \in Request : r.user = u =>
        \A v \in User \ {u} : \A i \in DOMAIN ledger[v] : ledger[v][i].key # LockCall(r).key

\* Nor did anybody unlock funds under one.
UnlocksOwn(u) ==
    \A r \in Request : r.user = u =>
        \A v \in User \ {u} : \A i \in DOMAIN ledger[v] : ledger[v][i].key # <<"unlock", r.key>>

\* orders.service.ts:90-93: if nothing fails but the transactions of createOrder, and no
\* trade is stale, the funds that are locked of a user who shares no key are those of
\* orders, and of requests that are worked on.
FundsMatchOrders ==
    Failures \subseteq {"rollback"} =>
        \A u \in User : LocksOwn(u) /\ UnlocksOwn(u) => accounts[u].locked = OnOrders(u) + InFlight(u)

\* Whatever fails, what orders may trade and have traded is locked, as long as no
\* COMMIT goes unanswered, no trade is stale and nobody else locks under the user's keys.
OrdersAreBacked ==
    Failures \cap {"commit", "stale"} = {} =>
        \A u \in User : LocksOwn(u) => OnOrders(u) <= accounts[u].locked

\* README.md:16 says that the system is "protecting against double spending".
OrdersAreAlwaysBacked == \A u \in User : OnOrders(u) <= accounts[u].locked

\* A key makes one order, however often its request is repeated, also after failures
\* and after its record has expired.
Placed == {i \in DOMAIN orders : orders[i].status # "UNPLACED"}
OneOrderPerKey == \A i, j \in Placed : ScopeOf(orders[i]) = ScopeOf(orders[j]) => i = j

\* A completed record answers repetitions with the order of its request, and there is
\* no order of a failed one unless a COMMIT went unanswered.
OrdersOf(s) == {i \in Placed : ScopeOf(orders[i]) = s}
RecordTellsOrder ==
    \A s \in Scope :
        /\ records[s].status = "COMPLETED" => OrdersOf(s) = {records[s].order}
        /\ records[s].status = "FAILED" /\ "commit" \notin Failures => OrdersOf(s) = {}
=============================================================================
