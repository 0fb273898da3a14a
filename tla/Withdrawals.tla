----------------------------- MODULE Withdrawals -----------------------------
(***************************************************************************)
(* Withdrawals of the transfers service, a saga over its table, the        *)
(* accounts service and the chain. requestWithdrawal looks for a row of    *)
(* its key, locks the funds and inserts the row; when the insert throws it *)
(* unlocks them. The worker of an instance of the service picks the oldest *)
(* pending row, sends the transaction, records its hash, waits for the     *)
(* receipt, and debits the locked funds or unlocks them. An instance that  *)
(* starts first ends the rows in progress whose hash was recorded.         *)
(*                                                                         *)
(* The accounts service is its specification Ledger. The chain is external *)
(* and mines every transaction in the end. A call, statement or query may  *)
(* fail whether it took effect or not, and an instance may stop between    *)
(* any two steps. A key is the client's, for each user and amount he likes; *)
(* the keys of the calls to the accounts service name it and no user.      *)
(***************************************************************************)
EXTENDS Integers, Sequences, FiniteSets, Functions

CONSTANTS
    User,
    Request,   \* the calls of requestWithdrawal: [user, key, amount] records
    Handler,   \* handlers of requestWithdrawal
    Worker,    \* instances of the service
    Funds,     \* what each user starts with
    Dust,      \* the least amount the token can transfer, in units of the platform
    MaxFaults

ASSUME RequestAssumption ==
    /\ Request # {} /\ IsFiniteSet(Request)
    /\ \A r \in Request : r.user \in User /\ r.amount \in Nat \ {0}
    /\ \A r, s \in Request : r.user = s.user /\ r.key = s.key /\ r.amount = s.amount => r = s

ASSUME UnitsAssumption == Funds \in Nat /\ Dust \in Nat \ {0}

VARIABLES
    accounts, ledger,  \* the balances, as in Ledger
    rows,      \* the table withdrawal_requests, oldest first
    outbox,    \* the events that were inserted
    chain,     \* the transactions that were sent; a hash is an index
    handling,  \* handling[h]: how far h has come, with which request
    work,      \* work[w]: what w does, with which row and hash, and the rows its
               \*   recovery has left
    faults,    \* how many times anything failed
    failures   \* which kinds of failures there were (history)

vars == <<accounts, ledger, rows, outbox, chain, handling, work, faults, failures>>

Accounts == INSTANCE Ledger WITH Account <- User

Idle == [pc |-> "idle", req |-> CHOOSE r \in Request : TRUE]
Down == [pc |-> "down", row |-> 0, hash |-> 0, todo |-> {}]

Init ==
    /\ accounts = [u \in User |-> [exists |-> TRUE, avail |-> Funds, locked |-> 0]]
    /\ ledger = [u \in User |-> << >>]
    /\ rows = << >>
    /\ outbox = {}
    /\ chain = << >>
    /\ handling = [h \in Handler |-> Idle]
    /\ work = [w \in Worker |-> Down]
    /\ faults = 0
    /\ failures = {}

-----------------------------------------------------------------------------
(***************************************************************************)
(* Calls, and what may fail.                                               *)
(***************************************************************************)

Call(op, user, amount, key) == [op |-> op, acct |-> user, amount |-> amount, key |-> key]

\* A failure of this kind happens.
Fault(kind) ==
    /\ faults < MaxFaults
    /\ faults' = faults + 1
    /\ failures' = failures \cup {kind}

NoFault == UNCHANGED <<faults, failures>>

\* Its key was posted, for the same operation and amount. Nobody asks for which user.
Repeats(c) ==
    \E u \in User : \E i \in DOMAIN ledger[u] :
        LET e == ledger[u][i] IN e.key = c.key /\ e.op = c.op /\ e.amount = c.amount

\* A call takes effect, or it had before and is answered as if it did.
Accepted(c) == Accounts!Post(c) \/ (Repeats(c) /\ UNCHANGED <<accounts, ledger>>)

\* A call is refused, because the balance does not suffice or its key is of another one.
Refused(c) ==
    /\ LET entry == Accounts!EntryFor(c, accounts[c.acct])
       IN  IF Accounts!IsPosted(c.key) THEN ~Repeats(c) ELSE entry.avail < 0 \/ entry.locked < 0
    /\ UNCHANGED <<accounts, ledger>>

\* A call fails; it may have taken effect all the same.
Unanswered(c) == Accounts!Post(c) \/ UNCHANGED <<accounts, ledger>>

-----------------------------------------------------------------------------
(***************************************************************************)
(* requestWithdrawal.                                                      *)
(***************************************************************************)

Reach(h, step) == handling' = [handling EXCEPT ![h].pc = step]

Requested(r) == \E i \in DOMAIN rows : rows[i].user = r.user /\ rows[i].key = r.key

\* There is no row of the key; otherwise the call is answered with it at once.
LookUp(h, r) ==
    /\ handling[h].pc = "idle"
    /\ ~Requested(r)
    /\ handling' = [handling EXCEPT ![h] = [pc |-> "checked", req |-> r]]
    /\ NoFault
    /\ UNCHANGED <<accounts, ledger, rows, outbox, chain, work>>

LockCall(r) == Call("LOCK", r.user, r.amount, <<"withdraw-lock", r.key>>)

LockFunds(h) ==
    /\ handling[h].pc = "checked"
    /\ \/ Accepted(LockCall(handling[h].req)) /\ Reach(h, "locked") /\ NoFault
       \/ Refused(LockCall(handling[h].req)) /\ Reach(h, "idle") /\ NoFault
       \/ Unanswered(LockCall(handling[h].req)) /\ Reach(h, "idle") /\ Fault("lock")
    /\ UNCHANGED <<rows, outbox, chain, work>>

NewRow(r) == [user |-> r.user, key |-> r.key, amount |-> r.amount, status |-> "PENDING", hash |-> 0]

\* The row is inserted, unless the unique index finds one of the key or the statement
\* fails. The service may take the insert of the row for a failure.
InsertRow(h) ==
    LET r == handling[h].req
    IN  /\ handling[h].pc = "locked"
        /\ \/ ~Requested(r) /\ rows' = Append(rows, NewRow(r)) /\ Reach(h, "idle") /\ NoFault
           \/ /\ Requested(r) /\ Reach(h, "compensating")
              /\ failures' = failures \cup {"duplicate"}
              /\ UNCHANGED <<rows, faults>>
           \/ /\ Reach(h, "compensating") /\ Fault("insert")
              /\ UNCHANGED rows \/ (~Requested(r) /\ rows' = Append(rows, NewRow(r)))
        /\ UNCHANGED <<accounts, ledger, outbox, chain, work>>

CompensateCall(r) == Call("UNLOCK", r.user, r.amount, <<"withdraw-lock-compensate", r.key>>)

\* Whatever comes of the compensation, the call fails.
Compensate(h) ==
    /\ handling[h].pc = "compensating"
    /\ \/ Accepted(CompensateCall(handling[h].req)) /\ NoFault
       \/ Refused(CompensateCall(handling[h].req)) /\ NoFault
       \/ Unanswered(CompensateCall(handling[h].req)) /\ Fault("unlock")
    /\ Reach(h, "idle")
    /\ UNCHANGED <<rows, outbox, chain, work>>

\* The service stops while h works on a request.
Abandon(h) ==
    /\ handling[h].pc # "idle"
    /\ Reach(h, "idle")
    /\ Fault("crash")
    /\ UNCHANGED <<accounts, ledger, rows, outbox, chain, work>>

-----------------------------------------------------------------------------
(***************************************************************************)
(* The worker.                                                             *)
(***************************************************************************)

Goto(w, step) == work' = [work EXCEPT ![w].pc = step]

\* w is done with its row: the next one of its recovery, or it polls.
Finish(w) ==
    work' = [work EXCEPT ![w] = [pc |-> IF @.todo = {} THEN "polling" ELSE "recovering",
                                 row |-> 0, hash |-> 0, todo |-> @.todo]]

\* The rows in progress whose hash is known.
Stuck == {i \in DOMAIN rows : rows[i].status = "PROCESSING" /\ rows[i].hash # 0}

\* An instance starts.
Start(w) ==
    /\ work[w].pc = "down"
    /\ work' = [work EXCEPT ![w] = [pc |-> IF Stuck = {} THEN "polling" ELSE "recovering",
                                    row |-> 0, hash |-> 0, todo |-> Stuck]]
    /\ NoFault
    /\ UNCHANGED <<accounts, ledger, rows, outbox, chain, handling>>

\* Mutant: there is a receipt of every transaction.
MinedOrNot(t) == TRUE

Mined(t) == chain[t].status # "pending"

\* What follows from a receipt.
OnReceipt(t) == IF chain[t].status = "success" THEN "debiting" ELSE "unlocking"

\* The recovery asks for the receipt of a row's transaction. There is none yet, or the
\* query fails: it goes on to the next row.
Recover(w) ==
    /\ work[w].pc = "recovering"
    /\ \E i \in work[w].todo :
          LET left == work[w].todo \ {i}
              skip == work' = [work EXCEPT ![w] =
                  [pc |-> IF left = {} THEN "polling" ELSE "recovering",
                   row |-> 0, hash |-> 0, todo |-> left]]
          IN  \/ /\ Mined(rows[i].hash)
                 /\ work' = [work EXCEPT ![w] = [pc |-> OnReceipt(rows[i].hash),
                        row |-> i, hash |-> rows[i].hash, todo |-> left]]
                 /\ NoFault
              \/ ~Mined(rows[i].hash) /\ skip /\ NoFault
              \/ skip /\ Fault("recovery")
    /\ UNCHANGED <<accounts, ledger, rows, outbox, chain, handling>>

\* Mutant: rows in progress without a hash are picked up again.
NextPendingOrStuck(i) ==
    \/ rows[i].status = "PENDING"
    \/ rows[i].status = "PROCESSING" /\ rows[i].hash = 0

NextPending(i) == rows[i].status = "PENDING"

\* One transaction selects the oldest pending row, skipping locked ones, and updates it.
Pick(w) ==
    /\ work[w].pc = "polling"
    /\ \E i \in DOMAIN rows :
          /\ NextPending(i)
          /\ \A j \in DOMAIN rows : NextPending(j) => i <= j
          /\ rows' = [rows EXCEPT ![i].status = "PROCESSING"]
          /\ work' = [work EXCEPT ![w].pc = "sending", ![w].row = i]
    /\ NoFault
    /\ UNCHANGED <<accounts, ledger, outbox, chain, handling>>

\* The amount in units of the token, rounded down.
Payable(amount) == amount - (amount % Dust)

Sent(i) == Append(chain, [row |-> i, amount |-> Payable(rows[i].amount), status |-> "pending"])

\* The transaction is sent or refused, for example because it would revert or the hot
\* wallet has not enough. It may have been sent although the call fails.
Send(w) ==
    /\ work[w].pc = "sending"
    /\ \/ /\ chain' = Sent(work[w].row)
          /\ work' = [work EXCEPT ![w].pc = "recording", ![w].hash = Len(chain')]
          /\ NoFault
       \/ UNCHANGED chain /\ Goto(w, "unlocking") /\ NoFault
       \/ chain' = Sent(work[w].row) /\ Goto(w, "unlocking") /\ Fault("send")
    /\ UNCHANGED <<accounts, ledger, rows, outbox, handling>>

\* The hash is recorded. An error is taken for one of the transaction.
RecordHash(w) ==
    LET recorded == [rows EXCEPT ![work[w].row].hash = work[w].hash]
    IN  /\ work[w].pc = "recording"
        /\ \/ rows' = recorded /\ Goto(w, "waiting") /\ NoFault
           \/ rows' \in {rows, recorded} /\ Goto(w, "unlocking") /\ Fault("record")
        /\ UNCHANGED <<accounts, ledger, outbox, chain, handling>>

\* The receipt comes, or the wait times out or fails: an error, like those before.
AwaitReceipt(w) ==
    /\ work[w].pc = "waiting"
    /\ \/ Mined(work[w].hash) /\ Goto(w, OnReceipt(work[w].hash)) /\ NoFault
       \/ Goto(w, "unlocking") /\ Fault("receipt")
    /\ UNCHANGED <<accounts, ledger, rows, outbox, chain, handling>>

DebitCall(i) == Call("WITHDRAWAL", rows[i].user, rows[i].amount, <<"withdrawal-debit", i>>)

\* Mutant: the row is completed although the debit failed.
DebitOrNot(w) ==
    /\ work[w].pc = "debiting"
    /\ \/ Accepted(DebitCall(work[w].row)) /\ NoFault
       \/ Refused(DebitCall(work[w].row)) /\ NoFault
       \/ Unanswered(DebitCall(work[w].row)) /\ Fault("debit")
    /\ Goto(w, "completing")
    /\ UNCHANGED <<rows, outbox, chain, handling>>

\* completeWithdrawal debits the locked funds. When it cannot, the row stays as it is.
Debit(w) ==
    /\ work[w].pc = "debiting"
    /\ \/ Accepted(DebitCall(work[w].row)) /\ Goto(w, "completing") /\ NoFault
       \/ Refused(DebitCall(work[w].row)) /\ Finish(w) /\ NoFault
       \/ Unanswered(DebitCall(work[w].row)) /\ Finish(w) /\ Fault("debit")
    /\ UNCHANGED <<rows, outbox, chain, handling>>

\* What is announced of row i.
Event(status, i) == <<status, i>>

\* A row ends in one transaction with its event, whatever its status was.
End(i, status) ==
    /\ rows' = [rows EXCEPT ![i].status = status]
    /\ outbox' = outbox \cup {Event(status, i)}

\* The transaction that ends a row, its COMMIT perhaps unanswered, or rolled back.
EndRow(w, status) ==
    /\ \/ End(work[w].row, status) /\ NoFault
       \/ End(work[w].row, status) /\ Fault("end")
       \/ UNCHANGED <<rows, outbox>> /\ Fault("end")
    /\ Finish(w)
    /\ UNCHANGED <<accounts, ledger, chain, handling>>

Complete(w) == work[w].pc = "completing" /\ EndRow(w, "COMPLETED")

UnlockCall(i) == Call("UNLOCK", rows[i].user, rows[i].amount, <<"withdrawal-unlock", rows[i].key>>)

\* Mutant: a failed unlock ends it.
UnlockOrStop(w) ==
    /\ work[w].pc = "unlocking"
    /\ \/ Accepted(UnlockCall(work[w].row)) /\ Goto(w, "failing") /\ NoFault
       \/ Refused(UnlockCall(work[w].row)) /\ Finish(w) /\ NoFault
       \/ Unanswered(UnlockCall(work[w].row)) /\ Finish(w) /\ Fault("unlock")
    /\ UNCHANGED <<rows, outbox, chain, handling>>

\* failWithdrawal unlocks the funds; that it cannot is only logged.
Unlock(w) ==
    /\ work[w].pc = "unlocking"
    /\ \/ Accepted(UnlockCall(work[w].row)) /\ NoFault
       \/ Refused(UnlockCall(work[w].row)) /\ NoFault
       \/ Unanswered(UnlockCall(work[w].row)) /\ Fault("unlock")
    /\ Goto(w, "failing")
    /\ UNCHANGED <<rows, outbox, chain, handling>>

Fail(w) == work[w].pc = "failing" /\ EndRow(w, "FAILED")

Crash(w) ==
    /\ work[w].pc # "down"
    /\ work' = [work EXCEPT ![w] = Down]
    /\ Fault("crash")
    /\ UNCHANGED <<accounts, ledger, rows, outbox, chain, handling>>

-----------------------------------------------------------------------------

\* The chain mines a transaction, which transfers the amount or reverts.
Mine(t, status) ==
    /\ t \in DOMAIN chain
    /\ chain[t].status = "pending"
    /\ chain' = [chain EXCEPT ![t].status = status]
    /\ NoFault
    /\ UNCHANGED <<accounts, ledger, rows, outbox, handling, work>>

\* The next step of a worker's loop or recovery, if it has one.
Step(w) ==
    \/ Start(w) \/ Recover(w) \/ Pick(w) \/ Send(w) \/ RecordHash(w) \/ AwaitReceipt(w)
    \/ Debit(w) \/ Complete(w) \/ Unlock(w) \/ Fail(w)

MaxHash == Cardinality({<<r.user, r.key>> : r \in Request})
MineAny == \E t \in 1 .. MaxHash : Mine(t, "success") \/ Mine(t, "reverted")

Next ==
    \/ \E h \in Handler :
          \/ \E r \in Request : LookUp(h, r)
          \/ LockFunds(h) \/ InsertRow(h) \/ Compensate(h) \/ Abandon(h)
    \/ \E w \in Worker : Step(w) \/ Crash(w)
    \/ MineAny

Spec == Init /\ [][Next]_vars

-----------------------------------------------------------------------------
(***************************************************************************)
(* What is true of it.                                                     *)
(***************************************************************************)

\* What has been or may be transferred for row i.
Transfers(i) == {t \in DOMAIN chain : chain[t].row = i /\ chain[t].status # "reverted"}

AboutToSend(i) ==
    \/ rows[i].status = "PENDING"
    \/ \E w \in Worker : work[w].pc = "sending" /\ work[w].row = i

Debited(i) == Accounts!IsPosted(<<"withdrawal-debit", i>>)

\* What was or may be transferred to u and is not debited.
Due(u) ==
    LET due == {i \in DOMAIN rows :
                   rows[i].user = u /\ ~Debited(i) /\ (AboutToSend(i) \/ Transfers(i) # {})}
    IN  SumFunction([i \in due |-> rows[i].amount])

\* A repeated insert was refused, or an error was taken for one of the insert or of the
\* transaction: its compensation unlocked funds that may leave the chain account.
Mistaken == failures \cap {"duplicate", "insert", "send", "record", "receipt"} # {}

Withdrawal == [user : User, key : {r.key : r \in Request}, amount : Nat \ {0},
               status : {"PENDING", "PROCESSING", "COMPLETED", "FAILED"}, hash : Nat]
Transaction == [row : Nat, amount : Int, status : {"pending", "success", "reverted"}]
Handling == [pc : {"idle", "checked", "locked", "compensating"}, req : Request]
Work == [pc : {"down", "recovering", "polling", "sending", "recording", "waiting", "debiting",
               "completing", "unlocking", "failing"},
         row : Nat, hash : Nat, todo : SUBSET Nat]

\* The table, the chain, the handlers and the instances have the values they can have, and
\* refer to each other's entries.
TypeOK ==
    /\ rows \in Seq(Withdrawal) /\ chain \in Seq(Transaction)
    /\ handling \in [Handler -> Handling] /\ work \in [Worker -> Work]
    /\ \A i \in DOMAIN rows : rows[i].hash \in 0 .. Len(chain)
    /\ \A t \in DOMAIN chain : chain[t].row \in DOMAIN rows
    /\ \A w \in Worker :
          /\ work[w].row \in 0 .. Len(rows) /\ work[w].hash \in 0 .. Len(chain)
          /\ work[w].todo \subseteq DOMAIN rows

\* A user and key is paid once, however often the request is repeated, whatever fails,
\* and however many instances work on it and recover it.
PaidOnce ==
    \A s, t \in DOMAIN chain :
        LET a == rows[chain[s].row]
            b == rows[chain[t].row]
        IN  a.user = b.user /\ a.key = b.key => s = t

\* Nobody else's funds were locked under a key of u, whose own lock would then be answered
\* as the repetition of that one.
LocksOwn(u) ==
    \A r \in Request : r.user = u =>
        \A v \in User \ {u} : \A i \in DOMAIN ledger[v] : ledger[v][i].key # LockCall(r).key

\* transfers.service.ts:58-64 and withdrawal-processor.service.ts:208: what was or may
\* be transferred to a user who does not share a key is still locked until it is debited,
\* whatever else fails.
Backed ==
    ~Mistaken => \A u \in User : LocksOwn(u) => Due(u) <= accounts[u].locked

\* README.md:16 says that the system is "protecting against double spending".
AlwaysBacked == \A u \in User : Due(u) <= accounts[u].locked

\* The events tell what happened on the chain: a completed withdrawal was transferred
\* and debited at least as much, a failed one was not transferred, unless an error was
\* taken for one of the transaction.
EventsTellChain ==
    /\ \A i \in DOMAIN rows : Event("COMPLETED", i) \in outbox =>
          /\ Debited(i)
          /\ \E t \in Transfers(i) : chain[t].status = "success" /\ chain[t].amount <= rows[i].amount
    /\ failures \cap {"send", "record", "receipt"} = {} =>
          \A i \in DOMAIN rows : Event("FAILED", i) \in outbox => Transfers(i) = {}

\* A row in progress that nobody works on was left by an instance that stopped, or whose
\* transaction that ends it failed. Otherwise the next start finds it, by its hash: the
\* debit of what was transferred failed, or the funds were not locked.
NoneLeftBehind ==
    \A i \in DOMAIN rows : rows[i].status = "PROCESSING" /\ (\A w \in Worker : work[w].row # i) =>
        \/ failures \cap {"crash", "end"} # {}
        \/ rows[i].hash # 0 /\ ("debit" \in failures \/ Mistaken \/ ~LocksOwn(rows[i].user))
=============================================================================
