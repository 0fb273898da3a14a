------------------------------ MODULE Balances ------------------------------
(***************************************************************************)
(* The balance mutations of the accounts service (BalancesRepository):     *)
(* deposit, lock, unlock, creditDeposit and debitWithdrawal, each one      *)
(* database transaction that                                               *)
(*                                                                         *)
(*   1. looks for a ledger row with the idempotency key of the call,       *)
(*   2. reads the account row FOR UPDATE (a deposit inserts a missing one),*)
(*   3. updates the balances, where the balance to take from suffices,     *)
(*   4. inserts the ledger row, whose key has a unique index, and commits. *)
(*                                                                         *)
(* Transactions run side by side at READ COMMITTED. One waits while        *)
(* another holds the row it wants to lock, or has an uncommitted row with  *)
(* the unique key it wants to insert. PostgreSQL refuses every statement   *)
(* of a transaction after an error, so the look-up the code makes after a  *)
(* unique violation fails as well and the whole transaction rolls back.    *)
(* Any transaction may be rolled back at any time (a lost connection, a    *)
(* crash of the service), and the caller of one that did commit may miss   *)
(* its answer; callers repeat calls under the same key.                    *)
(***************************************************************************)
EXTENDS Integers, Sequences

CONSTANTS
    User, Currency,
    Key,       \* the idempotency keys clients send
    Request,   \* the calls clients may make
    Tx         \* the database connections that run transactions

\* The table accounts has at most one row for a user and a currency.
Account == User \X Currency

DepositOps == {"DEPOSIT", "ON_CHAIN_DEPOSIT"}
Ops == DepositOps \cup {"LOCK", "UNLOCK", "WITHDRAWAL"}

ASSUME RequestAssumption ==
    /\ Request \subseteq [op : Ops, acct : Account, amount : Nat \ {0}, key : Key]
    /\ Request # {}

VARIABLES
    accounts,  \* the committed rows of the table accounts
    ledger,    \* the committed rows of ledger_transactions, by account, oldest first
    pc,        \* pc[t]: how far the transaction of connection t has come
    req,       \* req[t]: the call t serves or served last
    row,       \* row[t]: the balances the UPDATE of t returned, not yet committed
    reply      \* reply[t]: what t answered to its last call

vars == <<accounts, ledger, pc, req, row, reply>>

NoAccount == [exists |-> FALSE, avail |-> 0, locked |-> 0]
Zero == [avail |-> 0, locked |-> 0]

NoReply == [status |-> "NONE", avail |-> 0, locked |-> 0]
Answer(status, b) == [status |-> status, avail |-> b.avail, locked |-> b.locked]

-----------------------------------------------------------------------------
(***************************************************************************)
(* What the statements of a transaction read and compute.                  *)
(***************************************************************************)

\* t has locked or inserted the row of account a, and still has it.
Holds(t, a) == pc[t] \in {"locked", "updated", "inserted"} /\ req[t].acct = a

\* t has inserted a ledger row with key k that is not committed yet.
Claims(t, k) == pc[t] = "inserted" /\ req[t].key = k

HasKey(a, i, k) == i \in DOMAIN ledger[a] /\ ledger[a][i].key = k
IsPosted(k) == \E a \in Account : \E i \in DOMAIN ledger[a] : HasKey(a, i, k)

\* Mutant: a replay is recognised by its key alone.
SamePayloadIgnored(a, e, r) == TRUE

\* The comparison of a call with the ledger row that has its key. The user is
\* not compared.
SamePayload(a, e, r) == e.amount = r.amount /\ a[2] = r.acct[2] /\ e.op = r.op

\* Mutant: the UPDATE of an unlock or a debit has no balance condition.
SufficesForLockOnly(r, b) == r.op = "LOCK" => b.avail >= r.amount

\* The WHERE clause of the UPDATE of call r on a row with balances b.
Suffices(r, b) ==
    /\ r.op = "LOCK" => b.avail >= r.amount
    /\ r.op \in {"UNLOCK", "WITHDRAWAL"} => b.locked >= r.amount

AvailDelta(r) ==
    IF r.op = "LOCK" THEN -r.amount
    ELSE IF r.op = "WITHDRAWAL" THEN 0
    ELSE r.amount

LockedDelta(r) ==
    IF r.op = "LOCK" THEN r.amount
    ELSE IF r.op \in {"UNLOCK", "WITHDRAWAL"} THEN -r.amount
    ELSE 0

Init ==
    /\ accounts = [a \in Account |-> NoAccount]
    /\ ledger = [a \in Account |-> << >>]
    /\ pc = [t \in Tx |-> "idle"]
    /\ req = [t \in Tx |-> CHOOSE r \in Request : TRUE]
    /\ row = [t \in Tx |-> Zero]
    /\ reply = [t \in Tx |-> NoReply]

-----------------------------------------------------------------------------
(***************************************************************************)
(* The steps of a transaction.                                             *)
(***************************************************************************)

\* t goes on to step p, without an answer yet.
Proceed(t, p) == pc' = [pc EXCEPT ![t] = p] /\ UNCHANGED reply

\* t ends its transaction, releasing its locks, and answers.
Finish(t, answer) ==
    /\ pc' = [pc EXCEPT ![t] = "idle"]
    /\ reply' = [reply EXCEPT ![t] = answer]
    /\ row' = [row EXCEPT ![t] = Zero]

\* A call arrives whose key is on no committed ledger row.
BeginFresh(t, r) ==
    /\ pc[t] = "idle"
    /\ ~IsPosted(r.key)
    /\ pc' = [pc EXCEPT ![t] = "checked"]
    /\ req' = [req EXCEPT ![t] = r]
    /\ reply' = [reply EXCEPT ![t] = NoReply]
    /\ UNCHANGED <<accounts, ledger, row>>

\* A call arrives whose key is on the ledger: it changes nothing, and is
\* answered with the balances the account of that ledger row has by now.
BeginReplay(t, r) ==
    /\ pc[t] = "idle"
    /\ \E a \in Account : \E i \in DOMAIN ledger[a] :
          /\ HasKey(a, i, r.key)
          /\ Finish(t, IF SamePayload(a, ledger[a][i], r)
                          THEN Answer("IDEMPOTENT_REPLAY", accounts[a])
                          ELSE Answer("IDEMPOTENCY_PAYLOAD_MISMATCH", Zero))
    /\ req' = [req EXCEPT ![t] = r]
    /\ UNCHANGED <<accounts, ledger>>

\* Mutant: the account is read without FOR UPDATE.
SelectAccountWithoutLock(t) ==
    /\ pc[t] = "checked"
    /\ accounts[req[t].acct].exists
    /\ Proceed(t, "locked")
    /\ UNCHANGED <<accounts, ledger, req, row>>

\* SELECT ... FOR UPDATE finds the account and waits for its row.
LockAccount(t) ==
    /\ pc[t] = "checked"
    /\ accounts[req[t].acct].exists
    /\ \A u \in Tx \ {t} : ~Holds(u, req[t].acct)
    /\ Proceed(t, "locked")
    /\ UNCHANGED <<accounts, ledger, req, row>>

\* It finds none. A deposit goes on to insert one, the others give up. An
\* uncommitted row of another transaction is not seen, and not waited for.
MissAccount(t) ==
    /\ pc[t] = "checked"
    /\ ~accounts[req[t].acct].exists
    /\ \/ /\ req[t].op \in DepositOps
          /\ Proceed(t, "creating")
          /\ UNCHANGED row
       \/ /\ req[t].op \notin DepositOps
          /\ Finish(t, Answer("NOT_FOUND", Zero))
    /\ UNCHANGED <<accounts, ledger, req>>

\* A deposit inserts the missing account. The unique index makes it wait for
\* another transaction that inserts the same one. If that commits, the INSERT
\* fails, and so does the look-up that was to make up for it.
CreateAccount(t) ==
    /\ pc[t] = "creating"
    /\ \A u \in Tx \ {t} : ~Holds(u, req[t].acct)
    /\ \/ /\ ~accounts[req[t].acct].exists
          /\ Proceed(t, "locked")
          /\ UNCHANGED row
       \/ /\ accounts[req[t].acct].exists
          /\ Finish(t, Answer("ERROR", Zero))
    /\ UNCHANGED <<accounts, ledger, req>>

\* Mutant: the balances are written in a transaction of their own.
UpdateAndCommitBalances(t) ==
    LET r == req[t]
        b == accounts[r.acct]
        after == [avail |-> b.avail + AvailDelta(r), locked |-> b.locked + LockedDelta(r)]
    IN  /\ pc[t] = "locked"
        /\ Suffices(r, b)
        /\ row' = [row EXCEPT ![t] = after]
        /\ accounts' = [accounts EXCEPT ![r.acct].avail = after.avail,
                                         ![r.acct].locked = after.locked]
        /\ Proceed(t, "updated")
        /\ UNCHANGED <<ledger, req>>

\* The conditional UPDATE ... RETURNING of the locked row.
UpdateBalances(t) ==
    LET r == req[t]
        b == accounts[r.acct]
    IN  /\ pc[t] = "locked"
        /\ Suffices(r, b)
        /\ row' = [row EXCEPT ![t] = [avail  |-> b.avail + AvailDelta(r),
                                      locked |-> b.locked + LockedDelta(r)]]
        /\ Proceed(t, "updated")
        /\ UNCHANGED <<accounts, ledger, req>>

\* The UPDATE matches no row: the call is refused.
RefuseInsufficient(t) ==
    LET r == req[t]
    IN  /\ pc[t] = "locked"
        /\ ~Suffices(r, accounts[r.acct])
        /\ Finish(t, Answer(IF r.op = "LOCK" THEN "INSUFFICIENT_AVAILABLE"
                                             ELSE "INSUFFICIENT_LOCKED", Zero))
        /\ UNCHANGED <<accounts, ledger, req>>

\* Mutant: idempotency_key has an index, but not a unique one.
InsertWithoutUniqueKey(t) ==
    /\ pc[t] = "updated"
    /\ Proceed(t, "inserted")
    /\ UNCHANGED <<accounts, ledger, req, row>>

\* The INSERT of the ledger row waits for a transaction that has inserted the
\* same key.
InsertLedger(t) ==
    /\ pc[t] = "updated"
    /\ \A u \in Tx \ {t} : ~Claims(u, req[t].key)
    /\ ~IsPosted(req[t].key)
    /\ Proceed(t, "inserted")
    /\ UNCHANGED <<accounts, ledger, req, row>>

\* It meets a committed row with the same key. The replay the code looks for
\* then is out of reach of the failed transaction, which rolls back.
InsertDuplicate(t) ==
    /\ pc[t] = "updated"
    /\ \A u \in Tx \ {t} : ~Claims(u, req[t].key)
    /\ IsPosted(req[t].key)
    /\ Finish(t, Answer("ERROR", Zero))
    /\ UNCHANGED <<accounts, ledger, req>>

\* The ledger row t inserted.
NewEntry(t) ==
    [op |-> req[t].op, key |-> req[t].key, amount |-> req[t].amount,
     dAvail |-> AvailDelta(req[t]), dLocked |-> LockedDelta(req[t]),
     avail |-> row[t].avail, locked |-> row[t].locked]

\* COMMIT makes the account and the ledger row visible together. The answer
\* reaches the caller, or is lost on its way.
Commit(t) ==
    /\ pc[t] = "inserted"
    /\ accounts' = [accounts EXCEPT ![req[t].acct] =
           [exists |-> TRUE, avail |-> row[t].avail, locked |-> row[t].locked]]
    /\ ledger' = [ledger EXCEPT ![req[t].acct] = Append(@, NewEntry(t))]
    /\ Finish(t, Answer("OK", row[t])) \/ Finish(t, Answer("ERROR", Zero))
    /\ UNCHANGED req

\* The connection or the service fails before the commit.
Rollback(t) ==
    /\ pc[t] # "idle"
    /\ Finish(t, Answer("ERROR", Zero))
    /\ UNCHANGED <<accounts, ledger, req>>

\* getBalance opens an account nobody has, outside any transaction. When two
\* callers race, or a deposit inserts the account, the look-up after the failed
\* INSERT finds it.
FindOrCreate(a) ==
    /\ ~accounts[a].exists
    /\ \A t \in Tx : ~Holds(t, a)
    /\ accounts' = [accounts EXCEPT ![a].exists = TRUE]
    /\ UNCHANGED <<ledger, pc, req, row, reply>>

Next ==
    \/ \E t \in Tx, r \in Request : BeginFresh(t, r) \/ BeginReplay(t, r)
    \/ \E t \in Tx :
          \/ LockAccount(t) \/ MissAccount(t) \/ CreateAccount(t)
          \/ UpdateBalances(t) \/ RefuseInsufficient(t)
          \/ InsertLedger(t) \/ InsertDuplicate(t)
          \/ Commit(t) \/ Rollback(t)
    \/ \E a \in Account : FindOrCreate(a)

Spec == Init /\ [][Next]_vars

-----------------------------------------------------------------------------
(***************************************************************************)
(* What is true of it.                                                     *)
(***************************************************************************)

Row == [exists : BOOLEAN, avail : Int, locked : Int]
Balance == [avail : Nat, locked : Nat]
Entry == [op : Ops, key : Key, amount : Nat \ {0},
          dAvail : Int, dLocked : Int, avail : Int, locked : Int]
Status == {"NONE", "OK", "ERROR", "IDEMPOTENT_REPLAY", "NOT_FOUND", "INSUFFICIENT_AVAILABLE",
           "INSUFFICIENT_LOCKED", "IDEMPOTENCY_PAYLOAD_MISMATCH"}
Step == {"idle", "checked", "creating", "locked", "updated", "inserted"}

\* The variables have the values the tables and the calls can have. No UPDATE
\* returns a negative balance.
TypeOK ==
    /\ accounts \in [Account -> Row]
    /\ ledger \in [Account -> Seq(Entry)]
    /\ pc \in [Tx -> Step]
    /\ req \in [Tx -> Request]
    /\ row \in [Tx -> Balance]
    /\ reply \in [Tx -> [status : Status, avail : Int, locked : Int]]

\* No committed balance is negative: the conditional UPDATE is enough, however
\* transactions interleave and fail (README: "negative balances").
NonNegative == \A a \in Account : accounts[a].avail >= 0 /\ accounts[a].locked >= 0

\* The balances entry i of the ledger of a starts from.
Before(a, i) == IF i = 1 THEN Zero ELSE ledger[a][i - 1]

\* The ledger explains the balances: every row continues from the balances the
\* row before it left (balanceAfterAvailable, balanceAfterLocked), and the last
\* row leaves the balances of the account. No update is lost, and none happens
\* without its row.
AuditTrail ==
    \A a \in Account :
        /\ \A i \in DOMAIN ledger[a] :
              /\ ledger[a][i].avail = Before(a, i).avail + ledger[a][i].dAvail
              /\ ledger[a][i].locked = Before(a, i).locked + ledger[a][i].dLocked
        /\ accounts[a].avail = Before(a, Len(ledger[a]) + 1).avail
        /\ accounts[a].locked = Before(a, Len(ledger[a]) + 1).locked

\* However often and however concurrently a call is repeated, the ledgers of all
\* accounts together have one row with its key.
PostedOnce ==
    \A a, b \in Account : \A i \in DOMAIN ledger[a], j \in DOMAIN ledger[b] :
        ledger[a][i].key = ledger[b][j].key => a = b /\ i = j

\* A caller told OK finds its call on the ledger of its own account, with the
\* balances of the answer. A caller told IDEMPOTENT_REPLAY finds a row of the
\* same key, type, amount and currency, if not always of its own account.
SuccessIsOnLedger ==
    \A t \in Tx :
        LET r == req[t]
            OnLedger(a, P(_)) == \E i \in DOMAIN ledger[a] :
                /\ ledger[a][i].key = r.key
                /\ ledger[a][i].op = r.op
                /\ ledger[a][i].amount = r.amount
                /\ P(ledger[a][i])
        IN  /\ reply[t].status = "OK" =>
                  OnLedger(r.acct, LAMBDA e : /\ e.avail = reply[t].avail
                                             /\ e.locked = reply[t].locked)
            /\ reply[t].status = "IDEMPOTENT_REPLAY" =>
                  \E a \in Account : a[2] = r.acct[2] /\ OnLedger(a, LAMBDA e : TRUE)

\* The transactions implement the atomic postings of Ledger.
LedgerSpec == INSTANCE Ledger
ImplementsLedger == LedgerSpec!Spec

\* libs/contracts/proto/accounts.proto:38 says of a repeated deposit "duplicate
\* key returns the original result". The code answers with the balances the
\* account has at the time of the repetition.
DuplicateKeyReturnsOriginalResult ==
    \A t \in Tx : reply[t].status = "IDEMPOTENT_REPLAY" =>
        \E a \in Account : \E i \in DOMAIN ledger[a] :
            /\ HasKey(a, i, req[t].key)
            /\ ledger[a][i].avail = reply[t].avail
            /\ ledger[a][i].locked = reply[t].locked
=============================================================================
