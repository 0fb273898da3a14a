------------------------------- MODULE Ledger -------------------------------
(***************************************************************************)
(* What the accounts service promises of its balances, without saying how: *)
(* a posting is one atomic step that appends an audit row to the account's *)
(* ledger and moves its balances, an idempotency key is posted at most     *)
(* once, and no balance ever becomes negative.                             *)
(*                                                                         *)
(* Balances implements this specification with database transactions that  *)
(* lock rows, wait for one another and fail (apps/accounts/src/balances).  *)
(***************************************************************************)
EXTENDS Integers, Sequences

CONSTANTS
    Account,   \* the possible rows of the table accounts: a user and a currency each
    Request    \* the calls clients may make: [op, acct, amount, key] records

DepositOps == {"DEPOSIT", "ON_CHAIN_DEPOSIT"}

VARIABLES
    accounts,  \* accounts[a]: whether the row of a exists, and its two balances
    ledger     \* ledger[a]: the rows of ledger_transactions for a, oldest first

ledgerVars == <<accounts, ledger>>

NoAccount == [exists |-> FALSE, avail |-> 0, locked |-> 0]

\* An audit row with this key is in the ledger of some account.
IsPosted(k) == \E a \in Account : \E i \in DOMAIN ledger[a] : ledger[a][i].key = k

\* The audit row that request r leaves on an account with these balances.
EntryFor(r, row) ==
    LET dAvail  == IF r.op = "LOCK" THEN -r.amount
                   ELSE IF r.op = "WITHDRAWAL" THEN 0
                   ELSE r.amount
        dLocked == IF r.op = "LOCK" THEN r.amount
                   ELSE IF r.op \in {"UNLOCK", "WITHDRAWAL"} THEN -r.amount
                   ELSE 0
    IN  [op |-> r.op, key |-> r.key, amount |-> r.amount,
         dAvail |-> dAvail, dLocked |-> dLocked,
         avail |-> row.avail + dAvail, locked |-> row.locked + dLocked]

Init ==
    /\ accounts = [a \in Account |-> NoAccount]
    /\ ledger = [a \in Account |-> << >>]

\* An account is opened with zero balances the first time anybody asks for it.
Open(a) ==
    /\ ~accounts[a].exists
    /\ accounts' = [accounts EXCEPT ![a].exists = TRUE]
    /\ UNCHANGED ledger

\* A request takes effect. A deposit opens its account when there is none.
Post(r) ==
    LET entry == EntryFor(r, accounts[r.acct])
    IN  /\ ~IsPosted(r.key)
        /\ accounts[r.acct].exists \/ r.op \in DepositOps
        /\ entry.avail >= 0 /\ entry.locked >= 0
        /\ accounts' = [accounts EXCEPT ![r.acct] =
               [exists |-> TRUE, avail |-> entry.avail, locked |-> entry.locked]]
        /\ ledger' = [ledger EXCEPT ![r.acct] = Append(@, entry)]

Next == (\E a \in Account : Open(a)) \/ (\E r \in Request : Post(r))

Spec == Init /\ [][Next]_ledgerVars
=============================================================================
