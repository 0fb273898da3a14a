------------------------------ MODULE Deposits ------------------------------
(***************************************************************************)
(* Deposits of the transfers service. Each instance polls the chain: it    *)
(* takes the blocks that follow the last scanned one and have their        *)
(* confirmations, processes the native and then the token deposits of      *)
(* their logs, and records how far it came. A deposit that is not on       *)
(* record is recorded, and credited by the accounts service; a deposit     *)
(* whose record says CONFIRMED is credited again. An error ends the poll,  *)
(* but one of crediting is swallowed.                                      *)
(*                                                                         *)
(* The accounts service is its specification Ledger. The chain is          *)
(* external: it grows, replaces up to Confirmations of its last blocks,    *)
(* and its node may be reset, as one for development is when it restarts.  *)
(* A transaction may log several deposits, and the vault that logs them    *)
(* may do so with the events the scanner asks for or, as the one of the    *)
(* repository does, with another.                                          *)
(***************************************************************************)
EXTENDS Integers, Sequences, FiniteSets, SequencesExt

CONSTANTS
    Depositor,
    Transaction,    \* the transactions that call the vault
    Logs,           \* Logs[t]: the deposits t logs: [event, user, token, amount] records
    UnitsPerCoin,   \* UnitsPerCoin[token]: on-chain units in one unit of the platform,
                    \*   for the supported tokens
    Scanner,        \* instances of the service
    Confirmations, MaxBlockRange,
    MaxHeight, MaxFaults, MaxResets

ASSUME ChainAssumption ==
    /\ Confirmations \in Nat /\ MaxBlockRange \in Nat \ {0}
    /\ \A t \in Transaction :
          Logs[t] \in Seq([event : STRING, user : Depositor, token : STRING, amount : Nat])
    /\ \A c \in DOMAIN UnitsPerCoin : UnitsPerCoin[c] \in Nat \ {0}

VARIABLES
    balances, postings,  \* the accounts and the ledger of Ledger, per user and token
    deposits,    \* deposits[t]: the row of wallet_deposits with the hash of t, or NoRow
    outbox,      \* the transactions whose deposit was announced
    scannerState,  \* the last scanned block, -1 for none, and the life of the node the
                 \*   cursor tells of (history)
    chain,       \* the blocks after the first: at most one transaction each, or None
    lives,       \* how often the node was reset
    work,        \* work[s]: how far s has come
    faults, failures

depositsVars == <<balances, postings, deposits, outbox, scannerState, chain, lives, work,
                  faults, failures>>

None == "none"
NoRow == [status |-> None]

Accounts == INSTANCE Ledger WITH
    Account <- Depositor \X DOMAIN UnitsPerCoin, Request <- {},
    accounts <- balances, ledger <- postings

Idle == [pc |-> "idle", life |-> 0, head |-> 0, from |-> 0, to |-> 0, todo |-> {}, tokens |-> FALSE]

DepositsInit ==
    /\ Accounts!Init
    /\ deposits = [t \in Transaction |-> NoRow]
    /\ outbox = {}
    /\ scannerState = [block |-> -1, life |-> 0]
    /\ chain = << >> /\ lives = 0
    /\ work = [s \in Scanner |-> Idle]
    /\ faults = 0 /\ failures = {}

Fault(kind) ==
    /\ faults < MaxFaults
    /\ faults' = faults + 1
    /\ failures' = failures \cup {kind}

NoFault == UNCHANGED <<faults, failures>>

Goto(s, step) == work' = [work EXCEPT ![s].pc = step]

\* The poll ends; the next one is scheduled whatever came of it.
Abort(s) == work' = [work EXCEPT ![s] = Idle]

\* A statement or call of the poll fails, and the poll with it.
Failed(s, kind) == Abort(s) /\ Fault(kind)

\* A read of the chain in another life of the node than the ones before tells nothing.
StillIn(life) == IF life = lives THEN life ELSE -1

-----------------------------------------------------------------------------
(***************************************************************************)
(* A poll.                                                                 *)
(***************************************************************************)

\* The height of the chain is read.
Poll(s) ==
    /\ work[s].pc = "idle"
    /\ work' = [work EXCEPT ![s] = [Idle EXCEPT !.pc = "polled", !.life = lives, !.head = Len(chain)]]
    /\ NoFault
    /\ UNCHANGED <<balances, postings, deposits, outbox, scannerState, chain, lives>>

\* Mutant: the newest blocks are scanned.
Newest(head) == head

SafeTarget(head) == Max({0, head - Confirmations})

\* The blocks to scan after block last, if there are any.
ScanAfter(s, last, life) ==
    LET from == last + 1
        safe == SafeTarget(work[s].head)
    IN  IF from <= safe
        THEN work' = [work EXCEPT ![s] = [Idle EXCEPT !.pc = "scanning", !.from = from,
                          !.to = Min({from + MaxBlockRange - 1, safe}), !.life = life]]
        ELSE Abort(s)

\* The last scanned block is read. A chain that is shorter is a new one.
ReadCursor(s) ==
    /\ work[s].pc = "polled"
    /\ \/ /\ work[s].head < scannerState.block
          /\ Goto(s, "starting_over")
       \/ /\ work[s].head >= scannerState.block
          /\ ScanAfter(s, scannerState.block,
                   IF scannerState.block = -1 \/ scannerState.life = work[s].life
                   THEN work[s].life ELSE -1)
    /\ NoFault
    /\ UNCHANGED <<balances, postings, deposits, outbox, scannerState, chain, lives>>

\* The cursor is set to the first block, and the scan starts after it.
StartOver(s) ==
    /\ work[s].pc = "starting_over"
    /\ \/ /\ scannerState' = [block |-> 0, life |-> work[s].life]
          /\ ScanAfter(s, 0, work[s].life)
          /\ NoFault
       \/ Failed(s, "cursor") /\ UNCHANGED scannerState
    /\ UNCHANGED <<balances, postings, deposits, outbox, chain, lives>>

\* s has these logs left to process. After those of native deposits it reads those of
\* tokens, after these the scan ends.
WithTodo(s, todo) ==
    CASE todo # {} -> [work[s] EXCEPT !.pc = "processing", !.todo = todo]
      [] todo = {} /\ ~work[s].tokens -> [work[s] EXCEPT !.pc = "scanning", !.todo = todo, !.tokens = TRUE]
      [] OTHER -> [Idle EXCEPT !.pc = "ending", !.to = work[s].to, !.life = work[s].life]

\* The event the scanner asks for, of native deposits or of others, and the one that
\* deposit-vault.sol has for both.
ScannedEvent(tokens) == IF tokens THEN "TokenDeposited" ELSE "NativeDeposited"
VaultEvent == "Deposited"

\* The deposits of a transaction that it asks for.
AskedLogs(t) == {i \in DOMAIN Logs[t] : \E b \in BOOLEAN : Logs[t][i].event = ScannedEvent(b)}

\* The events of native deposits, or of others, in the transactions of a block.
LogsOf(n, tokens) ==
    {[block |-> n, tx |-> chain[n], index |-> i] :
        i \in {i \in AskedLogs(chain[n]) : Logs[chain[n]][i].event = ScannedEvent(tokens)}}

\* The logs of the range are read.
GetLogs(s) ==
    LET w == work[s]
        mined == {n \in DOMAIN chain : n \in w.from .. w.to /\ chain[n] # None}
        logs == UNION {LogsOf(n, w.tokens) : n \in mined}
    IN  /\ w.pc = "scanning"
        /\ \/ /\ work' = [work EXCEPT ![s] = [WithTodo(s, logs) EXCEPT !.life = StillIn(@)]]
              /\ NoFault
           \/ Failed(s, "logs")
        /\ UNCHANGED <<balances, postings, deposits, outbox, scannerState, chain, lives>>

\* Mutant: a cursor that was written once is not updated.
WriteFirstCursor(s) ==
    /\ work[s].pc = "ending"
    /\ scannerState' = IF scannerState.block # -1 THEN scannerState
                       ELSE [block |-> work[s].to, life |-> work[s].life]
    /\ Abort(s) /\ NoFault
    /\ UNCHANGED <<balances, postings, deposits, outbox, chain, lives>>

\* The range is scanned.
WriteCursor(s) ==
    LET written == [block |-> work[s].to, life |-> work[s].life]
    IN  /\ work[s].pc = "ending"
        /\ \/ scannerState' = written /\ NoFault
           \/ scannerState' \in {scannerState, written} /\ Fault("cursor")
        /\ Abort(s)
        /\ UNCHANGED <<balances, postings, deposits, outbox, chain, lives>>

-----------------------------------------------------------------------------
(***************************************************************************)
(* A deposit.                                                              *)
(***************************************************************************)

\* Logs come by block, and as the transaction emitted them.
Earlier(l, m) == l.block < m.block \/ (l.block = m.block /\ l.index < m.index)

First(logs) == CHOOSE l \in logs : \A m \in logs : ~Earlier(m, l)

\* The log s is at, and what it tells.
This(s) == First(work[s].todo)
ThisTx(s) == This(s).tx
ThisLog(s) == Logs[ThisTx(s)][This(s).index]

\* s is done with it.
Processed(s) == work' = [work EXCEPT ![s] = WithTodo(s, work[s].todo \ {This(s)})]

\* Mutant: a deposit that is on record is left alone.
LookOnce(s) ==
    /\ work[s].pc = "processing"
    /\ IF deposits[ThisTx(s)] = NoRow THEN Goto(s, "recording") ELSE Processed(s)
    /\ NoFault
    /\ UNCHANGED <<balances, postings, deposits, outbox, scannerState, chain, lives>>

\* A deposit is looked for by its transaction. One that was credited or rejected is left
\* alone, one that is still CONFIRMED is credited again.
Look(s) ==
    /\ work[s].pc = "processing"
    /\ \/ deposits[ThisTx(s)] = NoRow /\ Goto(s, "recording")
       \/ deposits[ThisTx(s)].status = "CONFIRMED" /\ Goto(s, "crediting")
       \/ deposits[ThisTx(s)].status \notin {None, "CONFIRMED"} /\ Processed(s)
    /\ NoFault
    /\ UNCHANGED <<balances, postings, deposits, outbox, scannerState, chain, lives>>

\* The amount in units of the platform, rounded down.
Scaled(l) == l.amount \div UnitsPerCoin[l.token]

\* The row of a log, of a supported token or not, of an amount that is too small or not.
RowOf(l) ==
    IF l.token \notin DOMAIN UnitsPerCoin
    THEN [status |-> "REJECTED_UNSUPPORTED_TOKEN", user |-> l.user, token |-> l.token, amount |-> 0]
    ELSE [status |-> IF Scaled(l) = 0 THEN "REJECTED_BELOW_MINIMUM" ELSE "CONFIRMED",
          user |-> l.user, token |-> l.token, amount |-> Scaled(l)]

\* The deposit is recorded, with its event if it is to be credited, in one transaction.
\* The hash is unique: an instance that recorded it in between makes this one fail.
Record(s) ==
    LET t == ThisTx(s)
        row == RowOf(ThisLog(s))
        Insert ==
            /\ deposits' = [deposits EXCEPT ![t] = row]
            /\ outbox' = IF row.status = "CONFIRMED" THEN outbox \cup {t} ELSE outbox
    IN  /\ work[s].pc = "recording"
        /\ \/ /\ deposits[t] = NoRow /\ Insert
              /\ IF row.status = "CONFIRMED" THEN Goto(s, "crediting") ELSE Processed(s)
              /\ NoFault
           \/ deposits[t] # NoRow /\ Abort(s) /\ NoFault /\ UNCHANGED <<deposits, outbox>>
           \/ /\ Failed(s, "record")
              /\ UNCHANGED <<deposits, outbox>> \/ (deposits[t] = NoRow /\ Insert)
        /\ UNCHANGED <<balances, postings, scannerState, chain, lives>>

CreditKey(t) == <<"deposit", t>>

CreditCall(t) ==
    [op |-> "ON_CHAIN_DEPOSIT", acct |-> <<deposits[t].user, deposits[t].token>>,
     amount |-> deposits[t].amount, key |-> CreditKey(t)]

\* The accounts service credits what the row says, once. That the call fails is logged.
Credit(s) ==
    LET t == ThisTx(s)
        Posted == Accounts!IsPosted(CreditKey(t))
    IN  /\ work[s].pc = "crediting"
        /\ \/ ~Posted /\ Accounts!Post(CreditCall(t)) /\ Goto(s, "marking") /\ NoFault
           \/ Posted /\ Goto(s, "marking") /\ NoFault /\ UNCHANGED <<balances, postings>>
           \/ /\ Processed(s) /\ Fault("credit")
              /\ Accounts!Post(CreditCall(t)) \/ UNCHANGED <<balances, postings>>
        /\ UNCHANGED <<deposits, outbox, scannerState, chain, lives>>

\* The row says so. That it cannot be updated is logged too.
MarkCredited(s) ==
    LET marked == [deposits EXCEPT ![ThisTx(s)].status = "CREDITED"]
    IN  /\ work[s].pc = "marking"
        /\ \/ deposits' = marked /\ NoFault
           \/ deposits' \in {deposits, marked} /\ Fault("mark")
        /\ Processed(s)
        /\ UNCHANGED <<balances, postings, outbox, scannerState, chain, lives>>

\* The instance stops and starts again.
Crash(s) ==
    /\ work[s].pc # "idle"
    /\ Abort(s) /\ Fault("crash")
    /\ UNCHANGED <<balances, postings, deposits, outbox, scannerState, chain, lives>>

-----------------------------------------------------------------------------
(***************************************************************************)
(* The chain.                                                              *)
(***************************************************************************)

Mine(b) ==
    /\ Len(chain) < MaxHeight
    /\ b # None => ~Contains(chain, b)
    /\ chain' = Append(chain, b)
    /\ UNCHANGED <<balances, postings, deposits, outbox, scannerState, lives, work, faults, failures>>

\* The last blocks are replaced, never one that had its confirmations. What they held may
\* be mined again.
Reorganise ==
    /\ \E n \in 1 .. Confirmations :
          n <= Len(chain)
          /\ chain' = SubSeq(chain, 1, Len(chain) - n) \o [i \in 1 .. n |-> None]
    /\ chain' # chain
    /\ UNCHANGED <<balances, postings, deposits, outbox, scannerState, lives, work, faults, failures>>

Reset ==
    /\ lives < MaxResets
    /\ lives' = lives + 1
    /\ chain' = << >>
    /\ UNCHANGED <<balances, postings, deposits, outbox, scannerState, work, faults, failures>>

ScannerStep(s) ==
    \/ Poll(s) \/ ReadCursor(s) \/ StartOver(s) \/ GetLogs(s) \/ WriteCursor(s)
    \/ Look(s) \/ Record(s) \/ Credit(s) \/ MarkCredited(s)

DepositsNext ==
    \/ \E s \in Scanner : ScannerStep(s) \/ Crash(s)
    \/ \E b \in Transaction \cup {None} : Mine(b)
    \/ Reorganise
    \/ Reset

\* An instance takes its next step, unless it is stopped and started for ever.
Fairness == \A s \in Scanner : WF_depositsVars(ScannerStep(s))

DepositsSpec == DepositsInit /\ [][DepositsNext]_depositsVars /\ Fairness

-----------------------------------------------------------------------------
(***************************************************************************)
(* What is true of it.                                                     *)
(***************************************************************************)

Final(t) == \E n \in 1 .. Len(chain) - Confirmations : chain[n] = t

\* The row of t is one of those that are credited.
Confirmed(t) == deposits[t].status \in {"CONFIRMED", "CREDITED"}

Credited(t) == Accounts!IsPosted(CreditKey(t))

\* README.md and deposit-scanner.service.ts:66: a user is credited what a transaction
\* deposited for him with a supported token, rounded down, and only when the chain cannot
\* drop it any more, unless the node was reset.
CreditsAreFinal ==
    \A u \in Depositor, c \in DOMAIN UnitsPerCoin : \A i \in DOMAIN postings[<<u, c>>] :
        LET e == postings[<<u, c>>][i]
        IN  \E t \in Transaction :
               /\ e.key = CreditKey(t)
               /\ lives = 0 => Final(t)
               /\ \E l \in ToSet(Logs[t]) :
                     /\ l.user = u /\ l.token = c
                     /\ e.amount * UnitsPerCoin[c] <= l.amount
                     /\ l.amount < (e.amount + 1) * UnitsPerCoin[c]

\* The deposit the scanner asks for of a transaction that logs one such deposit.
Only(t) == {i \in AskedLogs(t) : AskedLogs(t) = {i}}

\* The row of t is that of its deposit i.
OnRecord(t, i) ==
    LET row == RowOf(Logs[t][i])
    IN  \/ deposits[t] = row
        \/ row.status = "CONFIRMED" /\ deposits[t] = [row EXCEPT !.status = "CREDITED"]

\* A deposit the scanner asks for is on record once it is scanned, and if it is to be
\* credited it is: an instance that was stopped before it did will scan it again. Only a
\* failure of the credit call itself loses a credit, and only a node that was reset and had
\* grown again before anybody noticed, or was reset while somebody scanned, hides a deposit.
\* A transaction has one row: of several deposits that one logs all but one are lost.
NothingLost ==
    scannerState.life = lives =>
        \A n \in DOMAIN chain : n <= scannerState.block /\ chain[n] # None =>
            LET t == chain[n]
            IN  \A i \in Only(t) :
                    /\ OnRecord(t, i)
                    /\ Confirmed(t) /\ "credit" \notin failures => Credited(t)

\* deposit-scanner.service.ts:86: a poll that failed is followed by another, and in the end
\* a deposit it asks for that has its confirmations is on record.
EventuallyRecorded ==
    \A t \in Transaction : \A i \in Only(t) : Final(t) ~> (OnRecord(t, i) \/ lives > 0)

\* test/e2e/deposit.e2e-spec.ts:64: "should deposit native ETH into DepositVault and credit
\* account balance".
DepositsAreCredited ==
    \A t \in Transaction : (Final(t) /\ Logs[t] # << >>) ~> (Credited(t) \/ lives > 0)
=============================================================================
