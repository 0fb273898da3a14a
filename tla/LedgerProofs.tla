---------------------------- MODULE LedgerProofs ----------------------------
(***************************************************************************)
(* Proofs about Balances, which implements Ledger, for every set of users, *)
(* currencies, keys, calls and connections; and about Deposits, which      *)
(* posts to it, for every chain, vault, number of confirmations and set of *)
(* instances.                                                              *)
(*                                                                         *)
(* The inductive invariant of Balances adds to the properties what the     *)
(* locks are for: a row has one holder, the balances a holder is about to  *)
(* commit are its call applied to the balances committed now, and a key    *)
(* about to be committed is on no ledger and claimed by nobody else.       *)
(*                                                                         *)
(* That of Deposits follows a deposit from the chain to the ledger: the    *)
(* logs a poll has to process are final, a row tells of one of them, and   *)
(* an entry of the ledger repeats a row. The second one looks back: what a *)
(* poll has of its range neither read nor to process is on record.         *)
(***************************************************************************)
EXTENDS Balances, Deposits, SumTheorems

\* A row is held by one transaction at a time.
RowLock ==
    \A t, u \in Tx : \A a \in Account : Holds(t, a) /\ Holds(u, a) => t = u

\* A transaction past its SELECT has an account, or is a deposit that inserts it.
HeldAccount ==
    \A t \in Tx :
        /\ pc[t] = "creating" => req[t].op \in DepositOps
        /\ pc[t] \in {"locked", "updated", "inserted"} =>
              accounts[req[t].acct].exists \/ req[t].op \in DepositOps

\* The balances a transaction is about to commit are still its call applied to
\* the committed ones.
Pending ==
    \A t \in Tx : pc[t] \in {"updated", "inserted"} =>
        /\ row[t].avail = accounts[req[t].acct].avail + AvailDelta(req[t])
        /\ row[t].locked = accounts[req[t].acct].locked + LockedDelta(req[t])

\* A key about to be committed is new.
ClaimedKey ==
    \A t \in Tx : pc[t] = "inserted" =>
        /\ ~IsPosted(req[t].key)
        /\ \A u \in Tx : Claims(u, req[t].key) => u = t

LockInv == TypeOK /\ NonNegative /\ RowLock /\ HeldAccount /\ Pending /\ ClaimedKey

-----------------------------------------------------------------------------

\* A call has an operation, an account, a key and an amount, and its deltas are
\* integers.
LEMMA CallType ==
    ASSUME NEW r \in Request
    PROVE  /\ AvailDelta(r) \in Int
           /\ LockedDelta(r) \in Int
           /\ r.op \in Ops /\ r.acct \in Account /\ r.key \in Key
           /\ r.amount \in Nat \ {0}
  BY RequestAssumption DEF AvailDelta, LockedDelta, Ops, DepositOps

\* The balances after an UPDATE are not negative: what its WHERE clause is for.
LEMMA UpdateNonNegative ==
    ASSUME NEW r \in Request, NEW avail \in Nat, NEW locked \in Nat,
           Suffices(r, [avail |-> avail, locked |-> locked])
    PROVE  /\ avail + AvailDelta(r) \in Nat
           /\ locked + LockedDelta(r) \in Nat
  BY CallType DEF Suffices, AvailDelta, LockedDelta, Ops, DepositOps

LEMMA AnswerType ==
    ASSUME NEW status \in Status, NEW b \in Balance
    PROVE  Answer(status, b) \in [status : Status, avail : Int, locked : Int]
  BY DEF Answer, Balance

LEMMA FinishType ==
    ASSUME TypeOK, NEW t \in Tx,
           NEW answer \in [status : Status, avail : Int, locked : Int],
           Finish(t, answer)
    PROVE  /\ pc' \in [Tx -> Step] /\ pc'[t] = "idle"
           /\ row' \in [Tx -> Balance]
           /\ reply' \in [Tx -> [status : Status, avail : Int, locked : Int]]
           /\ \A u \in Tx \ {t} : pc'[u] = pc[u] /\ row'[u] = row[u]
  BY DEF TypeOK, Finish, Step, Zero, Balance

\* A transaction that ends without a commit disturbs nothing.
LEMMA FinishKeepsLockInv ==
    ASSUME LockInv, NEW t \in Tx,
           NEW answer \in [status : Status, avail : Int, locked : Int],
           Finish(t, answer),
           accounts' = accounts, ledger' = ledger,
           req' \in [Tx -> Request], \A u \in Tx \ {t} : req'[u] = req[u]
    PROVE  LockInv'
<1> USE DEF LockInv, Finish
<1>0. pc' \in [Tx -> Step] /\ pc'[t] = "idle" /\ \A u \in Tx \ {t} : pc'[u] = pc[u]
  BY DEF TypeOK, Step
<1>1. TypeOK'
  BY DEF TypeOK, Step, Zero, Balance
<1>2. NonNegative'
  BY DEF NonNegative
<1>3. RowLock'
  BY <1>0 DEF RowLock, Holds
<1>4. HeldAccount'
  BY <1>0 DEF HeldAccount
<1>5. Pending'
  BY <1>0 DEF Pending, TypeOK
<1>6. ClaimedKey'
  BY <1>0 DEF ClaimedKey, Claims, IsPosted, HasKey
<1>7. QED
  BY <1>1, <1>2, <1>3, <1>4, <1>5, <1>6

\* A transaction that goes on without touching the tables keeps the invariant
\* when what its new step requires holds.
LEMMA ProceedKeepsLockInv ==
    ASSUME LockInv, NEW t \in Tx, NEW p \in Step,
           pc' = [pc EXCEPT ![t] = p],
           accounts' = accounts, ledger' = ledger,
           req' \in [Tx -> Request], \A u \in Tx \ {t} : req'[u] = req[u],
           row' \in [Tx -> Balance], \A u \in Tx \ {t} : row'[u] = row[u],
           reply' \in [Tx -> [status : Status, avail : Int, locked : Int]],
           p = "creating" => req'[t].op \in DepositOps,
           p \in {"locked", "updated", "inserted"} =>
               /\ accounts[req'[t].acct].exists \/ req'[t].op \in DepositOps
               /\ \A u \in Tx \ {t} : ~Holds(u, req'[t].acct),
           p \in {"updated", "inserted"} =>
               /\ row'[t].avail = accounts[req'[t].acct].avail + AvailDelta(req'[t])
               /\ row'[t].locked = accounts[req'[t].acct].locked + LockedDelta(req'[t]),
           p = "inserted" =>
               /\ ~IsPosted(req'[t].key)
               /\ \A u \in Tx \ {t} : ~Claims(u, req'[t].key)
    PROVE  LockInv'
<1> USE DEF LockInv
<1>0. /\ pc' \in [Tx -> Step] /\ pc'[t] = p
      /\ \A u \in Tx \ {t} : pc'[u] = pc[u] /\ req'[u] = req[u] /\ row'[u] = row[u]
  BY DEF TypeOK
<1>1. TypeOK'
  BY <1>0 DEF TypeOK
<1>2. NonNegative'
  BY DEF NonNegative
<1>3. RowLock'
  BY <1>0 DEF RowLock, Holds
<1>4. HeldAccount'
  BY <1>0 DEF HeldAccount
<1>5. Pending'
  BY <1>0 DEF Pending
<1>6. ClaimedKey'
  <2> SUFFICES ASSUME NEW u \in Tx, pc'[u] = "inserted"
               PROVE  /\ ~IsPosted(req[u].key)' 
                      /\ \A v \in Tx : Claims(v, req[u].key)' => v = u
    BY DEF ClaimedKey
  <2>1. ~IsPosted(req'[u].key)
    BY <1>0 DEF ClaimedKey
  <2>2. ~IsPosted(req[u].key)'
    BY <2>1 DEF IsPosted, HasKey
  <2>3. \A v \in Tx : Claims(v, req[u].key)' => v = u
    BY <1>0 DEF ClaimedKey, Claims
  <2> QED
    BY <2>2, <2>3
<1>7. QED
  BY <1>1, <1>2, <1>3, <1>4, <1>5, <1>6
-----------------------------------------------------------------------------

LEMMA InitLockInv == Init => LockInv
<1> SUFFICES ASSUME Init PROVE LockInv
  OBVIOUS
<1>1. (CHOOSE r \in Request : TRUE) \in Request
  BY RequestAssumption
<1>2. TypeOK
  BY <1>1 DEF Init, TypeOK, Row, NoAccount, Step, Balance, Zero, NoReply, Status
<1>3. NonNegative /\ RowLock /\ HeldAccount /\ Pending /\ ClaimedKey
  BY DEF Init, NonNegative, NoAccount, RowLock, Holds, HeldAccount, Pending, ClaimedKey
<1> QED
  BY <1>2, <1>3 DEF LockInv

\* Commit replaces the balances of the row t holds by those t computed from them.
LEMMA CommitKeepsLockInv ==
    ASSUME LockInv, NEW t \in Tx, Commit(t)
    PROVE  LockInv'
<1> DEFINE r == req[t]
<1> USE DEF LockInv
<1>0. /\ r \in Request /\ r.acct \in Account /\ row[t] \in Balance
      /\ pc[t] = "inserted" /\ req' = req
      /\ AvailDelta(r) \in Int /\ LockedDelta(r) \in Int
  BY CallType DEF TypeOK, Commit
<1>1. /\ pc' \in [Tx -> Step] /\ pc'[t] = "idle" /\ \A u \in Tx \ {t} : pc'[u] = pc[u]
      /\ row' \in [Tx -> Balance] /\ \A u \in Tx \ {t} : row'[u] = row[u]
      /\ reply' \in [Tx -> [status : Status, avail : Int, locked : Int]]
  <2>1. Zero \in Balance /\ {"OK", "ERROR"} \subseteq Status
    BY DEF Zero, Balance, Status
  <2>2. \E answer \in [status : Status, avail : Int, locked : Int] : Finish(t, answer)
    BY <1>0, <2>1, AnswerType DEF Commit
  <2> QED
    BY <2>2, FinishType
<1>2. \A a \in Account \ {r.acct} : accounts'[a] = accounts[a] /\ ledger'[a] = ledger[a]
  BY DEF Commit, TypeOK
<1>3. /\ accounts'[r.acct] = [exists |-> TRUE, avail |-> row[t].avail, locked |-> row[t].locked]
      /\ ledger'[r.acct] = Append(ledger[r.acct], NewEntry(t))
  BY <1>0 DEF Commit, TypeOK
<1>4. NewEntry(t) \in Entry
  BY <1>0, CallType DEF NewEntry, Entry, Balance
<1>5. TypeOK'
  <2>1. accounts' \in [Account -> Row]
    BY <1>0 DEF Commit, TypeOK, Row, Balance
  <2>2. ledger' \in [Account -> Seq(Entry)]
    BY <1>0, <1>4 DEF Commit, TypeOK
  <2> QED
    BY <1>0, <1>1, <2>1, <2>2 DEF TypeOK
<1>6. NonNegative'
  BY <1>0, <1>2, <1>3 DEF NonNegative, Balance
<1>7. \A u \in Tx \ {t} : ~Holds(u, r.acct)
  BY <1>0 DEF RowLock, Holds
<1>8. RowLock'
  BY <1>0, <1>1 DEF RowLock, Holds
<1>9. HeldAccount'
  <2> SUFFICES ASSUME NEW u \in Tx
               PROVE  /\ pc'[u] = "creating" => req[u].op \in DepositOps
                      /\ pc'[u] \in {"locked", "updated", "inserted"} =>
                            accounts'[req[u].acct].exists \/ req[u].op \in DepositOps
    BY <1>0 DEF HeldAccount
  <2>1. CASE u = t
    BY <1>1, <2>1
  <2>2. CASE u # t
    <3>1. pc'[u] = pc[u] /\ req[u].acct \in Account
      BY <1>1, <2>2, CallType DEF TypeOK
    <3>2. pc[u] \in {"locked", "updated", "inserted"} => req[u].acct # r.acct
      BY <1>7, <2>2 DEF Holds
    <3> QED
      BY <1>2, <3>1, <3>2 DEF HeldAccount
  <2> QED
    BY <2>1, <2>2
<1>10. Pending'
  <2> SUFFICES ASSUME NEW u \in Tx, pc'[u] \in {"updated", "inserted"}
               PROVE  /\ row'[u].avail = accounts'[req[u].acct].avail + AvailDelta(req[u])
                      /\ row'[u].locked = accounts'[req[u].acct].locked + LockedDelta(req[u])
    BY <1>0 DEF Pending, AvailDelta, LockedDelta
  <2>1. u # t /\ req[u].acct \in Account \ {r.acct}
    BY <1>0, <1>1, <1>7, CallType DEF Holds, TypeOK
  <2> QED
    BY <1>1, <1>2, <2>1 DEF Pending
<1>11. ClaimedKey'
  <2> SUFFICES ASSUME NEW u \in Tx, pc'[u] = "inserted"
               PROVE  /\ ~IsPosted(req[u].key)'
                      /\ \A v \in Tx : Claims(v, req[u].key)' => v = u
    BY DEF ClaimedKey
  <2>1. u # t /\ pc[u] = "inserted" /\ req[u].key # r.key
    BY <1>0, <1>1 DEF ClaimedKey, Claims
  <2>2. ASSUME NEW a \in Account, NEW i \in DOMAIN ledger'[a]
        PROVE  ledger'[a][i].key # req[u].key
    <3>1. CASE a = r.acct
      <4>0. /\ ledger[a] \in Seq(Entry) /\ ledger'[a] = Append(ledger[a], NewEntry(t))
            /\ i \in 1 .. Len(ledger[a]) + 1
        BY <1>0, <1>3, <1>4, <3>1 DEF TypeOK
      <4>1. CASE i \in DOMAIN ledger[a]
        BY <1>0, <1>4, <2>1, <4>0, <4>1 DEF ClaimedKey, IsPosted, HasKey
      <4>2. CASE i = Len(ledger[a]) + 1
        BY <1>4, <2>1, <4>0, <4>2 DEF NewEntry
      <4> QED
        BY <4>0, <4>1, <4>2
    <3>2. CASE a # r.acct
      BY <1>2, <2>1, <3>2 DEF ClaimedKey, IsPosted, HasKey
    <3> QED
      BY <3>1, <3>2
  <2>3. ~IsPosted(req[u].key)'
    BY <1>0, <2>2 DEF IsPosted, HasKey
  <2>4. \A v \in Tx : Claims(v, req[u].key)' => v = u
    BY <1>0, <1>1, <2>1 DEF ClaimedKey, Claims
  <2> QED
    BY <2>3, <2>4
<1> QED
  BY <1>5, <1>6, <1>8, <1>9, <1>10, <1>11
LEMMA NextKeepsLockInv == LockInv /\ [Next]_vars => LockInv'
<1> SUFFICES ASSUME LockInv, [Next]_vars PROVE LockInv'
  OBVIOUS
<1>0. Zero \in Balance
  BY DEF Zero, Balance
<1>1. ASSUME NEW t \in Tx, NEW r \in Request, BeginFresh(t, r) PROVE LockInv'
  <2>1. reply' \in [Tx -> [status : Status, avail : Int, locked : Int]]
    BY <1>1 DEF BeginFresh, LockInv, TypeOK, NoReply, Status
  <2>2. req' \in [Tx -> Request] /\ \A u \in Tx \ {t} : req'[u] = req[u]
    BY <1>1 DEF BeginFresh, LockInv, TypeOK
  <2> QED
    BY <1>1, <2>1, <2>2, ProceedKeepsLockInv DEF BeginFresh, Step, LockInv, TypeOK
<1>2. ASSUME NEW t \in Tx, NEW r \in Request, BeginReplay(t, r) PROVE LockInv'
  <2>1. req' \in [Tx -> Request] /\ \A u \in Tx \ {t} : req'[u] = req[u]
    BY <1>2 DEF BeginReplay, LockInv, TypeOK
  <2>2. PICK a \in Account : \E i \in DOMAIN ledger[a] :
            Finish(t, IF SamePayload(a, ledger[a][i], r)
                         THEN Answer("IDEMPOTENT_REPLAY", accounts[a])
                         ELSE Answer("IDEMPOTENCY_PAYLOAD_MISMATCH", Zero))
    BY <1>2 DEF BeginReplay
  <2>3. Answer("IDEMPOTENT_REPLAY", accounts[a])
            \in [status : Status, avail : Int, locked : Int]
    BY DEF LockInv, TypeOK, Row, Answer, Status
  <2>4. Answer("IDEMPOTENCY_PAYLOAD_MISMATCH", Zero)
            \in [status : Status, avail : Int, locked : Int]
    BY <1>0, AnswerType DEF Status
  <2>5. PICK i \in DOMAIN ledger[a] :
            Finish(t, IF SamePayload(a, ledger[a][i], r)
                         THEN Answer("IDEMPOTENT_REPLAY", accounts[a])
                         ELSE Answer("IDEMPOTENCY_PAYLOAD_MISMATCH", Zero))
    BY <2>2
  <2> QED
    BY <1>2, <2>1, <2>3, <2>4, <2>5, FinishKeepsLockInv DEF BeginReplay
<1>3. ASSUME NEW t \in Tx, LockAccount(t) PROVE LockInv'
  <2>1. \A u \in Tx \ {t} : ~Holds(u, req[t].acct)
    BY <1>3 DEF LockAccount
  <2>2. /\ accounts[req[t].acct].exists
        /\ pc' = [pc EXCEPT ![t] = "locked"]
        /\ accounts' = accounts /\ ledger' = ledger /\ req' = req /\ row' = row
        /\ reply' = reply
    BY <1>3 DEF LockAccount, Proceed
  <2> QED
    BY <2>1, <2>2, ProceedKeepsLockInv DEF Step, LockInv, TypeOK
<1>4. ASSUME NEW t \in Tx, MissAccount(t) PROVE LockInv'
  <2>1. CASE req[t].op \in DepositOps /\ Proceed(t, "creating") /\ UNCHANGED row
    <3>1. /\ pc' = [pc EXCEPT ![t] = "creating"]
          /\ accounts' = accounts /\ ledger' = ledger /\ req' = req /\ row' = row
          /\ reply' = reply
      BY <1>4, <2>1 DEF MissAccount, Proceed
    <3> QED
      BY <2>1, <3>1, ProceedKeepsLockInv DEF Step, LockInv, TypeOK
  <2>2. CASE Finish(t, Answer("NOT_FOUND", Zero))
    <3>1. Answer("NOT_FOUND", Zero) \in [status : Status, avail : Int, locked : Int]
      BY <1>0, AnswerType DEF Status
    <3> QED
      BY <1>4, <2>2, <3>1, FinishKeepsLockInv DEF MissAccount, LockInv, TypeOK
  <2> QED
    BY <1>4, <2>1, <2>2 DEF MissAccount
<1>5. \A status \in Status : Answer(status, Zero) \in [status : Status, avail : Int, locked : Int]
  BY <1>0, AnswerType
<1>6. ASSUME NEW t \in Tx, CreateAccount(t) PROVE LockInv'
  <2>0. req[t].op \in DepositOps
    BY <1>6 DEF CreateAccount, LockInv, HeldAccount
  <2>1. CASE Proceed(t, "locked") /\ UNCHANGED row
    BY <1>6, <2>0, <2>1, ProceedKeepsLockInv DEF CreateAccount, Proceed, Step, LockInv, TypeOK
  <2>2. CASE Finish(t, Answer("ERROR", Zero))
    BY <1>5, <1>6, <2>2, FinishKeepsLockInv DEF CreateAccount, LockInv, TypeOK, Status
  <2> QED
    BY <1>6, <2>1, <2>2 DEF CreateAccount
<1>7. ASSUME NEW t \in Tx, UpdateBalances(t) PROVE LockInv'
  <2> DEFINE r == req[t]
             b == accounts[r.acct]
             after == [avail |-> b.avail + AvailDelta(r), locked |-> b.locked + LockedDelta(r)]
  <2>1. /\ r \in Request /\ r.acct \in Account /\ b \in Row
        /\ b.avail \in Nat /\ b.locked \in Nat
    BY CallType DEF LockInv, TypeOK, NonNegative, Row
  <2>2. after \in Balance
    BY <1>7, <2>1, UpdateNonNegative DEF UpdateBalances, Suffices, Balance
  <2>3. row' \in [Tx -> Balance] /\ row'[t] = after /\ \A u \in Tx \ {t} : row'[u] = row[u]
    BY <1>7, <2>2 DEF UpdateBalances, LockInv, TypeOK
  <2>4. \A u \in Tx \ {t} : ~Holds(u, r.acct)
    BY <1>7, <2>1 DEF UpdateBalances, LockInv, RowLock, Holds
  <2>5. b.exists \/ r.op \in DepositOps
    BY <1>7 DEF UpdateBalances, LockInv, HeldAccount
  <2> QED
    BY <1>7, <2>1, <2>3, <2>4, <2>5, ProceedKeepsLockInv
       DEF UpdateBalances, Proceed, Step, LockInv, TypeOK
<1>8. ASSUME NEW t \in Tx, RefuseInsufficient(t) PROVE LockInv'
  BY <1>5, <1>8, FinishKeepsLockInv DEF RefuseInsufficient, LockInv, TypeOK, Status
<1>9. ASSUME NEW t \in Tx, InsertLedger(t) PROVE LockInv'
  <2>1. req[t].acct \in Account
    BY CallType DEF LockInv, TypeOK
  <2>2. \A u \in Tx \ {t} : ~Holds(u, req[t].acct)
    BY <1>9, <2>1 DEF InsertLedger, LockInv, RowLock, Holds
  <2> QED
    BY <1>9, <2>2, ProceedKeepsLockInv
       DEF InsertLedger, Proceed, Step, LockInv, TypeOK, HeldAccount, Pending
<1>10. ASSUME NEW t \in Tx, InsertDuplicate(t) PROVE LockInv'
  BY <1>5, <1>10, FinishKeepsLockInv DEF InsertDuplicate, LockInv, TypeOK, Status
<1>11. ASSUME NEW t \in Tx, Commit(t) PROVE LockInv'
  BY <1>11, CommitKeepsLockInv
<1>12. ASSUME NEW t \in Tx, Rollback(t) PROVE LockInv'
  BY <1>5, <1>12, FinishKeepsLockInv DEF Rollback, LockInv, TypeOK, Status
<1>13. ASSUME NEW a \in Account, FindOrCreate(a) PROVE LockInv'
  <2>1. /\ accounts' \in [Account -> Row]
        /\ \A b \in Account : /\ accounts'[b].avail = accounts[b].avail
                              /\ accounts'[b].locked = accounts[b].locked
                              /\ accounts[b].exists => accounts'[b].exists
    BY <1>13 DEF FindOrCreate, LockInv, TypeOK, Row
  <2>2. TypeOK' /\ NonNegative' /\ RowLock'
    BY <1>13, <2>1 DEF FindOrCreate, LockInv, TypeOK, NonNegative, RowLock, Holds
  <2>3. HeldAccount' /\ Pending'
    BY <1>13, <2>1, CallType DEF FindOrCreate, LockInv, TypeOK, HeldAccount, Pending
  <2>4. ClaimedKey'
    BY <1>13 DEF FindOrCreate, LockInv, ClaimedKey, Claims, IsPosted, HasKey
  <2> QED
    BY <2>2, <2>3, <2>4 DEF LockInv
<1>14. CASE UNCHANGED vars
  BY <1>14 DEF vars, LockInv, TypeOK, NonNegative, RowLock, Holds, HeldAccount, Pending,
               ClaimedKey, Claims, IsPosted, HasKey
<1> QED
  BY <1>1, <1>2, <1>3, <1>4, <1>6, <1>7, <1>8, <1>9, <1>10, <1>11, <1>12, <1>13, <1>14 DEF Next
LEMMA LockInvInvariant == Spec => []LockInv
  BY InitLockInv, NextKeepsLockInv, PTL DEF Spec

-----------------------------------------------------------------------------

\* The variables keep their types, and no UPDATE returns a negative balance.
THEOREM BalancesTypeOK == Spec => []TypeOK
  BY LockInvInvariant, PTL DEF LockInv

\* No committed balance is ever negative, whatever the calls and however many
\* connections serve them.
THEOREM BalancesNonNegative == Spec => []NonNegative
  BY LockInvInvariant, PTL DEF LockInv

\* The transactions implement the atomic postings of Ledger: a commit is a
\* posting, opening an account is one step, and no other step is visible.
THEOREM BalancesImplementsLedger == Spec => ImplementsLedger
<1>1. Init => LedgerSpec!Init
  BY DEF Init, LedgerSpec!Init, NoAccount, LedgerSpec!NoAccount
<1>2. LockInv /\ [Next]_vars => [LedgerSpec!Next]_LedgerSpec!ledgerVars
  <2> SUFFICES ASSUME LockInv, [Next]_vars
               PROVE  [LedgerSpec!Next]_LedgerSpec!ledgerVars
    OBVIOUS
  <2> USE DEF LedgerSpec!ledgerVars
  <2>1. ASSUME NEW t \in Tx, Commit(t) PROVE LedgerSpec!Next
    <3> DEFINE r == req[t]
               entry == LedgerSpec!EntryFor(r, accounts[r.acct])
    <3>1. /\ r \in Request /\ r.acct \in Account /\ row[t] \in Balance
          /\ pc[t] = "inserted"
      BY <2>1, CallType DEF LockInv, TypeOK, Commit
    <3>2. /\ row[t].avail = accounts[r.acct].avail + AvailDelta(r)
          /\ row[t].locked = accounts[r.acct].locked + LockedDelta(r)
          /\ row[t].avail >= 0 /\ row[t].locked >= 0
      BY <3>1 DEF LockInv, Pending, Balance
    <3>3. entry = NewEntry(t)
      BY <3>2 DEF LedgerSpec!EntryFor, NewEntry, AvailDelta, LockedDelta
    <3>4. ~LedgerSpec!IsPosted(r.key)
      BY <3>1 DEF LockInv, ClaimedKey, IsPosted, HasKey, LedgerSpec!IsPosted
    <3>5. accounts[r.acct].exists \/ r.op \in LedgerSpec!DepositOps
      BY <3>1 DEF LockInv, HeldAccount, DepositOps, LedgerSpec!DepositOps
    <3>6. LedgerSpec!Post(r)
      BY <2>1, <3>2, <3>3, <3>4, <3>5 DEF LedgerSpec!Post, Commit, NewEntry
    <3> QED
      BY <3>1, <3>6 DEF LedgerSpec!Next
  <2>2. ASSUME NEW a \in Account, FindOrCreate(a) PROVE LedgerSpec!Next
    BY <2>2 DEF FindOrCreate, LedgerSpec!Open, LedgerSpec!Next
  <2>3. CASE UNCHANGED <<accounts, ledger>>
    BY <2>3
  <2> QED
    BY <2>1, <2>2, <2>3
       DEF Next, vars, BeginFresh, BeginReplay, LockAccount, MissAccount, CreateAccount,
           UpdateBalances, RefuseInsufficient, InsertLedger, InsertDuplicate, Rollback
<1> QED
  BY <1>1, <1>2, LockInvInvariant, PTL DEF Spec, ImplementsLedger, LedgerSpec!Spec
-----------------------------------------------------------------------------

\* What a commit does to the ledgers: one new entry, last on one of them.
LEMMA CommitAppends ==
    ASSUME LockInv, NEW t \in Tx, Commit(t)
    PROVE  LET a == req[t].acct
           IN  /\ a \in Account
               /\ \A b \in Account : ledger[b] \in Seq(Entry)
               /\ \A b \in Account \ {a} :
                     ledger'[b] = ledger[b] /\ accounts'[b] = accounts[b]
               /\ Len(ledger'[a]) = Len(ledger[a]) + 1
               /\ DOMAIN ledger'[a] = 1 .. Len(ledger[a]) + 1
               /\ \A i \in 1 .. Len(ledger[a]) : ledger'[a][i] = ledger[a][i]
               /\ ledger'[a][Len(ledger[a]) + 1] = NewEntry(t)
               /\ accounts'[a].avail = row[t].avail
               /\ accounts'[a].locked = row[t].locked
<1> DEFINE a == req[t].acct
<1>1. a \in Account /\ \A b \in Account : ledger[b] \in Seq(Entry)
  BY CallType DEF LockInv, TypeOK
<1>2. NewEntry(t) \in Entry
  BY CallType DEF LockInv, TypeOK, NewEntry, Entry, Balance
<1>3. ledger'[a] = Append(ledger[a], NewEntry(t))
  BY <1>1 DEF Commit, LockInv, TypeOK
<1>4. /\ Len(ledger'[a]) = Len(ledger[a]) + 1
      /\ DOMAIN ledger'[a] = 1 .. Len(ledger[a]) + 1
      /\ \A i \in 1 .. Len(ledger[a]) : ledger'[a][i] = ledger[a][i]
      /\ ledger'[a][Len(ledger[a]) + 1] = NewEntry(t)
  BY <1>1, <1>2, <1>3
<1>5. /\ \A b \in Account \ {a} : ledger'[b] = ledger[b] /\ accounts'[b] = accounts[b]
      /\ accounts'[a].avail = row[t].avail /\ accounts'[a].locked = row[t].locked
  BY <1>1 DEF Commit, LockInv, TypeOK
<1> QED
  BY <1>1, <1>4, <1>5

\* Every step but a commit leaves the ledgers and the balances as they are.
LEMMA OtherStepsKeepBalances ==
    ASSUME LockInv, [Next]_vars, \A t \in Tx : ~Commit(t)
    PROVE  /\ ledger' = ledger
           /\ \A a \in Account : /\ accounts'[a].avail = accounts[a].avail
                                 /\ accounts'[a].locked = accounts[a].locked
<1>1. CASE UNCHANGED <<accounts, ledger>>
  BY <1>1
<1>2. ASSUME NEW a \in Account, FindOrCreate(a)
      PROVE  /\ ledger' = ledger
             /\ \A b \in Account : /\ accounts'[b].avail = accounts[b].avail
                                   /\ accounts'[b].locked = accounts[b].locked
  BY <1>2 DEF FindOrCreate, LockInv, TypeOK, Row
<1> QED
  BY <1>1, <1>2
     DEF Next, vars, BeginFresh, BeginReplay, LockAccount, MissAccount, CreateAccount,
         UpdateBalances, RefuseInsufficient, InsertLedger, InsertDuplicate, Rollback

\* A key is on the ledgers of all accounts together at most once, however often
\* and however concurrently its call is repeated.
THEOREM BalancesPostedOnce == Spec => []PostedOnce
<1>1. Init => PostedOnce
  BY DEF Init, PostedOnce
<1>2. LockInv /\ PostedOnce /\ [Next]_vars => PostedOnce'
  <2> SUFFICES ASSUME LockInv, PostedOnce, [Next]_vars PROVE PostedOnce'
    OBVIOUS
  <2>1. ASSUME NEW t \in Tx, Commit(t) PROVE PostedOnce'
    <3> DEFINE c == req[t].acct
               new == Len(ledger[c]) + 1
    <3>1. \A a \in Account : \A i \in DOMAIN ledger[a] : ledger[a][i].key # req[t].key
      BY <2>1 DEF LockInv, ClaimedKey, IsPosted, HasKey, Commit
    <3>2. \A a \in Account : \A i \in DOMAIN ledger'[a] :
              \/ i \in DOMAIN ledger[a] /\ ledger'[a][i] = ledger[a][i]
              \/ a = c /\ i = new /\ ledger'[a][i].key = req[t].key
      <4> TAKE a \in Account
      <4>1. CASE a # c
        BY <2>1, <4>1, CommitAppends
      <4>2. CASE a = c
        <5>1. /\ DOMAIN ledger[c] = 1 .. Len(ledger[c])
              /\ DOMAIN ledger'[c] = 1 .. new /\ Len(ledger[c]) \in Nat
              /\ \A i \in 1 .. Len(ledger[c]) : ledger'[c][i] = ledger[c][i]
              /\ ledger'[c][new] = NewEntry(t)
          BY <2>1, CommitAppends
        <5>2. \A i \in 1 .. new : i \in 1 .. Len(ledger[c]) \/ i = new
          BY <5>1
        <5>3. ledger'[c][new].key = req[t].key
          BY <5>1 DEF NewEntry
        <5> QED
          BY <4>2, <5>1, <5>2, <5>3
      <4> QED
        BY <4>1, <4>2
    <3>3. new \notin DOMAIN ledger[c]
      BY <2>1, CommitAppends
    <3>4. SUFFICES ASSUME NEW a \in Account, NEW b \in Account,
                          NEW i \in DOMAIN ledger'[a], NEW j \in DOMAIN ledger'[b],
                          ledger'[a][i].key = ledger'[b][j].key
                   PROVE  a = b /\ i = j
      BY DEF PostedOnce
    <3>5. CASE i \in DOMAIN ledger[a] /\ j \in DOMAIN ledger[b]
      <4>1. ledger'[a][i] = ledger[a][i] /\ ledger'[b][j] = ledger[b][j]
        BY <3>2, <3>3, <3>5
      <4> QED
        BY <3>4, <3>5, <4>1 DEF PostedOnce
    <3>6. CASE i \notin DOMAIN ledger[a] /\ j \notin DOMAIN ledger[b]
      BY <3>2, <3>6
    <3>7. CASE i \in DOMAIN ledger[a] /\ j \notin DOMAIN ledger[b]
      <4>1. ledger'[a][i] = ledger[a][i] /\ ledger'[b][j].key = req[t].key
        BY <3>2, <3>3, <3>7
      <4> QED
        BY <3>1, <3>4, <3>7, <4>1
    <3>8. CASE i \notin DOMAIN ledger[a] /\ j \in DOMAIN ledger[b]
      <4>1. ledger'[b][j] = ledger[b][j] /\ ledger'[a][i].key = req[t].key
        BY <3>2, <3>3, <3>8
      <4> QED
        BY <3>1, <3>4, <3>8, <4>1
    <3> QED
      BY <3>5, <3>6, <3>7, <3>8
  <2>2. CASE \A t \in Tx : ~Commit(t)
    BY <2>2, OtherStepsKeepBalances DEF PostedOnce
  <2> QED
    BY <2>1, <2>2
<1> QED
  BY <1>1, <1>2, LockInvInvariant, PTL DEF Spec

\* Every ledger explains the balances of its account, row by row.
THEOREM BalancesAuditTrail == Spec => []AuditTrail
<1>1. Init => AuditTrail
  BY DEF Init, AuditTrail, Before, NoAccount, Zero
<1>2. LockInv /\ AuditTrail /\ [Next]_vars => AuditTrail'
  <2> SUFFICES ASSUME LockInv, AuditTrail, [Next]_vars PROVE AuditTrail'
    OBVIOUS
  <2>1. ASSUME NEW t \in Tx, Commit(t) PROVE AuditTrail'
    <3> DEFINE c == req[t].acct
               old == Len(ledger[c])
               Continues(l, i, e) ==
                   /\ e.avail = (IF i = 1 THEN Zero ELSE l[i - 1]).avail + e.dAvail
                   /\ e.locked = (IF i = 1 THEN Zero ELSE l[i - 1]).locked + e.dLocked
               LeavesLast(l, n, acct) ==
                   /\ acct.avail = (IF n = 0 THEN Zero ELSE l[n]).avail
                   /\ acct.locked = (IF n = 0 THEN Zero ELSE l[n]).locked
    <3>1. /\ c \in Account /\ old \in Nat
          /\ \A b \in Account : ledger[b] \in Seq(Entry)
          /\ \A b \in Account \ {c} : ledger'[b] = ledger[b] /\ accounts'[b] = accounts[b]
          /\ DOMAIN ledger[c] = 1 .. old
          /\ DOMAIN ledger'[c] = 1 .. old + 1 /\ Len(ledger'[c]) = old + 1
          /\ \A i \in 1 .. old : ledger'[c][i] = ledger[c][i]
          /\ ledger'[c][old + 1] = NewEntry(t)
          /\ accounts'[c].avail = row[t].avail /\ accounts'[c].locked = row[t].locked
      <4>1. /\ c \in Account
            /\ \A b \in Account : ledger[b] \in Seq(Entry)
            /\ \A b \in Account \ {c} : ledger'[b] = ledger[b] /\ accounts'[b] = accounts[b]
        BY <2>1, CommitAppends
      <4>2. ledger[c] \in Seq(Entry)
        BY <4>1
      <4>3. old \in Nat /\ DOMAIN ledger[c] = 1 .. old
        BY <4>2
      <4>4. /\ DOMAIN ledger'[c] = 1 .. old + 1 /\ Len(ledger'[c]) = old + 1
            /\ \A i \in 1 .. old : ledger'[c][i] = ledger[c][i]
        BY <2>1, CommitAppends
      <4>5. /\ ledger'[c][old + 1] = NewEntry(t)
            /\ accounts'[c].avail = row[t].avail /\ accounts'[c].locked = row[t].locked
        BY <2>1, CommitAppends
      <4> HIDE DEF c, old
      <4>6. QED
        BY <4>1, <4>3, <4>4, <4>5
    <3>2. \A a \in Account : /\ \A i \in DOMAIN ledger[a] : Continues(ledger[a], i, ledger[a][i])
                             /\ LeavesLast(ledger[a], Len(ledger[a]), accounts[a])
      <4>1. \A a \in Account : Len(ledger[a]) \in Nat
        BY <3>1
      <4> QED
        BY <4>1 DEF AuditTrail, Before
    <3>3. /\ row[t].avail = accounts[c].avail + AvailDelta(req[t])
          /\ row[t].locked = accounts[c].locked + LockedDelta(req[t])
      BY <2>1 DEF Commit, LockInv, Pending
    <3> HIDE DEF c, old, Continues, LeavesLast
    <3>4. ASSUME NEW i \in 1 .. old PROVE Continues(ledger'[c], i, ledger'[c][i])
      <4>1. Continues(ledger[c], i, ledger[c][i]) /\ ledger'[c][i] = ledger[c][i]
        BY <3>1, <3>2
      <4>2. i # 1 => ledger'[c][i - 1] = ledger[c][i - 1]
        BY <3>1
      <4> QED
        BY <4>1, <4>2 DEF Continues
    <3>5. Continues(ledger'[c], old + 1, ledger'[c][old + 1])
      <4>1. LeavesLast(ledger[c], old, accounts[c])
        BY <3>1, <3>2
      <4>2. old # 0 => ledger'[c][old] = ledger[c][old]
        BY <3>1
      <4>3. /\ ledger'[c][old + 1].avail = row[t].avail
            /\ ledger'[c][old + 1].locked = row[t].locked
            /\ ledger'[c][old + 1].dAvail = AvailDelta(req[t])
            /\ ledger'[c][old + 1].dLocked = LockedDelta(req[t])
        BY <3>1 DEF NewEntry
      <4>4. (old + 1) - 1 = old /\ (old + 1 = 1 <=> old = 0)
        BY <3>1
      <4> QED
        BY <3>3, <4>1, <4>2, <4>3, <4>4 DEF Continues, LeavesLast
    <3>6. LeavesLast(ledger'[c], old + 1, accounts'[c])
      <4>1. old + 1 # 0
        BY <3>1
      <4> QED
        BY <3>1, <4>1 DEF NewEntry, LeavesLast
    <3>7. ASSUME NEW a \in Account
          PROVE  /\ \A i \in DOMAIN ledger'[a] : Continues(ledger'[a], i, ledger'[a][i])
                 /\ LeavesLast(ledger'[a], Len(ledger'[a]), accounts'[a])
      <4>1. CASE a = c
        <5>1. \A i \in 1 .. old + 1 : i \in 1 .. old \/ i = old + 1
          BY <3>1
        <5> QED
          BY <3>1, <3>4, <3>5, <3>6, <4>1, <5>1
      <4>2. CASE a # c
        <5>1. ledger'[a] = ledger[a] /\ accounts'[a] = accounts[a]
          BY <3>1, <4>2
        <5> QED
          BY <3>2, <5>1
      <4> QED
        BY <4>1, <4>2
    <3>8. \A a \in Account : Len(ledger'[a]) \in Nat
      <4> TAKE a \in Account
      <4>1. CASE a = c
        BY <3>1, <4>1
      <4>2. CASE a # c
        BY <3>1, <4>2
      <4> QED
        BY <4>1, <4>2
    <3> QED
      BY <3>7, <3>8 DEF AuditTrail, Before, Continues, LeavesLast
  <2>2. CASE \A t \in Tx : ~Commit(t)
    BY <2>2, OtherStepsKeepBalances DEF AuditTrail, Before
  <2> QED
    BY <2>1, <2>2
<1> QED
  BY <1>1, <1>2, LockInvInvariant, PTL DEF Spec

-----------------------------------------------------------------------------

\* An entry of the ledger of a is the one of t's call.
Records(a, i, t) ==
    /\ ledger[a][i].key = req[t].key
    /\ ledger[a][i].op = req[t].op
    /\ ledger[a][i].amount = req[t].amount

\* The call of t is on the ledger of its account, with the balances of the answer.
Made(t) == \E i \in DOMAIN ledger[req[t].acct] :
    /\ Records(req[t].acct, i, t)
    /\ ledger[req[t].acct][i].avail = reply[t].avail
    /\ ledger[req[t].acct][i].locked = reply[t].locked

\* A call like that of t is on the ledger of an account in its currency.
Repeated(t) == \E a \in Account : a[2] = req[t].acct[2] /\ \E i \in DOMAIN ledger[a] : Records(a, i, t)

AnswerTrue(t) ==
    /\ reply[t].status = "OK" => Made(t)
    /\ reply[t].status = "IDEMPOTENT_REPLAY" => Repeated(t)

LEMMA SuccessIs ==
    /\ SuccessIsOnLedger <=> \A t \in Tx : AnswerTrue(t)
    /\ SuccessIsOnLedger' <=> \A t \in Tx : AnswerTrue(t)'
BY DEF SuccessIsOnLedger, AnswerTrue, Made, Repeated, Records

\* No entry is ever changed or taken away.
LEMMA LedgersGrow ==
    ASSUME LockInv, [Next]_vars
    PROVE  \A a \in Account : \A i \in DOMAIN ledger[a] : i \in DOMAIN ledger'[a] /\ ledger'[a][i] = ledger[a][i]
<1>1. ASSUME NEW t \in Tx, Commit(t), NEW a \in Account, NEW i \in DOMAIN ledger[a]
      PROVE  i \in DOMAIN ledger'[a] /\ ledger'[a][i] = ledger[a][i]
  <2>1. CASE a = req[t].acct
    <3>1. ledger[a] \in Seq(Entry) /\ i \in 1 .. Len(ledger[a])
      BY <1>1 DEF LockInv, TypeOK
    <3>2. i \in 1 .. Len(ledger[a]) + 1
      BY <3>1
    <3>3. QED
      BY <1>1, <2>1, <3>1, <3>2, CommitAppends
  <2>2. CASE a # req[t].acct
    BY <1>1, <2>2, CommitAppends
  <2>3. QED
    BY <2>1, <2>2
<1>2. QED
  BY <1>1, OtherStepsKeepBalances

\* An answer that was true stays true, until t is called again.
LEMMA AnswerStays ==
    ASSUME LockInv, [Next]_vars, NEW t \in Tx, AnswerTrue(t), reply'[t] = reply[t], req'[t] = req[t]
    PROVE  AnswerTrue(t)'
<1>1. req[t].acct \in Account
  BY CallType DEF LockInv, TypeOK
<1>2. Made(t) => Made(t)'
  BY <1>1, LedgersGrow DEF Made, Records
<1>3. Repeated(t) => Repeated(t)'
  BY LedgersGrow DEF Repeated, Records
<1>4. QED
  BY <1>2, <1>3 DEF AnswerTrue

\* t answers that it failed, or was refused, or nothing yet.
Denies(t) == reply'[t].status \notin {"OK", "IDEMPOTENT_REPLAY"}

LEMMA FinishAnswers ==
    ASSUME LockInv, NEW t \in Tx, NEW answer, Finish(t, answer)
    PROVE  reply'[t] = answer /\ \A u \in Tx \ {t} : reply'[u] = reply[u]
BY DEF LockInv, TypeOK, Finish

\* Only a commit and a replay answer with success.
LEMMA OthersDeny ==
    ASSUME LockInv, NEW t \in Tx, NEW r \in Request,
           \/ BeginFresh(t, r) \/ LockAccount(t) \/ MissAccount(t) \/ CreateAccount(t)
           \/ UpdateBalances(t) \/ RefuseInsufficient(t) \/ InsertLedger(t) \/ InsertDuplicate(t) \/ Rollback(t)
    PROVE  /\ \A u \in Tx \ {t} : reply'[u] = reply[u] /\ req'[u] = req[u]
           /\ (reply'[t] = reply[t] /\ req'[t] = req[t]) \/ Denies(t)
<1>1. CASE BeginFresh(t, r)
  <2>1. NoReply.status = "NONE"
    BY DEF NoReply
  <2>2. /\ reply'[t] = NoReply
        /\ \A u \in Tx \ {t} : reply'[u] = reply[u] /\ req'[u] = req[u]
    BY <1>1 DEF BeginFresh, LockInv, TypeOK
  <2>3. QED
    BY <2>1, <2>2 DEF Denies
<1>2. ASSUME NEW status \in Status \ {"OK", "IDEMPOTENT_REPLAY"}, Finish(t, Answer(status, Zero)), UNCHANGED req
      PROVE  Denies(t) /\ \A u \in Tx \ {t} : reply'[u] = reply[u] /\ req'[u] = req[u]
  <2>1. Answer(status, Zero).status = status
    BY DEF Answer
  <2>2. reply'[t] = Answer(status, Zero) /\ \A u \in Tx \ {t} : reply'[u] = reply[u]
    BY <1>2, FinishAnswers
  <2>3. QED
    BY <1>2, <2>1, <2>2 DEF Denies
<1>3. \/ BeginFresh(t, r)
      \/ UNCHANGED <<reply, req>>
      \/ UNCHANGED req /\ \E status \in Status \ {"OK", "IDEMPOTENT_REPLAY"} : Finish(t, Answer(status, Zero))
  BY DEF LockAccount, MissAccount, CreateAccount, UpdateBalances, RefuseInsufficient, InsertLedger,
         InsertDuplicate, Rollback, Proceed, Status
<1>4. QED
  BY <1>1, <1>2, <1>3

LEMMA CommitAnswers ==
    ASSUME LockInv, NEW t \in Tx, Commit(t)
    PROVE  /\ \A u \in Tx \ {t} : reply'[u] = reply[u] /\ req'[u] = req[u]
           /\ AnswerTrue(t)'
<1>1. UNCHANGED req /\ row[t] \in Balance
  BY DEF Commit, LockInv, TypeOK
<1>2. /\ \A u \in Tx \ {t} : reply'[u] = reply[u]
      /\ reply'[t] = Answer("OK", row[t]) \/ reply'[t] = Answer("ERROR", Zero)
  BY FinishAnswers DEF Commit
<1>3. CASE reply'[t] = Answer("ERROR", Zero)
  <2>1. reply'[t].status = "ERROR"
    BY <1>3 DEF Answer
  <2>2. QED
    BY <1>1, <1>2, <2>1 DEF AnswerTrue
<1>4. CASE reply'[t] = Answer("OK", row[t])
  <2> DEFINE a == req[t].acct
             n == Len(ledger[a]) + 1
  <2>1. reply'[t].status = "OK" /\ reply'[t].avail = row[t].avail /\ reply'[t].locked = row[t].locked
    BY <1>4 DEF Answer
  <2>2. n \in DOMAIN ledger'[a] /\ ledger'[a][n] = NewEntry(t)
    <3>1. DOMAIN ledger'[a] = 1 .. n /\ ledger'[a][n] = NewEntry(t) /\ ledger[a] \in Seq(Entry)
      BY CommitAppends
    <3>2. n \in 1 .. n
      BY <3>1
    <3>3. QED
      BY <3>1, <3>2
  <2>3. /\ NewEntry(t).key = req[t].key /\ NewEntry(t).op = req[t].op /\ NewEntry(t).amount = req[t].amount
        /\ NewEntry(t).avail = row[t].avail /\ NewEntry(t).locked = row[t].locked
    BY DEF NewEntry
  <2> HIDE DEF n
  <2>4. Made(t)'
    BY <1>1, <2>1, <2>2, <2>3 DEF Made, Records
  <2>5. QED
    BY <1>1, <1>2, <2>1, <2>4 DEF AnswerTrue
<1>5. QED
  BY <1>2, <1>3, <1>4

LEMMA ReplayAnswers ==
    ASSUME LockInv, NEW t \in Tx, NEW r \in Request, BeginReplay(t, r)
    PROVE  /\ \A u \in Tx \ {t} : reply'[u] = reply[u] /\ req'[u] = req[u]
           /\ AnswerTrue(t)'
<1>1. UNCHANGED ledger /\ req'[t] = r /\ \A u \in Tx \ {t} : req'[u] = req[u]
  BY DEF BeginReplay, LockInv, TypeOK
<1> DEFINE Told(a, i) ==
       /\ HasKey(a, i, r.key)
       /\ Finish(t, IF SamePayload(a, ledger[a][i], r)
                       THEN Answer("IDEMPOTENT_REPLAY", accounts[a])
                       ELSE Answer("IDEMPOTENCY_PAYLOAD_MISMATCH", Zero))
<1>a. PICK a \in Account : \E i \in DOMAIN ledger[a] : Told(a, i)
  BY DEF BeginReplay
<1>2. PICK i \in DOMAIN ledger[a] : Told(a, i)
  BY <1>a
<1>3. \A u \in Tx \ {t} : reply'[u] = reply[u]
  BY <1>2, FinishAnswers
<1>4. CASE SamePayload(a, ledger[a][i], r)
  <2>1. reply'[t] = Answer("IDEMPOTENT_REPLAY", accounts[a])
    BY <1>2, <1>4, FinishAnswers
  <2>2. reply'[t].status = "IDEMPOTENT_REPLAY"
    BY <2>1 DEF Answer
  <2>3. Repeated(t)'
    BY <1>1, <1>2, <1>4 DEF SamePayload, HasKey, Repeated, Records
  <2>4. QED
    BY <1>1, <1>3, <2>2, <2>3 DEF AnswerTrue
<1>5. CASE ~SamePayload(a, ledger[a][i], r)
  <2>1. reply'[t] = Answer("IDEMPOTENCY_PAYLOAD_MISMATCH", Zero)
    BY <1>2, <1>5, FinishAnswers
  <2>2. reply'[t].status = "IDEMPOTENCY_PAYLOAD_MISMATCH"
    BY <2>1 DEF Answer
  <2>3. QED
    BY <1>1, <1>3, <2>2 DEF AnswerTrue
<1>6. QED
  BY <1>4, <1>5

\* A caller told OK finds his call on the ledger with the balances of the answer; one told
\* that it is a replay finds a call of the same key, operation, amount and currency.
THEOREM BalancesSuccessIsOnLedger == Spec => []SuccessIsOnLedger
<1>1. Init => SuccessIsOnLedger
  BY DEF Init, SuccessIsOnLedger, NoReply
<1>2. LockInv /\ SuccessIsOnLedger /\ [Next]_vars => SuccessIsOnLedger'
  <2> SUFFICES ASSUME LockInv, \A t \in Tx : AnswerTrue(t), [Next]_vars, NEW t \in Tx PROVE AnswerTrue(t)'
    BY SuccessIs
  <2>1. ASSUME NEW u \in Tx, \A v \in Tx \ {u} : reply'[v] = reply[v] /\ req'[v] = req[v],
               AnswerTrue(u)' \/ Denies(u) \/ (reply'[u] = reply[u] /\ req'[u] = req[u])
        PROVE  AnswerTrue(t)'
    <3>1. Denies(u) => AnswerTrue(u)'
      BY DEF Denies, AnswerTrue
    <3>2. QED
      BY <2>1, <3>1, AnswerStays
  <2>2. ASSUME NEW u \in Tx, NEW r \in Request, BeginFresh(u, r) \/ BeginReplay(u, r) PROVE AnswerTrue(t)'
    BY <2>1, <2>2, OthersDeny, ReplayAnswers
  <2>3. ASSUME NEW u \in Tx,
               \/ LockAccount(u) \/ MissAccount(u) \/ CreateAccount(u)
               \/ UpdateBalances(u) \/ RefuseInsufficient(u)
               \/ InsertLedger(u) \/ InsertDuplicate(u) \/ Rollback(u)
        PROVE  AnswerTrue(t)'
    <3>1. PICK r : r \in Request
      BY RequestAssumption
    <3>2. QED
      BY <2>1, <2>3, <3>1, OthersDeny
  <2>4. ASSUME NEW u \in Tx, Commit(u) PROVE AnswerTrue(t)'
    BY <2>1, <2>4, CommitAnswers
  <2>5. CASE UNCHANGED vars
    BY <2>5, AnswerStays DEF vars
  <2>6. ASSUME NEW a \in Account, FindOrCreate(a) PROVE AnswerTrue(t)'
    BY <2>6, AnswerStays DEF FindOrCreate
  <2>7. QED
    BY <2>2, <2>3, <2>4, <2>5, <2>6 DEF Next
<1>3. QED
  BY <1>1, <1>2, LockInvInvariant, PTL DEF Spec

-----------------------------------------------------------------------------
(***************************************************************************)
(* Deposits: what is stored, and what a poll knows.                        *)
(***************************************************************************)

PollSteps == {"idle", "polled", "starting_over", "scanning", "processing", "recording",
              "crediting", "marking", "ending"}
AtLog == {"processing", "recording", "crediting", "marking"}

LogRef == [block : Nat, tx : Transaction, index : Nat]
DepositRow ==
    [status : {"CONFIRMED", "CREDITED", "REJECTED_UNSUPPORTED_TOKEN", "REJECTED_BELOW_MINIMUM"},
     user : Depositor, token : STRING, amount : Nat]
PollRecord ==
    [pc : PollSteps, life : Int, head : Nat, from : Nat, to : Nat,
     todo : SUBSET LogRef, tokens : BOOLEAN]
DepositAccount == Depositor \X DOMAIN UnitsPerCoin
Posting ==
    [op : {"ON_CHAIN_DEPOSIT"}, key : {CreditKey(t) : t \in Transaction}, amount : Nat,
     dAvail : Int, dLocked : Int, avail : Int, locked : Int]

\* What is stored has its type; of the polls the invariant below says it.
StoredTypes ==
    /\ balances \in [DepositAccount -> [exists : BOOLEAN, avail : Int, locked : Int]]
    /\ postings \in [DepositAccount -> Seq(Posting)]
    /\ deposits \in [Transaction -> DepositRow \cup {NoRow}]
    /\ scannerState \in [block : Nat \cup {-1}, life : Int]
    /\ chain \in Seq(Transaction \cup {None})
    /\ lives \in Nat
    /\ DOMAIN work = Scanner

\* A block of this height has its confirmations.
Mature(n) == n <= Len(chain) - Confirmations

\* What the cursor says of the life of the node it tells of.
CursorOK ==
    /\ scannerState.life <= lives
    /\ lives = 0 => scannerState.life = 0
    /\ scannerState.life = lives => scannerState.block <= 0 \/ Mature(scannerState.block)

\* A poll knows final logs only, and is at one whose row and credit are what its step
\* takes them for.
PollOK(w) ==
    /\ w \in PollRecord
    /\ w.life <= lives
    /\ lives = 0 => w.life = 0
    /\ w.life = lives => w.head <= Len(chain) /\ (w.to = 0 \/ Mature(w.to))
    /\ w.todo # {} <=> w.pc \in AtLog
    /\ \A l \in w.todo : l.index \in AskedLogs(l.tx) /\ (lives = 0 => Final(l.tx))
    /\ w.pc \in {"crediting", "marking"} => Confirmed(First(w.todo).tx)
    /\ w.pc = "marking" => Credited(First(w.todo).tx)

\* A row tells of one of the deposits of its transaction.
TellsOf(r, l) ==
    /\ r.user = l.user /\ r.token = l.token
    /\ l.token \in DOMAIN UnitsPerCoin /\ r.amount = Scaled(l)

RowOK(t) ==
    Confirmed(t) =>
        /\ lives = 0 => Final(t)
        /\ \E i \in DOMAIN Logs[t] : TellsOf(deposits[t], Logs[t][i])
        /\ deposits[t].status = "CREDITED" => Credited(t)

\* An entry of the ledger repeats a row.
Repeats(e, a, t) ==
    /\ e.key = CreditKey(t) /\ Confirmed(t)
    /\ a = <<deposits[t].user, deposits[t].token>> /\ e.amount = deposits[t].amount

PostingsOK ==
    \A a \in DepositAccount : \A i \in DOMAIN postings[a] :
        \E t \in Transaction : Repeats(postings[a][i], a, t)

CreditsInv ==
    /\ StoredTypes
    /\ CursorOK
    /\ \A s \in Scanner : PollOK(work[s])
    /\ \A t \in Transaction : RowOK(t)
    /\ PostingsOK

-----------------------------------------------------------------------------
(***************************************************************************)
(* Operators.                                                              *)
(***************************************************************************)

LEMMA LeastNumber ==
    ASSUME NEW N \in SUBSET Nat, N # {}
    PROVE  \E k \in N : \A n \in N : k <= n
<1>1. PICK n \in N : TRUE
  OBVIOUS
<1> DEFINE Up(k) == 0 .. k
           Family == {Up(k) : k \in N}
<1>2. IsFiniteSet(Up(n)) /\ Up(n) \in Family
  BY FS_Interval
<1>3. PICK s \in Family : \A t \in Family : t \subseteq s => t = s
  <2> HIDE DEF Family, Up
  <2>1. QED
    BY <1>2, LeastSet
<1>4. PICK k \in N : s = Up(k)
  BY DEF Family
<1>5. ASSUME NEW m \in N, m < k PROVE FALSE
  <2>1. Up(m) \in Family /\ Up(m) \subseteq s
    BY <1>4, <1>5
  <2>2. Up(m) = Up(k)
    BY <1>3, <1>4, <2>1
  <2>3. k \in Up(k) /\ k \notin Up(m)
    BY <1>5
  <2>4. QED
    BY <2>2, <2>3
<1>6. QED
  BY <1>5

\* A poll that has logs left is at one of them.
LEMMA FirstIn ==
    ASSUME NEW logs \in SUBSET LogRef, logs # {}
    PROVE  First(logs) \in logs
<1> DEFINE Blocks == {l.block : l \in logs}
<1>1. Blocks \in SUBSET Nat /\ Blocks # {}
  BY DEF LogRef
<1>2. PICK b \in Blocks : \A n \in Blocks : b <= n
  <2> HIDE DEF Blocks
  <2>1. QED
    BY <1>1, LeastNumber
<1> DEFINE Indices == {l.index : l \in {l \in logs : l.block = b}}
<1>3. Indices \in SUBSET Nat /\ Indices # {}
  BY <1>2 DEF LogRef
<1>4. PICK i \in Indices : \A n \in Indices : i <= n
  <2> HIDE DEF Indices
  <2>1. QED
    BY <1>3, LeastNumber
<1>5. PICK l \in logs : l.block = b /\ l.index = i
  OBVIOUS
<1>6. ASSUME NEW m \in logs PROVE ~Earlier(m, l)
  <2>1. b <= m.block /\ m.block \in Nat /\ m.index \in Nat /\ b \in Nat /\ i \in Nat
    BY <1>1, <1>2, <1>3 DEF LogRef
  <2>2. m.block = b => i <= m.index
    BY <1>4
  <2>3. QED
    BY <1>5, <2>1, <2>2 DEF Earlier
<1>7. QED
  BY <1>5, <1>6 DEF First

LEMMA SafeTargetBound ==
    ASSUME NEW head \in Nat
    PROVE  /\ SafeTarget(head) \in Nat
           /\ SafeTarget(head) = 0 \/ SafeTarget(head) <= head - Confirmations
<1> DEFINE S == {0, head - Confirmations}
<1>1. Confirmations \in Nat
  BY ChainAssumption
<1>2. \E x \in S : \A y \in S : x >= y
  BY <1>1
<1>3. Max(S) \in S /\ \A y \in S : Max(S) >= y
  BY <1>2 DEF Max
<1>4. QED
  BY <1>1, <1>3 DEF SafeTarget

LEMMA LesserOf ==
    ASSUME NEW x \in Int, NEW y \in Int
    PROVE  Min({x, y}) \in {x, y} /\ Min({x, y}) <= x /\ Min({x, y}) <= y
<1>1. \E m \in {x, y} : \A n \in {x, y} : m <= n
  OBVIOUS
<1>2. QED
  BY <1>1 DEF Min

-----------------------------------------------------------------------------
(***************************************************************************)
(* What no step undoes.                                                    *)
(***************************************************************************)

\* Rows stay, and what is credited. Within a life of the node no block that has its
\* confirmations is dropped.
Kept ==
    /\ lives' \in Nat /\ lives <= lives'
    /\ \A t \in Transaction :
          /\ Credited(t) => Credited(t)'
          /\ Confirmed(t) =>
                /\ Confirmed(t)' /\ deposits'[t].user = deposits[t].user
                /\ deposits'[t].token = deposits[t].token
                /\ deposits'[t].amount = deposits[t].amount
    /\ chain' \in Seq(Transaction \cup {None})
    /\ lives' = lives =>
          /\ Len(chain) <= Len(chain')
          /\ \A n \in 1 .. Len(chain) - Confirmations : chain'[n] = chain[n]

LEMMA Lengths ==
    ASSUME NEW S, NEW q \in Seq(S)
    PROVE  Len(q) \in Nat /\ DOMAIN q = 1 .. Len(q) /\ \A i \in 1 .. Len(q) : q[i] \in S
OBVIOUS

LEMMA FinalStays ==
    ASSUME StoredTypes, Kept, lives' = lives, NEW t, Final(t)
    PROVE  Final(t)'
<1>1. PICK n \in 1 .. Len(chain) - Confirmations : chain[n] = t
  BY DEF Final
<1>2. Len(chain) \in Nat /\ Len(chain') \in Nat /\ Confirmations \in Nat
  BY Lengths, ChainAssumption DEF StoredTypes, Kept
<1>3. Len(chain) <= Len(chain') /\ chain'[n] = t
  BY <1>1 DEF Kept
<1>4. n \in 1 .. Len(chain') - Confirmations
  BY <1>1, <1>2, <1>3
<1>5. QED
  BY <1>3, <1>4 DEF Final

LEMMA PollStays ==
    ASSUME CreditsInv, Kept, NEW w, PollOK(w)
    PROVE  PollOK(w)'
<1>1. lives \in Nat /\ lives' \in Nat /\ lives <= lives' /\ w \in PollRecord
  BY DEF CreditsInv, StoredTypes, Kept, PollOK
<1>2. w.life <= lives' /\ (lives' = 0 => w.life = 0)
  BY <1>1 DEF PollOK, PollRecord
<1>3. ASSUME w.life = lives' PROVE w.head <= Len(chain') /\ (w.to = 0 \/ Mature(w.to)')
  <2>1. lives' = lives
    BY <1>1, <1>3 DEF PollOK, PollRecord
  <2>2. Len(chain) \in Nat /\ Len(chain') \in Nat /\ Confirmations \in Nat /\ Len(chain) <= Len(chain')
    BY <2>1, Lengths, ChainAssumption DEF CreditsInv, StoredTypes, Kept
  <2>3. w.head <= Len(chain) /\ (w.to = 0 \/ Mature(w.to))
    BY <1>3, <2>1 DEF PollOK
  <2>4. QED
    BY <1>1, <2>2, <2>3 DEF Mature, PollRecord
<1>4. ASSUME NEW l \in w.todo
      PROVE  l.index \in AskedLogs(l.tx) /\ (lives' = 0 => Final(l.tx)')
  <2>1. l.index \in AskedLogs(l.tx) /\ (lives = 0 => Final(l.tx))
    BY DEF PollOK
  <2>2. lives' = 0 => lives = 0 /\ lives' = lives
    BY <1>1
  <2>3. QED
    BY <2>1, <2>2, FinalStays DEF CreditsInv
<1>5. w.todo # {} => First(w.todo).tx \in Transaction
  BY <1>1, FirstIn DEF PollRecord, LogRef
<1>6. w.todo # {} <=> w.pc \in AtLog
  BY DEF PollOK
<1>7. w.pc \in {"crediting", "marking"} => Confirmed(First(w.todo).tx)'
  BY <1>5, <1>6 DEF PollOK, Kept, AtLog
<1>8. w.pc = "marking" => Credited(First(w.todo).tx)'
  BY <1>5, <1>6 DEF PollOK, Kept, AtLog
<1>9. QED
  BY <1>1, <1>2, <1>3, <1>4, <1>6, <1>7, <1>8 DEF PollOK

\* Only s takes a step of a poll.
LEMMA OnePollMoves ==
    ASSUME CreditsInv, Kept, NEW s \in Scanner, NEW w, work' = [work EXCEPT ![s] = w], PollOK(w)'
    PROVE  /\ \A r \in Scanner : PollOK(work[r])'
           /\ DOMAIN work' = Scanner
<1>1. DOMAIN work = Scanner /\ \A r \in Scanner : PollOK(work[r])
  BY DEF CreditsInv, StoredTypes
<1>2. ASSUME NEW r \in Scanner PROVE PollOK(work[r])'
  <2>1. PICK v : v = work'[r]
    OBVIOUS
  <2>2. v = IF r = s THEN w ELSE work[r]
    BY <1>1, <2>1
  <2>3. PollOK(v)'
    <3>1. CASE r = s
      BY <2>2, <3>1
    <3>2. CASE r # s
      <4>1. v = work[r] /\ PollOK(work[r])
        BY <1>1, <2>2, <3>2
      <4>2. PollOK(v)
        BY <4>1
      <4>3. QED
        BY <4>2, PollStays
    <3>3. QED
      BY <3>1, <3>2
  <2>4. QED
    BY <2>1, <2>3
<1>3. QED
  BY <1>1, <1>2

LEMMA PostingsStay ==
    ASSUME CreditsInv, Kept, UNCHANGED postings
    PROVE  PostingsOK'
BY DEF CreditsInv, PostingsOK, Kept, Repeats

\* Rows stay as they are, and what is true of them.
LEMMA RowStays ==
    ASSUME CreditsInv, Kept, NEW t \in Transaction, deposits'[t] = deposits[t]
    PROVE  RowOK(t)'
<1>1. lives \in Nat /\ lives' \in Nat /\ lives <= lives' /\ RowOK(t)
  BY DEF CreditsInv, StoredTypes, Kept
<1>2. Confirmed(t)' = Confirmed(t)
  BY DEF Confirmed
<1>3. ASSUME Confirmed(t), lives' = 0 PROVE Final(t)'
  <2>1. lives = 0 /\ lives' = lives
    BY <1>1, <1>3
  <2>2. Final(t)
    BY <1>1, <1>3, <2>1 DEF RowOK
  <2>3. QED
    BY <2>1, <2>2, FinalStays DEF CreditsInv
<1>4. Confirmed(t) => \E i \in DOMAIN Logs[t] : TellsOf(deposits'[t], Logs[t][i])
  BY <1>1 DEF RowOK
<1>5. Credited(t) => Credited(t)'
  BY DEF Kept
<1>6. QED
  BY <1>1, <1>2, <1>3, <1>4, <1>5 DEF RowOK

-----------------------------------------------------------------------------
(***************************************************************************)
(* The next step of a poll.                                                *)
(***************************************************************************)

LEMMA IdleOK ==
    ASSUME CreditsInv, Kept
    PROVE  PollOK(Idle)'
<1>1. lives' \in Nat /\ Len(chain') \in Nat
  BY Lengths DEF Kept
<1>2. Idle \in PollRecord
  BY DEF Idle, PollRecord, PollSteps
<1>3. QED
  BY <1>1, <1>2 DEF PollOK, Idle, AtLog

LEMMA MoveOK ==
    ASSUME CreditsInv, Kept, NEW w, PollOK(w), NEW step \in PollSteps,
           step \in AtLog <=> w.pc \in AtLog,
           step \in {"crediting", "marking"} => Confirmed(First(w.todo).tx)',
           step = "marking" => Credited(First(w.todo).tx)'
    PROVE  PollOK([w EXCEPT !.pc = step])'
<1>1. PICK v : v = [w EXCEPT !.pc = step]
  OBVIOUS
<1>2. /\ v \in PollRecord /\ v.pc = step /\ v.life = w.life /\ v.head = w.head
      /\ v.to = w.to /\ v.todo = w.todo
  BY <1>1 DEF PollOK, PollRecord
<1>3. PollOK(w)'
  BY PollStays
<1>4. PollOK(v)'
  BY <1>2, <1>3 DEF PollOK
<1>5. QED
  BY <1>1, <1>4

\* s goes on with these logs, all of them final; it may have noticed that the node was reset.
LEMMA WithTodoOK ==
    ASSUME CreditsInv, Kept, NEW s \in Scanner, NEW todo \in SUBSET LogRef,
           \A l \in todo : l.index \in AskedLogs(l.tx) /\ (lives' = 0 => Final(l.tx)'),
           NEW life \in {work[s].life, -1}, life = -1 => lives > 0 \/ life = work[s].life,
           NEW v, v = [WithTodo(s, todo) EXCEPT !.life = life]
    PROVE  PollOK(v)'
<1>1. PICK w : w = work[s]
  OBVIOUS
<1>2. PollOK(w) /\ PollOK(w)'
  BY <1>1, PollStays DEF CreditsInv
<1>3. w \in PollRecord /\ w.life \in Int /\ life \in Int
  BY <1>1, <1>2 DEF PollOK, PollRecord
<1>4. lives \in Nat /\ lives' \in Nat /\ lives <= lives' /\ Len(chain') \in Nat
  BY Lengths DEF CreditsInv, StoredTypes, Kept
<1>5. life <= lives' /\ (lives' = 0 => life = 0) /\ (life = lives' => w.life = lives')
  BY <1>1, <1>2, <1>3, <1>4 DEF PollOK
<1>6. CASE todo # {}
  <2>1. v = [w EXCEPT !.pc = "processing", !.todo = todo, !.life = life]
    BY <1>1, <1>3, <1>6 DEF WithTodo, PollRecord
  <2>2. /\ v \in PollRecord /\ v.pc = "processing" /\ v.life = life /\ v.head = w.head
        /\ v.to = w.to /\ v.todo = todo
    BY <1>3, <2>1 DEF PollRecord, PollSteps
  <2>3. PollOK(v)'
    BY <1>2, <1>5, <1>6, <2>2 DEF PollOK, AtLog
  <2>4. QED
    BY <2>3
<1>7. CASE todo = {} /\ ~w.tokens
  <2>1. v = [w EXCEPT !.pc = "scanning", !.todo = todo, !.tokens = TRUE, !.life = life]
    BY <1>1, <1>3, <1>7 DEF WithTodo, PollRecord
  <2>2. /\ v \in PollRecord /\ v.pc = "scanning" /\ v.life = life /\ v.head = w.head
        /\ v.to = w.to /\ v.todo = {}
    BY <1>3, <1>7, <2>1 DEF PollRecord, PollSteps
  <2>3. PollOK(v)'
    BY <1>2, <1>5, <2>2 DEF PollOK, AtLog
  <2>4. QED
    BY <2>3
<1>8. CASE todo = {} /\ w.tokens
  <2>1. v = [Idle EXCEPT !.pc = "ending", !.to = w.to, !.life = life]
    BY <1>1, <1>3, <1>8 DEF WithTodo, PollRecord, Idle
  <2>2. Idle \in PollRecord
    BY DEF Idle, PollRecord, PollSteps
  <2>3. v \in PollRecord /\ v.pc = "ending" /\ v.life = life /\ v.to = w.to
    BY <1>3, <2>1, <2>2 DEF PollRecord, PollSteps
  <2>4. v.head = 0 /\ v.todo = {}
    BY <2>1 DEF Idle
  <2>5. PollOK(v)'
    BY <1>2, <1>4, <1>5, <2>3, <2>4 DEF PollOK, AtLog
  <2>6. QED
    BY <2>5
<1>9. QED
  BY <1>6, <1>7, <1>8

LEMMA ProcessedOK ==
    ASSUME CreditsInv, Kept, NEW s \in Scanner, Processed(s)
    PROVE  /\ \A r \in Scanner : PollOK(work[r])'
           /\ DOMAIN work' = Scanner
<1>1. PICK w : w = work[s]
  OBVIOUS
<1>2. PollOK(w) /\ PollOK(w)' /\ w \in PollRecord
  BY <1>1, PollStays DEF CreditsInv, PollOK
<1>3. PICK todo : todo = work[s].todo \ {This(s)}
  OBVIOUS
<1>4. todo \in SUBSET LogRef
  BY <1>1, <1>2, <1>3 DEF PollRecord
<1>5. \A l \in todo : l.index \in AskedLogs(l.tx) /\ (lives' = 0 => Final(l.tx)')
  BY <1>1, <1>2, <1>3 DEF PollOK
<1>6. PICK v : v = WithTodo(s, todo)
  OBVIOUS
<1>7. w.life \in {work[s].life, -1} /\ (w.life = -1 => w.life = work[s].life)
  BY <1>1
<1>8. v = [WithTodo(s, todo) EXCEPT !.life = w.life]
  BY <1>1, <1>2, <1>6 DEF WithTodo, PollRecord, Idle
<1>9. PollOK(v)'
  BY <1>4, <1>5, <1>7, <1>8, WithTodoOK
<1>10. work' = [work EXCEPT ![s] = v]
  BY <1>3, <1>6 DEF Processed
<1>11. QED
  BY <1>9, <1>10, OnePollMoves

LEMMA AbortOK ==
    ASSUME CreditsInv, Kept, NEW s \in Scanner, Abort(s)
    PROVE  /\ \A r \in Scanner : PollOK(work[r])'
           /\ DOMAIN work' = Scanner
BY IdleOK, OnePollMoves DEF Abort

LEMMA GotoOK ==
    ASSUME CreditsInv, Kept, NEW s \in Scanner, NEW step \in PollSteps, Goto(s, step),
           step \in AtLog <=> work[s].pc \in AtLog,
           step \in {"crediting", "marking"} => \A t \in Transaction : t = ThisTx(s) => Confirmed(t)',
           step = "marking" => \A t \in Transaction : t = ThisTx(s) => Credited(t)'
    PROVE  /\ \A r \in Scanner : PollOK(work[r])'
           /\ DOMAIN work' = Scanner
<1>1. PICK w : w = work[s]
  OBVIOUS
<1>2. PollOK(w) /\ w \in PollRecord
  BY <1>1 DEF CreditsInv, PollOK
<1>3. PICK t : t = First(w.todo).tx
  OBVIOUS
<1>4. t = ThisTx(s)
  BY <1>1, <1>3 DEF ThisTx, This
<1>5. w.pc \in AtLog => t \in Transaction
  BY <1>2, <1>3, FirstIn DEF PollOK, PollRecord, LogRef
<1>6. step \in {"crediting", "marking"} => Confirmed(t)'
  BY <1>1, <1>4, <1>5 DEF AtLog
<1>7. step = "marking" => Credited(t)'
  BY <1>1, <1>4, <1>5 DEF AtLog
<1>8. PICK v : v = [w EXCEPT !.pc = step]
  OBVIOUS
<1>9. PollOK(v)'
  BY <1>1, <1>2, <1>3, <1>6, <1>7, <1>8, MoveOK
<1>10. work' = [work EXCEPT ![s] = v]
  BY <1>1, <1>2, <1>8 DEF Goto, PollRecord
<1>11. QED
  BY <1>9, <1>10, OnePollMoves

-----------------------------------------------------------------------------
(***************************************************************************)
(* The steps of an instance that change nothing but the cursor.            *)
(***************************************************************************)

LEMMA QuietKept ==
    ASSUME CreditsInv, UNCHANGED <<postings, deposits, chain, lives>>
    PROVE  Kept
<1>1. lives \in Nat /\ chain \in Seq(Transaction \cup {None}) /\ Len(chain) \in Nat
  BY Lengths DEF CreditsInv, StoredTypes
<1>2. \A t \in Transaction : Credited(t)' = Credited(t) /\ Confirmed(t)' = Confirmed(t)
  BY DEF Credited, Confirmed, Accounts!IsPosted
<1>3. QED
  BY <1>1, <1>2 DEF Kept

LEMMA QuietStep ==
    ASSUME CreditsInv, UNCHANGED <<balances, postings, deposits, chain, lives>>,
           \A r \in Scanner : PollOK(work[r])', DOMAIN work' = Scanner,
           scannerState' \in [block : Nat \cup {-1}, life : Int], CursorOK'
    PROVE  CreditsInv'
<1>1. Kept
  BY QuietKept
<1>2. StoredTypes'
  BY DEF CreditsInv, StoredTypes
<1>3. PostingsOK' /\ \A t \in Transaction : RowOK(t)'
  BY <1>1, PostingsStay, RowStays
<1>4. QED
  BY <1>2, <1>3 DEF CreditsInv

LEMMA SameCursor ==
    ASSUME CreditsInv, UNCHANGED <<scannerState, chain, lives>>
    PROVE  scannerState' \in [block : Nat \cup {-1}, life : Int] /\ CursorOK'
BY DEF CreditsInv, StoredTypes, CursorOK, Mature

\* The blocks a poll goes on to scan have their confirmations.
LEMMA ScanAfterOK ==
    ASSUME CreditsInv, Kept, NEW s \in Scanner, work[s].pc \notin AtLog,
           NEW last \in Nat \cup {-1}, NEW life \in {work[s].life, -1},
           life = -1 => lives > 0 \/ life = work[s].life, UNCHANGED <<chain, lives>>,
           ScanAfter(s, last, life)
    PROVE  /\ \A r \in Scanner : PollOK(work[r])'
           /\ DOMAIN work' = Scanner
<1>1. PICK w : w = work[s]
  OBVIOUS
<1>2. PollOK(w) /\ w \in PollRecord /\ w.life \in Int /\ life \in Int /\ w.head \in Nat
  BY <1>1 DEF CreditsInv, PollOK, PollRecord
<1>3. PICK safe : safe = SafeTarget(w.head)
  OBVIOUS
<1>4. safe \in Nat /\ (safe = 0 \/ safe <= w.head - Confirmations)
  BY <1>2, <1>3, SafeTargetBound
<1>5. CASE ~(last + 1 <= safe)
  BY <1>1, <1>3, <1>5, AbortOK DEF ScanAfter
<1>6. CASE last + 1 <= safe
  <2>1. PICK to : to = Min({(last + 1) + MaxBlockRange - 1, safe})
    OBVIOUS
  <2>2. MaxBlockRange \in Nat \ {0} /\ Confirmations \in Nat
    BY ChainAssumption
  <2>3. to \in Nat /\ to <= safe
    <3>1. PICK x \in Int : x = (last + 1) + MaxBlockRange - 1
      BY <2>2
    <3>2. x >= 0
      BY <2>2, <3>1
    <3>3. to = Min({x, safe})
      BY <2>1, <3>1
    <3>4. x \in Int /\ safe \in Int
      BY <1>4
    <3>5. to \in {x, safe} /\ to <= safe
      BY <3>3, <3>4, LesserOf
    <3>6. QED
      BY <1>4, <3>2, <3>5
  <2>4. PICK v : v = [Idle EXCEPT !.pc = "scanning", !.from = last + 1, !.to = to, !.life = life]
    OBVIOUS
  <2>5. work' = [work EXCEPT ![s] = v]
    BY <1>1, <1>3, <1>6, <2>1, <2>4 DEF ScanAfter
  <2>6. Idle \in PollRecord
    BY DEF Idle, PollRecord, PollSteps
  <2>7. v \in PollRecord /\ v.pc = "scanning" /\ v.life = life /\ v.to = to
    <3>1. last + 1 \in Nat /\ life \in Int /\ to \in Nat /\ "scanning" \in PollSteps
      BY <1>2, <2>3 DEF PollSteps
    <3>2. QED
      BY <2>4, <2>6, <3>1 DEF PollRecord
  <2>8. v.head = 0 /\ v.todo = {}
    BY <2>4 DEF Idle
  <2>9. lives \in Nat /\ Len(chain) \in Nat
    BY Lengths DEF CreditsInv, StoredTypes
  <2>10. life <= lives /\ (lives = 0 => life = 0)
    BY <1>1, <1>2, <2>9 DEF PollOK
  <2>11. life = lives => to = 0 \/ Mature(to)
    <3>1. life = lives => w.head <= Len(chain)
      BY <1>1, <1>2, <2>9 DEF PollOK
    <3>2. QED
      BY <1>2, <1>4, <2>2, <2>3, <2>9, <3>1 DEF Mature
  <2>12. PollOK(v)
    BY <2>7, <2>8, <2>9, <2>10, <2>11 DEF PollOK, AtLog
  <2>13. PollOK(v)'
    BY <2>12, PollStays
  <2>14. QED
    BY <2>5, <2>13, OnePollMoves
<1>7. QED
  BY <1>5, <1>6

LEMMA PollStep ==
    ASSUME CreditsInv, NEW s \in Scanner, Poll(s)
    PROVE  CreditsInv'
<1>1. UNCHANGED <<balances, postings, deposits, scannerState, chain, lives>>
  BY DEF Poll
<1>2. PICK v : v = [Idle EXCEPT !.pc = "polled", !.life = lives, !.head = Len(chain)]
  OBVIOUS
<1>3. work' = [work EXCEPT ![s] = v]
  BY <1>2 DEF Poll
<1>4. lives \in Nat /\ Len(chain) \in Nat
  BY Lengths DEF CreditsInv, StoredTypes
<1>5. Idle \in PollRecord
  BY DEF Idle, PollRecord, PollSteps
<1>6. v \in PollRecord /\ v.pc = "polled" /\ v.life = lives /\ v.head = Len(chain)
  <2>1. lives \in Int /\ "polled" \in PollSteps
    BY <1>4 DEF PollSteps
  <2>2. QED
    BY <1>2, <1>4, <1>5, <2>1 DEF PollRecord
<1>7. v.to = 0 /\ v.todo = {}
  BY <1>2 DEF Idle
<1>8. PollOK(v)
  BY <1>4, <1>6, <1>7 DEF PollOK, AtLog
<1>9. Kept
  BY <1>1, QuietKept
<1>10. QED
  BY <1>1, <1>3, <1>8, <1>9, PollStays, OnePollMoves, QuietStep, SameCursor

LEMMA ReadCursorStep ==
    ASSUME CreditsInv, NEW s \in Scanner, ReadCursor(s)
    PROVE  CreditsInv'
<1>1. UNCHANGED <<balances, postings, deposits, scannerState, chain, lives>> /\ work[s].pc = "polled"
  BY DEF ReadCursor
<1>2. Kept
  BY <1>1, QuietKept
<1>3. SUFFICES (\A r \in Scanner : PollOK(work[r])') /\ DOMAIN work' = Scanner
  BY <1>1, QuietStep, SameCursor
<1>4. CASE Goto(s, "starting_over")
  BY <1>1, <1>2, <1>4, GotoOK DEF PollSteps, AtLog
<1>5. CASE ScanAfter(s, scannerState.block,
               IF scannerState.block = -1 \/ scannerState.life = work[s].life
               THEN work[s].life ELSE -1)
  <2>1. PICK life : life = IF scannerState.block = -1 \/ scannerState.life = work[s].life
                           THEN work[s].life ELSE -1
    OBVIOUS
  <2>2. /\ scannerState.block \in Nat \cup {-1} /\ lives \in Nat
        /\ lives = 0 => scannerState.life = 0 /\ work[s].life = 0
    BY DEF CreditsInv, StoredTypes, CursorOK, PollOK
  <2>3. life \in {work[s].life, -1} /\ (life = -1 => lives > 0 \/ life = work[s].life)
    BY <2>1, <2>2
  <2>4. ScanAfter(s, scannerState.block, life)
    BY <1>5, <2>1
  <2>5. QED
    BY <1>1, <1>2, <2>2, <2>3, <2>4, ScanAfterOK DEF AtLog
<1>6. QED
  BY <1>4, <1>5 DEF ReadCursor

LEMMA StartOverStep ==
    ASSUME CreditsInv, NEW s \in Scanner, StartOver(s)
    PROVE  CreditsInv'
<1>1. UNCHANGED <<balances, postings, deposits, chain, lives>> /\ work[s].pc = "starting_over"
  BY DEF StartOver
<1>2. Kept
  BY <1>1, QuietKept
<1>3. CASE scannerState' = [block |-> 0, life |-> work[s].life] /\ ScanAfter(s, 0, work[s].life)
  <2>1. work[s].life \in Int /\ work[s].life <= lives /\ (lives = 0 => work[s].life = 0)
    BY DEF CreditsInv, PollOK, PollRecord
  <2>2. scannerState' \in [block : Nat \cup {-1}, life : Int] /\ CursorOK'
    BY <1>1, <1>3, <2>1 DEF CursorOK
  <2>3. (\A r \in Scanner : PollOK(work[r])') /\ DOMAIN work' = Scanner
    <3>1. PICK life : life = work[s].life
      OBVIOUS
    <3>2. ScanAfter(s, 0, life)
      BY <1>3, <3>1
    <3>3. QED
      BY <1>1, <1>2, <3>1, <3>2, ScanAfterOK DEF AtLog
  <2>4. QED
    BY <1>1, <2>2, <2>3, QuietStep
<1>4. CASE Failed(s, "cursor") /\ UNCHANGED scannerState
  BY <1>1, <1>2, <1>4, AbortOK, SameCursor, QuietStep DEF Failed
<1>5. QED
  BY <1>3, <1>4 DEF StartOver

LEMMA WriteCursorStep ==
    ASSUME CreditsInv, NEW s \in Scanner, WriteCursor(s)
    PROVE  CreditsInv'
<1>1. /\ UNCHANGED <<balances, postings, deposits, chain, lives>> /\ Abort(s)
      /\ scannerState' \in {scannerState, [block |-> work[s].to, life |-> work[s].life]}
  BY DEF WriteCursor
<1>2. Kept
  BY <1>1, QuietKept
<1>3. CASE scannerState' = scannerState
  BY <1>1, <1>2, <1>3, AbortOK, SameCursor, QuietStep
<1>4. CASE scannerState' = [block |-> work[s].to, life |-> work[s].life]
  <2>1. /\ work[s].life \in Int /\ work[s].to \in Nat /\ work[s].life <= lives
        /\ lives = 0 => work[s].life = 0
        /\ work[s].life = lives => work[s].to = 0 \/ Mature(work[s].to)
    BY DEF CreditsInv, PollOK, PollRecord
  <2>2. scannerState' \in [block : Nat \cup {-1}, life : Int] /\ CursorOK'
    BY <1>1, <1>4, <2>1 DEF CursorOK, Mature
  <2>3. QED
    BY <1>1, <1>2, <2>2, AbortOK, QuietStep
<1>5. QED
  BY <1>1, <1>3, <1>4

LEMMA GetLogsStep ==
    ASSUME CreditsInv, NEW s \in Scanner, GetLogs(s)
    PROVE  CreditsInv'
<1>1. UNCHANGED <<balances, postings, deposits, scannerState, chain, lives>> /\ work[s].pc = "scanning"
  BY DEF GetLogs
<1>2. Kept
  BY <1>1, QuietKept
<1>3. SUFFICES (\A r \in Scanner : PollOK(work[r])') /\ DOMAIN work' = Scanner
  BY <1>1, QuietStep, SameCursor
<1>4. CASE Failed(s, "logs")
  BY <1>2, <1>4, AbortOK DEF Failed
<1>5. ASSUME ~Failed(s, "logs")
      PROVE  (\A r \in Scanner : PollOK(work[r])') /\ DOMAIN work' = Scanner
  <2>1. PICK w : w = work[s]
    OBVIOUS
  <2>2. PICK logs : logs = UNION {LogsOf(n, w.tokens) :
                         n \in {n \in DOMAIN chain : n \in w.from .. w.to /\ chain[n] # None}}
    OBVIOUS
  <2>3. PICK life : life = StillIn(w.life)
    OBVIOUS
  <2>4. PollOK(w) /\ w \in PollRecord /\ w.life \in Int /\ w.from \in Nat /\ w.to \in Nat
    BY <2>1 DEF CreditsInv, PollOK, PollRecord
  <2>5. lives \in Nat /\ Len(chain) \in Nat /\ DOMAIN chain = 1 .. Len(chain) /\ Confirmations \in Nat
        /\ \A n \in 1 .. Len(chain) : chain[n] \in Transaction \cup {None}
    BY Lengths, ChainAssumption DEF CreditsInv, StoredTypes
  <2>6. ASSUME NEW l \in logs
        PROVE  l \in LogRef /\ l.index \in AskedLogs(l.tx) /\ (lives' = 0 => Final(l.tx)')
    <3>1. PICK n \in DOMAIN chain : n \in w.from .. w.to /\ chain[n] # None /\ l \in LogsOf(n, w.tokens)
      BY <2>2
    <3>2. PICK i \in AskedLogs(chain[n]) : l = [block |-> n, tx |-> chain[n], index |-> i]
      BY <3>1 DEF LogsOf
    <3>3. chain[n] \in Transaction /\ n \in 1 .. Len(chain) /\ n <= w.to
      BY <2>4, <2>5, <3>1
    <3>4. DOMAIN Logs[chain[n]] \subseteq Nat
      BY <3>3, Lengths, ChainAssumption
    <3>5. l \in LogRef /\ l.index \in AskedLogs(l.tx)
      BY <3>2, <3>3, <3>4 DEF LogRef, AskedLogs
    <3>6. ASSUME lives = 0 PROVE Final(l.tx)
      <4>1. w.to = 0 \/ w.to <= Len(chain) - Confirmations
        BY <2>4, <3>6 DEF PollOK, Mature
      <4>2. n \in 1 .. Len(chain) - Confirmations
        BY <2>4, <2>5, <3>3, <4>1
      <4>3. QED
        BY <3>2, <4>2 DEF Final
    <3>7. QED
      BY <1>1, <1>2, <3>5, <3>6, FinalStays DEF CreditsInv
  <2>7. life \in {work[s].life, -1} /\ (life = -1 => lives > 0 \/ life = work[s].life)
    BY <2>1, <2>3, <2>4, <2>5 DEF StillIn, PollOK
  <2>8. PICK v : v = [WithTodo(s, logs) EXCEPT !.life = life]
    OBVIOUS
  <2>9. work' = [work EXCEPT ![s] = v]
    <3>1. work' = [work EXCEPT ![s] = [WithTodo(s, logs) EXCEPT !.life = StillIn(@)]]
      BY <1>5, <2>1, <2>2 DEF GetLogs
    <3>2. WithTodo(s, logs).life = w.life /\ DOMAIN WithTodo(s, logs) = DOMAIN w
      BY <2>1, <2>4 DEF WithTodo, PollRecord, Idle
    <3>3. QED
      BY <2>3, <2>8, <3>1, <3>2
  <2>10. PollOK(v)'
    BY <1>2, <2>6, <2>7, <2>8, WithTodoOK
  <2>11. QED
    BY <1>2, <2>9, <2>10, OnePollMoves
<1>6. QED
  BY <1>4, <1>5

\* What the table says of this transaction decides what s does next.
LEMMA LookStep ==
    ASSUME CreditsInv, NEW s \in Scanner, Look(s)
    PROVE  CreditsInv'
<1>1. UNCHANGED <<balances, postings, deposits, scannerState, chain, lives>> /\ work[s].pc = "processing"
  BY DEF Look
<1>2. Kept
  BY <1>1, QuietKept
<1>3. SUFFICES (\A r \in Scanner : PollOK(work[r])') /\ DOMAIN work' = Scanner
  BY <1>1, QuietStep, SameCursor
<1>4. CASE Goto(s, "recording")
  BY <1>1, <1>2, <1>4, GotoOK DEF PollSteps, AtLog
<1>5. CASE deposits[ThisTx(s)].status = "CONFIRMED" /\ Goto(s, "crediting")
  <2>1. \A t \in Transaction : t = ThisTx(s) => Confirmed(t)'
    BY <1>1, <1>5 DEF Confirmed
  <2>2. QED
    BY <1>1, <1>2, <1>5, <2>1, GotoOK DEF PollSteps, AtLog
<1>6. CASE Processed(s)
  BY <1>2, <1>6, ProcessedOK
<1>7. QED
  BY <1>4, <1>5, <1>6 DEF Look

LEMMA CrashStep ==
    ASSUME CreditsInv, NEW s \in Scanner, Crash(s)
    PROVE  CreditsInv'
<1>1. UNCHANGED <<balances, postings, deposits, scannerState, chain, lives>> /\ Abort(s)
  BY DEF Crash
<1>2. QED
  BY <1>1, QuietKept, AbortOK, SameCursor, QuietStep

-----------------------------------------------------------------------------
(***************************************************************************)
(* The steps that record and credit a deposit.                             *)
(***************************************************************************)

\* The transaction of the log s is at.
LEMMA AtTransaction ==
    ASSUME CreditsInv, NEW s \in Scanner, work[s].pc \in AtLog
    PROVE  /\ This(s) \in work[s].todo /\ ThisTx(s) \in Transaction
           /\ This(s).index \in AskedLogs(ThisTx(s))
           /\ lives = 0 => Final(ThisTx(s))
           /\ work[s].pc \in {"crediting", "marking"} => Confirmed(ThisTx(s))
           /\ work[s].pc = "marking" => Credited(ThisTx(s))
<1>1. PICK w : w = work[s]
  OBVIOUS
<1>2. PollOK(w) /\ w \in PollRecord /\ w.todo \in SUBSET LogRef /\ w.todo # {}
  BY <1>1 DEF CreditsInv, PollOK, PollRecord
<1>3. PICK l : l = First(w.todo)
  OBVIOUS
<1>4. l \in w.todo /\ l \in LogRef
  BY <1>2, <1>3, FirstIn
<1>5. This(s) = l /\ ThisTx(s) = l.tx
  BY <1>1, <1>3 DEF This, ThisTx
<1>6. QED
  BY <1>1, <1>2, <1>3, <1>4, <1>5 DEF PollOK, LogRef

LEMMA ConfirmedIsRow ==
    ASSUME StoredTypes, NEW t \in Transaction
    PROVE  /\ deposits[t] \in DepositRow \cup {NoRow}
           /\ Confirmed(t) => deposits[t] \in DepositRow
BY DEF StoredTypes, Confirmed, NoRow, None

LEMMA RowOfType ==
    ASSUME NEW l \in [event : STRING, user : Depositor, token : STRING, amount : Nat]
    PROVE  /\ RowOf(l) \in DepositRow
           /\ RowOf(l).status # "CREDITED"
           /\ RowOf(l).status = "CONFIRMED" => TellsOf(RowOf(l), l)
<1>1. CASE l.token \notin DOMAIN UnitsPerCoin
  BY <1>1 DEF RowOf, DepositRow
<1>2. CASE l.token \in DOMAIN UnitsPerCoin
  <2>1. PICK n : n = Scaled(l)
    OBVIOUS
  <2>2. n \in Nat
    <3>1. UnitsPerCoin[l.token] \in Nat \ {0} /\ l.amount \in Nat
      BY <1>2, ChainAssumption
    <3>2. QED
      BY <2>1, <3>1 DEF Scaled
  <2>3. RowOf(l) = [status |-> IF n = 0 THEN "REJECTED_BELOW_MINIMUM" ELSE "CONFIRMED",
                    user |-> l.user, token |-> l.token, amount |-> n]
    BY <1>2, <2>1 DEF RowOf
  <2>4. QED
    BY <1>2, <2>1, <2>2, <2>3 DEF DepositRow, TellsOf
<1>3. QED
  BY <1>1, <1>2

LEMMA LogType ==
    ASSUME NEW t \in Transaction, NEW i \in DOMAIN Logs[t]
    PROVE  i \in Nat /\ Logs[t][i] \in [event : STRING, user : Depositor, token : STRING, amount : Nat]
<1> DEFINE Log == [event : STRING, user : Depositor, token : STRING, amount : Nat]
<1>1. Logs[t] \in Seq(Log)
  BY ChainAssumption
<1> HIDE DEF Log
<1>2. i \in Nat /\ Logs[t][i] \in Log
  BY <1>1, Lengths
<1>3. QED
  BY <1>2 DEF Log

\* A row is inserted, with what one of the logs of its transaction tells.
LEMMA Inserted ==
    ASSUME CreditsInv, NEW t \in Transaction, deposits[t] = NoRow, NEW i \in DOMAIN Logs[t],
           lives = 0 => Final(t), deposits' = [deposits EXCEPT ![t] = RowOf(Logs[t][i])],
           UNCHANGED <<postings, chain, lives>>
    PROVE  /\ Kept /\ deposits' \in [Transaction -> DepositRow \cup {NoRow}]
           /\ deposits'[t] = RowOf(Logs[t][i])
           /\ \A u \in Transaction : RowOK(u)'
<1>1. PICK r : r = RowOf(Logs[t][i])
  OBVIOUS
<1>2. r \in DepositRow /\ r.status # "CREDITED" /\ (r.status = "CONFIRMED" => TellsOf(r, Logs[t][i]))
  BY <1>1, LogType, RowOfType
<1>3. deposits \in [Transaction -> DepositRow \cup {NoRow}]
  BY DEF CreditsInv, StoredTypes
<1>4. /\ deposits' \in [Transaction -> DepositRow \cup {NoRow}] /\ deposits'[t] = r
      /\ \A u \in Transaction : u # t => deposits'[u] = deposits[u]
  BY <1>1, <1>2, <1>3
<1>5. ~Confirmed(t)
  BY DEF Confirmed, NoRow, None
<1>6. Kept
  <2>1. \A u \in Transaction : Credited(u)' = Credited(u)
    BY DEF Credited, Accounts!IsPosted
  <2>2. \A u \in Transaction : Confirmed(u) => Confirmed(u)' /\ deposits'[u] = deposits[u]
    BY <1>4, <1>5 DEF Confirmed
  <2>3. lives \in Nat /\ chain \in Seq(Transaction \cup {None}) /\ Len(chain) \in Nat
    BY Lengths DEF CreditsInv, StoredTypes
  <2>4. QED
    BY <2>1, <2>2, <2>3 DEF Kept
<1>7. RowOK(t)'
  <2>1. ASSUME Confirmed(t)' PROVE r.status = "CONFIRMED"
    BY <1>2, <1>4, <2>1 DEF Confirmed
  <2>2. lives' = 0 => Final(t)'
    BY <1>6, FinalStays DEF CreditsInv
  <2>3. QED
    BY <1>2, <1>4, <2>1, <2>2 DEF RowOK
<1>8. \A u \in Transaction : u # t => RowOK(u)'
  BY <1>4, <1>6, RowStays
<1>9. QED
  BY <1>1, <1>4, <1>6, <1>7, <1>8

LEMMA RecordStep ==
    ASSUME CreditsInv, NEW s \in Scanner, Record(s)
    PROVE  CreditsInv'
<1>1. UNCHANGED <<balances, postings, scannerState, chain, lives>> /\ work[s].pc = "recording"
  BY DEF Record
<1>2. PICK t \in Transaction : t = ThisTx(s)
  BY <1>1, AtTransaction DEF AtLog
<1>3. PICK i \in DOMAIN Logs[t] : i = This(s).index /\ t = ThisTx(s) /\ (lives = 0 => Final(t))
  BY <1>1, <1>2, AtTransaction DEF AtLog, AskedLogs
<1>4. PICK r : r = RowOf(Logs[t][i])
  OBVIOUS
<1>5. RowOf(ThisLog(s)) = r
  BY <1>3, <1>4 DEF ThisLog
<1>6. CASE UNCHANGED deposits /\ Abort(s)
  BY <1>1, <1>6, QuietKept, AbortOK, QuietStep, SameCursor
<1>7. ASSUME deposits[t] = NoRow, deposits' = [deposits EXCEPT ![t] = r],
             Abort(s) \/ (IF r.status = "CONFIRMED" THEN Goto(s, "crediting") ELSE Processed(s))
      PROVE  CreditsInv'
  <2>1. /\ Kept /\ deposits' \in [Transaction -> DepositRow \cup {NoRow}] /\ deposits'[t] = r
        /\ \A u \in Transaction : RowOK(u)'
    BY <1>1, <1>3, <1>4, <1>7, Inserted
  <2>2. (\A q \in Scanner : PollOK(work[q])') /\ DOMAIN work' = Scanner
    <3>1. CASE Abort(s)
      BY <2>1, <3>1, AbortOK
    <3>2. CASE r.status = "CONFIRMED" /\ Goto(s, "crediting")
      <4>1. Confirmed(t)'
        BY <2>1, <3>2 DEF Confirmed
      <4>2. \A u \in Transaction : u = ThisTx(s) => Confirmed(u)'
        BY <1>3, <4>1
      <4>3. QED
        BY <1>1, <2>1, <3>2, <4>2, GotoOK DEF PollSteps, AtLog
    <3>3. CASE Processed(s)
      BY <2>1, <3>3, ProcessedOK
    <3>4. QED
      BY <1>7, <3>1, <3>2, <3>3
  <2>3. StoredTypes'
    BY <1>1, <2>1, <2>2 DEF CreditsInv, StoredTypes
  <2>4. CursorOK'
    BY <1>1, SameCursor
  <2>5. PostingsOK'
    BY <1>1, <2>1, PostingsStay
  <2>6. QED
    BY <2>1, <2>2, <2>3, <2>4, <2>5 DEF CreditsInv
<1>8. QED
  BY <1>3, <1>5, <1>6, <1>7 DEF Record, Failed

\* The accounts service appends to the account of the row an entry that repeats it.
LEMMA CreditAppends ==
    ASSUME StoredTypes, NEW t \in Transaction, deposits[t] \in DepositRow,
           deposits[t].token \in DOMAIN UnitsPerCoin, Accounts!Post(CreditCall(t))
    PROVE  /\ balances' \in [DepositAccount -> [exists : BOOLEAN, avail : Int, locked : Int]]
           /\ \E a \in DepositAccount, e \in Posting :
                 /\ a = <<deposits[t].user, deposits[t].token>>
                 /\ e.key = CreditKey(t) /\ e.amount = deposits[t].amount
                 /\ postings' = [postings EXCEPT ![a] = Append(@, e)]
<1>1. PICK r : r = CreditCall(t)
  OBVIOUS
<1>2. PICK a : a = r.acct
  OBVIOUS
<1>3. /\ r.op = "ON_CHAIN_DEPOSIT" /\ r.key = CreditKey(t) /\ r.amount = deposits[t].amount
      /\ a = <<deposits[t].user, deposits[t].token>>
  BY <1>1, <1>2 DEF CreditCall
<1>4. a \in DepositAccount /\ r.amount \in Nat
  BY <1>3 DEF DepositAccount, DepositRow
<1>5. balances[a] \in [exists : BOOLEAN, avail : Int, locked : Int] /\ balances[a].avail \in Int
      /\ balances[a].locked \in Int
  BY <1>4 DEF StoredTypes
<1>6. PICK e : e = Accounts!EntryFor(r, balances[a])
  OBVIOUS
<1>7. e = [op |-> "ON_CHAIN_DEPOSIT", key |-> CreditKey(t), amount |-> r.amount,
           dAvail |-> r.amount, dLocked |-> 0,
           avail |-> balances[a].avail + r.amount, locked |-> balances[a].locked + 0]
  BY <1>3, <1>6 DEF Accounts!EntryFor
<1>8. e \in Posting /\ e.key = CreditKey(t) /\ e.amount = r.amount /\ e.avail \in Int /\ e.locked \in Int
  BY <1>4, <1>5, <1>7 DEF Posting
<1>9. /\ balances' = [balances EXCEPT ![a] = [exists |-> TRUE, avail |-> e.avail, locked |-> e.locked]]
      /\ postings' = [postings EXCEPT ![a] = Append(@, e)]
  BY <1>1, <1>2, <1>6 DEF Accounts!Post
<1>10. balances' \in [DepositAccount -> [exists : BOOLEAN, avail : Int, locked : Int]]
  BY <1>4, <1>8, <1>9 DEF StoredTypes
<1>11. QED
  BY <1>3, <1>4, <1>8, <1>9, <1>10

\* What is credited stays so, the new entry repeats the row of t, and t is credited.
LEMMA CreditKeeps ==
    ASSUME CreditsInv, NEW t \in Transaction, Confirmed(t), Accounts!Post(CreditCall(t)),
           UNCHANGED <<deposits, scannerState, chain, lives>>,
           DOMAIN work' = Scanner
    PROVE  /\ Kept /\ Credited(t)' /\ StoredTypes' /\ CursorOK' /\ PostingsOK'
           /\ \A u \in Transaction : RowOK(u)'
<1>1. /\ StoredTypes /\ PostingsOK /\ postings \in [DepositAccount -> Seq(Posting)]
      /\ lives \in Nat /\ chain \in Seq(Transaction \cup {None}) /\ Len(chain) \in Nat
  BY Lengths DEF CreditsInv, StoredTypes
<1>2. deposits[t] \in DepositRow /\ deposits[t].token \in DOMAIN UnitsPerCoin
  BY <1>1, ConfirmedIsRow DEF CreditsInv, RowOK, TellsOf
<1>3. balances' \in [DepositAccount -> [exists : BOOLEAN, avail : Int, locked : Int]]
  BY <1>1, <1>2, CreditAppends
<1>4. PICK a \in DepositAccount, e \in Posting :
         /\ a = <<deposits[t].user, deposits[t].token>>
         /\ e.key = CreditKey(t) /\ e.amount = deposits[t].amount
         /\ postings' = [postings EXCEPT ![a] = Append(@, e)]
  BY <1>1, <1>2, CreditAppends
<1>5. /\ postings[a] \in Seq(Posting) /\ Len(postings[a]) \in Nat
      /\ DOMAIN postings[a] = 1 .. Len(postings[a])
  BY <1>1, Lengths
<1>6. PICK long : long = Append(postings[a], e)
  OBVIOUS
<1>7. /\ long \in Seq(Posting) /\ DOMAIN long = 1 .. Len(postings[a]) + 1
      /\ long[Len(postings[a]) + 1] = e
      /\ \A i \in 1 .. Len(postings[a]) : long[i] = postings[a][i]
  BY <1>5, <1>6
<1>8. /\ postings' \in [DepositAccount -> Seq(Posting)] /\ postings'[a] = long
      /\ \A b \in DepositAccount : b # a => postings'[b] = postings[b]
  BY <1>1, <1>4, <1>6, <1>7
<1>9. \A b \in DepositAccount : \A i \in DOMAIN postings[b] :
          i \in DOMAIN postings'[b] /\ postings'[b][i] = postings[b][i]
  BY <1>5, <1>7, <1>8
<1>10. \A b \in DepositAccount : \A i \in DOMAIN postings'[b] :
          \/ i \in DOMAIN postings[b] /\ postings'[b][i] = postings[b][i]
          \/ b = a /\ postings'[b][i] = e
  BY <1>5, <1>7, <1>8
<1>11. \A u \in Transaction : Credited(u) => Credited(u)'
  <2>1. ASSUME NEW u \in Transaction, Credited(u) PROVE Credited(u)'
    <3>1. PICK b \in DepositAccount : \E i \in DOMAIN postings[b] : postings[b][i].key = CreditKey(u)
      BY <2>1 DEF Credited, Accounts!IsPosted, DepositAccount
    <3>2. PICK i \in DOMAIN postings[b] : postings[b][i].key = CreditKey(u)
      BY <3>1
    <3>3. i \in DOMAIN postings'[b] /\ postings'[b][i].key = CreditKey(u)
      BY <1>9, <3>2
    <3>4. QED
      BY <3>3 DEF Credited, Accounts!IsPosted, DepositAccount, CreditKey
  <2>2. QED
    BY <2>1
<1>12. Credited(t)'
  <2>1. Len(postings[a]) + 1 \in DOMAIN postings'[a] /\ postings'[a][Len(postings[a]) + 1].key = CreditKey(t)
    BY <1>4, <1>5, <1>7, <1>8
  <2>2. QED
    BY <2>1 DEF Credited, Accounts!IsPosted, DepositAccount, CreditKey
<1>13. \A u \in Transaction : Confirmed(u)' = Confirmed(u)
  BY DEF Confirmed
<1>14. Kept
  BY <1>1, <1>11, <1>13 DEF Kept
<1>15. StoredTypes'
  BY <1>1, <1>3, <1>8 DEF StoredTypes
<1>16. PostingsOK'
  <2>1. ASSUME NEW b \in DepositAccount, NEW i \in DOMAIN postings'[b]
        PROVE  \E u \in Transaction : Repeats(postings[b][i], b, u)'
    <3>1. PICK f : f = postings'[b][i]
      OBVIOUS
    <3>2. PICK u \in Transaction : Repeats(f, b, u)
      <4>1. CASE i \in DOMAIN postings[b] /\ f = postings[b][i]
        BY <1>1, <4>1 DEF PostingsOK
      <4>2. CASE b = a /\ f = e
        BY <1>4, <4>2 DEF Repeats
      <4>3. QED
        BY <1>10, <3>1, <4>1, <4>2
    <3>3. Repeats(f, b, u)'
      BY <3>2 DEF Repeats, Confirmed
    <3>4. QED
      BY <3>1, <3>3
  <2>2. QED
    BY <2>1 DEF PostingsOK
<1>17. CursorOK'
  BY SameCursor
<1>18. \A u \in Transaction : RowOK(u)'
  BY <1>14, RowStays
<1>19. QED
  BY <1>12, <1>14, <1>15, <1>16, <1>17, <1>18

LEMMA CreditStep ==
    ASSUME CreditsInv, NEW s \in Scanner, Credit(s)
    PROVE  CreditsInv'
<1>1. UNCHANGED <<deposits, scannerState, chain, lives>> /\ work[s].pc = "crediting"
  BY DEF Credit
<1>2. PICK t \in Transaction : t = ThisTx(s)
  BY <1>1, AtTransaction DEF AtLog
<1>3. Confirmed(t)
  BY <1>1, <1>2, AtTransaction DEF AtLog
<1>4. CASE UNCHANGED <<balances, postings>>
  <2>1. Kept
    BY <1>1, <1>4, QuietKept
  <2>2. ASSUME Goto(s, "marking"), Credited(t)
        PROVE  (\A r \in Scanner : PollOK(work[r])') /\ DOMAIN work' = Scanner
    <3>1. \A u \in Transaction : u = ThisTx(s) => Confirmed(u)' /\ Credited(u)'
      BY <1>2, <1>3, <2>1, <2>2 DEF Kept
    <3>2. QED
      BY <1>1, <2>1, <2>2, <3>1, GotoOK DEF PollSteps, AtLog
  <2>3. (Goto(s, "marking") /\ Credited(t)) \/ Processed(s)
    <3>1. CASE Processed(s)
      BY <3>1
    <3>2. CASE Goto(s, "marking") /\ Credited(t)
      BY <3>2
    <3>3. CASE ~Credited(t) /\ Accounts!Post(CreditCall(t)) /\ Goto(s, "marking")
      <4>1. Credited(t)'
        <5>1. DOMAIN work' = Scanner
          BY <3>3 DEF Goto, CreditsInv, StoredTypes
        <5>2. QED
          BY <1>1, <1>3, <3>3, <5>1, CreditKeeps
      <4>2. Credited(t)' = Credited(t)
        BY <1>4 DEF Credited, Accounts!IsPosted
      <4>3. QED
        BY <3>3, <4>1, <4>2
    <3>4. QED
      BY <1>2, <3>1, <3>2, <3>3 DEF Credit, Credited
  <2>4. (\A r \in Scanner : PollOK(work[r])') /\ DOMAIN work' = Scanner
    BY <2>1, <2>2, <2>3, ProcessedOK
  <2>5. QED
    BY <1>1, <1>4, <2>4, QuietStep, SameCursor
<1>5. ASSUME Accounts!Post(CreditCall(t)), Goto(s, "marking") \/ Processed(s)
      PROVE  CreditsInv'
  <2>1. DOMAIN work' = Scanner
    BY <1>5 DEF Goto, Processed, CreditsInv, StoredTypes
  <2>2. /\ Kept /\ Credited(t)' /\ StoredTypes' /\ CursorOK' /\ PostingsOK'
        /\ \A u \in Transaction : RowOK(u)'
    BY <1>1, <1>3, <1>5, <2>1, CreditKeeps
  <2>3. \A r \in Scanner : PollOK(work[r])'
    <3>1. CASE Goto(s, "marking")
      <4>1. \A u \in Transaction : u = ThisTx(s) => Confirmed(u)' /\ Credited(u)'
        BY <1>2, <1>3, <2>2 DEF Kept
      <4>2. QED
        BY <1>1, <2>2, <3>1, <4>1, GotoOK DEF PollSteps, AtLog
    <3>2. CASE Processed(s)
      BY <2>2, <3>2, ProcessedOK
    <3>3. QED
      BY <1>5, <3>1, <3>2
  <2>4. QED
    BY <2>2, <2>3 DEF CreditsInv
<1>6. QED
  BY <1>2, <1>4, <1>5 DEF Credit

LEMMA MarkCreditedStep ==
    ASSUME CreditsInv, NEW s \in Scanner, MarkCredited(s)
    PROVE  CreditsInv'
<1>1. /\ UNCHANGED <<balances, postings, scannerState, chain, lives>>
      /\ work[s].pc = "marking" /\ Processed(s)
  BY DEF MarkCredited
<1>2. PICK t \in Transaction : t = ThisTx(s)
  BY <1>1, AtTransaction DEF AtLog
<1>3. Confirmed(t) /\ Credited(t)
  BY <1>1, <1>2, AtTransaction DEF AtLog
<1>4. CASE UNCHANGED deposits
  BY <1>1, <1>4, QuietKept, ProcessedOK, QuietStep, SameCursor
<1>5. CASE deposits' = [deposits EXCEPT ![t].status = "CREDITED"]
  <2>1. /\ deposits \in [Transaction -> DepositRow \cup {NoRow}]
        /\ lives \in Nat /\ chain \in Seq(Transaction \cup {None}) /\ Len(chain) \in Nat
    BY Lengths DEF CreditsInv, StoredTypes
  <2>2. PICK r : r = deposits'[t]
    OBVIOUS
  <2>3. /\ r \in DepositRow /\ r.status = "CREDITED" /\ r.user = deposits[t].user
        /\ r.token = deposits[t].token /\ r.amount = deposits[t].amount
    <3>1. deposits[t] \in DepositRow
      BY <1>3, ConfirmedIsRow DEF CreditsInv
    <3>2. r = [deposits[t] EXCEPT !.status = "CREDITED"]
      BY <1>5, <2>1, <2>2
    <3>3. QED
      BY <3>1, <3>2 DEF DepositRow
  <2>4. \A u \in Transaction : u # t => deposits'[u] = deposits[u]
    BY <1>5, <2>1
  <2>5. deposits' \in [Transaction -> DepositRow \cup {NoRow}]
    BY <1>5, <2>1, <2>2, <2>3
  <2>6. Kept
    <3>1. \A u \in Transaction : Credited(u)' = Credited(u)
      BY <1>1 DEF Credited, Accounts!IsPosted
    <3>2. Confirmed(t)'
      BY <2>2, <2>3 DEF Confirmed
    <3>3. \A u \in Transaction : Confirmed(u) =>
              /\ Confirmed(u)' /\ deposits'[u].user = deposits[u].user
              /\ deposits'[u].token = deposits[u].token /\ deposits'[u].amount = deposits[u].amount
      BY <2>2, <2>3, <2>4, <3>2 DEF Confirmed
    <3>4. QED
      BY <1>1, <2>1, <3>1, <3>3 DEF Kept
  <2>7. RowOK(t)'
    <3>1. RowOK(t) /\ lives' = lives
      BY <1>1 DEF CreditsInv
    <3>2. lives' = 0 => Final(t)'
      BY <1>3, <2>6, <3>1, FinalStays DEF CreditsInv, RowOK
    <3>3. PICK i \in DOMAIN Logs[t] : TellsOf(deposits[t], Logs[t][i])
      BY <1>3, <3>1 DEF RowOK
    <3>4. TellsOf(r, Logs[t][i])
      BY <2>3, <3>3 DEF TellsOf
    <3>5. Credited(t)'
      BY <1>3, <2>6 DEF Kept
    <3>6. QED
      BY <2>2, <3>2, <3>4, <3>5 DEF RowOK
  <2>8. \A u \in Transaction : RowOK(u)'
    BY <2>4, <2>6, <2>7, RowStays
  <2>9. (\A q \in Scanner : PollOK(work[q])') /\ DOMAIN work' = Scanner
    BY <1>1, <2>6, ProcessedOK
  <2>10. StoredTypes'
    BY <1>1, <2>5, <2>9 DEF CreditsInv, StoredTypes
  <2>11. CursorOK' /\ PostingsOK'
    BY <1>1, <2>6, SameCursor, PostingsStay
  <2>12. QED
    BY <2>8, <2>9, <2>10, <2>11 DEF CreditsInv
<1>6. QED
  BY <1>2, <1>4, <1>5 DEF MarkCredited

-----------------------------------------------------------------------------
(***************************************************************************)
(* The chain, and the first theorem.                                       *)
(***************************************************************************)

\* No block that has its confirmations is dropped, unless the node begins another life.
BlocksStay ==
    /\ lives' \in Nat /\ lives <= lives' /\ chain' \in Seq(Transaction \cup {None})
    /\ lives' = lives =>
          /\ Len(chain) <= Len(chain')
          /\ \A n \in 1 .. Len(chain) - Confirmations : chain'[n] = chain[n]

LEMMA MineBlocks ==
    ASSUME CreditsInv, NEW b \in Transaction \cup {None}, Mine(b)
    PROVE  BlocksStay
<1>1. chain \in Seq(Transaction \cup {None}) /\ lives \in Nat /\ lives' = lives /\ chain' = Append(chain, b)
  BY DEF Mine, CreditsInv, StoredTypes
<1>2. Confirmations \in Nat /\ Len(chain) \in Nat
  BY <1>1, Lengths, ChainAssumption
<1>3. /\ chain' \in Seq(Transaction \cup {None}) /\ Len(chain') = Len(chain) + 1
      /\ \A n \in 1 .. Len(chain) : chain'[n] = chain[n]
  BY <1>1, <1>2
<1>4. Len(chain) <= Len(chain') /\ \A n \in 1 .. Len(chain) - Confirmations : chain'[n] = chain[n]
  BY <1>2, <1>3
<1>5. lives' \in Nat /\ lives <= lives'
  BY <1>1
<1>6. chain' \in Seq(Transaction \cup {None})
  BY <1>3
<1>7. QED
  BY <1>4, <1>5, <1>6 DEF BlocksStay

LEMMA ReorganiseBlocks ==
    ASSUME CreditsInv, Reorganise
    PROVE  BlocksStay
<1>1. chain \in Seq(Transaction \cup {None}) /\ lives \in Nat /\ lives' = lives
  BY DEF Reorganise, CreditsInv, StoredTypes
<1>2. Confirmations \in Nat /\ Len(chain) \in Nat
  BY <1>1, Lengths, ChainAssumption
<1>3. PICK n \in 1 .. Confirmations :
          n <= Len(chain)
          /\ chain' = SubSeq(chain, 1, Len(chain) - n) \o [i \in 1 .. n |-> None]
  BY DEF Reorganise
<1>4. PICK kept, empty : kept = SubSeq(chain, 1, Len(chain) - n) /\ empty = [i \in 1 .. n |-> None]
  OBVIOUS
<1>5. /\ kept \in Seq(Transaction \cup {None}) /\ Len(kept) = Len(chain) - n
      /\ \A i \in 1 .. Len(chain) - n : kept[i] = chain[i]
  BY <1>1, <1>2, <1>3, <1>4
<1>6. empty \in Seq(Transaction \cup {None}) /\ Len(empty) = n
  BY <1>2, <1>4
<1>7. /\ chain' \in Seq(Transaction \cup {None}) /\ Len(chain') = Len(chain)
      /\ \A i \in 1 .. Len(chain) - n : chain'[i] = chain[i]
  BY <1>2, <1>3, <1>4, <1>5, <1>6
<1>8. \A i \in 1 .. Len(chain) - Confirmations : chain'[i] = chain[i]
  BY <1>2, <1>3, <1>7
<1>9. QED
  BY <1>1, <1>2, <1>7, <1>8 DEF BlocksStay

LEMMA ResetBlocks ==
    ASSUME CreditsInv, Reset
    PROVE  BlocksStay
BY DEF Reset, BlocksStay, CreditsInv, StoredTypes

LEMMA SameChain ==
    ASSUME CreditsInv, UNCHANGED <<chain, lives>>
    PROVE  BlocksStay
BY Lengths DEF CreditsInv, StoredTypes, BlocksStay

LEMMA ChainStep ==
    ASSUME CreditsInv, UNCHANGED <<balances, postings, deposits, scannerState, work>>, BlocksStay
    PROVE  CreditsInv'
<1>1. /\ lives \in Nat /\ Len(chain) \in Nat /\ Len(chain') \in Nat /\ Confirmations \in Nat
      /\ scannerState \in [block : Nat \cup {-1}, life : Int]
  BY Lengths, ChainAssumption DEF CreditsInv, StoredTypes, BlocksStay
<1>2. lives' \in Nat /\ lives <= lives'
  BY DEF BlocksStay
<1>3. Kept
  <2>1. \A t \in Transaction : Credited(t)' = Credited(t) /\ Confirmed(t)' = Confirmed(t)
    BY DEF Credited, Confirmed, Accounts!IsPosted
  <2>2. QED
    BY <2>1 DEF Kept, BlocksStay
<1>4. CursorOK'
  <2>1. CursorOK /\ scannerState.life \in Int /\ scannerState.block \in Int
    BY <1>1 DEF CreditsInv
  <2>2. lives' = lives => Len(chain) <= Len(chain')
    BY DEF BlocksStay
  <2>3. QED
    BY <1>1, <1>2, <2>1, <2>2 DEF CursorOK, Mature
<1>5. StoredTypes'
  BY DEF CreditsInv, StoredTypes, BlocksStay
<1>6. \A s \in Scanner : PollOK(work[s])'
  <2>1. ASSUME NEW s \in Scanner PROVE PollOK(work[s])'
    <3>1. PICK w : w = work[s]
      OBVIOUS
    <3>2. PollOK(w)'
      BY <1>3, <3>1, PollStays DEF CreditsInv
    <3>3. QED
      BY <3>1, <3>2
  <2>2. QED
    BY <2>1
<1>7. QED
  BY <1>3, <1>4, <1>5, <1>6, RowStays, PostingsStay DEF CreditsInv

LEMMA DepositsInitInv == DepositsInit => CreditsInv
<1> SUFFICES ASSUME DepositsInit PROVE CreditsInv
  OBVIOUS
<1>1. \A a \in DepositAccount : postings[a] = << >>
  BY DEF DepositsInit, Accounts!Init, DepositAccount
<1>2. StoredTypes
  <2>1. balances \in [DepositAccount -> [exists : BOOLEAN, avail : Int, locked : Int]]
    BY DEF DepositsInit, Accounts!Init, Accounts!NoAccount, DepositAccount
  <2>2. postings \in [DepositAccount -> Seq(Posting)]
    BY DEF DepositsInit, Accounts!Init, DepositAccount
  <2>3. QED
    BY <2>1, <2>2 DEF DepositsInit, StoredTypes
<1>3. CursorOK
  BY DEF DepositsInit, CursorOK
<1>4. \A s \in Scanner : PollOK(work[s])
  <2>1. Idle \in PollRecord /\ Idle.life = 0 /\ Idle.head = 0 /\ Idle.to = 0 /\ Idle.todo = {} /\ Idle.pc = "idle"
    BY DEF Idle, PollRecord, PollSteps
  <2>2. lives = 0 /\ Len(chain) = 0
    BY DEF DepositsInit
  <2>3. PollOK(Idle)
    BY <2>1, <2>2 DEF PollOK, AtLog
  <2>4. QED
    BY <2>3 DEF DepositsInit
<1>5. \A t \in Transaction : RowOK(t)
  BY DEF DepositsInit, RowOK, Confirmed, NoRow, None
<1>6. PostingsOK
  BY <1>1 DEF PostingsOK
<1>7. QED
  BY <1>2, <1>3, <1>4, <1>5, <1>6 DEF CreditsInv

LEMMA NextKeepsCreditsInv == CreditsInv /\ [DepositsNext]_depositsVars => CreditsInv'
<1> SUFFICES ASSUME CreditsInv, [DepositsNext]_depositsVars PROVE CreditsInv'
  OBVIOUS
<1>1. ASSUME NEW s \in Scanner, ScannerStep(s) PROVE CreditsInv'
  BY <1>1, PollStep, ReadCursorStep, StartOverStep, GetLogsStep, WriteCursorStep, LookStep,
     RecordStep, CreditStep, MarkCreditedStep DEF ScannerStep
<1>2. ASSUME NEW s \in Scanner, Crash(s) PROVE CreditsInv'
  BY <1>2, CrashStep
<1>3. ASSUME NEW b \in Transaction \cup {None}, Mine(b) PROVE CreditsInv'
  BY <1>3, MineBlocks, ChainStep DEF Mine
<1>4. CASE Reorganise
  BY <1>4, ReorganiseBlocks, ChainStep DEF Reorganise
<1>5. CASE Reset
  BY <1>5, ResetBlocks, ChainStep DEF Reset
<1>6. CASE UNCHANGED depositsVars
  BY <1>6, SameChain, ChainStep DEF depositsVars
<1>7. QED
  BY <1>1, <1>2, <1>3, <1>4, <1>5, <1>6 DEF DepositsNext

\* The rounding of an amount, as the property states it.
LEMMA RoundedDown ==
    ASSUME NEW n \in Nat, NEW units \in Nat \ {0}
    PROVE  /\ (n \div units) * units <= n
           /\ n < ((n \div units) + 1) * units
OBVIOUS

LEMMA InvImpliesFinal == CreditsInv => CreditsAreFinal
<1> SUFFICES ASSUME CreditsInv, NEW u \in Depositor, NEW c \in DOMAIN UnitsPerCoin,
                    NEW k \in DOMAIN postings[<<u, c>>]
             PROVE  \E t \in Transaction :
                        /\ postings[<<u, c>>][k].key = CreditKey(t)
                        /\ lives = 0 => Final(t)
                        /\ \E l \in ToSet(Logs[t]) :
                              /\ l.user = u /\ l.token = c
                              /\ postings[<<u, c>>][k].amount * UnitsPerCoin[c] <= l.amount
                              /\ l.amount < (postings[<<u, c>>][k].amount + 1) * UnitsPerCoin[c]
  BY DEF CreditsAreFinal
<1>1. PICK e : e = postings[<<u, c>>][k]
  OBVIOUS
<1>2. PICK t \in Transaction : Repeats(e, <<u, c>>, t)
  BY <1>1 DEF CreditsInv, PostingsOK, DepositAccount
<1>3. /\ e.key = CreditKey(t) /\ Confirmed(t) /\ e.amount = deposits[t].amount
      /\ deposits[t].user = u /\ deposits[t].token = c
  BY <1>2 DEF Repeats
<1>4. lives = 0 => Final(t)
  BY <1>3 DEF CreditsInv, RowOK
<1>5. PICK i \in DOMAIN Logs[t] : TellsOf(deposits[t], Logs[t][i])
  BY <1>3 DEF CreditsInv, RowOK
<1>6. PICK l : l = Logs[t][i]
  OBVIOUS
<1>7. l \in ToSet(Logs[t]) /\ l \in [event : STRING, user : Depositor, token : STRING, amount : Nat]
  BY <1>6, LogType DEF ToSet
<1>8. l.user = u /\ l.token = c /\ e.amount = l.amount \div UnitsPerCoin[c]
  BY <1>3, <1>5, <1>6 DEF TellsOf, Scaled
<1>9. /\ e.amount * UnitsPerCoin[c] <= l.amount
      /\ l.amount < (e.amount + 1) * UnitsPerCoin[c]
  <2>1. l.amount \in Nat /\ UnitsPerCoin[c] \in Nat \ {0}
    BY <1>7, ChainAssumption
  <2>2. QED
    BY <1>8, <2>1, RoundedDown
<1>10. QED
  BY <1>1, <1>3, <1>4, <1>7, <1>8, <1>9

\* The first of the hazards of deposits: deposit-scanner.service.ts:66, a deposit is credited
\* to its user, in its token, rounded down, and when the chain cannot drop it any more.
THEOREM DepositsCreditsAreFinal == DepositsSpec => []CreditsAreFinal
<1>1. DepositsSpec => []CreditsInv
  BY DepositsInitInv, NextKeepsCreditsInv, PTL DEF DepositsSpec
<1>2. QED
  BY <1>1, InvImpliesFinal, PTL

-----------------------------------------------------------------------------
(***************************************************************************)
(* Nothing that was scanned is lost.                                       *)
(***************************************************************************)

\* A transaction has its row, and the credit it is to have.
Handled(t) == deposits[t] # NoRow /\ (Confirmed(t) /\ "credit" \notin failures => Credited(t))

\* Poll w will read log i of t in block n, or has it to process.
Unread(w, t, i) == (~w.tokens /\ w.pc = "scanning")
                   \/ (Logs[t][i].event = "TokenDeposited" /\ (~w.tokens \/ w.pc = "scanning"))
Ahead(w, n, t, i) ==
    /\ w.pc # "ending" /\ w.from <= n
    /\ Unread(w, t, i) \/ [block |-> n, tx |-> t, index |-> i] \in w.todo

\* Of the blocks up to its last one a poll has on record what it does not have ahead.
ScanOK(w) ==
    w.life = lives /\ w.pc \in AtLog \cup {"scanning", "ending"} =>
        \A n \in DOMAIN chain, t \in Transaction : n <= w.to /\ chain[n] = t /\ t # None =>
            \A i \in AskedLogs(t) : Handled(t) \/ Ahead(w, n, t, i)

\* Of the blocks up to the cursor all is on record.
CursorTells ==
    scannerState.life = lives =>
        \A n \in DOMAIN chain, t \in Transaction : n <= scannerState.block /\ chain[n] = t /\ t # None =>
            \A i \in AskedLogs(t) : Handled(t)

\* A row is that of one of the deposits its transaction was scanned for.
RowsTell == \A t \in Transaction : deposits[t] # NoRow => \E i \in AskedLogs(t) : OnRecord(t, i)

LostInv == CreditsInv /\ RowsTell /\ CursorTells /\ \A s \in Scanner : ScanOK(work[s])

\* What is on record stays so.
RecordsStay == \A t \in Transaction : Handled(t) => Handled(t)'

LEMMA FinalBlock ==
    ASSUME CreditsInv, BlocksStay, lives' = lives, NEW h \in Int, h <= 0 \/ Mature(h),
           NEW n \in DOMAIN chain', n <= h
    PROVE  n \in DOMAIN chain /\ chain'[n] = chain[n]
<1>1. /\ Len(chain) \in Nat /\ Len(chain') \in Nat /\ Confirmations \in Nat
      /\ DOMAIN chain = 1 .. Len(chain) /\ DOMAIN chain' = 1 .. Len(chain')
  BY Lengths, ChainAssumption DEF CreditsInv, StoredTypes, BlocksStay
<1>2. n \in 1 .. Len(chain) - Confirmations
  BY <1>1 DEF Mature
<1>3. QED
  BY <1>1, <1>2 DEF BlocksStay

LEMMA ScanStays ==
    ASSUME LostInv, BlocksStay, RecordsStay, NEW w, PollOK(w), ScanOK(w)
    PROVE  ScanOK(w)'
<1>1. w \in PollRecord /\ w.life <= lives /\ w.life \in Int /\ w.to \in Int /\ lives \in Nat /\ lives' \in Nat
      /\ lives <= lives'
  BY DEF PollOK, PollRecord, LostInv, CreditsInv, StoredTypes, BlocksStay
<1>2. SUFFICES ASSUME w.life = lives', w.pc \in AtLog \cup {"scanning", "ending"},
                      NEW n \in DOMAIN chain', NEW t \in Transaction,
                      n <= w.to, chain'[n] = t, t # None, NEW i \in AskedLogs(t)
               PROVE  Handled(t)' \/ Ahead(w, n, t, i)
  BY DEF ScanOK, Ahead, Unread
<1>3. lives' = lives /\ w.life = lives
  BY <1>1, <1>2
<1>4. w.to <= 0 \/ Mature(w.to)
  BY <1>1, <1>3 DEF PollOK
<1>5. n \in DOMAIN chain /\ chain[n] = t
  BY <1>1, <1>2, <1>3, <1>4, FinalBlock DEF LostInv
<1>6. Handled(t) \/ Ahead(w, n, t, i)
  BY <1>2, <1>3, <1>5 DEF ScanOK
<1>7. QED
  BY <1>6 DEF RecordsStay

LEMMA CursorStays ==
    ASSUME LostInv, BlocksStay, RecordsStay, UNCHANGED scannerState
    PROVE  CursorTells'
<1>1. /\ scannerState.life <= lives /\ scannerState.life \in Int /\ scannerState.block \in Int
      /\ lives \in Nat /\ lives' \in Nat /\ lives <= lives'
  BY DEF LostInv, CreditsInv, StoredTypes, CursorOK, BlocksStay
<1>2. SUFFICES ASSUME scannerState.life = lives',
                      NEW n \in DOMAIN chain', NEW t \in Transaction,
                      n <= scannerState.block, chain'[n] = t, t # None, NEW i \in AskedLogs(t)
               PROVE  Handled(t)'
  BY DEF CursorTells
<1>3. lives' = lives /\ scannerState.life = lives
  BY <1>1, <1>2
<1>4. scannerState.block <= 0 \/ Mature(scannerState.block)
  BY <1>3 DEF LostInv, CreditsInv, CursorOK
<1>5. n \in DOMAIN chain /\ chain[n] = t
  <2>1. PICK h \in Int : h = scannerState.block
    BY <1>1
  <2>2. h <= 0 \/ Mature(h)
    BY <1>4, <2>1
  <2>3. QED
    BY <1>2, <1>3, <2>1, <2>2, FinalBlock DEF LostInv
<1>6. Handled(t)
  BY <1>2, <1>3, <1>5 DEF LostInv, CursorTells
<1>7. QED
  BY <1>6 DEF RecordsStay

\* Only s takes a step of a poll, to w.
LEMMA OneScanMoves ==
    ASSUME LostInv, BlocksStay, RecordsStay, NEW s \in Scanner, NEW w,
           work' = [work EXCEPT ![s] = w], ScanOK(w)'
    PROVE  \A r \in Scanner : ScanOK(work[r])'
<1>1. DOMAIN work = Scanner /\ \A r \in Scanner : PollOK(work[r]) /\ ScanOK(work[r])
  BY DEF LostInv, CreditsInv, StoredTypes
<1>2. ASSUME NEW r \in Scanner PROVE ScanOK(work[r])'
  <2>1. PICK v : v = work'[r]
    OBVIOUS
  <2>2. v = IF r = s THEN w ELSE work[r]
    BY <1>1, <2>1
  <2>3. ScanOK(v)'
    <3>1. CASE r = s
      BY <2>2, <3>1
    <3>2. CASE r # s
      <4>1. v = work[r] /\ PollOK(work[r]) /\ ScanOK(work[r])
        BY <1>1, <2>2, <3>2
      <4>2. PollOK(v) /\ ScanOK(v)
        BY <4>1
      <4>3. QED
        BY <4>2, ScanStays
    <3>3. QED
      BY <3>1, <3>2
  <2>4. QED
    BY <2>1, <2>3
<1>3. QED
  BY <1>2

LEMMA AbortScans ==
    ASSUME LostInv, BlocksStay, RecordsStay, NEW s \in Scanner, Abort(s)
    PROVE  \A r \in Scanner : ScanOK(work[r])'
<1>1. Idle.pc = "idle"
  BY DEF Idle
<1>2. ScanOK(Idle)'
  BY <1>1 DEF ScanOK, AtLog
<1>3. QED
  BY <1>2, OneScanMoves DEF Abort

\* From one step at a log to another, or before a scan.
LEMMA GotoScans ==
    ASSUME LostInv, BlocksStay, RecordsStay, NEW s \in Scanner, NEW step, Goto(s, step),
           \/ work[s].pc \in AtLog /\ step \in AtLog
           \/ step = "starting_over"
    PROVE  \A r \in Scanner : ScanOK(work[r])'
<1>1. PICK w : w = work[s]
  OBVIOUS
<1>2. PollOK(w) /\ ScanOK(w) /\ w \in PollRecord
  BY <1>1 DEF LostInv, CreditsInv, PollOK
<1>3. PICK v : v = [w EXCEPT !.pc = step]
  OBVIOUS
<1>4. /\ v.pc = step /\ v.life = w.life /\ v.to = w.to /\ v.from = w.from
      /\ v.todo = w.todo /\ v.tokens = w.tokens
  BY <1>2, <1>3 DEF PollRecord
<1>5. ScanOK(w)'
  BY <1>2, ScanStays
<1>6. ScanOK(v)'
  <2>1. CASE step = "starting_over"
    BY <1>4, <2>1 DEF ScanOK, AtLog
  <2>2. CASE w.pc \in AtLog /\ step \in AtLog
    <3>1. \A n, t, i : Ahead(w, n, t, i) <=> Ahead(v, n, t, i)
      BY <1>4, <2>2 DEF Ahead, Unread, AtLog
    <3>2. QED
      BY <1>4, <1>5, <2>2, <3>1 DEF ScanOK
  <2>3. QED
    BY <1>1, <2>1, <2>2
<1>7. work' = [work EXCEPT ![s] = v]
  BY <1>1, <1>3 DEF Goto
<1>8. QED
  BY <1>6, <1>7, OneScanMoves

\* s is done with a log that is on record.
LEMMA ProcessedScans ==
    ASSUME LostInv, BlocksStay, RecordsStay, NEW s \in Scanner, work[s].pc \in AtLog, Processed(s),
           NEW u \in Transaction, u = ThisTx(s), Handled(u)'
    PROVE  \A r \in Scanner : ScanOK(work[r])'
<1>1. PICK w : w = work[s]
  OBVIOUS
<1>2. PollOK(w) /\ ScanOK(w) /\ w \in PollRecord /\ w.tokens \in BOOLEAN
  BY <1>1 DEF LostInv, CreditsInv, PollOK, PollRecord
<1>3. PICK m, todo : m = This(s) /\ todo = w.todo \ {m}
  OBVIOUS
<1>4. PICK v : v = WithTodo(s, todo)
  OBVIOUS
<1>5. work' = [work EXCEPT ![s] = v]
  BY <1>1, <1>3, <1>4 DEF Processed
<1>6. ScanOK(w)' /\ w.pc \in AtLog /\ m.tx = u
  BY <1>1, <1>2, <1>3, ScanStays DEF ThisTx
<1>7. ASSUME NEW n, NEW t, NEW i, t # u, Ahead(w, n, t, i)
      PROVE  Ahead(v, n, t, i)
  <2>1. [block |-> n, tx |-> t, index |-> i] # m
    BY <1>6, <1>7
  <2>2. w.from <= n /\ (\/ ~w.tokens /\ Logs[t][i].event = "TokenDeposited"
                        \/ [block |-> n, tx |-> t, index |-> i] \in todo)
    BY <1>3, <1>6, <1>7, <2>1 DEF Ahead, Unread, AtLog
  <2>3. CASE todo # {}
    <3>1. v = [w EXCEPT !.pc = "processing", !.todo = todo]
      BY <1>1, <1>4, <2>3 DEF WithTodo
    <3>2. v.pc = "processing" /\ v.todo = todo /\ v.from = w.from /\ v.tokens = w.tokens
      BY <1>2, <3>1 DEF PollRecord
    <3>3. QED
      BY <2>2, <3>2 DEF Ahead, Unread
  <2>4. CASE todo = {}
    <3>1. ~w.tokens /\ Logs[t][i].event = "TokenDeposited"
      BY <2>2, <2>4
    <3>2. v = [w EXCEPT !.pc = "scanning", !.todo = todo, !.tokens = TRUE]
      BY <1>1, <1>4, <2>4, <3>1 DEF WithTodo
    <3>3. v.pc = "scanning" /\ v.from = w.from
      BY <1>2, <3>2 DEF PollRecord
    <3>4. QED
      BY <2>2, <3>1, <3>3 DEF Ahead, Unread
  <2>5. QED
    BY <2>3, <2>4
<1>8. v.life = w.life /\ v.to = w.to
  BY <1>1, <1>2, <1>4 DEF WithTodo, PollRecord, Idle
<1>9. ScanOK(v)'
  BY <1>6, <1>7, <1>8 DEF ScanOK
<1>10. QED
  BY <1>5, <1>9, OneScanMoves

\* What was on record up to the last block need not be scanned.
LEMMA ScanAfterScans ==
    ASSUME LostInv, BlocksStay, RecordsStay, UNCHANGED <<chain, lives>>, NEW s \in Scanner,
           NEW last \in Nat \cup {-1}, NEW life \in Int, ScanAfter(s, last, life),
           life = lives =>
               \A n \in DOMAIN chain, t \in Transaction : n <= last /\ chain[n] = t /\ t # None =>
                   \A i \in AskedLogs(t) : Handled(t)
    PROVE  \A r \in Scanner : ScanOK(work[r])'
<1>1. CASE Abort(s)
  BY <1>1, AbortScans
<1>2. ASSUME ~Abort(s) PROVE \A r \in Scanner : ScanOK(work[r])'
  <2>1. PICK to : to = Min({(last + 1) + MaxBlockRange - 1, SafeTarget(work[s].head)})
    OBVIOUS
  <2>2. PICK v : v = [Idle EXCEPT !.pc = "scanning", !.from = last + 1, !.to = to, !.life = life]
    OBVIOUS
  <2>3. work' = [work EXCEPT ![s] = v]
    BY <1>2, <2>1, <2>2 DEF ScanAfter
  <2>4. v.pc = "scanning" /\ v.from = last + 1 /\ v.life = life /\ v.tokens = FALSE
    BY <2>2 DEF Idle
  <2>5. DOMAIN chain \subseteq Nat
    BY Lengths DEF LostInv, CreditsInv, StoredTypes
  <2>6. ASSUME life = lives, NEW n \in DOMAIN chain, NEW t \in Transaction, chain[n] = t, t # None,
               NEW i \in AskedLogs(t)
        PROVE  Handled(t) \/ Ahead(v, n, t, i)
    <3>1. CASE n <= last
      BY <2>6, <3>1
    <3>2. CASE ~(n <= last)
      <4>1. v.from <= n
        BY <2>4, <2>5, <3>2
      <4>2. QED
        BY <2>4, <4>1 DEF Ahead, Unread
    <3>3. QED
      BY <3>1, <3>2
  <2>7. ScanOK(v)'
    <3>1. SUFFICES ASSUME life = lives, NEW n \in DOMAIN chain, NEW t \in Transaction,
                          chain[n] = t, t # None, NEW i \in AskedLogs(t)
                   PROVE  Handled(t)' \/ Ahead(v, n, t, i)
      BY <2>4 DEF ScanOK, Ahead, Unread
    <3>2. QED
      BY <2>6, <3>1 DEF RecordsStay
  <2>8. QED
    BY <2>3, <2>7, OneScanMoves
<1>3. QED
  BY <1>1, <1>2

LEMMA GetLogsScans ==
    ASSUME LostInv, NEW s \in Scanner, GetLogs(s), BlocksStay, RecordsStay
    PROVE  \A r \in Scanner : ScanOK(work[r])'
<1>1. UNCHANGED <<chain, lives>> /\ work[s].pc = "scanning"
  BY DEF GetLogs
<1>2. CASE Failed(s, "logs")
  BY <1>2, AbortScans DEF Failed
<1>3. ASSUME ~Failed(s, "logs") PROVE \A r \in Scanner : ScanOK(work[r])'
  <2>1. PICK w : w = work[s]
    OBVIOUS
  <2>2. PICK logs : logs = UNION {LogsOf(n, w.tokens) :
                         n \in {n \in DOMAIN chain : n \in w.from .. w.to /\ chain[n] # None}}
    OBVIOUS
  <2>3. PICK life : life = StillIn(w.life)
    OBVIOUS
  <2>4. /\ PollOK(w) /\ ScanOK(w) /\ w \in PollRecord /\ w.from \in Nat /\ w.to \in Nat
        /\ w.tokens \in BOOLEAN /\ w.life \in Int /\ lives \in Nat /\ w.todo = {}
    BY <1>1, <2>1 DEF LostInv, CreditsInv, StoredTypes, PollOK, PollRecord, AtLog
  <2>5. PICK v : v = [WithTodo(s, logs) EXCEPT !.life = life]
    OBVIOUS
  <2>6. /\ work' = [work EXCEPT ![s] = v]
        /\ v.life = life /\ v.to = w.to
    <3>1. work' = [work EXCEPT ![s] = [WithTodo(s, logs) EXCEPT !.life = StillIn(@)]]
      BY <1>3, <2>1, <2>2 DEF GetLogs
    <3>2. WithTodo(s, logs).life = w.life /\ WithTodo(s, logs).to = w.to
          /\ DOMAIN WithTodo(s, logs) = DOMAIN w
      BY <2>1, <2>4 DEF WithTodo, PollRecord, Idle
    <3>3. "life" \in DOMAIN w /\ "to" \in DOMAIN w
      BY <2>4 DEF PollRecord
    <3>4. QED
      BY <2>3, <2>5, <3>1, <3>2, <3>3
  <2>7. life = lives => w.life = lives
    BY <2>3, <2>4 DEF StillIn
  <2>8. DOMAIN chain \subseteq Nat
    BY Lengths DEF LostInv, CreditsInv, StoredTypes
  <2>9. ASSUME NEW n \in DOMAIN chain, NEW t \in Transaction, n <= w.to, chain[n] = t, t # None,
               NEW i \in AskedLogs(t), Ahead(w, n, t, i)
        PROVE  Ahead(v, n, t, i)
    <3>1. w.from <= n /\ Unread(w, t, i) /\ n \in w.from .. w.to
      BY <2>4, <2>8, <2>9 DEF Ahead
    <3>2. Logs[t][i].event \in {"NativeDeposited", "TokenDeposited"}
      BY <2>9 DEF AskedLogs, ScannedEvent
    <3>3. CASE w.tokens <=> Logs[t][i].event = "TokenDeposited"
      <4>1. PICK l : l = [block |-> n, tx |-> t, index |-> i]
        OBVIOUS
      <4>2. l \in LogsOf(n, w.tokens)
        BY <2>4, <2>9, <3>2, <3>3, <4>1 DEF LogsOf, ScannedEvent
      <4>3. l \in logs
        BY <2>2, <2>9, <3>1, <4>2
      <4>4. v = [w EXCEPT !.pc = "processing", !.todo = logs, !.life = life]
        BY <2>1, <2>4, <2>5, <4>3 DEF WithTodo, PollRecord
      <4>5. v.pc = "processing" /\ v.todo = logs /\ v.from = w.from
        BY <2>4, <4>4 DEF PollRecord
      <4>6. QED
        BY <3>1, <4>1, <4>3, <4>5 DEF Ahead
    <3>4. CASE ~w.tokens /\ Logs[t][i].event = "TokenDeposited"
      <4>1. CASE logs # {}
        <5>1. v = [w EXCEPT !.pc = "processing", !.todo = logs, !.life = life]
          BY <2>1, <2>4, <2>5, <4>1 DEF WithTodo, PollRecord
        <5>2. v.pc = "processing" /\ v.tokens = w.tokens /\ v.from = w.from
          BY <2>4, <5>1 DEF PollRecord
        <5>3. QED
          BY <3>1, <3>4, <5>2 DEF Ahead, Unread
      <4>2. CASE logs = {}
        <5>1. v = [w EXCEPT !.pc = "scanning", !.todo = logs, !.tokens = TRUE, !.life = life]
          BY <2>1, <2>4, <2>5, <3>4, <4>2 DEF WithTodo, PollRecord
        <5>2. v.pc = "scanning" /\ v.from = w.from
          BY <2>4, <5>1 DEF PollRecord
        <5>3. QED
          BY <3>1, <3>4, <5>2 DEF Ahead, Unread
      <4>3. QED
        BY <4>1, <4>2
    <3>5. ~w.tokens \/ Logs[t][i].event = "TokenDeposited"
      BY <3>1 DEF Unread
    <3>6. QED
      BY <2>4, <3>3, <3>4, <3>5
  <2>10. ScanOK(v)'
    <3>1. SUFFICES ASSUME life = lives, NEW n \in DOMAIN chain, NEW t \in Transaction,
                          n <= w.to, chain[n] = t, t # None, NEW i \in AskedLogs(t)
                   PROVE  Handled(t)' \/ Ahead(v, n, t, i)
      BY <1>1, <2>6 DEF ScanOK, Ahead, Unread
    <3>2. Handled(t) \/ Ahead(w, n, t, i)
      BY <1>1, <2>1, <2>4, <2>7, <3>1 DEF ScanOK
    <3>3. QED
      BY <2>9, <3>1, <3>2 DEF RecordsStay
  <2>11. QED
    BY <2>6, <2>10, OneScanMoves
<1>4. QED
  BY <1>2, <1>3

-----------------------------------------------------------------------------

\* Steps that leave the rows and the ledger alone.
LEMMA SameRecords ==
    ASSUME UNCHANGED <<postings, deposits>>, failures' = failures \/ \E f : failures' = failures \cup {f}
    PROVE  RecordsStay
BY DEF RecordsStay, Handled, Confirmed, Credited, Accounts!IsPosted

LEMMA Faults ==
    ASSUME NoFault \/ \E f : Fault(f)
    PROVE  failures' = failures \/ \E f : failures' = failures \cup {f}
BY DEF NoFault, Fault

\* A row tells the same as long as it is the same.
LEMMA SameRows ==
    ASSUME LostInv, UNCHANGED deposits
    PROVE  RowsTell'
BY DEF LostInv, RowsTell, OnRecord

\* Only the row of t is written, and tells of its deposit i.
LEMMA OtherRows ==
    ASSUME LostInv, NEW t \in Transaction, NEW i \in AskedLogs(t), OnRecord(t, i)',
           \A u \in Transaction : u # t => deposits'[u] = deposits[u]
    PROVE  RowsTell'
<1>1. ASSUME NEW u \in Transaction, deposits'[u] # NoRow
      PROVE  \E j \in AskedLogs(u) : OnRecord(u, j)'
  <2>1. CASE u = t
    BY <2>1
  <2>2. CASE u # t
    <3>1. deposits'[u] = deposits[u]
      BY <2>2
    <3>2. PICK j \in AskedLogs(u) : OnRecord(u, j)
      BY <1>1, <3>1 DEF LostInv, RowsTell
    <3>3. OnRecord(u, j)'
      BY <3>1, <3>2 DEF OnRecord
    <3>4. QED
      BY <3>3
  <2>3. QED
    BY <2>1, <2>2
<1>2. QED
  BY <1>1 DEF RowsTell

\* A step of a scan that leaves rows, ledger, cursor and chain alone.
LEMMA QuietLost ==
    ASSUME LostInv, CreditsInv', UNCHANGED scannerState, BlocksStay, RecordsStay, RowsTell',
           \A r \in Scanner : ScanOK(work[r])'
    PROVE  LostInv'
BY CursorStays DEF LostInv

LEMMA PollLost ==
    ASSUME LostInv, NEW s \in Scanner, Poll(s)
    PROVE  LostInv'
<1>1. CreditsInv' /\ UNCHANGED <<postings, deposits, scannerState, chain, lives, failures>>
  BY PollStep DEF LostInv, Poll, NoFault
<1>2. BlocksStay /\ RecordsStay /\ RowsTell'
  BY <1>1, SameChain, SameRecords, SameRows DEF LostInv
<1>3. PICK v : v = [Idle EXCEPT !.pc = "polled", !.life = lives, !.head = Len(chain)]
  OBVIOUS
<1>4. work' = [work EXCEPT ![s] = v] /\ v.pc = "polled"
  BY <1>3 DEF Poll, Idle
<1>5. ScanOK(v)'
  BY <1>4 DEF ScanOK, AtLog
<1>6. QED
  BY <1>1, <1>2, <1>4, <1>5, OneScanMoves, QuietLost

LEMMA ReadCursorLost ==
    ASSUME LostInv, NEW s \in Scanner, ReadCursor(s)
    PROVE  LostInv'
<1>1. CreditsInv' /\ UNCHANGED <<postings, deposits, scannerState, chain, lives, failures>>
  BY ReadCursorStep DEF LostInv, ReadCursor, NoFault
<1>2. BlocksStay /\ RecordsStay /\ RowsTell'
  BY <1>1, SameChain, SameRecords, SameRows DEF LostInv
<1>3. SUFFICES \A r \in Scanner : ScanOK(work[r])'
  BY <1>1, <1>2, QuietLost
<1>4. CASE Goto(s, "starting_over")
  BY <1>2, <1>4, GotoScans
<1>5. CASE ScanAfter(s, scannerState.block,
               IF scannerState.block = -1 \/ scannerState.life = work[s].life
               THEN work[s].life ELSE -1)
  <2>1. PICK life, last : /\ last = scannerState.block
                          /\ life = IF scannerState.block = -1 \/ scannerState.life = work[s].life
                                    THEN work[s].life ELSE -1
    OBVIOUS
  <2>2. /\ last \in Nat \cup {-1} /\ lives \in Nat /\ work[s].life \in Int /\ life \in Int
        /\ DOMAIN chain = 1 .. Len(chain) /\ Len(chain) \in Nat
    BY <2>1, Lengths DEF LostInv, CreditsInv, StoredTypes, PollOK, PollRecord
  <2>3. ASSUME life = lives
        PROVE  \A n \in DOMAIN chain, t \in Transaction : n <= last /\ chain[n] = t /\ t # None =>
                   \A i \in AskedLogs(t) : Handled(t)
    <3>1. CASE last = -1
      BY <2>2, <3>1
    <3>2. CASE last # -1
      <4>1. scannerState.life = lives
        BY <2>1, <2>2, <2>3, <3>2
      <4>2. QED
        BY <2>1, <4>1 DEF LostInv, CursorTells
    <3>3. QED
      BY <3>1, <3>2
  <2>4. ScanAfter(s, last, life)
    BY <1>5, <2>1
  <2>5. QED
    BY <1>1, <1>2, <2>2, <2>3, <2>4, ScanAfterScans
<1>6. QED
  BY <1>4, <1>5 DEF ReadCursor

LEMMA StartOverLost ==
    ASSUME LostInv, NEW s \in Scanner, StartOver(s)
    PROVE  LostInv'
<1>1. CreditsInv' /\ UNCHANGED <<postings, deposits, chain, lives>>
      /\ (NoFault \/ \E f : Fault(f))
  BY StartOverStep DEF LostInv, StartOver, Failed
<1>2. BlocksStay /\ RecordsStay /\ RowsTell'
  BY <1>1, SameChain, SameRecords, SameRows, Faults DEF LostInv
<1>3. CASE Failed(s, "cursor") /\ UNCHANGED scannerState
  BY <1>1, <1>2, <1>3, AbortScans, QuietLost DEF Failed
<1>4. CASE scannerState' = [block |-> 0, life |-> work[s].life] /\ ScanAfter(s, 0, work[s].life)
  <2>1. PICK life : life = work[s].life
    OBVIOUS
  <2>2. life \in Int /\ DOMAIN chain = 1 .. Len(chain) /\ Len(chain) \in Nat
    BY <2>1, Lengths DEF LostInv, CreditsInv, StoredTypes, PollOK, PollRecord
  <2>3. \A n \in DOMAIN chain : ~(n <= 0)
    BY <2>2
  <2>4. ScanAfter(s, 0, life)
    BY <1>4, <2>1
  <2>5. \A r \in Scanner : ScanOK(work[r])'
    BY <1>1, <1>2, <2>2, <2>3, <2>4, ScanAfterScans
  <2>6. CursorTells'
    BY <1>1, <1>4, <2>3 DEF CursorTells
  <2>7. QED
    BY <1>1, <1>2, <2>5, <2>6 DEF LostInv
<1>5. QED
  BY <1>3, <1>4 DEF StartOver

LEMMA GetLogsLost ==
    ASSUME LostInv, NEW s \in Scanner, GetLogs(s)
    PROVE  LostInv'
<1>1. CreditsInv' /\ UNCHANGED <<postings, deposits, scannerState, chain, lives>>
      /\ (NoFault \/ \E f : Fault(f))
  BY GetLogsStep DEF LostInv, GetLogs, Failed
<1>2. BlocksStay /\ RecordsStay /\ RowsTell'
  BY <1>1, SameChain, SameRecords, SameRows, Faults DEF LostInv
<1>3. QED
  BY <1>1, <1>2, GetLogsScans, QuietLost

\* The cursor says what the scan did.
LEMMA WriteCursorLost ==
    ASSUME LostInv, NEW s \in Scanner, WriteCursor(s)
    PROVE  LostInv'
<1>1. /\ CreditsInv' /\ UNCHANGED <<postings, deposits, chain, lives>>
      /\ NoFault \/ \E f : Fault(f)
      /\ Abort(s) /\ work[s].pc = "ending"
      /\ scannerState' \in {scannerState, [block |-> work[s].to, life |-> work[s].life]}
  BY WriteCursorStep DEF LostInv, WriteCursor
<1>2. BlocksStay /\ RecordsStay /\ RowsTell'
  BY <1>1, SameChain, SameRecords, SameRows, Faults DEF LostInv
<1>3. \A r \in Scanner : ScanOK(work[r])'
  BY <1>1, <1>2, AbortScans
<1>4. CASE scannerState' = scannerState
  BY <1>1, <1>2, <1>3, <1>4, QuietLost
<1>5. CASE scannerState' = [block |-> work[s].to, life |-> work[s].life]
  <2>1. PICK w : w = work[s]
    OBVIOUS
  <2>2. ScanOK(w) /\ w.pc = "ending"
    BY <1>1, <2>1 DEF LostInv
  <2>3. w.life = lives =>
            \A n \in DOMAIN chain, t \in Transaction : n <= w.to /\ chain[n] = t /\ t # None =>
                \A i \in AskedLogs(t) : Handled(t)
    BY <2>2 DEF ScanOK, Ahead
  <2>4. SUFFICES ASSUME w.life = lives, NEW n \in DOMAIN chain, NEW t \in Transaction,
                        n <= w.to, chain[n] = t, t # None, NEW i \in AskedLogs(t)
                 PROVE  Handled(t)'
    BY <1>1, <1>2, <1>3, <1>5, <2>1 DEF LostInv, CursorTells
  <2>5. Handled(t)
    BY <2>3, <2>4
  <2>6. QED
    BY <1>2, <2>5 DEF RecordsStay
<1>6. QED
  BY <1>1, <1>4, <1>5

LEMMA LookLost ==
    ASSUME LostInv, NEW s \in Scanner, Look(s)
    PROVE  LostInv'
<1>1. CreditsInv' /\ UNCHANGED <<postings, deposits, scannerState, chain, lives, failures>>
      /\ work[s].pc = "processing"
  BY LookStep DEF LostInv, Look, NoFault
<1>2. BlocksStay /\ RecordsStay /\ RowsTell'
  BY <1>1, SameChain, SameRecords, SameRows DEF LostInv
<1>3. SUFFICES \A r \in Scanner : ScanOK(work[r])'
  BY <1>1, <1>2, QuietLost
<1>4. CASE Goto(s, "recording") \/ Goto(s, "crediting")
  BY <1>1, <1>2, <1>4, GotoScans DEF AtLog
<1>5. CASE deposits[ThisTx(s)].status \notin {None, "CONFIRMED"} /\ Processed(s)
  <2>1. PICK t \in Transaction : t = ThisTx(s)
    BY <1>1, AtTransaction DEF AtLog, LostInv
  <2>2. deposits[t] # NoRow
    BY <1>5, <2>1 DEF NoRow
  <2>3. Confirmed(t) => Credited(t)
    BY <1>5, <2>1 DEF LostInv, CreditsInv, RowOK, Confirmed
  <2>4. Handled(t)'
    BY <1>2, <2>2, <2>3 DEF Handled, RecordsStay
  <2>5. QED
    BY <1>1, <1>2, <1>5, <2>1, <2>4, ProcessedScans DEF AtLog
<1>6. QED
  BY <1>4, <1>5 DEF Look

LEMMA RecordLost ==
    ASSUME LostInv, NEW s \in Scanner, Record(s)
    PROVE  LostInv'
<1>1. /\ CreditsInv' /\ UNCHANGED <<postings, scannerState, chain, lives>>
      /\ work[s].pc = "recording" /\ failures \subseteq failures'
  BY RecordStep DEF LostInv, Record, Failed, NoFault, Fault
<1>2. PICK t \in Transaction : t = ThisTx(s)
  BY <1>1, AtTransaction DEF AtLog, LostInv
<1>3. BlocksStay
  BY <1>1, SameChain DEF LostInv
<1>4. PICK r : r = RowOf(ThisLog(s))
  OBVIOUS
<1>5. UNCHANGED deposits \/ (deposits[t] = NoRow /\ deposits' = [deposits EXCEPT ![t] = r])
  BY <1>2, <1>4 DEF Record, Failed
<1>6. DOMAIN deposits = Transaction
  BY DEF LostInv, CreditsInv, StoredTypes
<1>7. RecordsStay
  <2>1. ASSUME NEW u \in Transaction, Handled(u) PROVE Handled(u)'
    <3>1. deposits'[u] = deposits[u]
      BY <1>5, <1>6, <2>1 DEF Handled
    <3>2. Credited(u)' = Credited(u) /\ Confirmed(u)' = Confirmed(u)
      BY <1>1, <3>1 DEF Credited, Confirmed, Accounts!IsPosted
    <3>3. QED
      BY <1>1, <2>1, <3>1, <3>2 DEF Handled
  <2>2. QED
    BY <2>1 DEF RecordsStay
<1>13. RowsTell'
  <2>1. CASE UNCHANGED deposits
    BY <2>1, SameRows
  <2>2. CASE deposits' = [deposits EXCEPT ![t] = r]
    <3>1. PICK i \in AskedLogs(t) : i = This(s).index
      BY <1>1, <1>2, AtTransaction DEF AtLog, LostInv
    <3>2. r = RowOf(Logs[t][i])
      BY <1>2, <1>4, <3>1 DEF ThisLog
    <3>3. OnRecord(t, i)'
      BY <1>6, <2>2, <3>2 DEF OnRecord
    <3>4. \A u \in Transaction : u # t => deposits'[u] = deposits[u]
      BY <1>6, <2>2
    <3>5. QED
      BY <3>1, <3>3, <3>4, OtherRows
  <2>3. QED
    BY <1>5, <2>1, <2>2
<1>8. SUFFICES \A q \in Scanner : ScanOK(work[q])'
  BY <1>1, <1>3, <1>7, <1>13, QuietLost
<1>9. CASE Abort(s)
  BY <1>3, <1>7, <1>9, AbortScans
<1>10. CASE Goto(s, "crediting")
  BY <1>1, <1>3, <1>7, <1>10, GotoScans DEF AtLog
<1>11. CASE deposits' = [deposits EXCEPT ![t] = r] /\ r.status # "CONFIRMED" /\ Processed(s)
  <2>1. deposits'[t] = r
    BY <1>6, <1>11
  <2>2. r.status # "CREDITED" /\ r # NoRow
    BY <1>4 DEF RowOf, NoRow, None
  <2>3. Handled(t)'
    BY <1>11, <2>1, <2>2 DEF Handled, Confirmed
  <2>4. QED
    BY <1>1, <1>2, <1>3, <1>7, <1>11, <2>3, ProcessedScans DEF AtLog
<1>12. QED
  BY <1>2, <1>4, <1>9, <1>10, <1>11 DEF Record, Failed

LEMMA CreditLost ==
    ASSUME LostInv, NEW s \in Scanner, Credit(s)
    PROVE  LostInv'
<1>1. /\ CreditsInv /\ CreditsInv' /\ UNCHANGED <<deposits, scannerState, chain, lives>>
      /\ work[s].pc = "crediting" /\ failures \subseteq failures'
  BY CreditStep DEF LostInv, Credit, NoFault, Fault
<1>2. PICK t \in Transaction : t = ThisTx(s)
  BY <1>1, AtTransaction DEF AtLog
<1>3. Confirmed(t) /\ BlocksStay
  BY <1>1, <1>2, AtTransaction, SameChain DEF AtLog
<1>4. \A u \in Transaction : Credited(u) => Credited(u)'
  <2>1. CASE UNCHANGED <<balances, postings>>
    BY <2>1 DEF Credited, Accounts!IsPosted
  <2>2. CASE Accounts!Post(CreditCall(t))
    <3>1. DOMAIN work' = Scanner
      BY <1>1 DEF CreditsInv, StoredTypes
    <3>2. Kept
      BY <1>1, <1>3, <2>2, <3>1, CreditKeeps
    <3>3. QED
      BY <3>2 DEF Kept
  <2>3. QED
    BY <1>2, <2>1, <2>2 DEF Credit
<1>5. RecordsStay
  BY <1>1, <1>4 DEF RecordsStay, Handled, Confirmed
<1>6. SUFFICES \A q \in Scanner : ScanOK(work[q])'
  BY <1>1, <1>3, <1>5, SameRows, QuietLost
<1>7. CASE Goto(s, "marking")
  BY <1>1, <1>3, <1>5, <1>7, GotoScans DEF AtLog
<1>8. CASE Processed(s) /\ Fault("credit")
  <2>1. "credit" \in failures'
    BY <1>8 DEF Fault
  <2>2. deposits'[t] # NoRow
    BY <1>1, <1>3 DEF Confirmed, NoRow, None
  <2>3. Handled(t)'
    BY <2>1, <2>2 DEF Handled
  <2>4. QED
    BY <1>1, <1>2, <1>3, <1>5, <1>8, <2>3, ProcessedScans DEF AtLog
<1>9. QED
  BY <1>7, <1>8 DEF Credit

LEMMA MarkCreditedLost ==
    ASSUME LostInv, NEW s \in Scanner, MarkCredited(s)
    PROVE  LostInv'
<1>1. /\ CreditsInv /\ CreditsInv' /\ UNCHANGED <<postings, scannerState, chain, lives>>
      /\ work[s].pc = "marking" /\ failures \subseteq failures' /\ Processed(s)
  BY MarkCreditedStep DEF LostInv, MarkCredited, NoFault, Fault
<1>2. PICK t \in Transaction : t = ThisTx(s)
  BY <1>1, AtTransaction DEF AtLog
<1>3. Credited(t) /\ Confirmed(t) /\ BlocksStay
  BY <1>1, <1>2, AtTransaction, SameChain DEF AtLog
<1>4. \A u \in Transaction : Credited(u)' = Credited(u)
  BY <1>1 DEF Credited, Accounts!IsPosted
<1>5. DOMAIN deposits = Transaction
  BY <1>1 DEF CreditsInv, StoredTypes
<1>6. \A u \in Transaction : u # t => deposits'[u] = deposits[u]
  BY <1>2, <1>5 DEF MarkCredited
<1>7. Handled(t)'
  <2>1. deposits[t] \in DepositRow
    BY <1>1, <1>3, ConfirmedIsRow DEF CreditsInv
  <2>2. deposits'[t] = deposits[t] \/ deposits'[t] = [deposits[t] EXCEPT !.status = "CREDITED"]
    BY <1>2, <1>5 DEF MarkCredited
  <2>3. deposits'[t].status \in {"CONFIRMED", "CREDITED"}
    BY <1>3, <2>1, <2>2 DEF Confirmed, DepositRow
  <2>4. deposits'[t] # NoRow
    BY <2>3 DEF NoRow, None
  <2>5. QED
    BY <1>3, <1>4, <2>4 DEF Handled
<1>8. RecordsStay
  <2>1. ASSUME NEW u \in Transaction, u # t, Handled(u) PROVE Handled(u)'
    <3>1. deposits'[u] = deposits[u] /\ Confirmed(u)' = Confirmed(u)
      BY <1>6, <2>1 DEF Confirmed
    <3>2. QED
      BY <1>1, <1>4, <2>1, <3>1 DEF Handled
  <2>2. QED
    BY <1>7, <2>1 DEF RecordsStay
<1>9. RowsTell'
  <2>1. PICK i \in AskedLogs(t) : OnRecord(t, i)
    BY <1>3 DEF LostInv, RowsTell, Confirmed, NoRow, None
  <2>2. OnRecord(t, i)'
    <3>1. PICK r : r = RowOf(Logs[t][i])
      OBVIOUS
    <3>2. r.status # "CREDITED"
      BY <3>1 DEF RowOf
    <3>3. r.status = "CONFIRMED"
      BY <1>3, <2>1, <3>1, <3>2 DEF OnRecord, Confirmed
    <3>4. deposits'[t] = deposits[t] \/ deposits'[t] = [deposits[t] EXCEPT !.status = "CREDITED"]
      BY <1>2, <1>5 DEF MarkCredited
    <3>5. deposits'[t] = r \/ deposits'[t] = [r EXCEPT !.status = "CREDITED"]
      BY <2>1, <3>1, <3>4 DEF OnRecord
    <3>6. QED
      BY <3>1, <3>3, <3>5 DEF OnRecord
  <2>3. QED
    BY <1>6, <2>1, <2>2, OtherRows
<1>10. QED
  BY <1>1, <1>2, <1>3, <1>7, <1>8, <1>9, ProcessedScans, QuietLost DEF AtLog

LEMMA CrashLost ==
    ASSUME LostInv, NEW s \in Scanner, Crash(s)
    PROVE  LostInv'
<1>1. /\ CreditsInv' /\ UNCHANGED <<postings, deposits, scannerState, chain, lives>>
      /\ \E f : Fault(f)
      /\ Abort(s)
  BY CrashStep DEF LostInv, Crash
<1>2. BlocksStay /\ RecordsStay /\ RowsTell'
  BY <1>1, SameChain, SameRecords, SameRows, Faults DEF LostInv
<1>3. QED
  BY <1>1, <1>2, AbortScans, QuietLost

LEMMA ChainLost ==
    ASSUME LostInv, CreditsInv', BlocksStay,
           UNCHANGED <<postings, deposits, scannerState, work, failures>>
    PROVE  LostInv'
<1>1. RecordsStay /\ RowsTell'
  BY SameRecords, SameRows
<1>2. \A s \in Scanner : ScanOK(work[s])'
  <2>1. ASSUME NEW s \in Scanner PROVE ScanOK(work[s])'
    <3>1. PICK w : w = work[s]
      OBVIOUS
    <3>2. ScanOK(w)'
      BY <1>1, <3>1, ScanStays DEF LostInv, CreditsInv
    <3>3. QED
      BY <3>1, <3>2
  <2>2. QED
    BY <2>1
<1>3. QED
  BY <1>1, <1>2, QuietLost

LEMMA NextKeepsLostInv ==
    LostInv /\ [DepositsNext]_depositsVars => LostInv'
<1> SUFFICES ASSUME LostInv, [DepositsNext]_depositsVars PROVE LostInv'
  OBVIOUS
<1>1. CreditsInv /\ CreditsInv'
  BY NextKeepsCreditsInv DEF LostInv
<1>2. ASSUME NEW s \in Scanner, ScannerStep(s) PROVE LostInv'
  BY <1>2, PollLost, ReadCursorLost, StartOverLost, GetLogsLost, WriteCursorLost, LookLost,
     RecordLost, CreditLost, MarkCreditedLost DEF ScannerStep
<1>3. ASSUME NEW s \in Scanner, Crash(s) PROVE LostInv'
  BY <1>3, CrashLost
<1>4. ASSUME NEW b \in Transaction \cup {None}, Mine(b) PROVE LostInv'
  BY <1>1, <1>4, MineBlocks, ChainLost DEF Mine
<1>5. CASE Reorganise
  BY <1>1, <1>5, ReorganiseBlocks, ChainLost DEF Reorganise
<1>6. CASE Reset
  BY <1>1, <1>6, ResetBlocks, ChainLost DEF Reset
<1>7. CASE UNCHANGED depositsVars
  BY <1>1, <1>7, SameChain, ChainLost DEF depositsVars
<1>8. QED
  BY <1>2, <1>3, <1>4, <1>5, <1>6, <1>7 DEF DepositsNext

LEMMA DepositsInitLost == DepositsInit => LostInv
<1> SUFFICES ASSUME DepositsInit PROVE LostInv
  OBVIOUS
<1>1. DOMAIN chain = {}
  BY DEF DepositsInit
<1>2. QED
  BY <1>1, DepositsInitInv DEF LostInv, CursorTells, ScanOK, RowsTell, DepositsInit

\* deposit-scanner.service.ts:80: the cursor moves over a range only when every deposit in it
\* that the scanner asks for, the only one of its transaction, is on record and, but for a
\* failed call to the accounts service, credited; whatever the vault logs besides, and
\* whatever else fails, crashes, is reorganised or reset.
THEOREM DepositsNothingLost == DepositsSpec => []NothingLost
<1>1. LostInv => NothingLost
  <2> SUFFICES ASSUME LostInv, scannerState.life = lives, NEW n \in DOMAIN chain,
                      n <= scannerState.block, chain[n] # None, NEW i \in Only(chain[n])
               PROVE  OnRecord(chain[n], i) /\ Handled(chain[n])
    BY DEF NothingLost, Handled
  <2>1. PICK t : t = chain[n]
    OBVIOUS
  <2>2. t \in Transaction
    BY <2>1, Lengths DEF LostInv, CreditsInv, StoredTypes
  <2>3. i \in AskedLogs(t) /\ AskedLogs(t) = {i}
    BY <2>1 DEF Only
  <2>4. Handled(t)
    BY <2>1, <2>2, <2>3 DEF LostInv, CursorTells
  <2>5. OnRecord(t, i)
    BY <2>2, <2>3, <2>4 DEF LostInv, RowsTell, Handled
  <2>6. QED
    BY <2>1, <2>4, <2>5
<1>2. DepositsSpec => []LostInv
  BY DepositsInitLost, NextKeepsLostInv, PTL DEF DepositsSpec
<1>3. QED
  BY <1>1, <1>2, PTL
=============================================================================
