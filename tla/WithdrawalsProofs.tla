--------------------------- MODULE WithdrawalsProofs ---------------------------
(***************************************************************************)
(* Proofs about Withdrawals. However often a withdrawal is requested,      *)
(* however many instances work on it and recover it, and whatever fails,   *)
(* one transaction is sent for it at most; the balances play no part in    *)
(* that. What may be transferred stays locked, for the users who share no  *)
(* key, the events are true of the chain, and no row is left behind, as    *)
(* far as no error was taken for one of the insert or of the transaction.  *)
(***************************************************************************)
EXTENDS Withdrawals, SumTheorems, TLAPS

Sending(w, i) == work[w].pc = "sending" /\ work[w].row = i

\* A row that is not pending never becomes pending again, and only the instance that
\* took it from the pending ones sends its transaction.
PayInv ==
    /\ \A i, j \in 1 .. Len(rows) :
          rows[i].user = rows[j].user /\ rows[i].key = rows[j].key => i = j
    /\ \A t \in 1 .. Len(chain) : rows[chain[t].row].status # "PENDING"
    /\ \A s, t \in 1 .. Len(chain) : chain[s].row = chain[t].row => s = t
    /\ \A w \in Worker, i \in Nat : Sending(w, i) =>
          /\ i \in 1 .. Len(rows) /\ rows[i].status # "PENDING"
          /\ \A t \in 1 .. Len(chain) : chain[t].row # i
    /\ \A v, w \in Worker, i \in Nat : Sending(v, i) /\ Sending(w, i) => v = w

-----------------------------------------------------------------------------
(***************************************************************************)
(* Types.                                                                  *)
(***************************************************************************)

LEMMA Sequence ==
    ASSUME NEW S, NEW s \in Seq(S)
    PROVE  /\ Len(s) \in Nat /\ DOMAIN s = 1 .. Len(s) /\ s \in [1 .. Len(s) -> S]
           /\ \A e \in S : /\ Append(s, e) \in Seq(S) /\ Len(Append(s, e)) = Len(s) + 1
                           /\ DOMAIN Append(s, e) = 1 .. Len(s) + 1
                           /\ \A i \in 1 .. Len(s) : Append(s, e)[i] = s[i]
                           /\ Append(s, e)[Len(s) + 1] = e
OBVIOUS

LEMMA Replaced ==
    ASSUME NEW S, NEW s \in Seq(S), NEW t \in [1 .. Len(s) -> S]
    PROVE  t \in Seq(S) /\ Len(t) = Len(s) /\ DOMAIN t = 1 .. Len(s)
OBVIOUS

LEMMA Lengths ==
    ASSUME TypeOK
    PROVE  /\ Len(rows) \in Nat /\ DOMAIN rows = 1 .. Len(rows) /\ rows \in [1 .. Len(rows) -> Withdrawal]
           /\ Len(chain) \in Nat /\ DOMAIN chain = 1 .. Len(chain) /\ chain \in [1 .. Len(chain) -> Transaction]
BY Sequence DEF TypeOK

\* The table has what it had, with other statuses and hashes perhaps; no row is pending again.
RowsStay ==
    /\ rows' \in Seq(Withdrawal) /\ Len(rows') = Len(rows) /\ DOMAIN rows' = DOMAIN rows
    /\ \A i \in 1 .. Len(rows) :
          /\ rows'[i].user = rows[i].user /\ rows'[i].key = rows[i].key
          /\ rows'[i].status = "PENDING" => rows[i].status = "PENDING"

\* So has the chain.
ChainStays ==
    /\ chain' \in Seq(Transaction) /\ Len(chain') = Len(chain) /\ DOMAIN chain' = DOMAIN chain
    /\ \A t \in 1 .. Len(chain) : chain'[t].row = chain[t].row

HashesKnown == \A i \in 1 .. Len(rows) : rows'[i].hash \in 0 .. Len(chain)

\* The record of w becomes x, which refers to rows and hashes there are.
Becomes(w, x) ==
    /\ x \in Work /\ x.row \in 0 .. Len(rows) /\ x.todo \subseteq 1 .. Len(rows)
    /\ work' = [work EXCEPT ![w] = x]

HandlersStay == handling' \in [Handler -> Handling]

LEMMA Unchanged ==
    ASSUME TypeOK
    PROVE  /\ UNCHANGED rows => RowsStay /\ HashesKnown
           /\ UNCHANGED chain => ChainStays
           /\ UNCHANGED handling => HandlersStay
BY Lengths DEF TypeOK, RowsStay, HashesKnown, ChainStays, HandlersStay

\* A step that neither sends a transaction, nor adds or takes a row.
LEMMA PlainStep ==
    ASSUME TypeOK, PayInv, RowsStay, HashesKnown, ChainStays, HandlersStay,
           NEW w, NEW x,
           UNCHANGED work \/ (w \in Worker /\ Becomes(w, x) /\ x.pc # "sending" /\ x.hash \in 0 .. Len(chain))
    PROVE  TypeOK' /\ PayInv'
<1>1. /\ Len(rows) \in Nat /\ DOMAIN rows = 1 .. Len(rows)
      /\ Len(chain) \in Nat /\ DOMAIN chain = 1 .. Len(chain)
  BY Lengths
<1>2. \A v \in Worker : work'[v] = work[v] \/ (v = w /\ Becomes(w, x) /\ work'[v] = x)
  BY DEF Becomes, TypeOK
<1>3. work' \in [Worker -> Work]
  BY DEF Becomes, TypeOK
<1>4. \A v \in Worker : /\ work'[v].row \in 0 .. Len(rows) /\ work'[v].hash \in 0 .. Len(chain)
                        /\ work'[v].todo \subseteq 1 .. Len(rows)
  BY <1>1, <1>2 DEF Becomes, TypeOK
<1>5. TypeOK'
  BY <1>1, <1>3, <1>4 DEF TypeOK, RowsStay, HashesKnown, ChainStays, HandlersStay
<1>6. \A v \in Worker, i \in Nat : Sending(v, i)' => Sending(v, i)
  BY <1>2 DEF Sending
<1>7. PayInv'
  <2>1. \A i, j \in 1 .. Len(rows') : rows'[i].user = rows'[j].user /\ rows'[i].key = rows'[j].key => i = j
    BY DEF PayInv, RowsStay
  <2>2. \A t \in 1 .. Len(chain') : rows'[chain'[t].row].status # "PENDING"
    <3> SUFFICES ASSUME NEW t \in 1 .. Len(chain) PROVE rows'[chain[t].row].status # "PENDING"
      BY DEF ChainStays
    <3>1. chain[t].row \in 1 .. Len(rows) /\ rows[chain[t].row].status # "PENDING"
      BY <1>1 DEF PayInv, TypeOK
    <3>2. QED
      BY <3>1 DEF RowsStay
  <2>3. \A s, t \in 1 .. Len(chain') : chain'[s].row = chain'[t].row => s = t
    BY DEF PayInv, ChainStays
  <2>4. \A v \in Worker, i \in Nat : Sending(v, i)' =>
           /\ i \in 1 .. Len(rows') /\ rows'[i].status # "PENDING"
           /\ \A t \in 1 .. Len(chain') : chain'[t].row # i
    BY <1>6 DEF PayInv, RowsStay, ChainStays
  <2>5. \A u, v \in Worker, i \in Nat : Sending(u, i)' /\ Sending(v, i)' => u = v
    BY <1>6 DEF PayInv
  <2>6. QED
    BY <2>1, <2>2, <2>3, <2>4, <2>5 DEF PayInv
<1>8. QED
  BY <1>5, <1>7

-----------------------------------------------------------------------------
(***************************************************************************)
(* Handlers.                                                               *)
(***************************************************************************)

LEMMA HandlersReach ==
    ASSUME TypeOK, NEW h \in Handler, NEW step \in {"idle", "checked", "locked", "compensating"},
           Reach(h, step)
    PROVE  HandlersStay
<1> DEFINE x == [handling[h] EXCEPT !.pc = step]
<1>1. handling \in [Handler -> Handling]
  BY DEF TypeOK
<1>2. x \in Handling /\ handling' = [handling EXCEPT ![h] = x]
  BY <1>1 DEF Handling, Reach
<1> HIDE DEF x
<1>3. QED
  BY <1>1, <1>2 DEF HandlersStay

LEMMA LookUpKeeps ==
    ASSUME TypeOK, PayInv, NEW h \in Handler, NEW r \in Request, LookUp(h, r)
    PROVE  TypeOK' /\ PayInv'
<1>1. UNCHANGED <<rows, chain, work>>
  BY DEF LookUp
<1>2. HandlersStay
  BY DEF LookUp, HandlersStay, TypeOK, Handling
<1>3. QED
  BY <1>1, <1>2, Unchanged, PlainStep

LEMMA HandlersKeep ==
    ASSUME TypeOK, PayInv, NEW h \in Handler, LockFunds(h) \/ Compensate(h) \/ Abandon(h)
    PROVE  TypeOK' /\ PayInv'
<1>1. UNCHANGED <<rows, chain, work>>
  BY DEF LockFunds, Compensate, Abandon
<1>2. HandlersStay
  BY HandlersReach DEF LockFunds, Compensate, Abandon
<1>3. QED
  BY <1>1, <1>2, Unchanged, PlainStep

LEMMA InsertRowKeeps ==
    ASSUME TypeOK, PayInv, NEW h \in Handler, InsertRow(h)
    PROVE  TypeOK' /\ PayInv'
<1> DEFINE r == handling[h].req
           new == NewRow(r)
           n == Len(rows) + 1
<1>1. HandlersStay /\ UNCHANGED <<chain, work>>
  BY HandlersReach DEF InsertRow
<1>2. CASE UNCHANGED rows
  BY <1>1, <1>2, Unchanged, PlainStep
<1>3. CASE ~Requested(r) /\ rows' = Append(rows, new)
  <2>1. /\ r \in Request /\ Len(rows) \in Nat /\ DOMAIN rows = 1 .. Len(rows) /\ rows \in Seq(Withdrawal)
        /\ Len(chain) \in Nat /\ DOMAIN chain = 1 .. Len(chain)
    BY Lengths DEF TypeOK, Handling
  <2>2. new \in Withdrawal /\ new.user = r.user /\ new.key = r.key /\ new.hash = 0
    BY <2>1, RequestAssumption DEF NewRow, Withdrawal
  <2>3. \A i \in 1 .. Len(rows) : ~(rows[i].user = r.user /\ rows[i].key = r.key)
    BY <1>3, <2>1 DEF Requested
  <2> HIDE DEF new, r
  <2>4. /\ rows' \in Seq(Withdrawal) /\ Len(rows') = n /\ DOMAIN rows' = 1 .. n
        /\ rows'[n] = new /\ \A i \in 1 .. Len(rows) : rows'[i] = rows[i]
    BY <1>3, <2>1, <2>2, Sequence
  <2>5. \A i \in 1 .. n : i \in 1 .. Len(rows) \/ i = n
    BY <2>1
  <2>6. n \in Nat /\ 1 .. Len(rows) \subseteq 1 .. n /\ 0 .. Len(rows) \subseteq 0 .. n /\ n \notin 1 .. Len(rows)
    BY <2>1
  <2> HIDE DEF n
  <2>7. TypeOK'
    <3>1. \A i \in DOMAIN rows' : rows'[i].hash \in 0 .. Len(chain)
      BY <2>1, <2>2, <2>4, <2>5 DEF TypeOK
    <3>2. \A t \in DOMAIN chain : chain[t].row \in DOMAIN rows'
      BY <2>1, <2>4, <2>6 DEF TypeOK
    <3>3. \A w \in Worker : work[w].row \in 0 .. Len(rows') /\ work[w].todo \subseteq DOMAIN rows'
      BY <2>1, <2>4, <2>6 DEF TypeOK
    <3>4. QED
      BY <1>1, <2>4, <3>1, <3>2, <3>3 DEF TypeOK, HandlersStay
  <2>8. PayInv'
    <3>1. \A i, j \in 1 .. Len(rows') : rows'[i].user = rows'[j].user /\ rows'[i].key = rows'[j].key => i = j
      BY <2>2, <2>3, <2>4, <2>5 DEF PayInv
    <3>2. \A t \in 1 .. Len(chain) : rows'[chain[t].row].status # "PENDING"
      BY <2>1, <2>4 DEF PayInv, TypeOK
    <3>3. \A w \in Worker, i \in Nat : Sending(w, i)' <=> Sending(w, i)
      BY <1>1 DEF Sending
    <3>4. \A w \in Worker, i \in Nat : Sending(w, i) =>
             /\ i \in 1 .. Len(rows') /\ rows'[i].status # "PENDING"
             /\ \A t \in 1 .. Len(chain) : chain[t].row # i
      BY <2>4, <2>6 DEF PayInv
    <3>5. QED
      BY <1>1, <3>1, <3>2, <3>3, <3>4 DEF PayInv
  <2>9. QED
    BY <2>7, <2>8
<1>4. QED
  BY <1>2, <1>3 DEF InsertRow

-----------------------------------------------------------------------------
(***************************************************************************)
(* Workers.                                                                *)
(***************************************************************************)

\* w picks a pending row.
LEMMA PickKeeps ==
    ASSUME TypeOK, PayInv, NEW w \in Worker, Pick(w)
    PROVE  TypeOK' /\ PayInv'
<1>1. PICK i \in DOMAIN rows :
          /\ NextPending(i) /\ rows' = [rows EXCEPT ![i].status = "PROCESSING"]
          /\ work' = [work EXCEPT ![w].pc = "sending", ![w].row = i]
          /\ UNCHANGED <<chain, handling>>
  BY DEF Pick
<1> DEFINE x == [work[w] EXCEPT !.pc = "sending", !.row = i]
           y == [rows[i] EXCEPT !.status = "PROCESSING"]
<1>2. /\ Len(rows) \in Nat /\ DOMAIN rows = 1 .. Len(rows) /\ rows \in [1 .. Len(rows) -> Withdrawal]
      /\ Len(chain) \in Nat /\ DOMAIN chain = 1 .. Len(chain) /\ rows \in Seq(Withdrawal)
      /\ work \in [Worker -> Work] /\ i \in Nat /\ i \in 1 .. Len(rows)
  BY Lengths DEF TypeOK
<1>3. /\ x \in Work /\ x.pc = "sending" /\ x.row = i
      /\ x.hash = work[w].hash /\ x.todo = work[w].todo
  BY <1>2 DEF Work
<1>4. /\ y \in Withdrawal /\ y.status = "PROCESSING"
      /\ y.user = rows[i].user /\ y.key = rows[i].key /\ y.hash = rows[i].hash
  BY <1>2 DEF Withdrawal
<1>5. work' = [work EXCEPT ![w] = x] /\ rows' = [rows EXCEPT ![i] = y]
  BY <1>1
<1> HIDE DEF x, y
<1>6. /\ rows' \in Seq(Withdrawal) /\ Len(rows') = Len(rows) /\ DOMAIN rows' = DOMAIN rows
      /\ rows'[i] = y /\ \A j \in 1 .. Len(rows) : j # i => rows'[j] = rows[j]
  BY <1>2, <1>4, <1>5, Replaced
<1>7. work'[w] = x /\ \A v \in Worker : v # w => work'[v] = work[v]
  BY <1>2, <1>5
<1>8. TypeOK'
  <2>1. \A j \in DOMAIN rows' : rows'[j].hash \in 0 .. Len(chain)
    BY <1>2, <1>4, <1>6 DEF TypeOK
  <2>2. work' \in [Worker -> Work]
    BY <1>2, <1>3, <1>5
  <2>3. \A v \in Worker : /\ work'[v].row \in 0 .. Len(rows) /\ work'[v].hash \in 0 .. Len(chain)
                          /\ work'[v].todo \subseteq DOMAIN rows
    BY <1>2, <1>3, <1>7 DEF TypeOK
  <2>4. QED
    BY <1>1, <1>6, <2>1, <2>2, <2>3 DEF TypeOK
<1>9. PayInv'
  <2>1. rows[i].status = "PENDING"
    BY <1>1 DEF NextPending
  <2>2. \A j \in 1 .. Len(rows) : rows'[j].user = rows[j].user /\ rows'[j].key = rows[j].key
                                  /\ (rows'[j].status = "PENDING" => rows[j].status = "PENDING")
    BY <1>4, <1>6
  <2>3. \A t \in 1 .. Len(chain) : chain[t].row # i /\ chain[t].row \in 1 .. Len(rows)
    BY <1>2, <2>1 DEF PayInv, TypeOK
  <2>4. \A v \in Worker : ~Sending(v, i)
    BY <1>2, <2>1 DEF PayInv
  <2>5. \A v \in Worker, j \in Nat : Sending(v, j)' => (v = w /\ j = i) \/ (v # w /\ Sending(v, j))
    BY <1>3, <1>7 DEF Sending
  <2>6. \A k, j \in 1 .. Len(rows') : rows'[k].user = rows'[j].user /\ rows'[k].key = rows'[j].key => k = j
    BY <1>6, <2>2 DEF PayInv
  <2>7. \A t \in 1 .. Len(chain) : rows'[chain[t].row].status # "PENDING"
    BY <2>2, <2>3 DEF PayInv
  <2>8. \A v \in Worker, j \in Nat : Sending(v, j)' =>
           /\ j \in 1 .. Len(rows') /\ rows'[j].status # "PENDING"
           /\ \A t \in 1 .. Len(chain) : chain[t].row # j
    <3> SUFFICES ASSUME NEW v \in Worker, NEW j \in Nat, Sending(v, j)'
                 PROVE  /\ j \in 1 .. Len(rows') /\ rows'[j].status # "PENDING"
                        /\ \A t \in 1 .. Len(chain) : chain[t].row # j
      OBVIOUS
    <3>1. CASE j = i
      BY <1>2, <1>4, <1>6, <2>3, <3>1
    <3>2. CASE Sending(v, j)
      BY <1>6, <2>2, <3>2 DEF PayInv
    <3>3. QED
      BY <2>5, <3>1, <3>2
  <2>9. \A u, v \in Worker, j \in Nat : Sending(u, j)' /\ Sending(v, j)' => u = v
    BY <2>4, <2>5 DEF PayInv
  <2>10. QED
    BY <1>1, <2>6, <2>7, <2>8, <2>9 DEF PayInv
<1>10. QED
  BY <1>8, <1>9

\* The transaction of w's row is sent; w goes on to x.
LEMMA SentKeeps ==
    ASSUME TypeOK, PayInv, NEW w \in Worker, work[w].pc = "sending", chain' = Sent(work[w].row),
           UNCHANGED <<rows, handling>>,
           NEW x, Becomes(w, x), x.pc # "sending", x.hash \in 0 .. Len(chain) + 1
    PROVE  TypeOK' /\ PayInv'
<1> DEFINE i == work[w].row
           new == [row |-> i, amount |-> Payable(rows[i].amount), status |-> "pending"]
           n == Len(chain) + 1
<1>1. /\ Len(rows) \in Nat /\ DOMAIN rows = 1 .. Len(rows) /\ rows \in [1 .. Len(rows) -> Withdrawal]
      /\ Len(chain) \in Nat /\ DOMAIN chain = 1 .. Len(chain) /\ chain \in Seq(Transaction)
      /\ work \in [Worker -> Work] /\ i \in Nat /\ Sending(w, i)
  BY Lengths DEF TypeOK, Work, Sending
<1>2. i \in 1 .. Len(rows) /\ rows[i].status # "PENDING" /\ \A t \in 1 .. Len(chain) : chain[t].row # i
  BY <1>1 DEF PayInv
<1>3. new \in Transaction /\ new.row = i
  <2>1. rows[i].amount \in Nat
    BY <1>1, <1>2 DEF Withdrawal
  <2>2. Payable(rows[i].amount) \in Int
    BY <2>1, UnitsAssumption DEF Payable
  <2>3. QED
    BY <1>1, <2>2 DEF Transaction
<1>4. chain' = Append(chain, new)
  BY DEF Sent
<1> HIDE DEF new
<1>5. /\ chain' \in Seq(Transaction) /\ Len(chain') = n /\ DOMAIN chain' = 1 .. n
      /\ chain'[n] = new /\ \A t \in 1 .. Len(chain) : chain'[t] = chain[t]
  BY <1>1, <1>3, <1>4, Sequence
<1>6. /\ \A t \in 1 .. n : t \in 1 .. Len(chain) \/ t = n
      /\ 0 .. Len(chain) \subseteq 0 .. n /\ n \notin 1 .. Len(chain)
  BY <1>1
<1>7. work'[w] = x /\ work' \in [Worker -> Work] /\ \A v \in Worker : v # w => work'[v] = work[v]
  BY <1>1 DEF Becomes
<1>8. TypeOK'
  <2>1. \A j \in DOMAIN rows : rows[j].hash \in 0 .. n
    BY <1>1, <1>6 DEF TypeOK
  <2>2. \A t \in DOMAIN chain' : chain'[t].row \in DOMAIN rows
    BY <1>1, <1>2, <1>3, <1>5, <1>6 DEF TypeOK
  <2>3. \A v \in Worker : /\ work'[v].row \in 0 .. Len(rows) /\ work'[v].hash \in 0 .. n
                          /\ work'[v].todo \subseteq DOMAIN rows
    <3> SUFFICES ASSUME NEW v \in Worker
                 PROVE  /\ work'[v].row \in 0 .. Len(rows) /\ work'[v].hash \in 0 .. n
                        /\ work'[v].todo \subseteq DOMAIN rows
      OBVIOUS
    <3>1. CASE v = w
      BY <1>1, <1>7, <3>1 DEF Becomes
    <3>2. CASE v # w
      BY <1>6, <1>7, <3>2 DEF TypeOK
    <3>3. QED
      BY <3>1, <3>2
  <2>4. QED
    BY <1>5, <1>7, <2>1, <2>2, <2>3 DEF TypeOK
<1>9. PayInv'
  <2>1. \A v \in Worker, j \in Nat : Sending(v, j)' => v # w /\ Sending(v, j)
    BY <1>7 DEF Sending
  <2>2. \A v \in Worker, j \in Nat : Sending(v, j)' => j # i
    BY <1>1, <2>1 DEF PayInv
  <2> HIDE DEF n, i
  <2>3. \A t \in 1 .. n : (chain'[t].row = chain[t].row /\ t \in 1 .. Len(chain)) \/ (t = n /\ chain'[t].row = i)
    BY <1>3, <1>5, <1>6
  <2>4. \A t \in 1 .. n : rows[chain'[t].row].status # "PENDING"
    BY <1>2, <2>3 DEF PayInv
  <2>5. \A s, t \in 1 .. n : chain'[s].row = chain'[t].row => s = t
    BY <1>2, <2>3 DEF PayInv
  <2>6. \A v \in Worker, j \in Nat : Sending(v, j)' =>
           /\ j \in 1 .. Len(rows) /\ rows[j].status # "PENDING"
           /\ \A t \in 1 .. n : chain'[t].row # j
    BY <2>1, <2>2, <2>3 DEF PayInv
  <2>7. \A u, v \in Worker, j \in Nat : Sending(u, j)' /\ Sending(v, j)' => u = v
    BY <2>1 DEF PayInv
  <2>8. QED
    BY <1>5, <2>4, <2>5, <2>6, <2>7 DEF PayInv
<1>10. QED
  BY <1>8, <1>9

\* How the actions say that w goes on.
LEMMA WorkersMove ==
    ASSUME TypeOK, NEW w \in Worker
    PROVE  /\ \A step \in {"waiting", "debiting", "completing", "unlocking", "failing"} :
                 Goto(w, step) => \E x : Becomes(w, x) /\ x.pc # "sending" /\ x.hash \in 0 .. Len(chain)
           /\ Finish(w) => \E x : Becomes(w, x) /\ x.pc # "sending" /\ x.hash \in 0 .. Len(chain)
<1>1. /\ work \in [Worker -> Work] /\ work[w] \in Work /\ Len(rows) \in Nat /\ Len(chain) \in Nat
      /\ work[w].row \in 0 .. Len(rows) /\ work[w].hash \in 0 .. Len(chain)
      /\ work[w].todo \subseteq 1 .. Len(rows)
  BY Lengths DEF TypeOK
<1>2. ASSUME NEW step \in {"waiting", "debiting", "completing", "unlocking", "failing"}, Goto(w, step)
      PROVE  \E x : Becomes(w, x) /\ x.pc # "sending" /\ x.hash \in 0 .. Len(chain)
  <2> DEFINE x == [work[w] EXCEPT !.pc = step]
  <2>1. x \in Work /\ x.pc = step /\ x.row = work[w].row /\ x.hash = work[w].hash /\ x.todo = work[w].todo
    BY <1>1 DEF Work
  <2>2. work' = [work EXCEPT ![w] = x]
    BY <1>2 DEF Goto
  <2> HIDE DEF x
  <2>3. Becomes(w, x) /\ x.pc # "sending" /\ x.hash \in 0 .. Len(chain)
    BY <1>1, <2>1, <2>2 DEF Becomes
  <2>4. QED
    BY <2>3
<1>3. ASSUME Finish(w) PROVE \E x : Becomes(w, x) /\ x.pc # "sending" /\ x.hash \in 0 .. Len(chain)
  <2> DEFINE x == [pc |-> IF work[w].todo = {} THEN "polling" ELSE "recovering",
                   row |-> 0, hash |-> 0, todo |-> work[w].todo]
  <2>1. x \in Work /\ x.pc # "sending" /\ x.row = 0 /\ x.hash = 0 /\ x.todo = work[w].todo
    BY <1>1 DEF Work
  <2>2. work' = [work EXCEPT ![w] = x]
    BY <1>3 DEF Finish
  <2> HIDE DEF x
  <2>3. Becomes(w, x) /\ x.pc # "sending" /\ x.hash \in 0 .. Len(chain)
    BY <1>1, <2>1, <2>2 DEF Becomes
  <2>4. QED
    BY <2>3
<1>4. QED
  BY <1>2, <1>3

\* w goes on, with the chain as it is, and the table as it is or with another status or
\* hash in one row.
LEMMA MovesKeep ==
    ASSUME TypeOK, PayInv, NEW w \in Worker, RowsStay, HashesKnown, UNCHANGED <<chain, handling>>,
           \/ \E step \in {"waiting", "debiting", "completing", "unlocking", "failing"} : Goto(w, step)
           \/ Finish(w)
    PROVE  TypeOK' /\ PayInv'
<1>1. PICK x : Becomes(w, x) /\ x.pc # "sending" /\ x.hash \in 0 .. Len(chain)
  BY WorkersMove
<1>2. QED
  BY <1>1, Unchanged, PlainStep

\* A worker's record after it sent a transaction, and one it starts a row or a poll with.
LEMMA RecordingIsWork ==
    ASSUME NEW r \in Work, NEW n \in Nat
    PROVE  LET x == [r EXCEPT !.pc = "recording", !.hash = n]
           IN  x \in Work /\ x.pc = "recording" /\ x.hash = n /\ x.row = r.row /\ x.todo = r.todo
BY DEF Work

LEMMA BuiltIsWork ==
    ASSUME NEW pc \in {"polling", "recovering", "debiting", "unlocking"},
           NEW row \in Nat, NEW hash \in Nat, NEW todo \in SUBSET Nat
    PROVE  LET x == [pc |-> pc, row |-> row, hash |-> hash, todo |-> todo]
           IN  /\ x \in Work /\ x.pc = pc /\ x.pc # "sending"
               /\ x.row = row /\ x.hash = hash /\ x.todo = todo
BY DEF Work

LEMMA SendKeeps ==
    ASSUME TypeOK, PayInv, NEW w \in Worker, Send(w)
    PROVE  TypeOK' /\ PayInv'
<1>1. work[w].pc = "sending" /\ UNCHANGED <<rows, handling>>
  BY DEF Send
<1>2. CASE chain' = Sent(work[w].row) /\ work' = [work EXCEPT ![w].pc = "recording", ![w].hash = Len(chain')]
  <2> DEFINE r == work[w]
             n == Len(chain')
             x == [r EXCEPT !.pc = "recording", !.hash = n]
  <2>1. Len(chain') = Len(chain) + 1 /\ Len(chain) \in Nat
    <3>1. Len(chain) \in Nat /\ chain \in Seq(Transaction)
      BY Lengths DEF TypeOK
    <3>2. chain' = Append(chain, [row |-> work[w].row, amount |-> Payable(rows[work[w].row].amount),
                                  status |-> "pending"])
      BY <1>2 DEF Sent
    <3>3. QED
      BY <3>1, <3>2
  <2>2. work[w] \in Work /\ work[w].row \in 0 .. Len(rows) /\ work[w].todo \subseteq 1 .. Len(rows)
    BY Lengths DEF TypeOK
  <2>3. x \in Work /\ x.pc = "recording" /\ x.hash = Len(chain') /\ x.row = work[w].row /\ x.todo = work[w].todo
    <3>1. r \in Work /\ n \in Nat
      BY <2>1, <2>2
    <3> HIDE DEF r, n
    <3>2. x \in Work /\ x.pc = "recording" /\ x.hash = n /\ x.row = r.row /\ x.todo = r.todo
      BY <3>1, RecordingIsWork
    <3>3. QED
      BY <3>2 DEF r, n
  <2>4. work' = [work EXCEPT ![w] = x]
    BY <1>2
  <2> HIDE DEF x
  <2>5. Becomes(w, x) /\ x.pc # "sending" /\ x.hash \in 0 .. Len(chain) + 1
    BY <2>1, <2>2, <2>3, <2>4 DEF Becomes
  <2>6. QED
    BY <1>1, <1>2, <2>5, SentKeeps
<1>3. CASE UNCHANGED chain /\ Goto(w, "unlocking")
  BY <1>1, <1>3, Unchanged, MovesKeep
<1>4. CASE chain' = Sent(work[w].row) /\ Goto(w, "unlocking")
  <2>1. PICK x : Becomes(w, x) /\ x.pc # "sending" /\ x.hash \in 0 .. Len(chain)
    BY <1>4, WorkersMove
  <2>2. x.hash \in 0 .. Len(chain) + 1
    <3>1. Len(chain) \in Nat
      BY Lengths
    <3>2. 0 .. Len(chain) \subseteq 0 .. Len(chain) + 1
      BY <3>1
    <3>3. QED
      BY <2>1, <3>2
  <2>3. QED
    BY <1>1, <1>4, <2>1, <2>2, SentKeeps
<1>5. QED
  BY <1>2, <1>3, <1>4 DEF Send

\* The table after a change of one row.
LEMMA RowChanges ==
    ASSUME TypeOK, NEW i \in Nat, NEW y \in Withdrawal, rows' = [rows EXCEPT ![i] = y],
           i \in 1 .. Len(rows) => /\ y.user = rows[i].user /\ y.key = rows[i].key
                                   /\ y.status = "PENDING" => rows[i].status = "PENDING"
                                   /\ y.hash \in 0 .. Len(chain)
    PROVE  RowsStay /\ HashesKnown
<1>1. /\ Len(rows) \in Nat /\ DOMAIN rows = 1 .. Len(rows) /\ rows \in [1 .. Len(rows) -> Withdrawal]
      /\ rows \in Seq(Withdrawal)
  BY Lengths DEF TypeOK
<1>2. rows' \in Seq(Withdrawal) /\ Len(rows') = Len(rows) /\ DOMAIN rows' = DOMAIN rows
  BY <1>1, Replaced
<1>3. \A j \in 1 .. Len(rows) : rows'[j] = IF j = i THEN y ELSE rows[j]
  BY <1>1
<1>4. QED
  BY <1>1, <1>2, <1>3 DEF RowsStay, HashesKnown, TypeOK

LEMMA RecordHashKeeps ==
    ASSUME TypeOK, PayInv, NEW w \in Worker, RecordHash(w)
    PROVE  TypeOK' /\ PayInv'
<1> DEFINE i == work[w].row
           recorded == [rows EXCEPT ![i].hash = work[w].hash]
<1>1. UNCHANGED <<chain, handling>> /\ (Goto(w, "waiting") \/ Goto(w, "unlocking")) /\ rows' \in {rows, recorded}
  BY DEF RecordHash
<1>2. RowsStay /\ HashesKnown
  <2>1. CASE UNCHANGED rows
    BY <2>1, Unchanged
  <2>2. CASE i \notin 1 .. Len(rows) /\ rows' = recorded
    <3>1. UNCHANGED rows
      BY <2>2, Lengths
    <3>2. QED
      BY <3>1, Unchanged
  <2>3. CASE i \in 1 .. Len(rows) /\ rows' = recorded
    <3> DEFINE y == [rows[i] EXCEPT !.hash = work[w].hash]
    <3>1. rows[i] \in Withdrawal /\ work[w].hash \in 0 .. Len(chain) /\ work[w].hash \in Nat /\ i \in Nat
      BY <2>3, Lengths DEF TypeOK, Work
    <3>2. /\ y \in Withdrawal /\ y.user = rows[i].user /\ y.key = rows[i].key
          /\ y.status = rows[i].status /\ y.hash = work[w].hash
      BY <3>1 DEF Withdrawal
    <3>3. rows' = [rows EXCEPT ![i] = y]
      BY <2>3
    <3> HIDE DEF y, i
    <3>4. QED
      BY <3>1, <3>2, <3>3, RowChanges
  <2>4. QED
    BY <1>1, <2>1, <2>2, <2>3
<1>3. QED
  BY <1>1, <1>2, MovesKeep

LEMMA EndRowKeeps ==
    ASSUME TypeOK, PayInv, NEW w \in Worker, Complete(w) \/ Fail(w)
    PROVE  TypeOK' /\ PayInv'
<1> DEFINE i == work[w].row
<1>1. PICK status \in {"COMPLETED", "FAILED"} : EndRow(w, status)
  BY DEF Complete, Fail
<1>2. UNCHANGED <<chain, handling>> /\ Finish(w)
      /\ (UNCHANGED rows \/ rows' = [rows EXCEPT ![i].status = status])
  BY <1>1 DEF EndRow, End
<1>3. RowsStay /\ HashesKnown
  <2>1. CASE UNCHANGED rows
    BY <2>1, Unchanged
  <2>2. CASE i \notin 1 .. Len(rows) /\ rows' = [rows EXCEPT ![i].status = status]
    <3>1. UNCHANGED rows
      BY <2>2, Lengths
    <3>2. QED
      BY <3>1, Unchanged
  <2>3. CASE i \in 1 .. Len(rows) /\ rows' = [rows EXCEPT ![i].status = status]
    <3> DEFINE y == [rows[i] EXCEPT !.status = status]
    <3>1. rows[i] \in Withdrawal /\ rows[i].hash \in 0 .. Len(chain) /\ i \in Nat
      BY <2>3, Lengths DEF TypeOK, Work
    <3>2. /\ y \in Withdrawal /\ y.user = rows[i].user /\ y.key = rows[i].key
          /\ y.status = status /\ y.hash = rows[i].hash
      BY <3>1 DEF Withdrawal
    <3>3. rows' = [rows EXCEPT ![i] = y]
      BY <2>3
    <3> HIDE DEF y, i
    <3>4. QED
      BY <3>1, <3>2, <3>3, RowChanges
  <2>4. QED
    BY <1>2, <2>1, <2>2, <2>3
<1>4. QED
  BY <1>2, <1>3, MovesKeep

LEMMA StartKeeps ==
    ASSUME TypeOK, PayInv, NEW w \in Worker, Start(w) \/ Crash(w)
    PROVE  TypeOK' /\ PayInv'
<1>1. UNCHANGED <<rows, chain, handling>>
  BY DEF Start, Crash
<1>2. Len(rows) \in Nat /\ Len(chain) \in Nat /\ Stuck \subseteq 1 .. Len(rows) /\ Stuck \subseteq Nat
  BY Lengths DEF Stuck
<1>3. PICK x : Becomes(w, x) /\ x.pc # "sending" /\ x.hash \in 0 .. Len(chain)
  <2>1. CASE Start(w)
    <3> DEFINE x == [pc |-> IF Stuck = {} THEN "polling" ELSE "recovering", row |-> 0, hash |-> 0, todo |-> Stuck]
    <3>1. x \in Work /\ x.pc # "sending" /\ x.row = 0 /\ x.hash = 0 /\ x.todo = Stuck
      BY <1>2 DEF Work
    <3>2. work' = [work EXCEPT ![w] = x]
      BY <2>1 DEF Start
    <3> HIDE DEF x
    <3>3. Becomes(w, x) /\ x.pc # "sending" /\ x.hash \in 0 .. Len(chain)
      BY <1>2, <3>1, <3>2 DEF Becomes
    <3>4. QED
      BY <3>3
  <2>2. CASE Crash(w)
    <3>1. Down \in Work /\ Down.pc # "sending" /\ Down.row = 0 /\ Down.hash = 0 /\ Down.todo = {}
      BY DEF Down, Work
    <3>2. work' = [work EXCEPT ![w] = Down]
      BY <2>2 DEF Crash
    <3>3. Becomes(w, Down) /\ Down.pc # "sending" /\ Down.hash \in 0 .. Len(chain)
      BY <1>2, <3>1, <3>2 DEF Becomes
    <3>4. QED
      BY <3>3
  <2>3. QED
    BY <2>1, <2>2
<1>4. QED
  BY <1>1, <1>3, Unchanged, PlainStep

LEMMA RecoverKeeps ==
    ASSUME TypeOK, PayInv, NEW w \in Worker, Recover(w)
    PROVE  TypeOK' /\ PayInv'
<1>1. UNCHANGED <<rows, chain, handling>>
  BY DEF Recover
<1>2. PICK i \in work[w].todo :
          \/ work' = [work EXCEPT ![w] = [pc |-> OnReceipt(rows[i].hash),
                        row |-> i, hash |-> rows[i].hash, todo |-> work[w].todo \ {i}]]
          \/ work' = [work EXCEPT ![w] =
                  [pc |-> IF work[w].todo \ {i} = {} THEN "polling" ELSE "recovering",
                   row |-> 0, hash |-> 0, todo |-> work[w].todo \ {i}]]
  BY DEF Recover
<1> DEFINE left == work[w].todo \ {i}
<1>3. /\ Len(rows) \in Nat /\ Len(chain) \in Nat /\ left \subseteq 1 .. Len(rows) /\ left \subseteq Nat
      /\ i \in 1 .. Len(rows) /\ i \in Nat /\ rows[i].hash \in 0 .. Len(chain) /\ rows[i].hash \in Nat
  BY Lengths DEF TypeOK
<1>4. PICK x : Becomes(w, x) /\ x.pc # "sending" /\ x.hash \in 0 .. Len(chain)
  <2> DEFINE x == [pc |-> OnReceipt(rows[i].hash), row |-> i, hash |-> rows[i].hash, todo |-> left]
             y == [pc |-> IF left = {} THEN "polling" ELSE "recovering", row |-> 0, hash |-> 0, todo |-> left]
  <2>1. x \in Work /\ x.pc # "sending" /\ x.row = i /\ x.hash = rows[i].hash /\ x.todo = left
    <3>1. OnReceipt(rows[i].hash) \in {"debiting", "unlocking"}
      BY DEF OnReceipt
    <3>2. QED
      BY <1>3, <3>1, BuiltIsWork
  <2>2. y \in Work /\ y.pc # "sending" /\ y.row = 0 /\ y.hash = 0 /\ y.todo = left
    <3> DEFINE step == IF left = {} THEN "polling" ELSE "recovering"
    <3>1. step \in {"polling", "recovering"}
      OBVIOUS
    <3>2. QED
      BY <1>3, <3>1, BuiltIsWork
  <2>3. work' = [work EXCEPT ![w] = x] \/ work' = [work EXCEPT ![w] = y]
    BY <1>2
  <2> HIDE DEF x, y, left
  <2>4. CASE work' = [work EXCEPT ![w] = x]
    <3>1. i \in 0 .. Len(rows)
      BY <1>3
    <3>2. Becomes(w, x) /\ x.pc # "sending" /\ x.hash \in 0 .. Len(chain)
      BY <1>3, <2>1, <2>4, <3>1 DEF Becomes, left
    <3>3. QED
      BY <3>2
  <2>5. CASE work' = [work EXCEPT ![w] = y]
    <3>1. 0 \in 0 .. Len(rows) /\ 0 \in 0 .. Len(chain)
      BY <1>3
    <3>2. Becomes(w, y) /\ y.pc # "sending" /\ y.hash \in 0 .. Len(chain)
      BY <1>3, <2>2, <2>5, <3>1 DEF Becomes, left
    <3>3. QED
      BY <3>2
  <2>6. QED
    BY <2>3, <2>4, <2>5
<1>5. QED
  BY <1>1, <1>4, Unchanged, PlainStep

LEMMA StepKeeps ==
    ASSUME TypeOK, PayInv, NEW w \in Worker, Step(w)
    PROVE  TypeOK' /\ PayInv'
<1>1. CASE AwaitReceipt(w) \/ Debit(w) \/ Unlock(w)
  <2>1. UNCHANGED <<rows, chain, handling>>
    BY <1>1 DEF AwaitReceipt, Debit, Unlock
  <2>2. \/ \E step \in {"waiting", "debiting", "completing", "unlocking", "failing"} : Goto(w, step)
        \/ Finish(w)
    BY <1>1 DEF AwaitReceipt, Debit, Unlock, OnReceipt
  <2>3. QED
    BY <2>1, <2>2, Unchanged, MovesKeep
<1>2. QED
  BY <1>1, StartKeeps, RecoverKeeps, PickKeeps, SendKeeps, RecordHashKeeps, EndRowKeeps DEF Step

-----------------------------------------------------------------------------
(***************************************************************************)
(* Every step.                                                             *)
(***************************************************************************)

LEMMA MineKeeps ==
    ASSUME TypeOK, PayInv, NEW t, NEW status \in {"success", "reverted"}, Mine(t, status)
    PROVE  TypeOK' /\ PayInv'
<1> DEFINE y == [chain[t] EXCEPT !.status = status]
<1>1. /\ t \in DOMAIN chain /\ chain' = [chain EXCEPT ![t] = y] /\ UNCHANGED <<rows, handling, work>>
  BY DEF Mine
<1>2. /\ Len(chain) \in Nat /\ DOMAIN chain = 1 .. Len(chain) /\ chain \in [1 .. Len(chain) -> Transaction]
      /\ chain \in Seq(Transaction)
  BY Lengths DEF TypeOK
<1>3. y \in Transaction /\ y.row = chain[t].row
  BY <1>1, <1>2 DEF Transaction
<1> HIDE DEF y
<1>4. chain' \in Seq(Transaction) /\ Len(chain') = Len(chain) /\ DOMAIN chain' = DOMAIN chain
  BY <1>1, <1>2, <1>3, Replaced
<1>5. ChainStays
  BY <1>1, <1>2, <1>3, <1>4 DEF ChainStays
<1>6. QED
  BY <1>1, <1>5, Unchanged, PlainStep

LEMMA InitPays == Init => TypeOK /\ PayInv
<1> SUFFICES ASSUME Init PROVE TypeOK /\ PayInv
  OBVIOUS
<1>1. rows = << >> /\ chain = << >> /\ Len(rows) = 0 /\ Len(chain) = 0
  BY DEF Init
<1>2. Idle \in Handling /\ Down \in Work /\ Down.row = 0 /\ Down.hash = 0 /\ Down.todo = {} /\ Down.pc = "down"
  BY RequestAssumption DEF Idle, Handling, Down, Work
<1>3. TypeOK
  BY <1>1, <1>2 DEF Init, TypeOK
<1>4. \A w \in Worker, i \in Nat : ~Sending(w, i)
  BY <1>2 DEF Init, Sending
<1>5. PayInv
  BY <1>1, <1>4 DEF PayInv
<1>6. QED
  BY <1>3, <1>5

LEMMA NextPays == TypeOK /\ PayInv /\ [Next]_vars => TypeOK' /\ PayInv'
<1> SUFFICES ASSUME TypeOK, PayInv, [Next]_vars PROVE TypeOK' /\ PayInv'
  OBVIOUS
<1>1. CASE UNCHANGED vars
  BY <1>1, Unchanged, PlainStep DEF vars
<1>2. CASE \E h \in Handler : \/ \E r \in Request : LookUp(h, r)
                              \/ LockFunds(h) \/ InsertRow(h) \/ Compensate(h) \/ Abandon(h)
  BY <1>2, LookUpKeeps, HandlersKeep, InsertRowKeeps
<1>3. CASE \E w \in Worker : Step(w) \/ Crash(w)
  BY <1>3, StepKeeps, StartKeeps
<1>4. CASE MineAny
  BY <1>4, MineKeeps DEF MineAny
<1>5. QED
  BY <1>1, <1>2, <1>3, <1>4 DEF Next
-----------------------------------------------------------------------------
(***************************************************************************)
(* What the rows, the chain and the ledger tell of each other.             *)
(***************************************************************************)

LockKey(r) == <<"withdraw-lock", r.key>>
UndoKey(r) == <<"withdraw-lock-compensate", r.key>>
UnlockKey(r) == <<"withdrawal-unlock", r.key>>
DebitKey(i) == <<"withdrawal-debit", i>>
PostingKey == {LockKey(r) : r \in Request} \cup {UndoKey(r) : r \in Request}
              \cup {UnlockKey(r) : r \in Request} \cup {DebitKey(i) : i \in Nat}
Posting == [op : {"LOCK", "UNLOCK", "WITHDRAWAL"}, key : PostingKey, amount : Nat,
            dAvail : Int, dLocked : Int, avail : Int, locked : Int]
BalanceType == [exists : {TRUE}, avail : Nat, locked : Nat]
LedgerType == accounts \in [User -> BalanceType] /\ ledger \in [User -> Seq(Posting)]

\* The entries of u's ledger; a key is on it, or on anybody's.
Entries(u) == {ledger[u][i] : i \in DOMAIN ledger[u]}
On(u, k) == \E e \in Entries(u) : e.key = k
OnLedger(k) == \E u \in User : On(u, k)

\* A call was posted on the account of u.
PostedTo(u, op, k, q) == \E e \in Entries(u) : e.key = k /\ e.op = op /\ e.amount = q

\* A key is posted once, whoever uses it.
KeysTell == \A u, v \in User : \A e \in Entries(u), f \in Entries(v) : e.key = f.key => u = v /\ e = f

\* A transaction of row i succeeded.
Paid(i) == \E t \in DOMAIN chain : chain[t].row = i /\ chain[t].status = "success"

\* Nothing was transferred for row i, and nothing will be.
Void(i) ==
    /\ i \in DOMAIN rows /\ rows[i].status # "PENDING"
    /\ \A w \in Worker : ~Sending(w, i)
    /\ \A t \in DOMAIN chain : chain[t].row = i => chain[t].status = "reverted"

\* No error was taken for one of a transaction.
Trusted == failures \cap {"send", "record", "receipt"} = {}

\* Rows are of requests, hashes of their rows, and transactions of their amounts.
RowsTell ==
    /\ \A i \in DOMAIN rows : \E r \in Request :
          rows[i].user = r.user /\ rows[i].key = r.key /\ rows[i].amount = r.amount
    /\ \A i \in DOMAIN rows : rows[i].hash # 0 => chain[rows[i].hash].row = i
    /\ \A t \in DOMAIN chain : chain[t].amount = Payable(rows[chain[t].row].amount)

\* What a worker does is true of its row.
Busy == {"sending", "recording", "waiting", "debiting", "completing", "unlocking", "failing"}
WorkerTells(w) ==
    /\ \A i \in work[w].todo : rows[i].hash # 0
    /\ work[w].pc \in Busy <=> work[w].row # 0
    /\ work[w].pc \in {"recording", "waiting"} => work[w].hash # 0 /\ chain[work[w].hash].row = work[w].row
    /\ work[w].pc \in {"waiting", "debiting"} => rows[work[w].row].hash # 0
    /\ work[w].pc \in {"debiting", "completing"} => Paid(work[w].row)
    /\ work[w].pc = "completing" => OnLedger(DebitKey(work[w].row))
    /\ Trusted /\ work[w].pc \in {"unlocking", "failing"} => Void(work[w].row)

\* A row is debited when it was paid, from its user and as much as it says, and completed
\* when it was debited; its funds are unlocked and it fails when it is void.
EndsTell ==
    /\ \A i \in Nat : OnLedger(DebitKey(i)) =>
          Paid(i) /\ PostedTo(rows[i].user, "WITHDRAWAL", DebitKey(i), rows[i].amount)
    /\ \A i \in Nat : Event("COMPLETED", i) \in outbox => OnLedger(DebitKey(i))
    /\ Trusted => \A i \in Nat : Event("FAILED", i) \in outbox => Void(i)
    /\ Trusted => \A u \in User, r \in Request : On(u, UnlockKey(r)) =>
                      \E i \in DOMAIN rows : rows[i].user = u /\ rows[i].key = r.key /\ Void(i)

\* The funds of a row, and of a handler that is about to insert it, were locked, on somebody's
\* account.
Locked(r) == \E u \in User : PostedTo(u, "LOCK", LockKey(r), r.amount)
LocksTell ==
    /\ \A i \in DOMAIN rows : Locked(rows[i])
    /\ \A h \in Handler : handling[h].pc = "locked" => Locked(handling[h].req)
    /\ ~Mistaken => \A h \in Handler : handling[h].pc # "compensating"

ChainInv ==
    LedgerType /\ KeysTell /\ RowsTell /\ (\A w \in Worker : WorkerTells(w)) /\ EndsTell /\ LocksTell

\* What is locked for request r of u.
Released(u, r) ==
    \/ On(u, UnlockKey(r))
    \/ \E i \in DOMAIN rows : rows[i].user = u /\ rows[i].key = r.key /\ On(u, DebitKey(i))
Held(u, r) ==
    IF r.user = u /\ PostedTo(u, "LOCK", LockKey(r), r.amount) /\ ~Released(u, r) THEN r.amount ELSE 0
Holds(u) == SumFunctionOnSet([r \in Request |-> Held(u, r)], Request)

\* It is what is locked, unless an unlock was mistaken, for a user whose keys nobody else's
\* funds are locked under.
FundsInv == ~Mistaken => \A u \in User : LocksOwn(u) => accounts[u].locked = Holds(u)

-----------------------------------------------------------------------------
(***************************************************************************)
(* The calls.                                                              *)
(***************************************************************************)

LEMMA KeysDiffer ==
    ASSUME NEW r, NEW s, NEW i, NEW j
    PROVE  /\ LockKey(r) # UndoKey(s) /\ LockKey(r) # UnlockKey(s) /\ LockKey(r) # DebitKey(i)
           /\ UndoKey(r) # UnlockKey(s) /\ UndoKey(r) # DebitKey(i) /\ UnlockKey(r) # DebitKey(i)
           /\ LockKey(r) = LockKey(s) => r.key = s.key
           /\ UnlockKey(r) = UnlockKey(s) => r.key = s.key
           /\ DebitKey(i) = DebitKey(j) => i = j
<1>1. /\ LockKey(r) # UndoKey(s) /\ LockKey(r) # UnlockKey(s) /\ LockKey(r) # DebitKey(i)
      /\ UndoKey(r) # UnlockKey(s) /\ UndoKey(r) # DebitKey(i) /\ UnlockKey(r) # DebitKey(i)
  BY DEF LockKey, UndoKey, UnlockKey, DebitKey
<1>2. LockKey(r) = LockKey(s) => r.key = s.key
  BY DEF LockKey
<1>3. UnlockKey(r) = UnlockKey(s) => r.key = s.key
  BY DEF UnlockKey
<1>4. DebitKey(i) = DebitKey(j) => i = j
  BY DEF DebitKey
<1>5. QED
  BY <1>1, <1>2, <1>3, <1>4

\* What a posting does to the locked funds and to the ledger.
Adds(op, q) == IF op = "LOCK" THEN q ELSE -q

\* The entry of a call of op, of u, for the amount q with the key k is posted.
Posts(op, u, q, k) ==
    /\ LedgerType' /\ KeysTell' /\ ~OnLedger(k) /\ On(u, k)' /\ PostedTo(u, op, k, q)'
    /\ \A x : On(u, x)' => On(u, x) \/ x = k
    /\ \A x, o, p : PostedTo(u, o, x, p)' => PostedTo(u, o, x, p) \/ (x = k /\ o = op /\ p = q)
    /\ Entries(u) \subseteq Entries(u)'
    /\ accounts'[u].locked = accounts[u].locked + Adds(op, q)
    /\ \A v \in User \ {u} : accounts'[v] = accounts[v] /\ ledger'[v] = ledger[v]

LEMMA PostMoves ==
    ASSUME LedgerType, KeysTell, NEW op \in {"LOCK", "UNLOCK", "WITHDRAWAL"}, NEW u \in User, NEW q \in Nat,
           NEW k \in PostingKey, Accounts!Post(Call(op, u, q, k))
    PROVE  Posts(op, u, q, k)
<1> DEFINE c == Call(op, u, q, k)
           entry == Accounts!EntryFor(c, accounts[u])
           new == [exists |-> TRUE, avail |-> entry.avail, locked |-> entry.locked]
<1>1. c.acct = u /\ c.op = op /\ c.amount = q /\ c.key = k
  BY DEF Call
<1>2. accounts[u].avail \in Nat /\ accounts[u].locked \in Nat
  BY DEF LedgerType, BalanceType
<1>3. /\ entry \in Posting /\ entry.key = k /\ entry.op = op /\ entry.amount = q
      /\ entry.locked = accounts[u].locked + Adds(op, q)
  BY <1>1, <1>2 DEF Accounts!EntryFor, Posting, Adds
<1>4. /\ ~Accounts!IsPosted(k) /\ entry.avail >= 0 /\ entry.locked >= 0
      /\ accounts' = [accounts EXCEPT ![u] = new]
      /\ ledger' = [ledger EXCEPT ![u] = Append(@, entry)]
  BY <1>1 DEF Accounts!Post
<1>5. new.locked = entry.locked /\ new \in BalanceType
  <2>1. entry.avail \in Int /\ entry.locked \in Int
    BY <1>3 DEF Posting
  <2> HIDE DEF entry
  <2>2. QED
    BY <1>4, <2>1 DEF BalanceType
<1> HIDE DEF c, entry, new
<1>6. accounts'[u] = new /\ (\A v \in User \ {u} : accounts'[v] = accounts[v]) /\ accounts' \in [User -> BalanceType]
  BY <1>4, <1>5 DEF LedgerType
<1>7. ledger[u] \in Seq(Posting)
  BY DEF LedgerType
<1>8. LedgerType'
  BY <1>3, <1>4, <1>6, <1>7 DEF LedgerType
<1>9. /\ ledger'[u] = Append(ledger[u], entry)
      /\ \A v \in User \ {u} : ledger'[v] = ledger[v]
  BY <1>4 DEF LedgerType
<1>10. Entries(u)' = Entries(u) \cup {entry}
  <2> DEFINE n == Len(ledger[u]) + 1
  <2>1. /\ DOMAIN ledger'[u] = DOMAIN ledger[u] \cup {n}
        /\ ledger'[u][n] = entry /\ \A i \in DOMAIN ledger[u] : ledger'[u][i] = ledger[u][i]
    BY <1>3, <1>7, <1>9
  <2> HIDE DEF n
  <2>2. QED
    BY <2>1 DEF Entries
<1>11. \A v \in User \ {u} : Entries(v)' = Entries(v)
  BY <1>9 DEF Entries
<1>12. ~OnLedger(k)
  BY <1>4 DEF OnLedger, On, Entries, Accounts!IsPosted
<1>13. KeysTell'
  <2>1. \A v \in User : \A e \in Entries(v)' : (v = u /\ e = entry) \/ (e \in Entries(v) /\ e.key # k)
    BY <1>10, <1>11, <1>12 DEF OnLedger, On
  <2>2. QED
    BY <1>3, <2>1 DEF KeysTell
<1>14. On(u, k)' /\ PostedTo(u, op, k, q)' /\ Entries(u) \subseteq Entries(u)'
  BY <1>3, <1>10 DEF On, PostedTo
<1>15. \A x : On(u, x)' => On(u, x) \/ x = k
  BY <1>3, <1>10 DEF On
<1>16. \A x, o, p : PostedTo(u, o, x, p)' => PostedTo(u, o, x, p) \/ (x = k /\ o = op /\ p = q)
  BY <1>3, <1>10 DEF PostedTo
<1>17. QED
  BY <1>3, <1>5, <1>6, <1>8, <1>9, <1>12, <1>13, <1>14, <1>15, <1>16 DEF Posts

LEMMA PostedIs == \A k : Accounts!IsPosted(k) <=> OnLedger(k)
BY DEF Accounts!IsPosted, OnLedger, On, Entries

LEMMA RepeatsIs ==
    ASSUME NEW op, NEW u, NEW q, NEW k
    PROVE  Repeats(Call(op, u, q, k)) <=> \E v \in User : PostedTo(v, op, k, q)
BY DEF Repeats, Call, PostedTo, Entries

LEMMA NoPosting ==
    UNCHANGED <<accounts, ledger>> =>
        /\ LedgerType => LedgerType'
        /\ KeysTell => KeysTell'
        /\ \A u : Entries(u)' = Entries(u)
BY DEF LedgerType, KeysTell, Entries

\* However a call ends, it was posted or nothing happened.
LEMMA CallEnds ==
    ASSUME NEW op, NEW u, NEW q, NEW k,
           \/ Accepted(Call(op, u, q, k))
           \/ Refused(Call(op, u, q, k))
           \/ Unanswered(Call(op, u, q, k))
    PROVE  /\ Accounts!Post(Call(op, u, q, k)) \/ UNCHANGED <<accounts, ledger>>
           /\ Accepted(Call(op, u, q, k)) =>
                  (\E v \in User : PostedTo(v, op, k, q)) \/ Accounts!Post(Call(op, u, q, k))
BY RepeatsIs DEF Accepted, Refused, Unanswered

LEMMA CallOf == \A r \in Request : /\ LockKey(r) \in PostingKey /\ UndoKey(r) \in PostingKey /\ UnlockKey(r) \in PostingKey
                                   /\ r.user \in User /\ r.amount \in Nat /\ r.amount > 0
<1> SUFFICES ASSUME NEW r \in Request
             PROVE  /\ LockKey(r) \in PostingKey /\ UndoKey(r) \in PostingKey /\ UnlockKey(r) \in PostingKey
                    /\ r.user \in User /\ r.amount \in Nat /\ r.amount > 0
  OBVIOUS
<1>1. LockKey(r) \in PostingKey /\ UndoKey(r) \in PostingKey /\ UnlockKey(r) \in PostingKey
  BY DEF PostingKey
<1>2. QED
  BY <1>1, RequestAssumption

\* A call that takes no more than there is locked, and whose key was not posted for
\* anything else, is not refused.
LEMMA CallFits ==
    ASSUME LedgerType, NEW op \in {"UNLOCK", "WITHDRAWAL"}, NEW u \in User, NEW q \in Nat, NEW k,
           OnLedger(k) => \E v \in User : PostedTo(v, op, k, q),
           ~OnLedger(k) => q <= accounts[u].locked
    PROVE  ~Refused(Call(op, u, q, k))
<1> DEFINE c == Call(op, u, q, k)
           entry == Accounts!EntryFor(c, accounts[c.acct])
<1>1. c.acct = u /\ c.op = op /\ c.amount = q /\ c.key = k
  BY DEF Call
<1>2. accounts[u].avail \in Nat /\ accounts[u].locked \in Nat
  BY DEF LedgerType, BalanceType
<1>3. /\ entry.locked = accounts[u].locked + (-q)
      /\ entry.avail = accounts[u].avail + q \/ entry.avail = accounts[u].avail + 0
  BY <1>1 DEF Accounts!EntryFor
<1>4. ~OnLedger(k) => ~(entry.avail < 0 \/ entry.locked < 0)
  BY <1>2, <1>3
<1>5. OnLedger(k) => Repeats(c)
  BY RepeatsIs
<1>6. Accounts!IsPosted(c.key) <=> OnLedger(k)
  BY <1>1, PostedIs
<1> HIDE DEF entry, c
<1>7. QED
  BY <1>4, <1>5, <1>6 DEF Refused, entry, c

-----------------------------------------------------------------------------
(***************************************************************************)
(* What never becomes undone.                                              *)
(***************************************************************************)

RowsGrow ==
    /\ DOMAIN rows \subseteq DOMAIN rows'
    /\ \A i \in DOMAIN rows :
          /\ rows'[i].user = rows[i].user /\ rows'[i].key = rows[i].key /\ rows'[i].amount = rows[i].amount
          /\ rows'[i].status = "PENDING" => rows[i].status = "PENDING"
          /\ rows'[i].hash = 0 => rows[i].hash = 0

\* A mined transaction stays as it is, and a new one is of a row somebody sends.
ChainGrows ==
    /\ DOMAIN chain \subseteq DOMAIN chain'
    /\ \A t \in DOMAIN chain :
          /\ chain'[t].row = chain[t].row /\ chain'[t].amount = chain[t].amount
          /\ chain[t].status # "pending" => chain'[t].status = chain[t].status
    /\ \A t \in DOMAIN chain' \ DOMAIN chain : \E w \in Worker : Sending(w, chain'[t].row)

\* Who sends sent before, or took a row that was pending.
SendersGrow == \A w \in Worker, i \in Nat : Sending(w, i)' => Sending(w, i) \/ rows[i].status = "PENDING"

KeysGrow == \A u \in User : Entries(u) \subseteq Entries(u)'

Grows == RowsGrow /\ ChainGrows /\ SendersGrow /\ KeysGrow /\ failures \subseteq failures'

LEMMA Stable ==
    ASSUME TypeOK, Grows, NEW i
    PROVE  (Paid(i) => Paid(i)') /\ (Void(i) => Void(i)')
<1>1. ASSUME Paid(i) PROVE Paid(i)'
  BY <1>1 DEF Paid, Grows, ChainGrows
<1>2. ASSUME Void(i) PROVE Void(i)'
  <2>1. i \in DOMAIN rows /\ i \in Nat /\ rows[i].status # "PENDING"
    BY <1>2, Lengths DEF Void
  <2>2. i \in DOMAIN rows' /\ rows'[i].status # "PENDING"
    BY <2>1 DEF Grows, RowsGrow
  <2>3. \A w \in Worker : ~Sending(w, i)'
    BY <1>2, <2>1 DEF Void, Grows, SendersGrow
  <2>4. ASSUME NEW t \in DOMAIN chain', chain'[t].row = i PROVE chain'[t].status = "reverted"
    <3>1. CASE t \in DOMAIN chain
      BY <1>2, <2>4, <3>1 DEF Void, Grows, ChainGrows
    <3>2. CASE t \notin DOMAIN chain
      BY <1>2, <2>4, <3>2 DEF Void, Grows, ChainGrows
    <3>3. QED
      BY <3>1, <3>2
  <2>5. QED
    BY <2>2, <2>3, <2>4 DEF Void, Sending
<1>3. QED
  BY <1>1, <1>2

LEMMA StaysPosted ==
    ASSUME KeysGrow
    PROVE  /\ \A u \in User : \A k : On(u, k) => On(u, k)'
           /\ \A k : OnLedger(k) => OnLedger(k)'
           /\ \A u \in User : \A op, k, q : PostedTo(u, op, k, q) => PostedTo(u, op, k, q)'
           /\ \A r : Locked(r) => Locked(r)'
<1>1. \A u \in User : \A k : On(u, k) => On(u, k)'
  BY DEF KeysGrow, On
<1>2. \A k : OnLedger(k) => OnLedger(k)'
  BY <1>1 DEF OnLedger
<1>3. \A u \in User : \A op, k, q : PostedTo(u, op, k, q) => PostedTo(u, op, k, q)'
  BY DEF KeysGrow, PostedTo
<1>4. \A r : Locked(r) => Locked(r)'
  BY <1>3 DEF Locked, LockKey
<1>5. QED
  BY <1>1, <1>2, <1>3, <1>4

\* Who shares no key shares none of what was posted before.
LEMMA LocksOwnIs ==
    \A u : LocksOwn(u) <=>
        \A r \in Request : r.user = u => \A v \in User \ {u} : ~On(v, LockKey(r))
BY DEF LocksOwn, LockCall, Call, LockKey, On, Entries

LEMMA LocksOwnBefore ==
    ASSUME KeysGrow, NEW u, LocksOwn(u)'
    PROVE  LocksOwn(u)
<1>1. \A r \in Request : r.user = u => \A v \in User \ {u} : ~On(v, LockKey(r))'
  BY DEF LocksOwn, LockCall, Call, LockKey, On, Entries
<1>2. \A v \in User : \A k : On(v, k) => On(v, k)'
  BY StaysPosted
<1>3. \A r \in Request : r.user = u => \A v \in User \ {u} : ~On(v, LockKey(r))
  BY <1>1, <1>2 DEF LockKey
<1>4. QED
  BY <1>3, LocksOwnIs

LEMMA PostsOn ==
    ASSUME NEW op, NEW u \in User, NEW q, NEW k, Posts(op, u, q, k)
    PROVE  /\ \A v \in User : \A x : On(v, x)' => On(v, x) \/ (x = k /\ v = u)
           /\ \A x : OnLedger(x)' => OnLedger(x) \/ x = k
<1>1. \A v \in User \ {u} : \A x : On(v, x)' <=> On(v, x)
  BY DEF Posts, On, Entries
<1>2. \A v \in User : \A x : On(v, x)' => On(v, x) \/ (x = k /\ v = u)
  BY <1>1 DEF Posts
<1>3. QED
  BY <1>2 DEF OnLedger

LEMMA PostsGrow ==
    ASSUME NEW op, NEW u \in User, NEW q, NEW k, Posts(op, u, q, k)
    PROVE  KeysGrow
BY DEF Posts, KeysGrow, Entries

\* A row that is paid is not void.
LEMMA PaidIsNotVoid == \A i : ~(Paid(i) /\ Void(i))
BY DEF Paid, Void

LEMMA PaidRow ==
    ASSUME TypeOK, NEW i, Paid(i)
    PROVE  i \in DOMAIN rows
BY DEF TypeOK, Paid

\* The worker that is left alone.
LEMMA WorkerStays ==
    ASSUME TypeOK, Grows, NEW w \in Worker, WorkerTells(w), work'[w] = work[w]
    PROVE  WorkerTells(w)'
<1>1. PICK x : x = work[w]
  OBVIOUS
<1>2. x.todo \subseteq DOMAIN rows /\ x.hash \in 0 .. Len(chain) /\ DOMAIN chain = 1 .. Len(chain) /\ Len(chain) \in Nat
  BY <1>1, Lengths DEF TypeOK
<1>3. \A i \in x.todo : rows'[i].hash # 0
  BY <1>1, <1>2 DEF WorkerTells, Grows, RowsGrow
<1>4. x.pc \in Busy <=> x.row # 0
  BY <1>1 DEF WorkerTells
<1>5. x.pc \in {"recording", "waiting"} => x.hash # 0 /\ chain'[x.hash].row = x.row
  BY <1>1, <1>2 DEF WorkerTells, Grows, ChainGrows
<1>6. x.pc \in {"debiting", "completing"} => Paid(x.row)'
  <2>1. PICK i : i = x.row
    OBVIOUS
  <2>2. Paid(i) => Paid(i)'
    BY Stable
  <2>3. QED
    BY <1>1, <2>1, <2>2 DEF WorkerTells
<1>7. x.pc = "completing" => OnLedger(DebitKey(x.row))'
  <2>1. PICK k : k = DebitKey(x.row)
    OBVIOUS
  <2>2. x.pc = "completing" => OnLedger(k)'
    BY <1>1, <2>1, StaysPosted DEF WorkerTells, Grows
  <2>3. QED
    BY <2>1, <2>2 DEF DebitKey
<1>8. Trusted' /\ x.pc \in {"unlocking", "failing"} => Void(x.row)'
  <2>1. PICK i : i = x.row
    OBVIOUS
  <2>2. Void(i) => Void(i)'
    BY Stable
  <2>3. Trusted' => Trusted
    BY DEF Grows, Trusted
  <2>4. QED
    BY <1>1, <2>1, <2>2, <2>3 DEF WorkerTells
<1>9. x.pc \in {"waiting", "debiting"} => rows'[x.row].hash # 0
  <2>1. x.pc \in {"waiting", "debiting"} => x.row \in DOMAIN rows /\ rows[x.row].hash # 0
    BY <1>1, <1>4, Lengths DEF WorkerTells, TypeOK, Busy
  <2>2. QED
    BY <2>1 DEF Grows, RowsGrow
<1>10. QED
  BY <1>1, <1>3, <1>4, <1>5, <1>6, <1>7, <1>8, <1>9 DEF WorkerTells

-----------------------------------------------------------------------------
(***************************************************************************)
(* What a step has to show.                                                *)
(***************************************************************************)

LEMMA SameGrows ==
    /\ UNCHANGED rows => RowsGrow
    /\ UNCHANGED chain => ChainGrows
    /\ UNCHANGED ledger => KeysGrow
    /\ UNCHANGED work => SendersGrow
BY DEF RowsGrow, ChainGrows, KeysGrow, SendersGrow, Entries, Sending

LEMMA SendersStay ==
    ASSUME NEW w \in Worker, \A v \in Worker \ {w} : work'[v] = work[v], work'[w].pc # "sending"
    PROVE  SendersGrow
BY DEF SendersGrow, Sending

LEMMA RowsTellOn ==
    ASSUME TypeOK, Grows, RowsTell, DOMAIN rows' = DOMAIN rows,
           \A i \in DOMAIN rows : \/ rows'[i].hash = rows[i].hash
                                  \/ rows'[i].hash \in DOMAIN chain' /\ chain'[rows'[i].hash].row = i,
           \A t \in DOMAIN chain' \ DOMAIN chain :
               chain'[t].row \in DOMAIN rows /\ chain'[t].amount = Payable(rows[chain'[t].row].amount)
    PROVE  RowsTell'
<1>1. \A i \in DOMAIN rows : rows'[i].user = rows[i].user /\ rows'[i].key = rows[i].key /\ rows'[i].amount = rows[i].amount
  BY DEF Grows, RowsGrow
<1>2. \A i \in DOMAIN rows' : \E r \in Request :
          rows'[i].user = r.user /\ rows'[i].key = r.key /\ rows'[i].amount = r.amount
  BY <1>1 DEF RowsTell
<1>3. ASSUME NEW i \in DOMAIN rows, rows'[i].hash # 0 PROVE chain'[rows'[i].hash].row = i
  <2>1. CASE rows'[i].hash = rows[i].hash
    <3>1. rows[i].hash \in DOMAIN chain
      BY <1>3, <2>1, Lengths DEF TypeOK
    <3>2. QED
      BY <1>3, <2>1, <3>1 DEF RowsTell, Grows, ChainGrows
  <2>2. QED
    BY <2>1
<1>4. ASSUME NEW t \in DOMAIN chain' PROVE chain'[t].amount = Payable(rows'[chain'[t].row].amount)
  <2>1. CASE t \in DOMAIN chain
    <3>1. chain[t].row \in DOMAIN rows /\ chain'[t].row = chain[t].row /\ chain'[t].amount = chain[t].amount
      BY <2>1 DEF TypeOK, Grows, ChainGrows
    <3>2. QED
      BY <1>1, <2>1, <3>1 DEF RowsTell
  <2>2. CASE t \notin DOMAIN chain
    BY <1>1, <2>2
  <2>3. QED
    BY <2>1, <2>2
<1>5. QED
  BY <1>2, <1>3, <1>4 DEF RowsTell, Payable

LEMMA EndsTellOn ==
    ASSUME TypeOK, LedgerType, RowsTell, Grows, EndsTell,
           \A i \in Nat : OnLedger(DebitKey(i))' => OnLedger(DebitKey(i)) \/
               (Paid(i) /\ PostedTo(rows[i].user, "WITHDRAWAL", DebitKey(i), rows[i].amount)'),
           \A i \in Nat : Event("COMPLETED", i) \in outbox' =>
               Event("COMPLETED", i) \in outbox \/ OnLedger(DebitKey(i)),
           Trusted' => \A i \in Nat : Event("FAILED", i) \in outbox' =>
               Event("FAILED", i) \in outbox \/ Void(i),
           Trusted' => \A u \in User, r \in Request : On(u, UnlockKey(r))' =>
               On(u, UnlockKey(r)) \/ \E i \in DOMAIN rows : rows[i].user = u /\ rows[i].key = r.key /\ Void(i)
    PROVE  EndsTell'
<1>1. \A i : (Paid(i) => Paid(i)') /\ (Void(i) => Void(i)')
  BY Stable
<1>2. \A k : OnLedger(k) => OnLedger(k)'
  BY StaysPosted DEF Grows
<1>3. Trusted' => Trusted
  BY DEF Grows, Trusted
<1>4. ASSUME NEW i \in Nat, OnLedger(DebitKey(i))'
      PROVE  Paid(i)' /\ PostedTo(rows[i].user, "WITHDRAWAL", DebitKey(i), rows[i].amount)'
  <2>1. CASE OnLedger(DebitKey(i))
    <3>1. Paid(i) /\ PostedTo(rows[i].user, "WITHDRAWAL", DebitKey(i), rows[i].amount)
      BY <2>1 DEF EndsTell
    <3>2. i \in DOMAIN rows
      BY <3>1 DEF TypeOK, Paid
    <3>3. PICK v, q, k : v = rows[i].user /\ q = rows[i].amount /\ k = DebitKey(i) /\ v \in User
      BY <3>2, RequestAssumption DEF RowsTell
    <3>4. PostedTo(v, "WITHDRAWAL", k, q)'
      BY <3>1, <3>3, StaysPosted DEF Grows
    <3>5. rows'[i].user = v /\ rows'[i].amount = q
      BY <3>2, <3>3 DEF Grows, RowsGrow
    <3>6. PostedTo(rows[i].user, "WITHDRAWAL", DebitKey(i), rows[i].amount)'
      BY <3>3, <3>4, <3>5 DEF PostedTo, DebitKey, Entries
    <3>7. QED
      BY <1>1, <3>1, <3>6
  <2>2. QED
    BY <1>1, <1>4, <2>1
<1>5. \A i \in Nat : Event("COMPLETED", i) \in outbox' => OnLedger(DebitKey(i))'
  BY <1>2 DEF EndsTell, DebitKey
<1>6. Trusted' => \A i \in Nat : Event("FAILED", i) \in outbox' => Void(i)'
  BY <1>1, <1>3 DEF EndsTell
<1>7. Trusted' => \A u \in User, r \in Request : On(u, UnlockKey(r))' =>
          \E i \in DOMAIN rows' : rows'[i].user = u /\ rows'[i].key = r.key /\ Void(i)'
  <2> SUFFICES ASSUME Trusted', NEW u \in User, NEW r \in Request, On(u, UnlockKey(r))'
               PROVE  \E i \in DOMAIN rows' : rows'[i].user = u /\ rows'[i].key = r.key /\ Void(i)'
    OBVIOUS
  <2>1. PICK i \in DOMAIN rows : rows[i].user = u /\ rows[i].key = r.key /\ Void(i)
    BY <1>3 DEF EndsTell
  <2>2. i \in DOMAIN rows' /\ rows'[i].user = u /\ rows'[i].key = r.key
    BY <2>1 DEF Grows, RowsGrow
  <2>3. Void(i)'
    BY <1>1, <2>1
  <2>4. QED
    BY <2>2, <2>3
<1>8. QED
  BY <1>4, <1>5, <1>6, <1>7 DEF EndsTell, Event, DebitKey, UnlockKey

HandlerTells(h) ==
    /\ handling[h].pc = "locked" => Locked(handling[h].req)
    /\ ~Mistaken => handling[h].pc # "compensating"

LEMMA LocksTellOn ==
    ASSUME Grows, LocksTell, \A i \in DOMAIN rows' \ DOMAIN rows : Locked(rows[i])',
           \A h \in Handler : handling'[h] = handling[h] \/ HandlerTells(h)'
    PROVE  LocksTell'
<1>1. \A r : Locked(r) => Locked(r)'
  BY StaysPosted DEF Grows
<1>2. ASSUME NEW i \in DOMAIN rows' PROVE Locked(rows[i])'
  <2>1. CASE i \in DOMAIN rows
    <3>1. PICK r : r = rows[i]
      OBVIOUS
    <3>2. Locked(r)'
      BY <1>1, <2>1, <3>1 DEF LocksTell
    <3>3. rows'[i].key = r.key /\ rows'[i].amount = r.amount
      BY <2>1, <3>1 DEF Grows, RowsGrow
    <3>4. QED
      BY <3>2, <3>3 DEF Locked, LockKey, PostedTo, Entries
  <2>2. QED
    BY <2>1
<1>3. ASSUME NEW h \in Handler PROVE HandlerTells(h)'
  <2>1. CASE handling'[h] = handling[h]
    <3>1. PICK r : r = handling[h].req
      OBVIOUS
    <3>2. handling[h].pc = "locked" => Locked(r)'
      BY <1>1, <3>1 DEF LocksTell
    <3>3. ~Mistaken' => handling[h].pc # "compensating"
      BY DEF LocksTell, Grows, Mistaken
    <3>4. QED
      BY <2>1, <3>1, <3>2, <3>3 DEF HandlerTells, Locked, LockKey, PostedTo, Entries
  <2>2. QED
    BY <2>1
<1>4. QED
  BY <1>2, <1>3 DEF LocksTell, HandlerTells

-----------------------------------------------------------------------------
(***************************************************************************)
(* The locked funds.                                                       *)
(***************************************************************************)

LEMMA HeldNat == \A u : \A r \in Request : Held(u, r) \in Nat /\ Held(u, r)' \in Nat
BY RequestAssumption DEF Held

LEMMA OneRow ==
    ASSUME TypeOK, PayInv, NEW i \in DOMAIN rows, NEW j \in DOMAIN rows,
           rows[i].user = rows[j].user, rows[i].key = rows[j].key
    PROVE  i = j
<1>1. i \in 1 .. Len(rows) /\ j \in 1 .. Len(rows)
  BY Lengths
<1>2. QED
  BY <1>1 DEF PayInv

\* What is held for a user depends on his ledger, and on the rows.
LEMMA HoldsSame ==
    ASSUME NEW u, \A r \in Request : Held(u, r)' = Held(u, r)
    PROVE  Holds(u)' = Holds(u)
<1> DEFINE f == [r \in Request |-> Held(u, r)]
           f2 == [r \in Request |-> Held(u, r)']
<1>1. \A r \in Request : f2[r] = f[r]
  OBVIOUS
<1>2. Holds(u) = SumFunctionOnSet(f, Request) /\ Holds(u)' = SumFunctionOnSet(f2, Request)
  BY DEF Holds
<1> HIDE DEF f, f2
<1>3. SumFunctionOnSet(f2, Request) = SumFunctionOnSet(f, Request)
  BY <1>1, RequestAssumption, SumSame
<1>4. QED
  BY <1>2, <1>3

LEMMA OthersHold ==
    ASSUME NEW u, NEW r, ledger'[u] = ledger[u], UNCHANGED rows
    PROVE  Held(u, r)' = Held(u, r)
BY DEF Held, Released, On, PostedTo, Entries, LockKey, UnlockKey, DebitKey

\* Nothing is posted, and rows are inserted perhaps.
LEMMA FundsStay ==
    ASSUME TypeOK, TypeOK', EndsTell, FundsInv, Grows, UNCHANGED <<accounts, ledger>>
    PROVE  FundsInv'
<1>1. ASSUME NEW u \in User, NEW r \in Request PROVE Held(u, r)' = Held(u, r)
  <2>1. \A i \in DOMAIN rows : i \in DOMAIN rows' /\ rows'[i].user = rows[i].user /\ rows'[i].key = rows[i].key
    BY DEF Grows, RowsGrow
  <2>2. ASSUME NEW i \in DOMAIN rows', On(u, DebitKey(i)) PROVE i \in DOMAIN rows
    <3>1. i \in Nat
      BY DEF TypeOK
    <3>2. OnLedger(DebitKey(i))
      BY <2>2 DEF OnLedger
    <3>3. QED
      BY <3>1, <3>2, PaidRow DEF EndsTell
  <2>3. \A k : On(u, k)' <=> On(u, k)
    BY DEF On, Entries
  <2>4. \A i : On(u, DebitKey(i))' <=> On(u, DebitKey(i))
    BY <2>3 DEF DebitKey
  <2>5. Released(u, r)' <=> Released(u, r)
    BY <2>1, <2>2, <2>3, <2>4 DEF Released, UnlockKey
  <2>6. PostedTo(u, "LOCK", LockKey(r), r.amount)' <=> PostedTo(u, "LOCK", LockKey(r), r.amount)
    BY DEF PostedTo, Entries, LockKey
  <2>7. QED
    BY <2>5, <2>6 DEF Held
<1>2. ~Mistaken' => ~Mistaken
  BY DEF Grows, Mistaken
<1>3. \A u \in User : LocksOwn(u)' => LocksOwn(u)
  BY LocksOwnBefore DEF Grows
<1>4. \A u \in User : Holds(u)' = Holds(u)
  BY <1>1, HoldsSame
<1>5. QED
  BY <1>2, <1>3, <1>4 DEF FundsInv

\* A call of request r is posted: what is held for it changes as what is locked. No other
\* request of the user has its key and was locked.
LEMMA FundsPost ==
    ASSUME TypeOK, LedgerType, KeysTell', FundsInv, UNCHANGED rows, failures \subseteq failures',
           NEW r \in Request, NEW k, NEW op, KeysGrow, Posts(op, r.user, r.amount, k),
           \/ k = LockKey(r) \/ k = UnlockKey(r)
           \/ \E i \in DOMAIN rows : rows[i].user = r.user /\ rows[i].key = r.key /\ k = DebitKey(i),
           ~Mistaken' /\ LocksOwn(r.user) =>
               /\ PostedTo(r.user, "LOCK", LockKey(r), r.amount)'
               /\ accounts'[r.user].locked = accounts[r.user].locked + (Held(r.user, r)' - Held(r.user, r))
    PROVE  FundsInv'
<1> DEFINE u == r.user
<1>1. ASSUME ~Mistaken', LocksOwn(u), NEW s \in Request \ {r} PROVE Held(u, s)' = Held(u, s)
  <2>1. CASE s.user # u
    BY <2>1 DEF Held
  <2>2. CASE s.user = u /\ s.key = r.key
    <3>1. s.amount # r.amount
      BY <2>2, RequestAssumption
    <3>2. PICK x, a, b : x = LockKey(r) /\ x = LockKey(s) /\ a = r.amount /\ b = s.amount
      BY <2>2 DEF LockKey
    <3>3. PostedTo(u, "LOCK", x, a)'
      BY <1>1, <3>2 DEF LockKey
    <3>4. ~PostedTo(u, "LOCK", x, b)'
      BY <3>1, <3>2, <3>3, CallOf DEF PostedTo, KeysTell
    <3>5. ~PostedTo(u, "LOCK", x, b)
      BY <3>4, CallOf, StaysPosted
    <3>6. QED
      BY <3>2, <3>4, <3>5 DEF Held, LockKey
  <2>3. CASE s.user = u /\ s.key # r.key
    <3>1. LockKey(s) # k /\ UnlockKey(s) # k
      BY <2>3, KeysDiffer
    <3>2. ASSUME NEW i \in DOMAIN rows, rows[i].key = s.key PROVE DebitKey(i) # k
      BY <2>3, <3>2, KeysDiffer
    <3>3. \A x : x # k => (On(u, x)' <=> On(u, x))
      BY CallOf, StaysPosted DEF Posts
    <3>4. \A x, q : x # k => (PostedTo(u, "LOCK", x, q)' <=> PostedTo(u, "LOCK", x, q))
      BY CallOf, StaysPosted DEF Posts
    <3>5. PICK x, y, q : x = LockKey(s) /\ y = UnlockKey(s) /\ q = s.amount
      OBVIOUS
    <3>6. /\ On(u, y)' <=> On(u, y)
          /\ PostedTo(u, "LOCK", x, q)' <=> PostedTo(u, "LOCK", x, q)
      BY <3>1, <3>3, <3>4, <3>5
    <3>7. \A i \in DOMAIN rows : rows[i].key = s.key => (On(u, DebitKey(i))' <=> On(u, DebitKey(i)))
      BY <3>2, <3>3 DEF DebitKey
    <3>8. Released(u, s)' <=> Released(u, s)
      BY <3>5, <3>6, <3>7 DEF Released, UnlockKey
    <3>9. QED
      BY <3>5, <3>6, <3>8 DEF Held, LockKey
  <2>4. QED
    BY <2>1, <2>2, <2>3
<1>2. ASSUME ~Mistaken', LocksOwn(u) PROVE Holds(u)' = Holds(u) + (Held(u, r)' - Held(u, r))
  <2> DEFINE f == [s \in Request |-> Held(u, s)]
             f2 == [s \in Request |-> Held(u, s)']
  <2>1. \A s \in Request : f[s] \in Int /\ f2[s] \in Int
    BY HeldNat
  <2>2. \A s \in Request \ {r} : f2[s] = f[s]
    BY <1>1, <1>2
  <2>3. Holds(u) = SumFunctionOnSet(f, Request) /\ Holds(u)' = SumFunctionOnSet(f2, Request)
    BY DEF Holds
  <2>4. f[r] = Held(u, r) /\ f2[r] = Held(u, r)'
    OBVIOUS
  <2> HIDE DEF f, f2
  <2>5. SumFunctionOnSet(f2, Request) = SumFunctionOnSet(f, Request) + (f2[r] - f[r])
    BY <2>1, <2>2, RequestAssumption, SumChange
  <2>6. QED
    BY <2>3, <2>4, <2>5
<1>3. ~Mistaken' => ~Mistaken
  BY DEF Mistaken
<1>4. ASSUME ~Mistaken', NEW v \in User, LocksOwn(v)' PROVE accounts'[v].locked = Holds(v)'
  <2>1. LocksOwn(v)
    BY <1>4, LocksOwnBefore
  <2>2. accounts[v].locked = Holds(v) /\ accounts[v].locked \in Nat
    BY <1>3, <1>4, <2>1 DEF FundsInv, LedgerType, BalanceType
  <2>3. CASE v = u
    BY <1>2, <1>4, <2>1, <2>2, <2>3
  <2>4. CASE v # u
    <3>1. ledger'[v] = ledger[v] /\ accounts'[v] = accounts[v]
      BY <2>4 DEF Posts
    <3>2. \A s \in Request : Held(v, s)' = Held(v, s)
      BY <3>1, OthersHold
    <3>3. QED
      BY <2>2, <3>1, <3>2, HoldsSame
  <2>5. QED
    BY <2>3, <2>4
<1>5. QED
  BY <1>4 DEF FundsInv

\* What is held for one request is not more than what is held.
LEMMA HeldInLocked ==
    ASSUME NEW r \in Request, FundsInv, ~Mistaken, LocksOwn(r.user)
    PROVE  Held(r.user, r) <= accounts[r.user].locked
<1> DEFINE u == r.user
           f == [s \in Request |-> Held(u, s)]
<1>1. (\A s \in Request : f[s] \in Nat) /\ f[r] = Held(u, r) /\ u \in User /\ IsFiniteSet(Request)
  BY HeldNat, RequestAssumption
<1>2. accounts[u].locked = SumFunctionOnSet(f, Request)
  BY <1>1 DEF FundsInv, Holds
<1> HIDE DEF f
<1>3. SumFunctionOnSet(f, Request) = f[r] + SumFunctionOnSet(f, Request \ {r})
  BY <1>1, SumRemove
<1>4. SumFunctionOnSet(f, Request \ {r}) \in Nat
  BY <1>1, FS_Subset, SumNat
<1>5. QED
  BY <1>1, <1>2, <1>3, <1>4

\* The funds of a user who shares no key are locked on his own account.
LEMMA LockedForItself ==
    ASSUME NEW r \in Request, LocksOwn(r.user), Locked(r)
    PROVE  PostedTo(r.user, "LOCK", LockKey(r), r.amount)
<1>1. PICK v \in User : PostedTo(v, "LOCK", LockKey(r), r.amount)
  BY DEF Locked
<1>2. On(v, LockKey(r))
  BY <1>1 DEF PostedTo, On
<1>3. QED
  BY <1>1, <1>2, LocksOwnIs

\* What was locked for a row that is neither debited nor void is held for its request.
LEMMA HeldIs ==
    ASSUME TypeOK, PayInv, EndsTell, LocksTell, Trusted, NEW i \in DOMAIN rows,
           NEW r \in Request, rows[i].user = r.user, rows[i].key = r.key, rows[i].amount = r.amount,
           LocksOwn(r.user), ~OnLedger(DebitKey(i)), ~On(r.user, UnlockKey(r)) \/ ~Void(i)
    PROVE  PostedTo(r.user, "LOCK", LockKey(r), r.amount) /\ Held(r.user, r) = r.amount
<1>1. r.user \in User
  BY CallOf
<1>2. Locked(rows[i]) <=> Locked(r)
  BY DEF Locked, LockKey
<1>3. PostedTo(r.user, "LOCK", LockKey(r), r.amount)
  BY <1>2, LockedForItself DEF LocksTell
<1>4. \A j \in DOMAIN rows : rows[j].user = r.user /\ rows[j].key = r.key => j = i
  BY OneRow
<1>5. ~On(r.user, UnlockKey(r))
  BY <1>1, <1>4 DEF EndsTell
<1>6. ~On(r.user, DebitKey(i))
  BY <1>1 DEF OnLedger
<1>7. QED
  BY <1>3, <1>4, <1>5, <1>6 DEF Held, Released

-----------------------------------------------------------------------------
(***************************************************************************)
(* The steps of the workers.                                               *)
(***************************************************************************)

LEMMA FaultGrows == (NoFault \/ \E kind : Fault(kind)) => failures \subseteq failures'
BY DEF NoFault, Fault

LEMMA SameKeys ==
    ASSUME \A u : Entries(u)' = Entries(u)
    PROVE  /\ \A i : OnLedger(DebitKey(i))' <=> OnLedger(DebitKey(i))
           /\ \A u, r : On(u, UnlockKey(r))' <=> On(u, UnlockKey(r))
BY DEF OnLedger, On, DebitKey, UnlockKey

\* The step of w changes no balance.
LEMMA PlainWorkerKeeps ==
    ASSUME TypeOK, TypeOK', ChainInv, FundsInv, NEW w \in Worker,
           \A v \in Worker \ {w} : work'[v] = work[v], UNCHANGED <<accounts, ledger, handling>>,
           RowsGrow, ChainGrows, SendersGrow, failures \subseteq failures', DOMAIN rows' = DOMAIN rows,
           \A i \in DOMAIN rows : \/ rows'[i].hash = rows[i].hash
                                  \/ rows'[i].hash \in DOMAIN chain' /\ chain'[rows'[i].hash].row = i,
           \A t \in DOMAIN chain' \ DOMAIN chain :
               chain'[t].row \in DOMAIN rows /\ chain'[t].amount = Payable(rows[chain'[t].row].amount),
           \A i \in Nat : Event("COMPLETED", i) \in outbox' =>
               Event("COMPLETED", i) \in outbox \/ OnLedger(DebitKey(i)),
           Trusted' => \A i \in Nat : Event("FAILED", i) \in outbox' =>
               Event("FAILED", i) \in outbox \/ Void(i),
           Grows => WorkerTells(w)'
    PROVE  ChainInv' /\ FundsInv' /\ Grows
<1>1. Grows
  BY SameGrows DEF Grows
<1>2. LedgerType' /\ KeysTell' /\ \A u : Entries(u)' = Entries(u)
  BY NoPosting DEF ChainInv
<1>3. RowsTell'
  BY <1>1, RowsTellOn DEF ChainInv
<1>4. \A v \in Worker : WorkerTells(v)'
  BY <1>1, WorkerStays DEF ChainInv
<1>5. EndsTell'
  <2>1. LedgerType /\ RowsTell /\ EndsTell
    BY DEF ChainInv
  <2>2. QED
    BY <1>1, <1>2, <2>1, SameKeys, EndsTellOn
<1>6. LocksTell'
  BY <1>1, LocksTellOn DEF ChainInv
<1>7. FundsInv'
  BY <1>1, FundsStay DEF ChainInv
<1>8. QED
  BY <1>1, <1>2, <1>3, <1>4, <1>5, <1>6, <1>7 DEF ChainInv

\* The step of w debits or unlocks the funds of its row i, or would have.
LEMMA PostingWorkerKeeps ==
    ASSUME TypeOK, TypeOK', PayInv, ChainInv, FundsInv, NEW w \in Worker,
           \A v \in Worker \ {w} : work'[v] = work[v], UNCHANGED <<rows, outbox, chain, handling>>,
           work'[w].pc # "sending", failures \subseteq failures',
           NEW op, NEW i \in DOMAIN rows, NEW k,
           \/ op = "WITHDRAWAL" /\ k = DebitKey(i) /\ Paid(i)
           \/ op = "UNLOCK" /\ k = UnlockKey(rows[i]) /\ (Trusted' => Void(i)),
           Accounts!Post(Call(op, rows[i].user, rows[i].amount, k)) \/ UNCHANGED <<accounts, ledger>>,
           Grows => WorkerTells(w)'
    PROVE  ChainInv' /\ FundsInv' /\ Grows
<1>1. RowsGrow /\ ChainGrows /\ SendersGrow
  BY SameGrows, SendersStay
<1>2. CASE UNCHANGED <<accounts, ledger>>
  BY <1>1, <1>2, PlainWorkerKeeps
<1>3. CASE Accounts!Post(Call(op, rows[i].user, rows[i].amount, k))
  <2>0. LedgerType /\ KeysTell /\ RowsTell /\ EndsTell /\ LocksTell /\ i \in Nat
    BY DEF ChainInv, TypeOK
  <2>1. PICK r \in Request : rows[i].user = r.user /\ rows[i].key = r.key /\ rows[i].amount = r.amount
    BY <2>0 DEF RowsTell
  <2>2. r.user \in User /\ r.amount \in Nat /\ UnlockKey(rows[i]) = UnlockKey(r)
    BY <2>1, CallOf DEF UnlockKey
  <2>3. k \in PostingKey /\ op \in {"LOCK", "UNLOCK", "WITHDRAWAL"}
    <3>1. DebitKey(i) \in PostingKey
      BY <2>0 DEF PostingKey
    <3>2. QED
      BY <2>2, <3>1, CallOf
  <2>4. Posts(op, r.user, r.amount, k)
    BY <1>3, <2>0, <2>1, <2>2, <2>3, PostMoves
  <2>5. KeysGrow /\ Grows
    BY <1>1, <2>2, <2>4, PostsGrow DEF Grows
  <2>6. RowsTell'
    BY <2>0, <2>5, RowsTellOn
  <2>7. \A v \in Worker : WorkerTells(v)'
    BY <2>5, WorkerStays DEF ChainInv
  <2>8. EndsTell'
    <3>1. ASSUME NEW j \in Nat, NEW x, x = DebitKey(j), OnLedger(x)'
          PROVE  OnLedger(x) \/ (k = DebitKey(i) /\ op = "WITHDRAWAL" /\ j = i /\ Paid(i))
      <4>1. OnLedger(x) \/ x = k
        BY <2>2, <2>4, <3>1, PostsOn
      <4>2. k = UnlockKey(rows[i]) => x # k
        BY <3>1, KeysDiffer
      <4>3. k = DebitKey(i) /\ x = k => j = i
        BY <3>1, KeysDiffer
      <4>4. QED
        BY <4>1, <4>2, <4>3
    <3>2. \A j \in Nat : OnLedger(DebitKey(j))' => OnLedger(DebitKey(j)) \/
               (Paid(j) /\ PostedTo(rows[j].user, "WITHDRAWAL", DebitKey(j), rows[j].amount)')
      <4> SUFFICES ASSUME NEW j \in Nat, OnLedger(DebitKey(j))', ~OnLedger(DebitKey(j))
                   PROVE  Paid(j) /\ PostedTo(rows[j].user, "WITHDRAWAL", DebitKey(j), rows[j].amount)'
        OBVIOUS
      <4>1. k = DebitKey(i) /\ op = "WITHDRAWAL" /\ j = i /\ Paid(i)
        BY <3>1 DEF DebitKey
      <4>2. PostedTo(r.user, op, k, r.amount)'
        BY <2>4 DEF Posts
      <4>3. QED
        BY <2>1, <4>1, <4>2 DEF PostedTo, Entries, DebitKey
    <3>3. Trusted' => \A u \in User, s \in Request : On(u, UnlockKey(s))' =>
               On(u, UnlockKey(s)) \/ \E j \in DOMAIN rows : rows[j].user = u /\ rows[j].key = s.key /\ Void(j)
      <4> SUFFICES ASSUME Trusted', NEW u \in User, NEW s \in Request, NEW x, x = UnlockKey(s), On(u, x)'
                   PROVE  On(u, x) \/ \E j \in DOMAIN rows : rows[j].user = u /\ rows[j].key = s.key /\ Void(j)
        BY DEF UnlockKey
      <4>1. On(u, x) \/ (x = k /\ u = r.user)
        BY <2>2, <2>4, PostsOn
      <4>2. k = DebitKey(i) => x # k
        BY KeysDiffer
      <4>3. k = UnlockKey(rows[i]) /\ x = k => rows[i].key = s.key
        BY DEF UnlockKey
      <4>4. QED
        BY <2>1, <4>1, <4>2, <4>3
    <3>4. QED
      BY <2>0, <2>5, <3>2, <3>3, EndsTellOn
  <2>9. LocksTell'
    BY <2>0, <2>5, LocksTellOn
  <2>10. ~Mistaken' /\ LocksOwn(r.user) =>
             /\ PostedTo(r.user, "LOCK", LockKey(r), r.amount)'
             /\ Held(r.user, r) = r.amount /\ Held(r.user, r)' = 0
    <3> SUFFICES ASSUME ~Mistaken', LocksOwn(r.user)
                 PROVE  /\ PostedTo(r.user, "LOCK", LockKey(r), r.amount)'
                        /\ Held(r.user, r) = r.amount /\ Held(r.user, r)' = 0
      OBVIOUS
    <3>1. Trusted' /\ Trusted
      BY DEF Mistaken, Trusted
    <3>2. ~On(r.user, UnlockKey(r)) \/ ~Void(i)
      BY <2>2, <2>4, PaidIsNotVoid DEF Posts, OnLedger
    <3>3. ~OnLedger(DebitKey(i))
      <4>1. CASE k = DebitKey(i)
        BY <2>4, <4>1 DEF Posts
      <4>2. CASE Void(i)
        BY <2>0, <4>2, PaidIsNotVoid DEF EndsTell
      <4>3. QED
        BY <3>1, <4>1, <4>2
    <3>4. PostedTo(r.user, "LOCK", LockKey(r), r.amount) /\ Held(r.user, r) = r.amount
      BY <2>0, <2>1, <3>1, <3>2, <3>3, HeldIs
    <3>5. PostedTo(r.user, "LOCK", LockKey(r), r.amount)'
      BY <2>2, <2>5, <3>4, StaysPosted DEF LockKey
    <3>6. Released(r.user, r)'
      <4>1. On(r.user, k)'
        BY <2>4 DEF Posts
      <4>2. CASE k = UnlockKey(r)
        BY <4>1, <4>2 DEF Released, UnlockKey, On, Entries
      <4>3. CASE k = DebitKey(i)
        <5>1. rows'[i].user = r.user /\ rows'[i].key = r.key /\ i \in DOMAIN rows'
          BY <2>1
        <5>2. On(r.user, DebitKey(i))'
          BY <4>1, <4>3 DEF DebitKey, On, Entries
        <5>3. QED
          BY <5>1, <5>2 DEF Released, DebitKey
      <4>4. QED
        BY <2>2, <4>2, <4>3
    <3>7. QED
      BY <3>4, <3>5, <3>6 DEF Held
  <2>11. FundsInv'
    <3>1. accounts[r.user].locked \in Nat
      BY <2>0, <2>2 DEF LedgerType, BalanceType
    <3>2. Adds(op, r.amount) = -r.amount
      BY DEF Adds
    <3>3. ~Mistaken' /\ LocksOwn(r.user) =>
               /\ PostedTo(r.user, "LOCK", LockKey(r), r.amount)'
               /\ accounts'[r.user].locked = accounts[r.user].locked + (Held(r.user, r)' - Held(r.user, r))
      <4>1. accounts'[r.user].locked = accounts[r.user].locked + Adds(op, r.amount)
        BY <2>4 DEF Posts
      <4>2. QED
        BY <2>2, <2>10, <3>1, <3>2, <4>1
    <3>4. k = UnlockKey(r) \/ (\E j \in DOMAIN rows : rows[j].user = r.user /\ rows[j].key = r.key /\ k = DebitKey(j))
      BY <2>1, <2>2
    <3>5. KeysTell'
      BY <2>4 DEF Posts
    <3>6. QED
      BY <2>0, <2>4, <2>5, <3>3, <3>4, <3>5, FundsPost
  <2>12. LedgerType' /\ KeysTell'
    BY <2>4 DEF Posts
  <2>13. QED
    BY <2>5, <2>6, <2>7, <2>8, <2>9, <2>11, <2>12 DEF ChainInv
<1>4. QED
  BY <1>2, <1>3

\* What leaves a row in progress behind.
Excused(i) ==
    \/ failures \cap {"crash", "end"} # {}
    \/ rows[i].hash # 0 /\ ("debit" \in failures \/ Mistaken \/ ~LocksOwn(rows[i].user))

LEMMA StaysExcused ==
    ASSUME Grows, NEW i \in DOMAIN rows, Excused(i)
    PROVE  Excused(i)'
<1>1. PICK u : u = rows[i].user
  OBVIOUS
<1>2. ~LocksOwn(u) => ~LocksOwn(u)'
  BY LocksOwnBefore DEF Grows
<1>3. rows'[i].user = u /\ (rows[i].hash # 0 => rows'[i].hash # 0)
  BY <1>1 DEF Grows, RowsGrow
<1>4. ~LocksOwn(rows[i].user) => ~LocksOwn(rows[i].user)'
  BY <1>1, <1>2, <1>3 DEF LocksOwn
<1>5. Mistaken => Mistaken'
  BY DEF Grows, Mistaken
<1>6. QED
  BY <1>3, <1>4, <1>5 DEF Excused, Grows

\* A step takes rows in progress that w goes on with, and leaves none but those it may.
LEMMA NoneStays ==
    ASSUME TypeOK, NoneLeftBehind, Grows, NEW w \in Worker, \A v \in Worker \ {w} : work'[v] = work[v],
           \A i \in DOMAIN rows' : rows'[i].status = "PROCESSING" =>
               (i \in DOMAIN rows /\ rows[i].status = "PROCESSING") \/ work'[w].row = i,
           NEW j, j = work[w].row,
           j = 0 \/ work'[w].row = j \/ rows'[j].status # "PROCESSING" \/ Excused(j)'
    PROVE  NoneLeftBehind'
<1>1. ASSUME NEW i \in DOMAIN rows', rows'[i].status = "PROCESSING", \A v \in Worker : work'[v].row # i
      PROVE  Excused(i)'
  <2>1. i \in DOMAIN rows /\ rows[i].status = "PROCESSING"
    BY <1>1
  <2>2. i # 0
    BY <2>1, Lengths
  <2>3. CASE \A v \in Worker : work[v].row # i
    <3>1. Excused(i)
      BY <2>1, <2>3 DEF NoneLeftBehind, Excused
    <3>2. QED
      BY <2>1, <3>1, StaysExcused
  <2>4. CASE \E v \in Worker : work[v].row = i
    <3>1. i = j
      BY <1>1, <2>4
    <3>2. QED
      BY <1>1, <2>2, <3>1
  <2>5. QED
    BY <2>3, <2>4
<1>2. QED
  BY <1>1 DEF NoneLeftBehind, Excused

LEMMA GotoIs ==
    ASSUME TypeOK, NEW w \in Worker, NEW step, Goto(w, step)
    PROVE  /\ work'[w].pc = step /\ work'[w].row = work[w].row
           /\ work'[w].hash = work[w].hash /\ work'[w].todo = work[w].todo
           /\ \A v \in Worker \ {w} : work'[v] = work[v]
BY DEF TypeOK, Work, Goto

LEMMA FinishIs ==
    ASSUME TypeOK, NEW w \in Worker, Finish(w)
    PROVE  /\ work'[w].pc \in {"polling", "recovering"} /\ work'[w].row = 0 /\ work'[w].todo = work[w].todo
           /\ \A v \in Worker \ {w} : work'[v] = work[v]
BY DEF TypeOK, Finish

\* A worker without a row, and one that goes on with row i.
LEMMA IdleTells ==
    ASSUME Grows, NEW w \in Worker, work'[w].pc \in {"down", "recovering", "polling"}, work'[w].row = 0,
           \A i \in work'[w].todo : i \in DOMAIN rows /\ rows[i].hash # 0
    PROVE  WorkerTells(w)'
<1>1. \A i \in work'[w].todo : rows'[i].hash # 0
  BY DEF Grows, RowsGrow
<1>2. QED
  BY <1>1 DEF WorkerTells, Busy

LEMMA BusyTells ==
    ASSUME TypeOK, Grows, NEW w \in Worker, WorkerTells(w), work'[w].todo \subseteq work[w].todo,
           NEW i \in DOMAIN rows, work'[w].row = i, work'[w].pc \in Busy,
           work'[w].pc \in {"recording", "waiting"} =>
               work'[w].hash \in DOMAIN chain' /\ chain'[work'[w].hash].row = i,
           work'[w].pc \in {"waiting", "debiting"} => rows'[i].hash # 0,
           work'[w].pc \in {"debiting", "completing"} => Paid(i),
           work'[w].pc = "completing" => OnLedger(DebitKey(i))',
           Trusted' /\ work'[w].pc \in {"unlocking", "failing"} => Void(i) \/ Void(i)'
    PROVE  Len(chain') \in Nat /\ DOMAIN chain' = 1 .. Len(chain') => WorkerTells(w)'
<1> SUFFICES ASSUME Len(chain') \in Nat, DOMAIN chain' = 1 .. Len(chain') PROVE WorkerTells(w)'
  OBVIOUS
<1>1. \A j \in work'[w].todo : rows'[j].hash # 0
  BY DEF TypeOK, WorkerTells, Grows, RowsGrow
<1>2. i # 0
  BY Lengths
<1>3. work'[w].pc \in {"recording", "waiting"} => work'[w].hash # 0
  OBVIOUS
<1>4. (Paid(i) => Paid(i)') /\ (Void(i) => Void(i)')
  BY Stable
<1>5. QED
  BY <1>1, <1>2, <1>3, <1>4 DEF WorkerTells

\* What follows from the receipt of row i's transaction.
LEMMA ReceiptTells ==
    ASSUME TypeOK, PayInv, NEW t \in DOMAIN chain, NEW i, chain[t].row = i, Mined(t)
    PROVE  \/ OnReceipt(t) = "debiting" /\ Paid(i)
           \/ OnReceipt(t) = "unlocking" /\ Void(i)
<1>1. CASE chain[t].status = "success"
  BY <1>1 DEF OnReceipt, Paid
<1>2. CASE chain[t].status # "success"
  <2>1. /\ DOMAIN chain = 1 .. Len(chain) /\ chain \in [1 .. Len(chain) -> Transaction]
        /\ i \in DOMAIN rows /\ i \in Nat
    BY Lengths DEF TypeOK
  <2>2. chain[t].status = "reverted"
    BY <1>2, <2>1 DEF Mined, Transaction
  <2>3. \A s \in DOMAIN chain : chain[s].row = i => s = t
    BY <2>1 DEF PayInv
  <2>4. rows[i].status # "PENDING" /\ \A v \in Worker : ~Sending(v, i)
    BY <2>1 DEF PayInv
  <2>5. Void(i)
    BY <2>1, <2>2, <2>3, <2>4 DEF Void
  <2>6. QED
    BY <1>2, <2>5 DEF OnReceipt
<1>3. QED
  BY <1>1, <1>2

\* The row of a worker that sends.
LEMMA SendingTells ==
    ASSUME TypeOK, PayInv, NEW w \in Worker, work[w].pc = "sending"
    PROVE  /\ work[w].row \in DOMAIN rows /\ rows[work[w].row].status # "PENDING"
           /\ Sending(w, work[w].row)
           /\ \A t \in DOMAIN chain : chain[t].row # work[w].row
           /\ \A v \in Worker : Sending(v, work[w].row) => v = w
<1>1. work[w].row \in Nat /\ DOMAIN rows = 1 .. Len(rows) /\ DOMAIN chain = 1 .. Len(chain)
  BY Lengths DEF TypeOK, Work
<1>2. Sending(w, work[w].row)
  BY DEF Sending
<1>3. QED
  BY <1>1, <1>2 DEF PayInv

LEMMA RowOf ==
    ASSUME TypeOK, NEW w \in Worker, WorkerTells(w), work[w].pc \in Busy
    PROVE  work[w].row \in DOMAIN rows /\ work[w].row \in Nat
<1>1. work[w].row # 0 /\ work[w].row \in 0 .. Len(rows) /\ DOMAIN rows = 1 .. Len(rows) /\ Len(rows) \in Nat
  BY Lengths DEF TypeOK, WorkerTells
<1>2. QED
  BY <1>1

Good == TypeOK /\ PayInv /\ ChainInv /\ FundsInv /\ NoneLeftBehind

\* A worker starts, stops, or goes on to another row.
LEMMA IdleKeeps ==
    ASSUME Good, TypeOK', NEW w \in Worker, \A v \in Worker \ {w} : work'[v] = work[v],
           UNCHANGED <<accounts, ledger, rows, outbox, chain, handling>>, failures \subseteq failures',
           work'[w].pc \in {"down", "recovering", "polling"}, work'[w].row = 0,
           \A i \in work'[w].todo : i \in DOMAIN rows /\ rows[i].hash # 0,
           work[w].row = 0 \/ "crash" \in failures'
    PROVE  ChainInv' /\ FundsInv' /\ NoneLeftBehind'
<1>1. TypeOK /\ ChainInv /\ FundsInv /\ NoneLeftBehind /\ RowsGrow /\ ChainGrows /\ SendersGrow
  BY SameGrows, SendersStay DEF Good
<1>2. Grows => WorkerTells(w)'
  BY IdleTells
<1>3. ChainInv' /\ FundsInv' /\ Grows
  BY <1>1, <1>2, PlainWorkerKeeps
<1>4. NoneLeftBehind'
  BY <1>1, <1>3, NoneStays DEF Excused
<1>5. QED
  BY <1>3, <1>4

LEMMA StartTells ==
    ASSUME Good, TypeOK', NEW w \in Worker, Start(w) \/ Crash(w)
    PROVE  ChainInv' /\ FundsInv' /\ NoneLeftBehind'
<1>1. TypeOK /\ WorkerTells(w)
  BY DEF Good, ChainInv
<1>2. UNCHANGED <<accounts, ledger, rows, outbox, chain, handling>> /\ failures \subseteq failures'
  BY FaultGrows DEF Start, Crash
<1>3. CASE Start(w)
  <2>1. /\ work'[w].pc \in {"recovering", "polling"} /\ work'[w].row = 0 /\ work'[w].todo = Stuck
        /\ \A v \in Worker \ {w} : work'[v] = work[v]
    BY <1>1, <1>3 DEF Start, TypeOK
  <2>2. work[w].row = 0
    BY <1>1, <1>3 DEF Start, WorkerTells, Busy
  <2>3. \A i \in work'[w].todo : i \in DOMAIN rows /\ rows[i].hash # 0
    BY <2>1 DEF Stuck
  <2>4. QED
    BY <1>2, <2>1, <2>2, <2>3, IdleKeeps
<1>4. CASE Crash(w)
  <2>1. /\ work'[w].pc = "down" /\ work'[w].row = 0 /\ work'[w].todo = {}
        /\ \A v \in Worker \ {w} : work'[v] = work[v]
    BY <1>1, <1>4 DEF Crash, Down, TypeOK
  <2>2. "crash" \in failures'
    BY <1>4 DEF Crash, Fault
  <2>3. QED
    BY <1>2, <2>1, <2>2, IdleKeeps
<1>5. QED
  BY <1>3, <1>4

LEMMA RecoverTells ==
    ASSUME Good, TypeOK', NEW w \in Worker, Recover(w)
    PROVE  ChainInv' /\ FundsInv' /\ NoneLeftBehind'
<1>1. /\ TypeOK /\ PayInv /\ ChainInv /\ RowsTell /\ FundsInv /\ NoneLeftBehind /\ WorkerTells(w)
      /\ work[w].pc = "recovering" /\ UNCHANGED <<accounts, ledger, rows, outbox, chain, handling>>
      /\ failures \subseteq failures'
  BY FaultGrows DEF Good, ChainInv, Recover
<1>2. work[w].row = 0 /\ work[w].todo \subseteq DOMAIN rows
  BY <1>1 DEF WorkerTells, Busy, TypeOK
<1>3. PICK i \in work[w].todo :
          \/ /\ Mined(rows[i].hash)
             /\ work' = [work EXCEPT ![w] = [pc |-> OnReceipt(rows[i].hash),
                        row |-> i, hash |-> rows[i].hash, todo |-> work[w].todo \ {i}]]
          \/ work' = [work EXCEPT ![w] =
                  [pc |-> IF work[w].todo \ {i} = {} THEN "polling" ELSE "recovering",
                   row |-> 0, hash |-> 0, todo |-> work[w].todo \ {i}]]
  BY DEF Recover
<1>4. i \in DOMAIN rows /\ rows[i].hash # 0 /\ rows[i].hash \in DOMAIN chain /\ chain[rows[i].hash].row = i
  <2>1. i \in DOMAIN rows /\ rows[i].hash # 0
    BY <1>1, <1>2 DEF WorkerTells
  <2>2. rows[i].hash \in DOMAIN chain
    BY <1>1, <2>1, Lengths DEF TypeOK
  <2>3. QED
    BY <1>1, <2>1, <2>2 DEF RowsTell
<1>5. \A v \in Worker \ {w} : work'[v] = work[v]
  BY <1>1, <1>3 DEF TypeOK
<1>6. CASE /\ Mined(rows[i].hash)
           /\ work' = [work EXCEPT ![w] = [pc |-> OnReceipt(rows[i].hash),
                        row |-> i, hash |-> rows[i].hash, todo |-> work[w].todo \ {i}]]
  <2>1. work'[w].pc = OnReceipt(rows[i].hash) /\ work'[w].row = i /\ work'[w].todo \subseteq work[w].todo
    BY <1>1, <1>6 DEF TypeOK
  <2>2. \/ work'[w].pc = "debiting" /\ Paid(i)
        \/ work'[w].pc = "unlocking" /\ Void(i)
    BY <1>1, <1>4, <1>6, <2>1, ReceiptTells
  <2>3. RowsGrow /\ ChainGrows /\ SendersGrow /\ Len(chain') \in Nat /\ DOMAIN chain' = 1 .. Len(chain')
    BY <1>1, <1>5, <2>2, SameGrows, SendersStay, Lengths
  <2>4. Grows => WorkerTells(w)'
    <3>1. work'[w].pc \in Busy
      BY <2>2 DEF Busy
    <3>2. QED
      BY <1>1, <1>4, <2>1, <2>2, <2>3, <3>1, BusyTells
  <2>5. ChainInv' /\ FundsInv' /\ Grows
    BY <1>1, <1>5, <2>3, <2>4, PlainWorkerKeeps
  <2>6. NoneLeftBehind'
    BY <1>1, <1>2, <1>5, <2>5, NoneStays
  <2>7. QED
    BY <2>5, <2>6
<1>7. CASE work' = [work EXCEPT ![w] =
                  [pc |-> IF work[w].todo \ {i} = {} THEN "polling" ELSE "recovering",
                   row |-> 0, hash |-> 0, todo |-> work[w].todo \ {i}]]
  <2>1. work'[w].pc \in {"polling", "recovering"} /\ work'[w].row = 0 /\ work'[w].todo \subseteq work[w].todo
    BY <1>1, <1>7 DEF TypeOK
  <2>2. \A j \in work'[w].todo : j \in DOMAIN rows /\ rows[j].hash # 0
    BY <1>1, <1>2, <2>1 DEF WorkerTells
  <2>3. QED
    BY <1>1, <1>2, <1>5, <2>1, <2>2, IdleKeeps
<1>8. QED
  BY <1>3, <1>6, <1>7

LEMMA PickTells ==
    ASSUME Good, TypeOK', NEW w \in Worker, Pick(w)
    PROVE  ChainInv' /\ FundsInv' /\ NoneLeftBehind'
<1>1. /\ TypeOK /\ PayInv /\ ChainInv /\ FundsInv /\ NoneLeftBehind /\ WorkerTells(w)
      /\ work[w].pc = "polling" /\ UNCHANGED <<accounts, ledger, outbox, chain, handling>>
      /\ failures \subseteq failures'
  BY FaultGrows DEF Good, ChainInv, Pick
<1>2. PICK i \in DOMAIN rows :
          /\ rows[i].status = "PENDING" /\ rows' = [rows EXCEPT ![i].status = "PROCESSING"]
          /\ work' = [work EXCEPT ![w].pc = "sending", ![w].row = i]
  BY DEF Pick, NextPending
<1>3. /\ work[w].row = 0 /\ DOMAIN rows = 1 .. Len(rows) /\ rows \in [1 .. Len(rows) -> Withdrawal]
      /\ Len(chain) \in Nat /\ DOMAIN chain = 1 .. Len(chain) /\ work \in [Worker -> Work]
  BY <1>1, Lengths DEF WorkerTells, Busy, TypeOK
<1> DEFINE old == work[w]
           x == [old EXCEPT !.pc = "sending", !.row = i]
           y == [rows[i] EXCEPT !.status = "PROCESSING"]
<1>4. x.pc = "sending" /\ x.row = i /\ x.todo = work[w].todo
  <2>1. old \in Work
    BY <1>3
  <2>2. old.todo = work[w].todo
    OBVIOUS
  <2> HIDE DEF old
  <2>3. QED
    BY <2>1, <2>2 DEF Work
<1>5. /\ y.status = "PROCESSING" /\ y.user = rows[i].user /\ y.key = rows[i].key
      /\ y.amount = rows[i].amount /\ y.hash = rows[i].hash
  BY <1>3 DEF Withdrawal
<1>6. work' = [work EXCEPT ![w] = x] /\ rows' = [rows EXCEPT ![i] = y]
  BY <1>2
<1> HIDE DEF x, y
<1>7. /\ rows'[i] = y /\ DOMAIN rows' = DOMAIN rows /\ \A j \in DOMAIN rows : j # i => rows'[j] = rows[j]
      /\ work'[w] = x /\ \A v \in Worker \ {w} : work'[v] = work[v]
  BY <1>3, <1>6
<1>8. RowsGrow
  BY <1>5, <1>7 DEF RowsGrow
<1>9. SendersGrow
  <2> SUFFICES ASSUME NEW v \in Worker, NEW j \in Nat, work'[v].pc = "sending", work'[v].row = j
               PROVE  (work[v].pc = "sending" /\ work[v].row = j) \/ rows[j].status = "PENDING"
    BY DEF SendersGrow, Sending
  <2>1. CASE v = w
    <3>1. j = i
      BY <1>4, <1>7, <2>1
    <3>2. QED
      BY <1>2, <3>1
  <2>2. CASE v # w
    BY <1>7, <2>2
  <2>3. QED
    BY <2>1, <2>2
<1>10. Grows => WorkerTells(w)'
  <2>1. work'[w].pc \in Busy /\ work'[w].row = i /\ work'[w].todo \subseteq work[w].todo /\ work'[w].pc = "sending"
    BY <1>4, <1>7 DEF Busy
  <2>2. QED
    BY <1>1, <1>3, <2>1, BusyTells
<1>11. ChainInv' /\ FundsInv' /\ Grows
  <2>1. \A j \in DOMAIN rows : rows'[j].hash = rows[j].hash
    BY <1>5, <1>7
  <2>2. QED
    BY <1>1, <1>7, <1>8, <1>9, <1>10, <2>1, SameGrows, PlainWorkerKeeps
<1>12. NoneLeftBehind'
  <2>1. \A j \in DOMAIN rows' : rows'[j].status = "PROCESSING" =>
                         (j \in DOMAIN rows /\ rows[j].status = "PROCESSING") \/ work'[w].row = j
    BY <1>4, <1>7
  <2>2. QED
    BY <1>1, <1>3, <1>7, <1>11, <2>1, NoneStays
<1>13. QED
  BY <1>11, <1>12

\* A transaction is sent for the row of w, or refused.
LEMMA SendTells ==
    ASSUME Good, TypeOK', NEW w \in Worker, Send(w)
    PROVE  ChainInv' /\ FundsInv' /\ NoneLeftBehind'
<1>1. /\ TypeOK /\ PayInv /\ ChainInv /\ FundsInv /\ NoneLeftBehind /\ WorkerTells(w)
      /\ work[w].pc = "sending" /\ UNCHANGED <<accounts, ledger, rows, outbox, handling>>
      /\ failures \subseteq failures'
  BY FaultGrows DEF Good, ChainInv, Send
<1>2. PICK i \in DOMAIN rows : /\ i = work[w].row /\ rows[i].status # "PENDING" /\ Sending(w, i)
                               /\ \A t \in DOMAIN chain : chain[t].row # i
                               /\ \A v \in Worker : Sending(v, i) => v = w
  BY <1>1, SendingTells
<1> DEFINE new == [row |-> i, amount |-> Payable(rows[i].amount), status |-> "pending"]
           n == Len(chain) + 1
<1>3. Len(chain) \in Nat /\ DOMAIN chain = 1 .. Len(chain) /\ chain \in Seq(Transaction)
  BY <1>1, Lengths DEF TypeOK
<1>4. ASSUME chain' = Sent(i)
      PROVE  /\ DOMAIN chain' = 1 .. n /\ Len(chain') = n /\ chain'[n].row = i
             /\ chain'[n].amount = Payable(rows[i].amount)
             /\ \A t \in DOMAIN chain : t \in DOMAIN chain' /\ chain'[t] = chain[t]
             /\ \A t \in DOMAIN chain' \ DOMAIN chain : t = n
  <2>1. chain' = Append(chain, new)
    BY <1>4 DEF Sent
  <2>2. new.row = i /\ new.amount = Payable(rows[i].amount)
    OBVIOUS
  <2> HIDE DEF new
  <2>3. /\ Len(chain') = n /\ DOMAIN chain' = 1 .. n /\ chain'[n] = new
        /\ \A t \in 1 .. Len(chain) : chain'[t] = chain[t]
    BY <1>3, <2>1
  <2>4. \A t \in 1 .. n : t \in 1 .. Len(chain) \/ t = n
    BY <1>3
  <2>5. 1 .. Len(chain) \subseteq 1 .. n
    BY <1>3
  <2> HIDE DEF n
  <2>6. QED
    BY <1>3, <2>2, <2>3, <2>4, <2>5
<1>5. ASSUME chain' = Sent(i) PROVE ChainGrows
  BY <1>2, <1>4, <1>5 DEF ChainGrows
<1>6. UNCHANGED chain => ChainGrows
  BY SameGrows
<1>7. /\ \/ chain' = Sent(i) /\ work'[w].pc = "recording" /\ work'[w].hash = n
         \/ UNCHANGED chain /\ work'[w].pc = "unlocking"
         \/ chain' = Sent(i) /\ work'[w].pc = "unlocking" /\ ~Trusted'
      /\ work'[w].row = i /\ work'[w].todo = work[w].todo
      /\ \A v \in Worker \ {w} : work'[v] = work[v]
  <2>1. CASE chain' = Sent(work[w].row) /\ work' = [work EXCEPT ![w].pc = "recording", ![w].hash = Len(chain')]
    <3> DEFINE old == work[w]
               m == Len(chain')
               x == [old EXCEPT !.pc = "recording", !.hash = m]
    <3>1. m = n /\ m \in Nat
      BY <1>2, <1>3, <1>4, <2>1
    <3>2. old \in Work /\ old.row = i
      BY <1>1, <1>2 DEF TypeOK
    <3>3. work' = [work EXCEPT ![w] = x]
      BY <2>1
    <3>4. x.pc = "recording" /\ x.hash = m /\ x.row = old.row /\ x.todo = old.todo
      <4> HIDE DEF old, m
      <4>1. QED
        BY <3>1, <3>2, RecordingIsWork
    <3> HIDE DEF x
    <3>5. work'[w] = x /\ \A v \in Worker \ {w} : work'[v] = work[v]
      BY <1>1, <3>3 DEF TypeOK
    <3>6. QED
      BY <1>2, <2>1, <3>1, <3>2, <3>4, <3>5
  <2>2. CASE UNCHANGED chain /\ Goto(w, "unlocking")
    BY <1>1, <1>2, <2>2, GotoIs
  <2>3. CASE chain' = Sent(work[w].row) /\ Goto(w, "unlocking") /\ Fault("send")
    <3>1. ~Trusted'
      BY <2>3 DEF Fault, Trusted
    <3>2. QED
      BY <1>1, <1>2, <2>3, <3>1, GotoIs
  <2>4. QED
    BY <1>1, <2>1, <2>2, <2>3 DEF Send
<1>8. RowsGrow /\ SendersGrow /\ ChainGrows
  BY <1>1, <1>5, <1>6, <1>7, SameGrows, SendersStay
<1>9. Len(chain') \in Nat /\ DOMAIN chain' = 1 .. Len(chain')
  BY <1>3, <1>4, <1>7
<1>10. Grows => WorkerTells(w)'
  <2> SUFFICES ASSUME Grows PROVE WorkerTells(w)'
    OBVIOUS
  <2>1. work'[w].pc \in Busy
    BY <1>7 DEF Busy
  <2>2. work'[w].pc \in {"recording", "waiting"} =>
               work'[w].hash \in DOMAIN chain' /\ chain'[work'[w].hash].row = i
    <3>1. work'[w].pc \in {"recording", "waiting"} => chain' = Sent(i) /\ work'[w].hash = n
      BY <1>7
    <3>2. n \in 1 .. n
      BY <1>3
    <3> HIDE DEF n
    <3>3. QED
      BY <1>4, <3>1, <3>2
  <2>3. Trusted' /\ work'[w].pc \in {"unlocking", "failing"} => Void(i)'
    <3> SUFFICES ASSUME UNCHANGED chain, work'[w].pc = "unlocking" PROVE Void(i)'
      BY <1>7
    <3>1. \A v \in Worker : ~Sending(v, i)'
      BY <1>2, <1>7 DEF Sending
    <3>2. QED
      BY <1>1, <1>2, <3>1 DEF Void
  <2>4. ~(work'[w].pc \in {"debiting", "completing"})
    BY <1>7
  <2>5. QED
    BY <1>1, <1>7, <1>9, <2>1, <2>2, <2>3, <2>4, BusyTells
<1>11. ChainInv' /\ FundsInv' /\ Grows
  <2>1. \A t \in DOMAIN chain' \ DOMAIN chain :
               chain'[t].row \in DOMAIN rows /\ chain'[t].amount = Payable(rows[chain'[t].row].amount)
    BY <1>4, <1>7
  <2>2. QED
    BY <1>1, <1>7, <1>8, <1>10, <2>1, PlainWorkerKeeps
<1>12. NoneLeftBehind'
  BY <1>1, <1>2, <1>7, <1>11, NoneStays
<1>13. QED
  BY <1>11, <1>12

LEMMA RecordHashTells ==
    ASSUME Good, TypeOK', NEW w \in Worker, RecordHash(w)
    PROVE  ChainInv' /\ FundsInv' /\ NoneLeftBehind'
<1>1. /\ TypeOK /\ PayInv /\ ChainInv /\ FundsInv /\ NoneLeftBehind /\ WorkerTells(w)
      /\ work[w].pc = "recording" /\ UNCHANGED <<accounts, ledger, outbox, chain, handling>>
      /\ failures \subseteq failures'
  BY FaultGrows DEF Good, ChainInv, RecordHash
<1>2. PICK i \in DOMAIN rows, t \in DOMAIN chain :
          i = work[w].row /\ t = work[w].hash /\ chain[t].row = i /\ t # 0
  <2>1. work[w].row \in DOMAIN rows
    BY <1>1, RowOf DEF Busy
  <2>2. work[w].hash \in 0 .. Len(chain) /\ DOMAIN chain = 1 .. Len(chain) /\ Len(chain) \in Nat
    BY <1>1, Lengths DEF TypeOK
  <2>3. work[w].hash # 0 /\ chain[work[w].hash].row = work[w].row
    BY <1>1 DEF WorkerTells
  <2>4. QED
    BY <2>1, <2>2, <2>3
<1>3. /\ DOMAIN rows = 1 .. Len(rows) /\ rows \in [1 .. Len(rows) -> Withdrawal]
      /\ Len(chain) \in Nat /\ DOMAIN chain = 1 .. Len(chain) /\ t \in Nat
  BY <1>1, Lengths
<1> DEFINE y == [rows[i] EXCEPT !.hash = t]
<1>4. /\ y.status = rows[i].status /\ y.user = rows[i].user /\ y.key = rows[i].key
      /\ y.amount = rows[i].amount /\ y.hash = t
  BY <1>3 DEF Withdrawal
<1>5. /\ UNCHANGED rows \/ rows' = [rows EXCEPT ![i] = y]
      /\ \/ work'[w].pc = "waiting" /\ rows' = [rows EXCEPT ![i] = y]
         \/ work'[w].pc = "unlocking" /\ ~Trusted'
      /\ work'[w].row = i /\ work'[w].hash = t /\ work'[w].todo = work[w].todo
      /\ \A v \in Worker \ {w} : work'[v] = work[v]
  <2>1. CASE rows' = [rows EXCEPT ![work[w].row].hash = work[w].hash] /\ Goto(w, "waiting")
    BY <1>1, <1>2, <2>1, GotoIs
  <2>2. CASE /\ rows' \in {rows, [rows EXCEPT ![work[w].row].hash = work[w].hash]}
             /\ Goto(w, "unlocking") /\ Fault("record")
    <3>1. ~Trusted'
      BY <2>2 DEF Fault, Trusted
    <3>2. QED
      BY <1>1, <1>2, <2>2, <3>1, GotoIs
  <2>3. QED
    BY <2>1, <2>2 DEF RecordHash
<1> HIDE DEF y
<1>6. /\ DOMAIN rows' = DOMAIN rows /\ \A j \in DOMAIN rows : j # i => rows'[j] = rows[j]
      /\ rows'[i] = rows[i] \/ rows'[i] = y
      /\ work'[w].pc = "waiting" => rows'[i] = y
  BY <1>3, <1>5
<1>7. RowsGrow /\ ChainGrows /\ SendersGrow
  <2>1. RowsGrow
    BY <1>2, <1>4, <1>6 DEF RowsGrow
  <2>2. QED
    BY <1>1, <1>5, <2>1, SameGrows, SendersStay
<1>8. Grows => WorkerTells(w)'
  <2>1. work'[w].pc \in Busy
    BY <1>5 DEF Busy
  <2>2. QED
    BY <1>1, <1>2, <1>3, <1>4, <1>5, <1>6, <2>1, BusyTells
<1>9. ChainInv' /\ FundsInv' /\ Grows
  <2>1. \A j \in DOMAIN rows : \/ rows'[j].hash = rows[j].hash
                               \/ rows'[j].hash \in DOMAIN chain' /\ chain'[rows'[j].hash].row = j
    BY <1>1, <1>2, <1>4, <1>6
  <2>2. QED
    BY <1>1, <1>5, <1>6, <1>7, <1>8, <2>1, PlainWorkerKeeps
<1>10. NoneLeftBehind'
  <2>1. \A j \in DOMAIN rows' : rows'[j].status = "PROCESSING" => j \in DOMAIN rows /\ rows[j].status = "PROCESSING"
    BY <1>4, <1>6
  <2>2. QED
    BY <1>1, <1>2, <1>5, <1>9, <2>1, NoneStays
<1>11. QED
  BY <1>9, <1>10

LEMMA AwaitReceiptTells ==
    ASSUME Good, TypeOK', NEW w \in Worker, AwaitReceipt(w)
    PROVE  ChainInv' /\ FundsInv' /\ NoneLeftBehind'
<1>1. /\ TypeOK /\ PayInv /\ ChainInv /\ FundsInv /\ NoneLeftBehind /\ WorkerTells(w)
      /\ work[w].pc = "waiting" /\ UNCHANGED <<accounts, ledger, rows, outbox, chain, handling>>
      /\ failures \subseteq failures'
  BY FaultGrows DEF Good, ChainInv, AwaitReceipt
<1>2. PICK i \in DOMAIN rows, t \in DOMAIN chain :
          i = work[w].row /\ t = work[w].hash /\ chain[t].row = i
  <2>1. work[w].row \in DOMAIN rows
    BY <1>1, RowOf DEF Busy
  <2>2. work[w].hash \in 0 .. Len(chain) /\ DOMAIN chain = 1 .. Len(chain) /\ Len(chain) \in Nat
    BY <1>1, Lengths DEF TypeOK
  <2>3. work[w].hash # 0 /\ chain[work[w].hash].row = work[w].row
    BY <1>1 DEF WorkerTells
  <2>4. QED
    BY <2>1, <2>2, <2>3
<1>0. rows'[i].hash # 0
  BY <1>1, <1>2 DEF WorkerTells
<1>3. /\ \/ work'[w].pc = "debiting" /\ Paid(i)
         \/ work'[w].pc = "unlocking" /\ (Trusted' => Void(i))
      /\ work'[w].row = i /\ work'[w].todo = work[w].todo
      /\ \A v \in Worker \ {w} : work'[v] = work[v]
  <2>1. CASE Mined(work[w].hash) /\ Goto(w, OnReceipt(work[w].hash))
    <3>1. \/ OnReceipt(t) = "debiting" /\ Paid(i)
          \/ OnReceipt(t) = "unlocking" /\ Void(i)
      BY <1>1, <1>2, <2>1, ReceiptTells
    <3>2. QED
      BY <1>1, <1>2, <2>1, <3>1, GotoIs
  <2>2. CASE Goto(w, "unlocking") /\ Fault("receipt")
    <3>1. ~Trusted'
      BY <2>2 DEF Fault, Trusted
    <3>2. QED
      BY <1>1, <1>2, <2>2, <3>1, GotoIs
  <2>3. QED
    BY <2>1, <2>2 DEF AwaitReceipt
<1>4. RowsGrow /\ ChainGrows /\ SendersGrow /\ Len(chain') \in Nat /\ DOMAIN chain' = 1 .. Len(chain')
  BY <1>1, <1>3, SameGrows, SendersStay, Lengths
<1>5. Grows => WorkerTells(w)'
  <2>1. work'[w].pc \in Busy
    BY <1>3 DEF Busy
  <2>2. QED
    BY <1>0, <1>1, <1>3, <1>4, <2>1, BusyTells
<1>6. ChainInv' /\ FundsInv' /\ Grows
  BY <1>1, <1>3, <1>4, <1>5, PlainWorkerKeeps
<1>7. NoneLeftBehind'
  BY <1>1, <1>2, <1>3, <1>6, NoneStays
<1>8. QED
  BY <1>6, <1>7

\* The funds of the row of w are debited; while no unlock was mistaken, they are there.
LEMMA DebitTells ==
    ASSUME Good, TypeOK', NEW w \in Worker, Debit(w)
    PROVE  ChainInv' /\ FundsInv' /\ NoneLeftBehind'
<1>1. /\ TypeOK /\ PayInv /\ ChainInv /\ FundsInv /\ NoneLeftBehind /\ WorkerTells(w)
      /\ LedgerType /\ KeysTell /\ RowsTell /\ EndsTell /\ LocksTell
      /\ work[w].pc = "debiting" /\ UNCHANGED <<rows, outbox, chain, handling>>
      /\ failures \subseteq failures'
  BY FaultGrows DEF Good, ChainInv, Debit
<1>2. PICK i \in DOMAIN rows : i = work[w].row /\ Paid(i) /\ i \in Nat
  <2>1. work[w].row \in DOMAIN rows /\ work[w].row \in Nat
    BY <1>1, RowOf DEF Busy
  <2>2. QED
    BY <1>1, <2>1 DEF WorkerTells
<1>3. PICK r \in Request : rows[i].user = r.user /\ rows[i].key = r.key /\ rows[i].amount = r.amount
  BY <1>1 DEF RowsTell
<1>4. PICK k : k = DebitKey(i)
  OBVIOUS
<1> DEFINE c == Call("WITHDRAWAL", rows[i].user, rows[i].amount, k)
<1>5. c = DebitCall(i)
  BY <1>4 DEF DebitCall, DebitKey
<1>6. Accepted(c) \/ Refused(c) \/ Unanswered(c)
  BY <1>2, <1>5 DEF Debit
<1>7. /\ Accounts!Post(c) \/ UNCHANGED <<accounts, ledger>>
      /\ Accepted(c) => OnLedger(k) \/ Accounts!Post(c)
  <2>1. (\E v \in User : PostedTo(v, "WITHDRAWAL", k, rows[i].amount)) => OnLedger(k)
    BY DEF PostedTo, OnLedger, On
  <2>2. QED
    BY <1>6, <2>1, CallEnds
<1>8. Accepted(c) => OnLedger(k)'
  <2>1. ASSUME Accounts!Post(c) PROVE OnLedger(k)'
    <3>1. r.user \in User /\ r.amount \in Nat /\ k \in PostingKey
      BY <1>2, <1>4, CallOf DEF PostingKey
    <3>2. c = Call("WITHDRAWAL", r.user, r.amount, k)
      BY <1>3
    <3>3. On(r.user, k)'
      BY <1>1, <2>1, <3>1, <3>2, PostMoves DEF Posts
    <3>4. QED
      BY <3>1, <3>3 DEF OnLedger
  <2>2. ASSUME OnLedger(k), UNCHANGED <<accounts, ledger>> PROVE OnLedger(k)'
    BY <2>2 DEF OnLedger, On, Entries
  <2>3. QED
    BY <1>7, <2>1, <2>2
<1>9. ASSUME ~Mistaken, LocksOwn(r.user) PROVE ~Refused(c)
  <2>1. OnLedger(k) => \E v \in User : PostedTo(v, "WITHDRAWAL", k, r.amount)
    BY <1>1, <1>2, <1>3, <1>4, CallOf DEF EndsTell
  <2>2. ASSUME ~OnLedger(k) PROVE r.amount <= accounts[r.user].locked
    <3>1. Trusted /\ ~Void(i)
      BY <1>2, <1>9, PaidIsNotVoid DEF Trusted, Mistaken
    <3>2. Held(r.user, r) = r.amount
      BY <1>1, <1>3, <1>4, <1>9, <2>2, <3>1, HeldIs
    <3>3. QED
      BY <1>1, <1>9, <3>2, HeldInLocked
  <2>3. ~Refused(Call("WITHDRAWAL", r.user, r.amount, k))
    BY <1>1, <2>1, <2>2, CallOf, CallFits
  <2>4. QED
    BY <1>3, <2>3
<1>10. CASE Accepted(c) /\ Goto(w, "completing")
  <2>1. /\ work'[w].pc = "completing" /\ work'[w].row = i /\ work'[w].todo = work[w].todo
        /\ \A v \in Worker \ {w} : work'[v] = work[v]
    BY <1>1, <1>2, <1>10, GotoIs
  <2>2. Grows => WorkerTells(w)'
    <3>1. work'[w].pc \in Busy /\ Len(chain') \in Nat /\ DOMAIN chain' = 1 .. Len(chain')
      BY <1>1, <2>1, Lengths DEF Busy
    <3>2. OnLedger(DebitKey(i))'
      BY <1>4, <1>8, <1>10 DEF OnLedger, On, Entries, DebitKey
    <3>3. QED
      BY <1>1, <1>2, <2>1, <3>1, <3>2, BusyTells
  <2>3. ChainInv' /\ FundsInv' /\ Grows
    BY <1>1, <1>2, <1>4, <1>7, <2>1, <2>2, PostingWorkerKeeps
  <2>4. NoneLeftBehind'
    BY <1>1, <1>2, <2>1, <2>3, NoneStays
  <2>5. QED
    BY <2>3, <2>4
<1>11. CASE (Refused(c) \/ (Unanswered(c) /\ Fault("debit"))) /\ Finish(w)
  <2>1. /\ work'[w].pc \in {"polling", "recovering"} /\ work'[w].row = 0 /\ work'[w].todo = work[w].todo
        /\ \A v \in Worker \ {w} : work'[v] = work[v]
    BY <1>1, <1>11, FinishIs
  <2>2. Grows => WorkerTells(w)'
    <3>1. \A j \in work'[w].todo : j \in DOMAIN rows /\ rows[j].hash # 0
      BY <1>1, <2>1 DEF WorkerTells, TypeOK
    <3>2. QED
      BY <2>1, <3>1, IdleTells
  <2>3. ChainInv' /\ FundsInv' /\ Grows
    BY <1>1, <1>2, <1>4, <1>7, <2>1, <2>2, PostingWorkerKeeps
  <2>4. Excused(i)'
    <3>1. CASE Refused(c)
      <4>1. Mistaken \/ ~LocksOwn(rows[i].user)
        BY <1>3, <1>9, <3>1
      <4>2. rows[i].hash # 0
        BY <1>1, <1>2 DEF WorkerTells
      <4>3. Excused(i)
        BY <4>1, <4>2 DEF Excused
      <4>4. QED
        BY <2>3, <4>3, StaysExcused
    <3>2. CASE Fault("debit")
      <4>1. rows'[i].hash # 0
        BY <1>1, <1>2 DEF WorkerTells
      <4>2. "debit" \in failures'
        BY <3>2 DEF Fault
      <4>3. QED
        BY <4>1, <4>2 DEF Excused
    <3>3. QED
      BY <1>11, <3>1, <3>2
  <2>5. NoneLeftBehind'
    BY <1>1, <1>2, <2>1, <2>3, <2>4, NoneStays
  <2>6. QED
    BY <2>3, <2>5
<1>12. QED
  BY <1>2, <1>5, <1>10, <1>11 DEF Debit


\* The funds of the row of w are unlocked, or not; the row is to fail.
LEMMA UnlockTells ==
    ASSUME Good, TypeOK', NEW w \in Worker, Unlock(w)
    PROVE  ChainInv' /\ FundsInv' /\ NoneLeftBehind'
<1>1. /\ TypeOK /\ PayInv /\ ChainInv /\ FundsInv /\ NoneLeftBehind /\ WorkerTells(w)
      /\ work[w].pc = "unlocking" /\ UNCHANGED <<rows, outbox, chain, handling>>
      /\ Goto(w, "failing") /\ failures \subseteq failures'
  BY FaultGrows DEF Good, ChainInv, Unlock
<1>2. PICK i \in DOMAIN rows : i = work[w].row /\ i \in Nat
  BY <1>1, RowOf DEF Busy
<1>3. Trusted' => Trusted /\ Void(i)
  <2>1. Trusted' => Trusted
    BY <1>1 DEF Trusted
  <2>2. QED
    BY <1>1, <1>2, <2>1 DEF WorkerTells
<1>4. PICK k : k = UnlockKey(rows[i])
  OBVIOUS
<1> DEFINE c == Call("UNLOCK", rows[i].user, rows[i].amount, k)
<1>5. c = UnlockCall(i)
  BY <1>4 DEF UnlockCall, UnlockKey
<1>6. Accepted(c) \/ Refused(c) \/ Unanswered(c)
  BY <1>2, <1>5 DEF Unlock
<1>7. Accounts!Post(c) \/ UNCHANGED <<accounts, ledger>>
  BY <1>6, CallEnds
<1>8. /\ work'[w].pc = "failing" /\ work'[w].row = i /\ work'[w].todo = work[w].todo
      /\ \A v \in Worker \ {w} : work'[v] = work[v]
  BY <1>1, <1>2, GotoIs
<1>9. Grows => WorkerTells(w)'
  <2>1. work'[w].pc \in Busy /\ Len(chain') \in Nat /\ DOMAIN chain' = 1 .. Len(chain')
    BY <1>1, <1>8, Lengths DEF Busy
  <2>2. QED
    BY <1>1, <1>3, <1>8, <2>1, BusyTells
<1>10. ChainInv' /\ FundsInv' /\ Grows
  BY <1>1, <1>3, <1>4, <1>7, <1>8, <1>9, PostingWorkerKeeps
<1>11. NoneLeftBehind'
  BY <1>1, <1>2, <1>8, <1>10, NoneStays
<1>12. QED
  BY <1>10, <1>11

\* The row of w is completed after its debit, or fails after its unlock.
LEMMA EndRowTells ==
    ASSUME Good, TypeOK', NEW w \in Worker, Complete(w) \/ Fail(w)
    PROVE  ChainInv' /\ FundsInv' /\ NoneLeftBehind'
<1>1. PICK status \in {"COMPLETED", "FAILED"} :
          /\ EndRow(w, status)
          /\ status = "COMPLETED" => work[w].pc = "completing"
          /\ status = "FAILED" => work[w].pc = "failing"
  BY DEF Complete, Fail
<1>2. /\ TypeOK /\ PayInv /\ ChainInv /\ FundsInv /\ NoneLeftBehind /\ WorkerTells(w)
      /\ UNCHANGED <<accounts, ledger, chain, handling>>
      /\ Finish(w) /\ failures \subseteq failures'
  BY <1>1, FaultGrows DEF Good, ChainInv, EndRow
<1>3. PICK i \in DOMAIN rows : i = work[w].row /\ i \in Nat
  BY <1>1, <1>2, RowOf DEF Busy
<1>4. /\ status = "COMPLETED" => OnLedger(DebitKey(i))
      /\ status = "FAILED" /\ Trusted' => Void(i)
  <2>1. Trusted' => Trusted
    BY <1>2 DEF Trusted
  <2>2. status = "COMPLETED" => OnLedger(DebitKey(i))
    BY <1>1, <1>2, <1>3 DEF WorkerTells
  <2>3. status = "FAILED" /\ Trusted' => Void(i)
    BY <1>1, <1>2, <1>3, <2>1 DEF WorkerTells
  <2>4. QED
    BY <2>2, <2>3
<1> DEFINE y == [rows[i] EXCEPT !.status = status]
<1>5. DOMAIN rows = 1 .. Len(rows) /\ rows \in [1 .. Len(rows) -> Withdrawal]
  BY <1>2, Lengths
<1>6. /\ y.status = status /\ y.user = rows[i].user /\ y.key = rows[i].key
      /\ y.amount = rows[i].amount /\ y.hash = rows[i].hash
  BY <1>5 DEF Withdrawal
<1>7. \/ rows' = [rows EXCEPT ![i] = y] /\ outbox' = outbox \cup {Event(status, i)}
      \/ UNCHANGED <<rows, outbox>> /\ "end" \in failures'
  <2>1. CASE End(work[w].row, status)
    BY <1>3, <2>1 DEF End
  <2>2. CASE UNCHANGED <<rows, outbox>> /\ Fault("end")
    BY <2>2 DEF Fault
  <2>3. QED
    BY <1>1, <2>1, <2>2 DEF EndRow
<1> HIDE DEF y
<1>8. /\ DOMAIN rows' = DOMAIN rows /\ \A j \in DOMAIN rows : j # i => rows'[j] = rows[j]
      /\ rows'[i] = rows[i] \/ rows'[i] = y
      /\ rows'[i] = y \/ "end" \in failures'
  BY <1>5, <1>7
<1>9. /\ work'[w].pc \in {"polling", "recovering"} /\ work'[w].row = 0 /\ work'[w].todo = work[w].todo
      /\ \A v \in Worker \ {w} : work'[v] = work[v]
  BY <1>2, FinishIs
<1>10. RowsGrow /\ ChainGrows /\ SendersGrow
  <2>1. RowsGrow
    BY <1>6, <1>8 DEF RowsGrow
  <2>2. QED
    BY <1>2, <1>9, <2>1, SameGrows, SendersStay
<1>11. Grows => WorkerTells(w)'
  <2>1. \A j \in work'[w].todo : j \in DOMAIN rows /\ rows[j].hash # 0
    BY <1>2, <1>9 DEF WorkerTells, TypeOK
  <2>2. QED
    BY <1>9, <2>1, IdleTells
<1>12. ChainInv' /\ FundsInv' /\ Grows
  <2>1. \A j \in DOMAIN rows : rows'[j].hash = rows[j].hash
    BY <1>6, <1>8
  <2>2. \A j \in Nat : Event("COMPLETED", j) \in outbox' =>
               Event("COMPLETED", j) \in outbox \/ OnLedger(DebitKey(j))
    BY <1>4, <1>7 DEF Event
  <2>3. Trusted' => \A j \in Nat : Event("FAILED", j) \in outbox' =>
               Event("FAILED", j) \in outbox \/ Void(j)
    BY <1>4, <1>7 DEF Event
  <2>4. QED
    BY <1>2, <1>8, <1>9, <1>10, <1>11, <2>1, <2>2, <2>3, PlainWorkerKeeps
<1>13. NoneLeftBehind'
  <2>1. \A j \in DOMAIN rows' : rows'[j].status = "PROCESSING" => j \in DOMAIN rows /\ rows[j].status = "PROCESSING"
    BY <1>6, <1>8
  <2>2. rows'[i].status # "PROCESSING" \/ Excused(i)'
    BY <1>6, <1>8 DEF Excused
  <2>3. QED
    BY <1>2, <1>3, <1>9, <1>12, <2>1, <2>2, NoneStays
<1>14. QED
  BY <1>12, <1>13

-----------------------------------------------------------------------------
(***************************************************************************)
(* The steps of the chain and of the handlers.                             *)
(***************************************************************************)

LEMMA WorkGoesOn ==
    ASSUME NoneLeftBehind, Grows, UNCHANGED work,
           \A i \in DOMAIN rows' : rows'[i].status = "PROCESSING" => i \in DOMAIN rows /\ rows'[i] = rows[i]
    PROVE  NoneLeftBehind'
BY StaysExcused DEF NoneLeftBehind, Excused

LEMMA RestKeeps ==
    ASSUME Good, TypeOK', UNCHANGED <<accounts, ledger, rows, outbox, work>>, failures \subseteq failures',
           ChainGrows, DOMAIN chain' = DOMAIN chain,
           \A h \in Handler : handling'[h] = handling[h] \/ HandlerTells(h)'
    PROVE  ChainInv' /\ FundsInv' /\ NoneLeftBehind'
<1>1. /\ TypeOK /\ PayInv /\ ChainInv /\ LedgerType /\ KeysTell /\ RowsTell /\ EndsTell /\ LocksTell /\ FundsInv
      /\ NoneLeftBehind /\ Grows
  BY SameGrows DEF Good, ChainInv, Grows
<1>2. LedgerType' /\ KeysTell' /\ \A u : Entries(u)' = Entries(u)
  BY <1>1, NoPosting
<1>3. RowsTell'
  BY <1>1, RowsTellOn
<1>4. \A w \in Worker : WorkerTells(w)'
  BY <1>1, WorkerStays DEF ChainInv
<1>5. EndsTell'
  BY <1>1, <1>2, SameKeys, EndsTellOn
<1>6. LocksTell'
  BY <1>1, LocksTellOn
<1>7. FundsInv'
  BY <1>1, FundsStay
<1>8. NoneLeftBehind'
  BY <1>1, WorkGoesOn
<1>9. QED
  BY <1>2, <1>3, <1>4, <1>5, <1>6, <1>7, <1>8 DEF ChainInv

LEMMA MineTells ==
    ASSUME Good, TypeOK', NEW t, NEW status \in {"success", "reverted"}, Mine(t, status)
    PROVE  ChainInv' /\ FundsInv' /\ NoneLeftBehind'
<1> DEFINE y == [chain[t] EXCEPT !.status = status]
<1>1. /\ t \in DOMAIN chain /\ chain' = [chain EXCEPT ![t] = y] /\ chain[t].status = "pending"
      /\ UNCHANGED <<accounts, ledger, rows, outbox, handling, work, failures>>
  BY DEF Mine, NoFault
<1>2. chain \in [1 .. Len(chain) -> Transaction] /\ DOMAIN chain = 1 .. Len(chain)
  BY Lengths DEF Good
<1>3. y.row = chain[t].row /\ y.amount = chain[t].amount
  BY <1>1, <1>2 DEF Transaction
<1> HIDE DEF y
<1>4. DOMAIN chain' = DOMAIN chain /\ chain'[t] = y /\ \A s \in DOMAIN chain : s # t => chain'[s] = chain[s]
  BY <1>1, <1>2
<1>5. ChainGrows
  BY <1>1, <1>3, <1>4 DEF ChainGrows
<1>6. QED
  BY <1>1, <1>4, <1>5, RestKeeps

\* A handler is at another step, or has another request.
LEMMA ReachIs ==
    ASSUME TypeOK, NEW h \in Handler, NEW step, Reach(h, step)
    PROVE  /\ handling'[h].pc = step /\ handling'[h].req = handling[h].req
           /\ \A g \in Handler \ {h} : handling'[g] = handling[g]
BY DEF TypeOK, Handling, Reach

LEMMA LookUpTells ==
    ASSUME Good, TypeOK', NEW h \in Handler, Abandon(h) \/ \E r \in Request : LookUp(h, r)
    PROVE  ChainInv' /\ FundsInv' /\ NoneLeftBehind'
<1>1. UNCHANGED <<accounts, ledger, rows, outbox, chain, work>> /\ failures \subseteq failures' /\ TypeOK
  BY FaultGrows DEF Abandon, LookUp, Good
<1>2. \A g \in Handler : handling'[g] = handling[g] \/ handling'[g].pc \in {"idle", "checked"}
  <2>1. CASE Abandon(h)
    BY <1>1, <2>1, ReachIs DEF Abandon
  <2>2. CASE \E r \in Request : LookUp(h, r)
    BY <1>1, <2>2 DEF LookUp, TypeOK
  <2>3. QED
    BY <2>1, <2>2
<1>3. \A g \in Handler : handling'[g] = handling[g] \/ HandlerTells(g)'
  BY <1>2 DEF HandlerTells
<1>4. QED
  BY <1>1, <1>3, SameGrows, RestKeeps

\* A call of a handler ends; whatever it unlocks was mistaken.
LEMMA HandlerPosts ==
    ASSUME Good, TypeOK', UNCHANGED <<rows, outbox, chain, work>>, failures \subseteq failures',
           NEW r \in Request, NEW k, NEW op,
           \/ op = "LOCK" /\ k = LockKey(r)
           \/ op = "UNLOCK" /\ k = UndoKey(r) /\ Mistaken,
           Accounts!Post(Call(op, r.user, r.amount, k)),
           Grows => \A h \in Handler : handling'[h] = handling[h] \/ HandlerTells(h)'
    PROVE  ChainInv' /\ FundsInv' /\ NoneLeftBehind'
<1>1. /\ TypeOK /\ PayInv /\ ChainInv /\ LedgerType /\ KeysTell /\ RowsTell /\ EndsTell /\ LocksTell /\ FundsInv
      /\ NoneLeftBehind
  BY DEF Good, ChainInv
<1>2. Posts(op, r.user, r.amount, k) /\ LedgerType' /\ KeysTell' /\ ~OnLedger(k)
  <2>1. r.user \in User /\ r.amount \in Nat /\ k \in PostingKey /\ op \in {"LOCK", "UNLOCK", "WITHDRAWAL"}
    BY CallOf
  <2>2. Posts(op, r.user, r.amount, k)
    BY <1>1, <2>1, PostMoves
  <2>3. QED
    BY <2>2 DEF Posts
<1>3. KeysGrow /\ Grows
  BY <1>2, CallOf, PostsGrow, SameGrows DEF Grows
<1>4. RowsTell'
  BY <1>1, <1>3, RowsTellOn
<1>5. \A w \in Worker : WorkerTells(w)'
  BY <1>1, <1>3, WorkerStays DEF ChainInv
<1>6. EndsTell'
  <2>1. ASSUME NEW j, NEW x, x = DebitKey(j), OnLedger(x)' PROVE OnLedger(x)
    <3>1. x # k
      BY <2>1, KeysDiffer
    <3>2. QED
      BY <1>2, <2>1, <3>1, CallOf, PostsOn
  <2>2. ASSUME NEW u \in User, NEW s, NEW x, x = UnlockKey(s), On(u, x)' PROVE On(u, x)
    <3>1. x # k
      BY <2>2, KeysDiffer
    <3>2. QED
      BY <1>2, <2>2, <3>1, CallOf, PostsOn
  <2>3. \A i \in Nat : OnLedger(DebitKey(i))' => OnLedger(DebitKey(i))
    BY <2>1 DEF DebitKey
  <2>4. \A u \in User, s \in Request : On(u, UnlockKey(s))' => On(u, UnlockKey(s))
    BY <2>2 DEF UnlockKey
  <2>5. QED
    BY <1>1, <1>3, <2>3, <2>4, EndsTellOn
<1>7. LocksTell'
  BY <1>1, <1>3, LocksTellOn
<1>8. FundsInv'
  <2>1. CASE Mistaken
    BY <2>1 DEF FundsInv, Mistaken
  <2>2. CASE ~Mistaken /\ op = "LOCK" /\ k = LockKey(r)
    <3>1. Trusted /\ r.user \in User
      BY <2>2, CallOf DEF Mistaken, Trusted
    <3>2. ASSUME NEW i \in DOMAIN rows PROVE rows[i].key # r.key
      <4>1. Locked(rows[i]) /\ ~OnLedger(LockKey(r))
        BY <1>1, <1>2, <2>2 DEF LocksTell
      <4>2. OnLedger(LockKey(rows[i]))
        BY <4>1 DEF Locked, PostedTo, OnLedger, On
      <4>3. QED
        BY <4>1, <4>2 DEF LockKey
    <3>3. ~On(r.user, UnlockKey(r))
      BY <1>1, <3>1, <3>2 DEF EndsTell
    <3>4. Held(r.user, r) = 0
      <4>1. ~PostedTo(r.user, "LOCK", k, r.amount)
        BY <1>2, <3>1 DEF PostedTo, OnLedger, On
      <4>2. QED
        BY <2>2, <4>1 DEF Held
    <3>5. PostedTo(r.user, "LOCK", LockKey(r), r.amount)' /\ Held(r.user, r)' = r.amount
      <4>1. PICK x : x = UnlockKey(r) /\ x # k
        BY <2>2, KeysDiffer
      <4>2. ~On(r.user, x)'
        BY <1>2, <3>3, <4>1 DEF Posts
      <4>3. PostedTo(r.user, "LOCK", k, r.amount)'
        BY <1>2, <2>2 DEF Posts
      <4>4. PostedTo(r.user, "LOCK", LockKey(r), r.amount)'
        BY <2>2, <4>3 DEF LockKey, PostedTo, Entries
      <4>5. ~Released(r.user, r)'
        BY <3>2, <4>1, <4>2 DEF Released, UnlockKey, On, Entries
      <4>6. QED
        BY <4>4, <4>5 DEF Held
    <3>6. accounts'[r.user].locked = accounts[r.user].locked + (Held(r.user, r)' - Held(r.user, r))
      <4>1. Adds(op, r.amount) = r.amount /\ r.amount \in Nat
        BY <2>2, CallOf DEF Adds
      <4>2. accounts[r.user].locked \in Nat
        BY <1>1, CallOf DEF LedgerType, BalanceType
      <4>3. accounts'[r.user].locked = accounts[r.user].locked + Adds(op, r.amount)
        BY <1>2 DEF Posts
      <4>4. QED
        BY <3>4, <3>5, <4>1, <4>2, <4>3
    <3>7. QED
      BY <1>1, <1>2, <1>3, <2>2, <3>5, <3>6, FundsPost
  <2>3. QED
    BY <2>1, <2>2
<1>9. NoneLeftBehind'
  BY <1>1, <1>3, WorkGoesOn
<1>10. QED
  BY <1>2, <1>4, <1>5, <1>6, <1>7, <1>8, <1>9 DEF ChainInv

LEMMA LockFundsTells ==
    ASSUME Good, TypeOK', NEW h \in Handler, LockFunds(h)
    PROVE  ChainInv' /\ FundsInv' /\ NoneLeftBehind'
<1>1. UNCHANGED <<rows, outbox, chain, work>> /\ failures \subseteq failures' /\ TypeOK /\ LedgerType /\ KeysTell
  BY FaultGrows DEF LockFunds, Good, ChainInv
<1>2. PICK r \in Request : r = handling[h].req
  BY <1>1 DEF TypeOK, Handling
<1>3. PICK k : k = LockKey(r)
  OBVIOUS
<1> DEFINE c == Call("LOCK", r.user, r.amount, k)
<1>4. c = LockCall(handling[h].req)
  BY <1>2, <1>3 DEF LockCall, LockKey
<1>5. PICK step \in {"idle", "locked"} :
          /\ Reach(h, step) /\ (Accepted(c) \/ Refused(c) \/ Unanswered(c))
          /\ step = "locked" => Accepted(c)
  BY <1>4 DEF LockFunds
<1>6. /\ Accounts!Post(c) \/ UNCHANGED <<accounts, ledger>>
      /\ Accepted(c) => Locked(r) \/ Accounts!Post(c)
  BY <1>3, <1>5, CallEnds DEF Locked
<1>7. handling'[h].pc = step /\ handling'[h].req = r /\ \A g \in Handler \ {h} : handling'[g] = handling[g]
  BY <1>1, <1>2, <1>5, ReachIs
<1>8. ASSUME Accepted(c) => Locked(r)'
      PROVE  \A g \in Handler : handling'[g] = handling[g] \/ HandlerTells(g)'
  <2>1. handling'[h].pc = "locked" => Locked(handling[h].req)'
    BY <1>5, <1>7, <1>8 DEF Locked, LockKey, PostedTo, Entries
  <2>2. HandlerTells(h)'
    BY <1>7, <2>1 DEF HandlerTells
  <2>3. QED
    BY <1>7, <2>2
<1>9. CASE Accounts!Post(c)
  <2>1. Locked(r)'
    <3>1. r.user \in User /\ r.amount \in Nat /\ k \in PostingKey
      BY <1>3, CallOf
    <3>2. PostedTo(r.user, "LOCK", k, r.amount)'
      BY <1>1, <1>9, <3>1, PostMoves DEF Posts
    <3>3. QED
      BY <1>3, <3>1, <3>2 DEF Locked, LockKey, PostedTo, Entries
  <2>2. \A g \in Handler : handling'[g] = handling[g] \/ HandlerTells(g)'
    BY <1>8, <2>1
  <2>3. QED
    BY <1>1, <1>3, <1>9, <2>2, HandlerPosts
<1>10. CASE UNCHANGED <<accounts, ledger>> /\ ~Accounts!Post(c)
  <2>1. Locked(r) => Locked(r)'
    BY <1>10 DEF Locked, LockKey, PostedTo, Entries
  <2>2. \A g \in Handler : handling'[g] = handling[g] \/ HandlerTells(g)'
    BY <1>6, <1>8, <1>10, <2>1
  <2>3. QED
    BY <1>1, <1>10, <2>2, SameGrows, RestKeeps
<1>11. QED
  BY <1>6, <1>9, <1>10

LEMMA CompensateTells ==
    ASSUME Good, TypeOK', NEW h \in Handler, Compensate(h)
    PROVE  ChainInv' /\ FundsInv' /\ NoneLeftBehind'
<1>1. /\ UNCHANGED <<rows, outbox, chain, work>> /\ failures \subseteq failures' /\ TypeOK
      /\ Reach(h, "idle") /\ Mistaken
  BY FaultGrows DEF Compensate, Good, ChainInv, LocksTell
<1>2. PICK r \in Request : r = handling[h].req
  BY <1>1 DEF TypeOK, Handling
<1>3. PICK k : k = UndoKey(r)
  OBVIOUS
<1> DEFINE c == Call("UNLOCK", r.user, r.amount, k)
<1>4. c = CompensateCall(handling[h].req)
  BY <1>2, <1>3 DEF CompensateCall, UndoKey
<1>5. Accepted(c) \/ Refused(c) \/ Unanswered(c)
  BY <1>4 DEF Compensate
<1>6. Accounts!Post(c) \/ UNCHANGED <<accounts, ledger>>
  BY <1>5, CallEnds
<1>7. \A g \in Handler : handling'[g] = handling[g] \/ HandlerTells(g)'
  BY <1>1, ReachIs DEF HandlerTells
<1>8. CASE Accounts!Post(c)
  BY <1>1, <1>3, <1>7, <1>8, HandlerPosts
<1>9. CASE UNCHANGED <<accounts, ledger>>
  BY <1>1, <1>7, <1>9, SameGrows, RestKeeps
<1>10. QED
  BY <1>6, <1>8, <1>9

\* The row of h is inserted, or h goes on to unlock its funds.
LEMMA InsertRowTells ==
    ASSUME Good, TypeOK', NEW h \in Handler, InsertRow(h)
    PROVE  ChainInv' /\ FundsInv' /\ NoneLeftBehind'
<1>1. /\ TypeOK /\ PayInv /\ ChainInv /\ LedgerType /\ KeysTell /\ RowsTell /\ EndsTell /\ LocksTell /\ FundsInv
      /\ NoneLeftBehind
      /\ UNCHANGED <<accounts, ledger, outbox, chain, work>>
  BY DEF InsertRow, Good, ChainInv
<1>2. PICK r \in Request : r = handling[h].req /\ Locked(r)
  BY <1>1 DEF TypeOK, Handling, InsertRow, LocksTell
<1>3. PICK step \in {"idle", "compensating"} :
          /\ Reach(h, step) /\ failures \subseteq failures'
          /\ step = "compensating" => Mistaken'
          /\ UNCHANGED rows \/ rows' = Append(rows, NewRow(r))
  <2>1. CASE rows' = Append(rows, NewRow(r)) /\ Reach(h, "idle") /\ NoFault
    BY <2>1, FaultGrows
  <2>2. CASE Reach(h, "compensating") /\ failures' = failures \cup {"duplicate"} /\ UNCHANGED rows
    BY <2>2 DEF Mistaken
  <2>3. CASE /\ Reach(h, "compensating") /\ Fault("insert")
             /\ UNCHANGED rows \/ rows' = Append(rows, NewRow(r))
    <3>1. Mistaken' /\ failures \subseteq failures'
      BY <2>3 DEF Mistaken, Fault
    <3>2. QED
      BY <2>3, <3>1
  <2>4. QED
    BY <1>2, <2>1, <2>2, <2>3 DEF InsertRow
<1>4. \A g \in Handler : handling'[g] = handling[g] \/ HandlerTells(g)'
  BY <1>1, <1>3, ReachIs DEF HandlerTells
<1>5. CASE UNCHANGED rows
  BY <1>1, <1>3, <1>4, <1>5, SameGrows, RestKeeps
<1>6. CASE rows' = Append(rows, NewRow(r))
  <2> DEFINE new == NewRow(r)
             n == Len(rows) + 1
  <2>1. /\ new.user = r.user /\ new.key = r.key /\ new.amount = r.amount
        /\ new.status = "PENDING" /\ new.hash = 0
    BY DEF NewRow
  <2>2. Len(rows) \in Nat /\ DOMAIN rows = 1 .. Len(rows) /\ rows \in Seq(Withdrawal)
    BY <1>1, Lengths DEF TypeOK
  <2> HIDE DEF new
  <2>3. /\ rows' = Append(rows, new) /\ DOMAIN rows' = 1 .. n
        /\ rows'[n] = new /\ \A i \in 1 .. Len(rows) : rows'[i] = rows[i]
    BY <1>6, <2>2 DEF new
  <2>4. /\ 1 .. Len(rows) \subseteq 1 .. n /\ \A i \in 1 .. n : i \in 1 .. Len(rows) \/ i = n
    BY <2>2
  <2> HIDE DEF n
  <2>5. Grows
    <3>1. RowsGrow
      BY <2>2, <2>3, <2>4 DEF RowsGrow
    <3>2. QED
      BY <1>1, <1>3, <3>1, SameGrows DEF Grows
  <2>7. LedgerType' /\ KeysTell' /\ \A u : Entries(u)' = Entries(u)
    BY <1>1, NoPosting
  <2>8. RowsTell'
    <3>1. \A i \in DOMAIN rows' : \E s \in Request :
              rows'[i].user = s.user /\ rows'[i].key = s.key /\ rows'[i].amount = s.amount
      BY <1>1, <2>1, <2>2, <2>3, <2>4 DEF RowsTell
    <3>2. \A i \in DOMAIN rows' : rows'[i].hash # 0 => chain[rows'[i].hash].row = i
      BY <1>1, <2>1, <2>2, <2>3, <2>4 DEF RowsTell
    <3>3. \A t \in DOMAIN chain : chain[t].row \in DOMAIN rows
      BY <1>1 DEF TypeOK
    <3>4. \A t \in DOMAIN chain : chain[t].amount = Payable(rows'[chain[t].row].amount)
      BY <1>1, <2>2, <2>3, <3>3 DEF RowsTell
    <3>5. QED
      BY <1>1, <3>1, <3>2, <3>4 DEF RowsTell, Payable
  <2>9. \A w \in Worker : WorkerTells(w)'
    BY <1>1, <2>5, WorkerStays DEF ChainInv
  <2>10. EndsTell'
    BY <1>1, <2>5, <2>7, SameKeys, EndsTellOn
  <2>11. LocksTell'
    <3>1. ASSUME NEW i \in DOMAIN rows' \ DOMAIN rows PROVE Locked(rows[i])'
      <4>1. rows'[i].key = r.key /\ rows'[i].amount = r.amount
        BY <2>1, <2>2, <2>3, <2>4
      <4>2. QED
        BY <1>1, <1>2, <4>1 DEF Locked, LockKey, PostedTo, Entries
    <3>2. QED
      BY <1>1, <1>4, <2>5, <3>1, LocksTellOn
  <2>12. FundsInv'
    BY <1>1, <2>5, FundsStay
  <2>13. NoneLeftBehind'
    <3>1. \A i \in DOMAIN rows' : rows'[i].status = "PROCESSING" => i \in DOMAIN rows /\ rows'[i] = rows[i]
      BY <2>1, <2>2, <2>3, <2>4
    <3>2. QED
      BY <1>1, <2>5, <3>1, WorkGoesOn
  <2>14. QED
    BY <2>7, <2>8, <2>9, <2>10, <2>11, <2>12, <2>13 DEF ChainInv
<1>7. QED
  BY <1>3, <1>5, <1>6

-----------------------------------------------------------------------------
(***************************************************************************)
(* Every step, again.                                                      *)
(***************************************************************************)

LEMMA InitGood == Init => Good
<1> SUFFICES ASSUME Init PROVE Good
  OBVIOUS
<1>1. TypeOK /\ PayInv
  BY InitPays
<1>2. /\ rows = << >> /\ chain = << >> /\ outbox = {} /\ DOMAIN rows = {} /\ DOMAIN chain = {}
      /\ ledger = [u \in User |-> << >>]
      /\ accounts = [u \in User |-> [exists |-> TRUE, avail |-> Funds, locked |-> 0]]
  BY DEF Init
<1>3. /\ \A w \in Worker : work[w].pc = "down" /\ work[w].row = 0 /\ work[w].todo = {}
      /\ \A h \in Handler : handling[h].pc = "idle"
  BY DEF Init, Down, Idle
<1>4. LedgerType
  <2>1. << >> \in Seq(Posting) /\ [exists |-> TRUE, avail |-> Funds, locked |-> 0] \in BalanceType
    BY UnitsAssumption DEF BalanceType
  <2>2. QED
    BY <1>2, <2>1 DEF LedgerType
<1>5. (\A u \in User : Entries(u) = {}) /\ (\A k : ~OnLedger(k)) /\ KeysTell
  <2>1. \A u \in User : Entries(u) = {}
    BY <1>2 DEF Entries
  <2>2. QED
    BY <2>1 DEF OnLedger, On, KeysTell
<1>6. RowsTell
  BY <1>2 DEF RowsTell
<1>7. \A w \in Worker : WorkerTells(w)
  BY <1>3 DEF WorkerTells, Busy
<1>8. EndsTell
  BY <1>2, <1>5 DEF EndsTell, On
<1>9. LocksTell
  BY <1>2, <1>3 DEF LocksTell
<1>10. FundsInv
  <2> SUFFICES ASSUME NEW u \in User PROVE accounts[u].locked = Holds(u)
    BY DEF FundsInv
  <2> DEFINE f == [r \in Request |-> Held(u, r)]
  <2>1. \A r \in Request : f[r] = 0
    BY <1>5 DEF Held, PostedTo
  <2>2. Holds(u) = SumFunctionOnSet(f, Request)
    BY DEF Holds
  <2> HIDE DEF f
  <2>3. Holds(u) = 0
    BY <2>1, <2>2, RequestAssumption, SumZero
  <2>4. QED
    BY <1>2, <2>3
<1>11. NoneLeftBehind
  BY <1>2 DEF NoneLeftBehind
<1>12. QED
  BY <1>1, <1>4, <1>5, <1>6, <1>7, <1>8, <1>9, <1>10, <1>11 DEF Good, ChainInv

LEMMA NextGood == Good /\ [Next]_vars => Good'
<1> SUFFICES ASSUME Good, [Next]_vars PROVE Good'
  OBVIOUS
<1>1. TypeOK' /\ PayInv'
  BY NextPays DEF Good
<1>2. ChainInv' /\ FundsInv' /\ NoneLeftBehind'
  <2>1. CASE UNCHANGED vars
    <3>1. UNCHANGED <<accounts, ledger, rows, outbox, chain, handling, work, failures>>
      BY <2>1 DEF vars
    <3>2. QED
      BY <1>1, <3>1, SameGrows, RestKeeps
  <2>2. ASSUME NEW h \in Handler,
               \/ \E r \in Request : LookUp(h, r)
               \/ LockFunds(h) \/ InsertRow(h) \/ Compensate(h) \/ Abandon(h)
        PROVE  ChainInv' /\ FundsInv' /\ NoneLeftBehind'
    BY <1>1, <2>2, LookUpTells, LockFundsTells, InsertRowTells, CompensateTells
  <2>3. ASSUME NEW w \in Worker, Step(w) \/ Crash(w)
        PROVE  ChainInv' /\ FundsInv' /\ NoneLeftBehind'
    <3>1. CASE Start(w) \/ Crash(w) \/ Recover(w) \/ Pick(w)
      BY <1>1, <3>1, StartTells, RecoverTells, PickTells
    <3>2. CASE Send(w) \/ RecordHash(w) \/ AwaitReceipt(w)
      BY <1>1, <3>2, SendTells, RecordHashTells, AwaitReceiptTells
    <3>3. CASE Debit(w) \/ Complete(w) \/ Unlock(w) \/ Fail(w)
      BY <1>1, <3>3, DebitTells, EndRowTells, UnlockTells
    <3>4. QED
      BY <2>3, <3>1, <3>2, <3>3 DEF Step
  <2>4. CASE MineAny
    BY <1>1, <2>4, MineTells DEF MineAny
  <2>5. QED
    BY <2>1, <2>2, <2>3, <2>4 DEF Next
<1>3. QED
  BY <1>1, <1>2 DEF Good

-----------------------------------------------------------------------------
(***************************************************************************)
(* What follows.                                                           *)
(***************************************************************************)

\* A row that is due is held: each row for a request of its own.
LEMMA DueIsLocked == Good => Backed
<1> SUFFICES ASSUME Good, ~Mistaken, NEW u \in User, LocksOwn(u) PROVE Due(u) <= accounts[u].locked
  BY DEF Backed
<1>1. TypeOK /\ PayInv /\ RowsTell /\ EndsTell /\ LocksTell /\ FundsInv /\ Trusted
  BY DEF Good, ChainInv, Mistaken, Trusted
<1> DEFINE due == {i \in DOMAIN rows :
                      rows[i].user = u /\ ~Debited(i) /\ (AboutToSend(i) \/ Transfers(i) # {})}
           f == [i \in due |-> rows[i].amount]
           g == [r \in Request |-> Held(u, r)]
           Of(i) == CHOOSE r \in Request :
                       rows[i].user = r.user /\ rows[i].key = r.key /\ rows[i].amount = r.amount
           h == [i \in due |-> Of(i)]
<1>2. Due(u) = SumFunctionOnSet(f, due)
  BY DEF Due, SumFunction
<1>3. accounts[u].locked = SumFunctionOnSet(g, Request)
  BY <1>1 DEF FundsInv, Holds
<1>4. IsFiniteSet(due) /\ IsFiniteSet(Request)
  <2>1. IsFiniteSet(1 .. Len(rows)) /\ due \in SUBSET (1 .. Len(rows))
    BY <1>1, Lengths, FS_Interval
  <2>2. QED
    BY <2>1, FS_Subset, RequestAssumption
<1>5. ASSUME NEW i \in due
      PROVE  /\ h[i] \in Request /\ h[i].key = rows[i].key
             /\ f[i] \in Nat /\ f[i] <= g[h[i]]
  <2>1. i \in DOMAIN rows /\ rows[i].user = u /\ ~Debited(i) /\ (AboutToSend(i) \/ Transfers(i) # {})
    OBVIOUS
  <2>2. \E r \in Request : rows[i].user = r.user /\ rows[i].key = r.key /\ rows[i].amount = r.amount
    BY <1>1, <2>1 DEF RowsTell
  <2>3. PICK r \in Request :
            r = h[i] /\ rows[i].user = r.user /\ rows[i].key = r.key /\ rows[i].amount = r.amount
    BY <2>2
  <2>4. ~OnLedger(DebitKey(i))
    BY <2>1, PostedIs DEF Debited, DebitKey
  <2>5. ~Void(i)
    <3>1. CASE AboutToSend(i)
      <4>1. ASSUME NEW w \in Worker, work[w].pc = "sending", work[w].row = i PROVE Sending(w, i)
        BY <4>1 DEF Sending
      <4>2. QED
        BY <3>1, <4>1 DEF AboutToSend, Void
    <3>2. CASE Transfers(i) # {}
      BY <3>2 DEF Transfers, Void
    <3>3. QED
      BY <2>1, <3>1, <3>2
  <2>6. Held(r.user, r) = r.amount
    BY <1>1, <2>1, <2>3, <2>4, <2>5, HeldIs
  <2>7. g[r] = r.amount /\ f[i] = r.amount
    BY <2>1, <2>3, <2>6
  <2>8. r.amount \in Nat
    BY CallOf
  <2> HIDE DEF f, g, h
  <2>9. QED
    BY <2>3, <2>7, <2>8
<1>6. ASSUME NEW i \in due, NEW j \in due, h[i] = h[j] PROVE i = j
  <2>1. rows[i].key = rows[j].key
    BY <1>5, <1>6
  <2>2. rows[i].user = rows[j].user /\ i \in DOMAIN rows /\ j \in DOMAIN rows
    BY DEF due
  <2>3. QED
    BY <1>1, <2>1, <2>2, OneRow
<1>7. \A r \in Request : g[r] \in Nat
  BY HeldNat
<1> HIDE DEF f, g, h, due
<1>8. SumFunctionOnSet(f, due) <= SumFunctionOnSet(g, Request)
  BY <1>4, <1>5, <1>6, <1>7, SumInto
<1>9. QED
  BY <1>2, <1>3, <1>8

LEMMA EventsTell == Good => EventsTellChain
<1> SUFFICES ASSUME Good PROVE EventsTellChain
  OBVIOUS
<1>1. TypeOK /\ RowsTell /\ EndsTell /\ DOMAIN rows \subseteq Nat
  BY Lengths DEF Good, ChainInv
<1>2. ASSUME NEW i \in DOMAIN rows, Event("COMPLETED", i) \in outbox
      PROVE  /\ Debited(i)
             /\ \E t \in Transfers(i) : chain[t].status = "success" /\ chain[t].amount <= rows[i].amount
  <2>1. OnLedger(DebitKey(i))
    BY <1>1, <1>2 DEF EndsTell
  <2>2. Debited(i)
    BY <2>1, PostedIs DEF Debited, DebitKey
  <2>3. PICK t \in DOMAIN chain : chain[t].row = i /\ chain[t].status = "success"
    BY <1>1, <2>1 DEF EndsTell, Paid
  <2>4. t \in Transfers(i)
    BY <2>3 DEF Transfers
  <2>5. chain[t].amount = Payable(rows[i].amount)
    BY <1>1, <2>3 DEF RowsTell
  <2>6. rows[i].amount \in Nat
    BY <1>1, CallOf DEF RowsTell
  <2>7. Payable(rows[i].amount) <= rows[i].amount
    <3> DEFINE a == rows[i].amount
    <3>1. a % Dust \in Nat
      BY <2>6, UnitsAssumption
    <3> HIDE DEF a
    <3>2. a - (a % Dust) <= a
      <4>1. PICK m \in Nat : m = a % Dust
        BY <3>1
      <4>2. a \in Nat
        BY <2>6 DEF a
      <4>3. QED
        BY <4>1, <4>2
    <3>3. QED
      BY <3>2 DEF Payable, a
  <2>8. QED
    BY <2>2, <2>3, <2>4, <2>5, <2>7
<1>3. ASSUME failures \cap {"send", "record", "receipt"} = {}, NEW i \in DOMAIN rows, Event("FAILED", i) \in outbox
      PROVE  Transfers(i) = {}
  <2>1. Void(i)
    BY <1>1, <1>3 DEF EndsTell, Trusted
  <2>2. QED
    BY <2>1 DEF Void, Transfers
<1>4. QED
  BY <1>2, <1>3 DEF EventsTellChain

\* The table, the chain, the handlers and the instances refer to entries there are.
THEOREM WithdrawalsTypeOK == Spec => []TypeOK
BY InitPays, NextPays, PTL DEF Spec

\* A user and key is paid once, however often the withdrawal is requested, by however many
\* instances, and whatever fails or stops (FOR UPDATE SKIP LOCKED in the repository, the
\* unique index on user and key, and a recovery that only asks for receipts).
THEOREM WithdrawalsPaidOnce == Spec => []PaidOnce
<1>1. TypeOK /\ PayInv => PaidOnce
  <2> SUFFICES ASSUME TypeOK, PayInv, NEW s \in DOMAIN chain, NEW t \in DOMAIN chain,
                      rows[chain[s].row].user = rows[chain[t].row].user,
                      rows[chain[s].row].key = rows[chain[t].row].key
               PROVE  s = t
    BY DEF PaidOnce
  <2>1. /\ s \in 1 .. Len(chain) /\ t \in 1 .. Len(chain)
        /\ chain[s].row \in 1 .. Len(rows) /\ chain[t].row \in 1 .. Len(rows)
    BY Lengths DEF TypeOK
  <2>2. chain[s].row = chain[t].row
    BY <2>1 DEF PayInv
  <2>3. QED
    BY <2>1, <2>2 DEF PayInv
<1>2. QED
  BY <1>1, InitPays, NextPays, PTL DEF Spec

\* The rows, the transactions, the instances and the ledger agree. What is locked is what is
\* held for the requests, of every user under none of whose keys another user's funds are
\* locked: the accounts service would take his lock for a repetition of that one. No row is
\* left behind by anything but the failures named.
THEOREM WithdrawalsInvariant == Spec => []Good
BY InitGood, NextGood, PTL DEF Spec

\* What was or may be transferred to a user who shares no key is still locked until it is
\* debited, whatever keys the others share, unless an error was taken for one of the insert
\* or of the transaction (transfers.service.ts:58-64,
\* the lock before the row; withdrawal-processor.service.ts:208, the debit before its end).
THEOREM WithdrawalsBacked == Spec => []Backed
<1>1. Good => Backed
  BY DueIsLocked
<1>2. QED
  BY <1>1, WithdrawalsInvariant, PTL

\* What the events say of a withdrawal happened on the chain: a completed one was transferred
\* and debited at least as much, a failed one was not transferred, unless an error was taken
\* for one of the transaction (completeWithdrawal and failWithdrawal).
THEOREM WithdrawalsEventsTellChain == Spec => []EventsTellChain
<1>1. Good => EventsTellChain
  BY EventsTell
<1>2. QED
  BY <1>1, WithdrawalsInvariant, PTL

\* A row in progress is of a worker, unless an instance stopped or the transaction that ends
\* a row failed. A debit that fails or is refused leaves only rows whose hash was recorded,
\* which recoverStuckWithdrawals finds; it is refused only when an error was mistaken or the
\* user shares a key.
THEOREM WithdrawalsNoneLeftBehind == Spec => []NoneLeftBehind
<1>1. Good => NoneLeftBehind
  BY DEF Good
<1>2. QED
  BY <1>1, WithdrawalsInvariant, PTL
=============================================================================
