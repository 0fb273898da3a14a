-------------------------- MODULE OrderIntakeProofs --------------------------
(***************************************************************************)
(* Proofs about OrderIntake: what its variables are, that a key makes one  *)
(* order, and that a record tells the order of its key, for any clients,   *)
(* handlers and failures, stale trades of cancelled orders among them; and *)
(* what the funds of a user come to, who shares no key with another user.  *)
(*                                                                         *)
(* What keeps a second order from being placed is spread over the steps of *)
(* a handler: IntakeInv says that one handler at a time works on a key,    *)
(* that its record is in progress meanwhile, and which orders of the key   *)
(* there can be at each step.                                              *)
(***************************************************************************)
EXTENDS OrderIntake, SumTheorems, TLAPS

Working(h) == work[h].pc \in {"recorded", "locked", "matched", "placed", "compensating", "failing"}

\* The record of a key somebody works on is in progress.
RecordInProgress ==
    \A h \in Handler : Working(h) => records[ScopeOf(work[h].req)].status = "IN_PROGRESS"

\* Nobody else works on it.
OneHandler ==
    \A h, g \in Handler :
        Working(h) /\ Working(g) /\ ScopeOf(work[h].req) = ScopeOf(work[g].req) => h = g

\* The orders of a key somebody works on.
MyOrders(h) == OrdersOf(ScopeOf(work[h].req))
OrdersOfHandler ==
    \A h \in Handler :
        /\ work[h].pc \in {"recorded", "locked", "matched"} => MyOrders(h) = {}
        /\ work[h].pc = "placed" => MyOrders(h) = {work[h].order}
        /\ work[h].pc \in {"compensating", "failing"} /\ "commit" \notin Failures => MyOrders(h) = {}

\* The order of a transaction that is under way.
Inserted(h) ==
    LET o == orders[work[h].order]
    IN  /\ o.status = "UNPLACED" /\ ScopeOf(o) = ScopeOf(work[h].req)
        /\ o.filled + o.remaining = work[h].req.amount
OrderOfTransaction == \A h \in Handler : work[h].pc = "matched" => Inserted(h)

\* Every order was placed under a record.
OrdersHaveRecords ==
    \A i \in DOMAIN orders :
        ScopeOf(orders[i]) \in Scope /\ records[ScopeOf(orders[i])].status # "NONE"

IntakeInv ==
    /\ TypeOK
    /\ RecordInProgress
    /\ OneHandler
    /\ OrdersOfHandler
    /\ OrderOfTransaction
    /\ OrdersHaveRecords
    /\ OneOrderPerKey
    /\ RecordTellsOrder

-----------------------------------------------------------------------------
(***************************************************************************)
(* Types.                                                                  *)
(***************************************************************************)

\* The user and key of a request have a place in the table of records.
LEMMA ScopeOfRequest == \A r \in Request : ScopeOf(r) \in Scope /\ r.user \in User /\ r.amount \in Nat
BY RequestAssumption DEF Scope, ScopeOf

\* A posting keeps the types of the balances, and the available one from going negative.
LEMMA PostType ==
    ASSUME AccountsType,
           NEW op \in {"LOCK", "UNLOCK"}, NEW u \in User, NEW q \in Nat, NEW k,
           Accounts!Post(Call(op, u, q, k))
    PROVE  AccountsType'
<1> DEFINE c == Call(op, u, q, k)
           entry == Accounts!EntryFor(c, accounts[u])
<1>1. c.acct = u /\ c.op = op /\ c.amount = q
  BY DEF Call
<1>2. accounts[u].avail \in Nat /\ accounts[u].locked \in Int
  BY DEF AccountsType
<1>3. entry.avail \in Int /\ entry.locked \in Int
  BY <1>1, <1>2 DEF Accounts!EntryFor
<1>4. entry.avail >= 0
  BY <1>1 DEF Accounts!Post
<1>5. accounts' = [accounts EXCEPT ![u] = [exists |-> TRUE, avail |-> entry.avail, locked |-> entry.locked]]
  BY <1>1 DEF Accounts!Post
<1>6. [exists |-> TRUE, avail |-> entry.avail, locked |-> entry.locked]
        \in [exists : {TRUE}, avail : Nat, locked : Int]
  BY <1>3, <1>4
<1> HIDE DEF entry
<1>7. QED
  BY <1>5, <1>6 DEF AccountsType

\* So does any call of the service, whatever comes of it.
LEMMA CallType ==
    ASSUME AccountsType,
           NEW op \in {"LOCK", "UNLOCK"}, NEW u \in User, NEW q \in Nat, NEW k,
           \/ Accepted(Call(op, u, q, k))
           \/ Refused(Call(op, u, q, k))
           \/ Unanswered(Call(op, u, q, k))
    PROVE  AccountsType'
<1>1. CASE Accounts!Post(Call(op, u, q, k))
  BY <1>1, PostType
<1>2. CASE UNCHANGED accounts
  BY <1>2 DEF AccountsType
<1>3. QED
  BY <1>1, <1>2 DEF Accepted, Refused, Unanswered

\* An execution of an order, whatever the amounts, leaves a placed row of the table.
LEMMA ExecutedType ==
    ASSUME NEW o \in Row, NEW filled \in Nat, NEW left \in Nat
    PROVE  /\ Executed(o, filled, left) \in Row
           /\ ScopeOf(Executed(o, filled, left)) = ScopeOf(o)
           /\ Executed(o, filled, left).user = o.user /\ Executed(o, filled, left).remaining = left
           /\ Executed(o, filled, left).status = StatusOf(filled, left)
           /\ Executed(o, filled, left).status # "UNPLACED"
<1> DEFINE status == StatusOf(filled, left)
           p == Executed(o, filled, left)
<1>1. status \in {"OPEN", "PARTIALLY_FILLED", "FILLED"}
  BY DEF StatusOf
<1>2. p = [o EXCEPT !.filled = filled, !.remaining = left, !.status = status]
  BY DEF Executed
<1> HIDE DEF status
<1>3. p \in Row /\ p.user = o.user /\ p.key = o.key /\ p.remaining = left /\ p.status = status
  <2> HIDE DEF p
  <2>1. QED
    BY <1>1, <1>2 DEF Row
<1>4. QED
  BY <1>1, <1>3 DEF p, status, ScopeOf

\* A transaction adds a row to the table that nobody else sees.
LEMMA InsertType ==
    ASSUME TypeOK, NEW h \in Handler, InsertOrder(h)
    PROVE  LET n == Len(orders) + 1
               r == work[h].req
           IN  /\ orders' \in Seq(Row) /\ Len(orders') = n /\ n <= MaxOrders
               /\ DOMAIN orders' = DOMAIN orders \cup {n} /\ n \notin DOMAIN orders
               /\ \A i \in DOMAIN orders : orders'[i] = orders[i]
               /\ ScopeOf(orders'[n]) = ScopeOf(r) /\ orders'[n].status = "UNPLACED"
               /\ orders'[n].user = r.user
               /\ orders'[n].filled + orders'[n].remaining = r.amount
<1> DEFINE n == Len(orders) + 1
           r == work[h].req
<1>1. PICK q \in 0 .. r.amount :
        orders' = Append(orders, [user |-> r.user, key |-> r.key, amount |-> r.amount, filled |-> q,
                                  remaining |-> r.amount - q, status |-> "UNPLACED"])
  BY DEF InsertOrder
<1> DEFINE o == [user |-> r.user, key |-> r.key, amount |-> r.amount, filled |-> q,
                 remaining |-> r.amount - q, status |-> "UNPLACED"]
<1>2. r \in Request /\ r.user \in User /\ r.amount \in Nat /\ r.key \in {x.key : x \in Request}
  BY ScopeOfRequest DEF TypeOK, WorkType
<1> HIDE DEF r
<1>3. q \in Nat /\ r.amount - q \in Nat /\ q + (r.amount - q) = r.amount
  BY <1>2
<1>4. /\ o \in Row /\ ScopeOf(o) = ScopeOf(r) /\ o.status = "UNPLACED" /\ o.user = r.user
      /\ o.filled + o.remaining = r.amount
  BY <1>2, <1>3 DEF Row, ScopeOf
<1>5. orders' = Append(orders, o)
  BY <1>1
<1> HIDE DEF o
<1>6. orders \in Seq(Row) /\ Len(orders) \in Nat /\ n <= MaxOrders
  BY DEF TypeOK, OrdersType, InsertOrder
<1>7. /\ orders' \in Seq(Row) /\ Len(orders') = n /\ orders'[n] = o
      /\ DOMAIN orders' = DOMAIN orders \cup {n} /\ n \notin DOMAIN orders
      /\ \A i \in DOMAIN orders : orders'[i] = orders[i]
  BY <1>4, <1>5, <1>6
<1>8. QED
  BY <1>4, <1>6, <1>7 DEF r

\* A row of the table that changes keeps its place.
LEMMA RowChanges ==
    ASSUME OrdersType, NEW i \in DOMAIN orders, NEW o \in Row, orders' = [orders EXCEPT ![i] = o]
    PROVE  /\ orders' \in Seq(Row) /\ Len(orders') = Len(orders) /\ DOMAIN orders' = DOMAIN orders
           /\ orders'[i] = o /\ \A j \in DOMAIN orders : j # i => orders'[j] = orders[j]
BY DEF OrdersType

\* What a COMMIT does to the order of a transaction.
LEMMA PlaceType ==
    ASSUME TypeOK, NEW h \in Handler, PlaceOrder(h) \/ CommitUnanswered(h)
    PROVE  LET i == work[h].order
               o == orders[i]
           IN  /\ i \in DOMAIN orders /\ i \in Id /\ o \in Row
               /\ orders' \in Seq(Row) /\ Len(orders') = Len(orders) /\ DOMAIN orders' = DOMAIN orders
               /\ orders'[i] = Executed(o, o.filled, o.remaining)
               /\ ScopeOf(orders'[i]) = ScopeOf(o) /\ orders'[i].status # "UNPLACED"
               /\ \A j \in DOMAIN orders : j # i => orders'[j] = orders[j]
               /\ owed' \in [Id -> Nat] /\ owed'[i] = owed[i] + o.filled
               /\ \A j \in Id : j # i => owed'[j] = owed[j]
<1> DEFINE i == work[h].order
           o == orders[i]
<1>1. work[h].pc = "matched" /\ Place(i)
  BY DEF PlaceOrder, CommitUnanswered
<1>2. /\ i \in DOMAIN orders /\ i \in Id /\ o \in Row /\ o.filled \in Nat /\ o.remaining \in Nat
      /\ owed \in [Id -> Nat] /\ OrdersType
  <2>1. i \in 0 .. Len(orders) /\ i # 0 /\ OrdersType
    BY <1>1 DEF TypeOK, WorkType
  <2> HIDE DEF i
  <2>2. Len(orders) \in Nat /\ Len(orders) <= MaxOrders /\ MaxOrders \in Nat
    BY <2>1, BoundsAssumption DEF OrdersType
  <2>3. i \in DOMAIN orders /\ i \in Id
    BY <2>1, <2>2 DEF OrdersType, Id
  <2>4. o \in Row /\ owed \in [Id -> Nat]
    BY <2>1, <2>3 DEF OrdersType
  <2> HIDE DEF o
  <2>5. o.filled \in Nat /\ o.remaining \in Nat
    BY <2>4 DEF Row
  <2>6. QED
    BY <2>1, <2>3, <2>4, <2>5
<1>3. Executed(o, o.filled, o.remaining) \in Row /\ ScopeOf(Executed(o, o.filled, o.remaining)) = ScopeOf(o)
      /\ Executed(o, o.filled, o.remaining).status # "UNPLACED"
  BY <1>2, ExecutedType
<1>4. /\ orders' = [orders EXCEPT ![i] = Executed(o, o.filled, o.remaining)]
      /\ owed' = [owed EXCEPT ![i] = owed[i] + o.filled]
  BY <1>1, <1>2 DEF Place
<1> HIDE DEF i, o
<1>5. /\ orders' \in Seq(Row) /\ Len(orders') = Len(orders) /\ DOMAIN orders' = DOMAIN orders
      /\ orders'[i] = Executed(o, o.filled, o.remaining)
      /\ \A j \in DOMAIN orders : j # i => orders'[j] = orders[j]
  BY <1>2, <1>3, <1>4, RowChanges
<1>6. /\ owed' \in [Id -> Nat] /\ owed'[i] = owed[i] + o.filled
      /\ \A j \in Id : j # i => owed'[j] = owed[j]
  BY <1>2, <1>4
<1>7. QED
  BY <1>2, <1>3, <1>5, <1>6 DEF i, o

\* A trade, in turn or stale, changes the row of one placed order and what it owes.
LEMMA TradeType ==
    ASSUME OrdersType, NEW i \in Id, Trade(i) \/ TradeStale(i)
    PROVE  /\ i \in DOMAIN orders
           /\ orders' \in Seq(Row) /\ Len(orders') = Len(orders) /\ DOMAIN orders' = DOMAIN orders
           /\ ScopeOf(orders'[i]) = ScopeOf(orders[i]) /\ orders'[i].user = orders[i].user
           /\ orders[i].status = "UNPLACED" /\ ~Live(orders[i]) => orders'[i] = orders[i]
           /\ orders[i].status # "UNPLACED" => orders'[i].status # "UNPLACED"
           /\ \A j \in DOMAIN orders : j # i => orders'[j] = orders[j]
           /\ owed' \in [Id -> Nat] /\ \A j \in Id : j # i => owed'[j] = owed[j]
<1>1. i \in DOMAIN orders /\ orders[i] \in Row /\ owed[i] \in Nat
  BY DEF Trade, TradeStale, OrdersType
<1>2. orders[i].filled \in Nat /\ orders[i].remaining \in Nat /\ orders[i].amount \in Nat
  BY <1>1 DEF Row
<1>3. PICK q \in Nat : owed' = [owed EXCEPT ![i] = owed[i] + q]
  <2>1. CASE Trade(i)
    <3>1. PICK q \in 1 .. orders[i].remaining : owed' = [owed EXCEPT ![i] = owed[i] + q]
      BY <2>1 DEF Trade, Quantities
    <3>2. q \in Nat
      BY <1>2
    <3>3. QED
      BY <3>1, <3>2
  <2>2. CASE TradeStale(i)
    <3>1. PICK left \in 1 .. orders[i].amount : \E q \in 1 .. left : owed' = [owed EXCEPT ![i] = owed[i] + q]
      BY <2>2 DEF TradeStale
    <3>2. PICK q \in 1 .. left : owed' = [owed EXCEPT ![i] = owed[i] + q]
      BY <3>1
    <3>3. q \in Nat
      BY <1>2
    <3>4. QED
      BY <3>2, <3>3
  <2>3. QED
    BY <2>1, <2>2
<1>4. owed' \in [Id -> Nat] /\ \A j \in Id : j # i => owed'[j] = owed[j]
  BY <1>1, <1>3 DEF OrdersType
<1>5. CASE UNCHANGED orders
  BY <1>1, <1>4, <1>5 DEF OrdersType
<1>6. CASE \E filled, left \in Nat : orders' = [orders EXCEPT ![i] = Executed(orders[i], filled, left)]
           /\ (orders[i].status # "UNPLACED" \/ Live(orders[i]))
  <2>1. PICK filled \in Nat, left \in Nat :
          orders' = [orders EXCEPT ![i] = Executed(orders[i], filled, left)]
    BY <1>6
  <2>2. PICK o \in Row : /\ o = Executed(orders[i], filled, left)
                         /\ ScopeOf(o) = ScopeOf(orders[i]) /\ o.user = orders[i].user
                         /\ o.status # "UNPLACED"
    BY <1>1, ExecutedType
  <2>3. /\ orders' \in Seq(Row) /\ Len(orders') = Len(orders) /\ DOMAIN orders' = DOMAIN orders
        /\ orders'[i] = o /\ \A j \in DOMAIN orders : j # i => orders'[j] = orders[j]
    BY <1>1, <2>1, <2>2, RowChanges
  <2>4. QED
    BY <1>1, <1>4, <1>6, <2>2, <2>3
<1>7. CASE Trade(i)
  <2>1. PICK q2 \in 1 .. orders[i].remaining :
          orders' = [orders EXCEPT ![i] = Executed(orders[i], orders[i].filled + q2, orders[i].remaining - q2)]
    BY <1>1, <1>7 DEF Trade, Quantities, OrdersType
  <2>2. orders[i].filled + q2 \in Nat /\ orders[i].remaining - q2 \in Nat
    BY <1>2
  <2>3. QED
    BY <1>6, <1>7, <2>1, <2>2 DEF Trade
<1>8. CASE TradeStale(i)
  <2>1. PICK seen \in 0 .. orders[i].filled, left \in 1 .. orders[i].amount : \E q2 \in 1 .. left :
          orders' = IF orders[i].status = "UNPLACED" THEN orders
                    ELSE [orders EXCEPT ![i] = Executed(orders[i], seen + q2, left - q2)]
    BY <1>1, <1>8 DEF TradeStale, OrdersType
  <2>2. PICK q2 \in 1 .. left :
          orders' = IF orders[i].status = "UNPLACED" THEN orders
                    ELSE [orders EXCEPT ![i] = Executed(orders[i], seen + q2, left - q2)]
    BY <2>1
  <2>3. seen + q2 \in Nat /\ left - q2 \in Nat
    BY <1>2
  <2>4. QED
    BY <1>5, <1>6, <2>2, <2>3
<1>9. QED
  BY <1>7, <1>8

LEMMA InitType == Init => TypeOK
<1> SUFFICES ASSUME Init PROVE TypeOK
  OBVIOUS
<1>1. NoRequest \in Request
  BY RequestAssumption DEF NoRequest
<1>2. orders = << >> /\ Len(orders) = 0 /\ orders \in Seq(Row)
  BY DEF Init
<1>3. AccountsType
  BY BoundsAssumption DEF Init, AccountsType
<1>4. RecordsType
  BY <1>2 DEF Init, RecordsType, NoRecord
<1>5. OrdersType
  BY <1>2, BoundsAssumption DEF Init, OrdersType
<1>6. WorkType
  BY <1>1, <1>2 DEF Init, WorkType, Idle
<1>7. CancelType
  BY <1>2 DEF Init, CancelType, NoCancel
<1>8. FailuresType
  BY DEF Init, FailuresType
<1>9. QED
  BY <1>3, <1>4, <1>5, <1>6, <1>7, <1>8 DEF TypeOK

\* What a step leaves alone keeps its type. References to orders keep theirs as long as
\* the table does not shrink.
LEMMA UnchangedTypes ==
    ASSUME TypeOK
    PROVE  /\ UNCHANGED accounts => AccountsType'
           /\ UNCHANGED <<records, orders>> => RecordsType'
           /\ UNCHANGED <<orders, owed>> => OrdersType'
           /\ UNCHANGED <<work, orders>> => WorkType'
           /\ UNCHANGED <<cancel, orders>> => CancelType'
BY DEF TypeOK, AccountsType, RecordsType, OrdersType, WorkType, CancelType

\* A handler goes on to another step, or ends.
LEMMA GotoType ==
    ASSUME WorkType, UNCHANGED orders, NEW h \in Handler,
           \/ \E step \in {"recorded", "locked", "compensating", "failing"} : Goto(h, step)
           \/ work' = [work EXCEPT ![h] = Idle]
    PROVE  WorkType'
<1>1. Idle \in [pc : {"idle"}, req : Request, order : 0 .. Len(orders)]
  <2>1. Len(orders) \in Nat
    BY DEF WorkType
  <2>2. QED
    BY <2>1, RequestAssumption DEF Idle, NoRequest
<1>2. QED
  BY <1>1 DEF WorkType, Goto

\* A cancellation is over.
LEMMA EndsType ==
    ASSUME CancelType, UNCHANGED orders, NEW c \in Canceller, cancel[c].pc # "idle",
           cancel' = [cancel EXCEPT ![c].pc = "done"]
    PROVE  /\ CancelType' /\ cancel'[c].pc = "done"
           /\ \A d \in Canceller \ {c} : cancel'[d] = cancel[d]
BY DEF CancelType

\* A failure is added to the history.
LEMMA FaultAdds ==
    ASSUME FailuresType,
           NEW kind \in {"lock", "rollback", "commit", "unlock", "crash", "cancel", "stale"}, Fault(kind)
    PROVE  FailuresType' /\ Failures' = Failures \cup {kind}
<1>1. failures' = Append(failures, kind)
  BY DEF Fault
<1>2. /\ FailuresType' /\ Len(failures') = Len(failures) + 1 /\ Len(failures) \in Nat
      /\ \A i \in 1 .. Len(failures) : failures'[i] = failures[i]
      /\ failures'[Len(failures) + 1] = kind
      /\ DOMAIN failures = 1 .. Len(failures) /\ DOMAIN failures' = 1 .. Len(failures')
  BY <1>1 DEF FailuresType
<1>3. QED
  BY <1>2 DEF Failures

LEMMA NextFailures ==
    ASSUME FailuresType, [Next]_vars
    PROVE  FailuresType' /\ Failures \subseteq Failures'
<1>1. CASE UNCHANGED failures
  BY <1>1 DEF FailuresType, Failures
<1>2. CASE \E kind \in {"lock", "rollback", "commit", "unlock", "crash", "cancel", "stale"} : Fault(kind)
  BY <1>2, FaultAdds
<1>3. ASSUME NEW h \in Handler,
             \/ \E r \in Request : Begin(h, r)
             \/ CreateRecord(h) \/ Lock(h) \/ LockFails(h)
             \/ InsertOrder(h) \/ PlaceOrder(h) \/ PlaceOrderFails(h) \/ CommitUnanswered(h)
             \/ Compensate(h) \/ CompensateFails(h) \/ FailRecord(h) \/ CompleteRecord(h)
             \/ Abandon(h)
      PROVE  \/ UNCHANGED failures
             \/ \E kind \in {"lock", "rollback", "commit", "unlock", "crash", "cancel", "stale"} : Fault(kind)
  BY <1>3 DEF Begin, CreateRecord, Lock, LockFails, InsertOrder, PlaceOrder, PlaceOrderFails,
     CommitUnanswered, Compensate, CompensateFails, FailRecord, CompleteRecord, Abandon
<1>4. ASSUME NEW c \in Canceller,
             \/ \E i \in Id : BeginCancel(c, i)
             \/ CancelRow(c) \/ UnlockCancelled(c) \/ CancelFails(c)
      PROVE  UNCHANGED failures \/ Fault("cancel")
  BY <1>4 DEF BeginCancel, CancelRow, UnlockCancelled, CancelFails
<1>5. QED
  BY <1>1, <1>2, <1>3, <1>4 DEF Next, Expire, Trade, TradeStale, Settle, vars

LEMMA NextType == TypeOK /\ [Next]_vars => TypeOK'
<1> SUFFICES ASSUME TypeOK, [Next]_vars PROVE TypeOK'
  OBVIOUS
<1>0. /\ AccountsType /\ RecordsType /\ OrdersType /\ WorkType /\ CancelType
      /\ \A h \in Handler : work[h].req \in Request
  BY DEF TypeOK, WorkType
<1>f. FailuresType'
  BY NextFailures DEF TypeOK
<1>1. ASSUME NEW h \in Handler, NEW r \in Request, Begin(h, r) PROVE TypeOK'
  <2>1. WorkType'
    BY <1>0, <1>1 DEF Begin, WorkType, OrdersType
  <2>2. QED
    BY <1>1, <2>1, UnchangedTypes, <1>f DEF Begin, TypeOK
<1>2. ASSUME NEW h \in Handler, CreateRecord(h) PROVE TypeOK'
  <2>1. NewRecord(work[h].req) \in
          [status : {"IN_PROGRESS"}, amount : Nat, order : 0 .. Len(orders), expired : BOOLEAN]
    BY <1>0, ScopeOfRequest DEF NewRecord, OrdersType
  <2>2. RecordsType'
    BY <1>0, <1>2, <2>1, ScopeOfRequest DEF CreateRecord, RecordsType
  <2>3. WorkType'
    BY <1>0, <1>2, GotoType DEF CreateRecord
  <2>4. QED
    BY <1>2, <2>2, <2>3, UnchangedTypes, <1>f DEF CreateRecord, TypeOK
<1>3. ASSUME NEW h \in Handler, Lock(h) \/ LockFails(h) PROVE TypeOK'
  <2>1. AccountsType'
    BY <1>0, <1>3, ScopeOfRequest, CallType DEF Lock, LockFails, LockCall
  <2>2. WorkType'
    BY <1>0, <1>3, GotoType DEF Lock, LockFails
  <2>3. QED
    BY <1>3, <2>1, <2>2, UnchangedTypes, <1>f DEF Lock, LockFails, TypeOK
<1>4. ASSUME NEW h \in Handler, InsertOrder(h) \/ PlaceOrder(h) \/ CommitUnanswered(h) PROVE TypeOK'
  <2>1. /\ orders' \in Seq(Row) /\ Len(orders') \in Nat /\ Len(orders) \in Nat
        /\ Len(orders) <= Len(orders') /\ Len(orders') <= MaxOrders
        /\ owed' \in [Id -> Nat]
    <3>1. Len(orders) \in Nat /\ Len(orders) <= MaxOrders /\ owed \in [Id -> Nat]
      BY <1>0 DEF OrdersType
    <3>2. CASE InsertOrder(h)
      <4>1. UNCHANGED owed
        BY <3>2 DEF InsertOrder
      <4>2. QED
        BY <3>1, <3>2, <4>1, InsertType
    <3>3. CASE PlaceOrder(h) \/ CommitUnanswered(h)
      BY <3>1, <3>3, PlaceType
    <3>4. QED
      BY <1>4, <3>2, <3>3
  <2>2. \A n \in 0 .. Len(orders) : n \in 0 .. Len(orders')
    BY <2>1
  <2>3. WorkType'
    <3>1. CASE InsertOrder(h)
      <4> DEFINE w == work[h]
                 n == Len(orders) + 1
                 Kind == [pc : {"idle", "found", "recorded", "locked", "matched", "placed",
                                "compensating", "failing"},
                          req : Request, order : 0 .. Len(orders')]
      <4>1. work' = [work EXCEPT ![h] = [[w EXCEPT !.pc = "matched"] EXCEPT !.order = n]]
        BY <1>0, <3>1 DEF InsertOrder, WorkType
      <4>2. n \in 0 .. Len(orders') /\ n # 0
        BY <2>1, <3>1, InsertType
      <4>3. \A g \in Handler : work[g] \in Kind
        BY <1>0, <2>2 DEF WorkType
      <4>4. [[w EXCEPT !.pc = "matched"] EXCEPT !.order = n] \in Kind
            /\ [[w EXCEPT !.pc = "matched"] EXCEPT !.order = n].order = n
        <5> HIDE DEF n
        <5>1. w \in Kind
          BY <4>3
        <5> HIDE DEF w
        <5>2. QED
          BY <4>2, <5>1
      <4> HIDE DEF w, n
      <4>5. QED
        BY <1>0, <4>1, <4>2, <4>3, <4>4 DEF WorkType
    <3>2. CASE PlaceOrder(h)
      BY <1>0, <3>2, <2>2 DEF PlaceOrder, Goto, WorkType
    <3>3. CASE CommitUnanswered(h)
      BY <1>0, <3>3, <2>2 DEF CommitUnanswered, Goto, WorkType
    <3>4. QED
      BY <1>4, <3>1, <3>2, <3>3
  <2>4. CancelType' /\ RecordsType'
    BY <1>0, <1>4, <2>2 DEF InsertOrder, PlaceOrder, CommitUnanswered, CancelType, RecordsType
  <2>5. QED
    BY <1>4, <2>1, <2>3, <2>4, UnchangedTypes, <1>f
    DEF InsertOrder, PlaceOrder, CommitUnanswered, TypeOK, OrdersType
<1>5. ASSUME NEW h \in Handler, PlaceOrderFails(h) PROVE TypeOK'
  <2>1. WorkType'
    BY <1>0, <1>5, GotoType DEF PlaceOrderFails
  <2>2. QED
    BY <1>5, <2>1, UnchangedTypes, <1>f DEF PlaceOrderFails, TypeOK
<1>6. ASSUME NEW h \in Handler, Compensate(h) \/ CompensateFails(h) PROVE TypeOK'
  <2>1. AccountsType'
    BY <1>0, <1>6, ScopeOfRequest, CallType DEF Compensate, CompensateFails, UnlockCall
  <2>2. WorkType'
    BY <1>0, <1>6, GotoType DEF Compensate, CompensateFails
  <2>3. QED
    BY <1>6, <2>1, <2>2, UnchangedTypes, <1>f DEF Compensate, CompensateFails, TypeOK
<1>7. ASSUME NEW h \in Handler, FailRecord(h) \/ CompleteRecord(h) PROVE TypeOK'
  <2>1. ScopeOf(work[h].req) \in Scope /\ work[h].order \in 0 .. Len(orders)
    BY <1>0, ScopeOfRequest DEF WorkType
  <2>2. RecordsType'
    <3> DEFINE x == ScopeOf(work[h].req)
               rec == records[x]
               type == [status : {"NONE", "IN_PROGRESS", "COMPLETED", "FAILED"},
                        amount : Nat, order : 0 .. Len(orders), expired : BOOLEAN]
    <3>1. rec \in type /\ UNCHANGED orders
      BY <1>0, <1>7, <2>1 DEF RecordsType, FailRecord, CompleteRecord
    <3>2. PICK new \in type : records' = [records EXCEPT ![x] = new]
      <4>1. CASE FailRecord(h)
        <5>1. [rec EXCEPT !.status = "FAILED"] \in type
          BY <3>1
        <5>2. QED
          BY <4>1, <5>1 DEF FailRecord
      <4>2. CASE CompleteRecord(h)
        <5>1. [[rec EXCEPT !.status = "COMPLETED"] EXCEPT !.order = work[h].order] \in type
          BY <2>1, <3>1
        <5>2. records' = [records EXCEPT ![x] =
                            [[rec EXCEPT !.status = "COMPLETED"] EXCEPT !.order = work[h].order]]
          BY <1>0, <2>1, <4>2 DEF CompleteRecord, RecordsType
        <5>3. QED
          BY <5>1, <5>2
      <4>3. QED
        BY <1>7, <4>1, <4>2
    <3>3. QED
      BY <1>0, <3>1, <3>2 DEF RecordsType
  <2>3. WorkType'
    BY <1>0, <1>7, GotoType DEF FailRecord, CompleteRecord
  <2>4. QED
    BY <1>7, <2>2, <2>3, UnchangedTypes, <1>f DEF FailRecord, CompleteRecord, TypeOK
<1>8. ASSUME NEW h \in Handler, Abandon(h) PROVE TypeOK'
  <2>1. WorkType'
    BY <1>0, <1>8, GotoType DEF Abandon
  <2>2. QED
    BY <1>8, <2>1, UnchangedTypes, <1>f DEF Abandon, TypeOK
<1>9. ASSUME NEW x \in Scope, Expire(x) PROVE TypeOK'
  <2>1. RecordsType'
    BY <1>0, <1>9 DEF Expire, RecordsType
  <2>2. QED
    BY <1>9, <2>1, UnchangedTypes, <1>f DEF Expire, TypeOK
<1>10. ASSUME NEW c \in Canceller, NEW i \in Id, BeginCancel(c, i) PROVE TypeOK'
  <2>1. CancelType'
    BY <1>0, <1>10 DEF BeginCancel, CancelType, OrdersType
  <2>2. QED
    BY <1>10, <2>1, UnchangedTypes, <1>f DEF BeginCancel, TypeOK
<1>11. ASSUME NEW c \in Canceller, CancelRow(c) PROVE TypeOK'
  <2> DEFINE i == cancel[c].order
  <2>1. CASE ~Live(orders[i])
    <3>1. CancelType'
      BY <1>0, <1>11, <2>1, EndsType DEF CancelRow
    <3>2. QED
      BY <1>11, <2>1, <3>1, UnchangedTypes, <1>f DEF CancelRow, TypeOK
  <2>2. CASE Live(orders[i])
    <3>1. i \in DOMAIN orders /\ orders[i] \in Row
      BY <1>0, <1>11 DEF CancelRow, CancelType, OrdersType
    <3>2. [orders[i] EXCEPT !.status = "CANCELLED"] \in Row /\ orders[i].remaining \in Nat
      BY <3>1 DEF Row
    <3>3. orders' = [orders EXCEPT ![i] = [orders[i] EXCEPT !.status = "CANCELLED"]]
      BY <1>11, <2>2 DEF CancelRow
    <3>4. OrdersType' /\ Len(orders') = Len(orders)
      BY <1>0, <1>11, <3>1, <3>2, <3>3 DEF CancelRow, OrdersType
    <3>5. CancelType'
      <4> DEFINE Kind == [pc : {"idle", "found", "cancelled", "done"}, order : 0 .. Len(orders), amount : Nat]
      <4>1. cancel[c] \in Kind /\ cancel[c].order # 0
        BY <1>0, <1>11 DEF CancelRow, CancelType
      <4> DEFINE y == [cancel[c] EXCEPT !.pc = "cancelled", !.amount = orders[i].remaining]
      <4>2. y \in Kind /\ y.order # 0
        BY <3>2, <4>1
      <4>3. cancel' = [cancel EXCEPT ![c] = y]
        BY <1>0, <1>11, <2>2 DEF CancelRow, CancelType
      <4> HIDE DEF y
      <4>4. QED
        BY <1>0, <3>4, <4>2, <4>3 DEF CancelType
    <3>6. RecordsType' /\ WorkType'
      BY <1>0, <1>11, <3>4 DEF CancelRow, RecordsType, WorkType
    <3>7. QED
      BY <1>11, <3>4, <3>5, <3>6, UnchangedTypes, <1>f DEF CancelRow, TypeOK
  <2>3. QED
    BY <2>1, <2>2
<1>12. ASSUME NEW c \in Canceller, UnlockCancelled(c) \/ CancelFails(c) PROVE TypeOK'
  <2> DEFINE i == cancel[c].order
  <2>1. i \in DOMAIN orders /\ orders[i] \in Row /\ cancel[c].amount \in Nat
    BY <1>0, <1>12 DEF UnlockCancelled, CancelFails, CancelType, OrdersType
  <2>2. orders[i].user \in User
    BY <2>1 DEF Row
  <2>3. AccountsType'
    <3>1. CASE Accepted(CancelCall(c)) \/ Refused(CancelCall(c)) \/ Accounts!Post(CancelCall(c))
      BY <1>0, <2>1, <2>2, <3>1, CallType DEF CancelCall, Unanswered
    <3>2. CASE UNCHANGED accounts
      BY <3>2, UnchangedTypes
    <3>3. QED
      BY <1>12, <3>1, <3>2 DEF UnlockCancelled, CancelFails
  <2>4. CancelType'
    BY <1>0, <1>12, EndsType DEF UnlockCancelled, CancelFails
  <2>5. QED
    BY <1>12, <2>3, <2>4, UnchangedTypes, <1>f DEF UnlockCancelled, CancelFails, TypeOK
<1>13. ASSUME NEW i \in Id, Trade(i) \/ TradeStale(i) PROVE TypeOK'
  <2>1. orders' \in Seq(Row) /\ Len(orders') = Len(orders) /\ owed' \in [Id -> Nat]
    BY <1>0, <1>13, TradeType
  <2>2. OrdersType'
    BY <1>0, <2>1 DEF OrdersType
  <2>3. RecordsType' /\ WorkType' /\ CancelType'
    BY <1>0, <1>13, <2>1 DEF Trade, TradeStale, RecordsType, WorkType, CancelType
  <2>4. QED
    BY <1>13, <2>2, <2>3, UnchangedTypes, <1>f DEF Trade, TradeStale, TypeOK
<1>14. ASSUME NEW i \in Id, Settle(i) PROVE TypeOK'
  <2>1. AccountsType'
    <3> DEFINE u == orders[i].user
    <3>1. owed[i] \in Nat
      BY <1>0 DEF OrdersType
    <3>2. CASE u \in User
      <4> DEFINE account == [accounts[u] EXCEPT !.locked = accounts[u].locked - owed[i]]
      <4>1. accounts[u] \in [exists : {TRUE}, avail : Nat, locked : Int]
        BY <1>0, <3>2 DEF AccountsType
      <4>2. account \in [exists : {TRUE}, avail : Nat, locked : Int]
        <5>1. \A a \in [exists : {TRUE}, avail : Nat, locked : Int], n \in Int :
                [a EXCEPT !.locked = n] \in [exists : {TRUE}, avail : Nat, locked : Int]
          OBVIOUS
        <5> HIDE DEF u
        <5>2. accounts[u].locked \in Int
          BY <4>1
        <5>3. accounts[u].locked - owed[i] \in Int
          BY <3>1, <5>2
        <5>4. QED
          BY <4>1, <5>1, <5>3
      <4>3. accounts' = [accounts EXCEPT ![u] = account]
        BY <1>14 DEF Settle
      <4> HIDE DEF account, u
      <4>4. QED
        BY <1>0, <3>2, <4>2, <4>3 DEF AccountsType
    <3>3. CASE u \notin User
      BY <1>0, <1>14, <3>3 DEF Settle, AccountsType
    <3>4. QED
      BY <3>2, <3>3
  <2>2. OrdersType'
    BY <1>0, <1>14 DEF Settle, OrdersType
  <2>3. QED
    BY <1>14, <2>1, <2>2, UnchangedTypes, <1>f DEF Settle, TypeOK
<1>15. CASE UNCHANGED vars
  BY <1>15, UnchangedTypes, <1>f DEF vars, TypeOK
<1>16. QED
  BY <1>1, <1>2, <1>3, <1>4, <1>5, <1>6, <1>7, <1>8, <1>9, <1>10, <1>11, <1>12, <1>13, <1>14,
     <1>15 DEF Next

-----------------------------------------------------------------------------
(***************************************************************************)
(* One order per key.                                                      *)
(***************************************************************************)

\* What a handler may do without a change of the records: stop, stay, or go from before
\* the order is placed to giving it up.
Move(h) ==
    \/ ~Working(h)'
    \/ /\ Working(h) /\ work'[h].req = work[h].req /\ work'[h].order = work[h].order
       /\ \/ work'[h].pc = work[h].pc
          \/ /\ work[h].pc \in {"recorded", "locked", "matched"}
             /\ work'[h].pc \in {"locked", "compensating", "failing"}
          \/ work[h].pc = "compensating" /\ work'[h].pc = "failing"

\* The orders of each key are the same rows, and those of transactions are as they were.
SameOrders ==
    /\ DOMAIN orders' = DOMAIN orders
    /\ \A i \in DOMAIN orders :
          /\ ScopeOf(orders'[i]) = ScopeOf(orders[i])
          /\ orders[i].status # "UNPLACED" => orders'[i].status # "UNPLACED"
          /\ orders[i].status = "UNPLACED" => orders'[i] = orders[i]

LEMMA SameOrdersOf == SameOrders => Placed' = Placed /\ \A x : OrdersOf(x)' = OrdersOf(x)
<1> SUFFICES ASSUME SameOrders PROVE Placed' = Placed /\ \A x : OrdersOf(x)' = OrdersOf(x)
  OBVIOUS
<1>1. Placed' = Placed
  BY DEF SameOrders, Placed
<1>2. QED
  BY <1>1 DEF SameOrders, OrdersOf, Placed

LEMMA SameOrdersAs ==
    ASSUME SameOrders, NEW h, work'[h].req = work[h].req
    PROVE  MyOrders(h)' = MyOrders(h)
BY SameOrdersOf DEF SameOrders, MyOrders, OrdersOf, Placed

\* The order of a transaction is one of the table.
LEMMA TransactionRefers ==
    ASSUME TypeOK, NEW h \in Handler, work[h].pc = "matched"
    PROVE  work[h].order \in DOMAIN orders
<1>1. work[h].order \in 0 .. Len(orders) /\ work[h].order # 0 /\ orders \in Seq(Row)
  BY DEF TypeOK, WorkType, OrdersType
<1>2. QED
  BY <1>1

\* A transaction goes on as long as nobody changes its order.
LEMMA TransactionStays ==
    ASSUME NEW h, Inserted(h), work'[h].order = work[h].order, work'[h].req = work[h].req,
           orders'[work[h].order] = orders[work[h].order]
    PROVE  Inserted(h)'
BY DEF Inserted, ScopeOf

\* Steps that place no order, and change no status of a record, keep the invariant.
LEMMA MovesKeepInv ==
    ASSUME IntakeInv, TypeOK', SameOrders, Failures \subseteq Failures',
           \A h \in Handler : Move(h),
           \A x \in Scope : records'[x].status = records[x].status /\ records'[x].order = records[x].order
    PROVE  IntakeInv'
<1>1. \A x : OrdersOf(x)' = OrdersOf(x)
  BY SameOrdersOf
<1>2. \A h \in Handler : Working(h)' => Working(h) /\ work'[h].req = work[h].req
  BY DEF Move
<1>3. \A h \in Handler : work[h].req \in Request /\ ScopeOf(work[h].req) \in Scope
  BY ScopeOfRequest DEF IntakeInv, TypeOK, WorkType
<1>4. RecordInProgress'
  BY <1>2, <1>3 DEF IntakeInv, RecordInProgress, ScopeOf
<1>5. OneHandler'
  BY <1>2 DEF IntakeInv, OneHandler, ScopeOf
<1>6. OrdersOfHandler'
  <2> SUFFICES ASSUME NEW h \in Handler, Working(h)'
               PROVE  /\ work'[h].pc \in {"recorded", "locked", "matched"} => MyOrders(h)' = {}
                      /\ work'[h].pc = "placed" => MyOrders(h)' = {work'[h].order}
                      /\ work'[h].pc \in {"compensating", "failing"} /\ "commit" \notin Failures'
                         => MyOrders(h)' = {}
    BY DEF OrdersOfHandler, Working
  <2>1. MyOrders(h)' = MyOrders(h)
    BY <1>2, SameOrdersAs DEF MyOrders
  <2>2. QED
    BY <2>1 DEF IntakeInv, OrdersOfHandler, Move, Working
<1>7. OrdersHaveRecords'
  BY DEF IntakeInv, OrdersHaveRecords, SameOrders
<1>8. OneOrderPerKey'
  BY <1>1 DEF IntakeInv, OneOrderPerKey, SameOrders, Placed
<1>9. RecordTellsOrder'
  BY <1>1 DEF IntakeInv, RecordTellsOrder
<1>10. OrderOfTransaction'
  <2> SUFFICES ASSUME NEW h \in Handler, work'[h].pc = "matched" PROVE Inserted(h)'
    BY DEF OrderOfTransaction
  <2>1. work[h].pc = "matched" /\ work'[h].req = work[h].req /\ work'[h].order = work[h].order
    BY DEF Move, Working
  <2>2. Inserted(h) /\ work[h].order \in DOMAIN orders
    BY <2>1, TransactionRefers DEF IntakeInv, OrderOfTransaction
  <2>3. orders'[work[h].order] = orders[work[h].order]
    BY <2>2 DEF SameOrders, Inserted
  <2>4. QED
    BY <2>1, <2>2, <2>3, TransactionStays
<1>11. QED
  BY <1>4, <1>5, <1>6, <1>7, <1>8, <1>9, <1>10 DEF IntakeInv

\* A step of h alone.
LEMMA GotoMoves ==
    ASSUME WorkType, NEW h \in Handler, NEW step, Goto(h, step)
    PROVE  /\ work'[h].pc = step /\ work'[h].req = work[h].req /\ work'[h].order = work[h].order
           /\ \A g \in Handler \ {h} : work'[g] = work[g]
BY DEF WorkType, Goto

LEMMA StopMoves ==
    ASSUME WorkType, NEW h \in Handler, work' = [work EXCEPT ![h] = Idle]
    PROVE  ~Working(h)' /\ \A g \in Handler \ {h} : work'[g] = work[g]
BY DEF WorkType, Idle, Working

\* A handler that is left alone has moved.
LEMMA StayMoves ==
    ASSUME NEW g, work'[g] = work[g]
    PROVE  Move(g) /\ (Working(g)' <=> Working(g))
BY DEF Move, Working

\* The record of a new key is created by one handler, and there is no order of the key.
LEMMA CreateRecordKeepsInv ==
    ASSUME IntakeInv, TypeOK', NEW h \in Handler, CreateRecord(h),
           records[ScopeOf(work[h].req)].status = "NONE"
    PROVE  IntakeInv'
<1> DEFINE x == ScopeOf(work[h].req)
<1>1. /\ WorkType /\ RecordsType /\ Goto(h, "recorded") /\ UNCHANGED <<orders, failures>>
      /\ x \in Scope
      /\ records' = [records EXCEPT ![x] = NewRecord(work[h].req)]
  BY ScopeOfRequest DEF IntakeInv, TypeOK, WorkType, CreateRecord
<1>2. /\ work'[h].pc = "recorded" /\ work'[h].req = work[h].req
      /\ \A g \in Handler \ {h} : work'[g] = work[g]
  BY <1>1, GotoMoves
<1>3. /\ records'[x].status = "IN_PROGRESS"
      /\ \A y \in Scope \ {x} : records'[y] = records[y]
  BY <1>1 DEF RecordsType, NewRecord
<1>4. \A g \in Handler \ {h} :
        Working(g)' => Working(g) /\ ScopeOf(work'[g].req) = ScopeOf(work[g].req)
                       /\ ScopeOf(work[g].req) # x /\ ScopeOf(work[g].req) \in Scope
  BY <1>2, ScopeOfRequest DEF IntakeInv, RecordInProgress, Working, TypeOK, WorkType
<1>5. \A y : OrdersOf(y)' = OrdersOf(y)
  BY <1>1 DEF OrdersOf, Placed
<1>6. OrdersOf(x) = {}
  BY DEF IntakeInv, OrdersHaveRecords, OrdersOf, Placed
<1> HIDE DEF x
<1>7. RecordInProgress'
  BY <1>2, <1>3, <1>4 DEF IntakeInv, RecordInProgress, x
<1>8. OneHandler'
  BY <1>2, <1>4 DEF IntakeInv, OneHandler, x
<1>9. OrdersOfHandler'
  <2> SUFFICES ASSUME NEW g \in Handler, Working(g)'
               PROVE  /\ work'[g].pc \in {"recorded", "locked", "matched"} => MyOrders(g)' = {}
                      /\ work'[g].pc = "placed" => MyOrders(g)' = {work'[g].order}
                      /\ work'[g].pc \in {"compensating", "failing"} /\ "commit" \notin Failures'
                         => MyOrders(g)' = {}
    BY DEF OrdersOfHandler, Working
  <2>1. MyOrders(g)' = MyOrders(g)
    BY <1>1, <1>2 DEF MyOrders, OrdersOf, Placed
  <2>2. CASE g = h
    BY <1>2, <1>6, <2>1, <2>2 DEF MyOrders, x
  <2>3. CASE g # h
    BY <1>1, <1>2, <2>1, <2>3 DEF IntakeInv, OrdersOfHandler, Failures
  <2>4. QED
    BY <2>2, <2>3
<1>10. OrdersHaveRecords'
  BY <1>1, <1>3 DEF IntakeInv, OrdersHaveRecords
<1>11. OneOrderPerKey'
  BY <1>1 DEF IntakeInv, OneOrderPerKey, Placed
<1>12. RecordTellsOrder'
  BY <1>1, <1>3, <1>5 DEF IntakeInv, RecordTellsOrder, Failures
<1>13. OrderOfTransaction'
  <2> SUFFICES ASSUME NEW g \in Handler, work'[g].pc = "matched" PROVE Inserted(g)'
    BY DEF OrderOfTransaction
  <2>1. work'[g] = work[g] /\ Inserted(g)
    BY <1>2 DEF IntakeInv, OrderOfTransaction
  <2>2. QED
    BY <1>1, <2>1, TransactionStays
<1>14. QED
  BY <1>7, <1>8, <1>9, <1>10, <1>11, <1>12, <1>13 DEF IntakeInv

\* The transaction of h inserts an order that nobody sees.
LEMMA InsertKeepsInv ==
    ASSUME IntakeInv, TypeOK', NEW h \in Handler, InsertOrder(h)
    PROVE  IntakeInv'
<1> DEFINE x == ScopeOf(work[h].req)
           n == Len(orders) + 1
<1>1. /\ TypeOK /\ WorkType /\ work[h].req \in Request /\ x \in Scope
      /\ work[h].pc = "locked" /\ UNCHANGED <<records, failures>>
      /\ Working(h) /\ records[x].status = "IN_PROGRESS"
  BY ScopeOfRequest DEF IntakeInv, TypeOK, WorkType, InsertOrder, Working, RecordInProgress
<1>2. /\ DOMAIN orders' = DOMAIN orders \cup {n} /\ n \notin DOMAIN orders
      /\ \A i \in DOMAIN orders : orders'[i] = orders[i]
      /\ ScopeOf(orders'[n]) = x /\ orders'[n].status = "UNPLACED"
      /\ orders'[n].filled + orders'[n].remaining = work[h].req.amount
  BY <1>1, InsertType
<1>3. /\ work'[h].pc = "matched" /\ work'[h].req = work[h].req /\ work'[h].order = n
      /\ \A g \in Handler \ {h} : work'[g] = work[g]
  <2> DEFINE w == work[h]
  <2>1. work' = [work EXCEPT ![h] = [[w EXCEPT !.pc = "matched"] EXCEPT !.order = n]]
    BY <1>1 DEF InsertOrder, WorkType
  <2>2. w \in [pc : {"idle", "found", "recorded", "locked", "matched", "placed", "compensating", "failing"},
               req : Request, order : 0 .. Len(orders)]
    BY <1>1 DEF WorkType
  <2> HIDE DEF w, n
  <2>3. work'[h] = [[w EXCEPT !.pc = "matched"] EXCEPT !.order = n] /\ w.req = work[h].req
    BY <1>1, <2>1 DEF WorkType, w
  <2>4. QED
    BY <1>1, <2>1, <2>2, <2>3 DEF WorkType
<1> HIDE DEF x, n
<1>4. Placed' = Placed /\ Placed \subseteq DOMAIN orders
  BY <1>2 DEF Placed
<1>5. \A y : OrdersOf(y)' = OrdersOf(y)
  BY <1>2, <1>4 DEF OrdersOf, ScopeOf
<1>6. \A g \in Handler : Working(g)' => Working(g) /\ work'[g].req = work[g].req
  BY <1>1, <1>3 DEF Working
<1>7. RecordInProgress'
  BY <1>1, <1>6 DEF IntakeInv, RecordInProgress, ScopeOf
<1>8. OneHandler'
  BY <1>6 DEF IntakeInv, OneHandler, ScopeOf
<1>9. OrdersOfHandler'
  <2> SUFFICES ASSUME NEW g \in Handler, Working(g)'
               PROVE  /\ work'[g].pc \in {"recorded", "locked", "matched"} => MyOrders(g)' = {}
                      /\ work'[g].pc = "placed" => MyOrders(g)' = {work'[g].order}
                      /\ work'[g].pc \in {"compensating", "failing"} /\ "commit" \notin Failures'
                         => MyOrders(g)' = {}
    BY DEF OrdersOfHandler, Working
  <2>1. MyOrders(g)' = MyOrders(g)
    BY <1>5, <1>6 DEF MyOrders, OrdersOf
  <2>2. QED
    BY <1>1, <1>3, <2>1 DEF IntakeInv, OrdersOfHandler, Failures
<1>10. OrderOfTransaction'
  <2> SUFFICES ASSUME NEW g \in Handler, work'[g].pc = "matched" PROVE Inserted(g)'
    BY DEF OrderOfTransaction
  <2>1. CASE g = h
    BY <1>2, <1>3, <2>1 DEF Inserted, x, ScopeOf
  <2>2. CASE g # h
    <3>1. work'[g] = work[g] /\ Inserted(g) /\ work[g].order \in DOMAIN orders
      BY <1>1, <1>3, <2>2, TransactionRefers DEF IntakeInv, OrderOfTransaction
    <3>2. QED
      BY <1>2, <3>1, TransactionStays
  <2>3. QED
    BY <2>1, <2>2
<1>11. OrdersHaveRecords'
  BY <1>1, <1>2 DEF IntakeInv, OrdersHaveRecords
<1>12. OneOrderPerKey'
  BY <1>2, <1>4 DEF IntakeInv, OneOrderPerKey
<1>13. RecordTellsOrder'
  BY <1>1, <1>5 DEF IntakeInv, RecordTellsOrder, Failures
<1>14. QED
  BY <1>7, <1>8, <1>9, <1>10, <1>11, <1>12, <1>13 DEF IntakeInv

\* The transaction of h places the first order of its key, whether h hears of it or not.
LEMMA PlaceKeepsInv ==
    ASSUME IntakeInv, TypeOK', NEW h \in Handler, PlaceOrder(h) \/ CommitUnanswered(h)
    PROVE  IntakeInv'
<1> DEFINE x == ScopeOf(work[h].req)
           n == work[h].order
<1>1. /\ TypeOK /\ WorkType /\ work[h].req \in Request /\ x \in Scope
      /\ work[h].pc = "matched" /\ UNCHANGED records
      /\ Working(h) /\ records[x].status = "IN_PROGRESS" /\ OrdersOf(x) = {} /\ Inserted(h)
  BY ScopeOfRequest DEF IntakeInv, TypeOK, WorkType, PlaceOrder, CommitUnanswered, Working,
     RecordInProgress, OrdersOfHandler, OrderOfTransaction, MyOrders
<1>2. /\ n \in DOMAIN orders /\ DOMAIN orders' = DOMAIN orders
      /\ \A i \in DOMAIN orders : i # n => orders'[i] = orders[i]
      /\ ScopeOf(orders[n]) = x /\ ScopeOf(orders'[n]) = x
      /\ orders[n].status = "UNPLACED" /\ orders'[n].status # "UNPLACED"
  BY <1>1, PlaceType DEF Inserted
<1>3. Placed' = Placed \cup {n} /\ Placed \subseteq DOMAIN orders /\ n \notin Placed
  BY <1>2 DEF Placed
<1>4. (\A y : y = x => OrdersOf(y)' = {n}) /\ \A y : y # x => OrdersOf(y)' = OrdersOf(y)
  BY <1>1, <1>2, <1>3 DEF OrdersOf, ScopeOf
<1>5. /\ work'[h].req = work[h].req /\ work'[h].order = n /\ \A g \in Handler \ {h} : work'[g] = work[g]
      /\ work'[h].pc \in {"placed", "compensating"}
  BY <1>1, GotoMoves DEF PlaceOrder, CommitUnanswered
<1>6. /\ Failures \subseteq Failures'
      /\ work'[h].pc = "compensating" => "commit" \in Failures'
  <2>1. CASE PlaceOrder(h)
    BY <1>1, <2>1, GotoMoves DEF PlaceOrder, Failures
  <2>2. CASE CommitUnanswered(h)
    BY <1>1, <2>2, FaultAdds DEF CommitUnanswered, TypeOK
  <2>3. QED
    BY <2>1, <2>2
<1>7. \A g \in Handler \ {h} :
        Working(g)' => Working(g) /\ ScopeOf(work'[g].req) = ScopeOf(work[g].req)
                       /\ ScopeOf(work[g].req) # x
  BY <1>1, <1>5 DEF IntakeInv, OneHandler, Working
<1> HIDE DEF x, n
<1>8. RecordInProgress'
  BY <1>1, <1>5, <1>7 DEF IntakeInv, RecordInProgress, x
<1>9. OneHandler'
  BY <1>1, <1>5, <1>7 DEF IntakeInv, OneHandler, x
<1>10. OrdersOfHandler'
  <2> SUFFICES ASSUME NEW g \in Handler, Working(g)'
               PROVE  /\ work'[g].pc \in {"recorded", "locked", "matched"} => MyOrders(g)' = {}
                      /\ work'[g].pc = "placed" => MyOrders(g)' = {work'[g].order}
                      /\ work'[g].pc \in {"compensating", "failing"} /\ "commit" \notin Failures'
                         => MyOrders(g)' = {}
    BY DEF OrdersOfHandler, Working
  <2>1. CASE g = h
    BY <1>4, <1>5, <1>6, <2>1 DEF MyOrders, OrdersOf, x
  <2>2. CASE g # h
    <3>1. MyOrders(g)' = MyOrders(g)
      BY <1>4, <1>5, <1>7, <2>2 DEF MyOrders, OrdersOf
    <3>2. QED
      BY <1>5, <1>6, <2>2, <3>1 DEF IntakeInv, OrdersOfHandler
  <2>3. QED
    BY <2>1, <2>2
<1>11. OrderOfTransaction'
  <2> SUFFICES ASSUME NEW g \in Handler, work'[g].pc = "matched" PROVE Inserted(g)'
    BY DEF OrderOfTransaction
  <2>1. g # h /\ work'[g] = work[g] /\ Inserted(g) /\ work[g].order \in DOMAIN orders
    BY <1>1, <1>5, TransactionRefers DEF IntakeInv, OrderOfTransaction
  <2>2. work[g].order # n
    BY <1>2, <1>7, <2>1 DEF Inserted, Working
  <2>3. QED
    BY <1>2, <2>1, <2>2, TransactionStays
<1>12. OrdersHaveRecords'
  BY <1>1, <1>2 DEF IntakeInv, OrdersHaveRecords
<1>13. OneOrderPerKey'
  <2> SUFFICES ASSUME NEW i \in Placed', NEW j \in Placed', ScopeOf(orders'[i]) = ScopeOf(orders'[j])
               PROVE  i = j
    BY DEF OneOrderPerKey, ScopeOf
  <2>1. CASE i = n \/ j = n
    BY <1>2, <1>3, <1>4, <2>1 DEF OrdersOf, ScopeOf
  <2>2. CASE i # n /\ j # n
    BY <1>2, <1>3, <2>2 DEF IntakeInv, OneOrderPerKey
  <2>3. QED
    BY <2>1, <2>2
<1>14. RecordTellsOrder'
  <2> SUFFICES ASSUME NEW y \in Scope
               PROVE  /\ records'[y].status = "COMPLETED" => OrdersOf(y)' = {records'[y].order}
                      /\ records'[y].status = "FAILED" /\ "commit" \notin Failures'
                         => OrdersOf(y)' = {}
    BY DEF RecordTellsOrder
  <2>1. CASE y = x
    BY <1>1, <2>1
  <2>2. CASE y # x
    BY <1>1, <1>4, <1>6, <2>2 DEF IntakeInv, RecordTellsOrder
  <2>3. QED
    BY <2>1, <2>2
<1>15. QED
  BY <1>8, <1>9, <1>10, <1>11, <1>12, <1>13, <1>14 DEF IntakeInv

\* h ends its record with what it knows of the orders of the key.
LEMMA FinishKeepsInv ==
    ASSUME IntakeInv, TypeOK', NEW h \in Handler, FailRecord(h) \/ CompleteRecord(h)
    PROVE  IntakeInv'
<1> DEFINE x == ScopeOf(work[h].req)
<1>1. /\ WorkType /\ RecordsType /\ x \in Scope /\ Working(h)
      /\ UNCHANGED <<orders, failures>> /\ work' = [work EXCEPT ![h] = Idle]
  BY ScopeOfRequest DEF IntakeInv, TypeOK, WorkType, FailRecord, CompleteRecord, Working
<1>2. ~Working(h)' /\ \A g \in Handler \ {h} : work'[g] = work[g]
  BY <1>1, StopMoves
<1>3. \A y \in Scope \ {x} : records'[y] = records[y]
  BY <1>1 DEF RecordsType, FailRecord, CompleteRecord
<1>4. \/ records'[x].status = "FAILED" /\ work[h].pc = "failing"
      \/ records'[x].status = "COMPLETED" /\ records'[x].order = work[h].order /\ work[h].pc = "placed"
  <2>1. CASE FailRecord(h)
    BY <1>1, <2>1 DEF RecordsType, FailRecord
  <2>2. CASE CompleteRecord(h)
    <3> DEFINE rec == records[x]
    <3>1. records' = [records EXCEPT ![x] =
                        [[rec EXCEPT !.status = "COMPLETED"] EXCEPT !.order = work[h].order]]
      BY <1>1, <2>2 DEF CompleteRecord, RecordsType
    <3>2. rec \in [status : {"NONE", "IN_PROGRESS", "COMPLETED", "FAILED"},
                   amount : Nat, order : 0 .. Len(orders), expired : BOOLEAN]
      BY <1>1 DEF RecordsType
    <3> HIDE DEF rec
    <3>3. records'[x] = [[rec EXCEPT !.status = "COMPLETED"] EXCEPT !.order = work[h].order]
      BY <1>1, <3>1 DEF RecordsType
    <3>4. [[rec EXCEPT !.status = "COMPLETED"] EXCEPT !.order = work[h].order].status = "COMPLETED"
      BY <3>2
    <3>5. [[rec EXCEPT !.status = "COMPLETED"] EXCEPT !.order = work[h].order].order = work[h].order
      BY <3>2
    <3>6. work[h].pc = "placed"
      BY <2>2 DEF CompleteRecord
    <3>7. QED
      BY <3>3, <3>4, <3>5, <3>6
  <2>3. QED
    BY <2>1, <2>2
<1>5. \A g \in Handler :
        Working(g)' => g # h /\ Working(g) /\ work'[g] = work[g]
                       /\ ScopeOf(work[g].req) # x /\ ScopeOf(work[g].req) \in Scope
  BY <1>1, <1>2, ScopeOfRequest DEF IntakeInv, OneHandler, Working, WorkType
<1>6. \A y : OrdersOf(y)' = OrdersOf(y)
  BY <1>1 DEF OrdersOf, Placed
<1>7. Failures' = Failures
  BY <1>1 DEF Failures
<1> HIDE DEF x
<1>8. RecordInProgress'
  BY <1>3, <1>5 DEF IntakeInv, RecordInProgress
<1>9. OneHandler'
  BY <1>5 DEF IntakeInv, OneHandler
<1>10. OrdersOfHandler'
  <2> SUFFICES ASSUME NEW g \in Handler, Working(g)'
               PROVE  /\ work'[g].pc \in {"recorded", "locked", "matched"} => MyOrders(g)' = {}
                      /\ work'[g].pc = "placed" => MyOrders(g)' = {work'[g].order}
                      /\ work'[g].pc \in {"compensating", "failing"} /\ "commit" \notin Failures'
                         => MyOrders(g)' = {}
    BY DEF OrdersOfHandler, Working
  <2>1. MyOrders(g)' = MyOrders(g)
    BY <1>1, <1>5 DEF MyOrders, OrdersOf, Placed
  <2>2. QED
    BY <1>5, <1>7, <2>1 DEF IntakeInv, OrdersOfHandler
<1>11. OrdersHaveRecords'
  BY <1>1, <1>3, <1>4 DEF IntakeInv, OrdersHaveRecords
<1>12. OneOrderPerKey'
  BY <1>1 DEF IntakeInv, OneOrderPerKey, Placed
<1>13. RecordTellsOrder'
  <2> SUFFICES ASSUME NEW y \in Scope
               PROVE  /\ records'[y].status = "COMPLETED" => OrdersOf(y)' = {records'[y].order}
                      /\ records'[y].status = "FAILED" /\ "commit" \notin Failures'
                         => OrdersOf(y)' = {}
    BY DEF RecordTellsOrder
  <2>1. CASE y = x
    BY <1>4, <1>6, <1>7, <2>1 DEF IntakeInv, OrdersOfHandler, MyOrders, x
  <2>2. CASE y # x
    BY <1>3, <1>6, <1>7, <2>2 DEF IntakeInv, RecordTellsOrder
  <2>3. QED
    BY <2>1, <2>2
<1>14. OrderOfTransaction'
  <2> SUFFICES ASSUME NEW g \in Handler, work'[g].pc = "matched" PROVE Inserted(g)'
    BY DEF OrderOfTransaction
  <2>1. work'[g] = work[g] /\ Inserted(g)
    BY <1>5 DEF IntakeInv, OrderOfTransaction, Working
  <2>2. QED
    BY <1>1, <2>1, TransactionStays
<1>15. QED
  BY <1>8, <1>9, <1>10, <1>11, <1>12, <1>13, <1>14 DEF IntakeInv

\* Steps of one handler that leave the orders and the records alone.
LEMMA HandlerKeepsInv ==
    ASSUME IntakeInv, TypeOK', NEW h \in Handler, UNCHANGED <<records, orders>>,
           Failures \subseteq Failures', Move(h),
           \A g \in Handler \ {h} : work'[g] = work[g]
    PROVE  IntakeInv'
<1>1. \A g \in Handler : Move(g)
  BY StayMoves
<1>2. SameOrders
  BY DEF SameOrders
<1>3. QED
  BY <1>1, <1>2, MovesKeepInv

\* Steps that leave the handlers and the records alone, and the rows what they are for.
LEMMA OthersKeepInv ==
    ASSUME IntakeInv, TypeOK', UNCHANGED <<records, work>>, SameOrders, Failures \subseteq Failures'
    PROVE  IntakeInv'
<1>1. \A g \in Handler : Move(g)
  BY StayMoves
<1>2. QED
  BY <1>1, MovesKeepInv

LEMMA InitInv == Init => IntakeInv
<1> SUFFICES ASSUME Init PROVE IntakeInv
  OBVIOUS
<1>1. TypeOK
  BY InitType
<1>2. \A h \in Handler : ~Working(h) /\ work[h].pc = "idle"
  BY DEF Init, Working, Idle
<1>3. DOMAIN orders = {}
  BY DEF Init
<1>4. \A x \in Scope : records[x].status = "NONE"
  BY DEF Init, NoRecord
<1>5. QED
  BY <1>1, <1>2, <1>3, <1>4 DEF IntakeInv, RecordInProgress, OneHandler, OrdersOfHandler,
     OrderOfTransaction, OrdersHaveRecords, OneOrderPerKey, RecordTellsOrder, Placed

LEMMA NextKeepsInv == IntakeInv /\ [Next]_vars => IntakeInv'
<1> SUFFICES ASSUME IntakeInv, [Next]_vars PROVE IntakeInv'
  OBVIOUS
<1>0. /\ TypeOK /\ TypeOK' /\ WorkType /\ OrdersType
      /\ Failures \subseteq Failures'
  BY NextType, NextFailures DEF IntakeInv, TypeOK
<1>1. ASSUME NEW h \in Handler, NEW r \in Request, Begin(h, r) PROVE IntakeInv'
  <2>1. Move(h) /\ \A g \in Handler \ {h} : work'[g] = work[g]
    BY <1>0, <1>1 DEF Begin, WorkType, Move, Working
  <2>2. QED
    BY <1>0, <1>1, <2>1, HandlerKeepsInv DEF Begin
<1>2. ASSUME NEW h \in Handler, CreateRecord(h) PROVE IntakeInv'
  <2>1. CASE records[ScopeOf(work[h].req)].status = "NONE"
    BY <1>0, <1>2, <2>1, CreateRecordKeepsInv
  <2>2. CASE records[ScopeOf(work[h].req)].status # "NONE"
    <3>1. Move(h) /\ \A g \in Handler \ {h} : work'[g] = work[g]
      BY <1>0, <1>2, <2>2, StopMoves DEF CreateRecord, Move
    <3>2. QED
      BY <1>0, <1>2, <2>2, <3>1, HandlerKeepsInv DEF CreateRecord
  <2>3. QED
    BY <2>1, <2>2
<1>3. ASSUME NEW h \in Handler,
             Lock(h) \/ LockFails(h) \/ PlaceOrderFails(h) \/ Compensate(h) \/ CompensateFails(h)
      PROVE  IntakeInv'
  <2>1. PICK step \in {"locked", "compensating", "failing"} :
          /\ Goto(h, step)
          /\ \/ work[h].pc \in {"recorded", "locked", "matched"}
             \/ work[h].pc = "compensating" /\ step = "failing"
    BY <1>3 DEF Lock, LockFails, PlaceOrderFails, Compensate, CompensateFails
  <2>2. Move(h) /\ \A g \in Handler \ {h} : work'[g] = work[g]
    BY <1>0, <2>1, GotoMoves DEF Move, Working
  <2>3. QED
    BY <1>0, <1>3, <2>2, HandlerKeepsInv
    DEF Lock, LockFails, PlaceOrderFails, Compensate, CompensateFails
<1>4. ASSUME NEW h \in Handler, PlaceOrder(h) \/ CommitUnanswered(h) PROVE IntakeInv'
  BY <1>0, <1>4, PlaceKeepsInv
<1>13. ASSUME NEW h \in Handler, InsertOrder(h) PROVE IntakeInv'
  BY <1>0, <1>13, InsertKeepsInv
<1>5. ASSUME NEW h \in Handler, FailRecord(h) \/ CompleteRecord(h) PROVE IntakeInv'
  BY <1>0, <1>5, FinishKeepsInv
<1>6. ASSUME NEW h \in Handler, Abandon(h) PROVE IntakeInv'
  <2>1. Move(h) /\ \A g \in Handler \ {h} : work'[g] = work[g]
    BY <1>0, <1>6, StopMoves DEF Abandon, Move
  <2>2. QED
    BY <1>0, <1>6, <2>1, HandlerKeepsInv DEF Abandon
<1>7. ASSUME NEW x \in Scope, Expire(x) PROVE IntakeInv'
  <2>1. \A y \in Scope : records'[y].status = records[y].status /\ records'[y].order = records[y].order
    BY <1>0, <1>7 DEF Expire, TypeOK, RecordsType
  <2>2. SameOrders /\ \A g \in Handler : Move(g)
    BY <1>7, StayMoves DEF Expire, SameOrders
  <2>3. QED
    BY <1>0, <2>1, <2>2, MovesKeepInv
<1>8. ASSUME NEW c \in Canceller,
             \/ \E i \in Id : BeginCancel(c, i)
             \/ UnlockCancelled(c) \/ CancelFails(c)
      PROVE  IntakeInv'
  <2>1. SameOrders
    BY <1>8 DEF BeginCancel, UnlockCancelled, CancelFails, SameOrders
  <2>2. QED
    BY <1>0, <1>8, <2>1, OthersKeepInv DEF BeginCancel, UnlockCancelled, CancelFails
<1>9. ASSUME NEW c \in Canceller, CancelRow(c) PROVE IntakeInv'
  <2> DEFINE i == cancel[c].order
  <2>1. SameOrders
    <3>1. CASE ~Live(orders[i])
      BY <1>9, <3>1 DEF CancelRow, SameOrders
    <3>2. CASE Live(orders[i])
      <4>1. orders' = [orders EXCEPT ![i] = [orders[i] EXCEPT !.status = "CANCELLED"]]
        BY <1>9, <3>2 DEF CancelRow
      <4>2. \A o \in Row : LET p == [o EXCEPT !.status = "CANCELLED"]
                          IN  ScopeOf(p) = ScopeOf(o) /\ p.status = "CANCELLED"
        BY DEF Row, ScopeOf
      <4>3. orders[i].status # "UNPLACED"
        BY <3>2 DEF Live
      <4> HIDE DEF i
      <4>4. QED
        BY <1>0, <4>1, <4>2, <4>3 DEF OrdersType, SameOrders
    <3>3. QED
      BY <3>1, <3>2
  <2>2. QED
    BY <1>0, <1>9, <2>1, OthersKeepInv DEF CancelRow
<1>10. ASSUME NEW i \in Id, Trade(i) \/ TradeStale(i) PROVE IntakeInv'
  <2>1. SameOrders
    BY <1>0, <1>10, TradeType DEF SameOrders, Live
  <2>2. QED
    BY <1>0, <1>10, <2>1, OthersKeepInv DEF Trade, TradeStale
<1>11. ASSUME NEW i \in Id, Settle(i) PROVE IntakeInv'
  BY <1>0, <1>11, OthersKeepInv DEF Settle, SameOrders
<1>12. CASE UNCHANGED vars
  BY <1>0, <1>12, OthersKeepInv DEF vars, SameOrders
<1>14. QED
  BY <1>1, <1>2, <1>3, <1>4, <1>5, <1>6, <1>7, <1>8, <1>9, <1>10, <1>11, <1>12, <1>13 DEF Next

-----------------------------------------------------------------------------
(***************************************************************************)
(* The funds.                                                              *)
(***************************************************************************)

LockKey(r) == <<"lock", r.key>>
UnlockKey(r) == <<"unlock", r.key>>
CancelKey(c) == <<"cancel", c>>
PostingKey == {LockKey(r) : r \in Request} \cup {UnlockKey(r) : r \in Request}
              \cup {CancelKey(c) : c \in Canceller}
Posting == [op : {"LOCK", "UNLOCK"}, key : PostingKey, amount : Nat,
            dAvail : Int, dLocked : Int, avail : Int, locked : Int]
LedgerType == ledger \in [User -> Seq(Posting)]

\* The key of a posting to the account of u, and of anybody.
On(u, k) == \E i \in DOMAIN ledger[u] : ledger[u][i].key = k
OnLedger(k) == \E u \in User : On(u, k)

\* The calls a handler is still to make were not made for its user under their keys.
HandlerKeys ==
    /\ \A r \in Request : records[ScopeOf(r)].status = "NONE" =>
          ~On(r.user, LockKey(r)) /\ ~On(r.user, UnlockKey(r))
    /\ \A h \in Handler : work[h].pc = "recorded" => ~On(work[h].req.user, LockKey(work[h].req))
    /\ \A h \in Handler : work[h].pc \in {"recorded", "locked", "matched", "compensating"} =>
          ~On(work[h].req.user, UnlockKey(work[h].req))

\* Nor was that of a cancellation, by anybody. What is owed, an order owes.
CancelKeys ==
    /\ \A c \in Canceller : cancel[c].pc # "done" => ~OnLedger(CancelKey(c))
    /\ \A i \in Id \ DOMAIN orders : owed[i] = 0

KeyInv == LedgerType /\ HandlerKeys /\ CancelKeys

Held(u) == SumFunctionOnSet([h \in Handler |-> Holding(u, h)], Handler)
Given(u) == SumFunctionOnSet([c \in Canceller |-> Giving(u, c)], Canceller)
Owing(u) == SumFunctionOnSet([i \in Id |-> Claimed(u, i)], Id)

\* What is locked for u beyond its orders and the requests that are worked on.
Spare(u) == accounts[u].locked - (Owing(u) + Held(u) + Given(u))

\* It is never missing of a user whose locks are its own, unless a COMMIT went unanswered or
\* a trade was stale, and nothing is left over if its compensations are its own as well and
\* nothing fails but transactions that are rolled back.
Lossless == Failures \cap {"commit", "stale"} = {}
Exact(u) == LocksOwn(u) /\ UnlocksOwn(u) /\ Failures \subseteq {"rollback"}
FundsInv ==
    Lossless => \A u \in User : LocksOwn(u) => Spare(u) >= 0 /\ (Exact(u) => Spare(u) = 0)

LEMMA KeysDiffer ==
    ASSUME NEW r \in Request, NEW s \in Request, NEW c, NEW d
    PROVE  /\ LockKey(r) # UnlockKey(s)
           /\ LockKey(r) # CancelKey(c) /\ UnlockKey(r) # CancelKey(c)
           /\ r.user = s.user /\ LockKey(r) = LockKey(s) => ScopeOf(r) = ScopeOf(s)
           /\ r.user = s.user /\ UnlockKey(r) = UnlockKey(s) => ScopeOf(r) = ScopeOf(s)
           /\ CancelKey(c) = CancelKey(d) => c = d
<1>1. LockKey(r) # UnlockKey(s)
  BY DEF LockKey, UnlockKey
<1>2. LockKey(r) # CancelKey(c) /\ UnlockKey(r) # CancelKey(c)
  BY DEF LockKey, UnlockKey, CancelKey
<1>3. r.user = s.user /\ r.key = s.key => ScopeOf(r) = ScopeOf(s)
  BY DEF ScopeOf
<1>4. (LockKey(r) = LockKey(s) \/ UnlockKey(r) = UnlockKey(s)) => r.key = s.key
  BY DEF LockKey, UnlockKey
<1>5. CancelKey(c) = CancelKey(d) => c = d
  BY DEF CancelKey
<1>6. QED
  BY <1>1, <1>2, <1>3, <1>4, <1>5

LEMMA PostingKeys ==
    /\ \A r \in Request : LockKey(r) \in PostingKey /\ UnlockKey(r) \in PostingKey
    /\ \A c \in Canceller : CancelKey(c) \in PostingKey
BY DEF PostingKey

\* Whose keys are its own.
LEMMA OwnKeys ==
    ASSUME NEW r \in Request, NEW v \in User, v # r.user
    PROVE  /\ LocksOwn(r.user) => ~On(v, LockKey(r))
           /\ UnlocksOwn(r.user) => ~On(v, UnlockKey(r))
BY DEF LocksOwn, UnlocksOwn, On, LockKey, UnlockKey, LockCall, Call

\* A ledger that grows takes nobody's key back.
LedgerGrows == \A v \in User : \A x : On(v, x) => On(v, x)'

LEMMA OwnStays ==
    ASSUME LedgerGrows, Failures \subseteq Failures', NEW u
    PROVE  (LocksOwn(u)' => LocksOwn(u)) /\ (Exact(u)' => Exact(u))
<1>1. LocksOwn(u)' => LocksOwn(u)
  BY DEF LedgerGrows, On, LocksOwn, LockCall, Call
<1>2. UnlocksOwn(u)' => UnlocksOwn(u)
  BY DEF LedgerGrows, On, UnlocksOwn
<1>3. QED
  BY <1>1, <1>2 DEF Exact

\* What a posting does to the locked funds and to the keys of the ledger.
Adds(op, q) == IF op = "LOCK" THEN q ELSE -q

LEMMA PostMoves ==
    ASSUME AccountsType, LedgerType,
           NEW op \in {"LOCK", "UNLOCK"}, NEW u \in User, NEW q \in Nat, NEW k \in PostingKey,
           Accounts!Post(Call(op, u, q, k))
    PROVE  /\ LedgerType' /\ ~OnLedger(k)
           /\ \A v \in User : \A x : On(v, x)' <=> (On(v, x) \/ (v = u /\ x = k))
           /\ accounts'[u].locked = accounts[u].locked + Adds(op, q)
           /\ \A v \in User \ {u} : accounts'[v] = accounts[v]
<1> DEFINE c == Call(op, u, q, k)
           entry == Accounts!EntryFor(c, accounts[u])
           new == [exists |-> TRUE, avail |-> entry.avail, locked |-> entry.locked]
<1>1. c.acct = u /\ c.op = op /\ c.amount = q /\ c.key = k
  BY DEF Call
<1>2. accounts[u].avail \in Nat /\ accounts[u].locked \in Int
  BY DEF AccountsType
<1>3. entry \in Posting /\ entry.key = k /\ entry.locked = accounts[u].locked + Adds(op, q)
  BY <1>1, <1>2 DEF Accounts!EntryFor, Posting, Adds
<1>4. /\ ~Accounts!IsPosted(k)
      /\ accounts' = [accounts EXCEPT ![u] = new]
      /\ ledger' = [ledger EXCEPT ![u] = Append(@, entry)]
  BY <1>1 DEF Accounts!Post
<1>5. new.locked = entry.locked
  OBVIOUS
<1> HIDE DEF c, entry, new
<1>6. accounts'[u] = new /\ \A v \in User \ {u} : accounts'[v] = accounts[v]
  BY <1>4 DEF AccountsType
<1>7. ledger[u] \in Seq(Posting)
  BY DEF LedgerType
<1>8. LedgerType'
  BY <1>3, <1>4, <1>7 DEF LedgerType
<1>9. /\ ledger'[u] = Append(ledger[u], entry)
      /\ \A v \in User \ {u} : ledger'[v] = ledger[v]
  BY <1>4 DEF LedgerType
<1>10. \A x : (\E i \in DOMAIN ledger'[u] : ledger'[u][i].key = x)
               <=> (x = k \/ \E i \in DOMAIN ledger[u] : ledger[u][i].key = x)
  <2> DEFINE n == Len(ledger[u]) + 1
  <2>1. /\ DOMAIN ledger'[u] = DOMAIN ledger[u] \cup {n}
        /\ ledger'[u][n] = entry /\ \A i \in DOMAIN ledger[u] : ledger'[u][i] = ledger[u][i]
    BY <1>3, <1>7, <1>9
  <2> HIDE DEF n
  <2>2. QED
    BY <1>3, <2>1
<1>11. ASSUME NEW v \in User, NEW x PROVE On(v, x)' <=> (On(v, x) \/ (v = u /\ x = k))
  BY <1>9, <1>10 DEF On
<1>12. ~OnLedger(k)
  BY <1>4 DEF OnLedger, On, Accounts!IsPosted
<1>13. QED
  BY <1>3, <1>5, <1>6, <1>8, <1>11, <1>12

LEMMA PostedIs == \A k : Accounts!IsPosted(k) <=> OnLedger(k)
BY DEF Accounts!IsPosted, OnLedger, On

\* What is taken for a repetition was posted under the same key, by somebody.
LEMMA RepeatsPosted ==
    ASSUME NEW op, NEW u, NEW q, NEW k, Repeats(Call(op, u, q, k))
    PROVE  \E v \in User : On(v, k)
BY DEF Repeats, Call, On

\* A posting takes no key from the ledger.
LEMMA PostGrows ==
    ASSUME NEW u, NEW k, \A v \in User : \A x : On(v, x)' <=> (On(v, x) \/ (v = u /\ x = k))
    PROVE  LedgerGrows
BY DEF LedgerGrows

-----------------------------------------------------------------------------
(***************************************************************************)
(* The keys.                                                               *)
(***************************************************************************)

\* No key of the kind is new.
NoLockKeys == \A r \in Request : /\ On(r.user, LockKey(r))' => On(r.user, LockKey(r))
                                 /\ On(r.user, UnlockKey(r))' => On(r.user, UnlockKey(r))
NoCancelKeys == \A c \in Canceller : OnLedger(CancelKey(c))' => OnLedger(CancelKey(c))

LEMMA NoPosting ==
    UNCHANGED ledger => (LedgerType => LedgerType') /\ NoLockKeys /\ NoCancelKeys /\ LedgerGrows
BY DEF LedgerType, NoLockKeys, NoCancelKeys, LedgerGrows, OnLedger, On

NoneWasNone == \A r \in Request : records'[ScopeOf(r)].status = "NONE" => records[ScopeOf(r)].status = "NONE"

\* Steps that post no key of a handler and at most give up.
LEMMA MovesKeepKeys ==
    ASSUME HandlerKeys, NoLockKeys, NoneWasNone, WorkType, \A h \in Handler : Move(h)
    PROVE  HandlerKeys'
<1>1. \A r \in Request : records'[ScopeOf(r)].status = "NONE" =>
          ~On(r.user, LockKey(r))' /\ ~On(r.user, UnlockKey(r))'
  BY DEF HandlerKeys, NoLockKeys, NoneWasNone
<1>2. ASSUME NEW h \in Handler, work'[h].pc = "recorded"
      PROVE  ~On(work[h].req.user, LockKey(work[h].req))' /\ work'[h].req = work[h].req
  <2>1. work[h].pc = "recorded" /\ work'[h].req = work[h].req /\ work[h].req \in Request
    BY <1>2 DEF Move, Working, WorkType
  <2>2. ~On(work[h].req.user, LockKey(work[h].req))
    BY <2>1 DEF HandlerKeys
  <2>3. PICK r \in Request : r = work[h].req
    BY <2>1
  <2>4. ~On(r.user, LockKey(r))'
    BY <2>2, <2>3 DEF NoLockKeys
  <2>5. QED
    BY <2>1, <2>3, <2>4 DEF On, LockKey
<1>3. ASSUME NEW h \in Handler, work'[h].pc \in {"recorded", "locked", "matched", "compensating"}
      PROVE  ~On(work[h].req.user, UnlockKey(work[h].req))' /\ work'[h].req = work[h].req
  <2>1. /\ work[h].pc \in {"recorded", "locked", "matched", "compensating"}
        /\ work'[h].req = work[h].req /\ work[h].req \in Request
    BY <1>3 DEF Move, Working, WorkType
  <2>2. ~On(work[h].req.user, UnlockKey(work[h].req))
    BY <2>1 DEF HandlerKeys
  <2>3. PICK r \in Request : r = work[h].req
    BY <2>1
  <2>4. ~On(r.user, UnlockKey(r))'
    BY <2>2, <2>3 DEF NoLockKeys
  <2>5. QED
    BY <2>1, <2>3, <2>4 DEF On, UnlockKey
<1>4. QED
  BY <1>1, <1>2, <1>3 DEF HandlerKeys, On, LockKey, UnlockKey

\* h posts the lock or the compensation of its request, and goes on.
LEMMA PostKeepsKeys ==
    ASSUME IntakeInv, HandlerKeys, UNCHANGED records, NEW h \in Handler, Goto(h, work'[h].pc),
           NEW k, \A v \in User : \A x : On(v, x)' <=> (On(v, x) \/ (v = work[h].req.user /\ x = k)),
           \/ work[h].pc = "recorded" /\ work'[h].pc \in {"locked", "failing"} /\ k = LockKey(work[h].req)
           \/ work[h].pc = "compensating" /\ work'[h].pc = "failing" /\ k = UnlockKey(work[h].req)
    PROVE  HandlerKeys'
<1>1. PICK q \in Request : q = work[h].req
  BY DEF IntakeInv, TypeOK, WorkType
<1>2. /\ WorkType /\ Working(h) /\ records[ScopeOf(q)].status = "IN_PROGRESS"
      /\ \A g \in Handler : work[g].req \in Request /\ work'[g].req = work[g].req
      /\ \A g \in Handler \ {h} : work'[g] = work[g]
  BY <1>1, GotoMoves DEF IntakeInv, TypeOK, WorkType, Working, RecordInProgress
<1>3. \A g \in Handler : Working(g) /\ g # h => ScopeOf(work[g].req) # ScopeOf(q)
  BY <1>1, <1>2 DEF IntakeInv, OneHandler
<1>4. ASSUME NEW r \in Request, ScopeOf(r) # ScopeOf(q)
      PROVE  /\ On(r.user, LockKey(r))' => On(r.user, LockKey(r))
             /\ On(r.user, UnlockKey(r))' => On(r.user, UnlockKey(r))
  <2>1. r.user = q.user => LockKey(r) # k /\ UnlockKey(r) # k
    BY <1>1, <1>4, KeysDiffer
  <2>2. r.user \in User
    BY ScopeOfRequest
  <2>3. /\ On(r.user, LockKey(r))' => (On(r.user, LockKey(r)) \/ (r.user = q.user /\ LockKey(r) = k))
        /\ On(r.user, UnlockKey(r))' => (On(r.user, UnlockKey(r)) \/ (r.user = q.user /\ UnlockKey(r) = k))
    BY <1>1, <2>2
  <2>4. QED
    BY <2>1, <2>3
<1>5. work[h].pc = "recorded" => (On(q.user, UnlockKey(q))' => On(q.user, UnlockKey(q)))
  <2>1. work[h].pc = "recorded" => UnlockKey(q) # k
    BY <1>1, KeysDiffer
  <2>2. q.user \in User
    BY ScopeOfRequest
  <2>3. On(q.user, UnlockKey(q))' => On(q.user, UnlockKey(q)) \/ UnlockKey(q) = k
    BY <2>2
  <2>4. QED
    BY <2>1, <2>3
<1>6. \A r \in Request : records'[ScopeOf(r)].status = "NONE" =>
          ~On(r.user, LockKey(r))' /\ ~On(r.user, UnlockKey(r))'
  BY <1>2, <1>4 DEF HandlerKeys
<1>7. ASSUME NEW g \in Handler, work'[g].pc = "recorded" PROVE ~On(work[g].req.user, LockKey(work[g].req))'
  <2>1. g # h /\ work[g].pc = "recorded" /\ Working(g)
    BY <1>2, <1>7 DEF Working
  <2>2. PICK r \in Request : r = work[g].req
    BY <1>2
  <2>3. ScopeOf(r) # ScopeOf(q) /\ ~On(r.user, LockKey(r))
    BY <1>3, <2>1, <2>2 DEF HandlerKeys
  <2>4. ~On(r.user, LockKey(r))'
    BY <1>4, <2>3
  <2>5. QED
    BY <1>2, <2>1, <2>2, <2>4 DEF On, LockKey
<1>8. ASSUME NEW g \in Handler, work'[g].pc \in {"recorded", "locked", "matched", "compensating"}
      PROVE  ~On(work[g].req.user, UnlockKey(work[g].req))'
  <2>1. CASE g # h
    <3>1. work[g].pc \in {"recorded", "locked", "matched", "compensating"} /\ Working(g) /\ work'[g] = work[g]
      BY <1>2, <1>8, <2>1 DEF Working
    <3>2. PICK r \in Request : r = work[g].req
      BY <1>2
    <3>3. ScopeOf(r) # ScopeOf(q) /\ ~On(r.user, UnlockKey(r))
      BY <1>3, <2>1, <3>1, <3>2 DEF HandlerKeys
    <3>4. ~On(r.user, UnlockKey(r))'
      BY <1>4, <3>3
    <3>5. QED
      BY <3>1, <3>2, <3>4 DEF On, UnlockKey
  <2>2. CASE g = h
    <3>1. work[h].pc = "recorded" /\ ~On(q.user, UnlockKey(q))
      BY <1>1, <1>8, <2>2 DEF HandlerKeys
    <3>2. ~On(q.user, UnlockKey(q))' /\ work'[h].req = work[h].req
      BY <1>2, <1>5, <3>1
    <3>3. QED
      BY <1>1, <2>2, <3>2 DEF On, UnlockKey
  <2>3. QED
    BY <2>1, <2>2
<1>9. QED
  BY <1>2, <1>6, <1>7, <1>8 DEF HandlerKeys, On, LockKey, UnlockKey

\* A new record is of a key that nothing was posted under for its user.
LEMMA CreateKeepsKeys ==
    ASSUME IntakeInv, HandlerKeys, NEW h \in Handler, CreateRecord(h),
           records[ScopeOf(work[h].req)].status = "NONE"
    PROVE  HandlerKeys'
<1> DEFINE x == ScopeOf(work[h].req)
<1>1. /\ WorkType /\ RecordsType /\ Goto(h, "recorded") /\ UNCHANGED ledger
      /\ x \in Scope /\ work[h].req \in Request
      /\ records' = [records EXCEPT ![x] = NewRecord(work[h].req)]
  BY ScopeOfRequest DEF IntakeInv, TypeOK, WorkType, CreateRecord
<1>2. /\ work'[h].req = work[h].req
      /\ \A g \in Handler \ {h} : work'[g] = work[g]
  BY <1>1, GotoMoves
<1>3. /\ records'[x].status = "IN_PROGRESS"
      /\ \A y \in Scope \ {x} : records'[y] = records[y]
  BY <1>1 DEF RecordsType, NewRecord
<1>4. ~On(work[h].req.user, LockKey(work[h].req)) /\ ~On(work[h].req.user, UnlockKey(work[h].req))
  BY <1>1 DEF HandlerKeys
<1> HIDE DEF x
<1>5. \A v, k : On(v, k)' <=> On(v, k)
  BY <1>1 DEF On
<1>6. \A r \in Request : records'[ScopeOf(r)].status = "NONE" =>
          ~On(r.user, LockKey(r))' /\ ~On(r.user, UnlockKey(r))'
  BY <1>3, <1>5, ScopeOfRequest DEF HandlerKeys
<1>7. \A g \in Handler : work'[g].pc = "recorded" => ~On(work'[g].req.user, LockKey(work'[g].req))
  BY <1>2, <1>4 DEF HandlerKeys
<1>8. \A g \in Handler : work'[g].pc \in {"recorded", "locked", "matched", "compensating"} =>
          ~On(work'[g].req.user, UnlockKey(work'[g].req))
  BY <1>2, <1>4 DEF HandlerKeys
<1>9. QED
  BY <1>1, <1>6, <1>7, <1>8 DEF HandlerKeys, On, LockKey, UnlockKey

\* Orders have identifiers, and cancellers refer to orders.
LEMMA Refers ==
    ASSUME TypeOK
    PROVE  /\ DOMAIN orders \subseteq Id
           /\ \A c \in Canceller : cancel[c].pc # "idle" => cancel[c].order \in DOMAIN orders
<1>1. DOMAIN orders = 1 .. Len(orders) /\ Len(orders) \in Nat /\ Len(orders) <= MaxOrders /\ MaxOrders \in Nat
  BY BoundsAssumption DEF TypeOK, OrdersType
<1>2. DOMAIN orders \subseteq Id
  BY <1>1 DEF Id
<1>3. ASSUME NEW c \in Canceller, cancel[c].pc # "idle" PROVE cancel[c].order \in 1 .. Len(orders)
  <2>1. cancel[c].order \in 0 .. Len(orders) /\ cancel[c].order # 0
    BY <1>3 DEF TypeOK, CancelType
  <2>2. QED
    BY <1>1, <2>1
<1>4. QED
  BY <1>1, <1>2, <1>3

\* Steps that post no cancellation and let no order owe that is not in the table.
LEMMA CancelKeysStay ==
    ASSUME CancelKeys, NoCancelKeys, DOMAIN orders \subseteq DOMAIN orders',
           \A i \in Id \ DOMAIN orders' : owed'[i] = owed[i],
           \A c \in Canceller : cancel'[c].pc # "done" => cancel[c].pc # "done"
    PROVE  CancelKeys'
<1>1. \A i \in Id \ DOMAIN orders' : owed'[i] = 0
  BY DEF CancelKeys
<1>2. \A c \in Canceller : cancel'[c].pc # "done" => ~OnLedger(CancelKey(c))'
  BY DEF CancelKeys, NoCancelKeys
<1>3. QED
  BY <1>1, <1>2 DEF CancelKeys, OnLedger, On, CancelKey

\* c posts the unlock of what remained, and is done.
LEMMA UnlockKeepsKeys ==
    ASSUME CancelKeys, UNCHANGED <<orders, owed>>, NEW c \in Canceller, NEW u,
           cancel'[c].pc = "done", \A d \in Canceller \ {c} : cancel'[d] = cancel[d],
           \A v \in User : \A x : On(v, x)' <=> (On(v, x) \/ (v = u /\ x = CancelKey(c)))
    PROVE  CancelKeys'
<1>1. \A i \in Id \ DOMAIN orders' : owed'[i] = 0
  BY DEF CancelKeys
<1>2. ASSUME NEW d \in Canceller, cancel'[d].pc # "done" PROVE ~OnLedger(CancelKey(d))'
  <2>1. d # c /\ cancel[d].pc # "done" /\ ~OnLedger(CancelKey(d)) /\ CancelKey(d) # CancelKey(c)
    BY <1>2 DEF CancelKeys, CancelKey
  <2>2. \A v \in User : ~On(v, CancelKey(d))'
    BY <2>1 DEF OnLedger
  <2>3. QED
    BY <2>2 DEF OnLedger, On, CancelKey
<1>3. QED
  BY <1>1, <1>2 DEF CancelKeys, OnLedger, On, CancelKey

-----------------------------------------------------------------------------
(***************************************************************************)
(* The sums.                                                               *)
(***************************************************************************)

\* What a handler, a canceller or an order accounts for is a natural number.
PartsAreNat(u) ==
    /\ \A h \in Handler : Holding(u, h) \in Nat
    /\ \A c \in Canceller : Giving(u, c) \in Nat
    /\ \A i \in Id : Claimed(u, i) \in Nat

LEMMA Parts == ASSUME NEW u PROVE (TypeOK => PartsAreNat(u)) /\ (TypeOK' => PartsAreNat(u)')
<1>1. ASSUME TypeOK PROVE PartsAreNat(u)
  <2>1. \A h \in Handler : work[h].req.amount \in Nat
    BY <1>1, ScopeOfRequest DEF TypeOK, WorkType
  <2>2. \A c \in Canceller : cancel[c].amount \in Nat
    BY <1>1 DEF TypeOK, CancelType
  <2>3. ASSUME NEW i \in Id PROVE Claimed(u, i) \in Nat
    <3>1. owed[i] \in Nat
      BY <1>1 DEF TypeOK, OrdersType
    <3>2. i \in DOMAIN orders => orders[i] \in Row
      BY <1>1 DEF TypeOK, OrdersType
    <3>3. i \in DOMAIN orders => orders[i].remaining \in Nat
      BY <3>2 DEF Row
    <3>4. QED
      BY <3>1, <3>3 DEF Claimed
  <2>4. QED
    BY <2>1, <2>2, <2>3 DEF PartsAreNat, Holding, Giving
<1>2. TypeOK => PartsAreNat(u)
  BY <1>1
<1>3. QED
  BY <1>2, PTL

LEMMA Finite == IsFiniteSet(Handler) /\ IsFiniteSet(Canceller) /\ IsFiniteSet(Id)
BY BoundsAssumption, FS_Interval DEF Id

SumsNat(u) == Owing(u) \in Nat /\ Held(u) \in Nat /\ Given(u) \in Nat

LEMMA SumsAreNat ==
    ASSUME TypeOK, NEW u
    PROVE  SumsNat(u) /\ Owing(u) \in Nat /\ Held(u) \in Nat /\ Given(u) \in Nat
<1>1. Owing(u) \in Nat
  <2> DEFINE f == [i \in Id |-> Claimed(u, i)]
  <2>1. \A i \in Id : f[i] \in Nat
    BY Parts DEF PartsAreNat
  <2> HIDE DEF f
  <2>2. SumFunctionOnSet(f, Id) \in Nat
    BY <2>1, Finite, SumNat
  <2>3. QED
    BY <2>2 DEF f, Owing
<1>2. Held(u) \in Nat
  <2> DEFINE f == [h \in Handler |-> Holding(u, h)]
  <2>1. \A h \in Handler : f[h] \in Nat
    BY Parts DEF PartsAreNat
  <2> HIDE DEF f
  <2>2. SumFunctionOnSet(f, Handler) \in Nat
    BY <2>1, Finite, SumNat
  <2>3. QED
    BY <2>2 DEF f, Held
<1>3. Given(u) \in Nat
  <2> DEFINE f == [c \in Canceller |-> Giving(u, c)]
  <2>1. \A c \in Canceller : f[c] \in Nat
    BY Parts DEF PartsAreNat
  <2> HIDE DEF f
  <2>2. SumFunctionOnSet(f, Canceller) \in Nat
    BY <2>1, Finite, SumNat
  <2>3. QED
    BY <2>2 DEF f, Given
<1>4. QED
  BY <1>1, <1>2, <1>3 DEF SumsNat

LEMMA SumsNext == ASSUME NEW u PROVE TypeOK' => SumsNat(u)'
<1>1. TypeOK => SumsNat(u)
  BY SumsAreNat
<1>2. QED
  BY <1>1, PTL

\* What one place adds to a sum.
LEMMA OneOf ==
    ASSUME NEW S, IsFiniteSet(S), NEW x \in S, NEW f, \A y \in S : f[y] \in Nat
    PROVE  f[x] <= SumFunctionOnSet(f, S)
<1>1. SumFunctionOnSet(f, S) = f[x] + SumFunctionOnSet(f, S \ {x})
  BY SumRemove
<1>2. SumFunctionOnSet(f, S \ {x}) \in Nat
  BY SumNat, FS_Subset
<1>3. QED
  BY <1>1, <1>2

\* One handler goes on.
LEMMA HeldChanges ==
    ASSUME TypeOK, TypeOK', NEW u, NEW h \in Handler, \A g \in Handler \ {h} : work'[g] = work[g]
    PROVE  Held(u)' = Held(u) + (Holding(u, h)' - Holding(u, h)) /\ Holding(u, h) <= Held(u)
<1> DEFINE f == [g \in Handler |-> Holding(u, g)]
           f2 == [g \in Handler |-> Holding(u, g)']
<1>1. (\A g \in Handler : Holding(u, g) \in Nat) /\ \A g \in Handler : Holding(u, g)' \in Nat
  BY Parts DEF PartsAreNat
<1>2. \A g \in Handler \ {h} : Holding(u, g)' = Holding(u, g)
  BY DEF Holding
<1>3. /\ \A g \in Handler : f[g] = Holding(u, g) /\ f2[g] = Holding(u, g)'
      /\ Held(u) = SumFunctionOnSet(f, Handler) /\ Held(u)' = SumFunctionOnSet(f2, Handler)
  BY DEF Held
<1> HIDE DEF f, f2
<1>4. SumFunctionOnSet(f2, Handler) = SumFunctionOnSet(f, Handler) + (f2[h] - f[h])
  <2>1. /\ \A y \in Handler : f[y] \in Int /\ f2[y] \in Int
        /\ \A y \in Handler \ {h} : f2[y] = f[y]
    BY <1>1, <1>2, <1>3
  <2>2. QED
    BY <2>1, Finite, SumChange
<1>5. f[h] <= SumFunctionOnSet(f, Handler)
  <2>1. \A y \in Handler : f[y] \in Nat
    BY <1>1, <1>3
  <2>2. QED
    BY <2>1, Finite, OneOf
<1>6. QED
  BY <1>3, <1>4, <1>5

\* One canceller goes on; the orders belong to whom they belonged.
LEMMA GivenChanges ==
    ASSUME TypeOK, TypeOK', NEW u, NEW c \in Canceller, \A d \in Canceller \ {c} : cancel'[d] = cancel[d],
           \A i \in DOMAIN orders : orders'[i].user = orders[i].user
    PROVE  Given(u)' = Given(u) + (Giving(u, c)' - Giving(u, c)) /\ Giving(u, c) <= Given(u)
<1> DEFINE f == [d \in Canceller |-> Giving(u, d)]
           f2 == [d \in Canceller |-> Giving(u, d)']
<1>1. (\A d \in Canceller : Giving(u, d) \in Nat) /\ \A d \in Canceller : Giving(u, d)' \in Nat
  BY Parts DEF PartsAreNat
<1>2. \A d \in Canceller \ {c} : Giving(u, d)' = Giving(u, d)
  BY Refers DEF Giving
<1>3. /\ \A d \in Canceller : f[d] = Giving(u, d) /\ f2[d] = Giving(u, d)'
      /\ Given(u) = SumFunctionOnSet(f, Canceller) /\ Given(u)' = SumFunctionOnSet(f2, Canceller)
  BY DEF Given
<1> HIDE DEF f, f2
<1>4. SumFunctionOnSet(f2, Canceller) = SumFunctionOnSet(f, Canceller) + (f2[c] - f[c])
  <2>1. /\ \A y \in Canceller : f[y] \in Int /\ f2[y] \in Int
        /\ \A y \in Canceller \ {c} : f2[y] = f[y]
    BY <1>1, <1>2, <1>3
  <2>2. QED
    BY <2>1, Finite, SumChange
<1>5. f[c] <= SumFunctionOnSet(f, Canceller)
  <2>1. \A y \in Canceller : f[y] \in Nat
    BY <1>1, <1>3
  <2>2. QED
    BY <2>1, Finite, OneOf
<1>6. QED
  BY <1>3, <1>4, <1>5

\* One order is placed, traded, cancelled or settled.
LEMMA OwingChanges ==
    ASSUME TypeOK, TypeOK', NEW u, NEW i \in Id, \A j \in Id \ {i} : Claimed(u, j)' = Claimed(u, j)
    PROVE  Owing(u)' = Owing(u) + (Claimed(u, i)' - Claimed(u, i))
<1> DEFINE f == [j \in Id |-> Claimed(u, j)]
           f2 == [j \in Id |-> Claimed(u, j)']
<1>1. (\A j \in Id : Claimed(u, j) \in Nat) /\ \A j \in Id : Claimed(u, j)' \in Nat
  BY Parts DEF PartsAreNat
<1>3. /\ \A j \in Id : f[j] = Claimed(u, j) /\ f2[j] = Claimed(u, j)'
      /\ Owing(u) = SumFunctionOnSet(f, Id) /\ Owing(u)' = SumFunctionOnSet(f2, Id)
  BY DEF Owing
<1> HIDE DEF f, f2
<1>4. SumFunctionOnSet(f2, Id) = SumFunctionOnSet(f, Id) + (f2[i] - f[i])
  <2>1. /\ \A y \in Id : f[y] \in Int /\ f2[y] \in Int
        /\ \A y \in Id \ {i} : f2[y] = f[y]
    BY <1>1, <1>3
  <2>2. QED
    BY <2>1, Finite, SumChange
<1>5. QED
  BY <1>3, <1>4

\* What nobody touches.
LEMMA SumsStay ==
    ASSUME TypeOK, NEW u
    PROVE  /\ UNCHANGED work => Held(u)' = Held(u)
           /\ UNCHANGED <<orders, owed>> => Owing(u)' = Owing(u)
           /\ UNCHANGED cancel /\ (\A i \in DOMAIN orders : orders'[i].user = orders[i].user)
              => Given(u)' = Given(u)
<1>1. ASSUME UNCHANGED work PROVE Held(u)' = Held(u)
  BY <1>1 DEF Held, Holding
<1>2. ASSUME UNCHANGED <<orders, owed>> PROVE Owing(u)' = Owing(u)
  BY <1>2 DEF Owing, Claimed
<1>3. ASSUME UNCHANGED cancel, \A i \in DOMAIN orders : orders'[i].user = orders[i].user
      PROVE  Given(u)' = Given(u)
  <2>1. \A d \in Canceller : Giving(u, d)' = Giving(u, d)
    BY <1>3, Refers DEF Giving
  <2>2. [d \in Canceller |-> Giving(u, d)'] = [d \in Canceller |-> Giving(u, d)]
    BY <2>1
  <2>3. QED
    BY <2>2 DEF Given
<1>4. QED
  BY <1>1, <1>2, <1>3

-----------------------------------------------------------------------------
(***************************************************************************)
(* The steps.                                                              *)
(***************************************************************************)

LEMMA FundsKept ==
    ASSUME FundsInv, LedgerGrows, Failures \subseteq Failures',
           \A u \in User : /\ Spare(u) \in Int /\ Spare(u)' \in Int
                           /\ LocksOwn(u)' => Spare(u)' >= Spare(u)
                           /\ Exact(u)' => Spare(u)' = Spare(u)
    PROVE  FundsInv'
<1> SUFFICES ASSUME Lossless', NEW u \in User, LocksOwn(u)'
             PROVE  Spare(u)' >= 0 /\ (Exact(u)' => Spare(u)' = 0)
  BY DEF FundsInv
<1>1. Spare(u) >= 0 /\ (Exact(u)' => Spare(u) = 0)
  <2>1. Lossless
    BY DEF Lossless
  <2>2. LocksOwn(u) /\ (Exact(u)' => Exact(u))
    BY OwnStays
  <2>3. QED
    BY <2>1, <2>2 DEF FundsInv
<1>2. QED
  BY <1>1

\* It suffices that nobody's funds are missing or left over, whosoever the keys are.
LEMMA FundsSame ==
    ASSUME FundsInv, LedgerGrows, Failures \subseteq Failures',
           \A u \in User : /\ Spare(u) \in Int /\ Spare(u)' \in Int /\ Spare(u)' >= Spare(u)
                           /\ Failures' \subseteq {"rollback"} => Spare(u)' = Spare(u)
    PROVE  FundsInv'
<1>1. \A u \in User : Exact(u)' => Failures' \subseteq {"rollback"}
  BY DEF Exact
<1>2. QED
  BY <1>1, FundsKept

LEMMA SpareIs ==
    ASSUME TypeOK, NEW u \in User
    PROVE  Spare(u) \in Int /\ accounts[u].locked \in Int
<1>1. Owing(u) \in Nat /\ Held(u) \in Nat /\ Given(u) \in Nat
  BY SumsAreNat
<1>2. accounts[u].locked \in Int
  BY DEF TypeOK, AccountsType
<1>3. QED
  BY <1>1, <1>2 DEF Spare

\* What a step of handler h does to the spare funds of a user.
LEMMA HandlerSpare ==
    ASSUME TypeOK, TypeOK', NEW u \in User, NEW h \in Handler, \A g \in Handler \ {h} : work'[g] = work[g],
           UNCHANGED <<orders, owed, cancel>>
    PROVE  /\ Spare(u)' = Spare(u) + (accounts'[u].locked - accounts[u].locked)
                                   - (Holding(u, h)' - Holding(u, h))
           /\ Spare(u)' \in Int
           /\ Spare(u) >= 0 => Holding(u, h) <= accounts[u].locked
<1>1. Owing(u) \in Nat /\ Held(u) \in Nat /\ Given(u) \in Nat
  BY SumsAreNat
<1>2. Owing(u)' = Owing(u) /\ Given(u)' = Given(u)
  BY SumsStay
<1>3. Held(u)' = Held(u) + (Holding(u, h)' - Holding(u, h)) /\ Holding(u, h) <= Held(u)
  BY HeldChanges
<1>4. Holding(u, h) \in Nat /\ Holding(u, h)' \in Nat
  BY Parts DEF PartsAreNat
<1>5. accounts[u].locked \in Int /\ accounts'[u].locked \in Int
  BY DEF TypeOK, AccountsType
<1>6. Spare(u)' = accounts'[u].locked - (Owing(u)' + Held(u)' + Given(u)')
  BY DEF Spare
<1>7. Spare(u) = accounts[u].locked - (Owing(u) + Held(u) + Given(u))
  BY DEF Spare
<1>8. QED
  BY <1>1, <1>2, <1>3, <1>4, <1>5, <1>6, <1>7

\* A handler that neither gains nor gives up funds.
LEMMA HandlerFunds ==
    ASSUME TypeOK, TypeOK', FundsInv, NEW h \in Handler, \A g \in Handler \ {h} : work'[g] = work[g],
           UNCHANGED <<orders, owed, cancel, accounts>>, LedgerGrows, Failures \subseteq Failures',
           \A u \in User : Holding(u, h)' <= Holding(u, h),
           Failures' \subseteq {"rollback"} => \A u \in User : Holding(u, h)' = Holding(u, h)
    PROVE  FundsInv'
<1>1. ASSUME NEW u \in User
      PROVE  /\ Spare(u) \in Int /\ Spare(u)' \in Int /\ Spare(u)' >= Spare(u)
             /\ Failures' \subseteq {"rollback"} => Spare(u)' = Spare(u)
  <2>1. Holding(u, h) \in Nat /\ Holding(u, h)' \in Nat
    BY Parts DEF PartsAreNat
  <2>2. Spare(u) \in Int /\ accounts[u].locked \in Int /\ accounts'[u].locked = accounts[u].locked
    BY SpareIs
  <2>3. Spare(u)' = Spare(u) + (accounts'[u].locked - accounts[u].locked) - (Holding(u, h)' - Holding(u, h))
    BY HandlerSpare
  <2>4. QED
    BY <2>1, <2>2, <2>3
<1>2. QED
  BY <1>1, FundsSame

\* A handler that posts a call of its request, or does not, and goes on.
LEMMA CallFunds ==
    ASSUME TypeOK, TypeOK', FundsInv, LedgerType, NEW h \in Handler, Goto(h, work'[h].pc),
           UNCHANGED <<orders, owed, cancel>>, LedgerGrows, Failures \subseteq Failures',
           NEW op \in {"LOCK", "UNLOCK"}, NEW k \in PostingKey, NEW own, own = work[h].req.user,
           \/ Accounts!Post(Call(op, work[h].req.user, work[h].req.amount, k))
           \/ UNCHANGED <<accounts, ledger>>,
           LET Has(pc) == IF pc \in {"locked", "matched", "compensating"} THEN 1 ELSE 0
               done == IF UNCHANGED <<accounts, ledger>> THEN 0 ELSE IF op = "LOCK" THEN 1 ELSE -1
               d == Has(work'[h].pc) - Has(work[h].pc)
           IN  /\ LocksOwn(own)' => done >= d
               /\ Exact(own)' => done = d
    PROVE  FundsInv'
<1> DEFINE Has(pc) == IF pc \in {"locked", "matched", "compensating"} THEN 1 ELSE 0
           done == IF UNCHANGED <<accounts, ledger>> THEN 0 ELSE IF op = "LOCK" THEN 1 ELSE -1
           r == work[h].req
           q == work[h].req.amount
           d == Has(work'[h].pc) - Has(work[h].pc)
<1>1. /\ WorkType /\ r \in Request /\ r.user \in User /\ q \in Nat
      /\ work'[h].req = r /\ \A g \in Handler \ {h} : work'[g] = work[g]
  BY ScopeOfRequest, GotoMoves DEF TypeOK, WorkType
<1>2. /\ d \in Int /\ done \in Int
      /\ LocksOwn(own)' => done >= d
      /\ Exact(own)' => done = d
  OBVIOUS
<1>3. ASSUME NEW u \in User
      PROVE  /\ Spare(u) \in Int /\ Spare(u)' \in Int
             /\ LocksOwn(u)' => Spare(u)' >= Spare(u)
             /\ Exact(u)' => Spare(u)' = Spare(u)
  <2>1. Spare(u) \in Int /\ accounts[u].locked \in Int
    BY SpareIs
  <2>2. Spare(u)' = Spare(u) + (accounts'[u].locked - accounts[u].locked) - (Holding(u, h)' - Holding(u, h))
    BY <1>1, HandlerSpare
  <2>3. CASE u # r.user
    <3>1. Holding(u, h)' = 0 /\ Holding(u, h) = 0
      BY <1>1, <2>3 DEF Holding
    <3>2. accounts'[u] = accounts[u]
      BY <1>1, <2>3, PostMoves DEF TypeOK
    <3>3. QED
      BY <2>1, <2>2, <3>1, <3>2
  <2>4. CASE u = r.user
    <3>1. Holding(u, h)' - Holding(u, h) = (IF d = 1 THEN q ELSE IF d = -1 THEN -q ELSE 0)
      BY <1>1, <2>4 DEF Holding
    <3>2. accounts'[u].locked - accounts[u].locked = (IF done = 1 THEN q ELSE IF done = -1 THEN -q ELSE 0)
      <4>1. CASE UNCHANGED <<accounts, ledger>>
        BY <2>1, <4>1
      <4>2. CASE ~UNCHANGED <<accounts, ledger>>
        <5>1. accounts'[u].locked = accounts[u].locked + Adds(op, q)
          BY <1>1, <2>4, <4>2, PostMoves DEF TypeOK
        <5>2. QED
          BY <1>1, <2>1, <4>2, <5>1 DEF Adds
      <4>3. QED
        BY <4>1, <4>2
    <3>3. done \in {-1, 0, 1} /\ d \in {-1, 0, 1}
      OBVIOUS
    <3>4. (LocksOwn(u)' => done >= d) /\ (Exact(u)' => done = d)
      BY <1>2, <2>4
    <3>5. q \in Nat /\ d \in Int /\ done \in Int
      BY <1>1, <1>2
    <3> HIDE DEF done, d, q, Has
    <3>6. (done >= d => Spare(u)' >= Spare(u)) /\ (done = d => Spare(u)' = Spare(u)) /\ Spare(u)' \in Int
      BY <2>1, <2>2, <3>1, <3>2, <3>3, <3>5
    <3>7. QED
      BY <2>1, <3>4, <3>6
  <2>5. QED
    BY <2>3, <2>4
<1>4. QED
  BY <1>3, FundsKept

\* The lock of a request, which was not posted before.
LEMMA LockKeeps ==
    ASSUME IntakeInv, KeyInv, FundsInv, TypeOK', Failures \subseteq Failures',
           NEW h \in Handler, Lock(h) \/ LockFails(h)
    PROVE  KeyInv' /\ FundsInv'
<1>p. PICK own \in User : own = work[h].req.user
  BY ScopeOfRequest DEF IntakeInv, TypeOK, WorkType
<1> DEFINE r == work[h].req
           k == LockKey(r)
           c == Call("LOCK", own, r.amount, k)
<1>1. /\ TypeOK /\ WorkType /\ AccountsType /\ LedgerType /\ r \in Request /\ own = r.user /\ r.amount \in Nat
      /\ work[h].pc = "recorded" /\ k \in PostingKey /\ ~On(own, k) /\ c = LockCall(r)
  BY <1>p, ScopeOfRequest, PostingKeys
  DEF IntakeInv, TypeOK, WorkType, KeyInv, HandlerKeys, Lock, LockFails, LockCall, LockKey
<1>2. UNCHANGED <<records, orders, owed, cancel>>
  BY DEF Lock, LockFails
<1>3. Accounts!Post(c) => ~UNCHANGED <<accounts, ledger>>
  <2>1. ASSUME Accounts!Post(c), UNCHANGED <<accounts, ledger>> PROVE FALSE
    <3>1. \A x : On(own, x)' <=> (On(own, x) \/ x = k)
      BY <1>1, <2>1, PostMoves
    <3>2. \A x : On(own, x)' <=> On(own, x)
      BY <2>1 DEF On
    <3>3. QED
      BY <1>1, <3>1, <3>2
  <2>2. QED
    BY <2>1
<1>4. /\ Goto(h, work'[h].pc) /\ work'[h].pc \in {"locked", "failing"}
      /\ \/ Accounts!Post(c)
         \/ UNCHANGED <<accounts, ledger>>
      /\ \/ work'[h].pc = "locked" /\ Accounts!Post(c)
         \/ work'[h].pc = "failing" /\ UNCHANGED <<accounts, ledger>>
         \/ work'[h].pc = "failing" /\ ~(Failures' \subseteq {"rollback"})
         \/ UNCHANGED <<accounts, ledger>> /\ ~LocksOwn(own)
  <2>1. CASE Lock(h)
    <3>1. CASE Accounts!Post(LockCall(r)) /\ Goto(h, "locked")
      BY <1>1, <3>1, GotoMoves
    <3>2. CASE Repeats(LockCall(r)) /\ UNCHANGED <<accounts, ledger>> /\ Goto(h, "locked")
      <4>1. PICK v \in User : On(v, k)
        BY <1>1, <3>2, RepeatsPosted
      <4>2. v # own
        BY <1>1, <4>1
      <4>3. ~LocksOwn(own)
        BY <1>1, <4>1, <4>2, OwnKeys
      <4>4. QED
        BY <1>1, <3>2, <4>3, GotoMoves
    <3>3. CASE Refused(LockCall(r)) /\ Goto(h, "failing")
      BY <1>1, <3>3, GotoMoves DEF Refused
    <3>4. QED
      BY <2>1, <3>1, <3>2, <3>3 DEF Lock, Accepted
  <2>2. CASE LockFails(h)
    <3>1. Goto(h, "failing") /\ (Accounts!Post(c) \/ UNCHANGED <<accounts, ledger>>)
      BY <1>1, <2>2 DEF LockFails, Unanswered
    <3>2. "lock" \in Failures'
      BY <1>1, <2>2, FaultAdds DEF LockFails, TypeOK
    <3>3. QED
      BY <1>1, <3>1, <3>2, GotoMoves
  <2>3. QED
    BY <2>1, <2>2
<1>5. LedgerGrows
  <2>1. CASE Accounts!Post(c)
    <3>1. \A v \in User : \A x : On(v, x)' <=> (On(v, x) \/ (v = own /\ x = k))
      BY <1>1, <2>1, PostMoves
    <3> HIDE DEF k
    <3>2. QED
      BY <3>1, PostGrows
  <2>2. CASE UNCHANGED <<accounts, ledger>>
    BY <2>2, NoPosting
  <2>3. QED
    BY <1>4, <2>1, <2>2
<1>6. LocksOwn(own)' => LocksOwn(own)
  BY <1>5, OwnStays
<1>7. Exact(own)' => LocksOwn(own)' /\ Failures' \subseteq {"rollback"}
  BY DEF Exact
<1> HIDE DEF c, k
<1>8. FundsInv'
  <2> DEFINE Has(pc) == IF pc \in {"locked", "matched", "compensating"} THEN 1 ELSE 0
             done == IF UNCHANGED <<accounts, ledger>> THEN 0 ELSE IF "LOCK" = "LOCK" THEN 1 ELSE -1
             d == Has(work'[h].pc) - Has(work[h].pc)
  <2>1. LocksOwn(own)' => done >= d
    BY <1>1, <1>3, <1>4, <1>6
  <2>2. Exact(own)' => done = d
    BY <1>1, <1>3, <1>4, <1>6, <1>7
  <2>3. Accounts!Post(Call("LOCK", work[h].req.user, work[h].req.amount, k)) \/ UNCHANGED <<accounts, ledger>>
    BY <1>p, <1>4 DEF c
  <2>4. QED
    BY <1>1, <1>2, <1>4, <1>5, <2>1, <2>2, <2>3, CallFunds
<1>9. KeyInv'
  <2>1. CASE Accounts!Post(c)
    <3>1. LedgerType' /\ \A v \in User : \A x : On(v, x)' <=> (On(v, x) \/ (v = r.user /\ x = k))
      BY <1>1, <2>1, PostMoves DEF c
    <3>2. HandlerKeys'
      BY <1>1, <1>2, <1>4, <3>1, PostKeepsKeys DEF KeyInv, k
    <3>3. NoCancelKeys
      BY <1>1, <3>1, KeysDiffer DEF NoCancelKeys, OnLedger, k
    <3>4. CancelKeys'
      BY <1>1, <1>2, <3>3, CancelKeysStay DEF KeyInv
    <3>5. QED
      BY <3>1, <3>2, <3>4 DEF KeyInv
  <2>2. CASE UNCHANGED <<accounts, ledger>>
    <3>1. LedgerType' /\ NoLockKeys /\ NoCancelKeys
      BY <1>1, <2>2, NoPosting
    <3>2. \A g \in Handler : Move(g)
      BY <1>1, <1>4, GotoMoves, StayMoves DEF Move, Working
    <3>3. HandlerKeys'
      BY <1>1, <1>2, <3>1, <3>2, MovesKeepKeys DEF KeyInv, NoneWasNone
    <3>4. CancelKeys'
      BY <1>1, <1>2, <3>1, CancelKeysStay DEF KeyInv
    <3>5. QED
      BY <3>1, <3>3, <3>4 DEF KeyInv
  <2>3. QED
    BY <1>4, <2>1, <2>2
<1>10. QED
  BY <1>8, <1>9

\* The compensation of a request, which was not posted before. It cannot be refused as long
\* as what the request locked is still locked.
LEMMA CompensationFits ==
    ASSUME TypeOK, TypeOK', FundsInv, NEW h \in Handler, Exact(work[h].req.user),
           work[h].pc = "compensating", ~OnLedger(UnlockKey(work[h].req)), \A g \in Handler \ {h} : work'[g] = work[g],
           UNCHANGED <<orders, owed, cancel>>
    PROVE  ~Refused(UnlockCall(work[h].req))
<1> DEFINE r == work[h].req
           u == r.user
<1>1. r \in Request /\ u \in User /\ r.amount \in Nat
  BY ScopeOfRequest DEF TypeOK, WorkType
<1>2. Spare(u) >= 0
  BY <1>1 DEF FundsInv, Exact, Lossless
<1>3. r.amount <= accounts[u].locked
  <2>1. Holding(u, h) = r.amount
    BY DEF Holding
  <2>2. Holding(u, h) <= accounts[u].locked
    BY <1>1, <1>2, HandlerSpare
  <2>3. QED
    BY <2>1, <2>2
<1>4. accounts[u].avail \in Nat /\ accounts[u].locked \in Int
  BY <1>1 DEF TypeOK, AccountsType
<1> DEFINE c == UnlockCall(r)
           entry == Accounts!EntryFor(c, accounts[c.acct])
<1>5. c.acct = u /\ c.op = "UNLOCK" /\ c.amount = r.amount /\ c.key = UnlockKey(r)
  BY DEF UnlockCall, Call, UnlockKey
<1>6. entry.avail = accounts[u].avail + r.amount /\ entry.locked = accounts[u].locked + (-r.amount)
  BY <1>5 DEF Accounts!EntryFor
<1>7. ~(entry.avail < 0 \/ entry.locked < 0)
  BY <1>1, <1>3, <1>4, <1>6
<1>8. ~Accounts!IsPosted(c.key)
  BY <1>5, PostedIs
<1> HIDE DEF entry, c
<1>9. QED
  BY <1>7, <1>8 DEF Refused, entry, c

LEMMA CompensateKeeps ==
    ASSUME IntakeInv, KeyInv, FundsInv, TypeOK', Failures \subseteq Failures',
           NEW h \in Handler, Compensate(h) \/ CompensateFails(h)
    PROVE  KeyInv' /\ FundsInv'
<1>p. PICK own \in User : own = work[h].req.user
  BY ScopeOfRequest DEF IntakeInv, TypeOK, WorkType
<1> DEFINE r == work[h].req
           k == UnlockKey(r)
           c == Call("UNLOCK", own, r.amount, k)
<1>1. /\ TypeOK /\ WorkType /\ AccountsType /\ LedgerType /\ r \in Request /\ own = r.user /\ r.amount \in Nat
      /\ work[h].pc = "compensating" /\ k \in PostingKey /\ ~On(own, k) /\ c = UnlockCall(r)
  BY <1>p, ScopeOfRequest, PostingKeys
  DEF IntakeInv, TypeOK, WorkType, KeyInv, HandlerKeys, Compensate, CompensateFails, UnlockCall, UnlockKey
<1>2. UNCHANGED <<records, orders, owed, cancel>> /\ Goto(h, "failing")
  BY DEF Compensate, CompensateFails
<1>3. work'[h].pc = "failing" /\ Goto(h, work'[h].pc) /\ \A g \in Handler \ {h} : work'[g] = work[g]
  BY <1>1, <1>2, GotoMoves
<1>4. Accounts!Post(c) \/ UNCHANGED <<accounts, ledger>>
  BY <1>1 DEF Compensate, CompensateFails, Accepted, Refused, Unanswered
<1>5. Accounts!Post(c) => ~UNCHANGED <<accounts, ledger>>
  <2>1. ASSUME Accounts!Post(c), UNCHANGED <<accounts, ledger>> PROVE FALSE
    <3>1. \A x : On(own, x)' <=> (On(own, x) \/ x = k)
      BY <1>1, <2>1, PostMoves
    <3>2. \A x : On(own, x)' <=> On(own, x)
      BY <2>1 DEF On
    <3>3. QED
      BY <1>1, <3>1, <3>2
  <2>2. QED
    BY <2>1
<1>6. LedgerGrows
  <2>1. CASE Accounts!Post(c)
    <3>1. \A v \in User : \A x : On(v, x)' <=> (On(v, x) \/ (v = own /\ x = k))
      BY <1>1, <2>1, PostMoves
    <3> HIDE DEF k
    <3>2. QED
      BY <3>1, PostGrows
  <2>2. CASE UNCHANGED <<accounts, ledger>>
    BY <2>2, NoPosting
  <2>3. QED
    BY <1>4, <2>1, <2>2
<1>7. Exact(own)' => Accounts!Post(c)
  <2> SUFFICES ASSUME Exact(own)' PROVE Accounts!Post(c)
    OBVIOUS
  <2>1. Exact(own) /\ Failures' \subseteq {"rollback"}
    BY <1>6, OwnStays DEF Exact
  <2>2. ~OnLedger(k)
    BY <1>1, <2>1, OwnKeys DEF Exact, OnLedger
  <2>3. ~Refused(UnlockCall(r))
    BY <1>1, <1>2, <1>3, <2>1, <2>2, CompensationFits
  <2>4. ~Repeats(UnlockCall(r))
    BY <1>1, <2>2, RepeatsPosted DEF OnLedger
  <2>5. CASE Compensate(h)
    BY <1>1, <2>3, <2>4, <2>5 DEF Compensate, Accepted
  <2>6. CASE CompensateFails(h)
    <3>1. "unlock" \in Failures'
      BY <1>1, <2>6, FaultAdds DEF CompensateFails, TypeOK
    <3>2. QED
      BY <2>1, <3>1
  <2>7. QED
    BY <2>5, <2>6
<1> HIDE DEF c, k
<1>8. FundsInv'
  <2> DEFINE Has(pc) == IF pc \in {"locked", "matched", "compensating"} THEN 1 ELSE 0
             done == IF UNCHANGED <<accounts, ledger>> THEN 0 ELSE IF "UNLOCK" = "LOCK" THEN 1 ELSE -1
             d == Has(work'[h].pc) - Has(work[h].pc)
  <2>1. LocksOwn(own)' => done >= d
    BY <1>1, <1>3, <1>5
  <2>2. Exact(own)' => done = d
    BY <1>1, <1>3, <1>5, <1>7
  <2>3. Accounts!Post(Call("UNLOCK", work[h].req.user, work[h].req.amount, k)) \/ UNCHANGED <<accounts, ledger>>
    BY <1>p, <1>4 DEF c
  <2>4. QED
    BY <1>1, <1>2, <1>3, <1>6, <2>1, <2>2, <2>3, CallFunds
<1>9. KeyInv'
  <2>1. CASE Accounts!Post(c)
    <3>1. LedgerType' /\ \A v \in User : \A x : On(v, x)' <=> (On(v, x) \/ (v = r.user /\ x = k))
      BY <1>1, <2>1, PostMoves DEF c
    <3>2. HandlerKeys'
      BY <1>1, <1>2, <1>3, <3>1, PostKeepsKeys DEF KeyInv, k
    <3>3. NoCancelKeys
      BY <1>1, <3>1, KeysDiffer DEF NoCancelKeys, OnLedger, k
    <3>4. CancelKeys'
      BY <1>1, <1>2, <3>3, CancelKeysStay DEF KeyInv
    <3>5. QED
      BY <3>1, <3>2, <3>4 DEF KeyInv
  <2>2. CASE UNCHANGED <<accounts, ledger>>
    <3>1. LedgerType' /\ NoLockKeys /\ NoCancelKeys
      BY <1>1, <2>2, NoPosting
    <3>2. \A g \in Handler : Move(g)
      BY <1>1, <1>3, <1>2, GotoMoves, StayMoves DEF Move, Working
    <3>3. HandlerKeys'
      BY <1>1, <1>2, <3>1, <3>2, MovesKeepKeys DEF KeyInv, NoneWasNone
    <3>4. CancelKeys'
      BY <1>1, <1>2, <3>1, CancelKeysStay DEF KeyInv
    <3>5. QED
      BY <3>1, <3>3, <3>4 DEF KeyInv
  <2>3. QED
    BY <1>4, <2>1, <2>2
<1>10. QED
  BY <1>8, <1>9

\* A handler that changes neither the balances nor the orders.
LEMMA QuietKeeps ==
    ASSUME IntakeInv, KeyInv, FundsInv, TypeOK', Failures \subseteq Failures',
           NEW h \in Handler, \A g \in Handler \ {h} : work'[g] = work[g],
           UNCHANGED <<accounts, ledger, orders, owed, cancel>>, HandlerKeys',
           \A u \in User : Holding(u, h)' <= Holding(u, h),
           Failures' \subseteq {"rollback"} => \A u \in User : Holding(u, h)' = Holding(u, h)
    PROVE  KeyInv' /\ FundsInv'
<1>1. TypeOK /\ LedgerType /\ CancelKeys
  BY DEF IntakeInv, KeyInv
<1>2. LedgerType' /\ NoCancelKeys /\ LedgerGrows
  BY <1>1, NoPosting
<1>3. FundsInv'
  BY <1>1, <1>2, HandlerFunds
<1>4. CancelKeys'
  BY <1>1, <1>2, CancelKeysStay
<1>5. QED
  BY <1>2, <1>3, <1>4 DEF KeyInv

\* The record of a request ends with one status or the other.
LEMMA RecordEnds ==
    ASSUME WorkType, RecordsType, NEW h \in Handler, FailRecord(h) \/ CompleteRecord(h)
    PROVE  records'[ScopeOf(work[h].req)].status \in {"FAILED", "COMPLETED"}
<1> DEFINE x == ScopeOf(work[h].req)
           rec == records[x]
<1>1. x \in Scope
  BY ScopeOfRequest DEF WorkType
<1>2. rec \in [status : {"NONE", "IN_PROGRESS", "COMPLETED", "FAILED"},
               amount : Nat, order : 0 .. Len(orders), expired : BOOLEAN]
  BY <1>1 DEF RecordsType
<1>3. CASE FailRecord(h)
  BY <1>1, <1>3 DEF RecordsType, FailRecord
<1>4. CASE CompleteRecord(h)
  <2>1. records' = [records EXCEPT ![x] = [[rec EXCEPT !.status = "COMPLETED"] EXCEPT !.order = work[h].order]]
    BY <1>1, <1>4 DEF CompleteRecord, RecordsType
  <2> HIDE DEF rec
  <2>2. records'[x] = [[rec EXCEPT !.status = "COMPLETED"] EXCEPT !.order = work[h].order]
    BY <1>1, <2>1 DEF RecordsType
  <2>3. [[rec EXCEPT !.status = "COMPLETED"] EXCEPT !.order = work[h].order].status = "COMPLETED"
    BY <1>2
  <2>4. QED
    BY <2>2, <2>3
<1>5. QED
  BY <1>3, <1>4

LEMMA PlainHandlerKeeps ==
    ASSUME IntakeInv, KeyInv, FundsInv, TypeOK', Failures \subseteq Failures', NEW h \in Handler,
           \/ \E r \in Request : Begin(h, r)
           \/ CreateRecord(h) \/ PlaceOrderFails(h) \/ FailRecord(h) \/ CompleteRecord(h) \/ Abandon(h)
    PROVE  KeyInv' /\ FundsInv'
<1>0. /\ TypeOK /\ WorkType /\ RecordsType /\ HandlerKeys /\ LedgerType
      /\ UNCHANGED <<accounts, ledger, orders, owed, cancel>>
  BY DEF IntakeInv, TypeOK, KeyInv, Begin, CreateRecord, PlaceOrderFails, FailRecord, CompleteRecord, Abandon
<1>z. \A u \in User : Holding(u, h) \in Nat
  BY <1>0, Parts DEF PartsAreNat
<1>1. CASE \E r \in Request : Begin(h, r)
  <2>1. /\ work[h].pc = "idle" /\ work'[h].pc = "found" /\ UNCHANGED records
        /\ \A g \in Handler \ {h} : work'[g] = work[g]
    BY <1>0, <1>1 DEF Begin, WorkType
  <2>2. \A g \in Handler : Move(g)
    BY <2>1, StayMoves DEF Move, Working
  <2>3. HandlerKeys'
    BY <1>0, <2>1, <2>2, NoPosting, MovesKeepKeys DEF NoneWasNone
  <2>4. \A u \in User : Holding(u, h)' = 0 /\ Holding(u, h) = 0
    BY <2>1 DEF Holding
  <2>5. QED
    BY <1>0, <2>1, <2>3, <2>4, QuietKeeps
<1>2. CASE CreateRecord(h)
  <2>1. /\ work[h].pc = "found" /\ work'[h].pc \in {"recorded", "idle"}
        /\ \A g \in Handler \ {h} : work'[g] = work[g]
    BY <1>0, <1>2 DEF CreateRecord, WorkType, Goto, Idle
  <2>2. HandlerKeys'
    <3>1. CASE records[ScopeOf(work[h].req)].status = "NONE"
      BY <1>0, <1>2, <3>1, CreateKeepsKeys
    <3>2. CASE records[ScopeOf(work[h].req)].status # "NONE"
      <4>1. UNCHANGED records /\ work' = [work EXCEPT ![h] = Idle]
        BY <1>2, <3>2 DEF CreateRecord
      <4>2. \A g \in Handler : Move(g)
        BY <1>0, <4>1, StopMoves, StayMoves DEF Move
      <4>3. QED
        BY <1>0, <4>1, <4>2, NoPosting, MovesKeepKeys DEF NoneWasNone
    <3>3. QED
      BY <3>1, <3>2
  <2>3. \A u \in User : Holding(u, h)' = 0 /\ Holding(u, h) = 0
    BY <2>1 DEF Holding
  <2>4. QED
    BY <1>0, <2>1, <2>2, <2>3, QuietKeeps
<1>3. CASE PlaceOrderFails(h)
  <2>1. /\ work[h].pc \in {"locked", "matched"} /\ Goto(h, "compensating") /\ UNCHANGED records
    BY <1>3 DEF PlaceOrderFails
  <2>2. /\ work'[h].pc = "compensating" /\ work'[h].req = work[h].req /\ work'[h].order = work[h].order
        /\ \A g \in Handler \ {h} : work'[g] = work[g]
    BY <1>0, <2>1, GotoMoves
  <2>3. \A g \in Handler : Move(g)
    BY <2>1, <2>2, StayMoves DEF Move, Working
  <2>4. HandlerKeys'
    BY <1>0, <2>1, <2>3, NoPosting, MovesKeepKeys DEF NoneWasNone
  <2>5. \A u \in User : Holding(u, h)' = Holding(u, h)
    BY <2>1, <2>2 DEF Holding
  <2>6. \A u \in User : Holding(u, h)' <= Holding(u, h)
    BY <1>z, <2>5
  <2>7. QED
    BY <1>0, <2>2, <2>4, <2>5, <2>6, QuietKeeps
<1>4. CASE FailRecord(h) \/ CompleteRecord(h) \/ Abandon(h)
  <2>1. work' = [work EXCEPT ![h] = Idle]
    BY <1>4 DEF FailRecord, CompleteRecord, Abandon
  <2>2. ~Working(h)' /\ \A g \in Handler \ {h} : work'[g] = work[g]
    BY <1>0, <2>1, StopMoves
  <2>3. \A g \in Handler : Move(g)
    BY <2>2, StayMoves DEF Move
  <2>4. NoneWasNone
    <3>1. CASE UNCHANGED records
      BY <3>1 DEF NoneWasNone
    <3>2. CASE FailRecord(h) \/ CompleteRecord(h)
      <4> DEFINE x == ScopeOf(work[h].req)
      <4>1. x \in Scope /\ records[x].status = "IN_PROGRESS"
        BY <1>0, <3>2, ScopeOfRequest
        DEF IntakeInv, RecordInProgress, Working, FailRecord, CompleteRecord, WorkType
      <4>2. \A y \in Scope \ {x} : records'[y] = records[y]
        BY <1>0, <3>2, <4>1 DEF RecordsType, FailRecord, CompleteRecord
      <4>3. records'[x].status \in {"FAILED", "COMPLETED"}
        BY <1>0, <3>2, <4>1, RecordEnds
      <4> HIDE DEF x
      <4>4. QED
        BY <4>2, <4>3, ScopeOfRequest DEF NoneWasNone
    <3>3. QED
      BY <1>4, <3>1, <3>2 DEF Abandon
  <2>5. HandlerKeys'
    BY <1>0, <2>3, <2>4, NoPosting, MovesKeepKeys
  <2>6. \A u \in User : Holding(u, h)' = 0
    BY <2>2 DEF Holding, Working
  <2>7. \A u \in User : Holding(u, h)' <= Holding(u, h)
    BY <1>z, <2>6
  <2>8. Failures' \subseteq {"rollback"} => \A u \in User : Holding(u, h)' = Holding(u, h)
    <3>1. CASE FailRecord(h) \/ CompleteRecord(h)
      <4>1. \A u \in User : Holding(u, h) = 0
        BY <3>1 DEF Holding, FailRecord, CompleteRecord
      <4>2. QED
        BY <2>6, <4>1
    <3>2. CASE Abandon(h)
      <4>1. "crash" \in Failures'
        BY <1>0, <3>2, FaultAdds DEF Abandon, TypeOK
      <4>2. QED
        BY <4>1
    <3>3. QED
      BY <1>4, <3>1, <3>2
  <2>9. QED
    BY <1>0, <2>2, <2>5, <2>7, <2>8, QuietKeeps
<1>5. QED
  BY <1>1, <1>2, <1>3, <1>4

\* The row of a transaction accounts for nothing yet: what is locked is its handler's still.
LEMMA InsertKeeps ==
    ASSUME IntakeInv, KeyInv, FundsInv, TypeOK', Failures \subseteq Failures',
           NEW h \in Handler, InsertOrder(h)
    PROVE  KeyInv' /\ FundsInv'
<1>1. /\ TypeOK /\ WorkType /\ OrdersType /\ HandlerKeys /\ LedgerType /\ CancelKeys
      /\ work[h].pc = "locked" /\ UNCHANGED <<accounts, ledger, records, owed, cancel>>
  BY DEF IntakeInv, TypeOK, KeyInv, InsertOrder
<1>2. PICK n : n = Len(orders) + 1
  OBVIOUS
<1>3. /\ DOMAIN orders' = DOMAIN orders \cup {n} /\ n \notin DOMAIN orders /\ n \in Id
      /\ orders'[n].status = "UNPLACED" /\ \A i \in DOMAIN orders : orders'[i] = orders[i]
  <2>1. n <= MaxOrders /\ Len(orders) \in Nat
    BY <1>1, <1>2, InsertType DEF OrdersType
  <2>2. n \in Id
    BY <1>2, <2>1, BoundsAssumption DEF Id
  <2>3. QED
    BY <1>1, <1>2, <2>2, InsertType
<1>4. /\ work'[h].pc = "matched" /\ work'[h].req = work[h].req
      /\ \A g \in Handler \ {h} : work'[g] = work[g]
  <2> DEFINE w == work[h]
  <2>1. work' = [work EXCEPT ![h] = [[w EXCEPT !.pc = "matched"] EXCEPT !.order = n]]
    BY <1>1, <1>2 DEF InsertOrder, WorkType
  <2>2. w \in [pc : {"idle", "found", "recorded", "locked", "matched", "placed", "compensating", "failing"},
               req : Request, order : 0 .. Len(orders)]
    BY <1>1 DEF WorkType
  <2> HIDE DEF w
  <2>3. work'[h] = [[w EXCEPT !.pc = "matched"] EXCEPT !.order = n] /\ w.req = work[h].req
    BY <1>1, <2>1 DEF WorkType, w
  <2>4. QED
    BY <1>1, <2>1, <2>2, <2>3 DEF WorkType
<1>5. LedgerType' /\ NoLockKeys /\ NoCancelKeys /\ LedgerGrows
  BY <1>1, NoPosting
<1>6. KeyInv'
  <2>1. CancelKeys'
    BY <1>1, <1>3, <1>5, CancelKeysStay
  <2>2. /\ \A g \in Handler : work'[g].pc = "recorded" => ~On(work'[g].req.user, LockKey(work'[g].req))
        /\ \A g \in Handler : work'[g].pc \in {"recorded", "locked", "matched", "compensating"} =>
              ~On(work'[g].req.user, UnlockKey(work'[g].req))
    BY <1>1, <1>4 DEF HandlerKeys
  <2>3. HandlerKeys'
    BY <1>1, <2>2 DEF HandlerKeys, On, LockKey, UnlockKey
  <2>4. QED
    BY <1>5, <2>1, <2>3 DEF KeyInv
<1>7. ASSUME NEW u \in User PROVE Spare(u) \in Int /\ Spare(u)' = Spare(u)
  <2>1. Owing(u)' = Owing(u)
    <3>1. owed[n] = 0
      BY <1>1, <1>3 DEF CancelKeys
    <3>2. Claimed(u, n) = 0
      BY <1>3 DEF Claimed
    <3>3. Claimed(u, n)' = 0
      BY <1>1, <1>3, <3>1 DEF Claimed, Live
    <3>4. \A i \in Id \ {n} : Claimed(u, i)' = Claimed(u, i)
      BY <1>1, <1>3 DEF Claimed
    <3>5. Owing(u)' = Owing(u) + (Claimed(u, n)' - Claimed(u, n)) /\ Owing(u) \in Nat
      BY <1>1, <1>3, <3>4, OwingChanges, SumsAreNat
    <3>6. QED
      BY <3>2, <3>3, <3>5
  <2>2. Held(u)' = Held(u)
    <3>1. Holding(u, h)' = Holding(u, h) /\ Holding(u, h) \in Nat
      BY <1>1, <1>4, Parts DEF Holding, PartsAreNat
    <3>2. Held(u)' = Held(u) + (Holding(u, h)' - Holding(u, h)) /\ Held(u) \in Nat
      BY <1>1, <1>4, HeldChanges, SumsAreNat
    <3>3. QED
      BY <3>1, <3>2
  <2>3. Given(u)' = Given(u)
    BY <1>1, <1>3, SumsStay
  <2>4. Spare(u)' = Spare(u)
    BY <1>1, <2>1, <2>2, <2>3 DEF Spare
  <2>5. QED
    BY <1>1, <2>4, SpareIs
<1>8. \A u \in User : /\ Spare(u) \in Int /\ Spare(u)' \in Int /\ Spare(u)' >= Spare(u)
                      /\ Failures' \subseteq {"rollback"} => Spare(u)' = Spare(u)
  BY <1>7
<1>9. FundsInv'
  BY <1>5, <1>8, FundsSame
<1>10. QED
  BY <1>6, <1>9

\* The order of a transaction takes over the funds that were locked for its request.
LEMMA PlaceKeeps ==
    ASSUME IntakeInv, KeyInv, FundsInv, TypeOK', Failures \subseteq Failures',
           NEW h \in Handler, PlaceOrder(h) \/ CommitUnanswered(h)
    PROVE  KeyInv' /\ FundsInv'
<1>1. /\ TypeOK /\ WorkType /\ OrdersType /\ HandlerKeys /\ LedgerType /\ CancelKeys
      /\ work[h].pc = "matched" /\ UNCHANGED <<accounts, ledger, records, cancel>>
      /\ Inserted(h)
  BY DEF IntakeInv, TypeOK, KeyInv, PlaceOrder, CommitUnanswered, OrderOfTransaction
<1>2. PICK r \in Request : r = work[h].req
  BY <1>1 DEF WorkType
<1>3. PICK n \in Id : n = work[h].order
  BY <1>1, PlaceType
<1>4. PICK o \in Row : o = orders[n]
  BY <1>1, <1>3, PlaceType
<1>5. /\ n \in DOMAIN orders /\ DOMAIN orders' = DOMAIN orders
      /\ orders'[n] = Executed(o, o.filled, o.remaining)
      /\ \A j \in DOMAIN orders : j # n => orders'[j] = orders[j]
      /\ owed'[n] = owed[n] + o.filled /\ \A j \in Id \ {n} : owed'[j] = owed[j]
  BY <1>1, <1>3, <1>4, PlaceType
<1>6. /\ o.user = r.user /\ o.filled + o.remaining = r.amount /\ o.status = "UNPLACED"
      /\ o.filled \in Nat /\ o.remaining \in Nat /\ r.amount \in Nat /\ owed[n] \in Nat
  <2>1. o.status = "UNPLACED" /\ ScopeOf(o) = ScopeOf(r) /\ o.filled + o.remaining = r.amount
    BY <1>1, <1>2, <1>3, <1>4 DEF Inserted
  <2>2. o.filled \in Nat /\ o.remaining \in Nat
    BY DEF Row
  <2>3. owed[n] \in Nat /\ r.amount \in Nat
    BY <1>1, ScopeOfRequest DEF OrdersType
  <2>4. QED
    BY <2>1, <2>2, <2>3 DEF ScopeOf
<1>7. /\ orders'[n].user = o.user /\ orders'[n].remaining = o.remaining
      /\ Live(orders'[n]) <=> o.remaining # 0
  <2>1. PICK filled \in Nat : filled = o.filled
    BY <1>6
  <2>2. PICK left \in Nat : left = o.remaining
    BY <1>6
  <2> DEFINE new == Executed(o, filled, left)
  <2>3. new.user = o.user /\ new.remaining = left /\ new.status = StatusOf(filled, left)
    BY ExecutedType
  <2>4. orders'[n] = new
    BY <1>5, <2>1, <2>2
  <2> HIDE DEF new
  <2>5. Live(new) <=> left # 0
    BY <2>3 DEF Live, StatusOf
  <2>6. QED
    BY <2>2, <2>3, <2>4, <2>5
<1>8. /\ work'[h].req = r /\ work'[h].pc \in {"placed", "compensating"}
      /\ \A g \in Handler \ {h} : work'[g] = work[g]
      /\ work'[h].pc = "placed" \/ CommitUnanswered(h)
  BY <1>1, <1>2, GotoMoves DEF PlaceOrder, CommitUnanswered
<1>9. LedgerType' /\ NoLockKeys /\ NoCancelKeys /\ LedgerGrows
  BY <1>1, NoPosting
<1>10. KeyInv'
  <2>1. CancelKeys'
    <3>1. \A i \in Id \ DOMAIN orders' : owed'[i] = owed[i]
      BY <1>5
    <3>2. QED
      BY <1>1, <1>5, <1>9, <3>1, CancelKeysStay
  <2>2. /\ \A g \in Handler : work'[g].pc = "recorded" => ~On(work'[g].req.user, LockKey(work'[g].req))
        /\ \A g \in Handler : work'[g].pc \in {"recorded", "locked", "matched", "compensating"} =>
              ~On(work'[g].req.user, UnlockKey(work'[g].req))
    BY <1>1, <1>2, <1>8 DEF HandlerKeys
  <2>3. HandlerKeys'
    BY <1>1, <2>2 DEF HandlerKeys, On, LockKey, UnlockKey
  <2>4. QED
    BY <1>9, <2>1, <2>3 DEF KeyInv
<1>11. CASE CommitUnanswered(h)
  <2>1. "commit" \in Failures'
    BY <1>1, <1>11, FaultAdds DEF CommitUnanswered, TypeOK
  <2>2. QED
    BY <1>10, <2>1 DEF FundsInv, Lossless
<1>12. CASE work'[h].pc = "placed"
  <2>1. ASSUME NEW u \in User PROVE Spare(u) \in Int /\ Spare(u)' = Spare(u)
    <3>1. Claimed(u, n)' - Claimed(u, n) = (IF u = r.user THEN r.amount ELSE 0)
      <4>1. CASE u = r.user
        <5>1. Claimed(u, n) = owed[n]
          BY <1>4, <1>5, <1>6, <4>1 DEF Claimed, Live
        <5>2. Claimed(u, n)' = (owed[n] + o.filled) + o.remaining
          BY <1>5, <1>6, <1>7, <4>1 DEF Claimed
        <5>3. QED
          BY <1>6, <4>1, <5>1, <5>2
      <4>2. CASE u # r.user
        BY <1>4, <1>6, <1>7, <4>2 DEF Claimed
      <4>3. QED
        BY <4>1, <4>2
    <3>2. Owing(u)' = Owing(u) + (Claimed(u, n)' - Claimed(u, n))
      <4>1. \A j \in Id \ {n} : Claimed(u, j)' = Claimed(u, j)
        BY <1>5 DEF Claimed
      <4>2. QED
        BY <1>1, <4>1, OwingChanges
    <3>3. Holding(u, h)' - Holding(u, h) = -(IF u = r.user THEN r.amount ELSE 0)
      BY <1>1, <1>2, <1>6, <1>12 DEF Holding
    <3>4. Held(u)' = Held(u) + (Holding(u, h)' - Holding(u, h))
      BY <1>1, <1>8, HeldChanges
    <3>5. Given(u)' = Given(u)
      <4>1. \A i \in DOMAIN orders : orders'[i].user = orders[i].user
        BY <1>4, <1>5, <1>7
      <4>2. QED
        BY <1>1, <4>1, SumsStay
    <3>6. /\ Owing(u) \in Nat /\ Held(u) \in Nat /\ Given(u) \in Nat
          /\ accounts[u].locked \in Int /\ accounts'[u].locked = accounts[u].locked /\ Spare(u) \in Int
      BY <1>1, SumsAreNat, SpareIs
    <3>7. /\ Spare(u) = accounts[u].locked - (Owing(u) + Held(u) + Given(u))
          /\ Spare(u)' = accounts'[u].locked - (Owing(u)' + Held(u)' + Given(u)')
      BY DEF Spare
    <3>8. PICK m \in Nat : m = (IF u = r.user THEN r.amount ELSE 0)
      BY <1>6
    <3>9. QED
      BY <3>1, <3>2, <3>3, <3>4, <3>5, <3>6, <3>7, <3>8
  <2>2. \A u \in User : /\ Spare(u) \in Int /\ Spare(u)' \in Int /\ Spare(u)' >= Spare(u)
                        /\ Failures' \subseteq {"rollback"} => Spare(u)' = Spare(u)
    BY <2>1
  <2>3. FundsInv'
    BY <1>9, <2>2, FundsSame
  <2>4. QED
    BY <1>10, <2>3
<1>13. QED
  BY <1>8, <1>11, <1>12

\* What a step that leaves the handlers alone does to the spare funds of a user.
LEMMA OtherSpare ==
    ASSUME TypeOK, TypeOK', NEW u \in User, UNCHANGED work
    PROVE  /\ Spare(u)' = Spare(u) + (accounts'[u].locked - accounts[u].locked)
                                   - (Owing(u)' - Owing(u)) - (Given(u)' - Given(u))
           /\ Spare(u) \in Int /\ Spare(u)' \in Int
           /\ Owing(u) \in Nat /\ Given(u) \in Nat /\ Owing(u)' \in Nat /\ Given(u)' \in Nat
           /\ accounts[u].locked \in Int /\ accounts'[u].locked \in Int
           /\ Spare(u) >= 0 => Given(u) <= accounts[u].locked
<1>1. Owing(u) \in Nat /\ Held(u) \in Nat /\ Given(u) \in Nat
  BY SumsAreNat
<1>2. Owing(u)' \in Nat /\ Held(u)' \in Nat /\ Given(u)' \in Nat
  BY SumsNext DEF SumsNat
<1>3. Held(u)' = Held(u)
  BY SumsStay
<1>4. accounts[u].locked \in Int /\ accounts'[u].locked \in Int
  BY DEF TypeOK, AccountsType
<1>5. Spare(u) = accounts[u].locked - (Owing(u) + Held(u) + Given(u))
  BY DEF Spare
<1>6. Spare(u)' = accounts'[u].locked - (Owing(u)' + Held(u)' + Given(u)')
  BY DEF Spare
<1>7. QED
  BY <1>1, <1>2, <1>3, <1>4, <1>5, <1>6

LEMMA OthersKeepHandlerKeys ==
    ASSUME IntakeInv, HandlerKeys, UNCHANGED <<work, records>>, NoLockKeys
    PROVE  HandlerKeys'
<1>1. WorkType /\ \A g \in Handler : Move(g)
  BY StayMoves DEF IntakeInv, TypeOK
<1>2. QED
  BY <1>1, MovesKeepKeys DEF NoneWasNone

\* A canceller that posts nothing and takes no order out of the book.
LEMMA BeginCancelKeeps ==
    ASSUME IntakeInv, KeyInv, FundsInv, TypeOK', Failures \subseteq Failures', NEW c \in Canceller,
           UNCHANGED <<accounts, ledger, records, orders, owed, work>>,
           \A u \in User : Exact(u)' => Giving(u, c) = 0,
           cancel'[c].pc # "cancelled", cancel'[c].pc # "done" => cancel[c].pc # "done",
           \A d \in Canceller \ {c} : cancel'[d] = cancel[d]
    PROVE  KeyInv' /\ FundsInv'
<1>1. TypeOK /\ LedgerType /\ HandlerKeys /\ CancelKeys
  BY DEF IntakeInv, KeyInv
<1>2. LedgerType' /\ NoLockKeys /\ NoCancelKeys /\ LedgerGrows
  BY <1>1, NoPosting
<1>3. KeyInv'
  BY <1>1, <1>2, OthersKeepHandlerKeys, CancelKeysStay DEF KeyInv
<1>4. ASSUME NEW u \in User
      PROVE  /\ Spare(u) \in Int /\ Spare(u)' \in Int /\ Spare(u)' >= Spare(u)
             /\ Exact(u)' => Spare(u)' = Spare(u)
  <2>1. Owing(u)' = Owing(u)
    BY <1>1, SumsStay
  <2>2. Given(u)' = Given(u) + (Giving(u, c)' - Giving(u, c))
    BY <1>1, GivenChanges
  <2>3. Giving(u, c)' = 0 /\ Giving(u, c) \in Nat /\ (Exact(u)' => Giving(u, c) = 0)
    <3>1. Giving(u, c) \in Nat
      BY <1>1, Parts DEF PartsAreNat
    <3>2. QED
      BY <3>1 DEF Giving
  <2>4. accounts'[u].locked = accounts[u].locked
    OBVIOUS
  <2>5. /\ Spare(u)' = Spare(u) + (accounts'[u].locked - accounts[u].locked)
                                - (Owing(u)' - Owing(u)) - (Given(u)' - Given(u))
        /\ Spare(u) \in Int /\ Spare(u)' \in Int
        /\ Owing(u) \in Nat /\ Given(u) \in Nat
        /\ accounts[u].locked \in Int
    BY <1>1, OtherSpare
  <2>6. QED
    BY <2>1, <2>2, <2>3, <2>4, <2>5
<1>5. QED
  BY <1>2, <1>3, <1>4, FundsKept

\* The row of a live order is cancelled: what remains of it is now its canceller's to unlock.
LEMMA CancelRowKeeps ==
    ASSUME IntakeInv, KeyInv, FundsInv, TypeOK', Failures \subseteq Failures', NEW c \in Canceller,
           CancelRow(c), Live(orders[cancel[c].order])
    PROVE  KeyInv' /\ FundsInv'
<1>1. /\ TypeOK /\ LedgerType /\ HandlerKeys /\ CancelKeys /\ cancel[c].pc = "found"
      /\ UNCHANGED <<accounts, ledger, records, owed, work>>
  BY DEF IntakeInv, KeyInv, CancelRow
<1>2. PICK i : i = cancel[c].order
  OBVIOUS
<1>3. i \in DOMAIN orders /\ i \in Id /\ orders[i] \in Row
  BY <1>1, <1>2, Refers DEF TypeOK, OrdersType
<1> DEFINE o == orders[i]
           p == [o EXCEPT !.status = "CANCELLED"]
           x == cancel[c]
           y == [x EXCEPT !.pc = "cancelled", !.amount = o.remaining]
<1>4. orders' = [orders EXCEPT ![i] = p] /\ cancel' = [cancel EXCEPT ![c] = y]
  BY <1>1, <1>2 DEF CancelRow, TypeOK, CancelType
<1>5. /\ p.user = o.user /\ p.remaining = o.remaining /\ p.status = "CANCELLED"
      /\ o.remaining \in Nat /\ ~Live(p)
  BY <1>3 DEF Row, Live
<1>6. y.pc = "cancelled" /\ y.amount = o.remaining /\ y.order = x.order
  <2>1. x \in [pc : {"idle", "found", "cancelled", "done"}, order : 0 .. Len(orders), amount : Nat]
    BY <1>1 DEF TypeOK, CancelType
  <2> HIDE DEF x, o
  <2>2. QED
    BY <2>1
<1> HIDE DEF p, y
<1>7. /\ orders'[i] = p /\ DOMAIN orders' = DOMAIN orders /\ \A j \in DOMAIN orders : j # i => orders'[j] = orders[j]
      /\ cancel'[c] = y /\ \A d \in Canceller \ {c} : cancel'[d] = cancel[d]
  BY <1>1, <1>3, <1>4 DEF TypeOK, CancelType
<1>8. \A j \in DOMAIN orders : orders'[j].user = orders[j].user
  BY <1>5, <1>7
<1>9. KeyInv' /\ LedgerGrows
  <2>1. LedgerType' /\ NoLockKeys /\ NoCancelKeys /\ LedgerGrows
    BY <1>1, NoPosting
  <2>2. \A d \in Canceller : cancel'[d].pc # "done" => cancel[d].pc # "done"
    BY <1>1, <1>7
  <2>3. CancelKeys'
    BY <1>1, <1>7, <2>1, <2>2, CancelKeysStay
  <2>4. QED
    BY <1>1, <2>1, <2>3, OthersKeepHandlerKeys DEF KeyInv
<1>10. ASSUME NEW u \in User
       PROVE  /\ Spare(u) \in Int /\ Spare(u)' \in Int /\ Spare(u)' >= Spare(u)
              /\ Failures' \subseteq {"rollback"} => Spare(u)' = Spare(u)
  <2>1. Owing(u)' = Owing(u) + (Claimed(u, i)' - Claimed(u, i))
    <3>1. \A j \in Id \ {i} : Claimed(u, j)' = Claimed(u, j)
      BY <1>1, <1>7 DEF Claimed
    <3>2. QED
      BY <1>1, <1>3, <3>1, OwingChanges
  <2>2. Given(u)' = Given(u) + (Giving(u, c)' - Giving(u, c))
    BY <1>1, <1>7, <1>8, GivenChanges
  <2>3. Giving(u, c) = 0 /\ Giving(u, c)' = (IF o.user = u THEN o.remaining ELSE 0)
    <3>1. Giving(u, c) = 0
      BY <1>1 DEF Giving
    <3>2. cancel'[c].pc = "cancelled" /\ cancel'[c].order = i /\ cancel'[c].amount = o.remaining
      BY <1>2, <1>6, <1>7
    <3>3. QED
      BY <1>5, <1>7, <3>1, <3>2 DEF Giving
  <2>4. owed[i] \in Nat /\ owed'[i] = owed[i]
    BY <1>1, <1>3 DEF TypeOK, OrdersType
  <2>5. /\ Claimed(u, i) = (IF o.user = u THEN owed[i] + o.remaining ELSE 0)
        /\ Claimed(u, i)' = (IF o.user = u THEN owed[i] ELSE 0)
    <3>1. Live(o)
      BY <1>2
    <3>2. owed[i] + 0 = owed[i]
      BY <2>4
    <3>3. QED
      BY <1>3, <1>5, <1>7, <2>4, <3>1, <3>2 DEF Claimed
  <2>6. accounts'[u].locked = accounts[u].locked
    BY <1>1
  <2>7. /\ Spare(u)' = Spare(u) + (accounts'[u].locked - accounts[u].locked)
                                - (Owing(u)' - Owing(u)) - (Given(u)' - Given(u))
        /\ Spare(u) \in Int /\ Spare(u)' \in Int
        /\ Owing(u) \in Nat /\ Given(u) \in Nat
        /\ accounts[u].locked \in Int
    BY <1>1, OtherSpare
  <2>8. o.remaining \in Nat
    BY <1>5
  <2> HIDE DEF o
  <2>9. Spare(u)' = Spare(u)
    <3>1. CASE o.user = u
      BY <2>1, <2>2, <2>3, <2>4, <2>5, <2>6, <2>7, <2>8, <3>1
    <3>2. CASE o.user # u
      BY <2>1, <2>2, <2>3, <2>4, <2>5, <2>6, <2>7, <2>8, <3>2
    <3>3. QED
      BY <3>1, <3>2
  <2>10. QED
    BY <2>7, <2>9
<1>11. QED
  BY <1>1, <1>9, <1>10, FundsSame

\* What remained of a cancelled order is unlocked under a key that was not used before.
LEMMA CancelPostKeeps ==
    ASSUME IntakeInv, KeyInv, FundsInv, TypeOK', Failures \subseteq Failures', NEW c \in Canceller,
           cancel[c].pc = "cancelled", cancel' = [cancel EXCEPT ![c].pc = "done"],
           UNCHANGED <<records, orders, owed, work>>, Accounts!Post(CancelCall(c))
    PROVE  KeyInv' /\ FundsInv'
<1>1. TypeOK /\ AccountsType /\ LedgerType /\ HandlerKeys /\ CancelKeys
  BY DEF IntakeInv, TypeOK, KeyInv
<1>2. PICK i, q : i = cancel[c].order /\ q = cancel[c].amount
  OBVIOUS
<1>3. i \in Id /\ i \in DOMAIN orders /\ q \in Nat /\ orders[i] \in Row
  BY <1>1, <1>2, Refers DEF TypeOK, OrdersType, CancelType
<1>4. PICK v \in User : v = orders[i].user
  BY <1>3 DEF Row
<1>5. PICK k \in PostingKey : k = CancelKey(c)
  BY <1>3, PostingKeys
<1>6. Accounts!Post(Call("UNLOCK", v, q, k))
  BY <1>2, <1>4, <1>5 DEF CancelCall, CancelKey
<1>7. /\ LedgerType' /\ \A u \in User : \A x : On(u, x)' <=> (On(u, x) \/ (u = v /\ x = k))
      /\ accounts'[v].locked = accounts[v].locked - q
      /\ \A u \in User \ {v} : accounts'[u] = accounts[u]
  <2>1. /\ LedgerType' /\ \A u \in User : \A x : On(u, x)' <=> (On(u, x) \/ (u = v /\ x = k))
        /\ accounts'[v].locked = accounts[v].locked + Adds("UNLOCK", q)
        /\ \A u \in User \ {v} : accounts'[u] = accounts[u]
    BY <1>1, <1>3, <1>6, PostMoves
  <2>2. accounts[v].locked \in Int
    BY <1>1 DEF AccountsType
  <2>3. QED
    BY <1>3, <2>1, <2>2 DEF Adds
<1>8. cancel'[c].pc = "done" /\ \A d \in Canceller \ {c} : cancel'[d] = cancel[d]
  BY <1>1, EndsType DEF TypeOK
<1>9. KeyInv'
  <2>1. NoLockKeys
    BY <1>5, <1>7, KeysDiffer, ScopeOfRequest DEF NoLockKeys
  <2>2. HandlerKeys'
    BY <2>1, OthersKeepHandlerKeys, <1>1
  <2>3. CancelKeys'
    BY <1>1, <1>5, <1>7, <1>8, UnlockKeepsKeys
  <2>4. QED
    BY <1>7, <2>2, <2>3 DEF KeyInv
<1>10. ASSUME NEW u \in User
       PROVE  /\ Spare(u) \in Int /\ Spare(u)' \in Int /\ Spare(u)' >= Spare(u)
              /\ Failures' \subseteq {"rollback"} => Spare(u)' = Spare(u)
  <2>1. Owing(u)' = Owing(u)
    BY <1>1, SumsStay
  <2>2. Given(u)' = Given(u) + (Giving(u, c)' - Giving(u, c))
    BY <1>1, <1>8, GivenChanges
  <2>3. Giving(u, c)' = 0
    BY <1>8 DEF Giving
  <2>4. Giving(u, c) = IF u = v THEN q ELSE 0
    BY <1>2, <1>4 DEF Giving
  <2>5. /\ Spare(u)' = Spare(u) + (accounts'[u].locked - accounts[u].locked)
                                - (Owing(u)' - Owing(u)) - (Given(u)' - Given(u))
        /\ Spare(u) \in Int /\ Spare(u)' \in Int
        /\ Owing(u) \in Nat /\ Given(u) \in Nat
        /\ accounts[u].locked \in Int
    BY <1>1, OtherSpare
  <2>6. Spare(u)' = Spare(u)
    <3>1. CASE u = v
      BY <1>3, <1>7, <2>1, <2>2, <2>3, <2>4, <2>5, <3>1
    <3>2. CASE u # v
      BY <1>7, <2>1, <2>2, <2>3, <2>4, <2>5, <3>2
    <3>3. QED
      BY <3>1, <3>2
  <2>7. QED
    BY <2>5, <2>6
<1>11. QED
  BY <1>7, <1>9, <1>10, FundsSame, PostGrows

\* As long as only transactions failed, the unlock of what remained cannot be refused to
\* a user whose keys are its own.
LEMMA CancelFits ==
    ASSUME TypeOK, FundsInv, CancelKeys, NEW c \in Canceller, cancel[c].pc = "cancelled",
           Exact(orders[cancel[c].order].user)
    PROVE  ~Refused(CancelCall(c))
<1>1. PICK i, q : i = cancel[c].order /\ q = cancel[c].amount
  OBVIOUS
<1>2. i \in DOMAIN orders /\ q \in Nat /\ orders[i] \in Row
  BY <1>1, Refers DEF TypeOK, OrdersType, CancelType
<1>3. PICK v \in User : v = orders[i].user
  BY <1>2 DEF Row
<1>4. accounts[v].avail \in Nat /\ accounts[v].locked \in Int
  BY <1>3 DEF TypeOK, AccountsType
<1>5. q <= accounts[v].locked
  <2>1. Spare(v) >= 0
    BY <1>1, <1>3 DEF FundsInv, Exact, Lossless
  <2>2. Spare(v) = accounts[v].locked - (Owing(v) + Held(v) + Given(v))
    BY DEF Spare
  <2>3. Owing(v) \in Nat /\ Held(v) \in Nat /\ Given(v) \in Nat
    BY SumsAreNat
  <2>4. Giving(v, c) = q
    BY <1>1, <1>3 DEF Giving
  <2>5. Giving(v, c) <= Given(v)
    <3> DEFINE f == [d \in Canceller |-> Giving(v, d)]
    <3>1. \A d \in Canceller : f[d] \in Nat
      BY Parts DEF PartsAreNat
    <3>2. f[c] <= SumFunctionOnSet(f, Canceller)
      <4> HIDE DEF f
      <4>1. QED
        BY <3>1, Finite, OneOf
    <3>3. QED
      BY <3>2 DEF Given
  <2>6. QED
    BY <1>2, <1>4, <2>1, <2>2, <2>3, <2>4, <2>5
<1> DEFINE x == CancelCall(c)
           entry == Accounts!EntryFor(x, accounts[x.acct])
<1>6. x.acct = v /\ x.op = "UNLOCK" /\ x.amount = q /\ x.key = CancelKey(c)
  BY <1>1, <1>3 DEF CancelCall, Call, CancelKey
<1>7. entry.avail = accounts[v].avail + q /\ entry.locked = accounts[v].locked + (-q)
  BY <1>6 DEF Accounts!EntryFor
<1>8. ~(entry.avail < 0 \/ entry.locked < 0)
  BY <1>2, <1>4, <1>5, <1>7
<1>9. ~Accounts!IsPosted(x.key)
  BY <1>6, PostedIs DEF CancelKeys
<1> HIDE DEF entry, x
<1>10. QED
  BY <1>8, <1>9 DEF Refused, entry, x

\* A canceller ends.
LEMMA EndCancelKeeps ==
    ASSUME IntakeInv, KeyInv, FundsInv, TypeOK', Failures \subseteq Failures', NEW c \in Canceller,
           UnlockCancelled(c) \/ CancelFails(c)
    PROVE  KeyInv' /\ FundsInv'
<1>1. /\ TypeOK /\ LedgerType /\ CancelKeys /\ UNCHANGED <<records, orders, owed, work>>
      /\ cancel' = [cancel EXCEPT ![c].pc = "done"] /\ cancel[c].pc \in {"found", "cancelled"}
  BY DEF IntakeInv, KeyInv, UnlockCancelled, CancelFails
<1>2. cancel'[c].pc = "done" /\ \A d \in Canceller \ {c} : cancel'[d] = cancel[d]
  BY <1>1, EndsType DEF TypeOK
<1>3. CASE cancel[c].pc = "cancelled" /\ Accounts!Post(CancelCall(c))
  BY <1>1, <1>3, CancelPostKeeps
<1>4. CASE UNCHANGED <<accounts, ledger>> /\ \A u \in User : Exact(u)' => Giving(u, c) = 0
  BY <1>1, <1>2, <1>4, BeginCancelKeeps
<1>5. CASE UnlockCancelled(c)
  <2>1. cancel[c].pc = "cancelled" /\ Failures' = Failures
    BY <1>5 DEF UnlockCancelled, Failures
  <2>2. cancel[c].amount \in Nat
    BY <1>1 DEF TypeOK, CancelType
  <2>3. CASE cancel[c].amount > 0 /\ Accepted(CancelCall(c))
    <3>1. ~OnLedger(CancelKey(c))
      BY <1>1, <2>1 DEF CancelKeys
    <3>2. ~Repeats(CancelCall(c))
      BY <3>1 DEF Repeats, OnLedger, On, CancelCall, Call, CancelKey
    <3>3. Accounts!Post(CancelCall(c))
      BY <2>3, <3>2 DEF Accepted
    <3>4. QED
      BY <1>3, <2>1, <3>3
  <2>4. CASE cancel[c].amount > 0 /\ Refused(CancelCall(c))
    <3>1. UNCHANGED <<accounts, ledger>> /\ LedgerGrows
      BY <2>4, NoPosting DEF Refused
    <3>2. ASSUME NEW u \in User, Exact(u)' PROVE Giving(u, c) = 0
      <4>1. Exact(u)
        BY <3>1, <3>2, OwnStays
      <4>2. orders[cancel[c].order].user # u
        BY <1>1, <2>1, <2>4, <4>1, CancelFits
      <4>3. QED
        BY <4>2 DEF Giving
    <3>3. QED
      BY <1>4, <3>1, <3>2
  <2>5. CASE ~(cancel[c].amount > 0)
    <3>1. UNCHANGED <<accounts, ledger>>
      BY <1>5, <2>5 DEF UnlockCancelled
    <3>2. cancel[c].amount = 0
      BY <2>2, <2>5
    <3>3. \A u \in User : Giving(u, c) = 0
      BY <3>2 DEF Giving
    <3>4. QED
      BY <1>4, <3>1, <3>3
  <2>6. QED
    BY <1>5, <2>3, <2>4, <2>5 DEF UnlockCancelled
<1>6. CASE CancelFails(c)
  <2>1. "cancel" \in Failures'
    BY <1>1, <1>6, FaultAdds DEF CancelFails, TypeOK
  <2>2. \A u \in User : ~Exact(u)'
    BY <2>1 DEF Exact
  <2>3. QED
    BY <1>3, <1>4, <1>6, <2>2 DEF CancelFails
<1>7. QED
  BY <1>5, <1>6

\* An order trades: what it may still trade becomes what it owes. Or what it owes is settled:
\* that is taken from the locked funds.
LEMMA OrderStepKeeps ==
    ASSUME IntakeInv, KeyInv, FundsInv, TypeOK', Failures \subseteq Failures', NEW i \in Id,
           Trade(i) \/ Settle(i)
    PROVE  KeyInv' /\ FundsInv'
<1>1. /\ TypeOK /\ LedgerType /\ HandlerKeys /\ CancelKeys /\ OrdersType /\ UNCHANGED <<ledger, records, work, cancel>>
  BY DEF IntakeInv, TypeOK, KeyInv, Trade, Settle
<1>2. i \in DOMAIN orders /\ orders[i] \in Row /\ owed[i] \in Nat
  BY <1>1, BoundsAssumption DEF Trade, Settle, CancelKeys, OrdersType
<1>3. PICK v \in User : v = orders[i].user
  BY <1>2 DEF Row
<1>4. /\ DOMAIN orders' = DOMAIN orders
      /\ \A j \in Id \ {i} : owed'[j] = owed[j] /\ (j \in DOMAIN orders => orders'[j] = orders[j])
      /\ \A j \in DOMAIN orders : j # i => orders'[j] = orders[j]
      /\ orders'[i].user = v
      /\ \A u \in User \ {v} : accounts'[u] = accounts[u]
      /\ \A u \in User : (u = v) => accounts'[u].locked - accounts[u].locked = Claimed(u, i)' - Claimed(u, i)
  <2>1. CASE Trade(i)
    <3>1. PICK q \in 1 .. orders[i].remaining :
            /\ orders' = [orders EXCEPT ![i] = Executed(orders[i], orders[i].filled + q, orders[i].remaining - q)]
            /\ owed' = [owed EXCEPT ![i] = owed[i] + q]
      BY <1>1, <2>1 DEF Trade, Quantities, OrdersType
    <3>2. Live(orders[i]) /\ UNCHANGED accounts
      BY <2>1 DEF Trade
    <3>3. PICK rem \in Nat : rem = orders[i].remaining
      BY <1>2 DEF Row
    <3>4. q \in 0 .. rem /\ q \in Nat /\ rem - q \in Nat
      BY <3>3
    <3> DEFINE new == Executed(orders[i], orders[i].filled + q, orders[i].remaining - q)
    <3>5. new.user = v /\ new.remaining = rem - q /\ (~Live(new) => rem - q = 0)
      <4>1. orders[i].filled \in Nat
        BY <1>2 DEF Row
      <4>2. orders[i].filled + q \in Nat
        BY <3>4, <4>1
      <4>3. PICK filled \in Nat : filled = orders[i].filled + q
        BY <4>2
      <4>4. PICK left \in Nat : left = rem - q
        BY <3>4
      <4>5. new = Executed(orders[i], filled, left)
        BY <3>3, <4>3, <4>4
      <4>6. new.user = v /\ new.remaining = left /\ new.status = StatusOf(filled, left)
        <5>1. Executed(orders[i], filled, left).user = orders[i].user
              /\ Executed(orders[i], filled, left).remaining = left
              /\ Executed(orders[i], filled, left).status = StatusOf(filled, left)
          BY <1>2, ExecutedType
        <5>2. QED
          BY <1>3, <4>5, <5>1
      <4>7. ~Live(new) => left = 0
        BY <4>6 DEF StatusOf, Live
      <4>8. QED
        BY <4>4, <4>6, <4>7
    <3>6. orders'[i] = new /\ owed'[i] = owed[i] + q
      BY <1>1, <1>2, <3>1 DEF OrdersType
    <3> HIDE DEF new
    <3>7. /\ DOMAIN orders' = DOMAIN orders
          /\ \A j \in DOMAIN orders : j # i => orders'[j] = orders[j]
          /\ \A j \in Id \ {i} : owed'[j] = owed[j]
      BY <1>1, <3>1 DEF OrdersType
    <3>8. Claimed(v, i) = owed[i] + rem
      BY <1>2, <1>3, <3>2, <3>3 DEF Claimed
    <3>9. Claimed(v, i)' = owed[i] + rem
      <4>1. Claimed(v, i)' = (owed[i] + q) + (IF Live(new) THEN rem - q ELSE 0)
        BY <1>2, <3>5, <3>6, <3>7 DEF Claimed
      <4>2. QED
        BY <1>2, <3>4, <3>5, <4>1
    <3>10. accounts'[v].locked - accounts[v].locked = Claimed(v, i)' - Claimed(v, i)
      <4>1. accounts'[v].locked = accounts[v].locked /\ accounts[v].locked \in Int
        BY <1>1, <3>2 DEF TypeOK, AccountsType
      <4>2. QED
        BY <1>2, <3>3, <3>8, <3>9, <4>1
    <3>11. QED
      BY <1>2, <3>2, <3>5, <3>6, <3>7, <3>10
  <2>2. CASE Settle(i)
    <3>1. /\ accounts' = [accounts EXCEPT ![v] = [accounts[v] EXCEPT !.locked = accounts[v].locked - owed[i]]]
          /\ owed' = [owed EXCEPT ![i] = 0] /\ UNCHANGED orders
      BY <1>3, <2>2 DEF Settle
    <3>2. accounts[v] \in [exists : {TRUE}, avail : Nat, locked : Int] /\ v \in DOMAIN accounts
      BY <1>1 DEF TypeOK, AccountsType
    <3>3. accounts'[v].locked = accounts[v].locked - owed[i] /\ \A u \in User \ {v} : accounts'[u] = accounts[u]
      BY <1>1, <3>1, <3>2 DEF TypeOK, AccountsType
    <3>4. owed'[i] = 0 /\ \A j \in Id \ {i} : owed'[j] = owed[j]
      BY <1>1, <3>1 DEF OrdersType
    <3>5. PICK rem : rem = (IF Live(orders[i]) THEN orders[i].remaining ELSE 0)
      OBVIOUS
    <3>6. rem \in Nat
      BY <1>2, <3>5 DEF Row
    <3>7. Claimed(v, i) = owed[i] + rem /\ Claimed(v, i)' = 0 + rem
      BY <1>2, <1>3, <3>1, <3>4, <3>5 DEF Claimed
    <3>8. accounts'[v].locked - accounts[v].locked = Claimed(v, i)' - Claimed(v, i)
      BY <1>2, <3>2, <3>3, <3>6, <3>7
    <3>9. QED
      BY <1>3, <3>1, <3>3, <3>4, <3>8
  <2>3. QED
    BY <2>1, <2>2
<1>5. KeyInv' /\ LedgerGrows
  <2>1. LedgerType' /\ NoLockKeys /\ NoCancelKeys /\ LedgerGrows
    BY <1>1, NoPosting
  <2>2. HandlerKeys'
    BY <1>1, <2>1, OthersKeepHandlerKeys
  <2>3. \A j \in Id \ DOMAIN orders : owed'[j] = owed[j]
    BY <1>2, <1>4
  <2>4. CancelKeys'
    BY <1>1, <1>4, <2>1, <2>3, CancelKeysStay
  <2>5. QED
    BY <2>1, <2>2, <2>4 DEF KeyInv
<1>6. ASSUME NEW u \in User
      PROVE  /\ Spare(u) \in Int /\ Spare(u)' \in Int /\ Spare(u)' >= Spare(u)
             /\ Failures' \subseteq {"rollback"} => Spare(u)' = Spare(u)
  <2>1. Owing(u)' = Owing(u) + (Claimed(u, i)' - Claimed(u, i))
    <3>1. \A j \in Id \ {i} : Claimed(u, j)' = Claimed(u, j)
      BY <1>4 DEF Claimed
    <3>2. QED
      BY <1>1, <3>1, OwingChanges
  <2>2. Given(u)' = Given(u)
    BY <1>1, <1>3, <1>4, SumsStay
  <2>3. accounts'[u].locked - accounts[u].locked = Claimed(u, i)' - Claimed(u, i)
    <3>1. CASE u = v
      BY <1>4, <3>1
    <3>2. CASE u # v
      <4>1. Claimed(u, i) = 0 /\ Claimed(u, i)' = 0
        BY <1>3, <1>4, <3>2 DEF Claimed
      <4>2. accounts'[u] = accounts[u] /\ accounts[u].locked \in Int
        BY <1>1, <1>4, <3>2 DEF TypeOK, AccountsType
      <4>3. QED
        BY <4>1, <4>2
    <3>3. QED
      BY <3>1, <3>2
  <2>4. /\ Spare(u)' = Spare(u) + (accounts'[u].locked - accounts[u].locked)
                                - (Owing(u)' - Owing(u)) - (Given(u)' - Given(u))
        /\ Spare(u) \in Int /\ Spare(u)' \in Int
        /\ Owing(u) \in Nat /\ Given(u) \in Nat /\ Owing(u)' \in Nat
        /\ accounts[u].locked \in Int /\ accounts'[u].locked \in Int
    BY <1>1, OtherSpare
  <2>5. PICK more : more = Claimed(u, i)' - Claimed(u, i)
    OBVIOUS
  <2>6. more \in Int
    BY <2>3, <2>4, <2>5
  <2>7. Spare(u)' = Spare(u)
    BY <2>1, <2>2, <2>3, <2>4, <2>5, <2>6
  <2>8. QED
    BY <2>4, <2>7
<1>7. QED
  BY <1>1, <1>5, <1>6, FundsSame

\* A stale trade may trade what is not locked any more.
LEMMA TradeStaleKeeps ==
    ASSUME IntakeInv, KeyInv, TypeOK', NEW i \in Id, TradeStale(i)
    PROVE  KeyInv' /\ FundsInv'
<1>1. /\ OrdersType /\ LedgerType /\ HandlerKeys /\ CancelKeys /\ FailuresType
      /\ UNCHANGED <<ledger, records, work, cancel>> /\ Fault("stale")
  BY DEF IntakeInv, TypeOK, KeyInv, TradeStale
<1>2. LedgerType' /\ NoLockKeys /\ NoCancelKeys
  BY <1>1, NoPosting
<1>3. HandlerKeys'
  BY <1>1, <1>2, OthersKeepHandlerKeys
<1>4. /\ i \in DOMAIN orders /\ DOMAIN orders' = DOMAIN orders
      /\ \A j \in Id \ DOMAIN orders' : owed'[j] = owed[j]
  BY <1>1, TradeType
<1>5. CancelKeys'
  BY <1>1, <1>2, <1>4, CancelKeysStay
<1>6. "stale" \in Failures'
  BY <1>1, FaultAdds
<1>7. QED
  BY <1>2, <1>3, <1>5, <1>6 DEF KeyInv, FundsInv, Lossless

\* Steps that leave the balances, the orders and who works on them alone.
LEMMA StillKeeps ==
    ASSUME IntakeInv, KeyInv, FundsInv, TypeOK', Failures \subseteq Failures', NoneWasNone,
           UNCHANGED <<accounts, ledger, orders, owed, work, cancel>>
    PROVE  KeyInv' /\ FundsInv'
<1>1. TypeOK /\ WorkType /\ LedgerType /\ HandlerKeys /\ CancelKeys
  BY DEF IntakeInv, TypeOK, KeyInv
<1>2. LedgerType' /\ NoLockKeys /\ NoCancelKeys /\ LedgerGrows
  BY <1>1, NoPosting
<1>3. HandlerKeys'
  BY <1>1, <1>2, StayMoves, MovesKeepKeys
<1>4. CancelKeys'
  BY <1>1, <1>2, CancelKeysStay
<1>5. ASSUME NEW u \in User
      PROVE  /\ Spare(u) \in Int /\ Spare(u)' \in Int /\ Spare(u)' >= Spare(u)
             /\ Failures' \subseteq {"rollback"} => Spare(u)' = Spare(u)
  <2>1. Owing(u)' = Owing(u) /\ Held(u)' = Held(u) /\ Given(u)' = Given(u)
    BY <1>1, SumsStay
  <2>2. Spare(u)' = Spare(u)
    BY <2>1 DEF Spare
  <2>3. QED
    BY <1>1, <2>2, SpareIs
<1>6. QED
  BY <1>1, <1>2, <1>3, <1>4, <1>5, FundsSame DEF KeyInv

LEMMA InitFunds == Init => KeyInv /\ FundsInv
<1> SUFFICES ASSUME Init PROVE KeyInv /\ FundsInv
  OBVIOUS
<1>1. TypeOK /\ orders = << >> /\ DOMAIN orders = {} /\ ledger = [u \in User |-> << >>]
  BY InitType DEF Init
<1>2. LedgerType /\ (\A k : ~OnLedger(k)) /\ \A u \in User : \A k : ~On(u, k)
  BY <1>1 DEF LedgerType, OnLedger, On
<1>3. /\ \A h \in Handler : work[h].pc = "idle"
      /\ \A c \in Canceller : cancel[c].pc = "idle"
      /\ \A i \in Id : owed[i] = 0
      /\ \A u \in User : accounts[u].locked = 0
  BY DEF Init, Idle, NoCancel
<1>4. KeyInv
  BY <1>1, <1>2, <1>3, ScopeOfRequest DEF KeyInv, HandlerKeys, CancelKeys
<1>5. ASSUME NEW u \in User PROVE Spare(u) = 0
  <2>1. Owing(u) = 0
    <3> DEFINE f == [i \in Id |-> Claimed(u, i)]
    <3>1. \A i \in Id : f[i] = 0
      BY <1>1 DEF Claimed
    <3>2. SumFunctionOnSet(f, Id) = 0
      <4> HIDE DEF f
      <4>1. QED
        BY <3>1, Finite, SumZero
    <3>3. QED
      BY <3>2 DEF Owing
  <2>2. Held(u) = 0
    <3> DEFINE f == [h \in Handler |-> Holding(u, h)]
    <3>1. \A h \in Handler : f[h] = 0
      BY <1>3 DEF Holding
    <3>2. SumFunctionOnSet(f, Handler) = 0
      <4> HIDE DEF f
      <4>1. QED
        BY <3>1, Finite, SumZero
    <3>3. QED
      BY <3>2 DEF Held
  <2>3. Given(u) = 0
    <3> DEFINE f == [c \in Canceller |-> Giving(u, c)]
    <3>1. \A c \in Canceller : f[c] = 0
      BY <1>3 DEF Giving
    <3>2. SumFunctionOnSet(f, Canceller) = 0
      <4> HIDE DEF f
      <4>1. QED
        BY <3>1, Finite, SumZero
    <3>3. QED
      BY <3>2 DEF Given
  <2>4. QED
    BY <1>3, <2>1, <2>2, <2>3 DEF Spare
<1>6. FundsInv
  BY <1>5 DEF FundsInv
<1>7. QED
  BY <1>4, <1>6

LEMMA NextKeepsFunds == IntakeInv /\ KeyInv /\ FundsInv /\ [Next]_vars => KeyInv' /\ FundsInv'
<1> SUFFICES ASSUME IntakeInv, KeyInv, FundsInv, [Next]_vars PROVE KeyInv' /\ FundsInv'
  OBVIOUS
<1>0. TypeOK /\ TypeOK' /\ Failures \subseteq Failures'
  BY NextType, NextFailures DEF IntakeInv, TypeOK
<1>1. ASSUME NEW h \in Handler,
             \/ \E r \in Request : Begin(h, r)
             \/ CreateRecord(h) \/ PlaceOrderFails(h) \/ FailRecord(h) \/ CompleteRecord(h) \/ Abandon(h)
      PROVE  KeyInv' /\ FundsInv'
  BY <1>0, <1>1, PlainHandlerKeeps
<1>2. ASSUME NEW h \in Handler, Lock(h) \/ LockFails(h) PROVE KeyInv' /\ FundsInv'
  BY <1>0, <1>2, LockKeeps
<1>3. ASSUME NEW h \in Handler, InsertOrder(h) \/ PlaceOrder(h) \/ CommitUnanswered(h)
      PROVE  KeyInv' /\ FundsInv'
  BY <1>0, <1>3, InsertKeeps, PlaceKeeps
<1>4. ASSUME NEW h \in Handler, Compensate(h) \/ CompensateFails(h) PROVE KeyInv' /\ FundsInv'
  BY <1>0, <1>4, CompensateKeeps
<1>5. ASSUME NEW x \in Scope, Expire(x) PROVE KeyInv' /\ FundsInv'
  <2>1. \A y \in Scope : records'[y].status = records[y].status
    BY <1>0, <1>5 DEF Expire, TypeOK, RecordsType
  <2>2. NoneWasNone
    BY <2>1, ScopeOfRequest DEF NoneWasNone
  <2>3. QED
    BY <1>0, <1>5, <2>2, StillKeeps DEF Expire
<1>6. ASSUME NEW c \in Canceller, NEW i \in Id, BeginCancel(c, i) PROVE KeyInv' /\ FundsInv'
  <2>1. /\ cancel[c].pc = "idle" /\ cancel'[c].pc = "found"
        /\ \A d \in Canceller \ {c} : cancel'[d] = cancel[d]
    BY <1>0, <1>6 DEF BeginCancel, TypeOK, CancelType
  <2>2. \A u \in User : Giving(u, c) = 0
    BY <2>1 DEF Giving
  <2>3. QED
    BY <1>0, <1>6, <2>1, <2>2, BeginCancelKeeps DEF BeginCancel
<1>7. ASSUME NEW c \in Canceller, CancelRow(c) PROVE KeyInv' /\ FundsInv'
  <2>1. CASE Live(orders[cancel[c].order])
    BY <1>0, <1>7, <2>1, CancelRowKeeps
  <2>2. CASE ~Live(orders[cancel[c].order])
    <3>1. UNCHANGED <<accounts, ledger, records, orders, owed, work>>
      BY <1>7, <2>2 DEF CancelRow
    <3>2. /\ cancel[c].pc = "found" /\ cancel'[c].pc = "done"
          /\ \A d \in Canceller \ {c} : cancel'[d] = cancel[d]
      BY <1>0, <1>7, <2>2, <3>1, EndsType DEF CancelRow, TypeOK
    <3>3. \A u \in User : Giving(u, c) = 0
      BY <3>2 DEF Giving
    <3>4. QED
      BY <1>0, <3>1, <3>2, <3>3, BeginCancelKeeps
  <2>3. QED
    BY <2>1, <2>2
<1>8. ASSUME NEW c \in Canceller, UnlockCancelled(c) \/ CancelFails(c) PROVE KeyInv' /\ FundsInv'
  BY <1>0, <1>8, EndCancelKeeps
<1>9. ASSUME NEW i \in Id, Trade(i) \/ Settle(i) PROVE KeyInv' /\ FundsInv'
  BY <1>0, <1>9, OrderStepKeeps
<1>10. ASSUME NEW i \in Id, TradeStale(i) PROVE KeyInv' /\ FundsInv'
  BY <1>0, <1>10, TradeStaleKeeps
<1>11. CASE UNCHANGED vars
  <2>1. NoneWasNone
    BY <1>11 DEF vars, NoneWasNone
  <2>2. QED
    BY <1>0, <1>11, <2>1, StillKeeps DEF vars
<1>12. QED
  BY <1>1, <1>2, <1>3, <1>4, <1>5, <1>6, <1>7, <1>8, <1>9, <1>10, <1>11 DEF Next

\* The sums of the invariant are the ones of the properties.
LEMMA SumsMean ==
    ASSUME NEW u
    PROVE  OnOrders(u) = Owing(u) /\ InFlight(u) = Held(u) + Given(u)
BY DEF OnOrders, InFlight, Owing, Held, Given, SumFunction

-----------------------------------------------------------------------------
(***************************************************************************)
(* The theorems.                                                           *)
(***************************************************************************)

\* Whatever requests are repeated, whatever fails and whoever stops, the stores of
\* createOrder and cancelOrder have the values they can have: no available balance is
\* negative, and every record, handler and canceller refers to an order there is.
THEOREM OrderIntakeTypeOK == Spec => []TypeOK
<1>1. Init => TypeOK
  BY InitType
<1>2. TypeOK /\ [Next]_vars => TypeOK'
  BY NextType
<1>3. QED
  BY <1>1, <1>2, PTL DEF Spec

\* One handler at a time works on a key, and its record, its step and the table of
\* orders agree.
THEOREM OrderIntakeInvariant == Spec => []IntakeInv
<1>1. Init => IntakeInv
  BY InitInv
<1>2. IntakeInv /\ [Next]_vars => IntakeInv'
  BY NextKeepsInv
<1>3. QED
  BY <1>1, <1>2, PTL DEF Spec

\* The repetitions of a request, by any number of handlers and after any failures, make
\* at most one order: createOrder is idempotent in its key.
THEOREM OrderIntakeOneOrderPerKey == Spec => []OneOrderPerKey
<1>1. IntakeInv => OneOrderPerKey
  BY DEF IntakeInv
<1>2. QED
  BY <1>1, OrderIntakeInvariant, PTL

\* A completed record names the only order of its key, and a failed one has none unless
\* the COMMIT of createOrder's transaction went unanswered.
THEOREM OrderIntakeRecordTellsOrder == Spec => []RecordTellsOrder
<1>1. IntakeInv => RecordTellsOrder
  BY DEF IntakeInv
<1>2. QED
  BY <1>1, OrderIntakeInvariant, PTL

\* No call that is still to be made was posted for its user under its key, and the locked
\* funds of a user who shares no key miss nothing of what the orders and requests of the user
\* may take from them, until a COMMIT goes unanswered or a trade is stale.
THEOREM OrderIntakeFunds == Spec => [](KeyInv /\ FundsInv)
<1>1. Init => IntakeInv /\ KeyInv /\ FundsInv
  BY InitInv, InitFunds
<1>2. IntakeInv /\ KeyInv /\ FundsInv /\ [Next]_vars => (IntakeInv /\ KeyInv /\ FundsInv)'
  BY NextKeepsInv, NextKeepsFunds
<1>3. QED
  BY <1>1, <1>2, PTL DEF Spec

\* Whatever is repeated and wherever a handler stops, what the orders of a user may trade
\* and have traded is locked, as long as no COMMIT of createOrder goes unanswered, no trade
\* is one of an order as it was before, and nobody else locks funds under the user's keys.
THEOREM OrderIntakeOrdersAreBacked == Spec => []OrdersAreBacked
<1>1. IntakeInv /\ FundsInv => OrdersAreBacked
  <2> SUFFICES ASSUME TypeOK, FundsInv, Lossless, NEW u \in User, LocksOwn(u)
               PROVE  OnOrders(u) <= accounts[u].locked
    BY DEF IntakeInv, OrdersAreBacked, Lossless
  <2>1. Owing(u) \in Nat /\ Held(u) \in Nat /\ Given(u) \in Nat
    BY SumsAreNat
  <2>2. accounts[u].locked \in Int
    BY DEF TypeOK, AccountsType
  <2>3. accounts[u].locked - (Owing(u) + Held(u) + Given(u)) >= 0
    BY DEF FundsInv, Spare
  <2>4. Owing(u) <= accounts[u].locked
    BY <2>1, <2>2, <2>3
  <2>5. QED
    BY <2>4, SumsMean
<1>2. QED
  BY <1>1, OrderIntakeInvariant, OrderIntakeFunds, PTL

\* If nothing fails but transactions of createOrder, and no trade is stale, the funds that
\* are locked of a user who shares no key are exactly those of orders and of requests and
\* cancellations that are worked on: each is unlocked once, by the compensation, the
\* cancellation or the settlement.
THEOREM OrderIntakeFundsMatchOrders == Spec => []FundsMatchOrders
<1>1. IntakeInv /\ FundsInv => FundsMatchOrders
  <2> SUFFICES ASSUME TypeOK, FundsInv, Failures \subseteq {"rollback"}, NEW u \in User,
                      LocksOwn(u), UnlocksOwn(u)
               PROVE  accounts[u].locked = OnOrders(u) + InFlight(u)
    BY DEF IntakeInv, FundsMatchOrders
  <2>1. Owing(u) \in Nat /\ Held(u) \in Nat /\ Given(u) \in Nat
    BY SumsAreNat
  <2>2. accounts[u].locked \in Int
    BY DEF TypeOK, AccountsType
  <2>3. accounts[u].locked - (Owing(u) + Held(u) + Given(u)) = 0
    BY DEF FundsInv, Lossless, Exact, Spare
  <2>4. accounts[u].locked = Owing(u) + (Held(u) + Given(u))
    BY <2>1, <2>2, <2>3
  <2>5. QED
    BY <2>4, SumsMean
<1>2. QED
  BY <1>1, OrderIntakeInvariant, OrderIntakeFunds, PTL
=============================================================================
