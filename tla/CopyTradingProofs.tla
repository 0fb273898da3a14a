-------------------------- MODULE CopyTradingProofs --------------------------
(***************************************************************************)
(* Proofs about CopyTrading: whatever instances copy whatever trades at    *)
(* the same time, stop and go on, a trade that is marked as processed was  *)
(* copied to every subscription, and the history tells the orders there    *)
(* are.                                                                    *)
(***************************************************************************)
EXTENDS CopyTrading, SumTheorems

-----------------------------------------------------------------------------
(***************************************************************************)
(* The invariant.                                                          *)
(***************************************************************************)

Step == {"idle", "side", "next", "locked", "placing", "SKIPPED", "COMPLETED", "FAILED", "releasing"}
AtSub == {"locked", "placing", "SKIPPED", "COMPLETED", "FAILED", "releasing"}
SideRow == [master : Master, side : {"BUY", "SELL"}]
Row(quantity) ==
    [pc : Step, trade : Trade \cup {None}, sides : Seq(SideRow), todo : SUBSET (Sub \X Nat), balance : Nat,
     sub : Sub \cup {None}, allocated : Nat, quantity : quantity]
HandlingRow == [pc : {"free", "found", "guarded", "counting", "cancelling", "uncounting"},
                sub : Sub \cup {None}, exists : BOOLEAN, amount : Nat]
SubRow == [status : {None, "ACTIVE", "TERMINATED"}, allocated : Nat]

\* h has an entry h[a][b] for each a and b, whatever it is.
IsFunction(g, B) == DOMAIN g = B /\ g = [b \in B |-> g[b]]
IsTable(h, A, B) == IsFunction(h, A) /\ \A a \in A : IsFunction(h[a], B)

\* What the variables are, but for the quantities and the counters.
Shape ==
    /\ masters \subseteq Master /\ known \in [Instance -> SUBSET Master]
    /\ subs \in [Sub -> SubRow] /\ handling \in [Handler -> HandlingRow]
    /\ IsTable(history, Sub, Trade) /\ IsTable(orders, Follower, Trade)
    /\ locks \in [Follower -> Instance \cup {None}]
    /\ processed \subseteq Trade /\ owed \subseteq Sub \X Trade
    /\ work \in [Instance -> Row({work[i].quantity : i \in Instance})]

Parties(t) == {TermsOf[t].buyer, TermsOf[t].seller}

\* What an instance has in hand: a trade, the sides left, subscribers of this side's
\* master, and one of them.
Hand(i) ==
    LET w == work[i]
    IN  /\ w.pc = "idle" <=> w.trade = None
        /\ w.pc \in AtSub <=> w.sub # None
        /\ w.pc = "idle" => w.sides = << >>
        /\ w.pc \notin {"idle", "side"} => w.sides # << >>
        /\ w.pc \in {"idle", "side"} => w.todo = {}
        /\ \A k \in DOMAIN w.sides : w.sides[k].master \in Parties(w.trade)
        /\ \A x \in w.todo : x[1][2] = ThisSide(i).master /\ subs[x[1]].status # None
        /\ w.sub # None => w.sub[2] = ThisSide(i).master /\ subs[w.sub].status # None

\* An order was placed for a subscription of its follower to a party of its trade.
OrderTold(f, t) ==
    orders[f][t] # NoRow =>
        /\ orders[f][t].sub \in Sub /\ orders[f][t].sub[1] = f
        /\ orders[f][t].sub[2] \in Parties(t) /\ subs[orders[f][t].sub].status # None

OwedActive == \A x \in owed : x[1][2] \in Parties(x[2]) /\ Active(x[1])

\* Who works for a follower has the lock.
HasLock(i) == work[i].sub # None => locks[work[i].sub[1]] = i

\* The order of a row that is about to be written is the one there is, or there is a row.
Answered(i) ==
    LET s == work[i].sub
        t == work[i].trade
    IN  work[i].pc = "COMPLETED" /\ ~Crossed(s[1], t) =>
            history[s][t] # NoRow \/ orders[s[1]][t] = ThisOrder(i)

RowTold(s, t) ==
    /\ history[s][t].status = "COMPLETED" => Told(s, t) \/ Crossed(s[1], t)
    /\ Placed(s, t) => history[s][t] # NoRow \/ Recording(s, t)

\* Instance i, which handles the trade, has yet to come to subscription s.
Awaits(i, s) ==
    LET w == work[i]
    IN  \/ w.pc = "side" /\ w.sides # << >> /\ ThisSide(i).master = s[2]
        \/ \E x \in w.todo : x[1] = s
        \/ w.sub = s /\ w.pc \in AtSub \ {"releasing"}

\* A copy that is owed has its row; or the trade is not marked, and who handles it is alone
\* and will come to it.
Due(s, t) ==
    ~(Parties(t) \subseteq Master) =>
        \/ history[s][t] # NoRow
        \/ /\ t \notin processed
           /\ \A i \in Instance : work[i].trade = t => /\ Awaits(i, s)
                                                       /\ \A j \in Instance : work[j].trade = t => i = j

NothingLost == failures \cap {"lock", "history"} = {}

HandInv == \A i \in Instance : Hand(i)
OrderInv == \A f \in Follower, t \in Trade : OrderTold(f, t)
NoneExpired == "expiry" \notin failures

LockInv == NoneExpired => \A i \in Instance : HasLock(i)
TellInv == ~Interrupted => /\ \A i \in Instance : Answered(i)
                           /\ \A s \in Sub, t \in Trade : RowTold(s, t)
DueInv == NothingLost => \A x \in owed : Due(x[1], x[2])

CopyInv == Shape /\ HandInv /\ OrderInv /\ OwedActive /\ LockInv /\ TellInv /\ DueInv

Put(h, a, b, v) == [h EXCEPT ![a][b] = v]

LEMMA Updated ==
    ASSUME NEW A, NEW B, NEW h, IsTable(h, A, B), NEW a0 \in A, NEW b0 \in B, NEW v
    PROVE  /\ IsTable(Put(h, a0, b0, v), A, B)
           /\ Put(h, a0, b0, v)[a0][b0] = v
           /\ \A a \in A, b \in B : a # a0 \/ b # b0 => Put(h, a0, b0, v)[a][b] = h[a][b]
<1>0. PICK k : k = Put(h, a0, b0, v)
  OBVIOUS
<1> DEFINE row == [h[a0] EXCEPT ![b0] = v]
<1>1. IsFunction(h, A) /\ \A a \in A : IsFunction(h[a], B)
  BY DEF IsTable
<1>2. IsFunction(row, B) /\ row[b0] = v /\ \A b \in B : b # b0 => row[b] = h[a0][b]
  BY <1>1 DEF IsFunction
<1>3. k = [h EXCEPT ![a0] = row]
  BY <1>0 DEF Put
<1> HIDE DEF row
<1>4. IsFunction(k, A) /\ k[a0] = row /\ \A a \in A : a # a0 => k[a] = h[a]
  BY <1>1, <1>3 DEF IsFunction
<1>5. \A a \in A : IsFunction(k[a], B)
  BY <1>1, <1>2, <1>4
<1>6. k[a0][b0] = v /\ \A a \in A, b \in B : a # a0 \/ b # b0 => k[a][b] = h[a][b]
  BY <1>2, <1>4
<1>7. QED
  BY <1>0, <1>4, <1>5, <1>6 DEF IsTable

LEMMA FaultGrows ==
    /\ NoFault => failures \subseteq failures'
    /\ \A kind : Fault(kind) => failures \subseteq failures' /\ kind \in failures'
BY DEF NoFault, Fault

LEMMA Monotone ==
    ASSUME failures \subseteq failures'
    PROVE  /\ (~Interrupted' => ~Interrupted) /\ (NothingLost' => NothingLost)
           /\ (NoneExpired' => NoneExpired) /\ (~Interrupted => NoneExpired)
BY DEF Interrupted, NothingLost, NoneExpired

LEMMA InitCopy == Init => CopyInv
<1> SUFFICES ASSUME Init PROVE CopyInv
  OBVIOUS
<1>1. \A i \in Instance : work[i] = Idle
  BY DEF Init
<1>2. Shape
  <2>1. /\ masters \subseteq Master /\ known \in [Instance -> SUBSET Master]
        /\ subs \in [Sub -> SubRow] /\ handling \in [Handler -> HandlingRow]
        /\ locks \in [Follower -> Instance \cup {None}] /\ processed \subseteq Trade /\ owed \subseteq Sub \X Trade
    BY DEF Init, SubRow, HandlingRow, Free
  <2>2. IsTable(history, Sub, Trade) /\ IsTable(orders, Follower, Trade)
    BY DEF Init, IsTable, IsFunction
  <2>3. Idle \in Row({Idle.quantity})
    BY DEF Idle, Row, Step
  <2>4. \A i \in Instance : Idle \in Row({work[j].quantity : j \in Instance})
    BY <1>1, <2>3 DEF Row, Idle
  <2>5. work \in [Instance -> Row({work[j].quantity : j \in Instance})]
    BY <2>4 DEF Init
  <2>6. QED
    BY <2>1, <2>2, <2>5 DEF Shape
<1>3. HandInv
  <2>1. /\ Idle.pc = "idle" /\ Idle.trade = None /\ Idle.sub = None /\ Idle.sides = << >> /\ Idle.todo = {}
        /\ "idle" \notin AtSub
    BY DEF Idle, AtSub
  <2>2. DOMAIN << >> = {}
    OBVIOUS
  <2>3. QED
    BY <1>1, <2>1, <2>2 DEF HandInv, Hand
<1>4. OrderInv
  BY DEF Init, OrderInv, OrderTold
<1>5. OwedActive /\ DueInv
  BY DEF Init, OwedActive, DueInv
<1>6. LockInv
  BY <1>1 DEF LockInv, HasLock, Idle
<1>7. TellInv
  <2>1. \A i \in Instance : Answered(i)
    BY <1>1 DEF Answered, Idle
  <2>2. \A s \in Sub, t \in Trade : history[s][t] = NoRow /\ s[1] \in Follower /\ orders[s[1]][t] = NoRow
    BY DEF Init, Sub
  <2>3. NoRow.status = "none"
    BY DEF NoRow, None
  <2>4. QED
    BY <2>1, <2>2, <2>3 DEF TellInv, RowTold, Placed
<1>8. QED
  BY <1>2, <1>3, <1>4, <1>5, <1>6, <1>7 DEF CopyInv

-----------------------------------------------------------------------------
(***************************************************************************)
(* The service: subscriptions come and go.                                 *)
(***************************************************************************)

LEMMA ServiceKeeps ==
    ASSUME CopyInv, UNCHANGED <<history, orders, locks, processed, work>>, failures \subseteq failures',
           masters' \subseteq Master, known' \in [Instance -> SUBSET Master],
           subs' \in [Sub -> SubRow], handling' \in [Handler -> HandlingRow],
           \A s \in Sub : subs[s].status # None => subs'[s].status # None,
           owed' \subseteq owed, \A x \in owed' : Active(x[1])'
    PROVE  CopyInv'
<1>1. Shape /\ HandInv /\ OrderInv /\ OwedActive /\ LockInv /\ TellInv /\ DueInv
  BY DEF CopyInv
<1>2. Shape'
  BY <1>1 DEF Shape
<1>3. HandInv'
  <2> SUFFICES ASSUME NEW i \in Instance PROVE Hand(i)'
    BY DEF HandInv
  <2>1. work[i] \in Row({work[j].quantity : j \in Instance}) /\ Hand(i)
    BY <1>1 DEF Shape, HandInv
  <2>2. work[i].sub \in Sub \cup {None} /\ \A x \in work[i].todo : x[1] \in Sub
    BY <2>1 DEF Row
  <2>3. ThisSide(i)' = ThisSide(i)
    BY DEF ThisSide
  <2>4. QED
    BY <2>1, <2>2, <2>3 DEF Hand
<1>4. OrderInv'
  BY <1>1 DEF OrderInv, OrderTold
<1>5. OwedActive'
  BY <1>1 DEF OwedActive
<1>6. LockInv'
  BY <1>1, Monotone DEF LockInv, HasLock
<1>7. \A f \in Follower : \A t : Crossed(f, t) => Crossed(f, t)'
  BY DEF Crossed, Sub
<1>8. TellInv'
  <2> SUFFICES ASSUME ~Interrupted'
               PROVE  /\ \A i \in Instance : Answered(i)'
                      /\ \A s \in Sub, t \in Trade : RowTold(s, t)'
    BY DEF TellInv
  <2>1. /\ \A i \in Instance : Answered(i)
        /\ \A s \in Sub, t \in Trade : RowTold(s, t)
    BY <1>1, Monotone DEF TellInv
  <2>2. \A s \in Sub : s[1] \in Follower
    BY DEF Sub
  <2>3. \A i \in Instance : work[i].pc = "COMPLETED" => work[i].sub \in Sub
    BY <1>1 DEF Shape, HandInv, Hand, AtSub, Row
  <2>4. \A i \in Instance : ThisOrder(i)' = ThisOrder(i)
    BY DEF ThisOrder, ThisSide
  <2>5. \A i \in Instance : Answered(i)'
    BY <1>7, <2>1, <2>2, <2>3, <2>4 DEF Answered
  <2>6. \A s \in Sub, t \in Trade : RowTold(s, t)'
    BY <1>7, <2>1, <2>2 DEF RowTold, Told, Placed, Recording
  <2>7. QED
    BY <2>5, <2>6
<1>9. DueInv'
  BY <1>1, Monotone DEF DueInv, Due, Awaits, ThisSide
<1>10. QED
  BY <1>2, <1>3, <1>4, <1>5, <1>6, <1>8, <1>9 DEF CopyInv

LEMMA ServiceTypes ==
    ASSUME CopyInv
    PROVE  /\ masters \subseteq Master /\ known \in [Instance -> SUBSET Master]
           /\ subs \in [Sub -> SubRow] /\ handling \in [Handler -> HandlingRow]
           /\ owed \subseteq Sub \X Trade /\ \A x \in owed : Active(x[1])
BY DEF CopyInv, Shape, OwedActive

LEMMA RegisterKeeps ==
    ASSUME CopyInv, NEW i \in Instance, NEW m \in Master, RegisterMaster(i, m)
    PROVE  CopyInv'
<1>1. /\ UNCHANGED <<history, orders, locks, processed, work>> /\ failures \subseteq failures'
      /\ owed' = owed /\ subs' = subs /\ handling' = handling
      /\ masters' = masters \cup {m} /\ known' = [known EXCEPT ![i] = @ \cup {m}]
  BY FaultGrows DEF RegisterMaster, consumer
<1>2. masters' \subseteq Master /\ known' \in [Instance -> SUBSET Master]
  BY <1>1, ServiceTypes
<1>3. \A x \in owed' : Active(x[1])'
  BY <1>1, ServiceTypes DEF Active
<1>4. QED
  BY <1>1, <1>2, <1>3, ServiceTypes, ServiceKeeps

\* The steps of a handler of subscriptions that write no subscription.
LEMMA ReadingKeeps ==
    ASSUME CopyInv, NEW h \in Handler,
           \/ \E s \in Sub : (\E a \in Allocation : FindExisting(h, s, a)) \/ FindToCancel(h, s)
           \/ GuardOvercommit(h) \/ CountCopier(h)
    PROVE  CopyInv'
<1>1. /\ UNCHANGED <<history, orders, locks, processed, work>> /\ failures \subseteq failures'
      /\ owed' = owed /\ subs' = subs /\ masters' = masters /\ known' = known
  BY FaultGrows DEF FindExisting, FindToCancel, GuardOvercommit, CountCopier, consumer
<1>2. handling' \in [Handler -> HandlingRow]
  <2>1. handling[h] \in HandlingRow /\ Free \in HandlingRow
    BY ServiceTypes DEF Free, HandlingRow
  <2>2. \A w \in HandlingRow : handling' = [handling EXCEPT ![h] = w] => handling' \in [Handler -> HandlingRow]
    BY ServiceTypes
  <2>3. ASSUME NEW s \in Sub, NEW a \in Allocation, FindExisting(h, s, a)
        PROVE  handling' \in [Handler -> HandlingRow]
    <3> DEFINE old == subs[s].status # None
    <3>1. a \in Nat /\ old \in BOOLEAN
      BY BalancesAssumption
    <3>2. handling' = [handling EXCEPT ![h] = [pc |-> "found", sub |-> s, exists |-> old, amount |-> a]]
      BY <2>3 DEF FindExisting
    <3> HIDE DEF old
    <3>3. QED
      BY <2>2, <3>1, <3>2 DEF HandlingRow
  <2>4. ASSUME NEW s \in Sub, FindToCancel(h, s)
        PROVE  handling' \in [Handler -> HandlingRow]
    <3>1. [Free EXCEPT !.pc = "cancelling", !.sub = s] \in HandlingRow
      BY <2>1 DEF HandlingRow
    <3>2. QED
      BY <2>2, <2>4, <3>1 DEF FindToCancel
  <2>5. CASE GuardOvercommit(h)
    <3>1. [handling[h] EXCEPT !.pc = "guarded"] \in HandlingRow
      BY <2>1 DEF HandlingRow
    <3>2. \E w \in {[handling[h] EXCEPT !.pc = "guarded"], Free} : handling' = [handling EXCEPT ![h] = w]
      BY <2>5 DEF GuardOvercommit
    <3>3. QED
      BY <2>1, <2>2, <3>1, <3>2
  <2>6. CASE CountCopier(h)
    BY <2>1, <2>2, <2>6 DEF CountCopier
  <2>7. QED
    BY <2>3, <2>4, <2>5, <2>6
<1>3. \A x \in owed' : Active(x[1])'
  BY <1>1, ServiceTypes DEF Active
<1>4. QED
  BY <1>1, <1>2, <1>3, ServiceTypes, ServiceKeeps

LEMMA ActivateKeeps ==
    ASSUME CopyInv, NEW h \in Handler, Activate(h)
    PROVE  CopyInv'
<1> DEFINE s == handling[h].sub
           row == [status |-> "ACTIVE", allocated |-> handling[h].amount]
<1>1. /\ UNCHANGED <<history, orders, locks, processed, work>> /\ failures \subseteq failures'
      /\ owed' = owed /\ masters' = masters /\ known' = known
      /\ subs' \in {subs, [subs EXCEPT ![s] = row]}
      /\ handling' \in {[handling EXCEPT ![h].pc = "counting"], [handling EXCEPT ![h] = Free]}
  BY FaultGrows DEF Activate, consumer
<1>2. handling[h] \in HandlingRow
  BY ServiceTypes
<1>3. handling' \in [Handler -> HandlingRow]
  <2>1. Free \in HandlingRow /\ [handling[h] EXCEPT !.pc = "counting"] \in HandlingRow
    BY <1>2 DEF Free, HandlingRow
  <2>2. QED
    BY <1>1, <2>1, ServiceTypes
<1>4. row \in SubRow /\ row.status = "ACTIVE"
  BY <1>2 DEF HandlingRow, SubRow
<1> HIDE DEF row, s
<1>5. subs' \in [Sub -> SubRow] /\ \A r \in Sub : subs'[r] = subs[r] \/ subs'[r] = row
  BY <1>1, <1>4, ServiceTypes
<1>6. \A r \in Sub : subs[r].status # None => subs'[r].status # None
  BY <1>4, <1>5 DEF None
<1>7. \A x \in owed' : Active(x[1])'
  <2>1. \A x \in owed : x[1] \in Sub /\ subs[x[1]].status = "ACTIVE"
    BY ServiceTypes DEF Active
  <2>2. QED
    BY <1>1, <1>4, <1>5, <2>1 DEF Active
<1>8. QED
  BY <1>1, <1>3, <1>5, <1>6, <1>7, ServiceTypes, ServiceKeeps

LEMMA TerminateKeeps ==
    ASSUME CopyInv, NEW h \in Handler, Terminate(h)
    PROVE  CopyInv'
<1> DEFINE s == handling[h].sub
<1>1. /\ UNCHANGED <<history, orders, locks, processed, work>> /\ failures \subseteq failures'
      /\ owed' = {x \in owed : x[1] # s} /\ masters' = masters /\ known' = known
      /\ subs' = [subs EXCEPT ![s].status = "TERMINATED"]
      /\ handling' = [handling EXCEPT ![h].pc = "uncounting"]
  BY FaultGrows DEF Terminate
<1>2. handling' \in [Handler -> HandlingRow]
  <2>1. [handling[h] EXCEPT !.pc = "uncounting"] \in HandlingRow
    BY ServiceTypes DEF HandlingRow
  <2>2. QED
    BY <1>1, <2>1, ServiceTypes
<1> HIDE DEF s
<1>3. \A r \in Sub : /\ [subs[r] EXCEPT !.status = "TERMINATED"] \in SubRow
                     /\ [subs[r] EXCEPT !.status = "TERMINATED"].status = "TERMINATED"
  BY ServiceTypes DEF SubRow
<1>4. /\ subs' \in [Sub -> SubRow] /\ \A r \in Sub : r # s => subs'[r] = subs[r]
      /\ s \in Sub => subs'[s].status = "TERMINATED"
  BY <1>1, <1>3, ServiceTypes
<1>5. \A r \in Sub : subs[r].status # None => subs'[r].status # None
  BY <1>4 DEF None
<1>6. \A x \in owed' : Active(x[1])'
  BY <1>1, <1>4, ServiceTypes DEF Active
<1>7. owed' \subseteq owed
  BY <1>1
<1>8. QED
  BY <1>1, <1>2, <1>4, <1>5, <1>6, <1>7, ServiceTypes, ServiceKeeps

-----------------------------------------------------------------------------
(***************************************************************************)
(* The consumer. A step of instance i changes what it has in hand.         *)
(***************************************************************************)

LEMMA WorkTypes ==
    ASSUME CopyInv, NEW i \in Instance
    PROVE  /\ work[i] \in Row({work[i].quantity}) /\ Hand(i)
           /\ IsTable(history, Sub, Trade) /\ IsTable(orders, Follower, Trade)
           /\ locks \in [Follower -> Instance \cup {None}]
           /\ processed \subseteq Trade /\ owed \subseteq Sub \X Trade
<1>1. work[i] \in Row({work[j].quantity : j \in Instance})
  BY DEF CopyInv, Shape
<1>2. QED
  BY <1>1 DEF CopyInv, Shape, HandInv, Row

\* What a step of i does to what it has in hand, and to nothing else that it has.
LEMMA Taken ==
    ASSUME CopyInv, NEW i \in Instance, NEW w, w \in Row({w.quantity}), Becomes(i, w)
    PROVE  /\ work' \in [Instance -> Row({work'[j].quantity : j \in Instance})]
           /\ work'[i] = w /\ \A j \in Instance \ {i} : work'[j] = work[j]
<1>1. work'[i] = w /\ (\A j \in Instance \ {i} : work'[j] = work[j]) /\ DOMAIN work' = Instance
      /\ work' = [j \in Instance |-> work'[j]]
  BY DEF CopyInv, Shape, Becomes
<1>2. \A j \in Instance : work'[j] \in Row({work'[j].quantity})
  BY <1>1, WorkTypes
<1>3. \A j \in Instance : work'[j] \in Row({work'[k].quantity : k \in Instance})
  BY <1>2 DEF Row
<1>4. QED
  BY <1>1, <1>3

LEMMA WorkKeeps ==
    ASSUME CopyInv, NEW i \in Instance, NEW w, w \in Row({w.quantity}), Becomes(i, w),
           UNCHANGED <<masters, subs, handling>>, known' \in [Instance -> SUBSET Master],
           failures \subseteq failures', Hand(i)',
           IsTable(history', Sub, Trade), IsTable(orders', Follower, Trade),
           locks' \in [Follower -> Instance \cup {None}],
           processed' \subseteq Trade, owed' \subseteq Sub \X Trade,
           \A s \in Sub, t \in Trade : history[s][t] # NoRow => history'[s][t] = history[s][t],
           \A f \in Follower, t \in Trade : orders[f][t] # NoRow => orders'[f][t] = orders[f][t],
           OrderInv', OwedActive', LockInv', DueInv',
           ~Interrupted' => Answered(i)' /\ \A s \in Sub, t \in Trade : RowTold(s, t)'
    PROVE  CopyInv'
<1>1. /\ work' \in [Instance -> Row({work'[j].quantity : j \in Instance})]
      /\ work'[i] = w /\ \A j \in Instance \ {i} : work'[j] = work[j]
  BY Taken
<1>2. Shape'
  BY <1>1 DEF CopyInv, Shape
<1>3. HandInv'
  <2> SUFFICES ASSUME NEW j \in Instance \ {i} PROVE Hand(j)'
    BY DEF HandInv
  <2>1. Hand(j) /\ work'[j] = work[j] /\ subs' = subs
    BY <1>1, WorkTypes
  <2>2. ThisSide(j)' = ThisSide(j)
    BY <2>1 DEF ThisSide
  <2>3. QED
    BY <2>1, <2>2 DEF Hand
<1>4. TellInv'
  <2> SUFFICES ASSUME ~Interrupted', NEW j \in Instance \ {i} PROVE Answered(j)'
    BY DEF TellInv
  <2>1. Answered(j) /\ work'[j] = work[j] /\ Hand(j) /\ work[j] \in Row({work[j].quantity})
    BY <1>1, Monotone, WorkTypes DEF CopyInv, TellInv
  <2>2. work[j].pc = "COMPLETED" => work[j].sub \in Sub /\ work[j].trade \in Trade /\ work[j].sub[1] \in Follower
    BY <2>1 DEF Hand, Row, AtSub, Sub
  <2>3. ThisOrder(j)' = ThisOrder(j) /\ ThisOrder(j) # NoRow
    BY <2>1 DEF ThisOrder, ThisSide, NoRow, None
  <2>4. \A f, t : Crossed(f, t)' <=> Crossed(f, t)
    BY DEF Crossed
  <2>5. QED
    BY <2>1, <2>2, <2>3, <2>4 DEF Answered
<1>5. QED
  BY <1>2, <1>3, <1>4 DEF CopyInv

\* A copy that is due stays so when i has yet to come to it, or has written its row.
LEMMA DueStays ==
    ASSUME CopyInv, NEW i \in Instance, NEW w, w \in Row({w.quantity}), Becomes(i, w),
           NEW s \in Sub, NEW t \in Trade, Due(s, t),
           history[s][t] # NoRow => history'[s][t] # NoRow,
           t \in processed' => t \in processed \/ history'[s][t] # NoRow \/ Parties(t) \subseteq Master,
           w.trade = t => work[i].trade = t,
           w.trade = t /\ Awaits(i, s) => Awaits(i, s)' \/ history'[s][t] # NoRow
    PROVE  Due(s, t)'
<1>1. work'[i] = w /\ \A j \in Instance \ {i} : work'[j] = work[j]
  BY Taken
<1>2. \A j \in Instance \ {i} : Awaits(j, s)' <=> Awaits(j, s)
  BY <1>1 DEF Awaits, ThisSide
<1>3. \A j \in Instance : work'[j].trade = t => work[j].trade = t
  BY <1>1
<1>4. CASE history'[s][t] # NoRow \/ Parties(t) \subseteq Master
  BY <1>4 DEF Due
<1>5. CASE ~(history'[s][t] # NoRow) /\ ~(Parties(t) \subseteq Master)
  <2>1. /\ t \notin processed'
        /\ \A j \in Instance : work[j].trade = t => /\ Awaits(j, s)
                                                    /\ \A k \in Instance : work[k].trade = t => j = k
    BY <1>5 DEF Due
  <2>2. \A j \in Instance : work'[j].trade = t => Awaits(j, s)'
    BY <1>1, <1>2, <1>3, <1>5, <2>1
  <2>3. QED
    BY <1>3, <2>1, <2>2 DEF Due
<1>6. QED
  BY <1>4, <1>5

\* A step of i that writes no order, row or lock, and ends no recording.
LEMMA QuietKeeps ==
    ASSUME CopyInv, NEW i \in Instance, NEW w, w \in Row({w.quantity}), Becomes(i, w),
           UNCHANGED <<history, orders, locks, masters, subs, handling>>,
           known' \in [Instance -> SUBSET Master], failures \subseteq failures', Hand(i)',
           work[i].pc \in {"COMPLETED", "FAILED"} => Interrupted', w.pc # "COMPLETED",
           w.sub \in {None, work[i].sub},
           processed' \subseteq Trade, owed' \subseteq Sub \X Trade, OwedActive', DueInv'
    PROVE  CopyInv'
<1>1. work'[i] = w /\ \A j \in Instance \ {i} : work'[j] = work[j]
  BY Taken
<1>2. OrderInv'
  BY DEF CopyInv, OrderInv, OrderTold
<1>3. LockInv'
  BY <1>1, Monotone DEF CopyInv, LockInv, HasLock
<1>4. ASSUME ~Interrupted'
      PROVE  Answered(i)' /\ \A s \in Sub, t \in Trade : RowTold(s, t)'
  <2>1. \A s \in Sub, t \in Trade : RowTold(s, t)
    BY <1>4, Monotone DEF CopyInv, TellInv
  <2>2. Answered(i)'
    BY <1>1 DEF Answered
  <2>3. ASSUME NEW s \in Sub, NEW t \in Trade PROVE RowTold(s, t)'
    <3>1. Recording(s, t) => Recording(s, t)'
      BY <1>1, <1>4 DEF Recording
    <3>2. RowTold(s, t) /\ (Crossed(s[1], t)' <=> Crossed(s[1], t))
      BY <2>1 DEF Crossed
    <3>3. QED
      BY <3>1, <3>2 DEF RowTold, Told, Placed
  <2>4. QED
    BY <2>2, <2>3
<1>5. QED
  BY <1>2, <1>4, <1>3, WorkTypes, WorkKeeps

\* When no subscription is added to those that are owed, each of them stays due.
LEMMA DueStep ==
    ASSUME CopyInv, NEW i \in Instance, NEW w, w \in Row({w.quantity}), Becomes(i, w),
           failures \subseteq failures', owed' \subseteq owed,
           NothingLost' => \A s \in Sub, t \in Trade : <<s, t>> \in owed' =>
               /\ history[s][t] # NoRow => history'[s][t] # NoRow
               /\ t \in processed' => t \in processed \/ history'[s][t] # NoRow \/ Parties(t) \subseteq Master
               /\ w.trade = t => work[i].trade = t
               /\ w.trade = t /\ Awaits(i, s) => Awaits(i, s)' \/ history'[s][t] # NoRow
    PROVE  DueInv'
<1> SUFFICES ASSUME NothingLost', NEW s \in Sub, NEW t \in Trade, <<s, t>> \in owed'
             PROVE  Due(s, t)'
  <2>1. owed' \subseteq Sub \X Trade
    BY WorkTypes
  <2>2. \A x \in owed' : x[1] \in Sub /\ x[2] \in Trade /\ x = <<x[1], x[2]>>
    BY <2>1
  <2>3. QED
    BY <2>2 DEF DueInv
<1>1. Due(s, t)
  BY Monotone DEF CopyInv, DueInv
<1>2. QED
  BY <1>1, DueStays

LEMMA IdleRow == Idle \in Row({Idle.quantity}) /\ Idle.trade \notin Trade /\ Idle.sub = None /\ Idle.pc = "idle"
<1>1. Idle \in Row({Idle.quantity})
  BY DEF Idle, Row, Step
<1>2. None \notin Trade
  BY NoneAssumption DEF None
<1>3. QED
  BY <1>1, <1>2 DEF Idle

LEMMA IdleHand ==
    ASSUME NEW i \in Instance, work'[i] = Idle
    PROVE  Hand(i)'
<1>1. /\ Idle.pc = "idle" /\ Idle.trade = None /\ Idle.sub = None /\ Idle.sides = << >> /\ Idle.todo = {}
      /\ "idle" \notin AtSub
  BY DEF Idle, AtSub
<1>2. DOMAIN << >> = {}
  OBVIOUS
<1>3. QED
  BY <1>1, <1>2 DEF Hand

LEMMA SidesOf ==
    ASSUME CopyInv, NEW i \in Instance, NEW t \in Trade
    PROVE  /\ Sides(i, t) \in Seq(SideRow)
           /\ \A k \in DOMAIN Sides(i, t) : Sides(i, t)[k].master \in Parties(t)
<1> DEFINE buy == [master |-> TermsOf[t].buyer, side |-> "BUY"]
           sell == [master |-> TermsOf[t].seller, side |-> "SELL"]
<1>1. known[i] \subseteq Master
  BY ServiceTypes
<1>2. /\ TermsOf[t].buyer \in known[i] => buy \in SideRow
      /\ TermsOf[t].seller \in known[i] => sell \in SideRow
      /\ buy.master \in Parties(t) /\ sell.master \in Parties(t)
  BY <1>1 DEF SideRow, Parties
<1>3. Sides(i, t) = (IF TermsOf[t].buyer \in known[i] THEN <<buy>> ELSE << >>)
                    \o (IF TermsOf[t].seller \in known[i] THEN <<sell>> ELSE << >>)
  BY DEF Sides, Side
<1> HIDE DEF buy, sell
<1>4. CASE TermsOf[t].buyer \in known[i] /\ TermsOf[t].seller \in known[i]
  <2>1. /\ buy \in SideRow /\ sell \in SideRow /\ Sides(i, t) = <<buy>> \o <<sell>>
    BY <1>2, <1>3, <1>4
  <2>2. /\ <<buy>> \o <<sell>> \in Seq(SideRow) /\ DOMAIN (<<buy>> \o <<sell>>) = 1..2
        /\ (<<buy>> \o <<sell>>)[1] = buy /\ (<<buy>> \o <<sell>>)[2] = sell
    BY <2>1
  <2>3. QED
    BY <1>2, <2>1, <2>2
<1>5. CASE TermsOf[t].buyer \in known[i] /\ TermsOf[t].seller \notin known[i]
  <2>1. Sides(i, t) = <<buy>>
    BY <1>2, <1>3, <1>5
  <2>2. QED
    BY <1>2, <1>5, <2>1
<1>6. CASE TermsOf[t].buyer \notin known[i] /\ TermsOf[t].seller \in known[i]
  <2>1. Sides(i, t) = <<sell>>
    BY <1>2, <1>3, <1>6
  <2>2. QED
    BY <1>2, <1>6, <2>1
<1>7. CASE TermsOf[t].buyer \notin known[i] /\ TermsOf[t].seller \notin known[i]
  <2>1. Sides(i, t) = << >>
    BY <1>3, <1>7
  <2>2. QED
    BY <2>1
<1>8. QED
  BY <1>4, <1>5, <1>6, <1>7

LEMMA DeliverKeeps ==
    ASSUME CopyInv, NEW i \in Instance, NEW t \in Trade, Deliver(i, t)
    PROVE  CopyInv'
<1> DEFINE w == [Idle EXCEPT !.pc = "side", !.trade = t, !.sides = Sides(i, t)]
<1>1. /\ Becomes(i, w) /\ failures \subseteq failures' /\ owed' \subseteq owed
      /\ UNCHANGED <<history, orders, locks, processed, masters, known, subs, handling>>
      /\ work[i].pc = "idle" /\ Sides(i, t) # << >> /\ t \notin processed
      /\ Elsewhere(i, t) => owed' = {x \in owed : x[2] # t}
  BY FaultGrows DEF Deliver, service
<1>2. /\ w \in Row({w.quantity}) /\ w.pc = "side" /\ w.trade = t /\ w.sub = None
      /\ w.sides = Sides(i, t) /\ w.todo = {}
  BY SidesOf DEF Idle, Row, Step
<1> HIDE DEF w
<1>3. work'[i] = w /\ \A j \in Instance \ {i} : work'[j] = work[j]
  BY <1>1, <1>2, Taken
<1>4. Hand(i)'
  <2>1. "side" \notin AtSub /\ t # None
    BY NoneAssumption DEF AtSub, None
  <2>2. QED
    BY <1>2, <1>3, <2>1, SidesOf DEF Hand
<1>5. OwedActive'
  BY <1>1 DEF CopyInv, OwedActive, Active
<1>6. DueInv'
  <2> SUFFICES ASSUME NothingLost', NEW s \in Sub, NEW u \in Trade, <<s, u>> \in owed'
               PROVE  Due(s, u)'
    <3>1. owed' \subseteq Sub \X Trade
      BY <1>1, WorkTypes
    <3>2. \A x \in owed' : x[1] \in Sub /\ x[2] \in Trade /\ x = <<x[1], x[2]>>
      BY <3>1
    <3>3. QED
      BY <3>2 DEF DueInv
  <2>1. Due(s, u)
    BY <1>1, Monotone DEF CopyInv, DueInv
  <2>2. CASE u # t
    BY <1>1, <1>2, <2>1, <2>2, DueStays
  <2>3. CASE u = t
    <3> SUFFICES ASSUME ~(Parties(t) \subseteq Master) PROVE Due(s, t)'
      BY <2>3 DEF Due
    <3>1. \A j \in Instance : work'[j].trade = t => j = i
      BY <1>1, <1>3, <2>3 DEF Elsewhere
    <3>2. s[2] \in Parties(t) /\ s[2] \in Master
      BY <1>1, <2>3 DEF CopyInv, OwedActive, Sub
    <3>3. /\ work'[i].sides[1].master \in Parties(t) /\ work'[i].sides[1].master \in Master
          /\ ThisSide(i)' = work'[i].sides[1]
      <4>1. Sides(i, t) \in Seq(SideRow) /\ 1 \in DOMAIN Sides(i, t)
        BY <1>1, SidesOf
      <4>2. Sides(i, t)[1] \in SideRow /\ Sides(i, t)[1].master \in Parties(t)
        BY <4>1, SidesOf
      <4>3. QED
        BY <1>2, <1>3, <4>2 DEF ThisSide, SideRow
    <3>4. work'[i].sides[1].master = s[2]
      BY <3>2, <3>3 DEF Parties
    <3>5. Awaits(i, s)'
      BY <1>1, <1>2, <1>3, <3>3, <3>4 DEF Awaits
    <3>6. QED
      BY <1>1, <3>1, <3>5 DEF Due
  <2>4. QED
    BY <2>2, <2>3
<1>7. QED
  BY <1>1, <1>2, <1>4, <1>5, <1>6, QuietKeeps, ServiceTypes, WorkTypes

\* An instance lets go of its trade: it has marked it, must read again, or stops.
LEMMA LetGoKeeps ==
    ASSUME CopyInv, NEW i \in Instance, MarkProcessed(i) \/ Retry(i) \/ Restart(i)
    PROVE  CopyInv'
<1>1. /\ Becomes(i, Idle) /\ failures \subseteq failures' /\ owed' = owed
      /\ UNCHANGED <<history, orders, locks, masters, subs, handling>>
      /\ known' \in [Instance -> SUBSET Master]
      /\ work[i].pc \in {"COMPLETED", "FAILED"} => Interrupted'
  <2>1. CASE MarkProcessed(i) \/ Retry(i)
    BY <2>1, FaultGrows, ServiceTypes DEF MarkProcessed, Retry, service
  <2>2. CASE Restart(i)
    <3>1. known' \in {[known EXCEPT ![i] = masters], [known EXCEPT ![i] = {}]} /\ "crash" \in failures'
      BY <2>2, FaultGrows DEF Restart
    <3>2. known' \in [Instance -> SUBSET Master]
      BY <3>1, ServiceTypes
    <3>3. QED
      BY <2>2, <3>1, <3>2, FaultGrows DEF Restart, Interrupted
  <2>3. QED
    BY <2>1, <2>2
<1>2. work'[i] = Idle
  BY <1>1, IdleRow, Taken
<1>3. \/ processed' = processed
      \/ /\ processed' = processed \cup {work[i].trade} /\ work[i].pc = "side" /\ work[i].sides = << >>
  BY DEF MarkProcessed, Retry, Restart
<1>4. /\ work[i].pc = "side" => work[i].trade \in Trade /\ work[i].todo = {}
      /\ "side" \notin AtSub
  BY WorkTypes DEF Hand, Row, AtSub
<1>5. processed' \subseteq Trade
  BY <1>3, <1>4, WorkTypes
<1>6. OwedActive'
  BY <1>1 DEF CopyInv, OwedActive, Active
<1>7. DueInv'
  <2> SUFFICES ASSUME NothingLost', NEW s \in Sub, NEW t \in Trade, <<s, t>> \in owed
               PROVE  t \in processed' => t \in processed \/ history'[s][t] # NoRow \/ Parties(t) \subseteq Master
    BY <1>1, IdleRow, DueStep
  <2>1. Due(s, t)
    BY <1>1, Monotone DEF CopyInv, DueInv
  <2>2. ASSUME t \in processed', t \notin processed
        PROVE  work[i].trade = t /\ ~Awaits(i, s)
    BY <1>3, <1>4, <2>2 DEF Awaits
  <2>3. QED
    BY <1>1, <2>1, <2>2 DEF Due
<1>8. Hand(i)'
  BY <1>2, IdleHand
<1>9. QED
  BY <1>1, <1>5, <1>6, <1>7, <1>8, IdleRow, QuietKeeps, WorkTypes

LEMMA SideDoneKeeps ==
    ASSUME CopyInv, NEW i \in Instance, SideDone(i)
    PROVE  CopyInv'
<1> DEFINE w == [work[i] EXCEPT !.pc = "side", !.sides = Tail(@), !.balance = 0]
<1>1. /\ Becomes(i, w) /\ failures \subseteq failures' /\ owed' = owed
      /\ UNCHANGED <<history, orders, locks, processed, masters, known, subs, handling>>
      /\ work[i].pc = "next" /\ work[i].todo = {}
  BY FaultGrows DEF SideDone, service
<1>2. /\ work[i] \in Row({work[i].quantity}) /\ Hand(i)
      /\ "side" \notin AtSub /\ "next" \notin AtSub
  BY WorkTypes DEF AtSub
<1>3. /\ work[i].sides \in Seq(SideRow) /\ work[i].sides # << >> /\ work[i].sub = None /\ work[i].trade # None
      /\ \A k \in DOMAIN work[i].sides : work[i].sides[k].master \in Parties(work[i].trade)
  BY <1>1, <1>2 DEF Hand, Row
<1>4. /\ Tail(work[i].sides) \in Seq(SideRow)
      /\ \A k \in DOMAIN Tail(work[i].sides) : Tail(work[i].sides)[k].master \in Parties(work[i].trade)
  BY <1>3
<1>5. /\ w \in Row({w.quantity}) /\ w.pc = "side" /\ w.trade = work[i].trade /\ w.sub = None
      /\ w.sides = Tail(work[i].sides) /\ w.todo = {}
  <2>1. "side" \in Step
    BY DEF Step
  <2>2. QED
    BY <1>1, <1>2, <1>3, <1>4, <2>1 DEF Row
<1> HIDE DEF w
<1>6. work'[i] = w
  BY <1>1, <1>5, Taken
<1>7. Hand(i)'
  BY <1>2, <1>3, <1>4, <1>5, <1>6 DEF Hand
<1>8. OwedActive'
  BY <1>1 DEF CopyInv, OwedActive, Active
<1>9. DueInv'
  <2>1. \A s \in Sub : ~Awaits(i, s)
    BY <1>1, <1>2 DEF Awaits
  <2>2. QED
    BY <1>1, <1>5, <2>1, DueStep
<1>10. QED
  BY <1>1, <1>5, <1>7, <1>8, <1>9, QuietKeeps, ServiceTypes, WorkTypes

LEMMA ComputeKeeps ==
    ASSUME CopyInv, NEW i \in Instance, ComputeQuantity(i)
    PROVE  CopyInv'
<1> DEFINE q == QuantityFor(i)
           pc == IF IsDust(q) THEN "SKIPPED" ELSE "placing"
           w == [work[i] EXCEPT !.quantity = q, !.pc = pc]
<1>1. /\ Becomes(i, w) /\ failures \subseteq failures' /\ owed' = owed
      /\ UNCHANGED <<history, orders, locks, processed, masters, known, subs, handling>>
      /\ work[i].pc = "locked"
  BY FaultGrows DEF ComputeQuantity, service
<1>2. work[i] \in Row({work[i].quantity}) /\ Hand(i) /\ pc \in {"SKIPPED", "placing"}
  BY WorkTypes
<1> HIDE DEF q, pc
<1>3. /\ w \in Row({w.quantity}) /\ w.pc = pc /\ w.trade = work[i].trade /\ w.sub = work[i].sub
      /\ w.sides = work[i].sides /\ w.todo = work[i].todo
  BY <1>2 DEF Row, Step
<1> HIDE DEF w
<1>4. work'[i] = w
  BY <1>1, <1>3, Taken
<1>5. ThisSide(i)' = ThisSide(i)
  BY <1>3, <1>4 DEF ThisSide
<1>6. Hand(i)'
  BY <1>1, <1>2, <1>3, <1>4, <1>5 DEF Hand, AtSub
<1>7. OwedActive'
  BY <1>1 DEF CopyInv, OwedActive, Active
<1>8. DueInv'
  <2>1. \A s \in Sub : Awaits(i, s) => Awaits(i, s)'
    BY <1>1, <1>2, <1>3, <1>4 DEF Awaits, AtSub
  <2>2. QED
    BY <1>1, <1>3, <2>1, DueStep
<1>9. QED
  BY <1>1, <1>2, <1>3, <1>6, <1>7, <1>8, QuietKeeps, ServiceTypes, WorkTypes

\* The subscriptions that are read come to be owed, and are in hand.
LEMMA ReadKeeps ==
    ASSUME CopyInv, NEW i \in Instance, ReadSubscribers(i)
    PROVE  CopyInv'
<1>0. PICK t : t = work[i].trade
  OBVIOUS
<1> DEFINE followers == {s \in Sub : s[2] = ThisSide(i).master /\ Active(s)}
           todo == {<<s, subs[s].allocated>> : s \in followers}
           added == IF t \in processed \/ Elsewhere(i, t) THEN {} ELSE followers
           w(b) == [work[i] EXCEPT !.pc = "next", !.balance = b, !.todo = todo]
<1>1. /\ failures \subseteq failures' /\ owed' = owed \cup {<<s, t>> : s \in added}
      /\ UNCHANGED <<history, orders, locks, processed, masters, known, subs, handling>>
      /\ work[i].pc = "side" /\ work[i].sides # << >>
  <2>1. \A b : ReadBalance(b) => failures \subseteq failures'
    BY FaultGrows DEF ReadBalance
  <2>2. QED
    BY <1>0, <2>1 DEF ReadSubscribers, service
<1>2. PICK b \in Nat : Becomes(i, w(b))
  BY BalancesAssumption DEF ReadSubscribers
<1>3. /\ work[i] \in Row({work[i].quantity}) /\ Hand(i)
      /\ "side" \notin AtSub /\ "next" \notin AtSub
  BY WorkTypes DEF AtSub
<1>4. /\ t \in Trade /\ work[i].sub = None /\ work[i].sides \in Seq(SideRow)
      /\ ThisSide(i) \in SideRow /\ ThisSide(i).master \in Parties(t)
  <2>1. t \in Trade /\ work[i].sub = None /\ work[i].sides \in Seq(SideRow) /\ 1 \in DOMAIN work[i].sides
    BY <1>0, <1>1, <1>3 DEF Hand, Row
  <2>2. QED
    BY <1>0, <1>3, <2>1 DEF Hand, ThisSide
<1>5. todo \in SUBSET (Sub \X Nat) /\ \A x \in todo : x[1] \in followers
  <2>1. \A s \in followers : s \in Sub /\ subs[s].allocated \in Nat
    BY ServiceTypes DEF SubRow
  <2>2. QED
    BY <2>1
<1>6. \A s \in followers : /\ s \in Sub /\ s[2] = ThisSide(i).master /\ Active(s) /\ subs[s].status # None
                           /\ \E x \in todo : x[1] = s
  <2> SUFFICES ASSUME NEW s \in followers PROVE Active(s) /\ subs[s].status # None /\ \E x \in todo : x[1] = s
    OBVIOUS
  <2>1. <<s, subs[s].allocated>> \in todo /\ <<s, subs[s].allocated>>[1] = s
    OBVIOUS
  <2>2. QED
    BY <2>1 DEF Active, None
<1>7. added \subseteq followers /\ \A s \in added : t \notin processed /\ ~Elsewhere(i, t)
  OBVIOUS
<1> HIDE DEF followers, todo, added
<1>8. /\ w(b) \in Row({w(b).quantity}) /\ w(b).pc = "next" /\ w(b).trade = t /\ w(b).sub = None
      /\ w(b).sides = work[i].sides /\ w(b).todo = todo
  BY <1>0, <1>2, <1>3, <1>4, <1>5 DEF Row, Step
<1> HIDE DEF w
<1>9. work'[i] = w(b) /\ \A j \in Instance \ {i} : work'[j] = work[j]
  BY <1>2, <1>8, Taken
<1>10. ThisSide(i)' = ThisSide(i)
  BY <1>8, <1>9 DEF ThisSide
<1>11. Hand(i)'
  BY <1>0, <1>1, <1>3, <1>4, <1>5, <1>6, <1>8, <1>9, <1>10 DEF Hand
<1>12. \A s \in added : <<s, t>> \in Sub \X Trade /\ s[2] \in Parties(t) /\ Active(s)
  BY <1>4, <1>6, <1>7
<1>13. OwedActive' /\ owed' \subseteq Sub \X Trade
  <2>1. \A x \in owed : x[1][2] \in Parties(x[2]) /\ Active(x[1])
    BY DEF CopyInv, OwedActive
  <2>2. \A x \in owed' : x \in owed \/ \E s \in added : x = <<s, t>>
    BY <1>1
  <2>3. \A x \in owed' : x[1][2] \in Parties(x[2]) /\ Active(x[1])
    BY <1>12, <2>1, <2>2
  <2>4. QED
    BY <1>1, <1>12, <2>2, <2>3, WorkTypes DEF OwedActive, Active
<1>14. DueInv'
  <2> SUFFICES ASSUME NothingLost', NEW x \in owed' PROVE Due(x[1], x[2])'
    BY DEF DueInv
  <2>1. CASE x \in owed
    <3> DEFINE s == x[1]
               u == x[2]
    <3>1. s \in Sub /\ u \in Trade /\ Due(s, u) /\ Active(s)
      BY <1>1, <2>1, Monotone, WorkTypes DEF CopyInv, DueInv, OwedActive
    <3> HIDE DEF s, u
    <3>2. Awaits(i, s) => Awaits(i, s)'
      <4>1. Awaits(i, s) => s \in followers
        BY <1>1, <1>3, <3>1 DEF Awaits, Hand, followers
      <4>2. QED
        BY <1>6, <1>8, <1>9, <4>1 DEF Awaits
    <3>3. Due(s, u)'
      BY <1>0, <1>1, <1>2, <1>8, <3>1, <3>2, DueStays
    <3>4. QED
      BY <3>3 DEF s, u
  <2>2. ASSUME NEW s \in added, x = <<s, t>> PROVE Due(x[1], x[2])'
    <3>1. \A j \in Instance : work'[j].trade = t => j = i
      BY <1>7, <1>8, <1>9 DEF Elsewhere
    <3>2. Awaits(i, s)'
      BY <1>6, <1>7, <1>8, <1>9 DEF Awaits
    <3>3. Due(s, t)'
      BY <1>1, <1>7, <3>1, <3>2 DEF Due
    <3>4. x[1] = s /\ x[2] = t
      BY <2>2
    <3>5. QED
      BY <3>3, <3>4
  <2>3. QED
    BY <1>1, <2>1, <2>2
<1>15. QED
  BY <1>1, <1>2, <1>8, <1>11, <1>13, <1>14, QuietKeeps, ServiceTypes, WorkTypes

LEMMA LeaveOutKeeps ==
    ASSUME CopyInv, NEW i \in Instance, work[i].pc = "next", NEW x \in work[i].todo,
           Becomes(i, [work[i] EXCEPT !.todo = @ \ {x}]),
           UNCHANGED <<history, orders, locks, processed, masters, known, subs, handling>>,
           failures \subseteq failures', owed' \subseteq owed,
           NothingLost' => owed' = owed \ {<<x[1], work[i].trade>>}
    PROVE  CopyInv'
<1> DEFINE todo == work[i].todo \ {x}
           w == [work[i] EXCEPT !.todo = todo]
<1>1. work[i] \in Row({work[i].quantity}) /\ Hand(i) /\ Becomes(i, w) /\ "next" \notin AtSub
  BY WorkTypes DEF AtSub
<1>2. todo \subseteq work[i].todo /\ \A y \in work[i].todo : y \in todo \/ y = x
  OBVIOUS
<1> HIDE DEF todo
<1>3. /\ w \in Row({w.quantity}) /\ w.pc = "next" /\ w.trade = work[i].trade /\ w.sub = work[i].sub
      /\ w.sides = work[i].sides /\ w.todo = todo
  BY <1>1, <1>2 DEF Row
<1> HIDE DEF w
<1>4. work'[i] = w
  BY <1>1, <1>3, Taken
<1>5. ThisSide(i)' = ThisSide(i)
  BY <1>3, <1>4 DEF ThisSide
<1>6. Hand(i)'
  BY <1>1, <1>2, <1>3, <1>4, <1>5 DEF Hand
<1>7. OwedActive'
  BY DEF CopyInv, OwedActive, Active
<1>8. DueInv'
  <2>1. ASSUME NothingLost', NEW s \in Sub, NEW t \in Trade, <<s, t>> \in owed',
               w.trade = t, Awaits(i, s)
        PROVE  Awaits(i, s)'
    <3>1. s # x[1]
      BY <1>3, <2>1
    <3>2. PICK y \in work[i].todo : y[1] = s
      BY <1>1, <2>1 DEF Awaits
    <3>3. y \in todo
      BY <1>2, <3>1, <3>2
    <3>4. QED
      BY <1>3, <1>4, <3>2, <3>3 DEF Awaits
  <2>2. QED
    BY <1>1, <1>3, <2>1, DueStep
<1>9. QED
  BY <1>1, <1>3, <1>6, <1>7, <1>8, QuietKeeps, ServiceTypes, WorkTypes

LEMMA LockKeeps ==
    ASSUME CopyInv, NEW i \in Instance, work[i].pc = "next", NEW x \in work[i].todo,
           locks[x[1][1]] = None, locks' = [locks EXCEPT ![x[1][1]] = i],
           Becomes(i, [work[i] EXCEPT !.todo = @ \ {x}, !.pc = "locked", !.sub = x[1], !.allocated = x[2]]),
           UNCHANGED <<history, orders, processed, owed, masters, known, subs, handling>>,
           failures \subseteq failures'
    PROVE  CopyInv'
<1> DEFINE todo == work[i].todo \ {x}
           r == x[1]
           a == x[2]
           w == [work[i] EXCEPT !.todo = todo, !.pc = "locked", !.sub = r, !.allocated = a]
<1>1. work[i] \in Row({work[i].quantity}) /\ Hand(i) /\ Becomes(i, w) /\ "next" \notin AtSub /\ "locked" \in AtSub
  BY WorkTypes DEF AtSub
<1>2. /\ todo \subseteq work[i].todo /\ \A y \in work[i].todo : y \in todo \/ y = x
      /\ r \in Sub /\ a \in Nat /\ r[1] \in Follower /\ r # None
      /\ r[2] = ThisSide(i).master /\ subs[r].status # None
      /\ locks[r[1]] = None /\ locks' = [locks EXCEPT ![r[1]] = i]
  <2>1. x \in Sub \X Nat
    BY <1>1 DEF Row
  <2>2. QED
    BY <1>1, <2>1, NoneAssumption DEF Hand, Sub, None
<1>3. \A y \in work[i].todo : y[1] = r => y \in todo \/ y = x
  BY <1>2
<1> HIDE DEF todo, a
<1>4. /\ w \in Row({w.quantity}) /\ w.pc = "locked" /\ w.trade = work[i].trade /\ w.sub = r
      /\ w.sides = work[i].sides /\ w.todo = todo
  BY <1>1, <1>2 DEF Row, Step
<1> HIDE DEF w
<1>5. work'[i] = w /\ \A j \in Instance \ {i} : work'[j] = work[j]
  BY <1>1, <1>4, Taken
<1>6. ThisSide(i)' = ThisSide(i)
  BY <1>4, <1>5 DEF ThisSide
<1>7. Hand(i)'
  BY <1>1, <1>2, <1>4, <1>5, <1>6 DEF Hand
<1>8. OwedActive' /\ OrderInv'
  BY DEF CopyInv, OwedActive, Active, OrderInv, OrderTold
<1>9. DueInv'
  <2>1. ASSUME NEW s \in Sub, Awaits(i, s) PROVE Awaits(i, s)'
    <3>1. PICK y \in work[i].todo : y[1] = s
      BY <1>1, <2>1 DEF Awaits
    <3>2. CASE y \in todo
      BY <1>4, <1>5, <3>1, <3>2 DEF Awaits
    <3>3. CASE y = x
      BY <1>4, <1>5, <3>1, <3>3 DEF Awaits, AtSub
    <3>4. QED
      BY <1>2, <3>2, <3>3
  <2>2. QED
    BY <1>1, <1>4, <2>1, DueStep
<1>10. locks' \in [Follower -> Instance \cup {None}]
  BY <1>2, WorkTypes
<1>11. LockInv'
  <2> SUFFICES ASSUME NoneExpired', NEW j \in Instance PROVE HasLock(j)'
    BY DEF LockInv
  <2>1. CASE j = i
    BY <1>2, <1>4, <1>5, <2>1, WorkTypes DEF HasLock
  <2>2. CASE j # i
    <3>1. work[j].sub # None => locks[work[j].sub[1]] = j /\ j # None
      BY Monotone, NoneAssumption DEF CopyInv, LockInv, HasLock, None
    <3>2. QED
      BY <1>2, <1>5, <2>2, <3>1, WorkTypes DEF HasLock
  <2>3. QED
    BY <2>1, <2>2
<1>12. ASSUME ~Interrupted'
       PROVE  Answered(i)' /\ \A s \in Sub, t \in Trade : RowTold(s, t)'
  <2>1. \A s \in Sub, t \in Trade : RowTold(s, t)
    BY <1>12, Monotone DEF CopyInv, TellInv
  <2>2. Answered(i)'
    BY <1>4, <1>5 DEF Answered
  <2>3. ASSUME NEW s \in Sub, NEW t \in Trade PROVE RowTold(s, t)'
    <3>1. Recording(s, t) => Recording(s, t)'
      BY <1>5 DEF Recording
    <3>2. RowTold(s, t) /\ (Crossed(s[1], t)' <=> Crossed(s[1], t))
      BY <2>1 DEF Crossed
    <3>3. QED
      BY <3>1, <3>2 DEF RowTold, Told, Placed
  <2>4. QED
    BY <2>2, <2>3
<1>13. QED
  BY <1>1, <1>4, <1>7, <1>8, <1>9, <1>10, <1>11, <1>12, WorkKeeps, ServiceTypes, WorkTypes

LEMMA AcquireKeeps ==
    ASSUME CopyInv, NEW i \in Instance, AcquireLock(i)
    PROVE  CopyInv'
<1>1. /\ UNCHANGED <<history, orders, processed, masters, known, subs, handling>>
      /\ work[i].pc = "next"
  BY DEF AcquireLock, service
<1>2. PICK x \in work[i].todo :
        LET w == [work[i] EXCEPT !.todo = @ \ {x}]
            f == x[1][1]
        IN  \/ /\ locks[f] = None
               /\ locks' = [locks EXCEPT ![f] = i]
               /\ Becomes(i, [w EXCEPT !.pc = "locked", !.sub = x[1], !.allocated = x[2]])
               /\ NoFault /\ UNCHANGED owed
            \/ /\ Becomes(i, w)
               /\ owed' = owed \ {<<x[1], work[i].trade>>}
               /\ NoFault /\ UNCHANGED locks
            \/ /\ Becomes(i, w)
               /\ Fault("lock") /\ UNCHANGED <<locks, owed>>
  BY DEF AcquireLock
<1>3. CASE locks[x[1][1]] = None /\ locks' = [locks EXCEPT ![x[1][1]] = i] /\ NoFault /\ owed' = owed
           /\ Becomes(i, [[work[i] EXCEPT !.todo = @ \ {x}] EXCEPT !.pc = "locked", !.sub = x[1], !.allocated = x[2]])
  BY <1>1, <1>3, LockKeeps, FaultGrows
<1>4. CASE Becomes(i, [work[i] EXCEPT !.todo = @ \ {x}]) /\ NoFault /\ locks' = locks
           /\ owed' = owed \ {<<x[1], work[i].trade>>}
  BY <1>1, <1>4, LeaveOutKeeps, FaultGrows
<1>5. CASE Becomes(i, [work[i] EXCEPT !.todo = @ \ {x}]) /\ Fault("lock") /\ locks' = locks /\ owed' = owed
  BY <1>1, <1>5, LeaveOutKeeps, FaultGrows DEF NothingLost
<1>6. QED
  BY <1>2, <1>3, <1>4, <1>5

\* An instance goes on with the subscriber it has in hand.
LEMMA Going ==
    ASSUME CopyInv, NEW i \in Instance, NEW step, step \in AtSub, work[i].pc \in AtSub, Goto(i, step)
    PROVE  /\ [work[i] EXCEPT !.pc = step] \in Row({[work[i] EXCEPT !.pc = step].quantity})
           /\ Becomes(i, [work[i] EXCEPT !.pc = step])
           /\ work'[i].pc = step /\ work'[i].trade = work[i].trade /\ work'[i].sub = work[i].sub
           /\ work'[i].quantity = work[i].quantity
           /\ ThisOrder(i)' = ThisOrder(i) /\ ThisSide(i)' = ThisSide(i) /\ work'[i].todo = work[i].todo
           /\ \A j \in Instance \ {i} : work'[j] = work[j]
           /\ UNCHANGED <<masters, subs, handling>> => Hand(i)'
           /\ work[i].sub \in Sub /\ work[i].sub[1] \in Follower /\ work[i].trade \in Trade
           /\ work[i].sub[2] \in Parties(work[i].trade) /\ subs[work[i].sub].status # None
<1> DEFINE w == [work[i] EXCEPT !.pc = step]
<1>1. work[i] \in Row({work[i].quantity}) /\ Hand(i) /\ Becomes(i, w)
      /\ "idle" \notin AtSub /\ "side" \notin AtSub /\ AtSub \subseteq Step
  BY WorkTypes DEF AtSub, Step, Goto
<1>2. /\ w \in Row({w.quantity}) /\ w.pc = step /\ w.trade = work[i].trade /\ w.sub = work[i].sub
      /\ w.sides = work[i].sides /\ w.todo = work[i].todo /\ w.quantity = work[i].quantity
  BY <1>1 DEF Row
<1> HIDE DEF w
<1>3. work'[i] = w /\ \A j \in Instance \ {i} : work'[j] = work[j]
  BY <1>1, <1>2, Taken
<1>4. ThisSide(i)' = ThisSide(i)
  BY <1>2, <1>3 DEF ThisSide
<1>5. ThisOrder(i)' = ThisOrder(i)
  BY <1>2, <1>3, <1>4 DEF ThisOrder
<1>6. UNCHANGED <<masters, subs, handling>> => Hand(i)'
  BY <1>1, <1>2, <1>3, <1>4 DEF Hand
<1>7. /\ work[i].sub \in Sub /\ work[i].sub[1] \in Follower /\ work[i].trade \in Trade
      /\ work[i].sub[2] \in Parties(work[i].trade) /\ subs[work[i].sub].status # None
  <2>1. /\ work[i].sub \in Sub /\ work[i].trade \in Trade /\ subs[work[i].sub].status # None
        /\ work[i].sub[2] = ThisSide(i).master /\ work[i].sides \in Seq(SideRow) /\ work[i].sides # << >>
    BY <1>1 DEF Hand, Row
  <2>2. ThisSide(i) = work[i].sides[1] /\ 1 \in DOMAIN work[i].sides
    BY <2>1 DEF ThisSide
  <2>3. QED
    BY <1>1, <2>1, <2>2 DEF Hand, Sub
<1>8. QED
  BY <1>1, <1>2, <1>3, <1>4, <1>5, <1>6, <1>7 DEF w

\* Unless a follower has subscribed to both sides, the order of his subscription and trade
\* is his only one.
LEMMA OneOrder ==
    ASSUME NEW f, NEW t, ~Crossed(f, t), NEW m \in Parties(t), NEW n \in Parties(t),
           m \in Master, n \in Master, subs[<<f, m>>].status # None, subs[<<f, n>>].status # None
    PROVE  m = n
BY DEF Crossed, Parties

LEMMA CreateKeeps ==
    ASSUME CopyInv, NEW i \in Instance, CreateOrder(i)
    PROVE  CopyInv'
<1>0. PICK s, t, f, order : s = work[i].sub /\ t = work[i].trade /\ f = s[1] /\ order = ThisOrder(i)
  OBVIOUS
<1>1. /\ failures \subseteq failures' /\ owed' = owed
      /\ UNCHANGED <<history, locks, processed, masters, known, subs, handling>>
      /\ work[i].pc = "placing" /\ work[i].pc \in AtSub
      /\ orders' \in {orders, IF orders[f][t] = NoRow THEN [orders EXCEPT ![f][t] = order] ELSE orders}
  BY <1>0, FaultGrows DEF CreateOrder, service, AtSub
<1>2. PICK step \in {"COMPLETED", "FAILED"} :
         /\ Goto(i, step)
         /\ step = "COMPLETED" =>
               orders' = IF orders[f][t] = NoRow THEN [orders EXCEPT ![f][t] = order] ELSE orders
  BY <1>0 DEF CreateOrder
<1> DEFINE w == [work[i] EXCEPT !.pc = step]
<1>3. /\ w \in Row({w.quantity}) /\ Becomes(i, w)
      /\ work'[i].pc = step /\ work'[i].trade = t /\ work'[i].sub = s
      /\ ThisOrder(i)' = order /\ ThisSide(i)' = ThisSide(i) /\ work'[i].todo = work[i].todo
      /\ \A j \in Instance \ {i} : work'[j] = work[j]
      /\ Hand(i)'
      /\ s \in Sub /\ f \in Follower /\ t \in Trade /\ s[2] \in Parties(t) /\ subs[s].status # None
  BY <1>0, <1>1, <1>2, Going DEF AtSub
<1>4. w.trade = t
  BY <1>0, WorkTypes DEF Row
<1> HIDE DEF w
<1>5. /\ order.sub = s /\ order # NoRow /\ s[1] = f /\ s = <<f, s[2]>> /\ s[2] \in Master
      /\ order.side = ThisSide(i).side /\ order.quantity = work[i].quantity
  BY <1>0, <1>3 DEF ThisOrder, NoRow, None, Sub
<1>6. /\ IsTable(orders', Follower, Trade)
      /\ \A g \in Follower, u \in Trade : orders[g][u] # NoRow => orders'[g][u] = orders[g][u]
      /\ \A g \in Follower, u \in Trade :
            orders'[g][u] = orders[g][u] \/ (g = f /\ u = t /\ orders[g][u] = NoRow /\ orders'[g][u] = order)
      /\ work'[i].pc = "COMPLETED" => orders'[f][t] # NoRow /\ (orders[f][t] = NoRow => orders'[f][t] = order)
  <2>1. CASE orders[f][t] = NoRow /\ orders' = [orders EXCEPT ![f][t] = order]
    <3>1. IsTable(orders, Follower, Trade) /\ f \in Follower /\ t \in Trade
      BY <1>3, WorkTypes
    <3>2. orders' = Put(orders, f, t, order)
      BY <2>1 DEF Put
    <3>3. /\ IsTable(orders', Follower, Trade) /\ orders'[f][t] = order
          /\ \A g \in Follower, u \in Trade : g # f \/ u # t => orders'[g][u] = orders[g][u]
      BY <3>1, <3>2, Updated
    <3>4. QED
      BY <1>5, <2>1, <3>3
  <2>2. CASE orders' = orders
    BY <1>1, <1>2, <1>3, <1>5, <2>1, <2>2, WorkTypes
  <2>3. QED
    BY <1>1, <2>1, <2>2
<1>7. OwedActive'
  BY <1>1 DEF CopyInv, OwedActive, Active
<1>8. OrderInv'
  <2> SUFFICES ASSUME NEW g \in Follower, NEW u \in Trade PROVE OrderTold(g, u)'
    BY DEF OrderInv
  <2>1. OrderTold(g, u)
    BY DEF CopyInv, OrderInv
  <2>2. QED
    BY <1>1, <1>3, <1>5, <1>6, <2>1 DEF OrderTold, Parties
<1>9. DueInv'
  <2>1. \A r \in Sub : Awaits(i, r) => Awaits(i, r)'
    BY <1>0, <1>1, <1>2, <1>3 DEF Awaits, AtSub
  <2>2. QED
    BY <1>0, <1>1, <1>3, <1>4, <2>1, DueStep
<1>10. LockInv'
  BY <1>0, <1>1, <1>3, Monotone DEF CopyInv, LockInv, HasLock
<1>11. ASSUME ~Interrupted'
       PROVE  Answered(i)' /\ \A r \in Sub, u \in Trade : RowTold(r, u)'
  <2>1. /\ \A j \in Instance : HasLock(j)
        /\ \A r \in Sub, u \in Trade : RowTold(r, u)
    BY <1>11, <1>1, Monotone DEF CopyInv, LockInv, TellInv
  <2>2. \A g, u : Crossed(g, u)' <=> Crossed(g, u)
    BY <1>1 DEF Crossed
  <2>3. Answered(i)'
    <3> SUFFICES ASSUME work'[i].pc = "COMPLETED", ~Crossed(f, t), ~(history[s][t] # NoRow), orders[f][t] # NoRow
                 PROVE  FALSE
      BY <1>0, <1>1, <1>3, <1>5, <1>6, <2>2 DEF Answered
    <3>1. OrderTold(f, t)
      BY <1>3 DEF CopyInv, OrderInv
    <3>2. PICK r \in Sub : /\ orders[f][t].sub = r /\ r[1] = f /\ r[2] \in Parties(t)
                           /\ subs[r].status # None /\ r = <<f, r[2]>> /\ r[2] \in Master
      BY <3>1 DEF OrderTold, Sub
    <3>3. r = s
      BY <1>3, <1>5, <3>2, OneOrder
    <3>4. Placed(s, t) /\ RowTold(s, t)
      BY <1>3, <1>5, <2>1, <3>2, <3>3 DEF Placed
    <3>5. PICK j \in Instance : work[j].pc \in {"COMPLETED", "FAILED"} /\ work[j].sub = s
      BY <1>5, <3>4 DEF RowTold, Recording
    <3>6. i = j
      <4>1. s # None /\ work[i].sub = s
        BY <1>0, <1>3, NoneAssumption DEF Sub, None
      <4>2. QED
        BY <2>1, <3>5, <4>1 DEF HasLock
    <3>7. QED
      BY <1>1, <3>5, <3>6
  <2>4. ASSUME NEW r \in Sub, NEW u \in Trade PROVE RowTold(r, u)'
    <3> SUFFICES /\ history[r][u].status = "COMPLETED" => Told(r, u)' \/ Crossed(r[1], u)
                 /\ Placed(r, u)' => history[r][u] # NoRow \/ Recording(r, u)'
      BY <1>1, <2>2 DEF RowTold
    <3>1. RowTold(r, u) /\ r[1] \in Follower
      BY <2>1 DEF Sub
    <3>2. history[r][u].status = "COMPLETED" => Told(r, u)' \/ Crossed(r[1], u)
      <4>1. Told(r, u) => orders[r[1]][u] # NoRow
        BY DEF Told, NoRow, None
      <4>2. QED
        BY <1>1, <1>6, <3>1, <4>1 DEF RowTold, Told
    <3>3. ASSUME Placed(r, u)' PROVE history[r][u] # NoRow \/ Recording(r, u)'
      <4>1. CASE Placed(r, u)
        <5>1. history[r][u] # NoRow \/ Recording(r, u)
          BY <3>1, <4>1 DEF RowTold
        <5>2. Recording(r, u) => Recording(r, u)'
          BY <1>1, <1>3 DEF Recording
        <5>3. QED
          BY <5>1, <5>2
      <4>2. CASE ~Placed(r, u)
        <5>1. r = s /\ u = t
          BY <1>5, <1>6, <3>1, <3>3, <4>2 DEF Placed
        <5>2. QED
          BY <1>2, <1>3, <5>1 DEF Recording
      <4>3. QED
        BY <4>1, <4>2
    <3>4. QED
      BY <3>2, <3>3
  <2>5. QED
    BY <2>3, <2>4
<1>12. QED
  BY <1>1, <1>3, <1>6, <1>7, <1>8, <1>9, <1>11, <1>10, WorkKeeps, ServiceTypes, WorkTypes

LEMMA WriteKeeps ==
    ASSUME CopyInv, NEW i \in Instance, WriteHistory(i)
    PROVE  CopyInv'
<1>0. PICK s, t, row, written :
         /\ s = work[i].sub /\ t = work[i].trade
         /\ row = [status |-> work[i].pc, side |-> ThisSide(i).side, quantity |-> work[i].quantity]
         /\ written = IF history[s][t] = NoRow THEN [history EXCEPT ![s][t] = row] ELSE history
  OBVIOUS
<1>1. /\ failures \subseteq failures' /\ owed' = owed
      /\ UNCHANGED <<orders, locks, processed, masters, known, subs, handling>>
      /\ work[i].pc \in {"SKIPPED", "COMPLETED", "FAILED"} /\ work[i].pc \in AtSub
      /\ history' \in {history, written}
      /\ ~Interrupted' \/ NothingLost' => history' = written /\ Goto(i, "releasing")
  <2>1. \/ history' = written /\ Goto(i, "releasing") /\ NoFault
        \/ history' \in {history, written} /\ Fault("history")
    BY <1>0 DEF WriteHistory
  <2>2. Fault("history") => Interrupted' /\ ~NothingLost'
    BY FaultGrows DEF Interrupted, NothingLost
  <2>3. QED
    BY <2>1, <2>2, FaultGrows DEF WriteHistory, service, AtSub
<1>2. PICK step \in {"FAILED", "releasing"} : Goto(i, step)
  BY DEF WriteHistory
<1> DEFINE w == [work[i] EXCEPT !.pc = step]
<1>3. /\ w \in Row({w.quantity}) /\ Becomes(i, w)
      /\ work'[i].pc = step /\ work'[i].trade = t /\ work'[i].sub = s
      /\ ThisSide(i)' = ThisSide(i) /\ work'[i].todo = work[i].todo
      /\ \A j \in Instance \ {i} : work'[j] = work[j]
      /\ Hand(i)'
      /\ s \in Sub /\ t \in Trade /\ s # None
  <2>1. step \in AtSub
    BY <1>2 DEF AtSub
  <2>2. None \notin Sub
    BY NoneAssumption DEF Sub, None
  <2>3. QED
    BY <1>0, <1>1, <1>2, <2>1, <2>2, Going
<1>4. w.trade = t
  BY <1>0, WorkTypes DEF Row
<1> HIDE DEF w
<1>5. row # NoRow /\ row.status = work[i].pc
  BY <1>0, <1>1 DEF NoRow, None
<1>6. /\ IsTable(history', Sub, Trade)
      /\ \A r \in Sub, u \in Trade : history[r][u] # NoRow => history'[r][u] = history[r][u]
      /\ \A r \in Sub, u \in Trade :
            history'[r][u] = history[r][u] \/ (r = s /\ u = t /\ history[r][u] = NoRow /\ history'[r][u] = row)
      /\ ~Interrupted' \/ NothingLost' => history'[s][t] # NoRow
  <2>1. CASE history[s][t] = NoRow /\ history' = [history EXCEPT ![s][t] = row]
    <3>1. IsTable(history, Sub, Trade) /\ s \in Sub /\ t \in Trade
      BY <1>3, WorkTypes
    <3>2. history' = Put(history, s, t, row)
      BY <2>1 DEF Put
    <3>3. /\ IsTable(history', Sub, Trade) /\ history'[s][t] = row
          /\ \A r \in Sub, u \in Trade : r # s \/ u # t => history'[r][u] = history[r][u]
      BY <3>1, <3>2, Updated
    <3>4. QED
      BY <1>5, <2>1, <3>3
  <2>2. CASE history' = history
    BY <1>0, <1>1, <1>3, <2>1, <2>2, WorkTypes
  <2>3. QED
    BY <1>0, <1>1, <2>1, <2>2
<1>7. OwedActive' /\ OrderInv'
  BY <1>1 DEF CopyInv, OwedActive, Active, OrderInv, OrderTold
<1>8. DueInv'
  <2>1. ASSUME NothingLost', NEW r \in Sub, NEW u \in Trade, u = t, Awaits(i, r)
        PROVE  Awaits(i, r)' \/ history'[r][u] # NoRow
    <3>1. "side" \notin {"SKIPPED", "COMPLETED", "FAILED"}
      OBVIOUS
    <3>2. QED
      BY <1>0, <1>1, <1>3, <1>6, <2>1, <3>1 DEF Awaits
  <2>2. QED
    BY <1>0, <1>1, <1>3, <1>4, <1>6, <2>1, DueStep
<1>9. LockInv'
  BY <1>0, <1>1, <1>3, Monotone DEF CopyInv, LockInv, HasLock
<1>10. ASSUME ~Interrupted'
      PROVE  Answered(i)' /\ \A r \in Sub, u \in Trade : RowTold(r, u)'
  <2>1. (\A r \in Sub, u \in Trade : RowTold(r, u)) /\ Answered(i)
    BY <1>10, <1>1, Monotone DEF CopyInv, TellInv
  <2>2. \A g, u : Crossed(g, u)' <=> Crossed(g, u)
    BY <1>1 DEF Crossed
  <2>3. Answered(i)'
    BY <1>2, <1>3 DEF Answered
  <2>4. ASSUME NEW r \in Sub, NEW u \in Trade PROVE RowTold(r, u)'
    <3> SUFFICES /\ history'[r][u].status = "COMPLETED" => Told(r, u)' \/ Crossed(r[1], u)
                 /\ Placed(r, u) => history'[r][u] # NoRow \/ Recording(r, u)'
      BY <1>1, <2>2 DEF RowTold, Placed
    <3>1. RowTold(r, u)
      BY <2>1
    <3>2. ASSUME history'[r][u].status = "COMPLETED", ~Crossed(r[1], u) PROVE Told(r, u)'
      <4>1. CASE history'[r][u] = history[r][u]
        BY <1>1, <3>1, <3>2, <4>1 DEF RowTold, Told
      <4>2. CASE r = s /\ u = t /\ history[r][u] = NoRow /\ history'[r][u] = row
        <5>1. orders[s[1]][t] = ThisOrder(i)
          BY <1>0, <1>5, <2>1, <3>2, <4>2 DEF Answered
        <5>2. /\ row.side = ThisSide(i).side /\ row.quantity = work[i].quantity
              /\ ThisOrder(i) = [status |-> "placed", sub |-> s, side |-> row.side, quantity |-> row.quantity]
          BY <1>0 DEF ThisOrder
        <5>3. QED
          BY <1>1, <3>2, <4>2, <5>1, <5>2 DEF Told
      <4>3. QED
        BY <1>6, <4>1, <4>2
    <3>3. ASSUME Placed(r, u) PROVE history'[r][u] # NoRow \/ Recording(r, u)'
      <4>1. history[r][u] # NoRow \/ Recording(r, u)
        BY <3>1, <3>3 DEF RowTold
      <4>2. CASE r = s /\ u = t
        BY <1>6, <1>10, <4>2
      <4>3. CASE r # s \/ u # t
        <5>1. Recording(r, u) => Recording(r, u)'
          BY <1>0, <1>3, <4>3 DEF Recording
        <5>2. QED
          BY <1>6, <4>1, <5>1
      <4>4. QED
        BY <4>2, <4>3
    <3>4. QED
      BY <3>2, <3>3
  <2>5. QED
    BY <2>3, <2>4
<1>11. QED
  BY <1>1, <1>3, <1>6, <1>7, <1>8, <1>10, <1>9, WorkKeeps, ServiceTypes, WorkTypes

LEMMA ReleaseKeeps ==
    ASSUME CopyInv, NEW i \in Instance, ReleaseLock(i)
    PROVE  CopyInv'
<1> DEFINE w == Leave(work[i])
<1>1. /\ Becomes(i, w) /\ failures \subseteq failures' /\ owed' = owed
      /\ UNCHANGED <<history, orders, processed, masters, known, subs, handling>>
      /\ work[i].pc = "releasing"
      /\ \/ locks' = locks
         \/ locks[work[i].sub[1]] = i /\ locks' = [locks EXCEPT ![work[i].sub[1]] = None]
  BY FaultGrows DEF ReleaseLock, service
<1>2. /\ work[i] \in Row({work[i].quantity}) /\ Hand(i)
      /\ "next" \notin AtSub /\ "releasing" \in AtSub
  BY WorkTypes DEF AtSub
<1>3. /\ w \in Row({w.quantity}) /\ w.pc = "next" /\ w.trade = work[i].trade /\ w.sub = None
      /\ w.sides = work[i].sides /\ w.todo = work[i].todo
  BY <1>2 DEF Row, Step, Leave
<1> HIDE DEF w
<1>4. work'[i] = w /\ \A j \in Instance \ {i} : work'[j] = work[j]
  BY <1>1, <1>3, Taken
<1>5. ThisSide(i)' = ThisSide(i)
  BY <1>3, <1>4 DEF ThisSide
<1>6. Hand(i)'
  BY <1>1, <1>2, <1>3, <1>4, <1>5 DEF Hand
<1>7. OwedActive' /\ OrderInv'
  BY <1>1 DEF CopyInv, OwedActive, Active, OrderInv, OrderTold
<1>8. DueInv'
  <2>1. \A s \in Sub : Awaits(i, s) => Awaits(i, s)'
    BY <1>1, <1>3, <1>4 DEF Awaits
  <2>2. QED
    BY <1>1, <1>3, <2>1, DueStep
<1>9. /\ locks' \in [Follower -> Instance \cup {None}]
      /\ \A f \in Follower : locks'[f] = locks[f] \/ locks[f] = i
  BY <1>1, WorkTypes
<1>10. LockInv'
  <2> SUFFICES ASSUME NoneExpired', NEW j \in Instance PROVE HasLock(j)'
    BY DEF LockInv
  <2>1. CASE j = i
    BY <1>3, <1>4, <2>1 DEF HasLock
  <2>2. CASE j # i
    <3>1. HasLock(j) /\ (work[j].sub # None => work[j].sub[1] \in Follower)
      BY <1>1, Monotone, WorkTypes DEF CopyInv, LockInv, Row, Sub
    <3>2. QED
      BY <1>4, <1>9, <2>2, <3>1 DEF HasLock
  <2>3. QED
    BY <2>1, <2>2
<1>11. ASSUME ~Interrupted'
       PROVE  Answered(i)' /\ \A s \in Sub, t \in Trade : RowTold(s, t)'
  <2>1. \A s \in Sub, t \in Trade : RowTold(s, t)
    BY <1>11, <1>1, Monotone DEF CopyInv, TellInv
  <2>2. Answered(i)'
    BY <1>3, <1>4 DEF Answered
  <2>3. ASSUME NEW s \in Sub, NEW t \in Trade PROVE RowTold(s, t)'
    <3>1. Recording(s, t) => Recording(s, t)'
      BY <1>1, <1>4 DEF Recording
    <3>2. RowTold(s, t) /\ (Crossed(s[1], t)' <=> Crossed(s[1], t))
      BY <1>1, <2>1 DEF Crossed
    <3>3. QED
      BY <1>1, <3>1, <3>2 DEF RowTold, Told, Placed
  <2>4. QED
    BY <2>2, <2>3
<1>12. QED
  BY <1>1, <1>3, <1>6, <1>7, <1>8, <1>9, <1>11, <1>10, WorkKeeps, ServiceTypes, WorkTypes

-----------------------------------------------------------------------------
(***************************************************************************)
(* The lock server.                                                        *)
(***************************************************************************)

LEMMA ExpireKeeps ==
    ASSUME CopyInv, NEW f \in Follower, Expire(f)
    PROVE  CopyInv'
<1>1. /\ failures \subseteq failures' /\ locks[f] # None /\ locks' = [locks EXCEPT ![f] = None]
      /\ UNCHANGED <<history, orders, processed, work, owed, masters, known, subs, handling>>
  BY FaultGrows DEF Expire, service
<1>2. locks \in [Follower -> Instance \cup {None}] /\ locks[f] \in Instance
  BY <1>1 DEF CopyInv, Shape
<1>3. Shape'
  BY <1>1, <1>2 DEF CopyInv, Shape
<1>4. \A i \in Instance : ThisSide(i)' = ThisSide(i) /\ ThisOrder(i)' = ThisOrder(i)
  BY <1>1 DEF ThisSide, ThisOrder
<1>5. HandInv' /\ OrderInv' /\ OwedActive'
  BY <1>1, <1>4 DEF CopyInv, HandInv, Hand, OrderInv, OrderTold, OwedActive, Active
<1>6. LockInv'
  <2> SUFFICES ASSUME NoneExpired', NEW i \in Instance, work[i].sub # None PROVE locks'[work[i].sub[1]] = i
    BY <1>1 DEF LockInv, HasLock
  <2>1. locks[work[i].sub[1]] = i /\ work[i].sub[1] \in Follower
    <3>1. work[i].sub \in Sub
      BY WorkTypes DEF Row
    <3>2. QED
      BY <1>1, <3>1, Monotone DEF CopyInv, LockInv, HasLock, Sub
  <2>2. work[i].sub[1] # f
    <3>1. work[i].sub[1] = f => Fault("expiry")
      BY <1>1, <2>1 DEF Expire
    <3>2. QED
      BY <3>1, FaultGrows DEF NoneExpired
  <2>3. QED
    BY <1>1, <1>2, <2>1, <2>2
<1>7. TellInv'
  <2>1. \A g, t : Crossed(g, t)' <=> Crossed(g, t)
    BY <1>1 DEF Crossed
  <2>2. \A i \in Instance : Answered(i)' <=> Answered(i)
    BY <1>1, <1>4, <2>1 DEF Answered
  <2>3. \A s \in Sub, t \in Trade : RowTold(s, t)' <=> RowTold(s, t)
    BY <1>1, <2>1 DEF RowTold, Told, Placed, Recording
  <2>4. QED
    BY <1>1, <2>2, <2>3, Monotone DEF CopyInv, TellInv
<1>8. DueInv'
  BY <1>1, Monotone DEF CopyInv, DueInv, Due, Awaits, ThisSide
<1>9. QED
  BY <1>3, <1>5, <1>6, <1>7, <1>8 DEF CopyInv

-----------------------------------------------------------------------------
(***************************************************************************)
(* What holds of every number of instances, masters, followers and trades. *)
(***************************************************************************)

LEMMA NextCopy == CopyInv /\ [Next]_vars => CopyInv'
<1> SUFFICES ASSUME CopyInv, [Next]_vars PROVE CopyInv'
  OBVIOUS
<1>1. ASSUME NEW i \in Instance,
             \/ \E m \in Master : RegisterMaster(i, m)
             \/ \E t \in Trade : Deliver(i, t)
             \/ ReadSubscribers(i) \/ SideDone(i) \/ AcquireLock(i) \/ ComputeQuantity(i)
             \/ CreateOrder(i) \/ WriteHistory(i) \/ ReleaseLock(i) \/ MarkProcessed(i)
             \/ Retry(i) \/ Restart(i)
      PROVE  CopyInv'
  BY <1>1, RegisterKeeps, DeliverKeeps, ReadKeeps, SideDoneKeeps, AcquireKeeps, ComputeKeeps,
     CreateKeeps, WriteKeeps, ReleaseKeeps, LetGoKeeps
<1>2. ASSUME NEW h \in Handler,
             \/ \E s \in Sub : (\E a \in Allocation : FindExisting(h, s, a)) \/ FindToCancel(h, s)
             \/ GuardOvercommit(h) \/ Activate(h) \/ Terminate(h) \/ CountCopier(h)
      PROVE  CopyInv'
  <2>1. CASE Activate(h)
    BY <2>1, ActivateKeeps
  <2>2. CASE Terminate(h)
    BY <2>2, TerminateKeeps
  <2>3. CASE \/ \E s \in Sub : (\E a \in Allocation : FindExisting(h, s, a)) \/ FindToCancel(h, s)
             \/ GuardOvercommit(h) \/ CountCopier(h)
    BY <2>3, ReadingKeeps
  <2>4. QED
    BY <1>2, <2>1, <2>2, <2>3
<1>3. CASE UNCHANGED vars
  <2>1. UNCHANGED <<history, orders, locks, processed, work, owed, masters, known, subs, handling, failures>>
    BY <1>3 DEF vars, consumer, service
  <2>2. \A x \in owed' : Active(x[1])'
    BY <2>1, ServiceTypes DEF Active
  <2>3. QED
    BY <2>1, <2>2, ServiceTypes, ServiceKeeps
<1>4. QED
  BY <1>1, <1>2, <1>3, ExpireKeeps DEF Next

LEMMA CopyInvariant == Spec => []CopyInv
BY InitCopy, NextCopy, PTL DEF Spec

\* Unless an instance stops between an order and its row, a row is lost or a lock expires
\* under its owner: however often trades are delivered and to whomever, a row of
\* copy_orders_history that is completed tells the order there is, and an order has a row.
THEOREM CopyHistoryTellsOrders == Spec => []HistoryTellsOrders
<1>1. CopyInv => HistoryTellsOrders
  BY DEF CopyInv, TellInv, RowTold, HistoryTellsOrders
<1>2. QED
  BY <1>1, CopyInvariant, PTL

\* Unless a lock cannot be asked for or a row is lost: a trade in processed_events was
\* copied to every active subscription that was read for it, although an instance may stop
\* at any step and another may go on.
THEOREM CopyProcessedIsCopied == Spec => []ProcessedIsCopied
<1>1. CopyInv => ProcessedIsCopied
  BY DEF CopyInv, DueInv, Due, NothingLost, Parties, ProcessedIsCopied
<1>2. QED
  BY <1>1, CopyInvariant, PTL

\* No two instances work for one follower at a time, whatever stops or fails, unless a lock
\* expires under its owner.
THEOREM CopyOneAtATime ==
    Spec => [](NoneExpired => \A i, j \in Instance :
        work[i].sub # None /\ work[j].sub # None /\ work[i].sub[1] = work[j].sub[1] => i = j)
<1>1. CopyInv => (NoneExpired => \A i, j \in Instance :
        work[i].sub # None /\ work[j].sub # None /\ work[i].sub[1] = work[j].sub[1] => i = j)
  BY DEF CopyInv, LockInv, HasLock
<1>2. QED
  BY <1>1, CopyInvariant, PTL

-----------------------------------------------------------------------------
(***************************************************************************)
(* What a subscription sells.                                              *)
(***************************************************************************)

\* Quantities of orders, and of rows that tell one, are numbers.
Counted ==
    /\ \A f \in Follower, t \in Trade : orders[f][t] # NoRow => orders[f][t].quantity \in Nat
    /\ \A s \in Sub, t \in Trade :
          history[s][t].status = "COMPLETED" => history[s][t].quantity \in Nat /\ orders[s[1]][t] # NoRow

InHand(i) ==
    /\ work[i].pc \in {"placing", "COMPLETED"} => work[i].quantity \in Nat \ {0}
    /\ work[i].pc = "COMPLETED" => orders[work[i].sub[1]][work[i].trade] # NoRow

\* What is about to be sold is still there, as far as the history says.
Fits(i) ==
    work[i].pc = "placing" /\ ThisSide(i).side = "SELL" =>
        Recorded(work[i].sub, "SELL") + work[i].quantity <= Recorded(work[i].sub, "BUY")

SellInv ==
    /\ Counted
    /\ \A i \in Instance : InHand(i)
    /\ ~Interrupted => \A i \in Instance : Fits(i)
    /\ NeverOversells

LEMMA Quotients ==
    ASSUME NEW p \in Nat, NEW k \in Int, NEW n \in Nat \ {0}
    PROVE  k \div n \in Int /\ (k <= p * n => k \div n <= p)
<1> DEFINE d == k \div n
<1>1. d \in Int /\ d * n <= k
  OBVIOUS
<1> HIDE DEF d
<1>2. ASSUME k <= p * n PROVE d <= p
  <2> SUFFICES ASSUME d >= p + 1 PROVE FALSE
    BY <1>1
  <2>1. d * n >= (p + 1) * n
    BY <1>1
  <2>2. (p + 1) * n = p * n + n
    OBVIOUS
  <2>3. p * n \in Int /\ d * n \in Int
    BY <1>1
  <2>4. QED
    BY <1>1, <1>2, <2>1, <2>2, <2>3
<1>3. QED
  BY <1>1, <1>2 DEF d

LEMMA RatioIsNumber ==
    ASSUME NEW a \in Nat, NEW b \in Nat \ {0}
    PROVE  Ratio(a, b) \in Int
<1>1. a * RatioScale \in Nat
  BY RatioAssumption
<1>2. 2 * a * RatioScale + b \in Int /\ 2 * b \in Nat \ {0}
  BY <1>1, RatioAssumption
<1>3. QED
  BY <1>2, Quotients DEF Ratio

\* calculateBuyQuantity returns a number, and calculateSellQuantity no more than the
\* position.
LEMMA QuantitiesFit ==
    ASSUME NEW q \in Nat, NEW b \in Nat, NEW a \in Nat, NEW bought \in Nat, NEW sold \in Nat
    PROVE  /\ BuyQuantity(q, b, a) \in Int
           /\ LET x == SellQuantity(q, b, SubPosition(bought, sold))
              IN  x \in Int /\ (x > 0 => sold + x <= bought)
<1>1. BuyQuantity(q, b, a) \in Int
  <2>1. CASE b = 0 \/ a = 0 \/ q = 0
    BY <2>1 DEF BuyQuantity
  <2>2. CASE b # 0 /\ a # 0 /\ q # 0
    <3>1. Ratio(a, b) \in Int
      BY <2>2, RatioIsNumber
    <3>2. q * Ratio(a, b) \in Int
      BY <3>1
    <3>3. (q * Ratio(a, b)) \div RatioScale \in Int
      BY <3>2, RatioAssumption, Quotients
    <3>4. QED
      BY <2>2, <3>3 DEF BuyQuantity
  <2>3. QED
    BY <2>1, <2>2
<1>2. PICK p : p = SubPosition(bought, sold)
  OBVIOUS
<1>3. p \in Nat /\ (p > 0 => sold + p = bought)
  BY <1>2 DEF SubPosition
<1>4. SellQuantity(q, b, p) \in Int /\ SellQuantity(q, b, p) <= p
  <2>1. CASE b = 0 \/ p = 0 \/ q = 0
    BY <1>3, <2>1 DEF SellQuantity
  <2>2. CASE b # 0 /\ p # 0 /\ q # 0
    <3>1. PICK whole, part : whole = p * RatioScale /\ part = p * Ratio(q, b)
      OBVIOUS
    <3>2. whole \in Int /\ part \in Int
      <4>1. Ratio(q, b) \in Int
        BY <2>2, RatioIsNumber
      <4>2. QED
        BY <1>3, <3>1, <4>1, RatioAssumption
    <3>3. PICK k \in Int : k = (IF part < whole THEN part ELSE whole) /\ k <= p * RatioScale
      BY <3>1, <3>2
    <3>4. SellQuantity(q, b, p) = k \div RatioScale
      BY <2>2, <3>1, <3>3 DEF SellQuantity
    <3>5. QED
      BY <1>3, <3>3, <3>4, RatioAssumption, Quotients
  <2>3. QED
    BY <2>1, <2>2
<1>5. QED
  BY <1>1, <1>2, <1>3, <1>4

LEMMA TradesFinite == IsFiniteSet(Trade)
BY TermsAssumption

LEMMA AmountsCount ==
    ASSUME Counted, NEW s \in Sub
    PROVE  \A side : \A t \in Trade : RecordedOf(s, side, t) \in Nat /\ OrderedOf(s, side, t) \in Nat
<1>1. s[1] \in Follower
  BY DEF Sub
<1>2. QED
  BY <1>1 DEF Counted, RecordedOf, OrderedOf, Placed

\* The sums are numbers.
LEMMA TotalsCount ==
    ASSUME Counted, NEW s \in Sub, NEW side
    PROVE  Recorded(s, side) \in Nat /\ Ordered(s, side) \in Nat
<1> DEFINE r == [t \in Trade |-> RecordedOf(s, side, t)]
           o == [t \in Trade |-> OrderedOf(s, side, t)]
<1>1. \A t \in Trade : r[t] \in Nat /\ o[t] \in Nat
  BY AmountsCount
<1>2. /\ Recorded(s, side) = SumFunctionOnSet(r, Trade)
      /\ Ordered(s, side) = SumFunctionOnSet(o, Trade)
  BY DEF Recorded, Ordered, SumFunction
<1> HIDE DEF r, o
<1>3. SumFunctionOnSet(r, Trade) \in Nat /\ SumFunctionOnSet(o, Trade) \in Nat
  BY <1>1, TradesFinite, SumNat
<1>4. QED
  BY <1>2, <1>3

\* Of a subscription whose history agrees with its orders, and misses none, the history
\* tells at least the sales and at most the purchases.
LEMMA HistoryTotals ==
    ASSUME Counted, NEW s \in Sub, Agrees(s), \A t \in Trade : Placed(s, t) => history[s][t] # NoRow
    PROVE  Ordered(s, "SELL") <= Recorded(s, "SELL") /\ Recorded(s, "BUY") <= Ordered(s, "BUY")
<1> DEFINE R(side) == [t \in Trade |-> RecordedOf(s, side, t)]
           O(side) == [t \in Trade |-> OrderedOf(s, side, t)]
<1>1. NoRow.status # "COMPLETED"
  BY DEF NoRow, None
<1>2. \A t \in Trade : /\ Placed(s, t) => Told(s, t)
                       /\ history[s][t].status = "COMPLETED" => Told(s, t)
  BY <1>1 DEF Agrees
<1>3. \A t \in Trade : Told(s, t) => /\ orders[s[1]][t].side = history[s][t].side
                                     /\ orders[s[1]][t].quantity = history[s][t].quantity
                                     /\ history[s][t].status = "COMPLETED"
                                     /\ Placed(s, t)
  BY DEF Told, Placed, NoRow, None
<1>4. \A side : \A t \in Trade : OrderedOf(s, side, t) = RecordedOf(s, side, t)
  BY <1>2, <1>3 DEF OrderedOf, RecordedOf
<1>5. \A side : Ordered(s, side) = Recorded(s, side)
  BY <1>4 DEF Ordered, Recorded
<1>6. QED
  BY <1>5, TotalsCount

\* A history that disagrees with the orders will always do.
LEMMA AgreedBefore ==
    ASSUME Counted, NEW s \in Sub, Agrees(s)',
           \A t \in Trade : history[s][t] # NoRow => history'[s][t] = history[s][t],
           \A t \in Trade : orders[s[1]][t] # NoRow => orders'[s[1]][t] = orders[s[1]][t]
    PROVE  Agrees(s)
<1> SUFFICES ASSUME NEW t \in Trade, Placed(s, t) \/ history[s][t].status = "COMPLETED", history[s][t] # NoRow
             PROVE  Told(s, t)
  BY DEF Agrees
<1>1. orders[s[1]][t] # NoRow
  BY DEF Placed, Counted
<1>2. history'[s][t] = history[s][t] /\ orders'[s[1]][t] = orders[s[1]][t]
  BY <1>1
<1>3. Placed(s, t)' \/ history'[s][t].status = "COMPLETED"
  BY <1>2 DEF Placed
<1>4. Told(s, t)'
  BY <1>2, <1>3 DEF Agrees
<1>5. QED
  BY <1>2, <1>4 DEF Told

\* A step that writes no order and no row.
LEMMA QuietSells ==
    ASSUME CopyInv, SellInv, UNCHANGED <<history, orders>>, failures \subseteq failures',
           \A i \in Instance : \/ work'[i] = work[i]
                               \/ work'[i].pc \notin {"placing", "COMPLETED"}
                               \/ work'[i].pc # "COMPLETED" /\ work'[i].quantity \in Nat \ {0}
                                  /\ (~Interrupted => Fits(i)')
    PROVE  SellInv'
<1>1. Counted'
  BY DEF SellInv, Counted
<1>2. ASSUME NEW i \in Instance PROVE InHand(i)'
  BY DEF SellInv, InHand
<1>3. ASSUME ~Interrupted', NEW i \in Instance PROVE Fits(i)'
  <2>1. Fits(i) /\ ~Interrupted
    BY <1>3, Monotone DEF SellInv
  <2>2. CASE work'[i] = work[i]
    <3>1. PICK s : s = work[i].sub
      OBVIOUS
    <3>2. \A side : Recorded(s, side)' = Recorded(s, side)
      BY DEF Recorded, RecordedOf
    <3>3. ThisSide(i)' = ThisSide(i) /\ work'[i].sub = s
      BY <2>2, <3>1 DEF ThisSide
    <3>4. QED
      BY <2>1, <2>2, <3>1, <3>2, <3>3 DEF Fits
  <2>3. CASE work'[i].pc \notin {"placing", "COMPLETED"}
    BY <2>3 DEF Fits
  <2>4. QED
    BY <2>1, <2>2, <2>3
<1>4. NeverOversells'
  <2>1. \A s \in Sub : (Agrees(s)' <=> Agrees(s)) /\ \A side : Ordered(s, side)' = Ordered(s, side)
    BY DEF Agrees, Ordered, OrderedOf, Placed, Told
  <2>2. QED
    BY <2>1, Monotone DEF SellInv, NeverOversells
<1>5. QED
  BY <1>1, <1>2, <1>3, <1>4 DEF SellInv

LEMMA ComputeSells ==
    ASSUME CopyInv, SellInv, NEW i \in Instance, ComputeQuantity(i)
    PROVE  SellInv'
<1> DEFINE s == work[i].sub
           x == QuantityFor(i)
<1>1. /\ UNCHANGED <<history, orders>> /\ failures \subseteq failures' /\ work[i].pc = "locked"
      /\ Becomes(i, [work[i] EXCEPT !.quantity = x, !.pc = IF IsDust(x) THEN "SKIPPED" ELSE "placing"])
  BY FaultGrows DEF ComputeQuantity
<1>2. work[i] \in Row({work[i].quantity}) /\ Hand(i) /\ work \in [Instance -> Row({work[j].quantity : j \in Instance})]
  BY WorkTypes DEF CopyInv, Shape
<1>3. work[i].trade \in Trade /\ s \in Sub /\ work[i].balance \in Nat /\ work[i].allocated \in Nat
  BY <1>1, <1>2 DEF Hand, Row, AtSub
<1> HIDE DEF x
<1>4. /\ work'[i].quantity = x /\ work'[i].sub = s /\ work'[i].sides = work[i].sides
      /\ work'[i].pc = IF IsDust(x) THEN "SKIPPED" ELSE "placing"
      /\ \A j \in Instance \ {i} : work'[j] = work[j]
  BY <1>1, <1>2 DEF Becomes, Row
<1>5. ThisSide(i)' = ThisSide(i)
  BY <1>4 DEF ThisSide
<1>6. x \in Int /\ (ThisSide(i).side # "BUY" /\ x > 0 => Recorded(s, "SELL") + x <= Recorded(s, "BUY"))
  <2>1. TermsOf[work[i].trade].quantity \in Nat
    BY <1>3, TermsAssumption
  <2>2. Recorded(s, "SELL") \in Nat /\ Recorded(s, "BUY") \in Nat
    BY <1>3, TotalsCount DEF SellInv
  <2> DEFINE q == TermsOf[work[i].trade].quantity
             b == work[i].balance
             a == work[i].allocated
             bought == Recorded(s, "BUY")
             sold == Recorded(s, "SELL")
  <2>3. x = IF ThisSide(i).side = "BUY" THEN BuyQuantity(q, b, a) ELSE SellQuantity(q, b, SubPosition(bought, sold))
    BY DEF x, QuantityFor
  <2> HIDE DEF q, b, a, bought, sold
  <2>4. q \in Nat /\ b \in Nat /\ a \in Nat /\ bought \in Nat /\ sold \in Nat
    BY <1>3, <2>1, <2>2 DEF q, b, a, bought, sold
  <2>5. x \in Int /\ (ThisSide(i).side # "BUY" /\ x > 0 => sold + x <= bought)
    BY <2>3, <2>4, QuantitiesFit
  <2>6. QED
    BY <2>5 DEF bought, sold
<1>7. work'[i].pc = "placing" => x \in Nat \ {0}
  BY <1>4, <1>6, BalancesAssumption DEF IsDust
<1>8. work'[i].pc = "placing" => Fits(i)'
  <2> SUFFICES ASSUME work'[i].pc = "placing", ThisSide(i).side = "SELL"
               PROVE  Recorded(work[i].sub, "SELL")' + x <= Recorded(work[i].sub, "BUY")'
    BY <1>4, <1>5 DEF Fits
  <2>1. x > 0
    BY <1>7
  <2>2. PICK r : r = s
    OBVIOUS
  <2>3. \A side : Recorded(r, side)' = Recorded(r, side)
    BY <1>1 DEF Recorded, RecordedOf
  <2>4. QED
    BY <1>4, <1>6, <2>1, <2>2, <2>3
<1>9. work'[i].pc \in {"SKIPPED", "placing"}
  BY <1>4
<1>10. QED
  BY <1>1, <1>4, <1>7, <1>8, <1>9, QuietSells

\* The order service places an order: it may be of a sale that fits.
LEMMA CreateSells ==
    ASSUME CopyInv, SellInv, NEW i \in Instance, CreateOrder(i)
    PROVE  SellInv'
<1>0. PICK s, t, f, order : s = work[i].sub /\ t = work[i].trade /\ f = s[1] /\ order = ThisOrder(i)
  OBVIOUS
<1>1. /\ failures \subseteq failures' /\ UNCHANGED history
      /\ work[i].pc = "placing" /\ work[i].pc \in AtSub
      /\ orders' \in {orders, IF orders[f][t] = NoRow THEN [orders EXCEPT ![f][t] = order] ELSE orders}
  BY <1>0, FaultGrows DEF CreateOrder, AtSub
<1>2. PICK step \in {"COMPLETED", "FAILED"} :
         /\ Goto(i, step)
         /\ step = "COMPLETED" =>
               orders' = IF orders[f][t] = NoRow THEN [orders EXCEPT ![f][t] = order] ELSE orders
  BY <1>0 DEF CreateOrder
<1>3. /\ work'[i].pc = step /\ work'[i].trade = t /\ work'[i].sub = s
      /\ \A j \in Instance \ {i} : work'[j] = work[j]
      /\ s \in Sub /\ f \in Follower /\ t \in Trade
      /\ IsTable(orders, Follower, Trade)
      /\ work'[i].quantity = work[i].quantity
  <2>1. work'[i] = [work[i] EXCEPT !.pc = step] /\ work[i] \in Row({work[i].quantity})
    BY <1>2, WorkTypes DEF Goto, Becomes, CopyInv, Shape
  <2>2. work'[i].quantity = work[i].quantity
    BY <2>1 DEF Row
  <2>3. QED
    BY <1>0, <1>1, <1>2, <2>2, Going, WorkTypes DEF AtSub, Sub
<1>4. order.sub = s /\ order # NoRow /\ order.side = ThisSide(i).side /\ order.quantity = work[i].quantity
  BY <1>0 DEF ThisOrder, NoRow, None
<1>5. order.quantity \in Nat \ {0}
  BY <1>1, <1>4 DEF SellInv, InHand
<1>6. /\ \A g \in Follower, u \in Trade : orders[g][u] # NoRow => orders'[g][u] = orders[g][u]
      /\ \A g \in Follower, u \in Trade : g # f \/ u # t => orders'[g][u] = orders[g][u]
      /\ \/ orders'[f][t] = orders[f][t]
         \/ orders[f][t] = NoRow /\ orders'[f][t] = order
      /\ work'[i].pc = "COMPLETED" => orders'[f][t] # NoRow
  <2>1. CASE orders[f][t] = NoRow /\ orders' = [orders EXCEPT ![f][t] = order]
    <3>1. orders' = Put(orders, f, t, order)
      BY <2>1 DEF Put
    <3>2. /\ orders'[f][t] = order
          /\ \A g \in Follower, u \in Trade : g # f \/ u # t => orders'[g][u] = orders[g][u]
      BY <1>3, <3>1, Updated
    <3>3. QED
      BY <1>4, <2>1, <3>2
  <2>2. CASE orders' = orders
    BY <1>1, <1>2, <1>3, <1>4, <2>1, <2>2
  <2>3. QED
    BY <1>1, <2>1, <2>2
<1>7. Counted'
  <2>1. \A g \in Follower, u \in Trade : orders'[g][u] # NoRow => orders'[g][u].quantity \in Nat
    BY <1>5, <1>6 DEF SellInv, Counted
  <2>2. \A r \in Sub : r[1] \in Follower
    BY DEF Sub
  <2>3. QED
    BY <1>1, <1>6, <2>1, <2>2 DEF SellInv, Counted
<1>8. ASSUME NEW j \in Instance PROVE InHand(j)'
  <2>1. CASE j = i
    BY <1>0, <1>3, <1>4, <1>5, <1>6, <2>1 DEF InHand
  <2>2. CASE j # i
    <3>1. work'[j] = work[j] /\ InHand(j)
      BY <1>3, <2>2 DEF SellInv
    <3>2. work[j].pc = "COMPLETED" => work[j].sub[1] \in Follower /\ work[j].trade \in Trade
      BY WorkTypes DEF Hand, Row, AtSub, Sub
    <3>3. QED
      BY <1>6, <3>1, <3>2 DEF InHand
  <2>3. QED
    BY <2>1, <2>2
<1>9. \A r, side : Recorded(r, side)' = Recorded(r, side)
  BY <1>1 DEF Recorded, RecordedOf
<1>10. ASSUME ~Interrupted', NEW j \in Instance PROVE Fits(j)'
  <2>1. CASE j = i
    BY <1>2, <1>3, <2>1 DEF Fits
  <2>2. CASE j # i
    <3>1. PICK r : r = work[j].sub
      OBVIOUS
    <3>2. work'[j] = work[j] /\ Fits(j) /\ ThisSide(j)' = ThisSide(j) /\ work'[j].sub = r
      BY <1>1, <1>3, <1>10, <2>2, <3>1, Monotone DEF SellInv, ThisSide
    <3>3. QED
      BY <1>9, <3>1, <3>2 DEF Fits
  <2>3. QED
    BY <2>1, <2>2
<1>11. ASSUME ~Interrupted', NEW r \in Sub, Agrees(r)' PROVE (Ordered(r, "SELL") <= Ordered(r, "BUY"))'
  <2> DEFINE O(side) == [u \in Trade |-> OrderedOf(r, side, u)]
  <2>0. r[1] \in Follower /\ Counted
    BY DEF Sub, SellInv
  <2>1. Agrees(r)
    BY <1>1, <1>6, <1>11, <2>0, AgreedBefore
  <2>2. Ordered(r, "SELL") <= Ordered(r, "BUY")
    BY <1>1, <1>11, <2>1, Monotone DEF SellInv, NeverOversells
  <2>3. \A side : Ordered(r, side) \in Nat /\ Ordered(r, side)' \in Nat
    <3>1. PICK k : k = r
      OBVIOUS
    <3>2. \A side : Ordered(r, side)' \in Nat
      <4>1. \A side : \A u \in Trade : OrderedOf(r, side, u)' \in Nat
        BY <1>7, <2>0 DEF Counted, OrderedOf, Placed
      <4> TAKE side
      <4> DEFINE o == [u \in Trade |-> OrderedOf(r, side, u)']
      <4>2. Ordered(r, side)' = SumFunctionOnSet(o, Trade)
        BY DEF Ordered, SumFunction
      <4>3. \A u \in Trade : o[u] \in Nat
        BY <4>1
      <4> HIDE DEF o
      <4>4. SumFunctionOnSet(o, Trade) \in Nat
        BY <4>3, TradesFinite, SumNat
      <4>5. QED
        BY <4>2, <4>4
    <3>3. QED
      BY <2>0, <3>2, TotalsCount
  \* The order is one of r, for the side it is on.
  <2>4. ASSUME NEW side, ~(r = s /\ orders[f][t] = NoRow /\ orders'[f][t] = order /\ order.side = side)
        PROVE  Ordered(r, side)' = Ordered(r, side)
    <3>1. \A u \in Trade : OrderedOf(r, side, u)' = OrderedOf(r, side, u)
      <4> TAKE u \in Trade
      <4>1. CASE orders'[r[1]][u] = orders[r[1]][u]
        BY <4>1 DEF OrderedOf, Placed
      <4>2. CASE r[1] = f /\ u = t /\ orders[f][t] = NoRow /\ orders'[f][t] = order
        BY <1>4, <2>4, <4>2 DEF OrderedOf, Placed
      <4>3. QED
        BY <1>6, <2>0, <4>1, <4>2
    <3>2. QED
      BY <3>1 DEF Ordered
  <2>5. ASSUME NEW side, r = s, orders[f][t] = NoRow, orders'[f][t] = order, order.side = side
        PROVE  Ordered(r, side)' = Ordered(r, side) + order.quantity
    <3> DEFINE o == [u \in Trade |-> OrderedOf(r, side, u)]
               p == [u \in Trade |-> OrderedOf(r, side, u)']
    <3>1. /\ Ordered(r, side) = SumFunctionOnSet(o, Trade)
          /\ Ordered(r, side)' = SumFunctionOnSet(p, Trade)
      BY DEF Ordered, SumFunction
    <3>2. \A u \in Trade : o[u] \in Int /\ p[u] \in Int
      <4>1. \A u \in Trade : OrderedOf(r, side, u)' \in Nat
        BY <1>7, <2>0 DEF Counted, OrderedOf, Placed
      <4>2. QED
        BY <2>0, <4>1, AmountsCount
    <3>3. \A u \in Trade \ {t} : p[u] = o[u]
      BY <1>6, <2>0 DEF OrderedOf, Placed
    <3>4. o[t] = 0 /\ p[t] = order.quantity
      BY <1>0, <1>3, <1>4, <2>5 DEF OrderedOf, Placed
    <3> HIDE DEF o, p
    <3>5. SumFunctionOnSet(p, Trade) = SumFunctionOnSet(o, Trade) + (p[t] - o[t])
      BY <1>3, <3>2, <3>3, TradesFinite, SumChange
    <3>6. SumFunctionOnSet(o, Trade) \in Nat
      BY <2>3, <3>1
    <3>7. QED
      BY <1>5, <3>1, <3>4, <3>5, <3>6
  <2>6. CASE r = s /\ orders[f][t] = NoRow /\ orders'[f][t] = order /\ order.side = "SELL"
    <3>1. \A u \in Trade : Placed(r, u) => history[r][u] # NoRow
      <4> SUFFICES ASSUME NEW u \in Trade, Placed(r, u), ~(history[r][u] # NoRow) PROVE FALSE
        OBVIOUS
      <4>1. ~Interrupted /\ NoneExpired
        BY <1>1, <1>11, Monotone
      <4>2. (\A j \in Instance : HasLock(j)) /\ RowTold(r, u)
        BY <4>1 DEF CopyInv, LockInv, TellInv
      <4>3. PICK j \in Instance : work[j].pc \in {"COMPLETED", "FAILED"} /\ work[j].sub = s
        BY <2>6, <4>2 DEF RowTold, Recording
      <4>4. s # None
        BY <1>3, NoneAssumption DEF Sub, None
      <4>5. i = j
        BY <1>0, <4>2, <4>3, <4>4 DEF HasLock
      <4>6. QED
        BY <1>1, <4>3, <4>5
    <3>2. Ordered(r, "SELL") <= Recorded(r, "SELL") /\ Recorded(r, "BUY") <= Ordered(r, "BUY")
      BY <2>0, <2>1, <3>1, HistoryTotals
    <3>3. Recorded(r, "SELL") + order.quantity <= Recorded(r, "BUY")
      BY <1>0, <1>1, <1>4, <1>11, <2>6, Monotone DEF SellInv, Fits
    <3>4. Ordered(r, "SELL")' = Ordered(r, "SELL") + order.quantity /\ Ordered(r, "BUY")' = Ordered(r, "BUY")
      BY <2>4, <2>5, <2>6
    <3>5. Recorded(r, "SELL") \in Nat /\ Recorded(r, "BUY") \in Nat
      BY <2>0, TotalsCount
    <3>6. QED
      BY <1>5, <2>3, <3>2, <3>3, <3>4, <3>5
  <2>7. CASE ~(r = s /\ orders[f][t] = NoRow /\ orders'[f][t] = order /\ order.side = "SELL")
    <3>1. Ordered(r, "SELL")' = Ordered(r, "SELL")
      BY <2>4, <2>7
    <3>2. Ordered(r, "BUY")' >= Ordered(r, "BUY")
      BY <1>5, <2>3, <2>4, <2>5
    <3>3. QED
      BY <2>2, <2>3, <3>1, <3>2
  <2>8. QED
    BY <2>6, <2>7
<1>12. NeverOversells'
  BY <1>11 DEF NeverOversells
<1>13. QED
  BY <1>7, <1>8, <1>10, <1>12 DEF SellInv

\* The row is of a subscription that no one else computes a quantity for.
LEMMA WriteSells ==
    ASSUME CopyInv, SellInv, NEW i \in Instance, WriteHistory(i)
    PROVE  SellInv'
<1>0. PICK s, t, row, written :
         /\ s = work[i].sub /\ t = work[i].trade
         /\ row = [status |-> work[i].pc, side |-> ThisSide(i).side, quantity |-> work[i].quantity]
         /\ written = IF history[s][t] = NoRow THEN [history EXCEPT ![s][t] = row] ELSE history
  OBVIOUS
<1>1. /\ failures \subseteq failures' /\ UNCHANGED orders
      /\ work[i].pc \in {"SKIPPED", "COMPLETED", "FAILED"} /\ work[i].pc \in AtSub
      /\ history' \in {history, written}
  BY <1>0, FaultGrows DEF WriteHistory, AtSub
<1>2. PICK step \in {"FAILED", "releasing"} : Goto(i, step)
  BY DEF WriteHistory
<1>3. /\ work'[i].pc = step /\ \A j \in Instance \ {i} : work'[j] = work[j]
      /\ s \in Sub /\ t \in Trade /\ IsTable(history, Sub, Trade)
  BY <1>0, <1>1, <1>2, Going, WorkTypes DEF AtSub
<1>4. row.status = work[i].pc /\ row.quantity = work[i].quantity
  BY <1>0
<1>5. /\ \A r \in Sub, u \in Trade : r # s \/ u # t => history'[r][u] = history[r][u]
      /\ \/ history'[s][t] = history[s][t]
         \/ history[s][t] = NoRow /\ history'[s][t] = row
  <2>1. CASE history[s][t] = NoRow /\ history' = [history EXCEPT ![s][t] = row]
    <3>1. history' = Put(history, s, t, row)
      BY <2>1 DEF Put
    <3>2. QED
      BY <1>3, <2>1, <3>1, Updated
  <2>2. CASE history' = history
    BY <2>2
  <2>3. QED
    BY <1>0, <1>1, <2>1, <2>2
<1>6. Counted'
  <2>1. row.status = "COMPLETED" => row.quantity \in Nat /\ orders[s[1]][t] # NoRow
    BY <1>0, <1>4 DEF SellInv, InHand
  <2>2. QED
    BY <1>1, <1>5, <2>1 DEF SellInv, Counted
<1>7. ASSUME NEW j \in Instance PROVE InHand(j)'
  BY <1>1, <1>2, <1>3 DEF SellInv, InHand
<1>8. ASSUME ~Interrupted', NEW j \in Instance PROVE Fits(j)'
  <2>1. CASE j = i
    BY <1>2, <1>3, <2>1 DEF Fits
  <2>2. CASE j # i
    <3> SUFFICES ASSUME work[j].pc = "placing" PROVE Fits(j)'
      BY <1>3, <2>2 DEF Fits
    <3>1. PICK r : r = work[j].sub
      OBVIOUS
    <3>2. r \in Sub
      BY <3>1, WorkTypes DEF Hand, Row, AtSub
    <3>3. r # s
      <4>1. HasLock(i) /\ HasLock(j)
        BY <1>1, <1>8, Monotone DEF CopyInv, LockInv
      <4>2. r # None
        BY <3>2, NoneAssumption DEF Sub, None
      <4>3. QED
        BY <1>0, <2>2, <3>1, <4>1, <4>2 DEF HasLock
    <3>4. \A side : \A u \in Trade : RecordedOf(r, side, u)' = RecordedOf(r, side, u)
      BY <1>5, <3>2, <3>3 DEF RecordedOf
    <3>5. \A side : Recorded(r, side)' = Recorded(r, side)
      BY <3>4 DEF Recorded
    <3>6. work'[j] = work[j] /\ Fits(j) /\ ThisSide(j)' = ThisSide(j) /\ work'[j].sub = r
      BY <1>1, <1>3, <1>8, <2>2, <3>1, Monotone DEF SellInv, ThisSide
    <3>7. QED
      BY <3>1, <3>5, <3>6 DEF Fits
  <2>3. QED
    BY <2>1, <2>2
<1>9. ASSUME ~Interrupted', NEW r \in Sub, Agrees(r)' PROVE (Ordered(r, "SELL") <= Ordered(r, "BUY"))'
  <2>1. Agrees(r)
    BY <1>1, <1>5, <1>9, AgreedBefore DEF SellInv
  <2>2. \A side : Ordered(r, side)' = Ordered(r, side)
    BY <1>1 DEF Ordered, OrderedOf, Placed
  <2>3. QED
    BY <1>1, <1>9, <2>1, <2>2, Monotone DEF SellInv, NeverOversells
<1>10. NeverOversells'
  BY <1>9 DEF NeverOversells
<1>11. QED
  BY <1>6, <1>7, <1>8, <1>10 DEF SellInv

LEMMA InitSells == Init => SellInv
<1> SUFFICES ASSUME Init PROVE SellInv
  OBVIOUS
<1>1. /\ \A s \in Sub, t \in Trade : history[s][t] = NoRow /\ s[1] \in Follower
      /\ \A f \in Follower, t \in Trade : orders[f][t] = NoRow
      /\ \A i \in Instance : work[i].pc = "idle"
  BY DEF Init, Sub, Idle
<1>2. NoRow.status # "COMPLETED"
  BY DEF NoRow, None
<1>3. Counted /\ \A i \in Instance : InHand(i) /\ Fits(i)
  BY <1>1, <1>2 DEF Counted, InHand, Fits
<1>4. ASSUME NEW s \in Sub PROVE Ordered(s, "SELL") <= Ordered(s, "BUY")
  <2>1. \A side : \A t \in Trade : OrderedOf(s, side, t) = 0
    BY <1>1 DEF OrderedOf, Placed
  <2>2. Ordered(s, "SELL") = Ordered(s, "BUY")
    BY <2>1 DEF Ordered
  <2>3. QED
    BY <1>3, <2>2, TotalsCount
<1>5. QED
  BY <1>3, <1>4 DEF SellInv, NeverOversells

LEMMA NextSells == CopyInv /\ SellInv /\ [Next]_vars => SellInv'
<1> SUFFICES ASSUME CopyInv, SellInv, [Next]_vars PROVE SellInv'
  OBVIOUS
\* What an instance has in hand after a step that computes no quantity.
<1>1. ASSUME NEW i \in Instance, NEW w, Becomes(i, w), w.pc \notin {"placing", "COMPLETED"},
             UNCHANGED <<history, orders>>, failures \subseteq failures'
      PROVE  SellInv'
  <2>1. work'[i] = w /\ \A j \in Instance \ {i} : work'[j] = work[j]
    BY <1>1 DEF CopyInv, Shape, Becomes
  <2>2. QED
    BY <1>1, <2>1, QuietSells
<1>2. ASSUME UNCHANGED <<history, orders, work>>, failures \subseteq failures' PROVE SellInv'
  BY <1>2, QuietSells
<1>3. ASSUME NEW i \in Instance PROVE work[i] \in Row({work[i].quantity}) /\ Idle.pc = "idle"
  BY <1>3, WorkTypes DEF Idle
<1>4. ASSUME NEW i \in Instance,
             \/ \E t \in Trade : Deliver(i, t)
             \/ ReadSubscribers(i) \/ SideDone(i)
             \/ ReleaseLock(i) \/ MarkProcessed(i) \/ Retry(i) \/ Restart(i)
      PROVE  SellInv'
  <2>1. /\ UNCHANGED <<history, orders>> /\ failures \subseteq failures'
        /\ \E w : Becomes(i, w) /\ w.pc \notin {"placing", "COMPLETED"}
    <3>1. ASSUME NEW t \in Trade, Deliver(i, t)
          PROVE  UNCHANGED <<history, orders>> /\ failures \subseteq failures'
                 /\ \E w : Becomes(i, w) /\ w.pc \notin {"placing", "COMPLETED"}
      <4>1. [Idle EXCEPT !.pc = "side", !.trade = t, !.sides = Sides(i, t)].pc = "side"
        BY DEF Idle
      <4>2. QED
        BY <3>1, <4>1, FaultGrows DEF Deliver
    <3>2. CASE ReadSubscribers(i)
      <4>1. PICK b, todo : Becomes(i, [work[i] EXCEPT !.pc = "next", !.balance = b, !.todo = todo])
        BY <3>2 DEF ReadSubscribers
      <4>2. [work[i] EXCEPT !.pc = "next", !.balance = b, !.todo = todo].pc = "next"
        BY <1>3 DEF Row
      <4>3. UNCHANGED <<history, orders>> /\ failures \subseteq failures'
        BY <3>2, FaultGrows DEF ReadSubscribers, ReadBalance
      <4>4. QED
        BY <4>1, <4>2, <4>3
    <3>3. CASE SideDone(i)
      <4>1. [work[i] EXCEPT !.pc = "side", !.sides = Tail(@), !.balance = 0].pc = "side"
        BY <1>3 DEF Row
      <4>2. QED
        BY <3>3, <4>1, FaultGrows DEF SideDone
    <3>4. CASE ReleaseLock(i)
      <4>1. Leave(work[i]).pc = "next"
        BY <1>3 DEF Row, Leave
      <4>2. QED
        BY <3>4, <4>1, FaultGrows DEF ReleaseLock
    <3>5. CASE MarkProcessed(i) \/ Retry(i) \/ Restart(i)
      BY <1>3, <3>5, FaultGrows DEF MarkProcessed, Retry, Restart
    <3>6. QED
      BY <1>4, <3>1, <3>2, <3>3, <3>4, <3>5
  <2>2. QED
    BY <1>1, <2>1
<1>5. ASSUME NEW i \in Instance, AcquireLock(i) PROVE SellInv'
  <2>1. PICK x \in work[i].todo :
           \/ Becomes(i, [[work[i] EXCEPT !.todo = @ \ {x}] EXCEPT !.pc = "locked", !.sub = x[1], !.allocated = x[2]])
           \/ Becomes(i, [work[i] EXCEPT !.todo = @ \ {x}])
    BY <1>5 DEF AcquireLock
  <2>2. [work[i] EXCEPT !.todo = @ \ {x}].pc = "next"
    BY <1>3, <1>5 DEF AcquireLock, Row
  <2>3. [[work[i] EXCEPT !.todo = @ \ {x}] EXCEPT !.pc = "locked", !.sub = x[1], !.allocated = x[2]].pc = "locked"
    BY <1>3 DEF Row
  <2>4. UNCHANGED <<history, orders>> /\ failures \subseteq failures'
    BY <1>5, FaultGrows DEF AcquireLock
  <2>5. QED
    BY <1>1, <2>1, <2>2, <2>3, <2>4
<1>6. ASSUME NEW i \in Instance, NEW m \in Master, RegisterMaster(i, m) PROVE SellInv'
  BY <1>2, <1>6, FaultGrows DEF RegisterMaster, consumer
<1>7. ASSUME NEW h \in Handler,
             \/ \E s \in Sub : (\E a \in Allocation : FindExisting(h, s, a)) \/ FindToCancel(h, s)
             \/ GuardOvercommit(h) \/ Activate(h) \/ Terminate(h) \/ CountCopier(h)
      PROVE  SellInv'
  <2>1. UNCHANGED <<history, orders, work>> /\ failures \subseteq failures'
    BY <1>7, FaultGrows DEF FindExisting, FindToCancel, GuardOvercommit, Activate, Terminate, CountCopier, consumer
  <2>2. QED
    BY <1>2, <2>1
<1>8. ASSUME NEW f \in Follower, Expire(f) PROVE SellInv'
  BY <1>2, <1>8, FaultGrows DEF Expire
<1>9. CASE UNCHANGED vars
  BY <1>2, <1>9 DEF vars, consumer
<1>10. QED
  BY <1>4, <1>5, <1>6, <1>7, <1>8, <1>9, ComputeSells, CreateSells, WriteSells DEF Next

\* Unless an instance stops between an order and its row, a row is lost or a lock expires
\* under its owner: whatever instances copy whatever trades of a master at the same time, a
\* subscription whose history agrees with its orders sold no more than it bought. The
\* position is read under the follower's lock, which no one else has until the row is there.
THEOREM CopyNeverOversells == Spec => []NeverOversells
<1>1. SellInv => NeverOversells
  BY DEF SellInv
<1>2. QED
  BY <1>1, InitSells, NextSells, CopyInvariant, PTL DEF Spec
=============================================================================
