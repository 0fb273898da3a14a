----------------------------- MODULE CopyTrading -----------------------------
(***************************************************************************)
(* Copy trading: followers subscribe to master traders with an allocated   *)
(* balance, and every trade of a master is replicated for his subscribers. *)
(*                                                                         *)
(* The consumer of an instance drops trades of users its memory does not   *)
(* know as masters, and trades that were processed. For each side a master *)
(* is on it reads his active subscribers and, for each of them, takes the  *)
(* lock of the follower, computes a quantity, places an order whose key is *)
(* the trade and the follower, and writes the history. Then it marks the   *)
(* trade as processed. Subscribers of a master are different followers,    *)
(* with locks, orders and rows of their own, so that handling them in any  *)
(* order stands for handling them at the same time.                        *)
(*                                                                         *)
(* Kafka, the orders service and the lock server are external: a trade may *)
(* be delivered again, to any instance, and a lock may expire.             *)
(***************************************************************************)
EXTENDS Integers, Sequences, FiniteSets, FiniteSetsExt, Functions, CopyRatio

CONSTANTS
    Master, Follower,
    Trade,         \* the trades that are published
    TermsOf,       \* TermsOf[t]: [buyer, seller, quantity]
    Balance,       \* the balances a master may have
    Allocation,    \* the balances followers ask to allocate
    Available,     \* what a follower has
    MinLot,
    Instance,      \* instances of the service, each with a consumer
    Handler,       \* handlers of createSubscription and cancelSubscription
    MaxFaults

ASSUME TermsAssumption == IsFiniteSet(Trade) /\ \A t \in Trade : TermsOf[t].quantity \in Nat \ {0}
ASSUME NoneAssumption == "none" \notin Instance \cup Trade \cup Follower \X Master
ASSUME BalancesAssumption ==
    /\ Balance \subseteq Nat /\ Allocation \subseteq Nat \ {0}
    /\ Available \in Nat /\ MinLot \in Nat \ {0}

VARIABLES
    masters,    \* the rows of master_traders, all active
    known,      \* known[i]: activeMastersMap of instance i
    subs,       \* subs[f, m]: the row of copy_subscriptions
    copiers,    \* copiers[m]: total_copiers
    history,    \* history[s][t]: the row of copy_orders_history, or NoRow
    orders,     \* orders[f][t]: the order of the orders service with this key, or NoRow
    locks,      \* locks[f]: who holds the lock of follower f, or None
    processed,  \* the trades in processed_events
    work,       \* work[i]: how far the consumer of i has come
    handling,   \* handling[h]: how far h has come
    owed,       \* the subscriptions and trades that one instance was to copy: active
                \*   since they were read, and not skipped for a lock (history)
    faults, failures

consumer == <<history, orders, locks, processed, work, owed>>
service  == <<masters, known, subs, copiers, handling>>
vars == <<consumer, service, faults, failures>>

None == "none"
NoRow == [status |-> None]
Sub == Follower \X Master

Idle == [pc |-> "idle", trade |-> None, sides |-> << >>, todo |-> {}, balance |-> 0,
         sub |-> None, allocated |-> 0, quantity |-> 0]
Free == [pc |-> "free", sub |-> None, exists |-> FALSE, amount |-> 0]

Init ==
    /\ masters \in SUBSET Master /\ known = [i \in Instance |-> masters]
    /\ subs = [s \in Sub |-> [status |-> None, allocated |-> 0]]
    /\ copiers = [m \in Master |-> 0]
    /\ history = [s \in Sub |-> [t \in Trade |-> NoRow]]
    /\ orders = [f \in Follower |-> [t \in Trade |-> NoRow]]
    /\ locks = [f \in Follower |-> None]
    /\ processed = {}
    /\ work = [i \in Instance |-> Idle]
    /\ handling = [h \in Handler |-> Free]
    /\ owed = {}
    /\ faults = 0 /\ failures = {}

Fault(kind) ==
    /\ faults < MaxFaults
    /\ faults' = faults + 1
    /\ failures' = failures \cup {kind}

NoFault == UNCHANGED <<faults, failures>>

Active(s) == subs[s].status = "ACTIVE"

-----------------------------------------------------------------------------
(***************************************************************************)
(* Masters and subscriptions.                                              *)
(***************************************************************************)

\* Instance i registers a master, in the table and in its own memory.
RegisterMaster(i, m) ==
    /\ m \notin masters
    /\ masters' = masters \cup {m}
    /\ known' = [known EXCEPT ![i] = @ \cup {m}]
    /\ NoFault
    /\ UNCHANGED <<consumer, subs, copiers, handling>>

\* createSubscription finds the master, and no active subscription to him.
FindExisting(h, s, amount) ==
    /\ handling[h].pc = "free"
    /\ s[2] \in masters /\ ~Active(s)
    /\ handling' = [handling EXCEPT ![h] = [pc |-> "found", sub |-> s,
           exists |-> subs[s].status # None, amount |-> amount]]
    /\ NoFault
    /\ UNCHANGED <<consumer, masters, known, subs, copiers>>

\* What follower f has allocated, but for subscription s.
Allocated(f, s) ==
    MapThenSumSet(LAMBDA r : subs[r].allocated, {r \in Sub : r[1] = f /\ Active(r) /\ r # s})

\* The follower must have what he allocates in all, without an allocation he replaces.
GuardOvercommit(h) ==
    LET s == handling[h].sub
        fits == Allocated(s[1], s) + handling[h].amount <= Available
    IN  /\ handling[h].pc = "found"
        /\ handling' = [handling EXCEPT ![h] = IF fits THEN [@ EXCEPT !.pc = "guarded"] ELSE Free]
        /\ NoFault
        /\ UNCHANGED <<consumer, masters, known, subs, copiers>>

\* The subscription is activated again if there was one, and inserted otherwise, unless
\* the index finds one. An error ends the call, whether the statement took effect or not.
Activate(h) ==
    LET s == handling[h].sub
        on == [subs EXCEPT ![s] = [status |-> "ACTIVE", allocated |-> handling[h].amount]]
        conflict == ~handling[h].exists /\ subs[s].status # None
        end == handling' = [handling EXCEPT ![h] = Free]
    IN  /\ handling[h].pc = "guarded"
        /\ \/ ~conflict /\ subs' = on /\ handling' = [handling EXCEPT ![h].pc = "counting"] /\ NoFault
           \/ conflict /\ end /\ UNCHANGED subs /\ NoFault
           \/ ~conflict /\ subs' \in {subs, on} /\ end /\ Fault("subscription")
        /\ UNCHANGED <<consumer, masters, known, copiers>>

\* cancelSubscription reads a subscription that is not ended.
FindToCancel(h, s) ==
    /\ handling[h].pc = "free"
    /\ Active(s)
    /\ handling' = [handling EXCEPT ![h] = [Free EXCEPT !.pc = "cancelling", !.sub = s]]
    /\ NoFault
    /\ UNCHANGED <<consumer, masters, known, subs, copiers>>

\* It is ended, whatever became of it since, unless the statement fails.
Terminate(h) ==
    LET s == handling[h].sub
    IN  /\ handling[h].pc = "cancelling"
        /\ subs' = [subs EXCEPT ![s].status = "TERMINATED"]
        /\ owed' = {x \in owed : x[1] # s}
        /\ handling' = [handling EXCEPT ![h].pc = "uncounting"]
        /\ NoFault
        /\ UNCHANGED <<history, orders, locks, processed, work, masters, known, copiers>>

\* total_copiers is moved by one and never negative, or the call fails.
CountCopier(h) ==
    LET m == handling[h].sub[2]
        moved == IF handling[h].pc = "counting" THEN copiers[m] + 1 ELSE Max({0, copiers[m] - 1})
    IN  /\ handling[h].pc \in {"counting", "uncounting"}
        /\ \/ copiers' = [copiers EXCEPT ![m] = moved] /\ NoFault
           \/ UNCHANGED copiers /\ Fault("count")
        /\ handling' = [handling EXCEPT ![h] = Free]
        /\ UNCHANGED <<consumer, masters, known, subs>>

-----------------------------------------------------------------------------
(***************************************************************************)
(* The consumer.                                                           *)
(***************************************************************************)

Becomes(i, w) == work' = [work EXCEPT ![i] = w]
Goto(i, step) == Becomes(i, [work[i] EXCEPT !.pc = step])

\* The sides of a trade on which instance i knows a master.
Side(i, m, side) == IF m \in known[i] THEN <<[master |-> m, side |-> side]>> ELSE << >>
Sides(i, t) == Side(i, TermsOf[t].buyer, "BUY") \o Side(i, TermsOf[t].seller, "SELL")

\* Another instance handles trade t.
Elsewhere(i, t) == \E j \in Instance \ {i} : work[j].trade = t

\* A trade of a master is delivered, and not processed yet.
Deliver(i, t) ==
    /\ work[i].pc = "idle"
    /\ Sides(i, t) # << >>
    /\ t \notin processed
    /\ Becomes(i, [Idle EXCEPT !.pc = "side", !.trade = t, !.sides = Sides(i, t)])
    /\ owed' = IF Elsewhere(i, t) THEN {x \in owed : x[2] # t} ELSE owed
    /\ NoFault
    /\ UNCHANGED <<history, orders, locks, processed, service>>

ThisSide(i) == Head(work[i].sides)

\* Reading the balance of a master returns what he has, or had a few seconds before, or
\* nothing when it cannot be read.
ReadBalance(b) ==
    \/ b \in Balance /\ NoFault
    \/ b = 0 /\ Fault("balance")

\* The subscribers of the master on this side are read, and his balance.
ReadSubscribers(i) ==
    LET t == work[i].trade
        followers == {s \in Sub : s[2] = ThisSide(i).master /\ Active(s)}
    IN  /\ work[i].pc = "side" /\ work[i].sides # << >>
        /\ \E b \in Balance \cup {0} :
              /\ ReadBalance(b)
              /\ Becomes(i, [work[i] EXCEPT !.pc = "next", !.balance = b,
                                !.todo = {<<s, subs[s].allocated>> : s \in followers}])
        /\ owed' = owed \cup {<<s, t>> : s \in IF t \in processed \/ Elsewhere(i, t) THEN {} ELSE followers}
        /\ UNCHANGED <<history, orders, locks, processed, service>>

SideDone(i) ==
    /\ work[i].pc = "next" /\ work[i].todo = {}
    /\ Becomes(i, [work[i] EXCEPT !.pc = "side", !.sides = Tail(@), !.balance = 0])
    /\ NoFault
    /\ UNCHANGED <<history, orders, locks, processed, owed, service>>

\* i is done with its subscriber, or a subscriber before it took his lock.
Leave(w) == [w EXCEPT !.pc = "next", !.sub = None, !.allocated = 0, !.quantity = 0]

\* Mutant: no lock is taken.
LockNothing(i) ==
    /\ work[i].pc = "next"
    /\ \E x \in work[i].todo :
          work' = [work EXCEPT ![i] = [work[i] EXCEPT
              !.todo = @ \ {x}, !.pc = "locked", !.sub = x[1], !.allocated = x[2]]]
    /\ NoFault
    /\ UNCHANGED <<history, orders, locks, processed, owed, service>>

\* The lock of the next follower is taken. When it cannot be, he is left out.
AcquireLock(i) ==
    /\ work[i].pc = "next"
    /\ \E x \in work[i].todo :
          LET w == [work[i] EXCEPT !.todo = @ \ {x}]
              f == x[1][1]
          IN  \/ /\ locks[f] = None
                 /\ locks' = [locks EXCEPT ![f] = i]
                 /\ Becomes(i, [w EXCEPT !.pc = "locked", !.sub = x[1], !.allocated = x[2]])
                 /\ NoFault /\ UNCHANGED owed
              \/ /\ locks[f] # None
                 /\ Becomes(i, w)
                 /\ owed' = owed \ {<<x[1], work[i].trade>>}
                 /\ NoFault /\ UNCHANGED locks
              \/ /\ Becomes(i, w)
                 /\ Fault("lock") /\ UNCHANGED <<locks, owed>>
    /\ UNCHANGED <<history, orders, processed, service>>

\* What the history says a subscription bought, or sold, in all and of one trade.
RecordedOf(s, side, t) ==
    IF history[s][t].status = "COMPLETED" /\ history[s][t].side = side THEN history[s][t].quantity ELSE 0

Recorded(s, side) == SumFunction([t \in Trade |-> RecordedOf(s, side, t)])

\* The quantity, from the ratio of the balances, or from the subscription's position.
QuantityFor(i) ==
    LET q == TermsOf[work[i].trade].quantity
        s == work[i].sub
    IN  IF ThisSide(i).side = "BUY"
        THEN BuyQuantity(q, work[i].balance, work[i].allocated)
        ELSE SellQuantity(q, work[i].balance,
                          SubPosition(Recorded(s, "BUY"), Recorded(s, "SELL")))

\* checkMinLot: a quantity too small for an order.
IsDust(quantity) == quantity < MinLot \/ quantity = 0

\* An order is placed unless its quantity is dust.
ComputeQuantity(i) ==
    /\ work[i].pc = "locked"
    /\ Becomes(i, [work[i] EXCEPT !.quantity = QuantityFor(i),
                      !.pc = IF IsDust(QuantityFor(i)) THEN "SKIPPED" ELSE "placing"])
    /\ NoFault
    /\ UNCHANGED <<history, orders, locks, processed, owed, service>>

ThisOrder(i) == [status |-> "placed", sub |-> work[i].sub, side |-> ThisSide(i).side,
                 quantity |-> work[i].quantity]

\* Mutant: the answer of the orders service is not looked at.
CreateUnchecked(i) ==
    LET f == work[i].sub[1]
        t == work[i].trade
    IN  /\ work[i].pc = "placing"
        /\ \/ orders[f][t] = NoRow /\ orders' = [orders EXCEPT ![f][t] = ThisOrder(i)]
           \/ UNCHANGED orders
        /\ Goto(i, "COMPLETED") /\ NoFault
        /\ UNCHANGED <<history, locks, processed, owed, service>>

\* The orders service places the order, answers with the one that has the key, or refuses;
\* or the call fails, and may have placed it.
CreateOrder(i) ==
    LET f == work[i].sub[1]
        t == work[i].trade
        placed == IF orders[f][t] = NoRow THEN [orders EXCEPT ![f][t] = ThisOrder(i)] ELSE orders
    IN  /\ work[i].pc = "placing"
        /\ \/ orders' = placed /\ Goto(i, "COMPLETED") /\ NoFault
           \/ orders[f][t] = NoRow /\ UNCHANGED orders /\ Goto(i, "FAILED") /\ NoFault
           \/ orders' \in {orders, placed} /\ Goto(i, "FAILED") /\ Fault("order")
        /\ UNCHANGED <<history, locks, processed, owed, service>>

\* The history gets a row of this status, unless it has one of the subscription and trade.
\* An error of the row of a placed order is taken for one of the order.
WriteHistory(i) ==
    LET w == work[i]
        row == [status |-> w.pc, side |-> ThisSide(i).side, quantity |-> w.quantity]
        written == IF history[w.sub][w.trade] = NoRow
                   THEN [history EXCEPT ![w.sub][w.trade] = row] ELSE history
    IN  /\ w.pc \in {"SKIPPED", "COMPLETED", "FAILED"}
        /\ \/ history' = written /\ Goto(i, "releasing") /\ NoFault
           \/ /\ history' \in {history, written}
              /\ Goto(i, IF w.pc = "COMPLETED" THEN "FAILED" ELSE "releasing")
              /\ Fault("history")
        /\ UNCHANGED <<orders, locks, processed, owed, service>>

\* The lock is released if it is still i's. It stays until it expires when that fails.
ReleaseLock(i) ==
    LET f == work[i].sub[1]
    IN  /\ work[i].pc = "releasing"
        /\ \/ locks[f] = i /\ locks' = [locks EXCEPT ![f] = None] /\ NoFault
           \/ locks[f] # i /\ UNCHANGED locks /\ NoFault
           \/ UNCHANGED locks /\ Fault("release")
        /\ Becomes(i, Leave(work[i]))
        /\ UNCHANGED <<history, orders, processed, owed, service>>

\* Mutant: a trade is marked without waiting for its copies.
MarkUnawaited(i) ==
    /\ \/ work[i].pc = "next" /\ UNCHANGED work
       \/ work[i].pc = "side" /\ work[i].sides = << >> /\ Becomes(i, Idle)
    /\ processed' = processed \cup {work[i].trade}
    /\ NoFault
    /\ UNCHANGED <<history, orders, locks, owed, service>>

\* The trade is marked as processed. An error has it delivered again.
MarkProcessed(i) ==
    LET marked == processed \cup {work[i].trade}
    IN  /\ work[i].pc = "side" /\ work[i].sides = << >>
        /\ \/ processed' = marked /\ NoFault
           \/ processed' \in {processed, marked} /\ Fault("mark")
        /\ Becomes(i, Idle)
        /\ UNCHANGED <<history, orders, locks, owed, service>>

\* Reading the subscribers or the table of trades fails: the trade is delivered again.
Retry(i) ==
    /\ work[i].pc = "side"
    /\ Becomes(i, Idle)
    /\ Fault("read")
    /\ UNCHANGED <<history, orders, locks, processed, owed, service>>

\* The instance stops and starts, with the masters of the table, or none when it cannot
\* read them.
Restart(i) ==
    /\ Becomes(i, Idle)
    /\ known' \in {[known EXCEPT ![i] = masters], [known EXCEPT ![i] = {}]}
    /\ Fault("crash")
    /\ UNCHANGED <<history, orders, locks, processed, owed, masters, subs, copiers, handling>>

\* The lock of a follower expires, perhaps while its owner works.
Expire(f) ==
    LET owner == locks[f]
        atWork == owner # None /\ work[owner].sub # None /\ work[owner].sub[1] = f
    IN  /\ owner # None
        /\ locks' = [locks EXCEPT ![f] = None]
        /\ IF atWork THEN Fault("expiry") ELSE NoFault
        /\ UNCHANGED <<history, orders, processed, work, owed, service>>

-----------------------------------------------------------------------------

Next ==
    \/ \E i \in Instance :
          \/ \E m \in Master : RegisterMaster(i, m)
          \/ \E t \in Trade : Deliver(i, t)
          \/ ReadSubscribers(i) \/ SideDone(i) \/ AcquireLock(i) \/ ComputeQuantity(i)
          \/ CreateOrder(i) \/ WriteHistory(i) \/ ReleaseLock(i) \/ MarkProcessed(i)
          \/ Retry(i) \/ Restart(i)
    \/ \E h \in Handler :
          \/ \E s \in Sub : (\E a \in Allocation : FindExisting(h, s, a)) \/ FindToCancel(h, s)
          \/ GuardOvercommit(h) \/ Activate(h) \/ Terminate(h) \/ CountCopier(h)
    \/ \E f \in Follower : Expire(f)

Spec == Init /\ [][Next]_vars

-----------------------------------------------------------------------------
(***************************************************************************)
(* What is true of it.                                                     *)
(***************************************************************************)

\* Follower f has subscribed to both sides of trade t: its two copies have one key.
Crossed(f, t) ==
    \A m \in {TermsOf[t].buyer, TermsOf[t].seller} :
        m \in Master /\ subs[<<f, m>>].status # None

\* An instance has called for the order of s and t and is about to write its row.
Recording(s, t) ==
    \E i \in Instance :
        work[i].pc \in {"COMPLETED", "FAILED"} /\ work[i].sub = s /\ work[i].trade = t

Placed(s, t) == orders[s[1]][t] # NoRow /\ orders[s[1]][t].sub = s

\* The row of s and t tells the order that was placed for them.
Told(s, t) ==
    LET row == history[s][t]
    IN  /\ row.status = "COMPLETED"
        /\ orders[s[1]][t] = [status |-> "placed", sub |-> s, side |-> row.side, quantity |-> row.quantity]

\* An instance stopped or lost the lock between an order and its row, or the row was lost:
\* meanwhile positions miss the order, and its quantity may be computed again.
Interrupted == failures \cap {"crash", "history", "expiry"} # {}

\* However often a trade is delivered and to whomever, a row that is completed tells the
\* order there is, and an order has a row: FAILED or SKIPPED for ever if it was so before
\* the order was placed.
HistoryTellsOrders ==
    ~Interrupted =>
        \A s \in Sub, t \in Trade :
            /\ history[s][t].status = "COMPLETED" => Told(s, t) \/ Crossed(s[1], t)
            /\ Placed(s, t) => history[s][t] # NoRow \/ Recording(s, t)

\* What a subscription ordered on this side, of one trade and in all.
OrderedOf(s, side, t) ==
    IF Placed(s, t) /\ orders[s[1]][t].side = side THEN orders[s[1]][t].quantity ELSE 0

Ordered(s, side) == SumFunction([t \in Trade |-> OrderedOf(s, side, t)])

\* The rows of s that are completed and its orders that have a row tell the same.
Agrees(s) ==
    \A t \in Trade : Placed(s, t) \/ history[s][t].status = "COMPLETED"
                       => Told(s, t) \/ history[s][t] = NoRow

\* copy-ratio.calculator.ts:63: a subscription whose history agrees with its orders never
\* sells more than it bought, whatever instances copy whatever trades of its master at the
\* same time. A BUY row of a crossed trade that tells the order of the other side would be
\* sold again.
NeverOversells ==
    ~Interrupted => \A s \in Sub : Agrees(s) => Ordered(s, "SELL") <= Ordered(s, "BUY")

\* A trade that is marked as processed has a row for every subscription it was to be
\* copied to, even if the instance that read them stopped and another had to go on, unless
\* a row was lost. Of a trade of two masters an instance may mark it that knows but one.
ProcessedIsCopied ==
    failures \cap {"lock", "history"} = {} =>
        \A x \in owed :
            LET t == x[2]
            IN  t \in processed /\ ~({TermsOf[t].buyer, TermsOf[t].seller} \subseteq Master) =>
                   \/ history[x[1]][t] # NoRow
                   \/ \E i \in Instance : work[i].trade = t

\* copy-trading.service.ts:142 says that creating a subscription enforces "Overcommit
\* guard: sum(existing active allocations) + requested <= availableBalance".
AllocationsFit == \A f \in Follower : Allocated(f, None) <= Available
=============================================================================
