----------------------------- MODULE Settlement -----------------------------
(***************************************************************************)
(* Trade settlement in the accounts service: TradesSettlementConsumer on   *)
(* top of BaseKafkaConsumer. A consumer takes the messages of a partition  *)
(* in order. For a trade it opens the four accounts and runs one database  *)
(* transaction: is the event in processed_events, lock the accounts in the *)
(* order of their ids, move the balances, write the ledger rows, insert    *)
(* the event into processed_events (whose event_id is unique), commit. It  *)
(* resolves the offset when the handler returned, or the message was put   *)
(* on the dead letter queue. An error leaves the offset where it was, and  *)
(* the message is delivered again.                                         *)
(*                                                                         *)
(* The relay of the orders service may publish an event more than once.    *)
(* Consumers of a group overlap: one that lost its partition finds out     *)
(* after the handler it is in. Consumers fail and leave at any step.       *)
(* Meanwhile the orders service, which has locked the funds of an order    *)
(* before the order could trade, unlocks those of orders it has cancelled  *)
(* or rolled back, with a call that Balances is about.                     *)
(***************************************************************************)
EXTENDS TradeAmounts, Sequences, FiniteSets, Functions

CONSTANTS
    User, Currency,
    Order,      \* [user, side, base, quote, price, amount] records
    Trade,      \* the TRADE_EXECUTED events there can be
    Malformed,  \* messages without an envelope, a payload or an event id
    Ignored,    \* events with another action
    Consumer,
    AccountId,  \* AccountId[a]: the place of the id of account a among all ids
    Reserved,   \* Reserved[a]: what the orders service has locked on account a
    Copies,     \* Copies[e]: how often the relay may publish event e
    Releases,   \* Releases[o]: how often funds of order o may be unlocked
    MaxLog, MaxFaults, MaxJoins

Account == User \X Currency
Event == Trade \cup Malformed \cup Ignored

ASSUME OrderAssumption ==
    \A o \in Order : /\ o.user \in User /\ o.side \in {"BUY", "SELL"}
                     /\ o.base \in Currency /\ o.quote \in Currency
                     /\ o.price \in Nat \ {0} /\ o.amount \in Nat \ {0}

\* A trade is one of two orders, on the terms of both.
Between(tr, buy, sell) ==
    /\ buy \in Order /\ buy.side = "BUY" /\ sell \in Order /\ sell.side = "SELL"
    /\ tr.buyer = buy.user /\ tr.seller = sell.user
    /\ tr.base = buy.base /\ tr.quote = buy.quote /\ tr.base = sell.base /\ tr.quote = sell.quote
    /\ tr.buyerLimitPrice = buy.price

ASSUME TradeAssumption ==
    /\ \A tr \in Trade : /\ tr.buyer \in User /\ tr.seller \in User
                         /\ tr.base \in Currency /\ tr.quote \in Currency
                         /\ tr.base # tr.quote
                         /\ tr.price \in Nat \ {0} /\ tr.quantity \in Nat \ {0}
                         /\ tr.buyerLimitPrice \in Nat
                         /\ tr.buyerLimitPrice >= tr.price
                         /\ Between(tr, tr.buyOrder, tr.sellOrder)
    /\ Trade \cap Order = {}
    /\ Trade \cap (Malformed \cup Ignored) = {}
    /\ Malformed \cap Ignored = {}

ASSUME IdAssumption ==
    /\ AccountId \in [Account -> Nat]
    /\ \A a, b \in Account : AccountId[a] = AccountId[b] => a = b

ASSUME FinitelyMany == IsFiniteSet(User) /\ IsFiniteSet(Trade) /\ IsFiniteSet(Order)

SelfTrade(e) == e \in Trade /\ e.buyer = e.seller

\* Funds are locked once for an order, before it is matched.
LockOf(o, a) == IF a = AccountOf(o) THEN LockAmount(o, o.amount) ELSE 0
ASSUME FundsAreLocked ==
    /\ Reserved \in [Account -> Nat]
    /\ \A a \in Account : Reserved[a] >= SumFunction([o \in Order |-> LockOf(o, a)])

VARIABLES
    log,        \* the messages of the partition
    joins,      \* how often a consumer joined the group
    faults,     \* how often a consumer failed
    committed,  \* the offset the group has committed, 0 if none
    start,      \* start[c]: the offset c started from, 0 if it is no member
    pos,        \* pos[c]: the offset of the message c handles or waits for
    pc,         \* pc[c]: how far c has come with it
    held,       \* held[c]: the account rows the transaction of c has locked
    opened,     \* the accounts that have a row
    accounts, ledger, processed,  \* the committed rows
    released,   \* released[o]: what has been unlocked of the funds of order o (history)
    dlq         \* the offsets of the messages put on the dead letter queue

kafka == <<log, joins, committed, start, dlq>>
tables == <<opened, accounts, ledger, processed, released>>
vars == <<log, joins, faults, committed, start, pos, pc, held, opened,
          accounts, ledger, processed, released, dlq>>

Init ==
    /\ log = << >>
    /\ joins = 0 /\ faults = 0 /\ committed = 0
    /\ start = [c \in Consumer |-> 0]
    /\ pos = [c \in Consumer |-> 0]
    /\ pc = [c \in Consumer |-> "idle"]
    /\ held = [c \in Consumer |-> {}]
    /\ opened = {a \in Account : Reserved[a] > 0}
    /\ accounts = [a \in Account |-> [avail |-> 0, locked |-> Reserved[a]]]
    /\ ledger = [a \in Account |-> << >>]
    /\ processed = {}
    /\ released = [o \in Order |-> 0]
    /\ dlq = {}

-----------------------------------------------------------------------------
(***************************************************************************)
(* The partition and the consumer group.                                   *)
(***************************************************************************)

\* The relay publishes an event, perhaps once more.
Publish(e) ==
    /\ Len(log) < MaxLog
    /\ Cardinality({i \in DOMAIN log : log[i] = e}) < Copies[e]
    /\ log' = Append(log, e)
    /\ UNCHANGED <<joins, faults, committed, start, pos, pc, held, tables, dlq>>

\* A consumer joins the group, for the first time or after it has left. It starts
\* from the committed offset; without one from the end of the log, because
\* fromBeginning is false.
Join(c) ==
    LET first == IF committed # 0 THEN committed ELSE Len(log) + 1
    IN  /\ joins < MaxJoins
        /\ start[c] = 0
        /\ joins' = joins + 1
        /\ start' = [start EXCEPT ![c] = first]
        /\ pos' = [pos EXCEPT ![c] = first]
        /\ UNCHANGED <<log, faults, committed, pc, held, tables, dlq>>

\* A consumer crashes, shuts down or leaves the group because it has lost its
\* partition, whatever it is at. A transaction that is open is rolled back.
Leave(c) ==
    /\ start[c] # 0
    /\ start' = [start EXCEPT ![c] = 0]
    /\ pos' = [pos EXCEPT ![c] = 0]
    /\ pc' = [pc EXCEPT ![c] = "idle"]
    /\ held' = [held EXCEPT ![c] = {}]
    /\ UNCHANGED <<log, joins, faults, committed, tables, dlq>>

\* The offset commitOffsetsIfNecessary commits after offset i is resolved: none
\* becomes due, as neither an interval nor a threshold for it is configured.
CommitOffsetsIfNecessary(i) == committed

-----------------------------------------------------------------------------
(***************************************************************************)
(* handleMessage.                                                          *)
(***************************************************************************)

Message(c) == log[pos[c]]

\* c goes on to step p of the handler.
Proceed(c, p) == pc' = [pc EXCEPT ![c] = p]

\* The next message is taken up. Events with another action and trades of a user
\* with itself are dropped.
Fetch(c) ==
    /\ pc[c] = "idle"
    /\ start[c] # 0 /\ pos[c] \in DOMAIN log
    /\ Proceed(c, IF Message(c) \in Malformed THEN "poisoned"
                  ELSE IF Message(c) \in Ignored \/ SelfTrade(Message(c)) THEN "handled"
                  ELSE "opening")
    /\ UNCHANGED <<kafka, faults, pos, held, tables>>

\* findOrCreate opens those of the four accounts that have no row yet, each in a
\* transaction of its own.
OpenAccounts(c) ==
    /\ pc[c] = "opening"
    /\ opened' = opened \cup AccountsOf(Message(c))
    /\ Proceed(c, "checking")
    /\ UNCHANGED <<kafka, faults, pos, held, accounts, ledger, processed, released>>

\* The transaction begins with a look at processed_events.
IsEventProcessed(c) ==
    /\ pc[c] = "checking"
    /\ Proceed(c, IF Message(c) \in processed THEN "handled" ELSE "locking")
    /\ UNCHANGED <<kafka, faults, pos, held, tables>>

Wanted(c) == AccountsOf(Message(c)) \ held[c]

\* Mutant: the accounts are locked in any order.
NextAccountUnordered(c, a) == a \in Wanted(c)

\* a is the account SELECT ... ORDER BY id FOR UPDATE locks next.
NextAccount(c, a) ==
    /\ a \in Wanted(c)
    /\ \A b \in Wanted(c) : AccountId[a] <= AccountId[b]

LockAccount(c, a) ==
    /\ pc[c] = "locking"
    /\ NextAccount(c, a)
    /\ \A d \in Consumer \ {c} : a \notin held[d]
    /\ held' = [held EXCEPT ![c] = @ \cup {a}]
    /\ UNCHANGED <<kafka, faults, pos, pc, tables>>

\* Mutant: event_id has no unique index.
MarkEventProcessedAgain(c) ==
    /\ pc[c] = "locking"
    /\ Wanted(c) = {}
    /\ Proceed(c, "marked")
    /\ UNCHANGED <<kafka, faults, pos, held, tables>>

\* Under the locks the balances are moved, the ledger rows are inserted, and last
\* the row of processed_events, if no other transaction has committed it since
\* IsEventProcessed. Nothing of it is visible before the commit.
MarkEventProcessed(c) ==
    /\ pc[c] = "locking"
    /\ Wanted(c) = {}
    /\ Message(c) \notin processed
    /\ Proceed(c, "marked")
    /\ UNCHANGED <<kafka, faults, pos, held, tables>>

\* The event is there already: the INSERT fails, and with it the transaction and
\* the handler.
MarkDuplicate(c) ==
    /\ pc[c] = "locking"
    /\ Wanted(c) = {}
    /\ Message(c) \in processed
    /\ Proceed(c, "idle")
    /\ held' = [held EXCEPT ![c] = {}]
    /\ UNCHANGED <<kafka, faults, pos, tables>>

\* Balances of account a after trade tr.
After(tr, a) == [avail  |-> accounts[a].avail + AvailDelta(tr, a),
                 locked |-> accounts[a].locked + LockedDelta(tr, a)]

\* COMMIT. The locks have kept the balances since the UPDATEs.
Commit(c) ==
    LET tr == Message(c)
        Entry(a) == [of |-> tr,
                     dAvail |-> AvailDelta(tr, a), dLocked |-> LockedDelta(tr, a),
                     avail |-> After(tr, a).avail, locked |-> After(tr, a).locked]
    IN  /\ pc[c] = "marked"
        /\ accounts' = [a \in Account |->
               IF a \in AccountsOf(tr) THEN After(tr, a) ELSE accounts[a]]
        /\ ledger' = [a \in Account |->
               IF a \in AccountsOf(tr) THEN Append(ledger[a], Entry(a)) ELSE ledger[a]]
        /\ processed' = processed \cup {tr}
        /\ held' = [held EXCEPT ![c] = {}]
        /\ Proceed(c, "handled")
        /\ UNCHANGED <<kafka, faults, pos, opened, released>>

\* The orders service unlocks funds of an order, those of the q that are not to be traded any
\* more. The UPDATE of the accounts service waits for the row lock, and has a condition.
Release(o, q) ==
    LET a == AccountOf(o)
        amount == LockAmount(o, q)
        after == [avail |-> accounts[a].avail + amount, locked |-> accounts[a].locked - amount]
        entry == [of |-> o, dAvail |-> amount, dLocked |-> -amount,
                  avail |-> after.avail, locked |-> after.locked]
    IN  /\ Cardinality({i \in DOMAIN ledger[a] : ledger[a][i].of = o}) < Releases[o]
        /\ \A c \in Consumer : a \notin held[c]
        /\ 0 < amount /\ amount <= accounts[a].locked
        /\ accounts' = [accounts EXCEPT ![a] = after]
        /\ ledger' = [ledger EXCEPT ![a] = Append(@, entry)]
        /\ released' = [released EXCEPT ![o] = @ + amount]
        /\ UNCHANGED <<kafka, faults, pos, pc, held, opened, processed>>

\* A poison pill is copied to the dead letter queue.
RouteToDlq(c) ==
    /\ pc[c] = "poisoned"
    /\ dlq' = dlq \cup {pos[c]}
    /\ Proceed(c, "handled")
    /\ UNCHANGED <<log, joins, faults, committed, start, pos, held, tables>>

\* The offset is resolved, and the consumer turns to the next message.
ResolveOffset(c) ==
    /\ pc[c] = "handled"
    /\ pos' = [pos EXCEPT ![c] = @ + 1]
    /\ committed' = CommitOffsetsIfNecessary(pos[c])
    /\ Proceed(c, "idle")
    /\ UNCHANGED <<log, joins, faults, start, held, tables, dlq>>

\* Mutant: the offset is resolved in any case, as in a finally clause.
FailAndResolve(c) ==
    /\ faults < MaxFaults
    /\ pc[c] # "idle"
    /\ faults' = faults + 1
    /\ pos' = [pos EXCEPT ![c] = @ + 1]
    /\ Proceed(c, "idle")
    /\ held' = [held EXCEPT ![c] = {}]
    /\ UNCHANGED <<kafka, tables>>

\* The database or Kafka fails the handler (the caller of a commit may miss that
\* it succeeded). The consumer pauses, and takes the same message up again.
Fail(c) ==
    /\ faults < MaxFaults
    /\ pc[c] # "idle"
    /\ faults' = faults + 1
    /\ Proceed(c, "idle")
    /\ held' = [held EXCEPT ![c] = {}]
    /\ UNCHANGED <<kafka, pos, tables>>

\* What a consumer does by itself.
Handle(c) ==
    \/ Fetch(c) \/ OpenAccounts(c) \/ IsEventProcessed(c)
    \/ \E a \in Account : LockAccount(c, a)
    \/ MarkEventProcessed(c) \/ MarkDuplicate(c) \/ Commit(c)
    \/ RouteToDlq(c) \/ ResolveOffset(c)

Next ==
    \/ \E e \in Event : Publish(e)
    \/ \E c \in Consumer : Join(c) \/ Leave(c) \/ Fail(c) \/ Handle(c)
    \/ \E o \in Order : \E q \in 1 .. o.amount : Release(o, q)

\* The poll loop of a consumer runs for ever, and a pause ends.
Fairness == \A c \in Consumer : WF_vars(Handle(c))

Spec == Init /\ [][Next]_vars
FairSpec == Spec /\ Fairness

-----------------------------------------------------------------------------
(***************************************************************************)
(* What is true of it.                                                     *)
(***************************************************************************)

Step == {"idle", "opening", "checking", "locking", "marked", "handled", "poisoned"}
Entry == [of : Trade \cup Order, dAvail : Int, dLocked : Int, avail : Int, locked : Int]

\* The variables have the values the partition, the consumers and the tables can
\* have. Every locked row is one of the accounts of the trade that is settled, and
\* has been opened before.
TypeOK ==
    /\ log \in Seq(Event)
    /\ joins \in Nat /\ faults \in Nat /\ committed \in Nat
    /\ start \in [Consumer -> Nat] /\ pos \in [Consumer -> Nat]
    /\ pc \in [Consumer -> Step]
    /\ held \in [Consumer -> SUBSET opened]
    /\ opened \subseteq Account
    /\ accounts \in [Account -> [avail : Int, locked : Int]]
    /\ ledger \in [Account -> Seq(Entry)]
    /\ processed \subseteq Trade
    /\ released \in [Order -> Nat]
    /\ dlq \subseteq Nat

\* What is settled of an order, and that no more of its funds has been unlocked than those of
\* the rest.
TradedOf(o) ==
    SumFunction([tr \in processed |-> IF o \in {tr.buyOrder, tr.sellOrder} THEN tr.quantity ELSE 0])
WithinOrder(o) ==
    TradedOf(o) <= o.amount /\ released[o] <= LockAmount(o, o.amount - TradedOf(o))

\* The UPDATEs of a settlement have no balance condition. Unless an order of the account trades
\* more than its amount, or more is unlocked than what remains of it, they need none: however
\* many trades fill an order in parts, what was locked for it once covers them and what is
\* unlocked of the rest, though the two services round differently.
NonNegative ==
    \A a \in Account :
        /\ accounts[a].avail >= 0
        /\ accounts[a].locked < 0 => \E o \in Order : AccountOf(o) = a /\ ~WithinOrder(o)

\* No trade creates or destroys money, in either of its currencies.
Conservation ==
    \A cur \in Currency :
        SumFunction([u \in User |-> accounts[<<u, cur>>].avail + accounts[<<u, cur>>].locked])
      = SumFunction([u \in User |-> Reserved[<<u, cur>>]])

\* The ledger has the rows of a settled trade once on each of its four accounts and of no
\* other trade, and continues row by row to the balances of the account, however often and
\* by however many consumers the event was handled, and whatever is unlocked meanwhile.
SettledOnce ==
    \A a \in Account :
        LET rows == ledger[a]
            Before(i) == IF i = 1 THEN [avail |-> 0, locked |-> Reserved[a]] ELSE rows[i - 1]
            Last == Before(Len(rows) + 1)
        IN  /\ {rows[i].of : i \in DOMAIN rows} \cap Trade = {tr \in processed : a \in AccountsOf(tr)}
            /\ \A i, j \in DOMAIN rows : rows[i].of \in Trade /\ rows[i].of = rows[j].of => i = j
            /\ \A i \in DOMAIN rows :
                  /\ rows[i].avail = Before(i).avail + rows[i].dAvail
                  /\ rows[i].locked = Before(i).locked + rows[i].dLocked
            /\ accounts[a].avail = Last.avail /\ accounts[a].locked = Last.locked

\* A consumer leaves no message behind undone: a trade is settled (or one of a
\* user with itself) and a malformed message is on the dead letter queue before
\* its offset is resolved.
NothingSkipped ==
    \A c \in Consumer : start[c] # 0 =>
        \A i \in start[c] .. pos[c] - 1 :
            /\ log[i] \in Trade => log[i] \in processed \/ SelfTrade(log[i])
            /\ log[i] \in Malformed => i \in dlq

\* The overlapping, failing consumers implement one atomic step per trade.
ClearingSpec == INSTANCE Clearing
ImplementsClearing == ClearingSpec!Spec

\* A consumer comes to the end of the log (which stops growing), unless it leaves:
\* neither a malformed message nor a row lock blocks the partition for good, so that
\* settlements of trades over common accounts do not deadlock.
EveryMessageHandled ==
    \A c \in Consumer : []<>(start[c] = 0 \/ pos[c] > Len(log))

\* libs/common/src/kafka/kafka-consumer.abstract.ts:108 says that a batch is
\* processed with "manual commit after successful handling".
CommittedAfterHandling ==
    \A c \in Consumer : pc[c] = "idle" /\ start[c] # 0 => committed >= pos[c] \/ pos[c] = start[c]
=============================================================================
