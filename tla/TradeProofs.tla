----------------------------- MODULE TradeProofs -----------------------------
(***************************************************************************)
(* Proofs about Settlement and Matching.                                   *)
(*                                                                         *)
(* However many consumers overlap and fail, and however often the relay    *)
(* publishes an event, a trade is settled once, in what looks like one     *)
(* step, and no message is left behind undone. What was locked once for an *)
(* order covers all its trades, however it is filled in parts.             *)
(*                                                                         *)
(* Takers that overlap go through the book in one order, and never wait in *)
(* a circle; as long as requests neither overlap nor fail, the book tells  *)
(* the table, the table tells the trades, and nobody sees that a request   *)
(* takes more than one step.                                               *)
(***************************************************************************)
EXTENDS Settlement, Matching, SumTheorems, TLAPS

-----------------------------------------------------------------------------
(***************************************************************************)
(* The amounts of a trade, and of an order.                                *)
(***************************************************************************)

LEMMA AccountTypes ==
    ASSUME NEW tr \in Trade
    PROVE  AccountsOf(tr) \subseteq Account /\ AccountsOf(tr) # {}
BY TradeAssumption DEF AccountsOf, BuyerQuote, BuyerBase, SellerQuote, SellerBase, Account

LEMMA DivTypes == \A x, y \in Int : Times(x, y) \in Int
BY ScaleAssumption DEF Times

LEMMA DeltaTypes ==
    ASSUME NEW tr \in Trade, NEW a
    PROVE  AvailDelta(tr, a) \in Int /\ LockedDelta(tr, a) \in Int
<1>1. tr.price \in Int /\ tr.quantity \in Int /\ tr.buyerLimitPrice \in Int
  BY TradeAssumption
<1>2. QuoteCost(tr) \in Int /\ SurplusRefund(tr) \in Int
  <2>1. \A y \in Int : Times(tr.price, y) \in Int /\ Times(tr.buyerLimitPrice - tr.price, y) \in Int
    <3>1. tr.buyerLimitPrice - tr.price \in Int
      BY <1>1
    <3>2. QED
      BY <1>1, <3>1, DivTypes
  <2>2. Times(tr.price, tr.quantity) \in Int /\ Times(tr.buyerLimitPrice - tr.price, tr.quantity) \in Int
    BY <1>1, <2>1
  <2> HIDE DEF Times
  <2>3. QED
    BY <2>2 DEF QuoteCost, SurplusRefund
<1>3. QED
  BY <1>1, <1>2 DEF AvailDelta, LockedDelta

LEMMA DivBounds ==
    ASSUME NEW S \in Nat \ {0}, NEW A \in Nat
    PROVE  A \div S \in Nat /\ S * (A \div S) <= A /\ A < S * (A \div S) + S
OBVIOUS

LEMMA DivLargest ==
    ASSUME NEW S \in Nat \ {0}, NEW A \in Nat, NEW q \in Nat, S * q <= A
    PROVE  q <= A \div S
<1>1. PICK d \in Nat : d = A \div S /\ A < S * d + S
  BY DivBounds
<1>2. S * q < S * d + S
  BY <1>1
<1>3. ASSUME q >= d + 1 PROVE FALSE
  <2>1. PICK e \in Nat : q = d + 1 + e
    BY <1>3
  <2>2. S * q = S * d + S + S * e
    BY <2>1
  <2>3. S * e >= 0 /\ S * q \in Int /\ S * d \in Int /\ S * e \in Int
    OBVIOUS
  <2>4. QED
    BY <1>2, <2>2, <2>3
<1>4. QED
  BY <1>1, <1>3

LEMMA TimesMore ==
    ASSUME NEW S \in Nat, NEW q \in Nat, NEW d \in Nat, q <= d
    PROVE  S * q <= S * d
<1>1. PICK e \in Nat : d = q + e
  <2>1. d - q \in Nat /\ d = q + (d - q)
    OBVIOUS
  <2>2. QED
    BY <2>1
<1>2. S * d = S * q + S * e /\ S * e \in Nat /\ S * q \in Nat
  BY <1>1
<1>3. QED
  BY <1>2

\* Rounding half up gives a natural number, no more than half of one above the product.
LEMMA HalfUp ==
    ASSUME NEW L \in Nat, NEW q \in Nat
    PROVE  /\ TimesHalfUp(L, q) \in Nat
           /\ (2 * Scale) * TimesHalfUp(L, q) <= 2 * (L * q) + Scale
<1>1. PICK A \in Nat : A = L * q
  OBVIOUS
<1>2. 2 * Scale \in Nat \ {0} /\ 2 * A + Scale \in Nat
  BY ScaleAssumption
<1>3. TimesHalfUp(L, q) = (2 * A + Scale) \div (2 * Scale)
  <2>1. 2 * L * q = 2 * A
    BY <1>1
  <2>2. QED
    BY <2>1 DEF TimesHalfUp
<1>4. QED
  BY <1>1, <1>2, <1>3, DivBounds

\* What the parts of an order cost, rounded down, and what is unlocked of the rest, rounded
\* half up, are no more than what is locked for all of it, rounded half up.
LEMMA PartsFit ==
    ASSUME NEW L \in Nat, NEW done \in Nat, NEW rest \in Nat, NEW spent \in Nat, NEW free \in Nat,
           Scale * spent <= L * done, free <= TimesHalfUp(L, rest)
    PROVE  spent + free <= TimesHalfUp(L, done + rest)
<1>1. PICK S \in Nat \ {0} : S = Scale
  BY ScaleAssumption
<1>2. PICK h \in Nat : h = TimesHalfUp(L, rest) /\ (2 * S) * h <= 2 * (L * rest) + S
  BY <1>1, HalfUp
<1>3. (2 * S) * free <= (2 * S) * h
  <2>1. 2 * S \in Nat /\ free <= h
    BY <1>2
  <2>2. QED
    BY <2>1, TimesMore
<1>4. PICK x \in Nat : x = S * spent
  OBVIOUS
<1>5. PICK y \in Nat : y = (2 * S) * free
  <2>1. 2 * S \in Nat
    OBVIOUS
  <2>2. QED
    BY <2>1
<1>6. PICK u \in Nat : u = L * done
  OBVIOUS
<1>7. PICK v \in Nat : v = L * rest
  OBVIOUS
<1>8. (2 * S) * (spent + free) = 2 * x + y
  BY <1>4, <1>5
<1>9. x <= u /\ y <= 2 * v + S
  <2>1. y <= (2 * S) * h /\ (2 * S) * h <= 2 * v + S /\ (2 * S) * h \in Int
    BY <1>2, <1>3, <1>5, <1>7
  <2>2. QED
    BY <1>1, <1>4, <1>6, <2>1
<1>10. (2 * S) * (spent + free) <= 2 * (u + v) + S
  BY <1>8, <1>9
<1>11. /\ 2 * S \in Nat \ {0} /\ 2 * (u + v) + S \in Nat /\ spent + free \in Nat
  OBVIOUS
<1>12. spent + free <= (2 * (u + v) + S) \div (2 * S)
  BY <1>10, <1>11, DivLargest
<1>13. TimesHalfUp(L, done + rest) = (2 * (u + v) + S) \div (2 * S)
  <2>1. 2 * L * (done + rest) = 2 * (u + v)
    BY <1>6, <1>7
  <2>2. QED
    BY <1>1, <2>1 DEF TimesHalfUp
<1>14. QED
  BY <1>12, <1>13

LEMMA OrderAccounts == \A o \in Order : AccountOf(o) \in Account
BY OrderAssumption DEF AccountOf, Account

LEMMA LockTypes ==
    ASSUME NEW o \in Order, NEW q \in Nat
    PROVE  LockAmount(o, q) \in Nat
<1>1. o.price \in Nat
  BY OrderAssumption
<1>2. TimesHalfUp(o.price, q) \in Nat
  BY <1>1, HalfUp
<1>3. QED
  BY <1>2 DEF LockAmount

\* A trade moves nothing on other accounts than its four.
LEMMA OthersUnmoved ==
    ASSUME NEW tr \in Trade, NEW a, a \notin AccountsOf(tr)
    PROVE  AvailDelta(tr, a) = 0 /\ LockedDelta(tr, a) = 0
BY DEF AccountsOf, AvailDelta, LockedDelta

-----------------------------------------------------------------------------
(***************************************************************************)
(* The invariant. The event in hand is a trade whose accounts are open;    *)
(* row locks are exclusive; and a transaction that is about to commit has  *)
(* locked all accounts of a trade that is not settled yet.                 *)
(***************************************************************************)

\* Nothing is left to do for the message at offset i.
Done(i) ==
    /\ log[i] \in Trade => log[i] \in processed \/ SelfTrade(log[i])
    /\ log[i] \in Malformed => i \in dlq

\* What consumer c has in hand, according to how far it has come.
Hand(c) ==
    /\ pc[c] # "idle" => start[c] # 0 /\ pos[c] \in 1 .. Len(log)
    /\ pc[c] \in {"opening", "checking", "locking", "marked"} => Message(c) \in Trade
    /\ pc[c] \in {"checking", "locking", "marked"} => AccountsOf(Message(c)) \subseteq opened
    /\ pc[c] \notin {"locking", "marked"} => held[c] = {}
    /\ pc[c] = "marked" => AccountsOf(Message(c)) \subseteq held[c] /\ Message(c) \notin processed
    /\ pc[c] = "poisoned" => Message(c) \in Malformed
    /\ pc[c] = "handled" => Done(pos[c])

\* What it has left behind.
Behind(c) ==
    start[c] # 0 => /\ pos[c] <= Len(log) + 1
                    /\ \A i \in start[c] .. pos[c] - 1 : Done(i)

RowLocks == \A c, d \in Consumer : c # d => held[c] \cap held[d] = {}

SettleInv ==
    /\ TypeOK
    /\ committed <= Len(log) + 1
    /\ \A c \in Consumer : Hand(c) /\ Behind(c)
    /\ RowLocks
    /\ SettledOnce

LEMMA LogTypes ==
    ASSUME TypeOK
    PROVE  /\ Len(log) \in Nat /\ DOMAIN log = 1 .. Len(log)
           /\ \A i \in 1 .. Len(log) : log[i] \in Event
BY DEF TypeOK

LEMMA InitSettle == Init => SettleInv
<1> SUFFICES ASSUME Init PROVE SettleInv
  OBVIOUS
<1>1. TypeOK
  BY FundsAreLocked DEF Init, TypeOK, Step
<1>2. \A c \in Consumer : Hand(c) /\ Behind(c)
  BY DEF Init, Hand, Behind
<1>3. RowLocks
  BY DEF Init, RowLocks
<1>4. SettledOnce
  BY DEF Init, SettledOnce
<1>5. committed <= Len(log) + 1
  BY DEF Init
<1>6. QED
  BY <1>1, <1>2, <1>3, <1>4, <1>5 DEF SettleInv

\* What may happen around a consumer that does nothing itself.
Around ==
    /\ Len(log') \in Nat /\ Len(log) <= Len(log') /\ \A i \in 1 .. Len(log) : log'[i] = log[i]
    /\ opened \subseteq opened' /\ processed \subseteq processed' /\ dlq \subseteq dlq'

Still(d) == pc'[d] = pc[d] /\ pos'[d] = pos[d] /\ held'[d] = held[d] /\ start'[d] = start[d]

LEMMA StillKeeps ==
    ASSUME SettleInv, Around, NEW d \in Consumer, Still(d),
           pc[d] = "marked" => Message(d) \notin processed'
    PROVE  Hand(d)' /\ Behind(d)'
<1>1. Hand(d) /\ Behind(d) /\ Len(log) \in Nat /\ start[d] \in Nat /\ pos[d] \in Nat
  BY LogTypes DEF SettleInv, TypeOK
<1>2. \A i \in 1 .. Len(log) : Done(i) => Done(i)'
  BY DEF Done, Around
<1>3. pc[d] # "idle" => /\ pos[d] \in 1 .. Len(log) /\ pos[d] \in 1 .. Len(log') /\ Message(d)' = Message(d)
                        /\ (Done(pos[d]) => Done(pos[d])')
  <2>1. ASSUME pc[d] # "idle" PROVE pos[d] \in 1 .. Len(log) /\ pos[d] \in 1 .. Len(log')
    BY <1>1, <2>1 DEF Hand, Around
  <2>2. ASSUME pc[d] # "idle" PROVE Message(d)' = Message(d)
    BY <2>1, <2>2 DEF Message, Around, Still
  <2>3. ASSUME pc[d] # "idle", Done(pos[d]) PROVE Done(pos[d])'
    <3>1. \A i : i = pos'[d] /\ Done(i)' => Done(pos[d])'
      BY DEF Done
    <3>2. pos'[d] = pos[d] /\ pos[d] \in 1 .. Len(log)
      BY <2>1, <2>3 DEF Still
    <3>3. QED
      BY <1>2, <2>3, <3>1, <3>2
  <2>4. QED
    BY <2>1, <2>2, <2>3
<1>4. Hand(d)'
  <2>1. Message(d) \notin processed' \/ pc[d] # "marked"
    OBVIOUS
  <2>2. QED
    BY <1>1, <1>3, <2>1 DEF Hand, Still, Around
<1>5. Behind(d)'
  <2> SUFFICES ASSUME start[d] # 0
               PROVE  pos[d] <= Len(log') + 1 /\ \A i \in start[d] .. pos[d] - 1 : Done(i)'
    BY DEF Behind, Still
  <2>1. pos[d] <= Len(log) + 1 /\ \A i \in start[d] .. pos[d] - 1 : Done(i) /\ i \in 1 .. Len(log)
    BY <1>1 DEF Behind
  <2>2. pos[d] <= Len(log') + 1
    BY <1>1, <2>1 DEF Around
  <2>3. QED
    BY <1>2, <2>1, <2>2
<1>6. QED
  BY <1>4, <1>5

-----------------------------------------------------------------------------
(***************************************************************************)
(* The partition and the group.                                            *)
(***************************************************************************)

\* A step that leaves balances, ledger and processed events keeps what they tell.
LEMMA SettledKept ==
    ASSUME SettledOnce, UNCHANGED <<accounts, ledger, processed>>
    PROVE  SettledOnce'
BY DEF SettledOnce

LEMMA PublishKeeps ==
    ASSUME SettleInv, NEW e \in Event, Publish(e)
    PROVE  SettleInv'
<1>1. /\ log' = Append(log, e) /\ log \in Seq(Event) /\ committed' = committed
      /\ joins' = joins /\ faults' = faults /\ start' = start /\ pos' = pos /\ pc' = pc /\ held' = held
      /\ opened' = opened /\ accounts' = accounts /\ ledger' = ledger /\ processed' = processed /\ dlq' = dlq
      /\ released' = released
  BY DEF Publish, SettleInv, TypeOK, tables
<1>2. log' \in Seq(Event) /\ Len(log') = Len(log) + 1 /\ \A i \in 1 .. Len(log) : log'[i] = log[i]
  BY <1>1
<1>3. TypeOK'
  BY <1>1, <1>2 DEF SettleInv, TypeOK
<1>4. Around
  BY <1>1, <1>2, LogTypes DEF Around, SettleInv
<1>5. \A d \in Consumer : Hand(d)' /\ Behind(d)'
  <2> TAKE d \in Consumer
  <2>1. Still(d) /\ (pc[d] = "marked" => Message(d) \notin processed')
    BY <1>1 DEF Still, SettleInv, Hand
  <2>2. QED
    BY <1>4, <2>1, StillKeeps
<1>6. RowLocks' /\ SettledOnce'
  BY <1>1, SettledKept DEF SettleInv, RowLocks
<1>7. committed' <= Len(log') + 1
  BY <1>1, <1>2, LogTypes DEF SettleInv, TypeOK
<1>8. QED
  BY <1>3, <1>5, <1>6, <1>7 DEF SettleInv

\* A step of consumer c that leaves the log, keeps the committed offset and locks no row
\* of another keeps the invariant, if c's own part and the ledger do.
LEMMA ConsumerKeeps ==
    ASSUME SettleInv, NEW c \in Consumer,
           UNCHANGED <<log, committed>>, TypeOK', SettledOnce',
           opened \subseteq opened', processed \subseteq processed', dlq \subseteq dlq',
           \A d \in Consumer \ {c} : /\ Still(d) /\ held'[c] \cap held[d] = {}
                                     /\ pc[d] = "marked" => Message(d) \notin processed',
           Hand(c)', Behind(c)'
    PROVE  SettleInv'
<1>1. Around
  BY LogTypes DEF Around, SettleInv
<1>2. \A d \in Consumer : Hand(d)' /\ Behind(d)'
  <2> TAKE d \in Consumer
  <2>1. CASE d = c
    BY <2>1
  <2>2. CASE d # c
    BY <1>1, <2>2, StillKeeps
  <2>3. QED
    BY <2>1, <2>2
<1>3. RowLocks'
  BY DEF RowLocks, Still, SettleInv
<1>4. committed' <= Len(log') + 1
  BY DEF SettleInv
<1>5. QED
  BY <1>2, <1>3, <1>4 DEF SettleInv

\* A step of a handler that neither locks, commits nor moves on: c comes from step pc[c]
\* to another, and may give up its locks.
LEMMA HandlerKeeps ==
    ASSUME SettleInv, NEW c \in Consumer, NEW p \in Step, Proceed(c, p),
           UNCHANGED <<log, committed, start, pos, accounts, ledger, processed, released>>,
           joins' \in Nat, faults' \in Nat, opened \subseteq opened', opened' \subseteq Account,
           dlq \subseteq dlq', dlq' \subseteq Nat,
           held' = held \/ held' = [held EXCEPT ![c] = {}],
           Hand(c)'
    PROVE  SettleInv'
<1>1. /\ pc' = [pc EXCEPT ![c] = p] /\ start' = start /\ pos' = pos /\ log' = log /\ processed' = processed
      /\ committed' = committed /\ accounts' = accounts /\ ledger' = ledger /\ released' = released
  BY DEF Proceed
<1>2. TypeOK
  BY DEF SettleInv
<1>3. TypeOK'
  BY <1>1, <1>2 DEF TypeOK
<1>4. SettledOnce'
  BY SettledKept DEF SettleInv
<1>5. held'[c] \subseteq held[c] /\ \A d \in Consumer \ {c} : Still(d)
  BY <1>1, <1>2 DEF TypeOK, Still
<1>6. \A d \in Consumer \ {c} : /\ held'[c] \cap held[d] = {}
                                /\ pc[d] = "marked" => Message(d) \notin processed'
  BY <1>1, <1>5 DEF SettleInv, RowLocks, Hand
<1>7. Behind(c)'
  <2>1. \A i : Done(i) => Done(i)'
    BY <1>1 DEF Done
  <2>2. QED
    BY <1>1, <2>1 DEF SettleInv, Behind
<1>8. QED
  BY <1>1, <1>3, <1>4, <1>5, <1>6, <1>7, ConsumerKeeps

LEMMA MembershipKeeps ==
    ASSUME SettleInv, NEW c \in Consumer, Join(c) \/ Leave(c)
    PROVE  SettleInv'
<1>1. /\ UNCHANGED <<log, committed>> /\ log' = log /\ opened' = opened /\ processed' = processed /\ dlq' = dlq
      /\ accounts' = accounts /\ ledger' = ledger /\ faults' = faults /\ released' = released
  BY DEF Join, Leave, tables
<1>2. TypeOK /\ Len(log) \in Nat /\ committed \in Nat /\ committed <= Len(log) + 1
  BY LogTypes DEF SettleInv, TypeOK
<1>3. /\ TypeOK' /\ held'[c] \subseteq held[c] /\ \A d \in Consumer \ {c} : Still(d)
      /\ start'[c] = pos'[c] /\ pos'[c] \in Nat /\ pos'[c] <= Len(log) + 1
  <2>1. CASE Join(c)
    <3> DEFINE first == IF committed # 0 THEN committed ELSE Len(log) + 1
    <3>1. first \in Nat /\ first <= Len(log) + 1
      BY <1>2
    <3>2. /\ joins' = joins + 1 /\ start' = [start EXCEPT ![c] = first] /\ pos' = [pos EXCEPT ![c] = first]
          /\ pc' = pc /\ held' = held
      BY <2>1 DEF Join
    <3> HIDE DEF first
    <3>3. QED
      BY <1>1, <1>2, <3>1, <3>2 DEF TypeOK, Still
  <2>2. CASE Leave(c)
    BY <1>1, <1>2, <2>2 DEF Leave, TypeOK, Still, Step
  <2>3. QED
    BY <2>1, <2>2
<1>4. pc'[c] = "idle" /\ held'[c] = {}
  <2>1. Join(c) => start[c] = 0 /\ pc' = pc /\ held' = held
    BY DEF Join
  <2>2. start[c] = 0 => pc[c] = "idle" /\ held[c] = {}
    BY DEF SettleInv, Hand
  <2>3. Leave(c) => pc'[c] = "idle" /\ held'[c] = {}
    BY <1>2 DEF Leave, TypeOK
  <2>4. QED
    BY <2>1, <2>2, <2>3
<1>5. Hand(c)'
  BY <1>4 DEF Hand
<1>6. Behind(c)'
  BY <1>1, <1>3 DEF Behind
<1>7. SettledOnce'
  BY <1>1, SettledKept DEF SettleInv
<1>8. \A d \in Consumer \ {c} : /\ held'[c] \cap held[d] = {}
                                /\ pc[d] = "marked" => Message(d) \notin processed'
  BY <1>1, <1>4 DEF SettleInv, Hand
<1>9. QED
  BY <1>1, <1>3, <1>5, <1>6, <1>7, <1>8, ConsumerKeeps

-----------------------------------------------------------------------------
(***************************************************************************)
(* The handler, up to the commit.                                          *)
(***************************************************************************)

LEMMA HandlerFacts ==
    ASSUME SettleInv, NEW c \in Consumer
    PROVE  /\ Hand(c) /\ pc[c] \in Step /\ held[c] \subseteq opened /\ opened \subseteq Account
           /\ joins \in Nat /\ faults \in Nat /\ dlq \subseteq Nat /\ pos[c] \in Nat
           /\ start[c] # 0 /\ pos[c] \in DOMAIN log => Message(c) \in Event
           /\ pc[c] # "idle" => Message(c) \in Event /\ pos[c] \in DOMAIN log
           /\ \A p : Proceed(c, p) => pc'[c] = p
<1>1. TypeOK /\ Hand(c)
  BY DEF SettleInv
<1>2. \A p : Proceed(c, p) => pc'[c] = p
  BY <1>1 DEF TypeOK, Proceed
<1>3. start[c] # 0 /\ pos[c] \in DOMAIN log => Message(c) \in Event
  BY <1>1, LogTypes DEF Message
<1>4. pc[c] # "idle" => start[c] # 0 /\ pos[c] \in DOMAIN log
  BY <1>1, LogTypes DEF Hand
<1>5. QED
  BY <1>1, <1>2, <1>3, <1>4 DEF TypeOK

LEMMA FetchKeeps ==
    ASSUME SettleInv, NEW c \in Consumer, Fetch(c)
    PROVE  SettleInv'
<1>1. /\ UNCHANGED <<log, committed, start, pos, accounts, ledger, processed, released>>
      /\ log' = log /\ start' = start /\ pos' = pos /\ joins' = joins /\ faults' = faults
      /\ opened' = opened /\ dlq' = dlq /\ held' = held /\ processed' = processed
      /\ start[c] # 0 /\ pos[c] \in DOMAIN log /\ pc[c] = "idle"
  BY DEF Fetch, kafka, tables
<1>2. PICK p \in {"poisoned", "handled", "opening"} :
          /\ Proceed(c, p)
          /\ p = "poisoned" => Message(c) \in Malformed
          /\ p = "handled" => Message(c) \notin Malformed /\ (Message(c) \in Ignored \/ SelfTrade(Message(c)))
          /\ p = "opening" => Message(c) \notin Malformed \cup Ignored
  BY DEF Fetch
<1>3. Message(c) \in Event /\ held[c] = {} /\ pc'[c] = p /\ Message(c)' = Message(c)
  BY <1>1, <1>2, HandlerFacts DEF Hand, Message
<1>4. p = "handled" => Done(pos[c])'
  BY <1>1, <1>2, TradeAssumption DEF Done, Message
<1>5. Hand(c)'
  BY <1>1, <1>2, <1>3, <1>4, LogTypes DEF Hand, Event, SettleInv
<1>6. p \in Step
  BY DEF Step
<1>7. QED
  BY <1>1, <1>2, <1>5, <1>6, HandlerFacts, HandlerKeeps

LEMMA OpenAccountsKeeps ==
    ASSUME SettleInv, NEW c \in Consumer, OpenAccounts(c)
    PROVE  SettleInv'
<1>1. /\ UNCHANGED <<log, committed, start, pos, accounts, ledger, processed, released>>
      /\ log' = log /\ start' = start /\ pos' = pos /\ joins' = joins /\ faults' = faults
      /\ dlq' = dlq /\ held' = held
      /\ opened' = opened \cup AccountsOf(Message(c)) /\ pc[c] = "opening" /\ Proceed(c, "checking")
  BY DEF OpenAccounts, kafka
<1>2. Message(c) \in Trade /\ held[c] = {} /\ pc'[c] = "checking" /\ Message(c)' = Message(c)
  BY <1>1, HandlerFacts DEF Hand, Message
<1>3. opened' \subseteq Account
  BY <1>1, <1>2, AccountTypes, HandlerFacts
<1>4. Hand(c)'
  BY <1>1, <1>2, HandlerFacts DEF Hand
<1>5. QED
  BY <1>1, <1>3, <1>4, HandlerFacts, HandlerKeeps DEF Step

LEMMA IsEventProcessedKeeps ==
    ASSUME SettleInv, NEW c \in Consumer, IsEventProcessed(c)
    PROVE  SettleInv'
<1>1. /\ UNCHANGED <<log, committed, start, pos, accounts, ledger, processed, released>>
      /\ log' = log /\ start' = start /\ pos' = pos /\ joins' = joins /\ faults' = faults
      /\ dlq' = dlq /\ held' = held /\ opened' = opened /\ processed' = processed /\ pc[c] = "checking"
  BY DEF IsEventProcessed, kafka, tables
<1>2. PICK p \in {"handled", "locking"} : Proceed(c, p) /\ (p = "handled" => Message(c) \in processed)
  BY DEF IsEventProcessed
<1>3. Message(c) \in Trade /\ held[c] = {} /\ pc'[c] = p /\ Message(c)' = Message(c)
  BY <1>1, <1>2, HandlerFacts DEF Hand, Message
<1>4. p = "handled" => Done(pos[c])'
  BY <1>1, <1>2, <1>3, TradeAssumption DEF Done, Message
<1>5. Hand(c)'
  BY <1>1, <1>2, <1>3, <1>4, HandlerFacts DEF Hand
<1>6. p \in Step
  BY DEF Step
<1>7. QED
  BY <1>1, <1>2, <1>5, <1>6, HandlerFacts, HandlerKeeps

\* A row lock is taken by one transaction at a time.
LEMMA LockAccountKeeps ==
    ASSUME SettleInv, NEW c \in Consumer, NEW a \in Account, LockAccount(c, a)
    PROVE  SettleInv'
<1>1. /\ UNCHANGED <<log, committed>> /\ log' = log /\ committed' = committed /\ start' = start /\ pos' = pos
      /\ joins' = joins /\ faults' = faults /\ pc' = pc
      /\ dlq' = dlq /\ opened' = opened /\ processed' = processed
      /\ accounts' = accounts /\ ledger' = ledger /\ released' = released
      /\ pc[c] = "locking" /\ held' = [held EXCEPT ![c] = @ \cup {a}]
      /\ \A d \in Consumer \ {c} : a \notin held[d]
      /\ a \in AccountsOf(Message(c))
  BY DEF LockAccount, NextAccount, Wanted, kafka, tables
<1>2. TypeOK /\ Hand(c) /\ Message(c)' = Message(c)
  BY <1>1 DEF SettleInv, Message
<1>3. a \in opened
  BY <1>1, <1>2 DEF Hand
<1>4. held'[c] = held[c] \cup {a} /\ \A d \in Consumer \ {c} : Still(d)
  BY <1>1, <1>2 DEF TypeOK, Still
<1>5. TypeOK'
  BY <1>1, <1>2, <1>3 DEF TypeOK
<1>6. \A d \in Consumer \ {c} : /\ held'[c] \cap held[d] = {}
                                /\ pc[d] = "marked" => Message(d) \notin processed'
  BY <1>1, <1>4 DEF SettleInv, RowLocks, Hand
<1>7. Hand(c)'
  BY <1>1, <1>2 DEF Hand
<1>8. Behind(c)'
  <2>1. \A i : Done(i) => Done(i)'
    BY <1>1 DEF Done
  <2>2. QED
    BY <1>1, <2>1 DEF SettleInv, Behind
<1>9. SettledOnce'
  BY <1>1, SettledKept DEF SettleInv
<1>10. QED
  BY <1>1, <1>4, <1>5, <1>6, <1>7, <1>8, <1>9, ConsumerKeeps

LEMMA MarkKeeps ==
    ASSUME SettleInv, NEW c \in Consumer, MarkEventProcessed(c)
    PROVE  SettleInv'
<1>1. /\ UNCHANGED <<log, committed, start, pos, accounts, ledger, processed, released>>
      /\ log' = log /\ start' = start /\ pos' = pos /\ joins' = joins /\ faults' = faults
      /\ dlq' = dlq /\ held' = held /\ opened' = opened /\ processed' = processed /\ pc[c] = "locking"
      /\ Proceed(c, "marked") /\ Message(c) \notin processed /\ AccountsOf(Message(c)) \subseteq held[c]
  BY DEF MarkEventProcessed, Wanted, kafka, tables
<1>2. pc'[c] = "marked" /\ Message(c)' = Message(c)
  BY <1>1, HandlerFacts DEF Message
<1>3. Hand(c)'
  BY <1>1, <1>2, HandlerFacts DEF Hand
<1>4. QED
  BY <1>1, <1>3, HandlerFacts, HandlerKeeps DEF Step

\* The failed INSERT and every other failure roll the transaction back.
LEMMA GiveUpKeeps ==
    ASSUME SettleInv, NEW c \in Consumer, MarkDuplicate(c) \/ Fail(c)
    PROVE  SettleInv'
<1>1. /\ UNCHANGED <<log, committed, start, pos, accounts, ledger, processed, released>>
      /\ joins' = joins /\ faults' \in Nat /\ dlq' = dlq /\ opened' = opened
      /\ held' = [held EXCEPT ![c] = {}] /\ Proceed(c, "idle")
  BY HandlerFacts DEF MarkDuplicate, Fail, kafka, tables
<1>2. pc'[c] = "idle" /\ held'[c] = {}
  BY <1>1, HandlerFacts DEF SettleInv, TypeOK
<1>3. Hand(c)'
  BY <1>2 DEF Hand
<1>4. QED
  BY <1>1, <1>3, HandlerFacts, HandlerKeeps DEF Step

LEMMA RouteToDlqKeeps ==
    ASSUME SettleInv, NEW c \in Consumer, RouteToDlq(c)
    PROVE  SettleInv'
<1>1. /\ UNCHANGED <<log, committed, start, pos, accounts, ledger, processed, released>>
      /\ log' = log /\ start' = start /\ pos' = pos /\ joins' = joins /\ faults' = faults
      /\ dlq' = dlq \cup {pos[c]} /\ held' = held /\ opened' = opened /\ pc[c] = "poisoned"
      /\ Proceed(c, "handled")
  BY DEF RouteToDlq, tables
<1>2. Message(c) \in Malformed /\ held[c] = {} /\ pc'[c] = "handled"
  BY <1>1, HandlerFacts DEF Hand
<1>3. Done(pos[c])'
  BY <1>1, <1>2, TradeAssumption DEF Done, Message
<1>4. Hand(c)'
  BY <1>1, <1>2, <1>3, HandlerFacts DEF Hand
<1>5. QED
  BY <1>1, <1>4, HandlerFacts, HandlerKeeps DEF Step

\* The offset of a message is resolved when nothing is left to do for it.
LEMMA ResolveOffsetKeeps ==
    ASSUME SettleInv, NEW c \in Consumer, ResolveOffset(c)
    PROVE  SettleInv'
<1>1. /\ UNCHANGED <<log, committed>> /\ log' = log /\ committed' = committed /\ start' = start
      /\ pos' = [pos EXCEPT ![c] = @ + 1] /\ pc' = [pc EXCEPT ![c] = "idle"]
      /\ joins' = joins /\ faults' = faults /\ held' = held
      /\ dlq' = dlq /\ opened' = opened /\ processed' = processed
      /\ accounts' = accounts /\ ledger' = ledger /\ released' = released
      /\ pc[c] = "handled"
  BY DEF ResolveOffset, CommitOffsetsIfNecessary, Proceed, tables
<1>2. TypeOK /\ Hand(c) /\ Behind(c)
  BY DEF SettleInv
<1>3. /\ TypeOK' /\ pos'[c] = pos[c] + 1 /\ pc'[c] = "idle" /\ held'[c] = held[c]
      /\ \A d \in Consumer \ {c} : Still(d)
  BY <1>1, <1>2 DEF TypeOK, Still, Step
<1>4. held[c] = {} /\ Done(pos[c]) /\ pos[c] \in 1 .. Len(log) /\ Len(log) \in Nat /\ start[c] \in Nat \ {0}
  BY <1>1, <1>2, LogTypes DEF Hand, TypeOK
<1>5. Hand(c)'
  BY <1>1, <1>3, <1>4 DEF Hand
<1>6. \A i : Done(i) => Done(i)'
  BY <1>1 DEF Done
<1>7. Behind(c)'
  <2>1. \A i \in start[c] .. (pos[c] + 1) - 1 : i \in start[c] .. pos[c] - 1 \/ i = pos[c]
    BY <1>4
  <2>2. \A i \in start[c] .. (pos[c] + 1) - 1 : Done(i)'
    BY <1>2, <1>4, <1>6, <2>1 DEF Behind
  <2>3. pos[c] + 1 <= Len(log) + 1
    BY <1>4
  <2>4. QED
    BY <1>1, <1>3, <2>2, <2>3 DEF Behind
<1>8. \A d \in Consumer \ {c} : /\ held'[c] \cap held[d] = {}
                                /\ pc[d] = "marked" => Message(d) \notin processed'
  BY <1>1, <1>3, <1>4 DEF SettleInv, Hand
<1>9. SettledOnce'
  BY <1>1, SettledKept DEF SettleInv
<1>10. QED
  BY <1>1, <1>3, <1>5, <1>7, <1>8, <1>9, ConsumerKeeps

-----------------------------------------------------------------------------
(***************************************************************************)
(* The commit.                                                             *)
(***************************************************************************)

\* What the row before row i of account a left on it.
Prior(a, entered, i) == IF i = 1 THEN [avail |-> 0, locked |-> Reserved[a]] ELSE entered[i - 1]

\* SettledOnce for one account with these ledger rows and this balance.
AccountTold(a, entered, balance, done) ==
    /\ \A i \in DOMAIN entered : entered[i].of \in Trade =>
          entered[i].of \in done /\ a \in AccountsOf(entered[i].of)
    /\ \A tr \in done : a \in AccountsOf(tr) => \E i \in DOMAIN entered : entered[i].of = tr
    /\ \A i, j \in DOMAIN entered : entered[i].of \in Trade /\ entered[i].of = entered[j].of => i = j
    /\ \A i \in DOMAIN entered :
          /\ entered[i].avail = Prior(a, entered, i).avail + entered[i].dAvail
          /\ entered[i].locked = Prior(a, entered, i).locked + entered[i].dLocked
    /\ balance.avail = Prior(a, entered, Len(entered) + 1).avail
    /\ balance.locked = Prior(a, entered, Len(entered) + 1).locked

LEMMA ToldIsSettled ==
    processed \subseteq Trade =>
        (SettledOnce <=> \A b \in Account : AccountTold(b, ledger[b], accounts[b], processed))
<1> SUFFICES ASSUME processed \subseteq Trade
             PROVE  SettledOnce <=> \A b \in Account : AccountTold(b, ledger[b], accounts[b], processed)
  OBVIOUS
<1>1. \A a : {ledger[a][i].of : i \in DOMAIN ledger[a]} \cap Trade = {tr \in processed : a \in AccountsOf(tr)}
             <=> /\ \A i \in DOMAIN ledger[a] : ledger[a][i].of \in Trade =>
                       ledger[a][i].of \in processed /\ a \in AccountsOf(ledger[a][i].of)
                 /\ \A tr \in processed : a \in AccountsOf(tr) =>
                       \E i \in DOMAIN ledger[a] : ledger[a][i].of = tr
  OBVIOUS
<1>2. QED
  BY <1>1 DEF SettledOnce, AccountTold, Prior

\* A row of a trade that is settled now, or of an order whose funds are unlocked.
LEMMA RowAppended ==
    ASSUME NEW a, NEW entered \in Seq(Entry), NEW balance, NEW done, NEW cause,
           cause \in Trade => cause \notin done /\ a \in AccountsOf(cause),
           AccountTold(a, entered, balance, done),
           NEW row \in Entry, row.of = cause,
           row.avail = balance.avail + row.dAvail, row.locked = balance.locked + row.dLocked,
           NEW after, after.avail = row.avail, after.locked = row.locked
    PROVE  AccountTold(a, Append(entered, row), after, done \cup ({cause} \cap Trade))
<1> DEFINE n == Len(entered)
           more == Append(entered, row)
           now == done \cup ({cause} \cap Trade)
<1>1. /\ n \in Nat /\ DOMAIN entered = 1 .. n /\ DOMAIN more = 1 .. n + 1 /\ Len(more) = n + 1
      /\ more[n + 1] = row /\ \A i \in 1 .. n : more[i] = entered[i]
  OBVIOUS
<1>0. /\ done \subseteq now /\ (cause \in Trade => cause \in now)
      /\ \A t \in now : t \in done \/ (t = cause /\ t \in Trade)
  OBVIOUS
<1> HIDE DEF more, n, now
<1>2. \A i \in 1 .. n + 1 : i = n + 1 \/ i \in 1 .. n
  BY <1>1
<1>3. \A i \in 1 .. n : entered[i].of \in Trade => entered[i].of \in done /\ a \in AccountsOf(entered[i].of)
  BY <1>1 DEF AccountTold
<1>4. \A i \in 1 .. n + 1 : more[i].of \in Trade => more[i].of \in now /\ a \in AccountsOf(more[i].of)
  BY <1>0, <1>1, <1>2, <1>3
<1>5. \A t \in now : a \in AccountsOf(t) => \E i \in 1 .. n + 1 : more[i].of = t
  <2> SUFFICES ASSUME NEW t \in now, a \in AccountsOf(t)
               PROVE  \E i \in 1 .. n + 1 : more[i].of = t
    OBVIOUS
  <2>1. CASE t = cause
    <3>1. n + 1 \in 1 .. n + 1 /\ more[n + 1].of = t
      BY <1>1, <2>1
    <3>2. QED
      BY <3>1
  <2>2. CASE t \in done
    <3>1. PICK i \in 1 .. n : entered[i].of = t
      BY <1>1, <2>2 DEF AccountTold
    <3>2. i \in 1 .. n + 1 /\ more[i].of = t
      BY <1>1, <3>1
    <3>3. QED
      BY <3>2
  <2>3. QED
    BY <1>0, <2>1, <2>2
<1>6. \A i, j \in 1 .. n + 1 : more[i].of \in Trade /\ more[i].of = more[j].of => i = j
  <2>1. \A i, j \in 1 .. n : entered[i].of \in Trade /\ entered[i].of = entered[j].of => i = j
    BY <1>1 DEF AccountTold
  <2>2. \A i \in 1 .. n : more[i].of \in Trade => more[i].of # more[n + 1].of
    <3>1. \A i \in 1 .. n : more[i].of = entered[i].of /\ (entered[i].of \in Trade => entered[i].of \in done)
      BY <1>1, <1>3
    <3>2. more[n + 1].of = cause
      BY <1>1
    <3>3. QED
      BY <3>1, <3>2
  <2>3. TAKE i, j \in 1 .. n + 1
  <2>4. HAVE more[i].of \in Trade /\ more[i].of = more[j].of
  <2>5. CASE i \in 1 .. n /\ j \in 1 .. n
    <3>1. more[i] = entered[i] /\ more[j] = entered[j]
      BY <1>1, <2>5
    <3>2. QED
      BY <2>1, <2>4, <2>5, <3>1
  <2>6. CASE i \in 1 .. n /\ j = n + 1
    BY <2>2, <2>4, <2>6
  <2>7. CASE i = n + 1 /\ j \in 1 .. n
    BY <2>2, <2>4, <2>7
  <2>8. QED
    BY <1>2, <2>5, <2>6, <2>7
<1>7. /\ \A i \in 1 .. n : Prior(a, more, i) = Prior(a, entered, i)
      /\ Prior(a, more, n + 1) = Prior(a, entered, n + 1) /\ Prior(a, more, (n + 1) + 1) = row
  <2>1. \A i \in 1 .. n + 1 : i # 1 => i - 1 \in 1 .. n
    BY <1>1
  <2>2. \A i \in 1 .. n + 1 : Prior(a, more, i) = Prior(a, entered, i)
    BY <1>1, <2>1 DEF Prior
  <2>3. (n + 1) + 1 # 1 /\ ((n + 1) + 1) - 1 = n + 1 /\ n + 1 \in 1 .. n + 1
    BY <1>1
  <2>4. Prior(a, more, (n + 1) + 1) = row
    BY <1>1, <2>3 DEF Prior
  <2>5. \A i \in 1 .. n : i \in 1 .. n + 1
    BY <1>1
  <2>6. QED
    BY <2>2, <2>3, <2>4, <2>5
<1>8. /\ balance.avail = Prior(a, entered, n + 1).avail /\ balance.locked = Prior(a, entered, n + 1).locked
      /\ \A i \in 1 .. n : /\ entered[i].avail = Prior(a, entered, i).avail + entered[i].dAvail
                           /\ entered[i].locked = Prior(a, entered, i).locked + entered[i].dLocked
  BY <1>1 DEF AccountTold, n
<1>9. \A i \in 1 .. n + 1 : /\ more[i].avail = Prior(a, more, i).avail + more[i].dAvail
                            /\ more[i].locked = Prior(a, more, i).locked + more[i].dLocked
  <2>1. TAKE i \in 1 .. n + 1
  <2>2. CASE i \in 1 .. n
    <3>1. more[i] = entered[i] /\ Prior(a, more, i) = Prior(a, entered, i)
      BY <1>1, <1>7, <2>2
    <3>2. QED
      BY <1>8, <2>2, <3>1
  <2>3. CASE i = n + 1
    <3>1. more[i] = row /\ Prior(a, more, i) = Prior(a, entered, n + 1)
      BY <1>1, <1>7, <2>3
    <3>2. QED
      BY <1>8, <3>1
  <2>4. QED
    BY <1>2, <2>2, <2>3
<1>10. AccountTold(a, more, after, now)
  BY <1>1, <1>4, <1>5, <1>6, <1>7, <1>9 DEF AccountTold
<1>11. QED
  BY <1>10 DEF more, now

LEMMA NotConcerned ==
    ASSUME NEW a, NEW entered, NEW balance, NEW done, NEW tr, a \notin AccountsOf(tr),
           AccountTold(a, entered, balance, done)
    PROVE  AccountTold(a, entered, balance, done \cup {tr})
BY DEF AccountTold

\* What a commit does to an account of the trade and to its ledger.
LEMMA CommitEffect ==
    ASSUME SettleInv, NEW c \in Consumer, Commit(c)
    PROVE  LET tr == Message(c)
           IN  /\ tr \in Trade /\ tr \notin processed /\ processed' = processed \cup {tr}
               /\ AccountsOf(tr) \subseteq held[c]
               /\ accounts' \in [Account -> [avail : Int, locked : Int]]
               /\ \A a \in Account : accounts'[a] = After(tr, a)
               /\ ledger' \in [Account -> Seq(Entry)]
               /\ \A a \in Account \ AccountsOf(tr) : ledger'[a] = ledger[a] /\ accounts'[a] = accounts[a]
               /\ \A a \in AccountsOf(tr) : \E row \in Entry :
                     /\ ledger'[a] = Append(ledger[a], row) /\ row.of = tr
                     /\ row.avail = accounts[a].avail + row.dAvail
                     /\ row.locked = accounts[a].locked + row.dLocked
                     /\ accounts'[a].avail = row.avail /\ accounts'[a].locked = row.locked
<1> DEFINE tr == Message(c)
           NewEntry(a) == [of |-> tr, dAvail |-> AvailDelta(tr, a), dLocked |-> LockedDelta(tr, a),
                      avail |-> After(tr, a).avail, locked |-> After(tr, a).locked]
<1>1. /\ accounts' = [a \in Account |-> IF a \in AccountsOf(tr) THEN After(tr, a) ELSE accounts[a]]
      /\ ledger' = [a \in Account |->
             IF a \in AccountsOf(tr) THEN Append(ledger[a], NewEntry(a)) ELSE ledger[a]]
      /\ processed' = processed \cup {tr} /\ pc[c] = "marked"
  BY DEF Commit
<1>2. /\ tr \in Trade /\ tr \notin processed /\ AccountsOf(tr) \subseteq held[c]
  BY <1>1, HandlerFacts DEF Hand
<1>3. /\ accounts \in [Account -> [avail : Int, locked : Int]] /\ ledger \in [Account -> Seq(Entry)]
  BY DEF SettleInv, TypeOK
<1> HIDE DEF tr
<1>4. AccountsOf(tr) \subseteq Account
  BY <1>2, AccountTypes
<1>5. \A a \in Account : accounts[a].avail \in Int /\ accounts[a].locked \in Int
  BY <1>3
<1>6. ASSUME NEW a \in Account
      PROVE  /\ After(tr, a) \in [avail : Int, locked : Int]
             /\ After(tr, a).avail = accounts[a].avail + AvailDelta(tr, a)
             /\ After(tr, a).locked = accounts[a].locked + LockedDelta(tr, a)
  BY <1>2, <1>5, DeltaTypes DEF After
<1>7. ASSUME NEW a \in Account
      PROVE  /\ NewEntry(a) \in Entry /\ NewEntry(a).of = tr
             /\ NewEntry(a).avail = accounts[a].avail + NewEntry(a).dAvail
             /\ NewEntry(a).locked = accounts[a].locked + NewEntry(a).dLocked
             /\ After(tr, a).avail = NewEntry(a).avail /\ After(tr, a).locked = NewEntry(a).locked
  BY <1>2, <1>6, DeltaTypes DEF Entry
<1>8. ASSUME NEW a \in Account \ AccountsOf(tr)
      PROVE  After(tr, a) = accounts[a]
  <2>1. accounts[a] = [avail |-> accounts[a].avail, locked |-> accounts[a].locked]
    BY <1>3
  <2>2. AvailDelta(tr, a) = 0 /\ LockedDelta(tr, a) = 0
    BY <1>2, OthersUnmoved
  <2>3. accounts[a].avail + 0 = accounts[a].avail /\ accounts[a].locked + 0 = accounts[a].locked
    BY <1>5
  <2>4. QED
    BY <2>1, <2>2, <2>3 DEF After
<1> HIDE DEF NewEntry
<1>9. accounts' \in [Account -> [avail : Int, locked : Int]] /\ \A a \in Account : accounts'[a] = After(tr, a)
  BY <1>1, <1>3, <1>6, <1>8
<1>10. ledger' \in [Account -> Seq(Entry)]
  BY <1>1, <1>3, <1>7
<1>11. \A a \in Account \ AccountsOf(tr) : ledger'[a] = ledger[a] /\ accounts'[a] = accounts[a]
  BY <1>1
<1>12. \A a \in AccountsOf(tr) : ledger'[a] = Append(ledger[a], NewEntry(a)) /\ accounts'[a] = After(tr, a)
  BY <1>1, <1>4
<1>13. ASSUME NEW a \in AccountsOf(tr)
       PROVE  \E row \in Entry :
                 /\ ledger'[a] = Append(ledger[a], row) /\ row.of = tr
                 /\ row.avail = accounts[a].avail + row.dAvail
                 /\ row.locked = accounts[a].locked + row.dLocked
                 /\ accounts'[a].avail = row.avail /\ accounts'[a].locked = row.locked
  <2>1. a \in Account
    BY <1>4
  <2>2. QED
    BY <1>7, <1>12, <2>1
<1>14. QED
  BY <1>1, <1>2, <1>9, <1>10, <1>11, <1>13 DEF tr

LEMMA CommitKeeps ==
    ASSUME SettleInv, NEW c \in Consumer, Commit(c)
    PROVE  SettleInv'
<1> DEFINE tr == Message(c)
<1>1. /\ UNCHANGED <<log, committed>> /\ log' = log /\ committed' = committed /\ start' = start /\ pos' = pos
      /\ pc' = [pc EXCEPT ![c] = "handled"] /\ held' = [held EXCEPT ![c] = {}]
      /\ joins' = joins /\ faults' = faults /\ dlq' = dlq /\ opened' = opened /\ released' = released /\ pc[c] = "marked"
  BY DEF Commit, Proceed, kafka
<1>2. /\ tr \in Trade /\ tr \notin processed /\ processed' = processed \cup {tr}
      /\ AccountsOf(tr) \subseteq held[c]
      /\ accounts' \in [Account -> [avail : Int, locked : Int]] /\ ledger' \in [Account -> Seq(Entry)]
      /\ \A a \in Account \ AccountsOf(tr) : ledger'[a] = ledger[a] /\ accounts'[a] = accounts[a]
      /\ \A a \in AccountsOf(tr) : \E row \in Entry :
            /\ ledger'[a] = Append(ledger[a], row) /\ row.of = tr
            /\ row.avail = accounts[a].avail + row.dAvail
            /\ row.locked = accounts[a].locked + row.dLocked
            /\ accounts'[a].avail = row.avail /\ accounts'[a].locked = row.locked
  BY CommitEffect
<1>3. TypeOK /\ Hand(c) /\ Behind(c) /\ RowLocks /\ SettledOnce
  BY DEF SettleInv
<1> HIDE DEF tr
<1>4. TypeOK'
  BY <1>1, <1>2, <1>3 DEF TypeOK, Step
<1>5. pc'[c] = "handled" /\ held'[c] = {} /\ \A d \in Consumer \ {c} : Still(d)
  BY <1>1, <1>3 DEF TypeOK, Still
<1>6. \A d \in Consumer \ {c} : pc[d] = "marked" => Message(d) \notin processed'
  <2> SUFFICES ASSUME NEW d \in Consumer \ {c}, pc[d] = "marked" PROVE Message(d) # tr /\ Message(d) \notin processed
    BY <1>2
  <2>1. AccountsOf(Message(d)) \subseteq held[d] /\ Message(d) \notin processed
    BY DEF SettleInv, Hand
  <2>2. held[c] \cap held[d] = {}
    BY <1>3 DEF RowLocks
  <2>3. AccountsOf(tr) # {}
    BY <1>2, AccountTypes
  <2>4. QED
    BY <1>2, <2>1, <2>2, <2>3
<1>7. Done(pos[c])'
  BY <1>1, <1>2, TradeAssumption DEF Done, Message, tr
<1>8. Hand(c)'
  BY <1>1, <1>3, <1>5, <1>7 DEF Hand
<1>9. Behind(c)'
  <2>1. \A i : Done(i) => Done(i)'
    BY <1>1, <1>2 DEF Done
  <2>2. QED
    BY <1>1, <1>3, <2>1 DEF Behind
<1>10. SettledOnce'
  <2>0. processed \subseteq Trade /\ processed' \subseteq Trade
    BY <1>3, <1>4 DEF TypeOK
  <2>1. \A a \in Account : AccountTold(a, ledger[a], accounts[a], processed)
    BY <1>3, <2>0, ToldIsSettled
  <2>2. ASSUME NEW a \in Account
        PROVE  AccountTold(a, ledger'[a], accounts'[a], processed')
    <3>1. CASE a \notin AccountsOf(tr)
      BY <1>2, <2>1, <3>1, NotConcerned
    <3>2. CASE a \in AccountsOf(tr)
      <4>1. PICK row \in Entry :
                /\ ledger'[a] = Append(ledger[a], row) /\ row.of = tr
                /\ row.avail = accounts[a].avail + row.dAvail
                /\ row.locked = accounts[a].locked + row.dLocked
                /\ accounts'[a].avail = row.avail /\ accounts'[a].locked = row.locked
        BY <1>2, <3>2
      <4>2. ledger[a] \in Seq(Entry)
        BY <1>3 DEF TypeOK
      <4>3. AccountTold(a, Append(ledger[a], row), accounts'[a], processed \cup ({tr} \cap Trade))
        BY <1>2, <2>1, <3>2, <4>1, <4>2, RowAppended
      <4>5. {tr} \cap Trade = {tr}
        BY <1>2
      <4>4. QED
        BY <1>2, <4>1, <4>3, <4>5
    <3>3. QED
      BY <3>1, <3>2
  <2>3. (\A b \in Account : AccountTold(b, ledger[b], accounts[b], processed))'
    BY <2>2 DEF AccountTold, Prior
  <2>4. (processed \subseteq Trade)'
    BY <2>0
  <2>5. QED
    BY <2>3, <2>4, ToldIsSettled, PTL
<1>11. \A d \in Consumer \ {c} : /\ Still(d) /\ held'[c] \cap held[d] = {}
                                 /\ pc[d] = "marked" => Message(d) \notin processed'
  BY <1>5, <1>6
<1>12. processed \subseteq processed' /\ opened \subseteq opened' /\ dlq \subseteq dlq'
  BY <1>1, <1>2
<1>13. QED
  BY <1>1, <1>4, <1>8, <1>9, <1>10, <1>11, <1>12, ConsumerKeeps

-----------------------------------------------------------------------------
(***************************************************************************)
(* The orders service unlocks funds.                                       *)
(***************************************************************************)

LEMMA ReleaseKeeps ==
    ASSUME SettleInv, NEW o \in Order, NEW q \in 1 .. o.amount, Release(o, q)
    PROVE  SettleInv'
<1>1. /\ log' = log /\ joins' = joins /\ faults' = faults /\ committed' = committed /\ start' = start
      /\ pos' = pos /\ pc' = pc /\ held' = held /\ opened' = opened /\ processed' = processed /\ dlq' = dlq
  BY DEF Release, kafka
<1>2. TypeOK /\ RowLocks /\ SettledOnce /\ processed \subseteq Trade
  BY DEF SettleInv, TypeOK
<1>3. PICK n \in Nat : n = LockAmount(o, q)
  <2>1. q \in Nat
    BY OrderAssumption
  <2>2. QED
    BY <2>1, LockTypes
<1>4. PICK a \in Account : a = AccountOf(o)
  BY OrderAccounts
<1>5. PICK p \in Int, l \in Int : p = accounts[a].avail /\ l = accounts[a].locked
  BY <1>2 DEF TypeOK
<1> DEFINE after == [avail |-> p + n, locked |-> l - n]
           row == [of |-> o, dAvail |-> n, dLocked |-> -n, avail |-> p + n, locked |-> l - n]
<1>6. /\ accounts' = [accounts EXCEPT ![a] = after]
      /\ ledger' = [ledger EXCEPT ![a] = Append(ledger[a], row)]
      /\ released' = [released EXCEPT ![o] = released[o] + n]
  BY <1>3, <1>4, <1>5 DEF Release
<1>7. /\ after \in [avail : Int, locked : Int] /\ row \in Entry
      /\ row.of = o /\ row.avail = p + row.dAvail /\ row.locked = l + row.dLocked
      /\ after.avail = row.avail /\ after.locked = row.locked
  BY DEF Entry
<1> HIDE DEF after, row
<1>8. TypeOK'
  <2>1. accounts' \in [Account -> [avail : Int, locked : Int]]
    BY <1>2, <1>6, <1>7 DEF TypeOK
  <2>2. ledger' \in [Account -> Seq(Entry)]
    BY <1>2, <1>6, <1>7 DEF TypeOK
  <2>3. released' \in [Order -> Nat]
    BY <1>2, <1>6 DEF TypeOK
  <2>4. QED
    BY <1>1, <1>2, <2>1, <2>2, <2>3 DEF TypeOK
<1>9. Around
  BY <1>1, <1>2, LogTypes DEF Around
<1>10. \A d \in Consumer : Hand(d)' /\ Behind(d)'
  <2> TAKE d \in Consumer
  <2>1. Still(d) /\ (pc[d] = "marked" => Message(d) \notin processed')
    BY <1>1 DEF Still, SettleInv, Hand
  <2>2. QED
    BY <1>9, <2>1, StillKeeps
<1>11. SettledOnce'
  <2>1. \A b \in Account : AccountTold(b, ledger[b], accounts[b], processed)
    BY <1>2, ToldIsSettled
  <2>2. ASSUME NEW b \in Account
        PROVE  AccountTold(b, ledger'[b], accounts'[b], processed')
    <3>1. CASE b # a
      BY <1>1, <1>2, <1>6, <2>1, <3>1 DEF TypeOK
    <3>2. CASE b = a
      <4>1. ledger[a] \in Seq(Entry) /\ o \notin Trade
        BY <1>2, TradeAssumption DEF TypeOK
      <4>2. AccountTold(a, Append(ledger[a], row), after, processed \cup ({o} \cap Trade))
        BY <1>5, <1>7, <2>1, <4>1, RowAppended
      <4>3. processed \cup ({o} \cap Trade) = processed
        BY <4>1
      <4>4. ledger'[a] = Append(ledger[a], row) /\ accounts'[a] = after
        BY <1>2, <1>6 DEF TypeOK
      <4>5. QED
        BY <1>1, <3>2, <4>2, <4>3, <4>4
    <3>3. QED
      BY <3>1, <3>2
  <2>3. (\A b \in Account : AccountTold(b, ledger[b], accounts[b], processed))'
    BY <2>2 DEF AccountTold, Prior
  <2>4. (processed \subseteq Trade)'
    BY <1>1, <1>2
  <2>5. QED
    BY <2>3, <2>4, ToldIsSettled, PTL
<1>12. RowLocks' /\ committed' <= Len(log') + 1
  BY <1>1, <1>2 DEF RowLocks, SettleInv
<1>13. QED
  BY <1>8, <1>10, <1>11, <1>12 DEF SettleInv

-----------------------------------------------------------------------------
(***************************************************************************)
(* The theorems.                                                           *)
(***************************************************************************)

LEMMA NextSettle == SettleInv /\ [Next]_vars => SettleInv'
<1> SUFFICES ASSUME SettleInv, [Next]_vars PROVE SettleInv'
  OBVIOUS
<1>1. CASE \E e \in Event : Publish(e)
  BY <1>1, PublishKeeps
<1>2. CASE \E c \in Consumer : Join(c) \/ Leave(c) \/ Fail(c)
  BY <1>2, MembershipKeeps, GiveUpKeeps
<1>3. CASE \E c \in Consumer : Handle(c)
  BY <1>3, FetchKeeps, OpenAccountsKeeps, IsEventProcessedKeeps, LockAccountKeeps, MarkKeeps,
     GiveUpKeeps, CommitKeeps, RouteToDlqKeeps, ResolveOffsetKeeps DEF Handle
<1>4. CASE \E o \in Order : \E q \in 1 .. o.amount : Release(o, q)
  BY <1>4, ReleaseKeeps
<1>5. CASE UNCHANGED vars
  BY <1>5 DEF vars, SettleInv, TypeOK, Hand, Behind, Done, Message, RowLocks, SettledOnce
<1>6. QED
  BY <1>1, <1>2, <1>3, <1>4, <1>5 DEF Next

\* The inductive invariant holds in every state.
THEOREM SettleInvariant == Spec => []SettleInv
<1>1. Init => SettleInv
  BY InitSettle
<1>2. SettleInv /\ [Next]_vars => SettleInv'
  BY NextSettle
<1>3. QED
  BY <1>1, <1>2, PTL DEF Spec

\* The partition, the consumers and the tables keep their types, and a transaction locks
\* rows of accounts that are open only (trades-settlement.consumer.ts).
THEOREM SettlementTypeOK == Spec => []TypeOK
<1>1. SettleInv => TypeOK
  BY DEF SettleInv
<1>2. QED
  BY <1>1, SettleInvariant, PTL

\* A settled trade is on the ledger of its accounts once, and the ledger tells the
\* balances, however often the event comes and whoever handles it at the same time
\* (isEventProcessed, the row locks and the unique event_id).
THEOREM SettlementSettledOnce == Spec => []SettledOnce
<1>1. SettleInv => SettledOnce
  BY DEF SettleInv
<1>2. QED
  BY <1>1, SettleInvariant, PTL

\* No consumer resolves the offset of a message that is neither settled nor on the dead
\* letter queue (BaseKafkaConsumer.eachBatch).
THEOREM SettlementNothingSkipped == Spec => []NothingSkipped
<1>1. SettleInv => NothingSkipped
  BY DEF SettleInv, Behind, Done, NothingSkipped
<1>2. QED
  BY <1>1, SettleInvariant, PTL

-----------------------------------------------------------------------------
(***************************************************************************)
(* The money. A balance stays positive because every unit that leaves the  *)
(* locked funds of an account leaves for one of its orders, and the parts  *)
(* of an order cost no more than its price and what was locked for it; the *)
(* sum of a currency stays what it was because a trade between two users   *)
(* moves money between four different accounts. Trades of a user with      *)
(* itself are not settled.                                                 *)
(***************************************************************************)

\* From opening the accounts to the commit.
Middle == {"opening", "checking", "locking", "marked"}

\* Consumer c settles no trade of a user with itself.
NoSelfTrade(c) == pc[c] \in Middle => ~SelfTrade(Message(c))

\* What a trade spends of the funds locked for order o, and how much of o it trades.
Spends(o, tr) ==
    IF tr.buyOrder = o THEN QuoteCost(tr) + SurplusRefund(tr) ELSE IF tr.sellOrder = o THEN tr.quantity ELSE 0
Part(o, tr) == IF o \in {tr.buyOrder, tr.sellOrder} THEN tr.quantity ELSE 0

Spent(o) == SumFunctionOnSet([tr \in Trade |-> Spends(o, tr)], processed)
PartsOf(o) == SumFunctionOnSet([tr \in Trade |-> Part(o, tr)], processed)

\* What has left the locked balance of account a for order o.
Taken(o, a) == IF AccountOf(o) = a THEN Spent(o) + released[o] ELSE 0

\* Balances tell what was taken of each order, and that is no more than the price of what
\* it traded, in whatever parts.
Explained ==
    \A a \in Account :
        /\ accounts[a].avail >= 0
        /\ accounts[a].locked = Reserved[a] - SumFunctionOnSet([o \in Order |-> Taken(o, a)], Order)
Priced ==
    \A o \in Order : IF o.side = "BUY" THEN Scale * Spent(o) <= o.price * PartsOf(o) ELSE Spent(o) = PartsOf(o)

MoneyInv ==
    /\ \A c \in Consumer : NoSelfTrade(c)
    /\ Explained /\ Priced
    /\ Conservation

\* The amounts of a trade: the buyer spends no more than its price comes to.
LEMMA Amounts ==
    ASSUME NEW tr \in Trade
    PROVE  /\ QuoteCost(tr) \in Nat /\ SurplusRefund(tr) \in Nat /\ tr.quantity \in Nat
           /\ tr.buyerLimitPrice \in Nat
           /\ Scale * (QuoteCost(tr) + SurplusRefund(tr)) <= tr.buyerLimitPrice * tr.quantity
<1>1. PICK p \in Nat : p = tr.price
  BY TradeAssumption
<1>2. PICK q \in Nat : q = tr.quantity
  BY TradeAssumption
<1>3. PICK d \in Nat : tr.buyerLimitPrice = p + d
  <2>1. tr.buyerLimitPrice \in Nat /\ tr.buyerLimitPrice >= p
    BY <1>1, TradeAssumption
  <2>2. tr.buyerLimitPrice - p \in Nat /\ tr.buyerLimitPrice = p + (tr.buyerLimitPrice - p)
    BY <2>1
  <2>3. QED
    BY <2>2
<1>4. PICK A \in Nat : A = p * q
  OBVIOUS
<1>5. PICK B \in Nat : B = d * q
  OBVIOUS
<1>7. PICK S \in Nat \ {0} : S = Scale
  BY ScaleAssumption
<1>8. PICK a \in Nat : a = QuoteCost(tr) /\ S * a <= A
  <2>1. QuoteCost(tr) = A \div S
    BY <1>1, <1>2, <1>4, <1>7 DEF QuoteCost, Times
  <2>2. QED
    BY <2>1, DivBounds
<1>9. PICK b \in Nat : b = SurplusRefund(tr) /\ S * b <= B
  <2>1. CASE d = 0
    <3>1. ~(p + d > p)
      BY <2>1
    <3>2. SurplusRefund(tr) = 0
      BY <1>1, <1>3, <3>1 DEF SurplusRefund
    <3>3. 0 \in Nat /\ S * 0 <= B
      OBVIOUS
    <3>4. QED
      BY <3>2, <3>3
  <2>2. CASE d # 0
    <3>1. p + d > p /\ (p + d) - p = d
      BY <2>2
    <3>2. SurplusRefund(tr) = B \div S
      BY <1>1, <1>2, <1>3, <1>5, <1>7, <3>1 DEF SurplusRefund, Times
    <3>3. QED
      BY <3>2, DivBounds
  <2>3. QED
    BY <2>1, <2>2
<1>10. S * (a + b) <= (p + d) * q
  <2>1. S * (a + b) = S * a + S * b /\ (p + d) * q = A + B
    BY <1>4, <1>5
  <2>2. S * a \in Int /\ S * b \in Int
    OBVIOUS
  <2>3. QED
    BY <1>8, <1>9, <2>1, <2>2
<1>11. QED
  BY <1>2, <1>3, <1>7, <1>8, <1>9, <1>10

LEMMA DeltaBounds ==
    ASSUME NEW tr \in Trade, NEW a
    PROVE  AvailDelta(tr, a) \in Nat /\ LockedDelta(tr, a) \in Int
<1>1. QuoteCost(tr) \in Nat /\ SurplusRefund(tr) \in Nat /\ tr.quantity \in Nat
  BY Amounts
<1>2. QED
  BY <1>1 DEF AvailDelta, LockedDelta

LEMMA AccountShape ==
    \A u \in User, cur \in Currency : <<u, cur>> \in Account
BY DEF Account

\* The two orders of a trade, their accounts, and what the trade does to them.
LEMMA OrdersOfTrade ==
    ASSUME NEW tr \in Trade
    PROVE  /\ tr.buyOrder \in Order /\ tr.sellOrder \in Order /\ tr.buyOrder # tr.sellOrder
           /\ tr.buyOrder.side = "BUY" /\ tr.sellOrder.side = "SELL"
           /\ AccountOf(tr.buyOrder) = BuyerQuote(tr) /\ AccountOf(tr.sellOrder) = SellerBase(tr)
           /\ tr.buyOrder.price = tr.buyerLimitPrice /\ BuyerQuote(tr) # SellerBase(tr)
<1>1. Between(tr, tr.buyOrder, tr.sellOrder) /\ tr.base # tr.quote
  BY TradeAssumption
<1>2. QED
  BY <1>1 DEF Between, AccountOf, BuyerQuote, SellerBase

LEMMA SpendsPriced ==
    ASSUME NEW tr \in Trade, NEW o \in Order
    PROVE  /\ Spends(o, tr) \in Nat /\ Part(o, tr) \in Nat
           /\ IF o.side = "BUY" THEN Scale * Spends(o, tr) <= o.price * Part(o, tr)
              ELSE Spends(o, tr) = Part(o, tr)
<1>1. /\ QuoteCost(tr) \in Nat /\ SurplusRefund(tr) \in Nat /\ tr.quantity \in Nat
      /\ Scale * (QuoteCost(tr) + SurplusRefund(tr)) <= tr.buyerLimitPrice * tr.quantity
  BY Amounts
<1>2. /\ tr.buyOrder # tr.sellOrder /\ tr.buyOrder.side = "BUY" /\ tr.sellOrder.side = "SELL"
      /\ tr.buyOrder.price = tr.buyerLimitPrice
  BY OrdersOfTrade
<1>3. CASE o = tr.buyOrder
  <2>1. Spends(o, tr) = QuoteCost(tr) + SurplusRefund(tr) /\ Part(o, tr) = tr.quantity
    BY <1>3 DEF Spends, Part
  <2>2. QED
    BY <1>1, <1>2, <1>3, <2>1
<1>4. CASE o = tr.sellOrder
  BY <1>1, <1>2, <1>4 DEF Spends, Part
<1>5. CASE o \notin {tr.buyOrder, tr.sellOrder}
  <2>1. Spends(o, tr) = 0 /\ Part(o, tr) = 0
    BY <1>5 DEF Spends, Part
  <2>2. o.price \in Nat /\ Scale \in Nat
    BY OrderAssumption, ScaleAssumption
  <2>3. Scale * 0 <= o.price * 0
    BY <2>2
  <2>4. QED
    BY <2>1, <2>3
<1>6. QED
  BY <1>3, <1>4, <1>5

LEMMA SpentTypes ==
    ASSUME TypeOK, NEW o \in Order
    PROVE  Spent(o) \in Nat /\ PartsOf(o) \in Nat /\ TradedOf(o) = PartsOf(o)
<1>1. processed \subseteq Trade /\ IsFiniteSet(processed)
  BY FinitelyMany, FS_Subset DEF TypeOK
<1> DEFINE f == [tr \in Trade |-> Spends(o, tr)]
           g == [tr \in Trade |-> Part(o, tr)]
           h == [tr \in processed |-> IF o \in {tr.buyOrder, tr.sellOrder} THEN tr.quantity ELSE 0]
<1>2. \A tr \in processed : f[tr] \in Nat /\ g[tr] \in Nat /\ h[tr] = g[tr]
  BY <1>1, SpendsPriced DEF Part
<1>3. DOMAIN h = processed
  OBVIOUS
<1>4. Spent(o) = SumFunctionOnSet(f, processed) /\ PartsOf(o) = SumFunctionOnSet(g, processed)
      /\ TradedOf(o) = SumFunction(h)
  BY DEF Spent, PartsOf, TradedOf
<1> HIDE DEF f, g, h
<1>5. SumFunctionOnSet(f, processed) \in Nat /\ SumFunctionOnSet(g, processed) \in Nat
  BY <1>1, <1>2, SumNat
<1>6. SumFunctionOnSet(h, processed) = SumFunctionOnSet(g, processed)
  BY <1>1, <1>2, SumSame
<1>7. QED
  BY <1>3, <1>4, <1>5, <1>6 DEF SumFunction

\* A trade that is settled adds what it spends and trades of an order.
LEMMA SpentMore ==
    ASSUME TypeOK, NEW tr \in Trade, tr \notin processed, processed' = processed \cup {tr}, NEW o \in Order
    PROVE  Spent(o)' = Spent(o) + Spends(o, tr) /\ PartsOf(o)' = PartsOf(o) + Part(o, tr)
<1>1. processed \subseteq Trade /\ IsFiniteSet(processed)
  BY FinitelyMany, FS_Subset DEF TypeOK
<1> DEFINE f == [t \in Trade |-> Spends(o, t)]
           g == [t \in Trade |-> Part(o, t)]
<1>2. /\ \A t \in processed \cup {tr} : f[t] \in Int /\ g[t] \in Int
      /\ f[tr] = Spends(o, tr) /\ g[tr] = Part(o, tr)
  BY <1>1, SpendsPriced
<1>3. /\ Spent(o) = SumFunctionOnSet(f, processed) /\ Spent(o)' = SumFunctionOnSet(f, processed \cup {tr})
      /\ PartsOf(o) = SumFunctionOnSet(g, processed) /\ PartsOf(o)' = SumFunctionOnSet(g, processed \cup {tr})
  BY DEF Spent, PartsOf
<1> HIDE DEF f, g
<1>4. /\ SumFunctionOnSet(f, processed \cup {tr}) = SumFunctionOnSet(f, processed) + f[tr]
      /\ SumFunctionOnSet(g, processed \cup {tr}) = SumFunctionOnSet(g, processed) + g[tr]
  BY <1>1, <1>2, SumJoin
<1>5. QED
  BY <1>2, <1>3, <1>4

LEMMA TakenTypes == TypeOK => \A o \in Order : \A b \in Account : Taken(o, b) \in Nat
<1> SUFFICES ASSUME TypeOK, NEW o \in Order, NEW a \in Account
             PROVE  Taken(o, a) \in Nat
  OBVIOUS
<1>1. Spent(o) \in Nat /\ released[o] \in Nat
  BY SpentTypes DEF TypeOK
<1>2. QED
  BY <1>1 DEF Taken

\* What is taken of one order changes a balance by as much.
LEMMA OneTaken ==
    ASSUME TypeOK, TypeOK', NEW a \in Account, NEW x \in Order, NEW k \in Int,
           Taken(x, a)' = Taken(x, a) + k,
           \A o \in Order \ {x} : Taken(o, a)' = Taken(o, a),
           accounts[a].locked = Reserved[a] - SumFunctionOnSet([o \in Order |-> Taken(o, a)], Order),
           accounts'[a].locked = accounts[a].locked - k
    PROVE  (accounts[a].locked = Reserved[a] - SumFunctionOnSet([o \in Order |-> Taken(o, a)], Order))'
<1> DEFINE f == [o \in Order |-> Taken(o, a)]
           g == [o \in Order |-> Taken(o, a)']
<1>1. \A o \in Order : Taken(o, a) \in Int /\ Taken(o, a)' \in Int
  <2>1. \A o \in Order : Taken(o, a) \in Nat
    BY TakenTypes
  <2>2. (\A o \in Order : \A b \in Account : Taken(o, b) \in Nat)'
    BY TakenTypes, PTL
  <2>3. QED
    BY <2>1, <2>2
<1>2. /\ \A o \in Order : f[o] \in Int /\ g[o] \in Int
      /\ \A o \in Order \ {x} : g[o] = f[o]
      /\ g[x] = f[x] + k
  BY <1>1
<1>3. SumFunctionOnSet(f, Order) \in Int /\ SumFunctionOnSet(g, Order) = SumFunctionOnSet(f, Order) + (g[x] - f[x])
  <2> HIDE DEF f, g
  <2>1. QED
    BY <1>2, FinitelyMany, SumInt, SumChange
<1>4. f[x] \in Int /\ g[x] = f[x] + k
  BY <1>2
<1>5. Reserved[a] \in Int
  BY FundsAreLocked
<1>6. accounts[a].locked = Reserved[a] - SumFunctionOnSet(f, Order)
  OBVIOUS
<1>7. accounts'[a].locked = Reserved[a] - SumFunctionOnSet(g, Order)
  <2> HIDE DEF f, g
  <2>1. QED
    BY <1>3, <1>4, <1>5, <1>6
<1>8. QED
  BY <1>7

LEMMA InitMoney == Init => MoneyInv
<1> SUFFICES ASSUME Init PROVE MoneyInv
  OBVIOUS
<1>1. \A c \in Consumer : NoSelfTrade(c)
  BY DEF Init, NoSelfTrade, Middle
<1>2. Explained /\ Priced
  <2>1. \A o : Spent(o) = 0 /\ PartsOf(o) = 0
    BY SumEmpty DEF Init, Spent, PartsOf
  <2>2. Priced
    <3>1. \A o \in Order : o.price \in Nat /\ Scale \in Nat
      BY OrderAssumption, ScaleAssumption
    <3>2. \A o \in Order : Scale * 0 <= o.price * 0
      BY <3>1
    <3>3. QED
      BY <2>1, <3>2 DEF Priced
  <2>3. ASSUME NEW a \in Account
        PROVE  /\ accounts[a].avail >= 0
               /\ accounts[a].locked = Reserved[a] - SumFunctionOnSet([o \in Order |-> Taken(o, a)], Order)
    <3> DEFINE f == [o \in Order |-> Taken(o, a)]
    <3>1. \A o \in Order : f[o] = 0
      BY <2>1 DEF Init, Taken
    <3> HIDE DEF f
    <3>2. SumFunctionOnSet(f, Order) = 0
      BY <3>1, FinitelyMany, SumZero
    <3>3. accounts[a].avail = 0 /\ accounts[a].locked = Reserved[a] /\ Reserved[a] \in Nat
      BY FundsAreLocked DEF Init
    <3>4. QED
      BY <3>2, <3>3 DEF f
  <2>4. QED
    BY <2>2, <2>3 DEF Explained
<1>3. Conservation
  <2> SUFFICES ASSUME NEW cur \in Currency
               PROVE  SumFunction([u \in User |-> accounts[<<u, cur>>].avail + accounts[<<u, cur>>].locked])
                    = SumFunction([u \in User |-> Reserved[<<u, cur>>]])
    BY DEF Conservation
  <2>1. \A u \in User : accounts[<<u, cur>>].avail + accounts[<<u, cur>>].locked = Reserved[<<u, cur>>]
    <3> TAKE u \in User
    <3>1. <<u, cur>> \in Account
      BY AccountShape
    <3>2. Reserved[<<u, cur>>] \in Nat
      BY <3>1, FundsAreLocked
    <3>3. accounts[<<u, cur>>].avail = 0 /\ accounts[<<u, cur>>].locked = Reserved[<<u, cur>>]
      BY <3>1 DEF Init
    <3>4. QED
      BY <3>2, <3>3
  <2>2. QED
    BY <2>1
<1>4. QED
  BY <1>1, <1>2, <1>3 DEF MoneyInv

\* What c does in the middle of the handler, it does with the message it began with.
LEMMA MiddleKeepsMessage ==
    ASSUME SettleInv, Next, NEW c \in Consumer, pc'[c] \in Middle
    PROVE  \/ pc[c] \in Middle /\ Message(c)' = Message(c)
           \/ Fetch(c) /\ pc'[c] = "opening"
<1>1. TypeOK /\ Hand(c)
  BY DEF SettleInv
<1>2. CASE \E e \in Event : Publish(e)
  <2>1. PICK e \in Event : log' = Append(log, e) /\ pc' = pc /\ pos' = pos
    BY <1>2 DEF Publish
  <2>2. pc[c] # "idle" /\ pos[c] \in 1 .. Len(log)
    BY <1>1, <2>1 DEF Middle, Hand
  <2>3. log'[pos[c]] = log[pos[c]]
    BY <1>1, <2>1, <2>2 DEF TypeOK
  <2>4. QED
    BY <2>1, <2>3 DEF Message
<1>3. CASE \E d \in Consumer : Join(d) \/ Leave(d) \/ Fail(d) \/ Handle(d)
  <2>1. PICK d \in Consumer : Join(d) \/ Leave(d) \/ Fail(d) \/ Handle(d)
    BY <1>3
  <2>2. CASE Join(d)
    <3>1. pos'[c] = pos[c] \/ c = d
      BY <1>1, <2>2 DEF Join, TypeOK
    <3>2. start[d] = 0 /\ pc' = pc /\ log' = log
      BY <2>2 DEF Join
    <3>3. c # d
      BY <1>1, <3>2 DEF Hand, Middle
    <3>4. QED
      BY <3>1, <3>2, <3>3 DEF Message
  <2>3. CASE Leave(d) \/ ResolveOffset(d)
    <3>1. /\ pc' = [pc EXCEPT ![d] = "idle"] /\ log' = log
          /\ pos' = [pos EXCEPT ![d] = 0] \/ pos' = [pos EXCEPT ![d] = @ + 1]
      BY <2>3 DEF Leave, ResolveOffset, Proceed
    <3>2. c # d
      BY <1>1, <3>1 DEF TypeOK, Middle
    <3>3. QED
      BY <1>1, <3>1, <3>2 DEF Message, TypeOK
  <2>4. CASE Fetch(d)
    <3>1. log' = log /\ pos' = pos /\ pc[d] = "idle"
      BY <2>4 DEF Fetch, kafka
    <3>2. PICK p \in {"poisoned", "handled", "opening"} : pc' = [pc EXCEPT ![d] = p]
      BY <2>4 DEF Fetch, Proceed
    <3>3. CASE c = d
      BY <1>1, <2>4, <3>2, <3>3 DEF TypeOK, Middle
    <3>4. CASE c # d
      BY <1>1, <3>1, <3>2, <3>4 DEF TypeOK, Message
    <3>5. QED
      BY <3>3, <3>4
  <2>5. CASE \/ Fail(d) \/ MarkDuplicate(d) \/ RouteToDlq(d) \/ Commit(d)
    <3>1. log' = log /\ pos' = pos
      BY <2>5 DEF Fail, MarkDuplicate, RouteToDlq, Commit, kafka
    <3>2. pc' = [pc EXCEPT ![d] = "idle"] \/ pc' = [pc EXCEPT ![d] = "handled"]
      BY <2>5 DEF Fail, MarkDuplicate, RouteToDlq, Commit, Proceed
    <3>3. QED
      BY <1>1, <3>1, <3>2 DEF TypeOK, Message, Middle
  <2>6. CASE \/ OpenAccounts(d) \/ IsEventProcessed(d) \/ (\E a \in Account : LockAccount(d, a))
             \/ MarkEventProcessed(d)
    <3>1. log' = log /\ pos' = pos /\ pc[d] \in Middle
      BY <2>6 DEF OpenAccounts, IsEventProcessed, LockAccount, MarkEventProcessed, kafka, Middle
    <3>2. pc' = pc \/ \E p \in Step : pc' = [pc EXCEPT ![d] = p]
      BY <2>6 DEF OpenAccounts, IsEventProcessed, LockAccount, MarkEventProcessed, Proceed, Step
    <3>3. QED
      BY <1>1, <3>1, <3>2 DEF TypeOK, Message
  <2>7. QED
    BY <2>1, <2>2, <2>3, <2>4, <2>5, <2>6 DEF Handle
<1>4. CASE \E o \in Order : \E q \in 1 .. o.amount : Release(o, q)
  <2>1. log' = log /\ pos' = pos /\ pc' = pc
    BY <1>4 DEF Release, kafka
  <2>2. QED
    BY <2>1 DEF Message
<1>5. QED
  BY <1>2, <1>3, <1>4 DEF Next

LEMMA NextKeepsNoSelfTrade ==
    ASSUME SettleInv, Next, NEW c \in Consumer, NoSelfTrade(c)
    PROVE  NoSelfTrade(c)'
<1> SUFFICES ASSUME pc'[c] \in Middle PROVE ~SelfTrade(Message(c)')
  BY DEF NoSelfTrade, SelfTrade
<1>1. CASE pc[c] \in Middle /\ Message(c)' = Message(c)
  BY <1>1 DEF NoSelfTrade
<1>2. CASE Fetch(c) /\ pc'[c] = "opening"
  <2>1. TypeOK /\ Message(c)' = Message(c)
    BY <1>2 DEF SettleInv, Fetch, kafka, Message
  <2>2. ~SelfTrade(Message(c))
    BY <1>2, <2>1 DEF Fetch, Proceed, TypeOK
  <2>3. QED
    BY <2>1, <2>2
<1>3. QED
  BY <1>1, <1>2, MiddleKeepsMessage

\* Only a commit and a release touch balances and processed events.
LEMMA OthersKeepMoney ==
    ASSUME Next, \A c \in Consumer : ~Commit(c), \A o \in Order : \A q \in 1 .. o.amount : ~Release(o, q)
    PROVE  accounts' = accounts /\ processed' = processed /\ released' = released
<1>1. ASSUME NEW c \in Consumer, Handle(c)
      PROVE  accounts' = accounts /\ processed' = processed /\ released' = released
  BY <1>1 DEF Handle, Fetch, OpenAccounts, IsEventProcessed, LockAccount, MarkEventProcessed,
     MarkDuplicate, RouteToDlq, ResolveOffset, tables
<1>2. QED
  BY <1>1 DEF Next, Publish, Join, Leave, Fail, tables

\* A trade's commit takes from an account what it spends of one of its two orders.
LEMMA CommitExplains ==
    ASSUME SettleInv, MoneyInv, TypeOK', NEW c \in Consumer, Commit(c)
    PROVE  Explained' /\ Priced'
<1> DEFINE tr == Message(c)
<1>1. /\ tr \in Trade /\ tr \notin processed /\ processed' = processed \cup {tr}
      /\ \A a \in Account : accounts'[a] = After(tr, a)
      /\ released' = released
  BY CommitEffect DEF Commit
<1>2. tr.buyer # tr.seller
  BY <1>1 DEF MoneyInv, NoSelfTrade, Middle, Commit, SelfTrade
<1>3. TypeOK /\ accounts \in [Account -> [avail : Int, locked : Int]]
  BY DEF SettleInv, TypeOK
<1> HIDE DEF tr
<1>4. \A o \in Order : /\ Spent(o)' = Spent(o) + Spends(o, tr) /\ PartsOf(o)' = PartsOf(o) + Part(o, tr)
                       /\ Spent(o) \in Nat /\ PartsOf(o) \in Nat
  BY <1>1, <1>3, SpentMore, SpentTypes
<1>5. Priced'
  <2> SUFFICES ASSUME NEW o \in Order
               PROVE  IF o.side = "BUY" THEN Scale * Spent(o)' <= o.price * PartsOf(o)'
                      ELSE Spent(o)' = PartsOf(o)'
    BY DEF Priced
  <2>1. PICK s \in Nat, t \in Nat : s = Spent(o) /\ t = PartsOf(o)
    BY <1>4
  <2>2. PICK d \in Nat, q \in Nat : d = Spends(o, tr) /\ q = Part(o, tr)
    BY <1>1, SpendsPriced
  <2>3. PICK p \in Nat : p = o.price
    BY OrderAssumption
  <2>4. PICK S \in Nat : S = Scale
    BY ScaleAssumption
  <2>5. Spent(o)' = s + d /\ PartsOf(o)' = t + q
    BY <1>4, <2>1, <2>2
  <2>6. CASE o.side = "BUY"
    <3>1. S * s <= p * t /\ S * d <= p * q
      BY <1>1, <2>1, <2>2, <2>3, <2>4, <2>6, SpendsPriced DEF MoneyInv, Priced
    <3>2. S * (s + d) = S * s + S * d /\ p * (t + q) = p * t + p * q
      OBVIOUS
    <3>3. S * s \in Int /\ S * d \in Int /\ p * t \in Int /\ p * q \in Int
      OBVIOUS
    <3>4. S * (s + d) <= p * (t + q)
      BY <3>1, <3>2, <3>3
    <3>5. QED
      BY <2>3, <2>4, <2>5, <2>6, <3>4
  <2>7. CASE o.side # "BUY"
    <3>1. s = t /\ d = q
      BY <1>1, <2>1, <2>2, <2>7, SpendsPriced DEF MoneyInv, Priced
    <3>2. QED
      BY <2>5, <2>7, <3>1
  <2>8. QED
    BY <2>6, <2>7
<1>6. ASSUME NEW a \in Account
      PROVE  /\ accounts'[a].avail >= 0
             /\ (accounts[a].locked = Reserved[a] - SumFunctionOnSet([o \in Order |-> Taken(o, a)], Order))'
  <2>1. /\ accounts[a].avail >= 0 /\ accounts[a].avail \in Int /\ accounts[a].locked \in Int
        /\ accounts[a].locked = Reserved[a] - SumFunctionOnSet([o \in Order |-> Taken(o, a)], Order)
    BY <1>3 DEF MoneyInv, Explained
  <2>2. PICK p \in Nat, k \in Int : p = AvailDelta(tr, a) /\ k = 0 - LockedDelta(tr, a)
    <3>1. AvailDelta(tr, a) \in Nat /\ LockedDelta(tr, a) \in Int
      BY <1>1, DeltaBounds
    <3>2. 0 - LockedDelta(tr, a) \in Int
      BY <3>1
    <3>3. QED
      BY <3>1, <3>2
  <2>3. accounts'[a].avail = accounts[a].avail + p /\ accounts'[a].locked = accounts[a].locked - k
    <3>1. accounts'[a] = After(tr, a)
      BY <1>1
    <3>2. LockedDelta(tr, a) \in Int
      BY <1>1, DeltaBounds
    <3>3. accounts[a].locked + LockedDelta(tr, a) = accounts[a].locked - k
      BY <2>1, <2>2, <3>2
    <3>4. QED
      BY <2>2, <3>1, <3>3 DEF After
  <2>4. PICK x \in Order : /\ Spends(x, tr) = k \/ (AccountOf(x) # a /\ k = 0)
                           /\ AccountOf(x) = a \/ k = 0
                           /\ \A o \in Order \ {x} : AccountOf(o) = a => Spends(o, tr) = 0
    <3>1. /\ tr.buyOrder \in Order /\ tr.sellOrder \in Order /\ tr.buyOrder # tr.sellOrder
          /\ AccountOf(tr.buyOrder) = BuyerQuote(tr) /\ AccountOf(tr.sellOrder) = SellerBase(tr)
          /\ BuyerQuote(tr) # SellerBase(tr)
      BY <1>1, OrdersOfTrade
    <3>2. QuoteCost(tr) \in Nat /\ SurplusRefund(tr) \in Nat /\ tr.quantity \in Nat
      BY <1>1, Amounts
    <3>3. /\ Spends(tr.buyOrder, tr) = QuoteCost(tr) + SurplusRefund(tr)
          /\ Spends(tr.sellOrder, tr) = tr.quantity
          /\ \A o \in Order \ {tr.buyOrder, tr.sellOrder} : Spends(o, tr) = 0
      BY <3>1 DEF Spends
    <3>4. CASE a = BuyerQuote(tr)
      <4>1. k = QuoteCost(tr) + SurplusRefund(tr)
        BY <2>2, <3>2, <3>4 DEF LockedDelta
      <4>2. \A o \in Order \ {tr.buyOrder} : AccountOf(o) = a => Spends(o, tr) = 0
        BY <3>1, <3>3, <3>4
      <4>3. QED
        BY <3>1, <3>3, <3>4, <4>1, <4>2
    <3>5. CASE a = SellerBase(tr)
      <4>1. k = tr.quantity
        BY <2>2, <3>1, <3>2, <3>5 DEF LockedDelta
      <4>2. \A o \in Order \ {tr.sellOrder} : AccountOf(o) = a => Spends(o, tr) = 0
        BY <3>1, <3>3, <3>5
      <4>3. QED
        BY <3>1, <3>3, <3>5, <4>1, <4>2
    <3>6. CASE a \notin {BuyerQuote(tr), SellerBase(tr)}
      <4>1. LockedDelta(tr, a) = 0
        BY <3>6 DEF LockedDelta
      <4>2. k = 0
        BY <2>2, <4>1
      <4>3. \A o \in Order : AccountOf(o) = a => Spends(o, tr) = 0
        BY <3>1, <3>3, <3>6
      <4>4. QED
        BY <3>1, <3>6, <4>2, <4>3
    <3>7. QED
      BY <3>4, <3>5, <3>6
  <2>5. \A o \in Order : Taken(o, a)' = IF AccountOf(o) = a THEN Taken(o, a) + Spends(o, tr) ELSE Taken(o, a)
    <3> TAKE o \in Order
    <3>1. PICK s \in Nat, d \in Nat, n \in Nat : s = Spent(o) /\ d = Spends(o, tr) /\ n = released[o]
      BY <1>1, <1>3, <1>4, SpendsPriced DEF TypeOK
    <3>2. Spent(o)' = s + d /\ released'[o] = n
      BY <1>1, <1>4, <3>1
    <3>3. Taken(o, a)' = IF AccountOf(o) = a THEN (s + d) + n ELSE 0
      BY <3>2 DEF Taken
    <3>4. Taken(o, a) = IF AccountOf(o) = a THEN s + n ELSE 0
      BY <3>1 DEF Taken
    <3>5. QED
      BY <3>1, <3>3, <3>4
  <2>6. Taken(x, a)' = Taken(x, a) + k /\ \A o \in Order \ {x} : Taken(o, a)' = Taken(o, a)
    <3>1. \A o \in Order : Taken(o, a) \in Nat
      BY <1>3, TakenTypes
    <3>2. QED
      BY <2>4, <2>5, <3>1
  <2>7. accounts'[a].avail >= 0
    BY <2>1, <2>2, <2>3
  <2>8. QED
    BY <1>3, <2>1, <2>2, <2>3, <2>6, <2>7, OneTaken
<1>7. Explained'
  BY <1>6 DEF Explained
<1>8. QED
  BY <1>5, <1>7

\* What a release does.
LEMMA ReleaseEffect ==
    ASSUME TypeOK, NEW o \in Order, NEW q \in 1 .. o.amount, Release(o, q)
    PROVE  \E n \in Nat :
               /\ n = LockAmount(o, q) /\ n <= accounts[AccountOf(o)].locked
               /\ accounts'[AccountOf(o)].avail = accounts[AccountOf(o)].avail + n
               /\ accounts'[AccountOf(o)].locked = accounts[AccountOf(o)].locked - n
               /\ accounts' \in [Account -> [avail : Int, locked : Int]]
               /\ \A a \in Account \ {AccountOf(o)} : accounts'[a] = accounts[a]
               /\ released' \in [Order -> Nat] /\ released'[o] = released[o] + n
               /\ \A x \in Order \ {o} : released'[x] = released[x]
               /\ processed' = processed
<1>1. q \in Nat
  BY OrderAssumption
<1>2. PICK n \in Nat : n = LockAmount(o, q)
  BY <1>1, LockTypes
<1>3. PICK a \in Account : a = AccountOf(o)
  BY OrderAccounts
<1>4. PICK p \in Int, l \in Int : p = accounts[a].avail /\ l = accounts[a].locked
  BY DEF TypeOK
<1>5. /\ accounts' = [accounts EXCEPT ![a] = [avail |-> p + n, locked |-> l - n]]
      /\ released' = [released EXCEPT ![o] = released[o] + n]
      /\ processed' = processed /\ n <= l
  BY <1>2, <1>3, <1>4 DEF Release
<1>6. [avail |-> p + n, locked |-> l - n] \in [avail : Int, locked : Int]
  OBVIOUS
<1>7. accounts' \in [Account -> [avail : Int, locked : Int]] /\ accounts'[a] = [avail |-> p + n, locked |-> l - n]
      /\ \A b \in Account \ {a} : accounts'[b] = accounts[b]
  BY <1>5, <1>6 DEF TypeOK
<1>8. released' \in [Order -> Nat] /\ released'[o] = released[o] + n
      /\ \A x \in Order \ {o} : released'[x] = released[x]
  <2>1. released[o] + n \in Nat /\ released \in [Order -> Nat]
    BY DEF TypeOK
  <2>2. QED
    BY <1>5, <2>1
<1>9. QED
  BY <1>2, <1>3, <1>4, <1>5, <1>7, <1>8

LEMMA ReleaseExplains ==
    ASSUME SettleInv, MoneyInv, TypeOK', NEW o \in Order, NEW q \in 1 .. o.amount, Release(o, q)
    PROVE  Explained' /\ Priced' /\ Conservation'
<1>1. TypeOK
  BY DEF SettleInv
<1>2. PICK n \in Nat :
               /\ accounts'[AccountOf(o)].avail = accounts[AccountOf(o)].avail + n
               /\ accounts'[AccountOf(o)].locked = accounts[AccountOf(o)].locked - n
               /\ accounts' \in [Account -> [avail : Int, locked : Int]]
               /\ \A a \in Account \ {AccountOf(o)} : accounts'[a] = accounts[a]
               /\ released'[o] = released[o] + n
               /\ \A x \in Order \ {o} : released'[x] = released[x]
               /\ processed' = processed
  BY <1>1, ReleaseEffect
<1>3. \A x : Spent(x)' = Spent(x) /\ PartsOf(x)' = PartsOf(x)
  BY <1>2 DEF Spent, PartsOf
<1>4. Priced'
  BY <1>3 DEF MoneyInv, Priced
<1>5. ASSUME NEW a \in Account
      PROVE  /\ accounts'[a].avail >= 0
             /\ (accounts[a].locked = Reserved[a] - SumFunctionOnSet([x \in Order |-> Taken(x, a)], Order))'
  <2>1. /\ accounts[a].avail >= 0 /\ accounts[a].avail \in Int /\ accounts[a].locked \in Int
        /\ accounts[a].locked = Reserved[a] - SumFunctionOnSet([x \in Order |-> Taken(x, a)], Order)
    BY <1>1 DEF MoneyInv, Explained, TypeOK
  <2>2. \A x \in Order \ {o} : Taken(x, a)' = Taken(x, a)
    BY <1>2, <1>3 DEF Taken
  <2>3. CASE a = AccountOf(o)
    <3>1. PICK s \in Nat, r \in Nat : s = Spent(o) /\ r = released[o]
      BY <1>1, SpentTypes DEF TypeOK
    <3>2. Taken(o, a)' = s + (r + n) /\ Taken(o, a) = s + r
      BY <1>2, <1>3, <2>3, <3>1 DEF Taken
    <3>3. Taken(o, a)' = Taken(o, a) + n
      BY <3>2
    <3>4. accounts'[a].avail >= 0 /\ accounts'[a].locked = accounts[a].locked - n
      BY <1>2, <2>1, <2>3
    <3>5. QED
      BY <1>1, <2>1, <2>2, <3>3, <3>4, OneTaken
  <2>4. CASE a # AccountOf(o)
    <3>1. \A x \in Order : Taken(x, a)' = Taken(x, a)
      BY <2>2, <2>4 DEF Taken
    <3>2. accounts'[a] = accounts[a]
      BY <1>2, <2>4
    <3>3. [x \in Order |-> Taken(x, a)'] = [x \in Order |-> Taken(x, a)]
      BY <3>1
    <3>4. QED
      BY <2>1, <3>2, <3>3
  <2>5. QED
    BY <2>3, <2>4
<1>6. Explained'
  BY <1>5 DEF Explained
<1>7. Conservation'
  <2> SUFFICES ASSUME NEW cur \in Currency
               PROVE  SumFunction([u \in User |-> accounts'[<<u, cur>>].avail + accounts'[<<u, cur>>].locked])
                    = SumFunction([u \in User |-> Reserved[<<u, cur>>]])
    BY DEF Conservation
  <2>1. ASSUME NEW a \in Account
        PROVE  accounts'[a].avail + accounts'[a].locked = accounts[a].avail + accounts[a].locked
    <3>1. accounts[a].avail \in Int /\ accounts[a].locked \in Int
      BY <1>1 DEF TypeOK
    <3>2. CASE a = AccountOf(o)
      BY <1>2, <3>1, <3>2
    <3>3. CASE a # AccountOf(o)
      BY <1>2, <3>3
    <3>4. QED
      BY <3>2, <3>3
  <2>2. \A u \in User : accounts'[<<u, cur>>].avail + accounts'[<<u, cur>>].locked
                      = accounts[<<u, cur>>].avail + accounts[<<u, cur>>].locked
    BY <2>1, AccountShape
  <2>3. [u \in User |-> accounts'[<<u, cur>>].avail + accounts'[<<u, cur>>].locked]
      = [u \in User |-> accounts[<<u, cur>>].avail + accounts[<<u, cur>>].locked]
    BY <2>2
  <2>4. QED
    BY <2>3 DEF MoneyInv, Conservation
<1>8. QED
  BY <1>4, <1>6, <1>7

\* The four accounts of a trade between two users are four, and what leaves one reaches
\* the other of the same currency.
LEMMA CommitConserves ==
    ASSUME SettleInv, MoneyInv, NEW c \in Consumer, Commit(c)
    PROVE  Conservation'
<1> DEFINE tr == Message(c)
<1>1. tr \in Trade /\ \A a \in Account : accounts'[a] = After(tr, a)
  BY CommitEffect
<1>2. tr.buyer # tr.seller
  BY <1>1 DEF MoneyInv, NoSelfTrade, Middle, Commit, SelfTrade
<1>3. accounts \in [Account -> [avail : Int, locked : Int]]
  BY DEF SettleInv, TypeOK
<1> HIDE DEF tr
<1> SUFFICES ASSUME NEW cur \in Currency
             PROVE  SumFunction([u \in User |-> accounts'[<<u, cur>>].avail + accounts'[<<u, cur>>].locked])
                  = SumFunction([u \in User |-> Reserved[<<u, cur>>]])
  BY DEF Conservation
<1> DEFINE f == [u \in User |-> accounts[<<u, cur>>].avail + accounts[<<u, cur>>].locked]
           g == [u \in User |-> accounts'[<<u, cur>>].avail + accounts'[<<u, cur>>].locked]
           Gain(u) == AvailDelta(tr, <<u, cur>>) + LockedDelta(tr, <<u, cur>>)
<1>4. PICK cost \in Nat : cost = QuoteCost(tr)
  BY <1>1, Amounts
<1>5. PICK refund \in Nat : refund = SurplusRefund(tr)
  BY <1>1, Amounts
<1>6. PICK n \in Nat : n = tr.quantity
  BY <1>1, Amounts
<1>7. tr.buyer \in User /\ tr.seller \in User /\ tr.base # tr.quote
  BY <1>1, TradeAssumption
<1>8. \A u \in User : Gain(u) =
          IF cur = tr.quote /\ u = tr.buyer THEN -cost
          ELSE IF cur = tr.quote /\ u = tr.seller THEN cost
          ELSE IF cur = tr.base /\ u = tr.buyer THEN n
          ELSE IF cur = tr.base /\ u = tr.seller THEN -n
          ELSE 0
  <2> TAKE u \in User
  <2>1. \A x, y, v, w : <<x, y>> = <<v, w>> <=> x = v /\ y = w
    OBVIOUS
  <2>2. AvailDelta(tr, <<u, cur>>) =
            IF cur = tr.quote /\ u = tr.buyer THEN refund
            ELSE IF cur = tr.base /\ u = tr.buyer THEN n
            ELSE IF cur = tr.quote /\ u = tr.seller THEN cost ELSE 0
    BY <1>4, <1>5, <1>6, <2>1 DEF AvailDelta, BuyerQuote, BuyerBase, SellerQuote
  <2>3. LockedDelta(tr, <<u, cur>>) =
            IF cur = tr.quote /\ u = tr.buyer THEN -(cost + refund)
            ELSE IF cur = tr.base /\ u = tr.seller THEN -n ELSE 0
    BY <1>4, <1>5, <1>6, <2>1 DEF LockedDelta, BuyerQuote, SellerBase
  <2>4. QED
    BY <1>2, <1>7, <2>2, <2>3
<1>9. \A u \in User : /\ f[u] \in Int /\ g[u] \in Int /\ g[u] = f[u] + Gain(u)
  <2> TAKE u \in User
  <2> DEFINE a == <<u, cur>>
  <2>1. a \in Account
    BY AccountShape
  <2>2. PICK p \in Int, q \in Int : p = accounts[a].avail /\ q = accounts[a].locked
    BY <1>3, <2>1
  <2>3. PICK x \in Nat, y \in Int : x = AvailDelta(tr, a) /\ y = LockedDelta(tr, a)
    BY <1>1, DeltaBounds
  <2>4. accounts'[a].avail = p + x /\ accounts'[a].locked = q + y
    <3> HIDE DEF a
    <3>1. accounts'[a] = After(tr, a)
      BY <1>1, <2>1
    <3>2. After(tr, a).avail = p + x /\ After(tr, a).locked = q + y
      BY <2>2, <2>3 DEF After
    <3>3. QED
      BY <3>1, <3>2
  <2>5. QED
    BY <2>2, <2>3, <2>4
<1>10. SumFunctionOnSet(g, User) = SumFunctionOnSet(f, User)
  <2>1. IsFiniteSet(User)
    BY FinitelyMany
  <2> HIDE DEF f, g, Gain
  <2>2. \A u \in User \ {tr.buyer, tr.seller} : g[u] = f[u]
    <3>1. \A u \in User \ {tr.buyer, tr.seller} : Gain(u) = 0
      BY <1>8
    <3>2. QED
      BY <1>9, <3>1
  <2>3. Gain(tr.buyer) + Gain(tr.seller) = 0 /\ Gain(tr.buyer) \in Int /\ Gain(tr.seller) \in Int
    BY <1>2, <1>7, <1>8
  <2>4. g[tr.buyer] + g[tr.seller] = f[tr.buyer] + f[tr.seller]
    <3>1. /\ g[tr.buyer] = f[tr.buyer] + Gain(tr.buyer) /\ f[tr.buyer] \in Int
          /\ g[tr.seller] = f[tr.seller] + Gain(tr.seller) /\ f[tr.seller] \in Int
      BY <1>7, <1>9
    <3>2. QED
      BY <2>3, <3>1
  <2>5. QED
    BY <1>2, <1>7, <1>9, <2>1, <2>2, <2>4, SumTransfer
<1>11. SumFunction(f) = SumFunctionOnSet(f, User) /\ SumFunction(g) = SumFunctionOnSet(g, User)
  BY DEF SumFunction
<1>12. SumFunction(f) = SumFunction([u \in User |-> Reserved[<<u, cur>>]])
  BY DEF MoneyInv, Conservation
<1>13. QED
  BY <1>10, <1>11, <1>12

LEMMA NextMoney == SettleInv /\ MoneyInv /\ [Next]_vars => MoneyInv'
<1> SUFFICES ASSUME SettleInv, MoneyInv, [Next]_vars PROVE MoneyInv'
  OBVIOUS
<1>0. TypeOK'
  BY NextSettle DEF SettleInv
<1>1. ASSUME accounts' = accounts, processed' = processed, released' = released
      PROVE  Explained' /\ Priced' /\ Conservation'
  BY <1>1 DEF MoneyInv, Explained, Priced, Taken, Spent, PartsOf, Conservation
<1>2. CASE UNCHANGED vars
  <2>1. \A c \in Consumer : NoSelfTrade(c)'
    BY <1>2 DEF vars, MoneyInv, NoSelfTrade, SelfTrade, Message
  <2>2. QED
    BY <1>1, <1>2, <2>1 DEF vars, MoneyInv
<1>3. CASE Next
  <2>1. \A c \in Consumer : NoSelfTrade(c)'
    BY <1>3, NextKeepsNoSelfTrade DEF MoneyInv
  <2>2. Explained' /\ Priced' /\ Conservation'
    <3>1. CASE \E c \in Consumer : Commit(c)
      BY <1>0, <3>1, CommitExplains, CommitConserves
    <3>2. CASE \E o \in Order : \E q \in 1 .. o.amount : Release(o, q)
      BY <1>0, <3>2, ReleaseExplains
    <3>3. CASE (\A c \in Consumer : ~Commit(c)) /\ \A o \in Order : \A q \in 1 .. o.amount : ~Release(o, q)
      BY <1>1, <1>3, <3>3, OthersKeepMoney
    <3>4. QED
      BY <3>1, <3>2, <3>3
  <2>3. QED
    BY <2>1, <2>2 DEF MoneyInv
<1>4. QED
  BY <1>2, <1>3

\* Whatever a balance has lost, its orders have traded or had unlocked, and what a trade spends
\* stays within the price of its orders.
THEOREM MoneyInvariant == Spec => []MoneyInv
<1>1. Init => MoneyInv
  BY InitMoney
<1>2. SettleInv /\ MoneyInv /\ [Next]_vars => MoneyInv'
  BY NextMoney
<1>3. QED
  BY <1>1, <1>2, SettleInvariant, PTL DEF Spec

\* An order within its amount has been taken no more of than was locked for it.
LEMMA TakenWithin ==
    ASSUME SettleInv, MoneyInv, NEW o \in Order, WithinOrder(o), NEW a
    PROVE  Taken(o, a) \in Nat /\ LockOf(o, a) \in Nat /\ Taken(o, a) <= LockOf(o, a)
<1>1. TypeOK
  BY DEF SettleInv
<1>2. PICK s \in Nat, t \in Nat, r \in Nat : s = Spent(o) /\ t = PartsOf(o) /\ r = released[o]
  BY <1>1, SpentTypes DEF TypeOK
<1>3. PICK n \in Nat, p \in Nat : n = o.amount /\ p = o.price
  BY OrderAssumption
<1>4. t <= n /\ r <= LockAmount(o, n - t)
  BY <1>1, <1>2, <1>3, SpentTypes DEF WithinOrder
<1>5. PICK rest \in Nat : rest = n - t
  BY <1>4
<1>6. LockAmount(o, n) \in Nat
  BY LockTypes
<1>7. s + r <= LockAmount(o, n)
  <2>1. CASE o.side = "BUY"
    <3>1. Scale * s <= p * t
      BY <1>2, <1>3, <2>1 DEF MoneyInv, Priced
    <3>2. r <= TimesHalfUp(p, rest)
      BY <1>3, <1>4, <1>5, <2>1 DEF LockAmount
    <3>3. s + r <= TimesHalfUp(p, t + rest)
      BY <3>1, <3>2, PartsFit
    <3>4. t + rest = n
      BY <1>4, <1>5
    <3>5. QED
      BY <1>3, <2>1, <3>3, <3>4 DEF LockAmount
  <2>2. CASE o.side # "BUY"
    <3>1. s = t
      BY <1>2, <2>2 DEF MoneyInv, Priced
    <3>2. r <= n - t /\ LockAmount(o, n) = n
      BY <1>4, <2>2 DEF LockAmount
    <3>3. QED
      BY <3>1, <3>2
  <2>3. QED
    BY <2>1, <2>2
<1>8. Taken(o, a) = IF a = AccountOf(o) THEN s + r ELSE 0
  BY <1>2 DEF Taken
<1>9. LockOf(o, a) = IF a = AccountOf(o) THEN LockAmount(o, n) ELSE 0
  BY <1>3 DEF LockOf
<1>10. QED
  BY <1>6, <1>7, <1>8, <1>9

\* No available balance becomes negative, and no locked one as long as the orders of the
\* account trade and are unlocked within their amounts, though the UPDATEs of the settlement
\* have no condition and the two services round differently (handleMessage of
\* TradesSettlementConsumer, createOrder and cancelOrder).
THEOREM SettlementNonNegative == Spec => []NonNegative
<1>1. SettleInv /\ MoneyInv => NonNegative
  <2> SUFFICES ASSUME SettleInv, MoneyInv, NEW a \in Account
               PROVE  /\ accounts[a].avail >= 0
                      /\ accounts[a].locked < 0 => \E o \in Order : AccountOf(o) = a /\ ~WithinOrder(o)
    BY DEF NonNegative
  <2>1. /\ accounts[a].avail >= 0
        /\ accounts[a].locked = Reserved[a] - SumFunctionOnSet([o \in Order |-> Taken(o, a)], Order)
    BY DEF MoneyInv, Explained
  <2>2. ASSUME \A o \in Order : AccountOf(o) = a => WithinOrder(o)
        PROVE  accounts[a].locked >= 0
    <3> DEFINE f == [o \in Order |-> Taken(o, a)]
               g == [o \in Order |-> LockOf(o, a)]
    <3>1. \A o \in Order : Taken(o, a) \in Nat /\ LockOf(o, a) \in Nat /\ Taken(o, a) <= LockOf(o, a)
      <4> TAKE o \in Order
      <4>1. CASE AccountOf(o) = a
        BY <2>2, <4>1, TakenWithin
      <4>2. CASE AccountOf(o) # a
        BY <4>2 DEF Taken, LockOf
      <4>3. QED
        BY <4>1, <4>2
    <3>2. \A o \in Order : f[o] \in Int /\ g[o] \in Int /\ f[o] <= g[o]
      BY <3>1
    <3>3. Reserved[a] \in Nat /\ Reserved[a] >= SumFunctionOnSet(g, Order)
      BY FundsAreLocked DEF SumFunction
    <3>4. accounts[a].locked = Reserved[a] - SumFunctionOnSet(f, Order)
      BY <2>1
    <3> HIDE DEF f, g
    <3>5. SumFunctionOnSet(f, Order) \in Int /\ SumFunctionOnSet(g, Order) \in Int
      BY <3>2, FinitelyMany, SumInt
    <3>6. SumFunctionOnSet(f, Order) <= SumFunctionOnSet(g, Order)
      BY <3>2, FinitelyMany, SumMonotone
    <3>7. QED
      BY <3>3, <3>4, <3>5, <3>6
  <2>3. accounts[a].locked \in Int
    BY DEF SettleInv, TypeOK
  <2>4. QED
    BY <2>1, <2>2, <2>3
<1>2. QED
  BY <1>1, SettleInvariant, MoneyInvariant, PTL

\* Settling trades neither creates nor destroys money of any currency, and no money is
\* moved twice or by halves (calculateSettlementAmounts).
THEOREM SettlementConservation == Spec => []Conservation
<1>1. MoneyInv => Conservation
  BY DEF MoneyInv
<1>2. QED
  BY <1>1, MoneyInvariant, PTL

-----------------------------------------------------------------------------
(***************************************************************************)
(* Settlement implements Clearing.                                         *)
(***************************************************************************)

LEMMA SameAmounts ==
    /\ \A o, q : ClearingSpec!LockAmount(o, q) = LockAmount(o, q)
    /\ \A o : ClearingSpec!AccountOf(o) = AccountOf(o)
    /\ \A tr, a : ClearingSpec!AvailDelta(tr, a) = AvailDelta(tr, a)
    /\ \A tr, a : ClearingSpec!LockedDelta(tr, a) = LockedDelta(tr, a)
BY DEF AvailDelta, LockedDelta, QuoteCost, SurplusRefund, Times, BuyerQuote, BuyerBase, SellerQuote, SellerBase,
       ClearingSpec!AvailDelta, ClearingSpec!LockedDelta, ClearingSpec!QuoteCost,
       ClearingSpec!SurplusRefund, ClearingSpec!Times, ClearingSpec!BuyerQuote,
       ClearingSpec!BuyerBase, ClearingSpec!SellerQuote, ClearingSpec!SellerBase,
       LockAmount, TimesHalfUp, AccountOf, ClearingSpec!LockAmount, ClearingSpec!TimesHalfUp,
       ClearingSpec!AccountOf

LEMMA InitClears == Init => ClearingSpec!Init
BY FundsAreLocked DEF Init, ClearingSpec!Init

LEMMA CommitClears ==
    ASSUME SettleInv, NEW c \in Consumer, Commit(c)
    PROVE  ClearingSpec!Next
<1> DEFINE tr == Message(c)
<1>1. /\ tr \in Trade /\ tr \notin processed /\ processed' = processed \cup {tr}
      /\ accounts' \in [Account -> [avail : Int, locked : Int]]
      /\ \A a \in Account : accounts'[a] = After(tr, a)
  BY CommitEffect
<1> HIDE DEF tr
<1>2. accounts' = [a \in Account |->
          [avail  |-> accounts[a].avail + ClearingSpec!AvailDelta(tr, a),
           locked |-> accounts[a].locked + ClearingSpec!LockedDelta(tr, a)]]
  BY <1>1, SameAmounts DEF After
<1>3. ClearingSpec!Clear(tr)
  BY <1>1, <1>2 DEF ClearingSpec!Clear
<1>4. QED
  BY <1>1, <1>3 DEF ClearingSpec!Next

LEMMA ReleaseClears ==
    ASSUME SettleInv, NEW o \in Order, NEW q \in 1 .. o.amount, Release(o, q)
    PROVE  ClearingSpec!Next
<1>1. ClearingSpec!Release(o, q)
  BY SameAmounts DEF Release, ClearingSpec!Release
<1>2. QED
  BY <1>1 DEF ClearingSpec!Next

\* Every step but a commit and a release leaves the balances and the processed events.
LEMMA StepClears ==
    ASSUME SettleInv, [Next]_vars
    PROVE  [ClearingSpec!Next]_ClearingSpec!clearingVars
<1>1. CASE \E c \in Consumer : Commit(c)
  BY <1>1, CommitClears
<1>2. CASE \E o \in Order : \E q \in 1 .. o.amount : Release(o, q)
  BY <1>2, ReleaseClears
<1>3. CASE (~\E c \in Consumer : Commit(c)) /\ ~\E o \in Order : \E q \in 1 .. o.amount : Release(o, q)
  <2>1. UNCHANGED <<accounts, processed>>
    BY <1>3, OthersKeepMoney DEF vars
  <2>2. QED
    BY <2>1 DEF ClearingSpec!clearingVars
<1>4. QED
  BY <1>1, <1>2, <1>3

\* Consumers that overlap, fail half way and see events again settle every trade in what
\* looks like one step on its four accounts, once (TradesSettlementConsumer).
THEOREM SettlementImplementsClearing == Spec => ImplementsClearing
<1>1. Init => ClearingSpec!Init
  BY InitClears
<1>2. SettleInv /\ [Next]_vars => [ClearingSpec!Next]_ClearingSpec!clearingVars
  BY StepClears
<1>3. QED
  BY <1>1, <1>2, SettleInvariant, PTL DEF Spec, ImplementsClearing, ClearingSpec!Spec

-----------------------------------------------------------------------------
(***************************************************************************)
(* Matching: the table, the book and the takers. Each taker goes through   *)
(* the makers in the order of the book, whatever the others do, because    *)
(* side, price and id of an order never change.                            *)
(***************************************************************************)

EntryRecord == [order : Id, remaining : Nat \ {0}]
FillRecord == [maker : Id, price : Nat, quantity : Nat \ {0}]

\* What a change to the row of an order leaves alone.
SameTerms(o, p) == o.user = p.user /\ o.side = p.side /\ o.price = p.price /\ o.amount = p.amount

Ahead(j, k) == Before(orders[j], j, orders[k], k)
NextMaker(i) == Head(entries[i]).order

\* The rows of the table: what is live has something left, and an order that nobody
\* sees has traded nothing.
RowOK(o) ==
    /\ Live(o) => o.remaining > 0
    /\ o.status = "NONE" => o.filled = 0 /\ o.remaining = o.amount

Table ==
    /\ orders \in Seq(Row) /\ Len(orders) <= MaxOrders
    /\ \A j \in DOMAIN orders : RowOK(orders[j])

Book == DOMAIN book \subseteq DOMAIN orders /\ \A j \in DOMAIN book : book[j] \in Nat \ {0}

TakerTypes ==
    /\ at \in [Id -> Stage]
    /\ ids \in [Id -> Seq(Id)]
    /\ entries \in [Id -> Seq(EntryRecord)]
    /\ seen \in [Id -> Nat]
    /\ fills \in [Id -> Seq(FillRecord)]
    /\ rows = [i \in Id |-> rows[i]]

\* How far the request of order i has come, and what it has in hand by then.
Progress(i) ==
    /\ at[i] = "new" <=> i \notin DOMAIN orders
    /\ at[i] # "details" => ids[i] = << >>
    /\ at[i] = "details" => ids[i] # << >>
    /\ at[i] \notin {"details", "matching", "updating", "booking", "committing"} => entries[i] = << >>
    /\ at[i] \notin {"matching", "updating", "booking", "committing"} =>
          fills[i] = << >> /\ DOMAIN rows[i] = {}
    /\ at[i] # "new" => Left(i) \in Nat
    /\ at[i] \in {"updating", "booking"} => entries[i] # << >> /\ Left(i) > 0
    /\ at[i] \notin {"new", "done"} => orders[i].status = "NONE"

\* The makers it has still to look at come in the order of the book, after those
\* whose rows it has updated.
Queue(i) ==
    /\ \A n \in DOMAIN ids[i] : ids[i][n] \in DOMAIN orders /\ orders[ids[i][n]].side # orders[i].side
    /\ \A m, n \in DOMAIN ids[i] : m < n => Ahead(ids[i][m], ids[i][n])
    /\ \A n \in DOMAIN entries[i] : /\ entries[i][n].order \in DOMAIN orders
                                    /\ orders[entries[i][n].order].side # orders[i].side
    /\ \A m, n \in DOMAIN entries[i] : m < n => Ahead(entries[i][m].order, entries[i][n].order)
    /\ \A m \in DOMAIN entries[i], n \in DOMAIN ids[i] : Ahead(entries[i][m].order, ids[i][n])
    /\ \A j \in DOMAIN rows[i] \ {i} : \A n \in DOMAIN entries[i] :
          Ahead(j, entries[i][n].order) \/ (at[i] = "booking" /\ n = 1 /\ j = entries[i][n].order)

\* The rows it has updated: its own at last, and those of makers that are committed.
OwnRows(i) ==
    \A j \in DOMAIN rows[i] :
        /\ j \in DOMAIN orders /\ rows[i][j] \in Row /\ RowOK(rows[i][j])
        /\ rows[i][j].status # "NONE" /\ SameTerms(orders[j], rows[i][j])
        /\ IF j = i THEN at[i] = "committing" ELSE Visible(j) /\ orders[j].side # orders[i].side

TakerOK(i) == Progress(i) /\ Queue(i) /\ OwnRows(i)

CancelTypes ==
    /\ cancel \in [Canceller -> [pc : {"idle", "found", "removed", "cancelled"},
                                 order : 0 .. MaxOrders, amount : Nat]]
    /\ \A c \in Cancelling : cancel[c].order \in Id /\ Visible(cancel[c].order)

Funds == unlocked \in [Id -> Nat] /\ \A i \in Id : unlocked[i] # 0 => Visible(i)

Rest ==
    /\ trades \subseteq [maker : Id, taker : Id, price : Nat, quantity : Nat \ {0}]
    /\ failures \in Nat /\ serial \in BOOLEAN

MatchInv ==
    /\ Table /\ Book /\ TakerTypes /\ CancelTypes /\ Funds /\ Rest
    /\ \A i \in Id : TakerOK(i)

-----------------------------------------------------------------------------

LEMMA OrderLengths ==
    ASSUME Table
    PROVE  /\ Len(orders) \in Nat /\ DOMAIN orders = 1 .. Len(orders)
           /\ DOMAIN orders \subseteq Id /\ Id \subseteq Nat
           /\ \A j \in DOMAIN orders : orders[j] \in Row /\ RowOK(orders[j])
BY RequestAssumption DEF Table, Id

LEMMA RowFields ==
    ASSUME NEW o \in Row
    PROVE  /\ o.side \in {"BUY", "SELL"} /\ o.price \in Nat /\ o.amount \in Nat
           /\ o.filled \in Nat /\ o.remaining \in Nat
BY DEF Row

LEMMA ExecutedRow ==
    ASSUME NEW o \in Row, NEW f \in Nat, NEW r \in Nat, NEW p, p = Executed(o, f, r)
    PROVE  /\ p \in Row /\ SameTerms(o, p) /\ p.filled = f /\ p.remaining = r
           /\ p.status = StatusOf(f, r) /\ RowOK(p) /\ p.status # "NONE"
<1>1. StatusOf(f, r) \in {"FILLED", "PARTIALLY_FILLED", "OPEN"}
      /\ (StatusOf(f, r) \in {"PARTIALLY_FILLED", "OPEN"} => r # 0)
  BY DEF StatusOf
<1>2. p.filled = f /\ p.remaining = r /\ p.status = StatusOf(f, r) /\ SameTerms(o, p)
  BY DEF Executed, Row, SameTerms
<1>3. p \in Row
  BY <1>1 DEF Executed, Row
<1>4. RowOK(p) /\ p.status # "NONE"
  BY <1>1, <1>2 DEF RowOK, Live
<1>5. QED
  BY <1>2, <1>3, <1>4

LEMMA CancelledRow ==
    ASSUME NEW o \in Row, NEW p, p = [o EXCEPT !.status = "CANCELLED"]
    PROVE  /\ p \in Row /\ SameTerms(o, p) /\ RowOK(p) /\ p.status = "CANCELLED"
           /\ p.filled = o.filled /\ p.remaining = o.remaining
<1>1. /\ p.status = "CANCELLED" /\ p.filled = o.filled /\ p.remaining = o.remaining
      /\ SameTerms(o, p)
  BY DEF Row, SameTerms
<1>2. p \in Row
  BY DEF Row
<1>3. QED
  BY <1>1, <1>2 DEF RowOK, Live

\* Being before another order in the book is a matter of the terms, and a strict order.
LEMMA BeforeTerms ==
    ASSUME NEW o, NEW o2, SameTerms(o, o2), NEW p, NEW p2, SameTerms(p, p2), NEW i, NEW j
    PROVE  Before(o, i, p, j) <=> Before(o2, i, p2, j)
BY DEF Before, SameTerms

LEMMA BeforeOrders ==
    /\ \A o, i : o.price \in Nat /\ i \in Nat => ~Before(o, i, o, i)
    /\ \A o, p, q, i, j, k :
          /\ o.side = p.side /\ p.side = q.side
          /\ o.price \in Nat /\ p.price \in Nat /\ q.price \in Nat /\ i \in Nat /\ j \in Nat /\ k \in Nat
          /\ Before(o, i, p, j) /\ Before(p, j, q, k)
          => Before(o, i, q, k)
BY DEF Before

LEMMA SequenceFacts ==
    ASSUME NEW T, NEW s \in Seq(T)
    PROVE  /\ Len(s) \in Nat /\ DOMAIN s = 1 .. Len(s) /\ \A n \in DOMAIN s : s[n] \in T
           /\ s = << >> <=> DOMAIN s = {}
           /\ s # << >> => /\ Head(s) = s[1] /\ 1 \in DOMAIN s /\ Tail(s) \in Seq(T)
                           /\ DOMAIN Tail(s) = 1 .. Len(s) - 1
                           /\ \A n \in DOMAIN Tail(s) : Tail(s)[n] = s[n + 1] /\ n + 1 \in DOMAIN s
OBVIOUS

LEMMA AppendFacts ==
    ASSUME NEW T, NEW s \in Seq(T), NEW x \in T
    PROVE  /\ Append(s, x) \in Seq(T) /\ Len(Append(s, x)) = Len(s) + 1
           /\ DOMAIN Append(s, x) = 1 .. Len(s) + 1
           /\ \A n \in DOMAIN s : Append(s, x)[n] = s[n]
           /\ Append(s, x)[Len(s) + 1] = x
OBVIOUS

-----------------------------------------------------------------------------

\* What no step undoes: the terms of an order, and that its row is committed.
TermsKept ==
    \A j \in DOMAIN orders : /\ j \in DOMAIN orders' /\ SameTerms(orders[j], orders'[j])
                             /\ orders[j].status # "NONE" => orders'[j].status # "NONE"

\* Another request does something, which the one of order k does not notice.
Waits(k) ==
    /\ at'[k] = at[k] /\ ids'[k] = ids[k] /\ entries'[k] = entries[k] /\ seen'[k] = seen[k]
    /\ rows'[k] = rows[k] /\ fills'[k] = fills[k]
    /\ at[k] = "new" => k \notin DOMAIN orders'
    /\ at[k] \notin {"new", "done"} => orders'[k].status = "NONE"

LEMMA AheadKept ==
    ASSUME TermsKept, NEW j \in DOMAIN orders, NEW k \in DOMAIN orders
    PROVE  Ahead(j, k)' <=> Ahead(j, k)
<1>1. SameTerms(orders[j], orders'[j]) /\ SameTerms(orders[k], orders'[k])
  BY DEF TermsKept
<1>2. Before(orders[j], j, orders[k], k) <=> Before(orders'[j], j, orders'[k], k)
  BY <1>1, BeforeTerms
<1>3. QED
  BY <1>2 DEF Ahead

LEMMA SideKept ==
    ASSUME TermsKept, NEW j \in DOMAIN orders
    PROVE  j \in DOMAIN orders' /\ orders'[j].side = orders[j].side /\ orders'[j].amount = orders[j].amount
           /\ (Visible(j) => Visible(j)')
BY DEF TermsKept, SameTerms, Visible

LEMMA LeftKept ==
    ASSUME TermsKept, NEW k \in DOMAIN orders, fills'[k] = fills[k]
    PROVE  Left(k)' = Left(k)
BY SideKept DEF Left

LEMMA ProgressKept ==
    ASSUME TermsKept, NEW k \in Id, Progress(k), Waits(k)
    PROVE  Progress(k)'
<1>1. at[k] # "new" => Left(k)' = Left(k)
  <2>1. at[k] # "new" => k \in DOMAIN orders
    BY DEF Progress
  <2>2. QED
    BY <2>1, LeftKept DEF Waits
<1>2. at[k] = "new" <=> k \notin DOMAIN orders'
  BY SideKept DEF Progress, Waits
<1>3. QED
  BY <1>1, <1>2 DEF Progress, Waits

LEMMA QueueKept ==
    ASSUME MatchInv, TermsKept, NEW k \in Id, TakerOK(k), Waits(k)
    PROVE  Queue(k)'
<1>1. at[k] = "new" => DOMAIN ids[k] = {} /\ DOMAIN entries[k] = {} /\ DOMAIN rows[k] = {}
  BY DEF TakerOK, Progress
<1>2. at[k] # "new" => k \in DOMAIN orders /\ k \in DOMAIN orders' /\ orders'[k].side = orders[k].side
  BY SideKept DEF TakerOK, Progress
<1>3. /\ \A n \in DOMAIN ids[k] : ids[k][n] \in DOMAIN orders
      /\ \A n \in DOMAIN entries[k] : entries[k][n].order \in DOMAIN orders
      /\ \A j \in DOMAIN rows[k] : j \in DOMAIN orders
  BY DEF TakerOK, Queue, OwnRows
<1>4. \A j \in DOMAIN orders : j \in DOMAIN orders' /\ orders'[j].side = orders[j].side
  BY SideKept
<1>5. \A j, l \in DOMAIN orders : Ahead(j, l)' <=> Ahead(j, l)
  BY AheadKept
<1>6. /\ \A n \in DOMAIN ids[k] : ids[k][n] \in DOMAIN orders' /\ orders'[ids[k][n]].side # orders'[k].side
      /\ \A n \in DOMAIN entries[k] : /\ entries[k][n].order \in DOMAIN orders'
                                      /\ orders'[entries[k][n].order].side # orders'[k].side
  BY <1>1, <1>2, <1>3, <1>4 DEF TakerOK, Queue
<1> DEFINE A(j, l) == Ahead(j, l)'
<1>7. /\ \A m, n \in DOMAIN ids[k] : m < n => A(ids[k][m], ids[k][n])
      /\ \A m, n \in DOMAIN entries[k] : m < n => A(entries[k][m].order, entries[k][n].order)
      /\ \A m \in DOMAIN entries[k], n \in DOMAIN ids[k] : A(entries[k][m].order, ids[k][n])
      /\ \A j \in DOMAIN rows[k] \ {k} : \A n \in DOMAIN entries[k] :
          A(j, entries[k][n].order) \/ (at[k] = "booking" /\ n = 1 /\ j = entries[k][n].order)
  <2> HIDE DEF A
  <2>1. \A j, l \in DOMAIN orders : A(j, l) <=> Ahead(j, l)
    BY <1>5 DEF A
  <2>2. QED
    BY <1>3, <2>1 DEF TakerOK, Queue
<1>8. QED
  BY <1>6, <1>7 DEF Queue, Waits, Ahead

LEMMA OwnRowsKept ==
    ASSUME TermsKept, NEW k \in Id, TakerOK(k), Waits(k)
    PROVE  OwnRows(k)'
<1> SUFFICES ASSUME NEW j \in DOMAIN rows[k]
             PROVE  /\ j \in DOMAIN orders' /\ rows[k][j] \in Row /\ RowOK(rows[k][j])
                    /\ rows[k][j].status # "NONE" /\ SameTerms(orders'[j], rows[k][j])
                    /\ IF j = k THEN at[k] = "committing" ELSE Visible(j)' /\ orders'[j].side # orders'[k].side
  BY DEF OwnRows, Waits
<1>1. /\ j \in DOMAIN orders /\ rows[k][j] \in Row /\ RowOK(rows[k][j])
      /\ rows[k][j].status # "NONE" /\ SameTerms(orders[j], rows[k][j])
      /\ IF j = k THEN at[k] = "committing" ELSE Visible(j) /\ orders[j].side # orders[k].side
  BY DEF TakerOK, OwnRows
<1>2. k \in DOMAIN orders
  BY DEF TakerOK, Progress
<1>3. SameTerms(orders'[j], rows[k][j])
  BY <1>1 DEF TermsKept, SameTerms
<1>4. /\ j \in DOMAIN orders' /\ orders'[j].side = orders[j].side /\ (Visible(j) => Visible(j)')
      /\ orders'[k].side = orders[k].side
  BY <1>1, <1>2, SideKept
<1>5. QED
  BY <1>1, <1>3, <1>4

LEMMA TakerWaits ==
    ASSUME MatchInv, TermsKept, NEW k \in Id, Waits(k)
    PROVE  TakerOK(k)'
<1>1. TakerOK(k)
  BY DEF MatchInv
<1>2. Progress(k)' /\ Queue(k)' /\ OwnRows(k)'
  BY <1>1, ProgressKept, QueueKept, OwnRowsKept DEF TakerOK
<1>3. QED
  BY <1>2 DEF TakerOK

LEMMA VisibleKept ==
    ASSUME TermsKept, NEW j, Visible(j)
    PROVE  Visible(j)'
BY SideKept DEF Visible

-----------------------------------------------------------------------------

\* Only the request of order i moves.
TakerMoves(i) ==
    /\ at' = [at EXCEPT ![i] = at'[i]] /\ ids' = [ids EXCEPT ![i] = ids'[i]]
    /\ entries' = [entries EXCEPT ![i] = entries'[i]] /\ seen' = [seen EXCEPT ![i] = seen'[i]]
    /\ rows' = [rows EXCEPT ![i] = rows'[i]] /\ fills' = [fills EXCEPT ![i] = fills'[i]]

InHand(i) ==
    /\ at[i] \in Stage /\ ids[i] \in Seq(Id) /\ entries[i] \in Seq(EntryRecord)
    /\ seen[i] \in Nat /\ fills[i] \in Seq(FillRecord)

LEMMA InHandTypes ==
    ASSUME TakerTypes, NEW i \in Id
    PROVE  InHand(i)
BY DEF TakerTypes, InHand

LEMMA MoveTypes ==
    ASSUME TakerTypes, NEW i \in Id, TakerMoves(i), InHand(i)'
    PROVE  TakerTypes' /\ \A k \in Id \ {i} : /\ at'[k] = at[k] /\ ids'[k] = ids[k]
                                              /\ entries'[k] = entries[k] /\ seen'[k] = seen[k]
                                              /\ rows'[k] = rows[k] /\ fills'[k] = fills[k]
<1>1. at' \in [Id -> Stage] /\ ids' \in [Id -> Seq(Id)]
  BY DEF TakerTypes, TakerMoves, InHand
<1>2. entries' \in [Id -> Seq(EntryRecord)] /\ fills' \in [Id -> Seq(FillRecord)]
  BY DEF TakerTypes, TakerMoves, InHand
<1>3. seen' \in [Id -> Nat] /\ rows' = [k \in Id |-> rows'[k]]
  BY DEF TakerTypes, TakerMoves, InHand
<1>4. \A k \in Id \ {i} : at'[k] = at[k] /\ ids'[k] = ids[k]
  BY DEF TakerTypes, TakerMoves
<1>5. \A k \in Id \ {i} : entries'[k] = entries[k] /\ seen'[k] = seen[k]
  BY DEF TakerTypes, TakerMoves
<1>6. \A k \in Id \ {i} : rows'[k] = rows[k] /\ fills'[k] = fills[k]
  BY DEF TakerTypes, TakerMoves
<1>7. QED
  BY <1>1, <1>2, <1>3, <1>4, <1>5, <1>6 DEF TakerTypes

LEMMA InPlace ==
    ASSUME MatchInv, NEW i \in Id, TakerMoves(i), InHand(i)', TakerOK(i)', Book', Rest',
           UNCHANGED <<orders, cancel, unlocked>>
    PROVE  MatchInv'
<1>1. TermsKept
  BY DEF TermsKept, SameTerms
<1>2. /\ TakerTypes'
      /\ \A k \in Id \ {i} : /\ at'[k] = at[k] /\ ids'[k] = ids[k]
                             /\ entries'[k] = entries[k] /\ seen'[k] = seen[k]
                             /\ rows'[k] = rows[k] /\ fills'[k] = fills[k]
  BY MoveTypes DEF MatchInv
<1>3. \A k \in Id \ {i} : Waits(k)
  <2> TAKE k \in Id \ {i}
  <2>1. Progress(k)
    BY DEF MatchInv, TakerOK
  <2>2. QED
    BY <1>2, <2>1 DEF Waits, Progress
<1>4. \A k \in Id \ {i} : TakerOK(k)'
  BY <1>1, <1>3, TakerWaits
<1>5. Table' /\ Funds'
  BY DEF MatchInv, Table, Funds, Visible
<1>6. CancelTypes'
  BY DEF MatchInv, CancelTypes, Visible, Cancelling
<1>7. QED
  BY <1>2, <1>4, <1>5, <1>6 DEF MatchInv

\* What holds of the request of order i when it is about to do something.
LEMMA TakerFacts ==
    ASSUME MatchInv, NEW i \in Id, at[i] # "new"
    PROVE  /\ i \in DOMAIN orders /\ orders[i] \in Row /\ orders[i].amount \in Nat
           /\ InHand(i) /\ TakerOK(i) /\ Table /\ Book /\ TakerTypes /\ Rest
           /\ DOMAIN orders \subseteq Id /\ Id \subseteq Nat
<1>1. TakerOK(i) /\ Table /\ TakerTypes
  BY DEF MatchInv
<1>2. i \in DOMAIN orders
  BY <1>1 DEF TakerOK, Progress
<1>3. QED
  BY <1>1, <1>2, OrderLengths, RowFields, InHandTypes DEF MatchInv

LEMMA SubsequenceFacts ==
    ASSUME NEW T, NEW s \in Seq(T), NEW n \in 0 .. Len(s)
    PROVE  /\ SubSeq(s, 1, n) \in Seq(T) /\ DOMAIN SubSeq(s, 1, n) = 1 .. n /\ Len(SubSeq(s, 1, n)) = n
           /\ 1 .. n \subseteq DOMAIN s
           /\ \A m \in 1 .. n : SubSeq(s, 1, n)[m] = s[m]
OBVIOUS

\* The best opposing orders are some of them, in the order of the book.
LEMMA BestFacts ==
    ASSUME MatchInv, NEW i, NEW best \in BestFirst(Opposing(i))
    PROVE  /\ best \in Seq(Id) /\ Len(best) = Cardinality(Opposing(i))
           /\ \A n \in DOMAIN best : best[n] \in Opposing(i)
           /\ \A m, n \in DOMAIN best : m < n => Ahead(best[m], best[n])
           /\ Opposing(i) = {} <=> best = << >>
<1> DEFINE S == Opposing(i)
           D == Cardinality(S)
<1>1. S \subseteq Id /\ IsFiniteSet(S)
  <2>1. S \subseteq Id
    BY OrderLengths DEF Opposing, MatchInv, Book
  <2>2. IsFiniteSet(Id)
    BY RequestAssumption, FS_Interval DEF Id
  <2>3. QED
    BY <2>1, <2>2, FS_Subset
<1>2. D \in Nat /\ (D = 0 <=> S = {})
  BY <1>1, FS_CardinalityType, FS_EmptySet
<1>3. best \in [1 .. D -> S] /\ \A m, n \in DOMAIN best : m < n => Ahead(best[m], best[n])
  BY DEF BestFirst, SetToSeqs, Ahead
<1> HIDE DEF S, D
<1>4. best \in Seq(Id) /\ Len(best) = D /\ DOMAIN best = 1 .. D
  BY <1>1, <1>2, <1>3
<1>5. \A n \in DOMAIN best : best[n] \in S
  BY <1>3
<1>6. best = << >> <=> D = 0
  BY <1>2, <1>4
<1>7. QED
  BY <1>2, <1>3, <1>4, <1>5, <1>6 DEF S, D

LEMMA ReadBookKeeps ==
    ASSUME MatchInv, NEW i \in Id, ReadBook(i)
    PROVE  MatchInv'
<1>1. PICK best \in BestFirst(Opposing(i)) :
          ids' = [ids EXCEPT ![i] = SubSeq(best, 1, IF Len(best) < Limit THEN Len(best) ELSE Limit)]
  BY DEF ReadBook
<1> DEFINE n == IF Len(best) < Limit THEN Len(best) ELSE Limit
<1>2. /\ at[i] = "reading" /\ at' = [at EXCEPT ![i] = IF Opposing(i) = {} THEN "matching" ELSE "details"]
      /\ UNCHANGED <<orders, trades, book, entries, seen, rows, fills, cancel, unlocked, failures, serial>>
  BY DEF ReadBook, Goto
<1>3. /\ i \in DOMAIN orders /\ InHand(i) /\ TakerOK(i) /\ Book /\ TakerTypes /\ Rest
      /\ DOMAIN orders \subseteq Id
  BY <1>2, TakerFacts
<1>4. /\ best \in Seq(Id) /\ n \in 0 .. Len(best) /\ (n = 0 <=> Opposing(i) = {})
      /\ \A m \in DOMAIN best : best[m] \in Opposing(i)
      /\ \A l, m \in DOMAIN best : l < m => Ahead(best[l], best[m])
  <2>1. /\ best \in Seq(Id) /\ (Opposing(i) = {} <=> best = << >>)
        /\ \A m \in DOMAIN best : best[m] \in Opposing(i)
        /\ \A l, m \in DOMAIN best : l < m => Ahead(best[l], best[m])
    BY BestFacts
  <2>2. Len(best) \in Nat /\ (Len(best) = 0 <=> best = << >>)
    BY <2>1
  <2>3. n \in 0 .. Len(best) /\ (n = 0 <=> Len(best) = 0)
    BY <2>2, RequestAssumption
  <2>4. QED
    BY <2>1, <2>2, <2>3
<1>5. /\ SubSeq(best, 1, n) \in Seq(Id) /\ DOMAIN SubSeq(best, 1, n) = 1 .. n
      /\ Len(SubSeq(best, 1, n)) = n /\ 1 .. n \subseteq DOMAIN best
      /\ \A m \in 1 .. n : SubSeq(best, 1, n)[m] = best[m]
  BY <1>4, SubsequenceFacts
<1>6. ids' = [ids EXCEPT ![i] = SubSeq(best, 1, n)]
  BY <1>1
<1> HIDE DEF n
<1>7. /\ ids'[i] = SubSeq(best, 1, n)
      /\ at'[i] = IF Opposing(i) = {} THEN "matching" ELSE "details"
      /\ entries' = entries /\ seen' = seen /\ rows' = rows /\ fills' = fills
  BY <1>2, <1>3, <1>6 DEF TakerTypes
<1>8. TakerMoves(i)
  BY <1>2, <1>3, <1>6, <1>7 DEF TakerTypes, TakerMoves
<1>9. InHand(i)'
  BY <1>3, <1>5, <1>7 DEF InHand, Stage
<1>10. Progress(i)'
  <2>1. ids'[i] = << >> <=> n = 0
    BY <1>4, <1>5, <1>7
  <2>2. Left(i)' = Left(i)
    BY <1>2 DEF Left
  <2>3. /\ at'[i] = "details" <=> ids'[i] # << >>
        /\ at'[i] \in {"details", "matching"} /\ i \in DOMAIN orders'
    <3>1. i \in DOMAIN orders'
      BY <1>2, <1>3
    <3>2. QED
      BY <1>4, <1>7, <2>1, <3>1
  <2>4. /\ entries'[i] = << >> /\ fills'[i] = << >> /\ DOMAIN rows'[i] = {}
        /\ Left(i)' \in Nat /\ orders'[i].status = "NONE"
    BY <1>2, <1>3, <2>2 DEF TakerOK, Progress
  <2>5. QED
    BY <2>3, <2>4 DEF Progress
<1>11. Queue(i)'
  <2>1. DOMAIN entries[i] = {} /\ DOMAIN rows[i] = {}
    BY <1>2, <1>3 DEF TakerOK, Progress
  <2>2. \A m \in 1 .. n : best[m] \in DOMAIN orders /\ orders[best[m]].side # orders[i].side
    BY <1>3, <1>4, <1>5 DEF Opposing, Book
  <2>3. \A l, m \in 1 .. n : l < m => Ahead(best[l], best[m])
    BY <1>4, <1>5
  <2>4. DOMAIN ids'[i] = 1 .. n /\ \A m \in 1 .. n : ids'[i][m] = best[m]
    BY <1>5, <1>7
  <2>5. \A m \in DOMAIN ids'[i] : ids'[i][m] \in DOMAIN orders /\ orders[ids'[i][m]].side # orders[i].side
    BY <2>2, <2>4
  <2>6. \A l, m \in DOMAIN ids'[i] : l < m => Ahead(ids'[i][l], ids'[i][m])
    BY <2>3, <2>4
  <2>7. QED
    BY <1>2, <2>1, <2>5, <2>6 DEF Queue, Ahead
<1>12. OwnRows(i)'
  BY <1>2, <1>3 DEF OwnRows, TakerOK, Progress
<1>13. Book' /\ Rest'
  BY <1>2, <1>3 DEF Book, Rest
<1>14. QED
  BY <1>2, <1>8, <1>9, <1>10, <1>11, <1>12, <1>13, InPlace DEF TakerOK

\* The quantity of the fills of a sequence.
Filled(s) == SumFunctionOnSet([n \in DOMAIN s |-> s[n].quantity], DOMAIN s)

LEMMA FilledType ==
    ASSUME NEW s \in Seq(FillRecord)
    PROVE  Filled(s) \in Nat
<1>1. IsFiniteSet(DOMAIN s) /\ \A n \in DOMAIN s : s[n].quantity \in Nat
  <2>1. DOMAIN s = 1 .. Len(s) /\ Len(s) \in Nat /\ \A n \in DOMAIN s : s[n] \in FillRecord
    OBVIOUS
  <2>2. QED
    BY <2>1, FS_Interval DEF FillRecord
<1> DEFINE f == [n \in DOMAIN s |-> s[n].quantity]
<1>2. \A n \in DOMAIN s : f[n] \in Nat
  BY <1>1
<1> HIDE DEF f
<1>3. SumFunctionOnSet(f, DOMAIN s) \in Nat
  BY <1>1, <1>2, SumNat
<1>4. QED
  BY <1>3 DEF f, Filled

LEMMA FilledEmpty == \A s : s = << >> => Filled(s) = 0
<1> SUFFICES Filled(<< >>) = 0
  OBVIOUS
<1>1. DOMAIN << >> = {}
  OBVIOUS
<1>2. QED
  BY <1>1, SumEmpty DEF Filled

LEMMA FilledAppend ==
    ASSUME NEW s \in Seq(FillRecord), NEW x \in FillRecord
    PROVE  Filled(Append(s, x)) = Filled(s) + x.quantity
<1> DEFINE t == Append(s, x)
           f == [n \in DOMAIN s |-> s[n].quantity]
           g == [n \in DOMAIN t |-> t[n].quantity]
           m == Len(s) + 1
<1>1. /\ Len(s) \in Nat /\ DOMAIN s = 1 .. Len(s) /\ DOMAIN t = 1 .. m
      /\ \A n \in DOMAIN s : t[n] = s[n] /\ s[n] \in FillRecord
      /\ t[m] = x
  OBVIOUS
<1> HIDE DEF t
<1>2. DOMAIN t = DOMAIN s \cup {m} /\ m \notin DOMAIN s /\ IsFiniteSet(DOMAIN s)
  <2>1. DOMAIN t = DOMAIN s \cup {m} /\ m \notin DOMAIN s
    BY <1>1
  <2>2. IsFiniteSet(DOMAIN s)
    BY <1>1, FS_Interval
  <2>3. QED
    BY <2>1, <2>2
<1>3. /\ \A n \in DOMAIN s : g[n] = f[n] /\ g[n] \in Int
      /\ g[m] = x.quantity /\ g[m] \in Int
  BY <1>1, <1>2 DEF FillRecord
<1> HIDE DEF f, g, m
<1>4. SumFunctionOnSet(g, DOMAIN s \cup {m}) = SumFunctionOnSet(g, DOMAIN s) + g[m]
  BY <1>2, <1>3, SumJoin
<1>5. SumFunctionOnSet(g, DOMAIN s) = SumFunctionOnSet(f, DOMAIN s)
  BY <1>2, <1>3, SumSame
<1>6. Filled(t) = SumFunctionOnSet(g, DOMAIN t) /\ Filled(s) = SumFunctionOnSet(f, DOMAIN s)
  BY DEF f, g, Filled
<1>7. QED
  BY <1>2, <1>3, <1>4, <1>5, <1>6 DEF t

LEMMA LeftIs == \A i : Left(i) = orders[i].amount - Filled(fills[i])
BY DEF Left, Filled

LEMMA HeadFacts ==
    ASSUME TakerTypes, NEW i \in Id, entries[i] # << >>
    PROVE  /\ Head(entries[i]) = entries[i][1] /\ 1 \in DOMAIN entries[i]
           /\ NextMaker(i) = entries[i][1].order /\ NextMaker(i) \in Id
           /\ Head(entries[i]).remaining \in Nat \ {0}
<1>1. entries[i] \in Seq(EntryRecord)
  BY DEF TakerTypes
<1>2. Head(entries[i]) = entries[i][1] /\ 1 \in DOMAIN entries[i] /\ entries[i][1] \in EntryRecord
  BY <1>1
<1>3. QED
  BY <1>2 DEF NextMaker, EntryRecord

LEMMA ReadDetailsKeeps ==
    ASSUME MatchInv, NEW i \in Id, ReadDetails(i)
    PROVE  MatchInv'
<1> DEFINE j == Head(ids[i])
           e == [order |-> j, remaining |-> book[j]]
           reads == j \in DOMAIN book /\ orders[j].user # orders[i].user
<1>1. /\ at[i] = "details" /\ ids' = [ids EXCEPT ![i] = Tail(ids[i])]
      /\ entries' = [entries EXCEPT ![i] = IF reads THEN Append(entries[i], e) ELSE entries[i]]
      /\ at' = [at EXCEPT ![i] = IF Tail(ids[i]) = << >> THEN "matching" ELSE "details"]
      /\ UNCHANGED <<orders, trades, book, seen, rows, fills, cancel, unlocked, failures, serial>>
  BY DEF ReadDetails, Goto
<1>2. /\ i \in DOMAIN orders /\ InHand(i) /\ TakerOK(i) /\ Book /\ TakerTypes /\ Rest
      /\ DOMAIN orders \subseteq Id
  BY <1>1, TakerFacts
<1>3. /\ ids[i] \in Seq(Id) /\ ids[i] # << >> /\ entries[i] \in Seq(EntryRecord)
      /\ DOMAIN rows[i] = {} /\ fills[i] = << >>
  BY <1>1, <1>2 DEF TakerOK, Progress, InHand
<1>4. /\ j = ids[i][1] /\ 1 \in DOMAIN ids[i] /\ j \in Id /\ Tail(ids[i]) \in Seq(Id)
      /\ DOMAIN Tail(ids[i]) = 1 .. Len(ids[i]) - 1
      /\ Len(ids[i]) \in Nat
      /\ \A n \in DOMAIN Tail(ids[i]) : Tail(ids[i])[n] = ids[i][n + 1] /\ n + 1 \in DOMAIN ids[i]
  BY <1>3, SequenceFacts
<1>5. reads => e \in EntryRecord
  BY <1>2, <1>4 DEF Book, EntryRecord
<1>6. /\ at'[i] = IF Tail(ids[i]) = << >> THEN "matching" ELSE "details"
      /\ ids'[i] = Tail(ids[i])
      /\ entries'[i] = IF reads THEN Append(entries[i], e) ELSE entries[i]
  BY <1>1, <1>2 DEF TakerTypes
<1>7. TakerMoves(i)
  BY <1>1, <1>2, <1>6 DEF TakerTypes, TakerMoves
<1>8. entries'[i] \in Seq(EntryRecord) /\ DOMAIN entries[i] = 1 .. Len(entries[i]) /\ Len(entries[i]) \in Nat
  <2> HIDE DEF e, reads
  <2>1. QED
    BY <1>3, <1>5, <1>6, AppendFacts
<1>9. InHand(i)'
  BY <1>1, <1>2, <1>4, <1>6, <1>8 DEF InHand, Stage
<1>10. Progress(i)'
  <2>1. Left(i)' = Left(i)
    BY <1>1 DEF Left
  <2> HIDE DEF j, e, reads
  <2>2. /\ at'[i] = "details" <=> ids'[i] # << >>
        /\ at'[i] \in {"details", "matching"} /\ i \in DOMAIN orders'
    <3>1. i \in DOMAIN orders'
      BY <1>1, <1>2
    <3>2. QED
      BY <1>6, <3>1
  <2>3. fills'[i] = << >> /\ DOMAIN rows'[i] = {} /\ Left(i)' \in Nat /\ orders'[i].status = "NONE"
    BY <1>1, <1>2, <1>3, <2>1 DEF TakerOK, Progress
  <2>4. QED
    BY <2>2, <2>3 DEF Progress
\* An entry is one that was there, or the one just read.
<1>11. \A n \in DOMAIN entries'[i] :
           \/ n \in DOMAIN entries[i] /\ entries'[i][n] = entries[i][n]
           \/ n = Len(entries[i]) + 1 /\ entries'[i][n].order = j
  <2>1. CASE reads
    <3> HIDE DEF reads
    <3>1. e \in EntryRecord
      BY <1>5, <2>1
    <3>2. e.order = j
      OBVIOUS
    <3> HIDE DEF e, j
    <3>3. entries'[i] = Append(entries[i], e)
      BY <1>6, <2>1
    <3>4. /\ DOMAIN Append(entries[i], e) = 1 .. Len(entries[i]) + 1
          /\ \A n \in DOMAIN entries[i] : Append(entries[i], e)[n] = entries[i][n]
          /\ Append(entries[i], e)[Len(entries[i]) + 1] = e
      BY <1>3, <3>1, AppendFacts
    <3>5. QED
      BY <1>8, <3>2, <3>3, <3>4
  <2>2. CASE ~reads
    BY <1>6, <2>2
  <2>3. QED
    BY <2>1, <2>2
<1>12. Queue(i)'
  <2> HIDE DEF j, e, reads
  <2>1. \A n \in DOMAIN ids'[i] : n + 1 \in DOMAIN ids[i] /\ ids'[i][n] = ids[i][n + 1] /\ n \in Nat \ {0}
    BY <1>4, <1>6
  <2>2. /\ j \in DOMAIN orders /\ orders[j].side # orders[i].side
        /\ \A n \in DOMAIN entries[i] : Ahead(entries[i][n].order, j)
        /\ \A n \in DOMAIN ids'[i] : Ahead(j, ids'[i][n])
    BY <1>2, <1>4, <2>1 DEF TakerOK, Queue
  <2>3. \A n \in DOMAIN ids'[i] : ids'[i][n] \in DOMAIN orders /\ orders[ids'[i][n]].side # orders[i].side
    BY <1>2, <2>1 DEF TakerOK, Queue
  <2>4. \A m, n \in DOMAIN ids'[i] : m < n => Ahead(ids'[i][m], ids'[i][n])
    BY <1>2, <2>1 DEF TakerOK, Queue
  <2>5. \A n \in DOMAIN entries'[i] : /\ entries'[i][n].order \in DOMAIN orders
                                      /\ orders[entries'[i][n].order].side # orders[i].side
    BY <1>2, <1>11, <2>2 DEF TakerOK, Queue
  <2>6. \A m, n \in DOMAIN entries'[i] : m < n => Ahead(entries'[i][m].order, entries'[i][n].order)
    BY <1>2, <1>8, <1>11, <2>2 DEF TakerOK, Queue
  <2>7. \A m \in DOMAIN entries'[i], n \in DOMAIN ids'[i] : Ahead(entries'[i][m].order, ids'[i][n])
    BY <1>2, <1>11, <2>1, <2>2 DEF TakerOK, Queue
  <2>8. QED
    BY <1>1, <1>3, <2>3, <2>4, <2>5, <2>6, <2>7 DEF Queue, Ahead
<1>13. OwnRows(i)'
  BY <1>1, <1>3 DEF OwnRows
<1>14. Book' /\ Rest'
  BY <1>1, <1>2 DEF Book, Rest
<1>15. QED
  BY <1>1, <1>7, <1>9, <1>10, <1>12, <1>13, <1>14, InPlace DEF TakerOK

LEMMA FindMakerKeeps ==
    ASSUME MatchInv, NEW i \in Id, FindMaker(i)
    PROVE  MatchInv'
<1>1. /\ at[i] = "matching" /\ HasMatch(i) /\ at' = [at EXCEPT ![i] = "updating"]
      /\ seen' = [seen EXCEPT ![i] = IF Visible(NextMaker(i)) THEN orders[NextMaker(i)].filled ELSE 0]
      /\ UNCHANGED <<orders, trades, book, ids, entries, rows, fills, cancel, unlocked, failures, serial>>
  BY DEF FindMaker, Goto, NextMaker
<1>2. /\ i \in DOMAIN orders /\ InHand(i) /\ TakerOK(i) /\ Book /\ TakerTypes /\ Rest /\ Table
  BY <1>1, TakerFacts
<1>3. entries[i] # << >> /\ Left(i) > 0
  BY <1>1 DEF HasMatch
<1>4. at'[i] = "updating" /\ seen'[i] \in Nat
  <2>1. Visible(NextMaker(i)) => orders[NextMaker(i)].filled \in Nat
    BY <1>2, OrderLengths, RowFields DEF Visible
  <2>2. QED
    BY <1>1, <1>2, <2>1 DEF TakerTypes
<1>5. TakerMoves(i)
  BY <1>1, <1>2 DEF TakerTypes, TakerMoves
<1>6. InHand(i)'
  BY <1>1, <1>2, <1>4 DEF InHand, Stage
<1>7. Progress(i)'
  <2>1. Left(i)' = Left(i)
    BY <1>1 DEF Left
  <2>2. QED
    BY <1>1, <1>2, <1>3, <1>4, <2>1 DEF TakerOK, Progress
<1>8. Queue(i)'
  BY <1>1, <1>2, <1>4 DEF TakerOK, Queue, Ahead
<1>9. OwnRows(i)'
  BY <1>1, <1>2, <1>4 DEF TakerOK, OwnRows, Visible
<1>10. Book' /\ Rest'
  BY <1>1, <1>2 DEF Book, Rest
<1>11. QED
  BY <1>1, <1>5, <1>6, <1>7, <1>8, <1>9, <1>10, InPlace DEF TakerOK

\* The quantity matched is what the taker or the maker has left.
LEMMA MatchAmountFacts ==
    ASSUME MatchInv, NEW i \in Id, at[i] \in {"updating", "booking"}
    PROVE  /\ MatchAmount(i) \in Nat \ {0} /\ MatchAmount(i) <= Left(i) /\ Left(i) \in Nat
           /\ MatchAmount(i) <= Head(entries[i]).remaining
           /\ Head(entries[i]).remaining - MatchAmount(i) \in Nat
           /\ entries[i] # << >>
<1>1. TakerOK(i) /\ TakerTypes
  BY TakerFacts
<1>2. entries[i] # << >> /\ Left(i) \in Nat /\ Left(i) > 0
  BY <1>1 DEF TakerOK, Progress
<1>3. Head(entries[i]).remaining \in Nat \ {0}
  BY <1>1, <1>2, HeadFacts
<1>4. QED
  BY <1>2, <1>3 DEF MatchAmount

LEMMA UpdateMakerKeeps ==
    ASSUME MatchInv, NEW i \in Id, UpdateMaker(i)
    PROVE  MatchInv'
<1> DEFINE j == NextMaker(i)
           q == MatchAmount(i)
           row == Executed(orders[j], seen[i] + q, Head(entries[i]).remaining - q)
<1>1. /\ at[i] = "updating" /\ at' = [at EXCEPT ![i] = "booking"]
      /\ rows' = [rows EXCEPT ![i] = IF Visible(j) THEN Set(rows[i], j, row) ELSE rows[i]]
      /\ UNCHANGED <<orders, trades, book, ids, entries, seen, fills, cancel, unlocked, failures, serial>>
  BY DEF UpdateMaker, Goto, NextMaker
<1>2. /\ i \in DOMAIN orders /\ InHand(i) /\ TakerOK(i) /\ Book /\ TakerTypes /\ Rest /\ Table
  BY <1>1, TakerFacts
<1>3. q \in Nat /\ Head(entries[i]).remaining - q \in Nat /\ entries[i] # << >>
  BY <1>1, MatchAmountFacts
<1>4. /\ j \in DOMAIN orders /\ orders[j].side # orders[i].side /\ j # i
      /\ j = entries[i][1].order /\ 1 \in DOMAIN entries[i]
  BY <1>2, <1>3, HeadFacts DEF TakerOK, Queue
<1>5. row \in Row /\ SameTerms(orders[j], row) /\ RowOK(row) /\ row.status # "NONE"
  <2>1. orders[j] \in Row /\ seen[i] + q \in Nat
    BY <1>2, <1>3, <1>4, OrderLengths DEF InHand
  <2>2. Head(entries[i]).remaining - q \in Nat
    BY <1>3
  <2> HIDE DEF q, j
  <2>3. PICK o \in Row, f \in Nat, r \in Nat :
            o = orders[j] /\ f = seen[i] + q /\ r = Head(entries[i]).remaining - q
    BY <2>1, <2>2
  <2>4. row = Executed(o, f, r)
    BY <2>3
  <2>5. o = orders[j]
    BY <2>3
  <2> HIDE DEF row
  <2>6. row \in Row /\ SameTerms(o, row) /\ RowOK(row) /\ row.status # "NONE"
    BY <2>4, ExecutedRow
  <2>7. QED
    BY <2>5, <2>6
<1> HIDE DEF row, q, j
<1>6. at'[i] = "booking" /\ rows'[i] = IF Visible(j) THEN Set(rows[i], j, row) ELSE rows[i]
  BY <1>1, <1>2 DEF TakerTypes
<1>7. TakerMoves(i)
  BY <1>1, <1>2, <1>6 DEF TakerTypes, TakerMoves
<1>8. InHand(i)'
  BY <1>1, <1>2, <1>6 DEF InHand, Stage
<1>9. Progress(i)'
  <2>1. Left(i)' = Left(i)
    BY <1>1 DEF Left
  <2>2. QED
    BY <1>1, <1>2, <1>6, <2>1 DEF TakerOK, Progress
<1>10. \A k \in DOMAIN rows'[i] : \/ k = j /\ Visible(j) /\ rows'[i][k] = row
                                  \/ k \in DOMAIN rows[i] /\ rows'[i][k] = rows[i][k]
  BY <1>6 DEF Set
<1>11. Queue(i)'
  <2>1. \A k \in DOMAIN rows[i] \ {i} : \A n \in DOMAIN entries[i] : Ahead(k, entries[i][n].order)
    BY <1>1, <1>2 DEF TakerOK, Queue
  <2>2. \A n \in DOMAIN entries[i] : n = 1 \/ Ahead(j, entries[i][n].order)
    <3>1. \A n \in DOMAIN entries[i] : n = 1 \/ 1 < n
      BY <1>2 DEF InHand
    <3>2. QED
      BY <1>2, <1>4, <3>1 DEF TakerOK, Queue
  <2>3. \A k \in DOMAIN rows'[i] \ {i} : \A n \in DOMAIN entries[i] :
           Ahead(k, entries[i][n].order) \/ (n = 1 /\ k = entries[i][n].order)
    BY <1>4, <1>10, <2>1, <2>2
  <2>4. QED
    BY <1>1, <1>2, <1>6, <2>3 DEF TakerOK, Queue, Ahead
<1>12. OwnRows(i)'
  <2>1. \A k \in DOMAIN rows[i] :
           /\ k \in DOMAIN orders /\ rows[i][k] \in Row /\ RowOK(rows[i][k])
           /\ rows[i][k].status # "NONE" /\ SameTerms(orders[k], rows[i][k])
           /\ k # i /\ Visible(k) /\ orders[k].side # orders[i].side
    BY <1>1, <1>2 DEF TakerOK, OwnRows
  <2>2. \A k \in DOMAIN rows'[i] :
           /\ k \in DOMAIN orders /\ rows'[i][k] \in Row /\ RowOK(rows'[i][k])
           /\ rows'[i][k].status # "NONE" /\ SameTerms(orders[k], rows'[i][k])
           /\ k # i /\ Visible(k) /\ orders[k].side # orders[i].side
    BY <1>4, <1>5, <1>10, <2>1
  <2>3. QED
    BY <1>1, <2>2 DEF OwnRows, Visible
<1>13. Book' /\ Rest'
  BY <1>1, <1>2 DEF Book, Rest
<1>14. QED
  BY <1>1, <1>7, <1>8, <1>9, <1>11, <1>12, <1>13, InPlace DEF TakerOK

LEMMA UpdateBookKeeps ==
    ASSUME MatchInv, NEW i \in Id, UpdateBook(i)
    PROVE  MatchInv'
<1> DEFINE j == NextMaker(i)
           q == MatchAmount(i)
           rest == Head(entries[i]).remaining - q
           f == [maker |-> j, price |-> orders[j].price, quantity |-> q]
<1>1. /\ at[i] = "booking" /\ at' = [at EXCEPT ![i] = "matching"]
      /\ book' = IF Head(entries[i]).remaining = q THEN Without(book, j)
                 ELSE IF j \in DOMAIN book THEN Set(book, j, rest)
                 ELSE book
      /\ fills' = [fills EXCEPT ![i] = Append(fills[i], f)]
      /\ entries' = [entries EXCEPT ![i] = Tail(entries[i])]
      /\ UNCHANGED <<orders, trades, ids, seen, rows, cancel, unlocked, failures, serial>>
  BY DEF UpdateBook, Goto, NextMaker
<1>2. /\ i \in DOMAIN orders /\ InHand(i) /\ TakerOK(i) /\ Book /\ TakerTypes /\ Rest /\ Table
      /\ orders[i].amount \in Nat
  BY <1>1, TakerFacts
<1>3. /\ q \in Nat \ {0} /\ q <= Left(i) /\ Left(i) \in Nat /\ rest \in Nat /\ entries[i] # << >>
      /\ (Head(entries[i]).remaining = q \/ rest # 0)
  <2>1. Head(entries[i]).remaining \in Nat
    BY <1>1, <1>2, MatchAmountFacts, HeadFacts
  <2>2. QED
    BY <1>1, <2>1, MatchAmountFacts
<1>4. j \in DOMAIN orders /\ j \in Id /\ orders[j].price \in Nat
  BY <1>2, <1>3, HeadFacts, OrderLengths, RowFields DEF TakerOK, Queue
<1>5. f \in FillRecord /\ f.quantity = q
  BY <1>3, <1>4 DEF FillRecord
<1>6. /\ entries[i] \in Seq(EntryRecord) /\ Tail(entries[i]) \in Seq(EntryRecord)
      /\ Len(entries[i]) \in Nat /\ DOMAIN Tail(entries[i]) = 1 .. Len(entries[i]) - 1
      /\ \A n \in DOMAIN Tail(entries[i]) :
            Tail(entries[i])[n] = entries[i][n + 1] /\ n + 1 \in DOMAIN entries[i] /\ n \in Nat \ {0}
  <2>1. entries[i] \in Seq(EntryRecord)
    BY <1>2 DEF InHand
  <2>2. QED
    BY <1>3, <2>1, SequenceFacts
<1>7. fills[i] \in Seq(FillRecord) /\ Append(fills[i], f) \in Seq(FillRecord)
  BY <1>2, <1>5 DEF InHand
<1> HIDE DEF f, q, j, rest
<1>8. /\ at'[i] = "matching" /\ fills'[i] = Append(fills[i], f) /\ entries'[i] = Tail(entries[i])
      /\ ids'[i] = ids[i] /\ seen'[i] = seen[i] /\ rows'[i] = rows[i]
  BY <1>1, <1>2 DEF TakerTypes
<1>9. TakerMoves(i)
  BY <1>1, <1>2, <1>8 DEF TakerTypes, TakerMoves
<1>10. InHand(i)'
  BY <1>2, <1>6, <1>7, <1>8 DEF InHand, Stage
<1>11. Left(i)' = Left(i) - q
  <2>1. Filled(Append(fills[i], f)) = Filled(fills[i]) + q /\ Filled(fills[i]) \in Nat
    BY <1>5, <1>7, FilledAppend, FilledType
  <2>2. Left(i) = orders[i].amount - Filled(fills[i])
    BY LeftIs
  <2>3. Left(i)' = orders[i].amount - Filled(Append(fills[i], f))
    <3>1. Left(i)' = orders'[i].amount - Filled(fills'[i])
      BY DEF Left, Filled
    <3>2. QED
      BY <1>1, <1>8, <3>1
  <2>4. QED
    BY <1>2, <1>3, <2>1, <2>2, <2>3
<1>12. Progress(i)'
  <2>1. Left(i)' \in Nat
    BY <1>3, <1>11
  <2>2. at[i] # "details" /\ ids[i] = << >> /\ orders[i].status = "NONE"
    BY <1>1, <1>2 DEF TakerOK, Progress
  <2>3. QED
    BY <1>1, <1>2, <1>8, <2>1, <2>2 DEF Progress
<1>13. Queue(i)'
  <2>1. \A n \in DOMAIN entries'[i] : n + 1 \in DOMAIN entries[i] /\ entries'[i][n] = entries[i][n + 1]
                                      /\ n \in Nat /\ n + 1 # 1
    BY <1>6, <1>8
  <2>2. \A n \in DOMAIN entries'[i] : /\ entries'[i][n].order \in DOMAIN orders
                                      /\ orders[entries'[i][n].order].side # orders[i].side
    BY <1>2, <2>1 DEF TakerOK, Queue
  <2>3. \A m, n \in DOMAIN entries'[i] : m < n => Ahead(entries'[i][m].order, entries'[i][n].order)
    <3> TAKE m, n \in DOMAIN entries'[i]
    <3> HAVE m < n
    <3>1. m + 1 < n + 1
      BY <2>1
    <3>2. QED
      BY <1>2, <2>1, <3>1 DEF TakerOK, Queue
  <2>4. \A k \in DOMAIN rows[i] \ {i} : \A n \in DOMAIN entries'[i] : Ahead(k, entries'[i][n].order)
    BY <1>2, <2>1 DEF TakerOK, Queue
  <2>5. DOMAIN ids[i] = {}
    BY <1>1, <1>2 DEF TakerOK, Progress
  <2>6. QED
    BY <1>1, <1>8, <2>2, <2>3, <2>4, <2>5 DEF Queue, Ahead
<1>14. OwnRows(i)'
  BY <1>1, <1>2, <1>8 DEF TakerOK, OwnRows, Visible
<1>15. Book' /\ Rest'
  <2>1. Book'
    <3>1. CASE Head(entries[i]).remaining = q
      BY <1>1, <1>2, <3>1 DEF Book, Without
    <3>2. CASE Head(entries[i]).remaining # q /\ j \in DOMAIN book
      <4>1. book' = Set(book, j, rest) /\ rest \in Nat \ {0}
        BY <1>1, <1>3, <3>2
      <4>2. QED
        BY <1>1, <1>2, <1>4, <4>1 DEF Book, Set
    <3>3. CASE Head(entries[i]).remaining # q /\ j \notin DOMAIN book
      BY <1>1, <1>2, <3>3 DEF Book
    <3>4. QED
      BY <3>1, <3>2, <3>3
  <2>2. QED
    BY <1>1, <1>2, <2>1 DEF Rest
<1>16. QED
  BY <1>1, <1>9, <1>10, <1>12, <1>13, <1>14, <1>15, InPlace DEF TakerOK

LEMMA AddTakerKeeps ==
    ASSUME MatchInv, NEW i \in Id, AddTaker(i)
    PROVE  MatchInv'
<1> DEFINE row == Executed(orders[i], orders[i].amount - Left(i), Left(i))
<1>1. /\ at[i] = "matching" /\ at' = [at EXCEPT ![i] = "committing"]
      /\ rows' = [rows EXCEPT ![i] = Set(rows[i], i, row)]
      /\ book' = IF Left(i) > 0 THEN Set(book, i, Left(i)) ELSE book
      /\ UNCHANGED <<orders, trades, ids, entries, seen, fills, cancel, unlocked, failures, serial>>
  BY DEF AddTaker, Goto
<1>2. /\ i \in DOMAIN orders /\ InHand(i) /\ TakerOK(i) /\ Book /\ TakerTypes /\ Rest /\ Table
      /\ orders[i] \in Row /\ orders[i].amount \in Nat
  BY <1>1, TakerFacts
<1>3. Left(i) \in Nat /\ orders[i].amount - Left(i) \in Nat
  <2>1. Left(i) \in Nat
    BY <1>1, <1>2 DEF TakerOK, Progress
  <2>2. Left(i) = orders[i].amount - Filled(fills[i]) /\ Filled(fills[i]) \in Nat
    BY <1>2, LeftIs, FilledType DEF InHand
  <2>3. QED
    BY <1>2, <2>1, <2>2
<1>4. row \in Row /\ SameTerms(orders[i], row) /\ RowOK(row) /\ row.status # "NONE"
  <2>1. PICK o \in Row, f \in Nat, r \in Nat :
            o = orders[i] /\ f = orders[i].amount - Left(i) /\ r = Left(i)
    BY <1>2, <1>3
  <2>2. row = Executed(o, f, r) /\ o = orders[i]
    BY <2>1
  <2> HIDE DEF row
  <2>3. row \in Row /\ SameTerms(o, row) /\ RowOK(row) /\ row.status # "NONE"
    BY <2>2, ExecutedRow
  <2>4. QED
    BY <2>2, <2>3
<1> HIDE DEF row
<1>5. at'[i] = "committing" /\ rows'[i] = Set(rows[i], i, row)
  BY <1>1, <1>2 DEF TakerTypes
<1>6. TakerMoves(i)
  BY <1>1, <1>2, <1>5 DEF TakerTypes, TakerMoves
<1>7. InHand(i)'
  BY <1>1, <1>2, <1>5 DEF InHand, Stage
<1>8. Progress(i)'
  <2>1. Left(i)' = Left(i)
    BY <1>1 DEF Left
  <2>2. QED
    BY <1>1, <1>2, <1>5, <2>1 DEF TakerOK, Progress
<1>9. \A k \in DOMAIN rows'[i] : \/ k = i /\ rows'[i][k] = row
                                 \/ k # i /\ k \in DOMAIN rows[i] /\ rows'[i][k] = rows[i][k]
  BY <1>5 DEF Set
<1>10. Queue(i)'
  <2>1. \A k \in DOMAIN rows[i] \ {i} : \A n \in DOMAIN entries[i] : Ahead(k, entries[i][n].order)
    BY <1>1, <1>2 DEF TakerOK, Queue
  <2>2. \A k \in DOMAIN rows'[i] \ {i} : \A n \in DOMAIN entries[i] : Ahead(k, entries[i][n].order)
    BY <1>9, <2>1
  <2>3. QED
    BY <1>1, <1>2, <2>2 DEF TakerOK, Queue, Ahead
<1>11. OwnRows(i)'
  <2>1. \A k \in DOMAIN rows[i] :
           /\ k \in DOMAIN orders /\ rows[i][k] \in Row /\ RowOK(rows[i][k])
           /\ rows[i][k].status # "NONE" /\ SameTerms(orders[k], rows[i][k])
           /\ k # i => Visible(k) /\ orders[k].side # orders[i].side
    BY <1>1, <1>2 DEF TakerOK, OwnRows
  <2>2. \A k \in DOMAIN rows'[i] :
           /\ k \in DOMAIN orders /\ rows'[i][k] \in Row /\ RowOK(rows'[i][k])
           /\ rows'[i][k].status # "NONE" /\ SameTerms(orders[k], rows'[i][k])
           /\ k # i => Visible(k) /\ orders[k].side # orders[i].side
    BY <1>2, <1>4, <1>9, <2>1
  <2>3. QED
    BY <1>1, <1>5, <2>2 DEF OwnRows, Visible
<1>12. Book' /\ Rest'
  <2>1. Book'
    BY <1>1, <1>2, <1>3 DEF Book, Set
  <2>2. QED
    BY <1>1, <1>2, <2>1 DEF Rest
<1>13. QED
  BY <1>1, <1>6, <1>7, <1>8, <1>10, <1>11, <1>12, InPlace DEF TakerOK

-----------------------------------------------------------------------------

LEMMA OneMoves ==
    ASSUME MatchInv, TermsKept, NEW i \in Id, TakerMoves(i), InHand(i)', TakerOK(i)',
           Table', Book', CancelTypes', Funds', Rest',
           \A k \in Id \ {i} : /\ at[k] = "new" => k \notin DOMAIN orders'
                               /\ at[k] \notin {"new", "done"} => orders'[k].status = "NONE"
    PROVE  MatchInv'
<1>1. /\ TakerTypes'
      /\ \A k \in Id \ {i} : /\ at'[k] = at[k] /\ ids'[k] = ids[k]
                             /\ entries'[k] = entries[k] /\ seen'[k] = seen[k]
                             /\ rows'[k] = rows[k] /\ fills'[k] = fills[k]
  BY MoveTypes DEF MatchInv
<1>2. \A k \in Id \ {i} : TakerOK(k)'
  BY <1>1, TakerWaits DEF Waits
<1>3. QED
  BY <1>1, <1>2 DEF MatchInv

LEMMA OrdersTypes ==
    ASSUME Table, NEW table, DOMAIN table = DOMAIN orders, table = [j \in DOMAIN orders |-> table[j]],
           \A j \in DOMAIN orders : table[j] \in Row /\ RowOK(table[j]) /\ SameTerms(orders[j], table[j])
    PROVE  table \in Seq(Row) /\ Len(table) = Len(orders) /\ \A j \in DOMAIN table : RowOK(table[j])
BY OrderLengths

LEMMA CancelsAndFundsKept ==
    ASSUME MatchInv, TermsKept
    PROVE  /\ cancel' = cancel => CancelTypes'
           /\ unlocked' = unlocked => Funds'
<1>1. \A j : Visible(j) => Visible(j)'
  BY VisibleKept
<1>2. ASSUME unlocked' = unlocked PROVE Funds'
  BY <1>1, <1>2 DEF MatchInv, Funds
<1>3. ASSUME cancel' = cancel PROVE CancelTypes'
  BY <1>1, <1>3 DEF MatchInv, CancelTypes, Cancelling
<1>4. QED
  BY <1>2, <1>3

LEMMA EndMoves ==
    ASSUME MatchInv, NEW i \in Id, NEW outcome \in {"done", "aborted"}, End(i, outcome)
    PROVE  /\ TakerMoves(i) /\ InHand(i)'
           /\ at'[i] = outcome /\ ids'[i] = << >> /\ entries'[i] = << >> /\ fills'[i] = << >>
           /\ DOMAIN rows'[i] = {}
<1>1. /\ at' = [at EXCEPT ![i] = outcome] /\ ids' = [ids EXCEPT ![i] = << >>]
      /\ entries' = [entries EXCEPT ![i] = << >>] /\ seen' = [seen EXCEPT ![i] = 0]
      /\ rows' = [rows EXCEPT ![i] = EmptyFunction] /\ fills' = [fills EXCEPT ![i] = << >>]
  BY DEF End, Goto
<1>2. TakerTypes
  BY DEF MatchInv
<1>3. /\ at'[i] = outcome /\ ids'[i] = << >> /\ entries'[i] = << >> /\ fills'[i] = << >>
      /\ seen'[i] = 0 /\ rows'[i] = EmptyFunction
  BY <1>1, <1>2 DEF TakerTypes
<1>4. TakerMoves(i)
  BY <1>1, <1>2, <1>3 DEF TakerTypes, TakerMoves
<1>5. InHand(i)'
  BY <1>3 DEF InHand, Stage
<1>6. DOMAIN EmptyFunction = {}
  BY DEF EmptyFunction
<1>7. QED
  BY <1>3, <1>4, <1>5, <1>6

LEMMA EndedOK ==
    ASSUME NEW i \in Id, at'[i] \in {"done", "aborted"}, ids'[i] = << >>, entries'[i] = << >>,
           fills'[i] = << >>, DOMAIN rows'[i] = {},
           i \in DOMAIN orders', orders'[i].amount \in Nat,
           at'[i] = "aborted" => orders'[i].status = "NONE"
    PROVE  TakerOK(i)'
<1>1. Left(i)' \in Nat
  <2>1. Filled(fills'[i]) = 0
    BY FilledEmpty
  <2>2. Left(i)' = orders'[i].amount - Filled(fills'[i])
    BY DEF Left, Filled
  <2>3. QED
    BY <2>1, <2>2
<1>2. Progress(i)'
  BY <1>1 DEF Progress
<1>3. DOMAIN ids'[i] = {} /\ DOMAIN entries'[i] = {}
  OBVIOUS
<1>4. Queue(i)' /\ OwnRows(i)'
  BY <1>3 DEF Queue, OwnRows
<1>5. QED
  BY <1>2, <1>4 DEF TakerOK

\* What the commit of order i makes of the table.
LEMMA CommitEffects ==
    ASSUME MatchInv, NEW i \in Id, CommitOrder(i)
    PROVE  /\ Table' /\ TermsKept /\ DOMAIN orders' = DOMAIN orders
           /\ \A j \in DOMAIN orders : orders'[j] = IF j \in DOMAIN rows[i] THEN rows[i][j] ELSE orders[j]
           /\ \A k \in Id \ {i} : at[k] \notin {"new", "done"} => k \notin DOMAIN rows[i]
<1>1. at[i] = "committing"
      /\ orders' = [j \in DOMAIN orders |-> IF j \in DOMAIN rows[i] THEN rows[i][j] ELSE orders[j]]
  BY DEF CommitOrder
<1>2. TakerOK(i) /\ Table
  BY DEF MatchInv
<1>3. /\ DOMAIN orders' = DOMAIN orders
      /\ \A j \in DOMAIN orders : orders'[j] = IF j \in DOMAIN rows[i] THEN rows[i][j] ELSE orders[j]
  BY <1>1
<1>4. \A j \in DOMAIN rows[i] :
         /\ rows[i][j] \in Row /\ RowOK(rows[i][j])
         /\ rows[i][j].status # "NONE" /\ SameTerms(orders[j], rows[i][j])
         /\ j # i => Visible(j)
  BY <1>2 DEF TakerOK, OwnRows
<1>5. \A j \in DOMAIN orders : /\ orders'[j] \in Row /\ RowOK(orders'[j]) /\ SameTerms(orders[j], orders'[j])
                               /\ orders[j].status # "NONE" => orders'[j].status # "NONE"
  <2> TAKE j \in DOMAIN orders
  <2>1. orders[j] \in Row /\ RowOK(orders[j]) /\ SameTerms(orders[j], orders[j])
    BY <1>2, OrderLengths DEF SameTerms
  <2>2. CASE j \in DOMAIN rows[i]
    <3>1. orders'[j] = rows[i][j]
      BY <1>3, <2>2
    <3>2. QED
      BY <1>4, <2>2, <3>1
  <2>3. CASE j \notin DOMAIN rows[i]
    <3>1. orders'[j] = orders[j]
      BY <1>3, <2>3
    <3>2. QED
      BY <2>1, <3>1
  <2>4. QED
    BY <2>2, <2>3
<1>6. orders' \in Seq(Row) /\ Len(orders') = Len(orders)
  BY <1>1, <1>2, <1>3, <1>5, OrdersTypes
<1>7. Table' /\ TermsKept
  BY <1>2, <1>3, <1>5, <1>6 DEF Table, TermsKept
<1>8. \A k \in Id \ {i} : at[k] \notin {"new", "done"} => k \notin DOMAIN rows[i]
  <2> TAKE k \in Id \ {i}
  <2> HAVE at[k] \notin {"new", "done"}
  <2>1. orders[k].status = "NONE"
    BY DEF MatchInv, TakerOK, Progress
  <2>2. QED
    BY <1>4, <2>1 DEF Visible
<1>9. QED
  BY <1>3, <1>7, <1>8

LEMMA CommitOrderKeeps ==
    ASSUME MatchInv, NEW i \in Id, CommitOrder(i)
    PROVE  MatchInv'
<1>1. /\ at[i] = "committing" /\ End(i, "done")
      /\ trades' = trades \cup
            {[maker |-> f.maker, taker |-> i, price |-> f.price, quantity |-> f.quantity] :
                f \in ToSet(fills[i])}
      /\ UNCHANGED <<book, cancel, unlocked, failures, serial>>
  BY DEF CommitOrder
<1>2. /\ i \in DOMAIN orders /\ InHand(i) /\ TakerOK(i) /\ Book /\ TakerTypes /\ Rest /\ Table
      /\ orders[i].amount \in Nat
  BY <1>1, TakerFacts
<1>3. /\ TakerMoves(i) /\ InHand(i)'
      /\ at'[i] = "done" /\ ids'[i] = << >> /\ entries'[i] = << >> /\ fills'[i] = << >>
      /\ DOMAIN rows'[i] = {}
  BY <1>1, EndMoves
<1>4. /\ Table' /\ TermsKept /\ DOMAIN orders' = DOMAIN orders
      /\ \A j \in DOMAIN orders : orders'[j] = IF j \in DOMAIN rows[i] THEN rows[i][j] ELSE orders[j]
      /\ \A k \in Id \ {i} : at[k] \notin {"new", "done"} => k \notin DOMAIN rows[i]
  BY CommitEffects
<1>5. \A k \in Id \ {i} : /\ at[k] = "new" => k \notin DOMAIN orders'
                          /\ at[k] \notin {"new", "done"} => orders'[k].status = "NONE"
  <2> TAKE k \in Id \ {i}
  <2>1. Progress(k)
    BY DEF MatchInv, TakerOK
  <2>2. QED
    BY <1>4, <2>1 DEF Progress
<1>6. TakerOK(i)'
  <2>1. i \in DOMAIN orders' /\ orders'[i].amount \in Nat
    BY <1>2, <1>4, SideKept
  <2>2. QED
    BY <1>3, <2>1, EndedOK
<1>7. Book'
  BY <1>1, <1>2, <1>4 DEF Book
<1>8. Rest'
  <2>1. \A f \in ToSet(fills[i]) : f \in FillRecord
    BY <1>2 DEF ToSet, InHand
  <2>2. \A f \in ToSet(fills[i]) :
           [maker |-> f.maker, taker |-> i, price |-> f.price, quantity |-> f.quantity]
           \in [maker : Id, taker : Id, price : Nat, quantity : Nat \ {0}]
    BY <2>1 DEF FillRecord
  <2>3. QED
    BY <1>1, <1>2, <2>2 DEF Rest
<1>9. CancelTypes' /\ Funds'
  BY <1>1, <1>4, CancelsAndFundsKept
<1>10. QED
  BY <1>3, <1>4, <1>5, <1>6, <1>7, <1>8, <1>9, OneMoves

LEMMA RollbackOrderKeeps ==
    ASSUME MatchInv, NEW i \in Id, RollbackOrder(i)
    PROVE  MatchInv'
<1>1. /\ at[i] \notin {"new", "done", "aborted"} /\ End(i, "aborted")
      /\ failures' = failures + 1 /\ serial' = FALSE
      /\ UNCHANGED <<orders, trades, book, cancel, unlocked>>
  BY DEF RollbackOrder, Placing
<1>2. /\ i \in DOMAIN orders /\ TakerOK(i) /\ Book /\ Rest /\ orders[i].amount \in Nat
  BY <1>1, TakerFacts
<1>3. /\ TakerMoves(i) /\ InHand(i)'
      /\ at'[i] = "aborted" /\ ids'[i] = << >> /\ entries'[i] = << >> /\ fills'[i] = << >>
      /\ DOMAIN rows'[i] = {}
  BY <1>1, EndMoves
<1>4. TakerOK(i)'
  <2>1. orders[i].status = "NONE"
    BY <1>1, <1>2 DEF TakerOK, Progress
  <2>2. QED
    BY <1>1, <1>2, <1>3, <2>1, EndedOK
<1>5. Book' /\ Rest'
  <2>1. serial' \in BOOLEAN
    BY <1>1
  <2>2. failures' \in Nat
    BY <1>1, <1>2 DEF Rest
  <2>3. QED
    BY <1>1, <1>2, <2>1, <2>2 DEF Book, Rest
<1>6. QED
  BY <1>1, <1>3, <1>4, <1>5, InPlace

LEMMA PlaceOrderKeeps ==
    ASSUME MatchInv, NEW r \in Request, PlaceOrder(r)
    PROVE  MatchInv'
<1>0. PICK i : i = Len(orders) + 1
  OBVIOUS
<1> DEFINE o == [user |-> r.user, side |-> r.side, price |-> r.price, amount |-> r.amount,
                 filled |-> 0, remaining |-> r.amount, status |-> "NONE"]
<1>1. /\ i <= MaxOrders /\ orders' = Append(orders, o) /\ at' = [at EXCEPT ![i] = "reading"]
      /\ serial' = (serial /\ Active = 0)
      /\ UNCHANGED <<trades, book, ids, entries, seen, rows, fills, cancel, unlocked, failures>>
  BY <1>0 DEF PlaceOrder, Goto, Begin
<1>2. Table /\ Book /\ TakerTypes /\ Rest /\ Len(orders) \in Nat /\ DOMAIN orders = 1 .. Len(orders)
  BY OrderLengths DEF MatchInv
<1>3. i \in Id /\ i \notin DOMAIN orders
  BY <1>0, <1>1, <1>2, RequestAssumption DEF Id
<1>4. o \in Row /\ RowOK(o) /\ o.status = "NONE" /\ o.amount \in Nat
  BY RequestAssumption DEF Row, RowOK, Live
<1>5. /\ orders' \in Seq(Row) /\ Len(orders') = i /\ DOMAIN orders' = DOMAIN orders \cup {i}
      /\ orders'[i] = o /\ \A j \in DOMAIN orders : orders'[j] = orders[j]
  <2> HIDE DEF o
  <2>1. /\ Append(orders, o) \in Seq(Row) /\ Len(Append(orders, o)) = Len(orders) + 1
        /\ DOMAIN Append(orders, o) = 1 .. Len(orders) + 1
        /\ \A n \in DOMAIN orders : Append(orders, o)[n] = orders[n]
        /\ Append(orders, o)[Len(orders) + 1] = o
    BY <1>2, <1>4, AppendFacts DEF Table
  <2>2. QED
    BY <1>0, <1>1, <1>2, <2>1
<1> HIDE DEF o
<1>6. Table'
  BY <1>1, <1>2, <1>4, <1>5 DEF Table
<1>7. TermsKept
  BY <1>5 DEF TermsKept, SameTerms
<1>8. TakerOK(i)
  BY <1>3 DEF MatchInv
<1>9. /\ at[i] = "new" /\ ids[i] = << >> /\ entries[i] = << >> /\ fills[i] = << >> /\ DOMAIN rows[i] = {}
  BY <1>3, <1>8 DEF TakerOK, Progress
<1>10. at'[i] = "reading"
  BY <1>1, <1>2, <1>3 DEF TakerTypes
<1>11. TakerMoves(i)
  BY <1>1, <1>2, <1>3, <1>10 DEF TakerTypes, TakerMoves
<1>12. InHand(i)'
  <2>1. InHand(i)
    BY <1>2, <1>3, InHandTypes
  <2>2. QED
    BY <1>1, <1>10, <2>1 DEF InHand, Stage
<1>13. TakerOK(i)'
  <2>1. Left(i)' \in Nat
    <3>1. Filled(fills'[i]) = 0
      BY <1>1, <1>9, FilledEmpty
    <3>2. Left(i)' = orders'[i].amount - Filled(fills'[i])
      BY DEF Left, Filled
    <3>3. QED
      BY <1>4, <1>5, <3>1, <3>2
  <2>2. Progress(i)'
    BY <1>1, <1>4, <1>5, <1>9, <1>10, <2>1 DEF Progress
  <2>3. DOMAIN ids'[i] = {} /\ DOMAIN entries'[i] = {} /\ DOMAIN rows'[i] = {}
    BY <1>1, <1>9
  <2>4. Queue(i)' /\ OwnRows(i)'
    BY <2>3 DEF Queue, OwnRows
  <2>5. QED
    BY <2>2, <2>4 DEF TakerOK
<1>14. \A k \in Id \ {i} : /\ at[k] = "new" => k \notin DOMAIN orders'
                           /\ at[k] \notin {"new", "done"} => orders'[k].status = "NONE"
  <2> TAKE k \in Id \ {i}
  <2>1. Progress(k)
    BY DEF MatchInv, TakerOK
  <2>2. QED
    BY <1>5, <2>1 DEF Progress
<1>15. Book' /\ Rest'
  <2>1. serial' \in BOOLEAN
    BY <1>1
  <2>2. QED
    BY <1>1, <1>2, <1>5, <2>1 DEF Book, Rest
<1>16. CancelTypes' /\ Funds'
  BY <1>1, <1>7, CancelsAndFundsKept
<1>17. QED
  BY <1>3, <1>6, <1>7, <1>11, <1>12, <1>13, <1>14, <1>15, <1>16, OneMoves

-----------------------------------------------------------------------------

CancelRecord == [pc : {"idle", "found", "removed", "cancelled"}, order : 0 .. MaxOrders, amount : Nat]

\* A canceller moves, and the requests that place orders do not.
LEMMA CancelMoves ==
    ASSUME MatchInv, TermsKept, Table', Book', CancelTypes', Funds', Rest',
           DOMAIN orders' = DOMAIN orders,
           \A j \in DOMAIN orders : orders[j].status = "NONE" => orders'[j].status = "NONE",
           UNCHANGED <<at, ids, entries, seen, rows, fills>>
    PROVE  MatchInv'
<1>1. \A k \in Id : Waits(k)
  <2> TAKE k \in Id
  <2>1. Progress(k)
    BY DEF MatchInv, TakerOK
  <2>2. QED
    BY <2>1 DEF Waits, Progress
<1>2. \A k \in Id : TakerOK(k)'
  BY <1>1, TakerWaits
<1>3. TakerTypes'
  BY DEF MatchInv, TakerTypes
<1>4. QED
  BY <1>2, <1>3 DEF MatchInv

LEMMA CancelFacts ==
    ASSUME MatchInv, NEW c \in Canceller
    PROVE  /\ cancel[c] \in CancelRecord
           /\ cancel[c].pc # "idle" => cancel[c].order \in Id /\ Visible(cancel[c].order)
                                       /\ orders[cancel[c].order] \in Row
<1>1. CancelTypes /\ Table
  BY DEF MatchInv
<1>2. cancel[c].pc # "idle" => cancel[c].order \in Id /\ Visible(cancel[c].order)
  BY <1>1 DEF CancelTypes, Cancelling
<1>3. QED
  BY <1>1, <1>2, OrderLengths DEF CancelTypes, CancelRecord, Visible

LEMMA IdleCancel == Idle \in CancelRecord /\ Idle.pc = "idle"
BY RequestAssumption DEF Idle, CancelRecord

\* One canceller's record changes, while what is visible stays so.
LEMMA CancelTyped ==
    ASSUME MatchInv, NEW c \in Canceller, NEW rec \in CancelRecord, cancel' = [cancel EXCEPT ![c] = rec],
           rec.pc # "idle" => rec.order \in Id /\ Visible(rec.order),
           TermsKept
    PROVE  CancelTypes' /\ cancel'[c] = rec /\ \A d \in Canceller \ {c} : cancel'[d] = cancel[d]
<1>1. cancel \in [Canceller -> CancelRecord]
      /\ \A d \in Canceller : cancel[d].pc # "idle" => cancel[d].order \in Id /\ Visible(cancel[d].order)
  BY DEF MatchInv, CancelTypes, CancelRecord, Cancelling
<1>2. /\ cancel' \in [Canceller -> CancelRecord] /\ cancel'[c] = rec
      /\ \A d \in Canceller \ {c} : cancel'[d] = cancel[d]
  BY <1>1
<1>3. \A j : Visible(j) => Visible(j)'
  BY VisibleKept
<1>4. \A d \in Canceller : cancel'[d].pc # "idle" =>
          cancel'[d].order \in Id /\ Visible(cancel'[d].order)
  <2> TAKE d \in Canceller
  <2>1. CASE d = c
    BY <1>2, <2>1
  <2>2. CASE d # c
    BY <1>1, <1>2, <2>2
  <2>3. QED
    BY <2>1, <2>2
<1>5. \A d \in Canceller : cancel'[d].pc # "idle" =>
          cancel'[d].order \in Id /\ \A j : j = cancel'[d].order => Visible(j)'
  BY <1>3, <1>4
<1>6. \A d \in Cancelling' : cancel'[d].order \in Id /\ Visible(cancel[d].order)'
  <2> TAKE d \in Cancelling'
  <2>1. d \in Canceller /\ cancel'[d].pc # "idle"
    BY DEF Cancelling
  <2>2. \A j : j = cancel'[d].order => (j \in DOMAIN orders' /\ orders'[j].status # "NONE")
    BY <1>5, <2>1 DEF Visible
  <2>3. QED
    BY <1>5, <2>1, <2>2 DEF Visible
<1>7. QED
  BY <1>2, <1>6 DEF CancelTypes, CancelRecord

LEMMA TermsSame ==
    ASSUME orders' = orders
    PROVE  TermsKept
BY DEF TermsKept, SameTerms

\* Where the table stays the same.
LEMMA CancelOnly ==
    ASSUME MatchInv, NEW c \in Canceller, NEW rec \in CancelRecord, cancel' = [cancel EXCEPT ![c] = rec],
           rec.pc # "idle" => rec.order \in Id /\ Visible(rec.order),
           Book', Funds', Rest', UNCHANGED <<orders, at, ids, entries, seen, rows, fills>>
    PROVE  MatchInv'
<1>1. TermsKept
  BY TermsSame
<1>2. CancelTypes'
  BY <1>1, CancelTyped
<1>3. Table'
  BY DEF MatchInv, Table
<1>4. QED
  BY <1>1, <1>2, <1>3, CancelMoves

LEMMA BeginCancelKeeps ==
    ASSUME MatchInv, NEW c \in Canceller, NEW i \in Id, BeginCancel(c, i)
    PROVE  MatchInv'
<1> DEFINE rec == [pc |-> "found", order |-> i, amount |-> 0]
<1>1. /\ Visible(i) /\ cancel' = [cancel EXCEPT ![c] = rec] /\ serial' = (serial /\ Active = 0)
      /\ UNCHANGED <<orders, trades, book, at, ids, entries, seen, rows, fills, unlocked, failures>>
  BY DEF BeginCancel, Begin, taker
<1>2. rec \in CancelRecord /\ rec.order = i
  BY DEF CancelRecord, Id
<1>3. Book' /\ Funds' /\ Rest'
  <2>1. serial' \in BOOLEAN
    BY <1>1
  <2>2. QED
    BY <1>1, <2>1 DEF MatchInv, Book, Funds, Rest, Visible
<1> HIDE DEF rec
<1>4. QED
  BY <1>1, <1>2, <1>3, CancelOnly

LEMMA RemoveOrderKeeps ==
    ASSUME MatchInv, NEW c \in Canceller, RemoveOrder(c)
    PROVE  MatchInv'
<1> DEFINE rec == [cancel[c] EXCEPT !.pc = "removed"]
<1>1. /\ cancel[c].pc = "found" /\ book' = Without(book, cancel[c].order)
      /\ cancel' = [cancel EXCEPT ![c].pc = "removed"]
      /\ UNCHANGED <<orders, trades, at, ids, entries, seen, rows, fills, unlocked, failures, serial>>
  BY DEF RemoveOrder, taker
<1>2. cancel[c] \in CancelRecord /\ cancel[c].order \in Id /\ Visible(cancel[c].order)
  BY <1>1, CancelFacts
<1>3. rec \in CancelRecord /\ rec.order = cancel[c].order
  BY <1>2 DEF CancelRecord
<1>4. cancel' = [cancel EXCEPT ![c] = rec]
  BY <1>1
<1>5. Book' /\ Funds' /\ Rest'
  BY <1>1 DEF MatchInv, Book, Funds, Rest, Visible, Without
<1> HIDE DEF rec
<1>6. PICK x : x = rec
  OBVIOUS
<1>7. QED
  BY <1>1, <1>2, <1>3, <1>4, <1>5, <1>6, CancelOnly

\* What the conditional UPDATE does.
LEMMA CancelRowEffects ==
    ASSUME MatchInv, NEW c \in Canceller, CancelRow(c), NEW i, i = cancel[c].order, Live(orders[i])
    PROVE  /\ Table' /\ TermsKept /\ DOMAIN orders' = DOMAIN orders
           /\ \A j \in DOMAIN orders \ {i} : orders'[j] = orders[j]
           /\ i \in DOMAIN orders /\ orders[i] \in Row /\ orders'[i].status = "CANCELLED"
           /\ orders'[i] = [orders[i] EXCEPT !.status = "CANCELLED"]
           /\ SameTerms(orders[i], orders'[i])
           /\ orders'[i].filled = orders[i].filled /\ orders'[i].remaining = orders[i].remaining
<1>1. cancel[c].pc = "removed" /\ orders' = [orders EXCEPT ![i].status = "CANCELLED"]
  BY DEF CancelRow
<1>2. i \in DOMAIN orders /\ orders[i] \in Row /\ Table
  BY <1>1, CancelFacts DEF MatchInv, Visible
<1>3. PICK p : p = [orders[i] EXCEPT !.status = "CANCELLED"]
  OBVIOUS
<1>4. orders' = [orders EXCEPT ![i] = p]
  BY <1>1, <1>3
<1>5. /\ p \in Row /\ SameTerms(orders[i], p) /\ RowOK(p) /\ p.status = "CANCELLED"
      /\ p.filled = orders[i].filled /\ p.remaining = orders[i].remaining
  <2>1. PICK o \in Row : o = orders[i]
    BY <1>2
  <2>2. p = [o EXCEPT !.status = "CANCELLED"]
    BY <1>3, <2>1
  <2>3. /\ p \in Row /\ SameTerms(o, p) /\ RowOK(p) /\ p.status = "CANCELLED"
        /\ p.filled = o.filled /\ p.remaining = o.remaining
    BY <2>2, CancelledRow
  <2>4. QED
    BY <2>1, <2>3
<1>6. orders \in Seq(Row)
  BY <1>2 DEF Table
<1>7. /\ DOMAIN orders' = DOMAIN orders /\ orders'[i] = p
      /\ \A j \in DOMAIN orders \ {i} : orders'[j] = orders[j]
      /\ orders' = [j \in DOMAIN orders |-> orders'[j]]
  BY <1>2, <1>4, <1>6
<1>8. \A j \in DOMAIN orders : orders'[j] \in Row /\ RowOK(orders'[j]) /\ SameTerms(orders[j], orders'[j])
  <2> TAKE j \in DOMAIN orders
  <2>1. CASE j = i
    BY <1>5, <1>7, <2>1
  <2>2. CASE j # i
    BY <1>2, <1>7, <2>2, OrderLengths DEF SameTerms
  <2>3. QED
    BY <2>1, <2>2
<1>9. Table'
  <2>1. orders' \in Seq(Row) /\ Len(orders') = Len(orders)
    BY <1>2, <1>7, <1>8, OrdersTypes
  <2>2. QED
    BY <1>2, <1>7, <1>8, <2>1 DEF Table
<1>10. TermsKept
  BY <1>5, <1>7, <1>8 DEF TermsKept
<1>11. QED
  BY <1>2, <1>3, <1>5, <1>7, <1>9, <1>10

LEMMA CancelRowKeeps ==
    ASSUME MatchInv, NEW c \in Canceller, CancelRow(c)
    PROVE  MatchInv'
<1>0. PICK i : i = cancel[c].order
  OBVIOUS
<1>1. /\ cancel[c].pc = "removed"
      /\ UNCHANGED <<trades, book, at, ids, entries, seen, rows, fills, unlocked, failures, serial>>
  BY DEF CancelRow, taker
<1>2. cancel[c] \in CancelRecord /\ i \in Id /\ Visible(i) /\ orders[i] \in Row
  BY <1>0, <1>1, CancelFacts
<1>3. CASE Live(orders[i])
  <2>1. /\ Table' /\ TermsKept /\ DOMAIN orders' = DOMAIN orders
        /\ \A j \in DOMAIN orders \ {i} : orders'[j] = orders[j]
    BY <1>0, <1>3, CancelRowEffects
  <2>2. PICK rec : rec = [cancel[c] EXCEPT !.pc = "cancelled", !.amount = orders[i].remaining]
    OBVIOUS
  <2>3. cancel' = [cancel EXCEPT ![c] = rec]
    BY <1>0, <1>3, <2>2 DEF CancelRow
  <2>4. rec \in CancelRecord /\ rec.order = i
    <3>1. orders[i].remaining \in Nat
      BY <1>2, RowFields
    <3>2. QED
      BY <1>0, <1>2, <2>2, <3>1 DEF CancelRecord
  <2>5. CancelTypes'
    BY <1>2, <2>1, <2>3, <2>4, CancelTyped
  <2>6. Funds'
    BY <1>1, <2>1, CancelsAndFundsKept
  <2>7. Book' /\ Rest'
    BY <1>1, <2>1 DEF MatchInv, Book, Rest
  <2>8. \A j \in DOMAIN orders : orders[j].status = "NONE" => orders'[j].status = "NONE"
    <3>1. orders[i].status # "NONE"
      BY <1>2 DEF Visible
    <3>2. QED
      BY <2>1, <3>1
  <2>9. QED
    BY <1>1, <2>1, <2>5, <2>6, <2>7, <2>8, CancelMoves
<1>4. CASE ~Live(orders[i])
  <2>1. orders' = orders /\ cancel' = [cancel EXCEPT ![c] = Idle]
    BY <1>0, <1>4 DEF CancelRow
  <2>2. Book' /\ Funds' /\ Rest'
    BY <1>1, <2>1 DEF MatchInv, Book, Funds, Rest, Visible
  <2>3. QED
    BY <1>1, <2>1, <2>2, IdleCancel, CancelOnly
<1>5. QED
  BY <1>3, <1>4

LEMMA UnlockKeeps ==
    ASSUME MatchInv, NEW c \in Canceller, Unlock(c)
    PROVE  MatchInv'
<1>0. PICK i, n : i = cancel[c].order /\ n = cancel[c].amount
  OBVIOUS
<1>1. /\ cancel[c].pc = "cancelled" /\ unlocked' = [unlocked EXCEPT ![i] = unlocked[i] + n]
      /\ cancel' = [cancel EXCEPT ![c] = Idle]
      /\ UNCHANGED <<orders, trades, book, at, ids, entries, seen, rows, fills, failures, serial>>
  BY <1>0 DEF Unlock, taker
<1>2. n \in Nat /\ i \in Id /\ Visible(i)
  BY <1>0, <1>1, CancelFacts DEF CancelRecord
<1>3. Funds'
  <2>1. unlocked \in [Id -> Nat] /\ \A k \in Id : unlocked[k] # 0 => Visible(k)
    BY DEF MatchInv, Funds
  <2>2. unlocked' \in [Id -> Nat] /\ \A k \in Id : unlocked'[k] # 0 => Visible(k)
    BY <1>1, <1>2, <2>1
  <2>3. QED
    BY <1>1, <2>2 DEF Funds, Visible
<1>4. Book' /\ Rest'
  BY <1>1 DEF MatchInv, Book, Rest
<1>5. QED
  BY <1>1, <1>3, <1>4, IdleCancel, CancelOnly

LEMMA CancelFailsKeeps ==
    ASSUME MatchInv, NEW c \in Canceller, CancelFails(c)
    PROVE  MatchInv'
<1>1. /\ failures' = failures + 1 /\ serial' = FALSE /\ cancel' = [cancel EXCEPT ![c] = Idle]
      /\ UNCHANGED <<orders, trades, book, at, ids, entries, seen, rows, fills, unlocked>>
  BY DEF CancelFails, taker
<1>2. Book' /\ Funds' /\ Rest'
  <2>1. serial' \in BOOLEAN
    BY <1>1
  <2>2. failures' \in Nat
    BY <1>1 DEF MatchInv, Rest
  <2>3. QED
    BY <1>1, <2>1, <2>2 DEF MatchInv, Book, Funds, Rest, Visible
<1>3. QED
  BY <1>1, <1>2, IdleCancel, CancelOnly

LEMMA RestartKeeps ==
    ASSUME MatchInv, Restart
    PROVE  MatchInv'
<1>1. /\ failures' = failures + 1 /\ serial' = (serial /\ Active = 0)
      /\ UNCHANGED <<orders, trades, unlocked>>
  BY DEF Restart
<1>2. /\ at' = [i \in Id |-> IF i \in Placing THEN "aborted" ELSE at[i]]
      /\ ids' = [i \in Id |-> << >>] /\ entries' = [i \in Id |-> << >>]
      /\ seen' = [i \in Id |-> 0] /\ fills' = [i \in Id |-> << >>]
      /\ rows' = [i \in Id |-> EmptyFunction]
  BY DEF Restart
<1>3. Table /\ Book /\ TakerTypes /\ CancelTypes /\ Funds /\ Rest
  BY DEF MatchInv
<1>4. TakerTypes'
  <2>1. at' \in [Id -> Stage]
    BY <1>2, <1>3 DEF TakerTypes, Stage
  <2>2. /\ ids' \in [Id -> Seq(Id)] /\ entries' \in [Id -> Seq(EntryRecord)]
        /\ fills' \in [Id -> Seq(FillRecord)]
    BY <1>2
  <2>3. seen' \in [Id -> Nat] /\ rows' = [i \in Id |-> rows'[i]]
    BY <1>2
  <2>4. QED
    BY <2>1, <2>2, <2>3 DEF TakerTypes
<1>5. CancelTypes'
  <2>1. cancel' = [c \in Canceller |-> Idle]
    BY DEF Restart
  <2>2. QED
    BY <2>1, IdleCancel DEF CancelTypes, CancelRecord, Cancelling
<1>6. Book'
  <2>1. /\ DOMAIN book' = DOMAIN book \cup DOMAIN Rehydrate
        /\ \A i \in DOMAIN book' : book'[i] = IF i \in DOMAIN Rehydrate THEN Rehydrate[i] ELSE book[i]
    BY DEF Restart
  <2>2. /\ DOMAIN Rehydrate \subseteq DOMAIN orders
        /\ \A i \in DOMAIN Rehydrate : Live(orders[i]) /\ Rehydrate[i] = orders[i].remaining
    BY DEF Rehydrate
  <2>3. \A i \in DOMAIN Rehydrate : Rehydrate[i] \in Nat \ {0}
    <3> TAKE i \in DOMAIN Rehydrate
    <3>1. orders[i] \in Row /\ RowOK(orders[i])
      BY <1>3, <2>2, OrderLengths
    <3>2. QED
      BY <2>2, <3>1, RowFields DEF RowOK
  <2>4. QED
    BY <1>1, <1>3, <2>1, <2>2, <2>3 DEF Book
<1>7. \A i \in Id : TakerOK(i)'
  <2> TAKE i \in Id
  <2>1. Progress(i) /\ at[i] \in Stage
    BY <1>3 DEF MatchInv, TakerOK, TakerTypes
  <2>2. /\ at'[i] = IF i \in Placing THEN "aborted" ELSE at[i]
        /\ ids'[i] = << >> /\ entries'[i] = << >> /\ fills'[i] = << >> /\ DOMAIN rows'[i] = {}
    BY <1>2 DEF EmptyFunction
  <2>3. DOMAIN ids'[i] = {} /\ DOMAIN entries'[i] = {}
    BY <2>2
  <2>4. Queue(i)' /\ OwnRows(i)'
    BY <2>2, <2>3 DEF Queue, OwnRows
  <2>5. at'[i] \in {"new", "done", "aborted"} /\ (at'[i] = "new" <=> at[i] = "new")
        /\ (at'[i] = "done" <=> at[i] = "done")
    BY <2>1, <2>2 DEF Placing, Stage
  <2>6. at'[i] # "new" => Left(i)' \in Nat
    <3> HAVE at'[i] # "new"
    <3>1. orders[i].amount \in Nat
      BY <2>5, TakerFacts
    <3>2. Filled(fills'[i]) = 0
      BY <2>2, FilledEmpty
    <3>3. Left(i)' = orders'[i].amount - Filled(fills'[i])
      BY DEF Left, Filled
    <3>4. QED
      BY <1>1, <3>1, <3>2, <3>3
  <2>7. Progress(i)'
    BY <1>1, <2>1, <2>2, <2>5, <2>6 DEF Progress
  <2>8. QED
    BY <2>4, <2>7 DEF TakerOK
<1>8. Table' /\ Funds' /\ Rest'
  <2>1. serial' \in BOOLEAN
    BY <1>1
  <2>2. failures' \in Nat
    BY <1>1, <1>3 DEF Rest
  <2>3. QED
    BY <1>1, <1>3, <2>1, <2>2 DEF Table, Funds, Rest, Visible
<1>9. QED
  BY <1>4, <1>5, <1>6, <1>7, <1>8 DEF MatchInv

-----------------------------------------------------------------------------

LEMMA InitMatch == MatchingInit => MatchInv
<1> SUFFICES ASSUME MatchingInit PROVE MatchInv
  OBVIOUS
<1>1. Table /\ Book /\ Funds
  BY RequestAssumption DEF MatchingInit, Table, Book, Funds, EmptyFunction
<1>2. TakerTypes
  <2>1. at \in [Id -> Stage]
    BY DEF MatchingInit, Stage
  <2>2. /\ ids \in [Id -> Seq(Id)] /\ entries \in [Id -> Seq(EntryRecord)]
        /\ fills \in [Id -> Seq(FillRecord)]
    BY DEF MatchingInit
  <2>3. seen \in [Id -> Nat] /\ rows = [i \in Id |-> rows[i]]
    BY DEF MatchingInit
  <2>4. QED
    BY <2>1, <2>2, <2>3 DEF TakerTypes
<1>3. CancelTypes
  BY IdleCancel DEF MatchingInit, CancelTypes, CancelRecord, Cancelling
<1>4. Rest
  BY DEF MatchingInit, Rest
<1>5. \A i \in Id : TakerOK(i)
  <2> TAKE i \in Id
  <2>1. /\ at[i] = "new" /\ ids[i] = << >> /\ entries[i] = << >> /\ fills[i] = << >>
        /\ DOMAIN rows[i] = {} /\ DOMAIN orders = {}
    BY DEF MatchingInit, EmptyFunction
  <2>2. DOMAIN ids[i] = {} /\ DOMAIN entries[i] = {}
    BY <2>1
  <2>3. QED
    BY <2>1, <2>2 DEF TakerOK, Progress, Queue, OwnRows
<1>6. QED
  BY <1>1, <1>2, <1>3, <1>4, <1>5 DEF MatchInv

LEMMA StutterMatch ==
    ASSUME MatchInv, UNCHANGED matchingVars
    PROVE  MatchInv'
<1>1. UNCHANGED <<orders, trades, book, at, ids, entries, seen, rows, fills, cancel, unlocked,
                  failures, serial>>
  BY DEF matchingVars
<1>2. Table' /\ Book' /\ TakerTypes' /\ CancelTypes' /\ Funds' /\ Rest'
  BY <1>1 DEF MatchInv, Table, Book, TakerTypes, CancelTypes, Funds, Rest, Visible, Cancelling
<1>3. TermsKept
  BY <1>1, TermsSame
<1>4. QED
  BY <1>1, <1>2, <1>3, CancelMoves

LEMMA NextMatch == MatchInv /\ [MatchingNext]_matchingVars => MatchInv'
<1> SUFFICES ASSUME MatchInv, [MatchingNext]_matchingVars PROVE MatchInv'
  OBVIOUS
<1>1. ASSUME NEW r \in Request, PlaceOrder(r) PROVE MatchInv'
  BY <1>1, PlaceOrderKeeps
<1>2. ASSUME NEW i \in Id,
             \/ ReadBook(i) \/ ReadDetails(i) \/ FindMaker(i) \/ UpdateMaker(i)
             \/ UpdateBook(i) \/ AddTaker(i) \/ CommitOrder(i) \/ RollbackOrder(i)
      PROVE MatchInv'
  BY <1>2, ReadBookKeeps, ReadDetailsKeeps, FindMakerKeeps, UpdateMakerKeeps, UpdateBookKeeps,
     AddTakerKeeps, CommitOrderKeeps, RollbackOrderKeeps
<1>3. ASSUME NEW c \in Canceller,
             \/ \E i \in Id : BeginCancel(c, i)
             \/ RemoveOrder(c) \/ CancelRow(c) \/ Unlock(c) \/ CancelFails(c)
      PROVE MatchInv'
  BY <1>3, BeginCancelKeeps, RemoveOrderKeeps, CancelRowKeeps, UnlockKeeps, CancelFailsKeeps
<1>4. CASE Restart
  BY <1>4, RestartKeeps
<1>5. CASE UNCHANGED matchingVars
  BY <1>5, StutterMatch
<1>6. QED
  BY <1>1, <1>2, <1>3, <1>4, <1>5 DEF MatchingNext

\* The makers a taker still has to match lie ahead of it in the order of the book,
\* and those whose rows it holds behind it, whatever other requests do.
THEOREM MatchInvariant == MatchingSpec => []MatchInv
<1>1. MatchingInit => MatchInv
  BY InitMatch
<1>2. MatchInv /\ [MatchingNext]_matchingVars => MatchInv'
  BY NextMatch
<1>3. QED
  BY <1>1, <1>2, PTL DEF MatchingSpec

\* No amount is ever negative and no transaction holds a row that is not committed,
\* even where transactions that overlap overwrite each other's amounts.
THEOREM MatchingTypes == MatchingSpec => []MatchingTypeOK
<1>1. MatchInv => MatchingTypeOK
  <2> SUFFICES ASSUME MatchInv PROVE MatchingTypeOK
    OBVIOUS
  <2>1. Table /\ Book /\ TakerTypes /\ CancelTypes /\ Funds /\ Rest
    BY DEF MatchInv
  <2>2. \A i \in Id : /\ at[i] = "new" <=> i \notin DOMAIN orders
                      /\ \A j \in DOMAIN rows[i] : rows[i][j] \in Row /\ (j = i \/ Visible(j))
    BY DEF MatchInv, TakerOK, Progress, OwnRows
  <2>3. QED
    BY <2>1, <2>2 DEF MatchingTypeOK, Table, Book, TakerTypes, CancelTypes, Funds, Rest,
                      EntryRecord, FillRecord
<1>2. QED
  BY <1>1, MatchInvariant, PTL

-----------------------------------------------------------------------------
(***************************************************************************)
(* Nobody waits in a circle. Whoever waits for a row waits for a taker of  *)
(* its own side whose next maker comes later in the book; of any takers,   *)
(* one has a next maker that no other's comes after.                       *)
(***************************************************************************)

\* No element of T is without a successor: T is not finite, or R is not an order.
LEMMA LastElement ==
    ASSUME NEW T, IsFiniteSet(T), T # {}, NEW R, R \subseteq T \X T,
           \A x \in T : <<x, x>> \notin R,
           \A x, y, z \in T : <<x, y>> \in R /\ <<y, z>> \in R => <<x, z>> \in R
    PROVE  \E x \in T : \A y \in T : <<x, y>> \notin R
<1> DEFINE Family == {s \in SUBSET T : s # {} /\ \A x \in s : \E y \in s : <<x, y>> \in R}
<1> SUFFICES ASSUME \A x \in T : \E y \in T : <<x, y>> \in R PROVE FALSE
  OBVIOUS
<1>1. T \in Family
  OBVIOUS
<1> HIDE DEF Family
<1>2. PICK s \in Family : \A t \in Family : t \subseteq s => t = s
  BY <1>1, LeastSet
<1> USE DEF Family
<1>3. PICK x \in s : x \in T
  OBVIOUS
<1> DEFINE t == {y \in s : <<x, y>> \in R}
<1>4. t \in Family
  <2>1. t # {} /\ t \subseteq T
    BY <1>2
  <2>2. \A y \in t : \E z \in t : <<y, z>> \in R
    <3> TAKE y \in t
    <3>1. PICK z \in s : <<y, z>> \in R
      BY <1>2
    <3>2. <<x, z>> \in R
      BY <1>2, <1>3, <3>1
    <3>3. QED
      BY <3>1, <3>2
  <2> HIDE DEF t
  <2>3. QED
    BY <2>1, <2>2
<1>5. t \subseteq s /\ t # s
  BY <1>3
<1> HIDE DEF Family, t
<1>6. QED
  BY <1>2, <1>4, <1>5

\* The next maker of i comes before that of j, on the same side of the book.
Earlier == {p \in Placing \X Placing :
                /\ orders[p[1]].side = orders[p[2]].side
                /\ Ahead(NextMaker(p[1]), NextMaker(p[2]))}

LEMMA WaitsForLater ==
    ASSUME MatchInv, NEW i \in Placing, NEW j \in Placing, WaitsFor(i, j), at[j] = "updating"
    PROVE  <<i, j>> \in Earlier
<1>1. i \in Id /\ j \in Id /\ at[i] = "updating" /\ at[j] = "updating" /\ NextMaker(i) \in DOMAIN rows[j]
  BY DEF WaitsFor, NextMaker, Placing
<1>2. TakerOK(i) /\ TakerOK(j) /\ TakerTypes
  BY <1>1 DEF MatchInv
<1>3. entries[i] # << >> /\ entries[j] # << >>
  BY <1>1, <1>2 DEF TakerOK, Progress
<1>4. /\ NextMaker(i) = entries[i][1].order /\ 1 \in DOMAIN entries[i]
      /\ NextMaker(j) = entries[j][1].order /\ 1 \in DOMAIN entries[j]
  BY <1>1, <1>2, <1>3, HeadFacts
<1>5. orders[NextMaker(i)].side # orders[i].side
  BY <1>2, <1>4 DEF TakerOK, Queue
<1>6. NextMaker(i) # j /\ orders[NextMaker(i)].side # orders[j].side
  BY <1>1, <1>2 DEF TakerOK, OwnRows
<1>7. Ahead(NextMaker(i), NextMaker(j))
  BY <1>1, <1>2, <1>4, <1>6 DEF TakerOK, Queue
<1>8. orders[i].side = orders[j].side
  <2>1. /\ orders[i].side \in {"BUY", "SELL"} /\ orders[j].side \in {"BUY", "SELL"}
        /\ orders[NextMaker(i)].side \in {"BUY", "SELL"}
    <3>1. i \in DOMAIN orders /\ j \in DOMAIN orders /\ NextMaker(i) \in DOMAIN orders /\ Table
      BY <1>1, <1>2, <1>4 DEF TakerOK, Progress, Queue, MatchInv
    <3>2. QED
      BY <3>1, OrderLengths, RowFields
  <2>2. QED
    BY <1>5, <1>6, <2>1
<1>9. QED
  BY <1>7, <1>8 DEF Earlier

LEMMA EarlierOrders ==
    ASSUME MatchInv, NEW S \in SUBSET Placing, \A i \in S : at[i] = "updating"
    PROVE  /\ \A i \in S : <<i, i>> \notin Earlier
           /\ \A i, j, k \in S : <<i, j>> \in Earlier /\ <<j, k>> \in Earlier => <<i, k>> \in Earlier
<1> DEFINE m(i) == NextMaker(i)
<1>1. \A i \in S : /\ m(i) \in DOMAIN orders /\ m(i) \in Nat
                   /\ orders[m(i)].price \in Nat /\ orders[m(i)].side \in {"BUY", "SELL"}
                   /\ orders[i].side \in {"BUY", "SELL"} /\ orders[m(i)].side # orders[i].side
  <2> TAKE i \in S
  <2>1. i \in Id /\ at[i] = "updating" /\ TakerOK(i) /\ TakerTypes /\ Table
    BY DEF Placing, MatchInv
  <2>2. entries[i] # << >> /\ i \in DOMAIN orders
    BY <2>1 DEF TakerOK, Progress
  <2>3. m(i) = entries[i][1].order /\ 1 \in DOMAIN entries[i]
    BY <2>1, <2>2, HeadFacts
  <2>4. m(i) \in DOMAIN orders /\ orders[m(i)].side # orders[i].side
    BY <2>1, <2>3 DEF TakerOK, Queue
  <2> HIDE DEF m
  <2>5. QED
    BY <2>1, <2>2, <2>4, OrderLengths, RowFields
<1>2. \A i, j \in S : <<i, j>> \in Earlier <=>
          orders[i].side = orders[j].side /\ Ahead(m(i), m(j))
  BY DEF Earlier
<1> HIDE DEF m
<1>3. \A i, j \in S : orders[i].side = orders[j].side => orders[m(i)].side = orders[m(j)].side
  BY <1>1
<1>4. \A i \in S : ~Ahead(m(i), m(i))
  BY <1>1, BeforeOrders DEF Ahead
<1>5. \A i, j, k \in S :
          /\ orders[i].side = orders[j].side /\ orders[j].side = orders[k].side
          /\ Ahead(m(i), m(j)) /\ Ahead(m(j), m(k))
          => Ahead(m(i), m(k))
  BY <1>1, <1>3, BeforeOrders DEF Ahead
<1>6. QED
  BY <1>2, <1>4, <1>5

\* Transactions that match side by side never deadlock on the rows of makers, because
\* executeMatch updates them in the order of the book.
THEOREM MatchingNoWaitCycle == MatchingSpec => []NoWaitCycle
<1>1. MatchInv => NoWaitCycle
  <2> SUFFICES ASSUME MatchInv, NEW S \in SUBSET Placing, S # {}
               PROVE  \E i \in S : \A j \in S : ~WaitsFor(i, j)
    BY DEF NoWaitCycle
  <2>1. CASE \E i \in S : at[i] # "updating"
    BY <2>1 DEF WaitsFor
  <2>2. CASE \A i \in S : at[i] = "updating"
    <3> DEFINE R == Earlier \cap (S \X S)
    <3>1. IsFiniteSet(S)
      <4>1. IsFiniteSet(Id) /\ S \subseteq Id
        BY RequestAssumption, FS_Interval DEF Id, Placing
      <4>2. QED
        BY <4>1, FS_Subset
    <3>2. /\ \A i \in S : <<i, i>> \notin R
          /\ \A i, j, k \in S : <<i, j>> \in R /\ <<j, k>> \in R => <<i, k>> \in R
      BY <2>2, EarlierOrders
    <3> HIDE DEF R
    <3>3. R \subseteq S \X S
      BY DEF R
    <3>4. PICK i \in S : \A j \in S : <<i, j>> \notin R
      BY <3>1, <3>2, <3>3, LastElement
    <3>5. \A j \in S : ~WaitsFor(i, j)
      <4> SUFFICES ASSUME NEW j \in S, WaitsFor(i, j) PROVE FALSE
        OBVIOUS
      <4>1. <<i, j>> \in Earlier
        BY <2>2, WaitsForLater
      <4>2. QED
        BY <3>4, <4>1 DEF R
    <3>6. QED
      BY <3>5
  <2>3. QED
    BY <2>1, <2>2
<1>2. QED
  BY <1>1, MatchInvariant, PTL

-----------------------------------------------------------------------------
(***************************************************************************)
(* One request at a time. As long as none has overlapped with another or   *)
(* failed, the book is at every moment what the transaction under way sees *)
(* of the table, but for the order it is about to change.                  *)
(***************************************************************************)

\* The book has order j as its row says.
Booked(j, row) ==
    IF Live(row) THEN j \in DOMAIN book /\ book[j] = row.remaining ELSE j \notin DOMAIN book

\* The row of j as the transaction of i sees it; while that of a maker is updated and the
\* book not yet, as it was.
RowSeen(i, j) ==
    IF j \in DOMAIN rows[i] /\ ~(at[i] = "booking" /\ j = NextMaker(i)) THEN rows[i][j] ELSE orders[j]

\* Row o after a trade of quantity q.
Settled(o, q) == Executed(o, o.filled + q, o.remaining - q)

MakersOf(i) == {fills[i][n].maker : n \in DOMAIN fills[i]}

\* The rows it has updated are those of the makers it has matched.
MatchedRows(i) ==
    DOMAIN rows[i] = MakersOf(i) \cup (IF at[i] = "booking" THEN {NextMaker(i)} ELSE {})
                                 \cup (IF at[i] = "committing" THEN {i} ELSE {})

\* Its fills are trades with live orders, in the order of the book.
MatchedFills(i) ==
    /\ \A n \in DOMAIN fills[i] :
          LET f == fills[i][n]
          IN  /\ f.maker \in DOMAIN orders /\ Live(orders[f.maker]) /\ f.price = orders[f.maker].price
              /\ f.maker # i /\ f.maker \in DOMAIN rows[i]
              /\ rows[i][f.maker] = Settled(orders[f.maker], f.quantity)
    /\ \A m, n \in DOMAIN fills[i] : m < n => Ahead(fills[i][m].maker, fills[i][n].maker)
    /\ \A m \in DOMAIN fills[i], n \in DOMAIN entries[i] : Ahead(fills[i][m].maker, entries[i][n].order)

\* What it has read is still so.
FreshReads(i) ==
    /\ \A n \in DOMAIN ids[i] : Live(orders[ids[i][n]])
    /\ \A n \in DOMAIN entries[i] : /\ Live(orders[entries[i][n].order])
                                    /\ entries[i][n].remaining = orders[entries[i][n].order].remaining
    /\ at[i] = "updating" => seen[i] = orders[NextMaker(i)].filled
    /\ at[i] = "booking" => rows[i][NextMaker(i)] = Settled(orders[NextMaker(i)], MatchAmount(i))
    /\ at[i] = "committing" => rows[i][i] = Executed(orders[i], orders[i].amount - Left(i), Left(i))

TakerAlone(i) ==
    /\ \A j \in DOMAIN orders : Booked(j, RowSeen(i, j))
    /\ MatchedRows(i) /\ MatchedFills(i) /\ FreshReads(i)

CancelAlone(c) ==
    LET o == cancel[c].order
    IN  /\ cancel[c].pc \in {"found", "removed"} => Live(orders[o])
        /\ \A j \in DOMAIN orders :
              IF cancel[c].pc = "removed" /\ j = o THEN j \notin DOMAIN book ELSE Booked(j, orders[j])
        /\ cancel[c].pc = "cancelled" => /\ orders[o].status = "CANCELLED"
                                         /\ cancel[c].amount = orders[o].remaining

Alone ==
    /\ \A i, k \in Placing : i = k
    /\ \A c, d \in Cancelling : c = d
    /\ Placing = {} \/ Cancelling = {}
    /\ book = [j \in DOMAIN book |-> book[j]]
    /\ \A i \in Placing : TakerAlone(i)
    /\ \A c \in Cancelling : CancelAlone(c)
    /\ Placing = {} /\ Cancelling = {} => \A j \in DOMAIN orders : Booked(j, orders[j])

LEMMA ActiveZero == Active = 0 <=> Placing = {} /\ Cancelling = {}
<1>1. IsFiniteSet(Placing) /\ IsFiniteSet(Cancelling)
  <2>1. IsFiniteSet(Id) /\ Placing \subseteq Id /\ Cancelling \subseteq Canceller
    BY RequestAssumption, FS_Interval DEF Id, Placing, Cancelling
  <2>2. QED
    BY <2>1, RequestAssumption, FS_Subset
<1>2. /\ Cardinality(Placing) \in Nat /\ (Cardinality(Placing) = 0 <=> Placing = {})
      /\ Cardinality(Cancelling) \in Nat /\ (Cardinality(Cancelling) = 0 <=> Cancelling = {})
  BY <1>1, FS_CardinalityType, FS_EmptySet
<1>3. QED
  BY <1>2 DEF Active

LEMMA AheadNotSelf ==
    ASSUME Table, NEW j \in DOMAIN orders
    PROVE  ~Ahead(j, j)
<1>1. orders[j].price \in Nat /\ j \in Nat
  BY OrderLengths, RowFields
<1>2. QED
  BY <1>1, BeforeOrders DEF Ahead

\* A live row of the table is one that is seen, with something left.
LEMMA LiveRow ==
    ASSUME Table, NEW j \in DOMAIN orders, Live(orders[j])
    PROVE  Visible(j) /\ orders[j].remaining \in Nat \ {0} /\ orders[j].filled \in Nat
           /\ orders[j] \in Row /\ orders[j].status # "CANCELLED"
<1>1. orders[j] \in Row /\ RowOK(orders[j])
  BY OrderLengths
<1>2. QED
  BY <1>1, RowFields DEF RowOK, Live, Visible

LEMMA LiveExecuted ==
    ASSUME NEW o \in Row, NEW f \in Nat, NEW r \in Nat, NEW s, s = Executed(o, f, r)
    PROVE  /\ s \in Row /\ SameTerms(o, s) /\ s.filled = f /\ s.remaining = r
           /\ s.status \in {"OPEN", "PARTIALLY_FILLED", "FILLED"}
           /\ Live(s) <=> r # 0
<1>1. /\ s \in Row /\ SameTerms(o, s) /\ s.filled = f /\ s.remaining = r
      /\ s.status = StatusOf(f, r)
  BY ExecutedRow
<1>2. s.status \in {"OPEN", "PARTIALLY_FILLED", "FILLED"} /\ (Live(s) <=> r # 0)
  BY <1>1 DEF StatusOf, Live
<1>3. QED
  BY <1>1, <1>2

LEMMA SettledRow ==
    ASSUME NEW o \in Row, NEW q \in Nat, NEW s, s = Settled(o, q)
    PROVE  o.remaining - q \in Nat =>
           /\ s \in Row /\ SameTerms(o, s) /\ s.filled = o.filled + q /\ s.remaining = o.remaining - q
           /\ s.status \in {"OPEN", "PARTIALLY_FILLED", "FILLED"}
           /\ Live(s) <=> o.remaining # q
<1>1. \A f, r \in Nat : s = Executed(o, f, r) =>
           /\ s \in Row /\ SameTerms(o, s) /\ s.filled = f /\ s.remaining = r
           /\ s.status \in {"OPEN", "PARTIALLY_FILLED", "FILLED"}
           /\ Live(s) <=> r # 0
  BY LiveExecuted
<1> SUFFICES ASSUME o.remaining - q \in Nat
             PROVE  /\ s \in Row /\ SameTerms(o, s) /\ s.filled = o.filled + q
                    /\ s.remaining = o.remaining - q
                    /\ s.status \in {"OPEN", "PARTIALLY_FILLED", "FILLED"}
                    /\ Live(s) <=> o.remaining # q
  OBVIOUS
<1>2. PICK f \in Nat, r \in Nat : f = o.filled + q /\ r = o.remaining - q
  BY RowFields
<1>3. s = Executed(o, f, r)
  BY <1>2, Zenon DEF Settled
<1>4. /\ s \in Row /\ SameTerms(o, s) /\ s.filled = f /\ s.remaining = r
      /\ s.status \in {"OPEN", "PARTIALLY_FILLED", "FILLED"}
      /\ Live(s) <=> r # 0
  BY <1>1, <1>3, Zenon
<1>5. o.remaining \in Nat
  BY RowFields
<1>6. QED
  BY <1>2, <1>4, <1>5

\* What an entry says of a maker.
LEMMA NextMakerFacts ==
    ASSUME MatchInv, NEW i \in Id, TakerAlone(i), at[i] # "new", entries[i] # << >>,
           NEW j, j = NextMaker(i)
    PROVE  /\ j \in DOMAIN orders /\ j # i /\ Live(orders[j]) /\ Visible(j) /\ orders[j] \in Row
           /\ Head(entries[i]).remaining = orders[j].remaining
           /\ j = entries[i][1].order /\ 1 \in DOMAIN entries[i]
           /\ j \notin MakersOf(i)
           /\ at[i] # "booking" => j \notin DOMAIN rows[i]
<1>1. TakerOK(i) /\ TakerTypes /\ Table
  BY DEF MatchInv
<1>2. j = entries[i][1].order /\ 1 \in DOMAIN entries[i] /\ Head(entries[i]) = entries[i][1]
  BY <1>1, HeadFacts
<1>3. j \in DOMAIN orders /\ orders[j].side # orders[i].side /\ Live(orders[j])
      /\ Head(entries[i]).remaining = orders[j].remaining
  BY <1>1, <1>2 DEF TakerOK, Queue, TakerAlone, FreshReads
<1>4. j \notin MakersOf(i)
  <2>1. \A n \in DOMAIN fills[i] : Ahead(fills[i][n].maker, j)
    BY <1>2 DEF TakerAlone, MatchedFills
  <2>2. QED
    BY <1>1, <1>3, <2>1, AheadNotSelf DEF MakersOf
<1>5. at[i] # "booking" => j \notin DOMAIN rows[i]
  BY <1>1, <1>2, <1>3, <1>4 DEF TakerAlone, MatchedRows
<1>6. QED
  BY <1>1, <1>2, <1>3, <1>4, <1>5, LiveRow

-----------------------------------------------------------------------------

LEMMA ReadBookAlone ==
    ASSUME MatchInv, NEW i \in Id, TakerAlone(i), ReadBook(i)
    PROVE  TakerAlone(i)'
<1>1. /\ at[i] = "reading" /\ at' = [at EXCEPT ![i] = IF Opposing(i) = {} THEN "matching" ELSE "details"]
      /\ UNCHANGED <<orders, book, entries, seen, rows, fills>>
  BY DEF ReadBook, Goto
<1>2. TakerOK(i) /\ TakerTypes /\ MatchInv' /\ TakerTypes' /\ Book
  BY ReadBookKeeps DEF MatchInv
<1>3. at'[i] \in {"matching", "details"}
  BY <1>1, <1>2 DEF TakerTypes
<1>4. DOMAIN rows[i] = {} /\ fills[i] = << >> /\ entries[i] = << >>
  BY <1>1, <1>2 DEF TakerOK, Progress
<1>5. \A n \in DOMAIN ids'[i] : ids'[i][n] \in Opposing(i)
  <2>1. PICK best \in BestFirst(Opposing(i)) :
            ids' = [ids EXCEPT ![i] = SubSeq(best, 1, IF Len(best) < Limit THEN Len(best) ELSE Limit)]
    BY DEF ReadBook
  <2>2. PICK n : n = IF Len(best) < Limit THEN Len(best) ELSE Limit
    OBVIOUS
  <2>3. best \in Seq(Id) /\ \A m \in DOMAIN best : best[m] \in Opposing(i)
    BY BestFacts
  <2>4. n \in 0 .. Len(best)
    <3>1. Len(best) \in Nat
      BY <2>3
    <3>2. QED
      BY <2>2, <3>1, RequestAssumption
  <2>5. ids'[i] = SubSeq(best, 1, n)
    BY <1>2, <2>1, <2>2 DEF TakerTypes
  <2>6. /\ DOMAIN SubSeq(best, 1, n) = 1 .. n /\ 1 .. n \subseteq DOMAIN best
        /\ \A m \in 1 .. n : SubSeq(best, 1, n)[m] = best[m]
    BY <2>3, <2>4, SubsequenceFacts
  <2>7. QED
    BY <2>3, <2>5, <2>6
<1>6. \A j \in Opposing(i) : j \in DOMAIN orders /\ j \in DOMAIN book
  BY <1>2 DEF Opposing, Book
<1>7. \A j \in DOMAIN orders : Booked(j, orders[j])
  BY <1>4 DEF TakerAlone, RowSeen
<1>8. \A n \in DOMAIN ids'[i] : Live(orders[ids'[i][n]])
  BY <1>5, <1>6, <1>7 DEF Booked
<1>9. FreshReads(i)'
  BY <1>1, <1>3, <1>4, <1>8 DEF FreshReads
<1>10. MatchedRows(i)' /\ MatchedFills(i)'
  BY <1>1, <1>3, <1>4 DEF MatchedRows, MatchedFills, MakersOf
<1>11. \A j \in DOMAIN orders : Booked(j, RowSeen(i, j))'
  BY <1>1, <1>4, <1>7 DEF RowSeen, Booked
<1>12. QED
  BY <1>1, <1>9, <1>10, <1>11 DEF TakerAlone

LEMMA ReadDetailsAlone ==
    ASSUME MatchInv, NEW i \in Id, TakerAlone(i), ReadDetails(i)
    PROVE  TakerAlone(i)'
<1>0. PICK j : j = Head(ids[i])
  OBVIOUS
<1> DEFINE reads == j \in DOMAIN book /\ orders[j].user # orders[i].user
           e == [order |-> j, remaining |-> book[j]]
<1>1. /\ at[i] = "details" /\ ids' = [ids EXCEPT ![i] = Tail(ids[i])]
      /\ entries' = [entries EXCEPT ![i] = IF reads THEN Append(entries[i], e) ELSE entries[i]]
      /\ at' = [at EXCEPT ![i] = IF Tail(ids[i]) = << >> THEN "matching" ELSE "details"]
      /\ UNCHANGED <<orders, book, seen, rows, fills>>
  BY <1>0 DEF ReadDetails, Goto
<1>2. TakerOK(i) /\ TakerTypes /\ Book /\ ids[i] \in Seq(Id) /\ entries[i] \in Seq(EntryRecord)
  BY DEF MatchInv, TakerTypes
<1>3. /\ at'[i] \in {"matching", "details"} /\ ids'[i] = Tail(ids[i])
      /\ entries'[i] = IF reads THEN Append(entries[i], e) ELSE entries[i]
  BY <1>1, <1>2 DEF TakerTypes
<1>4. DOMAIN rows[i] = {} /\ fills[i] = << >> /\ DOMAIN fills[i] = {} /\ ids[i] # << >>
  BY <1>1, <1>2 DEF TakerOK, Progress
<1>5. \A k \in DOMAIN orders : Booked(k, orders[k])
  BY <1>4 DEF TakerAlone, RowSeen
<1>6. /\ j = ids[i][1] /\ 1 \in DOMAIN ids[i]
      /\ \A n \in DOMAIN Tail(ids[i]) : Tail(ids[i])[n] = ids[i][n + 1] /\ n + 1 \in DOMAIN ids[i]
  BY <1>0, <1>2, <1>4, SequenceFacts
<1>7. j \in DOMAIN orders /\ Live(orders[j]) /\ book[j] = orders[j].remaining
  <2>1. j \in DOMAIN orders /\ Live(orders[j])
    BY <1>2, <1>6 DEF TakerOK, Queue, TakerAlone, FreshReads
  <2>2. QED
    BY <1>5, <2>1 DEF Booked
<1>8. \A n \in DOMAIN entries'[i] :
           \/ n \in DOMAIN entries[i] /\ entries'[i][n] = entries[i][n]
           \/ entries'[i][n].order = j /\ entries'[i][n].remaining = book[j]
  <2>1. CASE reads
    <3>1. e \in EntryRecord
      BY <1>2, <2>1, OrderLengths DEF EntryRecord, Book, MatchInv
    <3>2. e.order = j /\ e.remaining = book[j]
      OBVIOUS
    <3>3. entries'[i] = Append(entries[i], e)
      BY <1>3, <2>1
    <3> HIDE DEF e, reads
    <3>4. /\ DOMAIN Append(entries[i], e) = 1 .. Len(entries[i]) + 1
          /\ \A n \in DOMAIN entries[i] : Append(entries[i], e)[n] = entries[i][n]
          /\ Append(entries[i], e)[Len(entries[i]) + 1] = e
          /\ DOMAIN entries[i] = 1 .. Len(entries[i]) /\ Len(entries[i]) \in Nat
      BY <1>2, <3>1, AppendFacts
    <3>5. QED
      BY <3>2, <3>3, <3>4
  <2>2. CASE ~reads
    BY <1>3, <2>2
  <2>3. QED
    BY <2>1, <2>2
<1> HIDE DEF e, reads
<1>9. /\ \A n \in DOMAIN ids'[i] : Live(orders[ids'[i][n]])
      /\ \A n \in DOMAIN entries'[i] : /\ Live(orders[entries'[i][n].order])
                                       /\ entries'[i][n].remaining = orders[entries'[i][n].order].remaining
  <2>1. /\ \A n \in DOMAIN ids[i] : Live(orders[ids[i][n]])
        /\ \A n \in DOMAIN entries[i] : /\ Live(orders[entries[i][n].order])
                                        /\ entries[i][n].remaining = orders[entries[i][n].order].remaining
    BY DEF TakerAlone, FreshReads
  <2>2. \A n \in DOMAIN ids'[i] : n + 1 \in DOMAIN ids[i] /\ ids'[i][n] = ids[i][n + 1]
    BY <1>3, <1>6
  <2>3. QED
    BY <1>7, <1>8, <2>1, <2>2
<1>10. FreshReads(i)'
  BY <1>1, <1>3, <1>9 DEF FreshReads
<1>11. MatchedRows(i)' /\ MatchedFills(i)'
  BY <1>1, <1>3, <1>4 DEF MatchedRows, MatchedFills, MakersOf
<1>12. \A k \in DOMAIN orders : Booked(k, RowSeen(i, k))'
  BY <1>1, <1>4, <1>5 DEF RowSeen, Booked
<1>13. QED
  BY <1>1, <1>10, <1>11, <1>12 DEF TakerAlone

LEMMA FindMakerAlone ==
    ASSUME MatchInv, NEW i \in Id, TakerAlone(i), FindMaker(i)
    PROVE  TakerAlone(i)'
<1>0. PICK j : j = NextMaker(i)
  OBVIOUS
<1>1. /\ at[i] = "matching" /\ HasMatch(i) /\ at' = [at EXCEPT ![i] = "updating"]
      /\ seen' = [seen EXCEPT ![i] = IF Visible(j) THEN orders[j].filled ELSE 0]
      /\ UNCHANGED <<orders, book, ids, entries, rows, fills>>
  BY <1>0 DEF FindMaker, Goto, NextMaker
<1>2. TakerTypes /\ entries[i] # << >>
  BY <1>1 DEF MatchInv, HasMatch
<1>3. Visible(j)
  BY <1>0, <1>1, <1>2, NextMakerFacts
<1>4. at'[i] = "updating" /\ seen'[i] = orders[j].filled /\ NextMaker(i)' = j
  BY <1>0, <1>1, <1>2, <1>3 DEF TakerTypes, NextMaker
<1>5. FreshReads(i)'
  <2>1. /\ \A n \in DOMAIN ids[i] : Live(orders[ids[i][n]])
        /\ \A n \in DOMAIN entries[i] : /\ Live(orders[entries[i][n].order])
                                        /\ entries[i][n].remaining = orders[entries[i][n].order].remaining
    BY DEF TakerAlone, FreshReads
  <2>2. \A k : k = NextMaker(i)' => seen'[i] = orders[k].filled
    BY <1>4
  <2>3. seen'[i] = orders[NextMaker(i)'].filled
    BY <2>2
  <2>4. QED
    BY <1>1, <1>4, <2>1, <2>3 DEF FreshReads, NextMaker
<1>6. MatchedRows(i)' /\ MatchedFills(i)'
  BY <1>1, <1>4 DEF TakerAlone, MatchedRows, MatchedFills, MakersOf, Ahead
<1>7. \A k \in DOMAIN orders : Booked(k, RowSeen(i, k))'
  BY <1>1, <1>4 DEF TakerAlone, RowSeen, Booked
<1>8. QED
  BY <1>1, <1>5, <1>6, <1>7 DEF TakerAlone

LEMMA UpdateMakerAlone ==
    ASSUME MatchInv, NEW i \in Id, TakerAlone(i), UpdateMaker(i)
    PROVE  TakerAlone(i)'
<1>0. PICK j, q : j = NextMaker(i) /\ q = MatchAmount(i)
  OBVIOUS
<1> DEFINE row == Settled(orders[j], q)
<1>1. /\ at[i] = "updating" /\ at' = [at EXCEPT ![i] = "booking"]
      /\ rows' = [rows EXCEPT ![i] =
             IF Visible(j)
             THEN Set(rows[i], j, Executed(orders[j], seen[i] + q, Head(entries[i]).remaining - q))
             ELSE rows[i]]
      /\ UNCHANGED <<orders, book, ids, entries, seen, fills>>
  BY <1>0 DEF UpdateMaker, Goto, NextMaker
<1>2. TakerTypes /\ TakerOK(i)
  BY DEF MatchInv
<1>3. entries[i] # << >>
  BY <1>1, <1>2 DEF TakerOK, Progress
<1>4. /\ j \in DOMAIN orders /\ j # i /\ Live(orders[j]) /\ Visible(j)
      /\ Head(entries[i]).remaining = orders[j].remaining
      /\ j \notin MakersOf(i) /\ j \notin DOMAIN rows[i]
  BY <1>0, <1>1, <1>3, NextMakerFacts
<1>5. seen[i] = orders[j].filled
  BY <1>0, <1>1 DEF TakerAlone, FreshReads
<1>6. rows'[i] = Set(rows[i], j, row) /\ at'[i] = "booking"
  BY <1>1, <1>2, <1>4, <1>5 DEF TakerTypes, Settled
<1> HIDE DEF row
<1>7. /\ DOMAIN rows'[i] = DOMAIN rows[i] \cup {j} /\ rows'[i][j] = row
      /\ \A k \in DOMAIN rows[i] : k # j /\ rows'[i][k] = rows[i][k]
  BY <1>4, <1>6 DEF Set
<1>8. NextMaker(i)' = j /\ MatchAmount(i)' = q
  BY <1>0, <1>1 DEF NextMaker, MatchAmount, Left
<1>9. FreshReads(i)'
  <2>1. /\ \A n \in DOMAIN ids[i] : Live(orders[ids[i][n]])
        /\ \A n \in DOMAIN entries[i] : /\ Live(orders[entries[i][n].order])
                                        /\ entries[i][n].remaining = orders[entries[i][n].order].remaining
    BY DEF TakerAlone, FreshReads
  <2>2. \A k, a : k = NextMaker(i)' /\ a = MatchAmount(i)' => rows'[i][k] = Settled(orders[k], a)
    BY <1>7, <1>8 DEF row
  <2>3. rows'[i][NextMaker(i)'] = Settled(orders[NextMaker(i)'], MatchAmount(i)')
    BY <2>2
  <2>4. QED
    BY <1>1, <1>6, <2>1, <2>3 DEF FreshReads, NextMaker, Settled
<1>10. MatchedRows(i)'
  <2>1. MakersOf(i)' = MakersOf(i)
    BY <1>1 DEF MakersOf
  <2>2. DOMAIN rows[i] = MakersOf(i)
    BY <1>1 DEF TakerAlone, MatchedRows
  <2>3. QED
    BY <1>6, <1>7, <1>8, <2>1, <2>2 DEF MatchedRows
<1>11. MatchedFills(i)'
  <2>1. \A n \in DOMAIN fills[i] :
          LET f == fills[i][n]
          IN  /\ f.maker \in DOMAIN orders /\ Live(orders[f.maker]) /\ f.price = orders[f.maker].price
              /\ f.maker # i /\ f.maker \in DOMAIN rows'[i]
              /\ rows'[i][f.maker] = Settled(orders[f.maker], f.quantity)
    BY <1>7 DEF TakerAlone, MatchedFills
  <2>2. QED
    BY <1>1, <2>1 DEF TakerAlone, MatchedFills, Ahead, Settled
<1>12. \A k \in DOMAIN orders : Booked(k, RowSeen(i, k))'
  <2>1. \A k \in DOMAIN orders : Booked(k, RowSeen(i, k))
    BY DEF TakerAlone
  <2>2. \A k \in DOMAIN orders : RowSeen(i, k)' = RowSeen(i, k)
    BY <1>1, <1>6, <1>7, <1>8 DEF RowSeen
  <2>3. QED
    BY <1>1, <2>1, <2>2 DEF Booked
<1>13. QED
  BY <1>1, <1>9, <1>10, <1>11, <1>12 DEF TakerAlone

LEMMA UpdateBookAlone ==
    ASSUME MatchInv, NEW i \in Id, TakerAlone(i), UpdateBook(i)
    PROVE  TakerAlone(i)'
<1>0. PICK j, q : j = NextMaker(i) /\ q = MatchAmount(i)
  OBVIOUS
<1>p. PICK x : x = [maker |-> j, price |-> orders[j].price, quantity |-> q]
  OBVIOUS
<1>1. /\ at[i] = "booking" /\ at' = [at EXCEPT ![i] = "matching"]
      /\ book' = IF Head(entries[i]).remaining = q THEN Without(book, j)
                 ELSE IF j \in DOMAIN book THEN Set(book, j, Head(entries[i]).remaining - q)
                 ELSE book
      /\ fills' = [fills EXCEPT ![i] = Append(fills[i], x)]
      /\ entries' = [entries EXCEPT ![i] = Tail(entries[i])]
      /\ UNCHANGED <<orders, ids, seen, rows>>
  BY <1>0, <1>p DEF UpdateBook, Goto, NextMaker
<1>2. TakerTypes /\ TakerOK(i) /\ Table
  BY DEF MatchInv
<1>3. /\ entries[i] # << >> /\ q \in Nat \ {0} /\ Head(entries[i]).remaining - q \in Nat
  BY <1>0, <1>1, MatchAmountFacts
<1>4. /\ j \in DOMAIN orders /\ j # i /\ Live(orders[j]) /\ Visible(j) /\ orders[j] \in Row
      /\ Head(entries[i]).remaining = orders[j].remaining
      /\ j = entries[i][1].order /\ 1 \in DOMAIN entries[i] /\ j \notin MakersOf(i)
  BY <1>0, <1>1, <1>3, NextMakerFacts
<1>5. PICK row : row = Settled(orders[j], q)
  OBVIOUS
<1>6. row = rows[i][j]
  BY <1>0, <1>1, <1>5 DEF TakerAlone, FreshReads
<1>7. row.remaining = orders[j].remaining - q /\ (Live(row) <=> orders[j].remaining # q)
  <2>1. PICK o \in Row : o = orders[j]
    BY <1>4
  <2>2. o.remaining - q \in Nat /\ row = Settled(o, q)
    BY <1>3, <1>4, <1>5, <2>1
  <2>3. row.remaining = o.remaining - q /\ (Live(row) <=> o.remaining # q)
    BY <1>3, <2>2, SettledRow
  <2>4. QED
    BY <2>1, <2>3
<1>8. x.maker = j /\ x.price = orders[j].price /\ x.quantity = q /\ x \in FillRecord
  <2>1. j \in Id /\ orders[j].price \in Nat
    BY <1>2, <1>4, OrderLengths, RowFields
  <2>2. QED
    BY <1>3, <1>p, <2>1 DEF FillRecord
<1>9. /\ fills[i] \in Seq(FillRecord) /\ entries[i] \in Seq(EntryRecord)
      /\ at'[i] = "matching" /\ fills'[i] = Append(fills[i], x) /\ entries'[i] = Tail(entries[i])
  BY <1>1, <1>2 DEF TakerTypes
<1>10. /\ Len(fills[i]) \in Nat /\ DOMAIN fills[i] = 1 .. Len(fills[i])
       /\ DOMAIN fills'[i] = 1 .. Len(fills[i]) + 1
       /\ \A n \in DOMAIN fills[i] : fills'[i][n] = fills[i][n]
       /\ fills'[i][Len(fills[i]) + 1] = x
  <2>1. fills[i] \in Seq(FillRecord) /\ x \in FillRecord /\ fills'[i] = Append(fills[i], x)
    BY <1>8, <1>9
  <2>2. QED
    BY <2>1, AppendFacts
<1>11. \A n \in DOMAIN entries'[i] : n + 1 \in DOMAIN entries[i] /\ entries'[i][n] = entries[i][n + 1]
                                     /\ n \in Nat \ {0}
  <2>1. /\ DOMAIN Tail(entries[i]) = 1 .. Len(entries[i]) - 1 /\ Len(entries[i]) \in Nat
        /\ \A n \in DOMAIN Tail(entries[i]) : Tail(entries[i])[n] = entries[i][n + 1]
                                              /\ n + 1 \in DOMAIN entries[i]
    BY <1>3, <1>9, SequenceFacts
  <2>2. QED
    BY <1>9, <2>1
<1>12. \A n \in DOMAIN fills'[i] : \/ n \in DOMAIN fills[i] /\ fills'[i][n] = fills[i][n]
                                   \/ n = Len(fills[i]) + 1 /\ fills'[i][n] = x
  BY <1>10
<1>13. FreshReads(i)'
  <2>1. /\ \A n \in DOMAIN ids[i] : Live(orders[ids[i][n]])
        /\ \A n \in DOMAIN entries[i] : /\ Live(orders[entries[i][n].order])
                                        /\ entries[i][n].remaining = orders[entries[i][n].order].remaining
    BY DEF TakerAlone, FreshReads
  <2>2. \A n \in DOMAIN entries'[i] : /\ Live(orders[entries'[i][n].order])
                                      /\ entries'[i][n].remaining = orders[entries'[i][n].order].remaining
    BY <1>11, <2>1
  <2>3. QED
    BY <1>1, <1>9, <2>1, <2>2 DEF FreshReads
<1>14. MatchedRows(i)'
  <2>1. MakersOf(i)' = MakersOf(i) \cup {j}
    <3>1. \A k : k \in MakersOf(i) \cup {j} => k \in MakersOf(i)'
      <4>1. \A n \in DOMAIN fills[i] : n \in DOMAIN fills'[i] /\ fills'[i][n].maker = fills[i][n].maker
        BY <1>10
      <4>2. Len(fills[i]) + 1 \in DOMAIN fills'[i] /\ fills'[i][Len(fills[i]) + 1].maker = j
        BY <1>8, <1>10
      <4>3. QED
        BY <4>1, <4>2 DEF MakersOf
    <3>2. \A k : k \in MakersOf(i)' => k \in MakersOf(i) \cup {j}
      BY <1>8, <1>12 DEF MakersOf
    <3>3. QED
      BY <3>1, <3>2
  <2>2. DOMAIN rows[i] = MakersOf(i) \cup {j}
    BY <1>0, <1>1 DEF TakerAlone, MatchedRows
  <2>3. QED
    BY <1>1, <1>9, <2>1, <2>2 DEF MatchedRows
<1>15. MatchedFills(i)'
  <2>1. j \in DOMAIN rows[i]
    BY <1>0, <1>1 DEF TakerAlone, MatchedRows
  <2>2. \A n \in DOMAIN fills[i] :
           /\ fills[i][n].maker \in DOMAIN orders /\ Live(orders[fills[i][n].maker])
           /\ fills[i][n].price = orders[fills[i][n].maker].price
           /\ fills[i][n].maker # i /\ fills[i][n].maker \in DOMAIN rows[i]
           /\ rows[i][fills[i][n].maker] = Settled(orders[fills[i][n].maker], fills[i][n].quantity)
    BY DEF TakerAlone, MatchedFills
  <2>3. \A n \in DOMAIN fills'[i] :
           /\ fills'[i][n].maker \in DOMAIN orders /\ Live(orders[fills'[i][n].maker])
           /\ fills'[i][n].price = orders[fills'[i][n].maker].price
           /\ fills'[i][n].maker # i /\ fills'[i][n].maker \in DOMAIN rows[i]
           /\ rows[i][fills'[i][n].maker] = Settled(orders[fills'[i][n].maker], fills'[i][n].quantity)
    BY <1>4, <1>5, <1>6, <1>8, <1>12, <2>1, <2>2
  <2>4. \A m \in DOMAIN fills[i], n \in DOMAIN entries[i] : Ahead(fills[i][m].maker, entries[i][n].order)
    BY DEF TakerAlone, MatchedFills
  <2>5. \A m, n \in DOMAIN fills[i] : m < n => Ahead(fills[i][m].maker, fills[i][n].maker)
    BY DEF TakerAlone, MatchedFills
  <2>6. \A m, n \in DOMAIN fills'[i] : m < n => Ahead(fills'[i][m].maker, fills'[i][n].maker)
    <3> TAKE m, n \in DOMAIN fills'[i]
    <3> HAVE m < n
    <3>1. m \in DOMAIN fills[i]
      BY <1>10
    <3>2. CASE n \in DOMAIN fills[i]
      BY <1>10, <2>5, <3>1, <3>2
    <3>3. CASE n = Len(fills[i]) + 1
      BY <1>4, <1>8, <1>10, <2>4, <3>1, <3>3
    <3>4. QED
      BY <1>12, <3>2, <3>3
  <2>7. \A m \in DOMAIN fills'[i], n \in DOMAIN entries'[i] : Ahead(fills'[i][m].maker, entries'[i][n].order)
    <3> TAKE m \in DOMAIN fills'[i], n \in DOMAIN entries'[i]
    <3>1. n + 1 \in DOMAIN entries[i] /\ entries'[i][n] = entries[i][n + 1] /\ 1 < n + 1
      BY <1>11
    <3>2. CASE m \in DOMAIN fills[i]
      BY <1>10, <2>4, <3>1, <3>2
    <3>3. CASE m = Len(fills[i]) + 1
      BY <1>2, <1>4, <1>8, <1>10, <3>1, <3>3 DEF TakerOK, Queue
    <3>4. QED
      BY <1>12, <3>2, <3>3
  <2>8. QED
    BY <1>1, <2>3, <2>6, <2>7 DEF MatchedFills, Ahead, Settled
<1>16. \A k \in DOMAIN orders : Booked(k, RowSeen(i, k))'
  <2>1. \A k \in DOMAIN orders : Booked(k, RowSeen(i, k))
    BY DEF TakerAlone
  <2>2. RowSeen(i, j) = orders[j] /\ RowSeen(i, j)' = row
    <3>1. j \in DOMAIN rows[i]
      BY <1>0, <1>1 DEF TakerAlone, MatchedRows
    <3>2. QED
      BY <1>0, <1>1, <1>6, <1>9, <3>1 DEF RowSeen
  <2>3. j \in DOMAIN book
    BY <1>4, <2>1, <2>2 DEF Booked
  <2>4. \A k \in DOMAIN orders : k # j => RowSeen(i, k)' = RowSeen(i, k)
    BY <1>0, <1>1, <1>9 DEF RowSeen
  <2>5. \A k : k # j => /\ k \in DOMAIN book' <=> k \in DOMAIN book
                        /\ k \in DOMAIN book => book'[k] = book[k]
    <3>1. CASE book' = Without(book, j)
      BY <3>1 DEF Without
    <3>2. CASE \E v : book' = Set(book, j, v)
      BY <3>2 DEF Set
    <3>3. CASE book' = book
      BY <3>3
    <3>4. QED
      BY <1>1, <3>1, <3>2, <3>3
  <2>6. IF Live(row) THEN j \in DOMAIN book' /\ book'[j] = row.remaining ELSE j \notin DOMAIN book'
    BY <1>1, <1>4, <1>7, <2>3 DEF Without, Set
  <2>7. ASSUME NEW k \in DOMAIN orders, NEW s, s = RowSeen(i, k)'
        PROVE  IF Live(s) THEN k \in DOMAIN book' /\ book'[k] = s.remaining ELSE k \notin DOMAIN book'
    <3>1. CASE k = j
      BY <2>2, <2>6, <2>7, <3>1
    <3>2. CASE k # j
      <4>1. s = RowSeen(i, k) /\ Booked(k, RowSeen(i, k))
        BY <2>1, <2>4, <2>7, <3>2
      <4>2. IF Live(s) THEN k \in DOMAIN book /\ book[k] = s.remaining ELSE k \notin DOMAIN book
        BY <4>1 DEF Booked
      <4>3. QED
        BY <2>5, <3>2, <4>2
    <3>3. QED
      BY <3>1, <3>2
  <2>8. QED
    BY <1>1, <2>7 DEF Booked
<1>17. QED
  BY <1>1, <1>13, <1>14, <1>15, <1>16 DEF TakerAlone

LEMMA AddTakerAlone ==
    ASSUME MatchInv, NEW i \in Id, TakerAlone(i), AddTaker(i)
    PROVE  TakerAlone(i)'
<1>0. PICK left, row : left = Left(i) /\ row = Executed(orders[i], orders[i].amount - left, left)
  OBVIOUS
<1>1. /\ at[i] = "matching" /\ at' = [at EXCEPT ![i] = "committing"]
      /\ rows' = [rows EXCEPT ![i] = Set(rows[i], i, row)]
      /\ book' = IF left > 0 THEN Set(book, i, left) ELSE book
      /\ UNCHANGED <<orders, ids, entries, seen, fills>>
  BY <1>0 DEF AddTaker, Goto
<1>2. /\ i \in DOMAIN orders /\ InHand(i) /\ TakerOK(i) /\ TakerTypes /\ orders[i] \in Row
      /\ orders[i].amount \in Nat
  BY <1>1, TakerFacts
<1>3. left \in Nat /\ orders[i].amount - left \in Nat /\ orders[i].status = "NONE"
  <2>1. Left(i) \in Nat /\ orders[i].status = "NONE"
    BY <1>1, <1>2 DEF TakerOK, Progress
  <2>2. Left(i) = orders[i].amount - Filled(fills[i]) /\ Filled(fills[i]) \in Nat
    BY <1>2, LeftIs, FilledType DEF InHand
  <2>3. QED
    BY <1>0, <1>2, <2>1, <2>2
<1>4. row.remaining = left /\ (Live(row) <=> left # 0)
  <2>1. PICK o \in Row, f \in Nat : o = orders[i] /\ f = orders[i].amount - left
    BY <1>2, <1>3
  <2>2. row = Executed(o, f, left)
    BY <1>0, <2>1
  <2>3. left \in Nat
    BY <1>3
  <2>4. QED
    BY <2>2, <2>3, LiveExecuted
<1>5. at'[i] = "committing" /\ rows'[i] = Set(rows[i], i, row)
  BY <1>1, <1>2 DEF TakerTypes
<1>6. i \notin MakersOf(i) /\ DOMAIN rows[i] = MakersOf(i)
  BY <1>1 DEF TakerAlone, MatchedRows, MatchedFills, MakersOf
<1>7. /\ DOMAIN rows'[i] = DOMAIN rows[i] \cup {i} /\ rows'[i][i] = row
      /\ \A k \in DOMAIN rows[i] : k # i /\ rows'[i][k] = rows[i][k]
  BY <1>5, <1>6 DEF Set
<1>8. FreshReads(i)'
  <2>1. /\ \A n \in DOMAIN ids[i] : Live(orders[ids[i][n]])
        /\ \A n \in DOMAIN entries[i] : /\ Live(orders[entries[i][n].order])
                                        /\ entries[i][n].remaining = orders[entries[i][n].order].remaining
    BY DEF TakerAlone, FreshReads
  <2>2. Left(i)' = left
    BY <1>0, <1>1 DEF Left
  <2>3. \A l : l = Left(i)' => rows'[i][i] = Executed(orders[i], orders[i].amount - l, l)
    BY <1>0, <1>7, <2>2
  <2>4. rows'[i][i] = Executed(orders'[i], orders'[i].amount - Left(i)', Left(i)')
    BY <1>1, <2>3
  <2>5. QED
    BY <1>1, <1>5, <2>1, <2>4 DEF FreshReads, Executed
<1>9. MatchedRows(i)' /\ MatchedFills(i)'
  <2>1. MakersOf(i)' = MakersOf(i)
    BY <1>1 DEF MakersOf
  <2>2. MatchedRows(i)'
    BY <1>5, <1>6, <1>7, <2>1 DEF MatchedRows
  <2>3. \A n \in DOMAIN fills[i] :
          LET f == fills[i][n]
          IN  /\ f.maker \in DOMAIN orders /\ Live(orders[f.maker]) /\ f.price = orders[f.maker].price
              /\ f.maker # i /\ f.maker \in DOMAIN rows'[i]
              /\ rows'[i][f.maker] = Settled(orders[f.maker], f.quantity)
    BY <1>7 DEF TakerAlone, MatchedFills
  <2>4. MatchedFills(i)'
    BY <1>1, <2>3 DEF TakerAlone, MatchedFills, Ahead, Settled
  <2>5. QED
    BY <2>2, <2>4
<1>10. \A k \in DOMAIN orders : Booked(k, RowSeen(i, k))'
  <2>1. \A k \in DOMAIN orders : Booked(k, RowSeen(i, k))
    BY DEF TakerAlone
  <2>2. RowSeen(i, i) = orders[i] /\ RowSeen(i, i)' = row
    BY <1>5, <1>6, <1>7 DEF RowSeen
  <2>3. i \notin DOMAIN book
    BY <1>2, <1>3, <2>1, <2>2 DEF Booked, Live
  <2>4. \A k \in DOMAIN orders : k # i => RowSeen(i, k)' = RowSeen(i, k)
    BY <1>1, <1>5, <1>7 DEF RowSeen
  <2>5. \A k : k # i => /\ k \in DOMAIN book' <=> k \in DOMAIN book
                        /\ k \in DOMAIN book => book'[k] = book[k]
    BY <1>1 DEF Set
  <2>6. IF Live(row) THEN i \in DOMAIN book' /\ book'[i] = row.remaining ELSE i \notin DOMAIN book'
    BY <1>1, <1>3, <1>4, <2>3 DEF Set
  <2>7. ASSUME NEW k \in DOMAIN orders, NEW s, s = RowSeen(i, k)'
        PROVE  IF Live(s) THEN k \in DOMAIN book' /\ book'[k] = s.remaining ELSE k \notin DOMAIN book'
    <3>1. CASE k = i
      BY <2>2, <2>6, <2>7, <3>1
    <3>2. CASE k # i
      <4>1. s = RowSeen(i, k) /\ Booked(k, RowSeen(i, k))
        BY <2>1, <2>4, <2>7, <3>2
      <4>2. IF Live(s) THEN k \in DOMAIN book /\ book[k] = s.remaining ELSE k \notin DOMAIN book
        BY <4>1 DEF Booked
      <4>3. QED
        BY <2>5, <3>2, <4>2
    <3>3. QED
      BY <3>1, <3>2
  <2>8. QED
    BY <1>1, <2>7 DEF Booked
<1>11. QED
  BY <1>1, <1>8, <1>9, <1>10 DEF TakerAlone

-----------------------------------------------------------------------------

\* The one request under way places order i, and goes on.
LEMMA TakerGoesOn ==
    ASSUME TakerTypes, Alone, NEW i \in Placing, NEW step \in Stage \ {"new", "done", "aborted"},
           at' = [at EXCEPT ![i] = step], cancel' = cancel,
           book' = [j \in DOMAIN book' |-> book'[j]], TakerAlone(i)'
    PROVE  Alone'
<1>1. Placing = {i} /\ Cancelling = {}
  BY DEF Alone
<1>2. i \in Id /\ at'[i] = step /\ \A k \in Id \ {i} : at'[k] = at[k]
  BY DEF Placing, TakerTypes
<1>3. Placing' = {i}
  BY <1>1, <1>2 DEF Placing
<1>4. Cancelling' = {}
  BY <1>1 DEF Cancelling
<1>5. QED
  BY <1>3, <1>4 DEF Alone

\* No request is under way any more.
LEMMA NobodyLeft ==
    ASSUME Placing' = {}, Cancelling' = {}, book' = [j \in DOMAIN book' |-> book'[j]],
           \A j \in DOMAIN orders' : Booked(j, orders[j])'
    PROVE  Alone'
BY DEF Alone

LEMMA TakerStepAlone ==
    ASSUME MatchInv, Alone, NEW i \in Id,
           \/ ReadBook(i) \/ ReadDetails(i) \/ FindMaker(i) \/ UpdateMaker(i)
           \/ UpdateBook(i) \/ AddTaker(i)
    PROVE  Alone'
<1>1. TakerTypes /\ book = [j \in DOMAIN book |-> book[j]]
  BY DEF MatchInv, Alone
<1>2. i \in Placing => TakerAlone(i)
  BY DEF Alone
<1>3. CASE ReadBook(i)
  <2>1. at[i] = "reading" /\ book' = book /\ cancel' = cancel
        /\ at' = [at EXCEPT ![i] = IF Opposing(i) = {} THEN "matching" ELSE "details"]
    BY <1>3 DEF ReadBook, Goto
  <2>2. PICK step \in {"matching", "details"} : at' = [at EXCEPT ![i] = step]
    BY <2>1
  <2>3. i \in Placing /\ step \in Stage \ {"new", "done", "aborted"}
    BY <2>1 DEF Placing, Stage
  <2>4. TakerAlone(i)'
    BY <1>2, <1>3, <2>3, ReadBookAlone
  <2>5. QED
    BY <1>1, <2>1, <2>2, <2>3, <2>4, TakerGoesOn
<1>4. CASE ReadDetails(i)
  <2>1. at[i] = "details" /\ book' = book /\ cancel' = cancel
        /\ at' = [at EXCEPT ![i] = IF Tail(ids[i]) = << >> THEN "matching" ELSE "details"]
    BY <1>4 DEF ReadDetails, Goto
  <2>2. PICK step \in {"matching", "details"} : at' = [at EXCEPT ![i] = step]
    BY <2>1
  <2>3. i \in Placing /\ step \in Stage \ {"new", "done", "aborted"}
    BY <2>1 DEF Placing, Stage
  <2>4. TakerAlone(i)'
    BY <1>2, <1>4, <2>3, ReadDetailsAlone
  <2>5. QED
    BY <1>1, <2>1, <2>2, <2>3, <2>4, TakerGoesOn
<1>5. CASE FindMaker(i)
  <2>1. at[i] = "matching" /\ book' = book /\ cancel' = cancel /\ at' = [at EXCEPT ![i] = "updating"]
    BY <1>5 DEF FindMaker, Goto
  <2>2. i \in Placing /\ "updating" \in Stage \ {"new", "done", "aborted"}
    BY <2>1 DEF Placing, Stage
  <2>3. TakerAlone(i)'
    BY <1>2, <1>5, <2>2, FindMakerAlone
  <2>4. QED
    BY <1>1, <2>1, <2>2, <2>3, TakerGoesOn
<1>6. CASE UpdateMaker(i)
  <2>1. at[i] = "updating" /\ book' = book /\ cancel' = cancel /\ at' = [at EXCEPT ![i] = "booking"]
    BY <1>6 DEF UpdateMaker, Goto
  <2>2. i \in Placing /\ "booking" \in Stage \ {"new", "done", "aborted"}
    BY <2>1 DEF Placing, Stage
  <2>3. TakerAlone(i)'
    BY <1>2, <1>6, <2>2, UpdateMakerAlone
  <2>4. QED
    BY <1>1, <2>1, <2>2, <2>3, TakerGoesOn
<1>7. CASE UpdateBook(i)
  <2>1. at[i] = "booking" /\ cancel' = cancel /\ at' = [at EXCEPT ![i] = "matching"]
    BY <1>7 DEF UpdateBook, Goto
  <2>2. i \in Placing /\ "matching" \in Stage \ {"new", "done", "aborted"}
    BY <2>1 DEF Placing, Stage
  <2>3. book' = [j \in DOMAIN book' |-> book'[j]]
    BY <1>1, <1>7 DEF UpdateBook, Set, Without
  <2>4. TakerAlone(i)'
    BY <1>2, <1>7, <2>2, UpdateBookAlone
  <2>5. QED
    BY <1>1, <2>1, <2>2, <2>3, <2>4, TakerGoesOn
<1>8. CASE AddTaker(i)
  <2>1. at[i] = "matching" /\ cancel' = cancel /\ at' = [at EXCEPT ![i] = "committing"]
    BY <1>8 DEF AddTaker, Goto
  <2>2. i \in Placing /\ "committing" \in Stage \ {"new", "done", "aborted"}
    BY <2>1 DEF Placing, Stage
  <2>3. book' = [j \in DOMAIN book' |-> book'[j]]
    BY <1>1, <1>8 DEF AddTaker, Set
  <2>4. TakerAlone(i)'
    BY <1>2, <1>8, <2>2, AddTakerAlone
  <2>5. QED
    BY <1>1, <2>1, <2>2, <2>3, <2>4, TakerGoesOn
<1>9. QED
  BY <1>3, <1>4, <1>5, <1>6, <1>7, <1>8

LEMMA CommitOrderAlone ==
    ASSUME MatchInv, Alone, NEW i \in Id, CommitOrder(i)
    PROVE  Alone'
<1>1. /\ at[i] = "committing" /\ at' = [at EXCEPT ![i] = "done"] /\ book' = book /\ cancel' = cancel
  BY DEF CommitOrder, End, Goto
<1>2. TakerTypes
  BY DEF MatchInv
<1>3. Placing = {i} /\ Cancelling = {} /\ TakerAlone(i) /\ book = [j \in DOMAIN book |-> book[j]]
  BY <1>1 DEF Placing, Alone
<1>4. Placing' = {}
  <2>1. at'[i] = "done" /\ \A k \in Id \ {i} : at'[k] = at[k]
    BY <1>1, <1>2 DEF TakerTypes
  <2>2. QED
    BY <1>3, <2>1 DEF Placing
<1>5. Cancelling' = {}
  BY <1>1, <1>3 DEF Cancelling
<1>6. /\ DOMAIN orders' = DOMAIN orders
      /\ \A j \in DOMAIN orders : orders'[j] = IF j \in DOMAIN rows[i] THEN rows[i][j] ELSE orders[j]
  BY CommitEffects
<1>7. \A j \in DOMAIN orders' : Booked(j, orders[j])'
  <2>1. \A j \in DOMAIN orders : orders'[j] = RowSeen(i, j)
    BY <1>1, <1>6 DEF RowSeen
  <2>2. QED
    BY <1>1, <1>3, <1>6, <2>1 DEF TakerAlone, Booked
<1>8. QED
  BY <1>1, <1>3, <1>4, <1>5, <1>7, NobodyLeft

LEMMA PlaceOrderAlone ==
    ASSUME MatchInv, serial => Alone, NEW r \in Request, PlaceOrder(r), serial'
    PROVE  Alone'
<1>0. PICK i, o : /\ i = Len(orders) + 1
                  /\ o = [user |-> r.user, side |-> r.side, price |-> r.price, amount |-> r.amount,
                          filled |-> 0, remaining |-> r.amount, status |-> "NONE"]
  OBVIOUS
<1>1. /\ i <= MaxOrders /\ orders' = Append(orders, o) /\ at' = [at EXCEPT ![i] = "reading"]
      /\ serial' = (serial /\ Active = 0)
      /\ UNCHANGED <<book, ids, entries, seen, rows, fills, cancel>>
  BY <1>0 DEF PlaceOrder, Goto, Begin
<1>2. /\ Table /\ Book /\ TakerTypes /\ Len(orders) \in Nat /\ DOMAIN orders = 1 .. Len(orders)
      /\ \A k \in Id : TakerOK(k)
  BY OrderLengths DEF MatchInv
<1>3. i \in Id /\ i \notin DOMAIN orders
  BY <1>0, <1>1, <1>2, RequestAssumption DEF Id
<1>4. Alone /\ Placing = {} /\ Cancelling = {}
  BY <1>1, ActiveZero
<1>5. o.status = "NONE" /\ o \in Row
  BY <1>0, RequestAssumption DEF Row
<1>6. /\ DOMAIN orders' = DOMAIN orders \cup {i} /\ orders'[i] = o
      /\ \A j \in DOMAIN orders : orders'[j] = orders[j]
  <2>1. orders \in Seq(Row)
    BY <1>2 DEF Table
  <2>2. /\ DOMAIN Append(orders, o) = 1 .. Len(orders) + 1
        /\ \A n \in DOMAIN orders : Append(orders, o)[n] = orders[n]
        /\ Append(orders, o)[Len(orders) + 1] = o
    BY <1>5, <2>1, AppendFacts
  <2>3. QED
    BY <1>0, <1>1, <1>2, <2>2
<1>7. at'[i] = "reading" /\ \A k \in Id \ {i} : at'[k] = at[k]
  BY <1>1, <1>2, <1>3 DEF TakerTypes
<1>8. Placing' = {i} /\ Cancelling' = {}
  BY <1>1, <1>3, <1>4, <1>7 DEF Placing, Cancelling
<1>9. /\ DOMAIN ids'[i] = {} /\ DOMAIN entries'[i] = {} /\ DOMAIN fills'[i] = {} /\ DOMAIN rows'[i] = {}
  <2>1. at[i] = "new" /\ ids[i] = << >> /\ entries[i] = << >> /\ fills[i] = << >> /\ DOMAIN rows[i] = {}
    BY <1>2, <1>3 DEF TakerOK, Progress
  <2>2. QED
    BY <1>1, <2>1
<1>10. \A j \in DOMAIN orders : Booked(j, orders[j])
  BY <1>4 DEF Alone
<1>11. i \notin DOMAIN book
  BY <1>2, <1>3 DEF Book
<1>12. \A j \in DOMAIN orders' : Booked(j, RowSeen(i, j))'
  <2>1. \A j \in DOMAIN orders' : RowSeen(i, j)' = orders'[j]
    BY <1>9 DEF RowSeen
  <2>2. ASSUME NEW j \in DOMAIN orders', NEW s, s = orders'[j]
        PROVE  IF Live(s) THEN j \in DOMAIN book /\ book[j] = s.remaining ELSE j \notin DOMAIN book
    <3>1. CASE j = i
      BY <1>5, <1>6, <1>11, <2>2, <3>1 DEF Live
    <3>2. CASE j # i
      BY <1>6, <1>10, <2>2, <3>2 DEF Booked
    <3>3. QED
      BY <3>1, <3>2
  <2>3. QED
    BY <1>1, <2>1, <2>2 DEF Booked
<1>13. MatchedRows(i)' /\ MatchedFills(i)' /\ FreshReads(i)'
  BY <1>7, <1>9 DEF MatchedRows, MatchedFills, FreshReads, MakersOf
<1>14. TakerAlone(i)'
  BY <1>12, <1>13 DEF TakerAlone
<1>15. book' = [j \in DOMAIN book' |-> book'[j]]
  BY <1>1, <1>4 DEF Alone
<1>16. QED
  BY <1>8, <1>14, <1>15 DEF Alone

-----------------------------------------------------------------------------

\* The one request under way is canceller c's.
LEMMA CancellerAlone ==
    ASSUME NEW c, Placing' = {}, Cancelling' = {c}, book' = [j \in DOMAIN book' |-> book'[j]],
           CancelAlone(c)'
    PROVE  Alone'
BY DEF Alone

\* What changes about cancellers when one does.
LEMMA CancellerMoves ==
    ASSUME CancelTypes, NEW c \in Canceller, NEW rec, cancel' = [cancel EXCEPT ![c] = rec]
    PROVE  /\ cancel'[c] = rec
           /\ Cancelling \subseteq {c} =>
                 Cancelling' = IF rec.pc = "idle" THEN {} ELSE {c}
<1>1. cancel'[c] = rec /\ \A d \in Canceller \ {c} : cancel'[d] = cancel[d]
  BY DEF CancelTypes
<1>2. QED
  BY <1>1 DEF Cancelling

LEMMA BeginCancelAlone ==
    ASSUME MatchInv, serial => Alone, NEW c \in Canceller, NEW i \in Id, BeginCancel(c, i), serial'
    PROVE  Alone'
<1>0. PICK rec : rec = [pc |-> "found", order |-> i, amount |-> 0]
  OBVIOUS
<1>1. /\ Visible(i) /\ Live(orders[i]) /\ cancel' = [cancel EXCEPT ![c] = rec]
      /\ serial' = (serial /\ Active = 0) /\ UNCHANGED <<orders, book, at>>
  BY <1>0 DEF BeginCancel, Begin, taker
<1>2. Alone /\ Placing = {} /\ Cancelling = {} /\ CancelTypes
  BY <1>1, ActiveZero DEF MatchInv
<1>3. rec.pc = "found" /\ rec.order = i
  BY <1>0
<1>4. cancel'[c] = rec /\ Cancelling' = {c}
  BY <1>1, <1>2, <1>3, CancellerMoves
<1>5. Placing' = {}
  BY <1>1, <1>2 DEF Placing
<1>6. CancelAlone(c)'
  <2>1. \A j \in DOMAIN orders : Booked(j, orders[j])
    BY <1>2 DEF Alone
  <2>2. QED
    BY <1>1, <1>3, <1>4, <2>1 DEF CancelAlone, Booked
<1>7. book' = [j \in DOMAIN book' |-> book'[j]]
  BY <1>1, <1>2 DEF Alone
<1>8. QED
  BY <1>4, <1>5, <1>6, <1>7, CancellerAlone

LEMMA RemoveOrderAlone ==
    ASSUME MatchInv, Alone, NEW c \in Canceller, RemoveOrder(c)
    PROVE  Alone'
<1>0. PICK i, rec : i = cancel[c].order /\ rec = [cancel[c] EXCEPT !.pc = "removed"]
  OBVIOUS
<1>1. /\ cancel[c].pc = "found" /\ book' = Without(book, i)
      /\ cancel' = [cancel EXCEPT ![c].pc = "removed"] /\ UNCHANGED <<orders, at>>
  BY <1>0 DEF RemoveOrder, taker
<1>2. Cancelling = {c} /\ Placing = {} /\ CancelAlone(c) /\ CancelTypes
  BY <1>1 DEF MatchInv, Alone, Cancelling
<1>3. cancel[c] \in CancelRecord
  BY CancelFacts
<1>4. rec.pc = "removed" /\ rec.order = i
  BY <1>0, <1>3 DEF CancelRecord
<1>5. cancel' = [cancel EXCEPT ![c] = rec]
  BY <1>0, <1>1
<1>6. cancel'[c] = rec /\ Cancelling' = {c}
  BY <1>2, <1>4, <1>5, CancellerMoves
<1>7. Placing' = {} /\ book' = [j \in DOMAIN book' |-> book'[j]]
  BY <1>1, <1>2 DEF Placing, Without
<1>8. CancelAlone(c)'
  <2>1. Live(orders[i]) /\ \A j \in DOMAIN orders : Booked(j, orders[j])
    BY <1>0, <1>1, <1>2 DEF CancelAlone
  <2>2. /\ i \notin DOMAIN book'
        /\ \A j : j # i => /\ j \in DOMAIN book' <=> j \in DOMAIN book
                           /\ j \in DOMAIN book => book'[j] = book[j]
    BY <1>1 DEF Without
  <2>3. \A j \in DOMAIN orders \ {i} : Booked(j, orders[j])'
    BY <1>1, <2>1, <2>2 DEF Booked
  <2>4. \A j \in DOMAIN orders' : IF cancel'[c].pc = "removed" /\ j = cancel'[c].order
                                  THEN j \notin DOMAIN book' ELSE Booked(j, orders[j])'
    BY <1>1, <1>4, <1>6, <2>2, <2>3
  <2>5. QED
    BY <1>1, <1>4, <1>6, <2>1, <2>4 DEF CancelAlone
<1>9. QED
  BY <1>6, <1>7, <1>8, CancellerAlone

LEMMA CancelRowAlone ==
    ASSUME MatchInv, Alone, NEW c \in Canceller, CancelRow(c)
    PROVE  Alone'
<1>0. PICK i : i = cancel[c].order
  OBVIOUS
<1>1. cancel[c].pc = "removed" /\ UNCHANGED <<book, at>>
  BY DEF CancelRow, taker
<1>2. Cancelling = {c} /\ Placing = {} /\ CancelAlone(c) /\ CancelTypes
  BY <1>1 DEF MatchInv, Alone, Cancelling
<1>3. cancel[c] \in CancelRecord /\ Live(orders[i])
  BY <1>0, <1>1, <1>2, CancelFacts DEF CancelAlone
<1>4. /\ DOMAIN orders' = DOMAIN orders /\ i \in DOMAIN orders
      /\ \A j \in DOMAIN orders \ {i} : orders'[j] = orders[j]
      /\ orders'[i].status = "CANCELLED" /\ orders'[i].remaining = orders[i].remaining
  BY <1>0, <1>3, CancelRowEffects
<1>5. PICK rec : rec = [cancel[c] EXCEPT !.pc = "cancelled", !.amount = orders[i].remaining]
  OBVIOUS
<1>6. rec.pc = "cancelled" /\ rec.order = i /\ rec.amount = orders[i].remaining
  BY <1>0, <1>3, <1>5 DEF CancelRecord
<1>7. cancel' = [cancel EXCEPT ![c] = rec]
  BY <1>0, <1>3, <1>5 DEF CancelRow
<1>8. cancel'[c] = rec /\ Cancelling' = {c}
  BY <1>2, <1>6, <1>7, CancellerMoves
<1>9. Placing' = {} /\ book' = [j \in DOMAIN book' |-> book'[j]]
  BY <1>1, <1>2 DEF Placing, Alone
<1>10. CancelAlone(c)'
  <2>1. i \notin DOMAIN book /\ \A j \in DOMAIN orders \ {i} : Booked(j, orders[j])
    BY <1>0, <1>1, <1>2, <1>4 DEF CancelAlone
  <2>2. ~Live(orders[i])'
    BY <1>4 DEF Live
  <2>3. \A j \in DOMAIN orders' : Booked(j, orders[j])'
    BY <1>1, <1>4, <2>1, <2>2 DEF Booked
  <2>4. QED
    BY <1>4, <1>6, <1>8, <2>3 DEF CancelAlone
<1>11. QED
  BY <1>8, <1>9, <1>10, CancellerAlone

LEMMA UnlockAlone ==
    ASSUME MatchInv, Alone, NEW c \in Canceller, Unlock(c)
    PROVE  Alone'
<1>1. cancel[c].pc = "cancelled" /\ cancel' = [cancel EXCEPT ![c] = Idle] /\ UNCHANGED <<orders, book, at>>
  BY DEF Unlock, taker
<1>2. Cancelling = {c} /\ Placing = {} /\ CancelAlone(c) /\ CancelTypes
      /\ book = [j \in DOMAIN book |-> book[j]]
  BY <1>1 DEF MatchInv, Alone, Cancelling
<1>3. Cancelling' = {}
  BY <1>1, <1>2, IdleCancel, CancellerMoves
<1>4. Placing' = {}
  BY <1>1, <1>2 DEF Placing
<1>5. \A j \in DOMAIN orders' : Booked(j, orders[j])'
  BY <1>1, <1>2 DEF CancelAlone, Booked
<1>6. QED
  BY <1>1, <1>2, <1>3, <1>4, <1>5, NobodyLeft

LEMMA RestartAlone ==
    ASSUME MatchInv, serial => Alone, Restart, serial'
    PROVE  Alone'
<1>1. serial' = (serial /\ Active = 0) /\ UNCHANGED orders
  BY DEF Restart
<1>2. Alone /\ Placing = {} /\ Cancelling = {} /\ Book
  BY <1>1, ActiveZero DEF MatchInv
<1>3. Placing' = {}
  BY <1>2 DEF Restart, Placing
<1>4. Cancelling' = {}
  <2>1. cancel' = [c \in Canceller |-> Idle]
    BY DEF Restart
  <2>2. QED
    BY <2>1, IdleCancel DEF Cancelling
<1>5. /\ book' = [j \in DOMAIN book' |-> book'[j]]
      /\ DOMAIN book' = DOMAIN book \cup DOMAIN Rehydrate
      /\ \A j \in DOMAIN book' : book'[j] = IF j \in DOMAIN Rehydrate THEN Rehydrate[j] ELSE book[j]
  BY DEF Restart
<1>6. \A j \in DOMAIN orders : Booked(j, orders[j])
  BY <1>2 DEF Alone
<1>7. /\ \A j : j \in DOMAIN Rehydrate <=> j \in DOMAIN orders /\ Live(orders[j])
      /\ \A j \in DOMAIN Rehydrate : Rehydrate[j] = orders[j].remaining
  BY DEF Rehydrate
<1>8. \A j \in DOMAIN orders' : Booked(j, orders[j])'
  BY <1>1, <1>5, <1>6, <1>7 DEF Booked
<1>9. QED
  BY <1>3, <1>4, <1>5, <1>8, NobodyLeft

LEMMA StutterAlone ==
    ASSUME MatchInv, Alone, UNCHANGED matchingVars
    PROVE  Alone'
<1>1. UNCHANGED <<orders, book, at, ids, entries, seen, rows, fills, cancel>>
  BY DEF matchingVars
<1>2. Placing' = Placing /\ Cancelling' = Cancelling
  BY <1>1 DEF Placing, Cancelling
<1>3. ASSUME NEW i \in Placing PROVE TakerAlone(i)'
  <2>1. TakerAlone(i)
    BY DEF Alone
  <2>2. \A j : RowSeen(i, j)' = RowSeen(i, j)
    BY <1>1 DEF RowSeen, NextMaker
  <2>3. \A j \in DOMAIN orders' : Booked(j, RowSeen(i, j))'
    BY <1>1, <2>1, <2>2 DEF TakerAlone, Booked
  <2>4. MatchedRows(i)' /\ MatchedFills(i)' /\ FreshReads(i)'
    BY <1>1, <2>1 DEF TakerAlone, MatchedRows, MatchedFills, FreshReads, MakersOf, NextMaker,
                      MatchAmount, Left, Ahead
  <2>5. QED
    BY <2>3, <2>4 DEF TakerAlone
<1>4. ASSUME NEW c \in Cancelling PROVE CancelAlone(c)'
  <2>1. CancelAlone(c)
    BY DEF Alone
  <2>2. QED
    BY <1>1, <2>1 DEF CancelAlone, Booked
<1>5. Placing = {} /\ Cancelling = {} => \A j \in DOMAIN orders' : Booked(j, orders[j])'
  BY <1>1 DEF Alone, Booked
<1>6. QED
  BY <1>1, <1>2, <1>3, <1>4, <1>5 DEF Alone

AloneInv == MatchInv /\ (serial => Alone)

LEMMA InitAlone == MatchingInit => AloneInv
<1> SUFFICES ASSUME MatchingInit PROVE AloneInv
  OBVIOUS
<1>1. /\ orders = << >> /\ book = EmptyFunction
      /\ at = [i \in Id |-> "new"] /\ cancel = [c \in Canceller |-> Idle]
  BY DEF MatchingInit
<1>2. Placing = {} /\ Cancelling = {}
  BY <1>1, IdleCancel DEF Placing, Cancelling
<1>3. DOMAIN orders = {} /\ book = [j \in DOMAIN book |-> book[j]]
  BY <1>1 DEF EmptyFunction
<1>4. Alone
  BY <1>2, <1>3 DEF Alone
<1>5. QED
  BY <1>4, InitMatch DEF AloneInv

LEMMA NextAlone == AloneInv /\ [MatchingNext]_matchingVars => AloneInv'
<1> SUFFICES ASSUME AloneInv, [MatchingNext]_matchingVars, serial' PROVE Alone'
  BY NextMatch DEF AloneInv
<1>0. MatchInv /\ (serial => Alone)
  BY DEF AloneInv
<1>1. ASSUME NEW r \in Request, PlaceOrder(r) PROVE Alone'
  BY <1>0, <1>1, PlaceOrderAlone
<1>2. ASSUME NEW i \in Id,
             \/ ReadBook(i) \/ ReadDetails(i) \/ FindMaker(i) \/ UpdateMaker(i)
             \/ UpdateBook(i) \/ AddTaker(i)
      PROVE Alone'
  <2>1. serial' = serial
    BY <1>2 DEF ReadBook, ReadDetails, FindMaker, UpdateMaker, UpdateBook, AddTaker
  <2>2. QED
    BY <1>0, <1>2, <2>1, TakerStepAlone
<1>3. ASSUME NEW i \in Id, CommitOrder(i) PROVE Alone'
  <2>1. serial' = serial
    BY <1>3 DEF CommitOrder
  <2>2. QED
    BY <1>0, <1>3, <2>1, CommitOrderAlone
<1>4. ASSUME NEW i \in Id, RollbackOrder(i) PROVE Alone'
  BY <1>4 DEF RollbackOrder
<1>5. ASSUME NEW c \in Canceller, NEW i \in Id, BeginCancel(c, i) PROVE Alone'
  BY <1>0, <1>5, BeginCancelAlone
<1>6. ASSUME NEW c \in Canceller, RemoveOrder(c) \/ CancelRow(c) \/ Unlock(c) PROVE Alone'
  <2>1. serial' = serial
    BY <1>6 DEF RemoveOrder, CancelRow, Unlock
  <2>2. QED
    BY <1>0, <1>6, <2>1, RemoveOrderAlone, CancelRowAlone, UnlockAlone
<1>7. ASSUME NEW c \in Canceller, CancelFails(c) PROVE Alone'
  BY <1>7 DEF CancelFails
<1>8. CASE Restart
  BY <1>0, <1>8, RestartAlone
<1>9. CASE UNCHANGED matchingVars
  <2>1. serial' = serial
    BY <1>9 DEF matchingVars
  <2>2. QED
    BY <1>0, <1>9, <2>1, StutterAlone
<1>10. QED
  BY <1>1, <1>2, <1>3, <1>4, <1>5, <1>6, <1>7, <1>8, <1>9 DEF MatchingNext

\* What a request that runs alone has read is still so when it uses it.
THEOREM AloneInvariant == MatchingSpec => []AloneInv
<1>1. MatchingInit => AloneInv
  BY InitAlone
<1>2. AloneInv /\ [MatchingNext]_matchingVars => AloneInv'
  BY NextAlone
<1>3. QED
  BY <1>1, <1>2, PTL DEF MatchingSpec

\* As long as no requests overlap and none fails, the book in Redis has exactly the
\* live orders of the table with what remains of them whenever none is under way,
\* over any number of placements, cancellations and restarts.
THEOREM MatchingBookMatchesTable == MatchingSpec => []BookMatchesTable
<1>1. AloneInv => BookMatchesTable
  <2> DEFINE live == {i \in DOMAIN orders : Live(orders[i])}
  <2> SUFFICES ASSUME AloneInv, serial, Active = 0
               PROVE  book = [i \in live |-> orders[i].remaining]
    BY DEF BookMatchesTable
  <2>1. Alone /\ Book /\ Placing = {} /\ Cancelling = {}
    BY ActiveZero DEF AloneInv, MatchInv
  <2>2. book = [j \in DOMAIN book |-> book[j]] /\ \A j \in DOMAIN orders : Booked(j, orders[j])
    BY <2>1 DEF Alone
  <2>3. DOMAIN book = live /\ \A j \in live : book[j] = orders[j].remaining
    BY <2>1, <2>2 DEF Book, Booked
  <2>4. QED
    BY <2>2, <2>3
<1>2. QED
  BY <1>1, AloneInvariant, PTL

-----------------------------------------------------------------------------
(***************************************************************************)
(* What rows and trades say of each other, one request at a time: a commit *)
(* changes the rows it has updated by the quantities of its trades.        *)
(***************************************************************************)

TradeRecord == [maker : Id, taker : Id, price : Nat, quantity : Nat \ {0}]
TradeOf(i, f) == [maker |-> f.maker, taker |-> i, price |-> f.price, quantity |-> f.quantity]
NewTrades(i, s) == {TradeOf(i, f) : f \in ToSet(s)}
TradesOf(j) == {t \in trades : j \in {t.maker, t.taker}}

Accounts ==
    /\ \A t \in trades : Visible(t.maker) /\ Visible(t.taker)
    /\ \A j \in DOMAIN orders : Visible(j) =>
          /\ orders[j].filled = Traded(j)
          /\ orders[j].filled + orders[j].remaining = orders[j].amount
          /\ unlocked[j] = IF orders[j].status = "CANCELLED" /\ ~Unlocking(j)
                           THEN orders[j].remaining ELSE 0

AccountsInv == AloneInv /\ IsFiniteSet(trades) /\ (serial => Accounts)

\* The trades of fills with makers that differ add up to what is filled.
LEMMA TradesOfFills ==
    ASSUME NEW s \in Seq(FillRecord), NEW i \in Id, NEW T, T = NewTrades(i, s),
           \A m, n \in DOMAIN s : s[m].maker = s[n].maker => m = n
    PROVE  /\ IsFiniteSet(T) /\ T \subseteq TradeRecord
           /\ \A t \in T : t.taker = i /\ \E n \in DOMAIN s : t = TradeOf(i, s[n])
           /\ \A n \in DOMAIN s : TradeOf(i, s[n]) \in T
           /\ \A n \in DOMAIN s : TradeOf(i, s[n]).maker = s[n].maker
                                  /\ TradeOf(i, s[n]).quantity = s[n].quantity
           /\ \A g : (\A t \in T : g[t] = t.quantity) => SumFunctionOnSet(g, T) = Filled(s)
<1>1. Len(s) \in Nat /\ DOMAIN s = 1 .. Len(s) /\ \A n \in DOMAIN s : s[n] \in FillRecord
  BY SequenceFacts
<1>2. ToSet(s) = {s[n] : n \in DOMAIN s}
  BY DEF ToSet
<1>3. \A f \in FillRecord : TradeOf(i, f) \in TradeRecord
  BY DEF FillRecord, TradeOf, TradeRecord
<1>4. \A f : /\ TradeOf(i, f).taker = i /\ TradeOf(i, f).maker = f.maker
             /\ TradeOf(i, f).quantity = f.quantity
  BY DEF TradeOf
<1>5. /\ \A t \in T : \E n \in DOMAIN s : t = TradeOf(i, s[n])
      /\ \A n \in DOMAIN s : TradeOf(i, s[n]) \in T
  BY <1>2 DEF NewTrades
<1>6. T \subseteq TradeRecord /\ \A t \in T : t.taker = i
  <2>1. ASSUME NEW t \in T PROVE t \in TradeRecord /\ t.taker = i
    <3>1. PICK n \in DOMAIN s : t = TradeOf(i, s[n])
      BY <1>5
    <3>2. s[n] \in FillRecord
      BY <1>1
    <3>3. t \in TradeRecord
      BY <1>3, <3>1, <3>2
    <3>4. t.taker = i
      BY <1>4, <3>1
    <3>5. QED
      BY <3>3, <3>4
  <2>2. QED
    BY <2>1
<1>7. IsFiniteSet(DOMAIN s)
  BY <1>1, FS_Interval
<1> DEFINE h == [n \in DOMAIN s |-> TradeOf(i, s[n])]
<1>8. IsFiniteSet(T)
  <2>1. h \in Surjection(DOMAIN s, T)
    BY <1>5 DEF Surjection
  <2> HIDE DEF h
  <2>2. QED
    BY <1>7, <2>1, FS_Surjection
<1>9. ASSUME NEW g, \A t \in T : g[t] = t.quantity
      PROVE  SumFunctionOnSet(g, T) = Filled(s)
  <2> DEFINE f == [n \in DOMAIN s |-> s[n].quantity]
             index == [t \in T |-> CHOOSE n \in DOMAIN s : t = TradeOf(i, s[n])]
  <2>1. \A t \in T : g[t] \in Nat
    BY <1>6, <1>9 DEF TradeRecord
  <2>2. \A n \in DOMAIN s : f[n] \in Nat /\ f[n] = s[n].quantity
    BY <1>1 DEF FillRecord
  <2>3. \A n \in DOMAIN s : h[n] \in T /\ g[h[n]] = s[n].quantity
    BY <1>4, <1>5, <1>9
  <2>4. \A m, n \in DOMAIN s : h[m] = h[n] => m = n
    BY <1>4
  <2>5. \A t \in T : index[t] \in DOMAIN s /\ t = TradeOf(i, s[index[t]])
    BY <1>5
  <2> HIDE DEF f, h, index
  <2>6. SumFunctionOnSet(f, DOMAIN s) <= SumFunctionOnSet(g, T)
    <3>1. \A n \in DOMAIN s : h[n] \in T /\ f[n] \in Nat /\ f[n] <= g[h[n]]
      BY <2>2, <2>3
    <3>2. QED
      BY <1>7, <1>8, <2>1, <2>4, <3>1, SumInto
  <2>7. SumFunctionOnSet(g, T) <= SumFunctionOnSet(f, DOMAIN s)
    <3>1. \A t \in T : index[t] \in DOMAIN s /\ g[t] \in Nat /\ g[t] <= f[index[t]]
      BY <1>4, <1>9, <2>1, <2>2, <2>5
    <3>2. \A t, u \in T : index[t] = index[u] => t = u
      BY <2>5
    <3>3. \A n \in DOMAIN s : f[n] \in Nat
      BY <2>2
    <3>4. QED
      BY <1>7, <1>8, <3>1, <3>2, <3>3, SumInto
  <2>8. SumFunctionOnSet(f, DOMAIN s) \in Nat /\ SumFunctionOnSet(g, T) \in Nat
    BY <1>7, <1>8, <2>1, <2>2, SumNat
  <2>9. Filled(s) = SumFunctionOnSet(f, DOMAIN s)
    BY DEF f, Filled
  <2>10. QED
    BY <2>6, <2>7, <2>8, <2>9
<1>10. QED
  BY <1>4, <1>5, <1>6, <1>8, <1>9

\* What an order has traded, as a sum over its trades alone.
LEMMA TradedSum ==
    ASSUME IsFiniteSet(trades), trades \subseteq TradeRecord, NEW j
    PROVE  /\ IsFiniteSet(TradesOf(j))
           /\ \A g : (\A t \in TradesOf(j) : g[t] = t.quantity) =>
                 Traded(j) = SumFunctionOnSet(g, TradesOf(j))
<1> DEFINE q == [t \in trades |-> t.quantity]
<1>1. IsFiniteSet(TradesOf(j)) /\ TradesOf(j) \subseteq trades
  BY FS_Subset DEF TradesOf
<1>2. Traded(j) = SumFunctionOnSet(q, TradesOf(j))
  BY DEF Traded, TradesOf
<1>3. \A t \in TradesOf(j) : q[t] = t.quantity
  BY <1>1
<1> HIDE DEF q
<1>4. ASSUME NEW g, \A t \in TradesOf(j) : g[t] = t.quantity
      PROVE  Traded(j) = SumFunctionOnSet(g, TradesOf(j))
  <2>1. \A t \in TradesOf(j) : q[t] = g[t]
    BY <1>3, <1>4
  <2>2. SumFunctionOnSet(q, TradesOf(j)) = SumFunctionOnSet(g, TradesOf(j))
    BY <1>1, <2>1, SumSame
  <2>3. QED
    BY <1>2, <2>2
<1>5. QED
  BY <1>1, <1>4

LEMMA TradedSame ==
    ASSUME IsFiniteSet(trades), IsFiniteSet(trades'), trades \subseteq TradeRecord,
           trades' \subseteq TradeRecord, NEW j
    PROVE  /\ TradesOf(j)' = TradesOf(j) => Traded(j)' = Traded(j)
           /\ \A t \in trades' \ trades :
                 TradesOf(j)' = TradesOf(j) \cup {t} => Traded(j)' = Traded(j) + t.quantity
<1>1. PICK g, S, U : /\ g = [t \in trades' \cup trades |-> t.quantity]
                     /\ S = TradesOf(j) /\ U = TradesOf(j)'
  OBVIOUS
<1>2. S \subseteq trades /\ U \subseteq trades'
  BY <1>1 DEF TradesOf
<1>3. \A t \in trades' \cup trades : g[t] = t.quantity /\ g[t] \in Int /\ g[t] \in Nat
  BY <1>1 DEF TradeRecord
<1>4. IsFiniteSet(S) /\ Traded(j) = SumFunctionOnSet(g, S)
  BY <1>1, <1>2, <1>3, TradedSum
<1>5. Traded(j)' = SumFunctionOnSet(g, U)
  <2>1. Traded(j)' = SumFunctionOnSet([t \in trades' |-> t.quantity], U)
    BY <1>1 DEF Traded, TradesOf
  <2>2. PICK q : q = [t \in trades' |-> t.quantity]
    OBVIOUS
  <2>3. \A t \in U : q[t] = g[t]
    BY <1>2, <1>3, <2>2
  <2>4. IsFiniteSet(U)
    BY <1>2, FS_Subset
  <2>5. SumFunctionOnSet(q, U) = SumFunctionOnSet(g, U)
    BY <2>3, <2>4, SumSame
  <2>6. QED
    BY <2>1, <2>2, <2>5
<1>6. U = S => Traded(j)' = Traded(j)
  BY <1>4, <1>5
<1>7. ASSUME NEW t \in trades' \ trades, U = S \cup {t}
      PROVE  Traded(j)' = Traded(j) + t.quantity
  <2>1. t \notin S /\ \A y \in S \cup {t} : g[y] \in Int
    BY <1>2, <1>3
  <2>2. SumFunctionOnSet(g, S \cup {t}) = SumFunctionOnSet(g, S) + g[t]
    BY <1>4, <2>1, SumJoin
  <2>3. g[t] = t.quantity
    BY <1>3
  <2>4. QED
    BY <1>4, <1>5, <1>7, <2>2, <2>3
<1>8. QED
  BY <1>1, <1>6, <1>7

\* No two trades of a transaction have the same maker.
LEMMA MakersDiffer ==
    ASSUME MatchInv, NEW i \in Id, MatchedFills(i)
    PROVE  \A m, n \in DOMAIN fills[i] : fills[i][m].maker = fills[i][n].maker => m = n
<1> TAKE m, n \in DOMAIN fills[i]
<1> HAVE fills[i][m].maker = fills[i][n].maker
<1>1. fills[i] \in Seq(FillRecord) /\ Table
  BY DEF MatchInv, TakerTypes
<1>2. m \in Nat /\ n \in Nat
  BY <1>1, SequenceFacts
<1>3. fills[i][m].maker \in DOMAIN orders
  BY DEF MatchedFills
<1>4. ~Ahead(fills[i][m].maker, fills[i][m].maker)
  BY <1>1, <1>3, AheadNotSelf
<1>5. ~(m < n) /\ ~(n < m)
  BY <1>4 DEF MatchedFills
<1>6. QED
  BY <1>2, <1>5

\* What the commit of the only request under way does to the rows.
LEMMA CommitRows ==
    ASSUME MatchInv, NEW i \in Id, CommitOrder(i), TakerAlone(i)
    PROVE  /\ DOMAIN orders' = DOMAIN orders /\ i \in DOMAIN orders
           /\ ~Visible(i) /\ \A j \in MakersOf(i) : Visible(j) /\ j # i
           /\ \A j \in DOMAIN orders : j # i /\ j \notin MakersOf(i) => orders'[j] = orders[j]
           /\ \A n \in DOMAIN fills[i], j \in DOMAIN orders : j = fills[i][n].maker =>
                 /\ orders'[j].filled = orders[j].filled + fills[i][n].quantity
                 /\ orders'[j].remaining = orders[j].remaining - fills[i][n].quantity
                 /\ orders'[j].amount = orders[j].amount
                 /\ orders[j].status # "CANCELLED" /\ orders'[j].status # "CANCELLED"
           /\ orders'[i].filled = Filled(fills[i])
           /\ orders'[i].filled + orders'[i].remaining = orders'[i].amount
           /\ orders'[i].status # "CANCELLED"
<1>1. at[i] = "committing"
  BY DEF CommitOrder
<1>2. /\ i \in DOMAIN orders /\ InHand(i) /\ TakerOK(i) /\ TakerTypes /\ Table /\ orders[i] \in Row
      /\ orders[i].amount \in Nat
  BY <1>1, TakerFacts
<1>3. /\ DOMAIN orders' = DOMAIN orders
      /\ \A j \in DOMAIN orders : orders'[j] = IF j \in DOMAIN rows[i] THEN rows[i][j] ELSE orders[j]
  BY CommitEffects
<1>4. DOMAIN rows[i] = MakersOf(i) \cup {i}
  BY <1>1 DEF TakerAlone, MatchedRows
<1>5. ~Visible(i)
  BY <1>1, <1>2 DEF TakerOK, Progress, Visible
<1>6. \A n \in DOMAIN fills[i] :
         /\ fills[i][n].maker \in DOMAIN orders /\ Live(orders[fills[i][n].maker])
         /\ fills[i][n].maker # i /\ fills[i][n].maker \in DOMAIN rows[i]
         /\ rows[i][fills[i][n].maker] = Settled(orders[fills[i][n].maker], fills[i][n].quantity)
  BY DEF TakerAlone, MatchedFills
<1>7. \A j \in MakersOf(i) : Visible(j) /\ j # i
  BY <1>2, <1>6, LiveRow DEF MakersOf
<1>8. ASSUME NEW n \in DOMAIN fills[i], NEW j \in DOMAIN orders, j = fills[i][n].maker
      PROVE  /\ orders'[j].filled = orders[j].filled + fills[i][n].quantity
             /\ orders'[j].remaining = orders[j].remaining - fills[i][n].quantity
             /\ orders'[j].amount = orders[j].amount
             /\ orders[j].status # "CANCELLED" /\ orders'[j].status # "CANCELLED"
  <2>1. fills[i][n].quantity \in Nat
    <3>1. fills[i][n] \in FillRecord
      BY <1>2, SequenceFacts DEF InHand
    <3>2. QED
      BY <3>1 DEF FillRecord
  <2>2. /\ orders[j] \in Row /\ orders[j].remaining \in Nat /\ orders[j].filled \in Nat
        /\ orders[j].status # "CANCELLED"
    BY <1>2, <1>6, <1>8, LiveRow
  <2>p. PICK s : s = orders'[j]
    OBVIOUS
  <2>3. PICK o \in Row, q \in Nat : o = orders[j] /\ q = fills[i][n].quantity /\ s = orders'[j]
    BY <2>1, <2>2, <2>p
  <2>4. s = rows[i][j] /\ s = Settled(o, q)
    BY <1>3, <1>6, <1>8, <2>3
  <2>5. PICK f, r : f = o.filled + q /\ r = o.remaining - q
    OBVIOUS
  <2>6. s = Executed(o, f, r)
    BY <2>4, <2>5 DEF Settled
  <2>7. s.filled = f /\ s.remaining = r /\ s.amount = o.amount /\ s.status = StatusOf(f, r)
    BY <2>6 DEF Executed, Row
  <2>8. StatusOf(f, r) # "CANCELLED"
    BY DEF StatusOf
  <2>9. QED
    BY <2>2, <2>3, <2>5, <2>7, <2>8
<1>9. /\ orders'[i].filled = Filled(fills[i])
      /\ orders'[i].filled + orders'[i].remaining = orders'[i].amount
      /\ orders'[i].status # "CANCELLED"
  <2>1. Left(i) = orders[i].amount - Filled(fills[i]) /\ Filled(fills[i]) \in Nat /\ Left(i) \in Nat
    BY <1>1, <1>2, LeftIs, FilledType DEF InHand, TakerOK, Progress
  <2>2. orders'[i] = Executed(orders[i], orders[i].amount - Left(i), Left(i))
    BY <1>1, <1>2, <1>3, <1>4 DEF TakerAlone, FreshReads
  <2>p. PICK f, r, s : f = orders[i].amount - Left(i) /\ r = Left(i) /\ s = orders'[i]
    OBVIOUS
  <2>3. PICK o \in Row : /\ o = orders[i] /\ f = orders[i].amount - Left(i)
                         /\ r = Left(i) /\ s = orders'[i]
    BY <1>2, <2>p
  <2>4. s = Executed(o, f, r)
    BY <2>2, <2>3
  <2>5. s.filled = f /\ s.remaining = r /\ s.amount = o.amount /\ s.status = StatusOf(f, r)
    BY <2>4 DEF Executed, Row
  <2>6. StatusOf(f, r) # "CANCELLED"
    BY DEF StatusOf
  <2>7. QED
    BY <1>2, <2>1, <2>3, <2>5, <2>6
<1>10. \A j \in DOMAIN orders : j # i /\ j \notin MakersOf(i) => orders'[j] = orders[j]
  BY <1>3, <1>4
<1>11. QED
  BY <1>2, <1>3, <1>5, <1>7, <1>8, <1>9, <1>10

LEMMA CommitOrderAccounts ==
    ASSUME MatchInv, Alone, IsFiniteSet(trades), Accounts, NEW i \in Id, CommitOrder(i), MatchInv'
    PROVE  Accounts'
<1>1. /\ at[i] = "committing" /\ UNCHANGED <<cancel, unlocked>>
      /\ trades' = trades \cup NewTrades(i, fills[i])
  BY DEF CommitOrder, TradeOf, NewTrades
<1>2. TakerAlone(i) /\ Cancelling = {}
  BY <1>1 DEF Alone, Placing
<1>3. fills[i] \in Seq(FillRecord) /\ trades \subseteq TradeRecord /\ trades' \subseteq TradeRecord
      /\ \A k \in Id : unlocked[k] # 0 => Visible(k)
  BY DEF MatchInv, TakerTypes, Rest, TradeRecord, Funds
<1>4. PICK T : T = NewTrades(i, fills[i])
  OBVIOUS
<1>5. \A m, n \in DOMAIN fills[i] : fills[i][m].maker = fills[i][n].maker => m = n
  BY <1>2, MakersDiffer DEF TakerAlone
<1>6. PICK s \in Seq(FillRecord) : s = fills[i]
  BY <1>3
<1>7. /\ IsFiniteSet(T) /\ T \subseteq TradeRecord
      /\ \A t \in T : t.taker = i /\ \E n \in DOMAIN s : t = TradeOf(i, s[n])
      /\ \A n \in DOMAIN s : TradeOf(i, s[n]) \in T
      /\ \A n \in DOMAIN s : TradeOf(i, s[n]).maker = s[n].maker /\ TradeOf(i, s[n]).quantity = s[n].quantity
      /\ \A g : (\A t \in T : g[t] = t.quantity) => SumFunctionOnSet(g, T) = Filled(s)
  <2>1. \A m, n \in DOMAIN s : s[m].maker = s[n].maker => m = n
    BY <1>5, <1>6
  <2>2. T = NewTrades(i, s)
    BY <1>4, <1>6
  <2>3. QED
    BY <2>1, <2>2, TradesOfFills
<1>8. trades' = trades \cup T /\ IsFiniteSet(trades')
  BY <1>1, <1>4, <1>7, FS_Union
<1>9. /\ DOMAIN orders' = DOMAIN orders /\ i \in DOMAIN orders
      /\ ~Visible(i) /\ \A j \in MakersOf(i) : Visible(j) /\ j # i
      /\ \A j \in DOMAIN orders : j # i /\ j \notin MakersOf(i) => orders'[j] = orders[j]
      /\ \A n \in DOMAIN fills[i], j \in DOMAIN orders : j = fills[i][n].maker =>
            /\ orders'[j].filled = orders[j].filled + fills[i][n].quantity
            /\ orders'[j].remaining = orders[j].remaining - fills[i][n].quantity
            /\ orders'[j].amount = orders[j].amount
            /\ orders[j].status # "CANCELLED" /\ orders'[j].status # "CANCELLED"
      /\ orders'[i].filled = Filled(fills[i])
      /\ orders'[i].filled + orders'[i].remaining = orders'[i].amount
      /\ orders'[i].status # "CANCELLED"
  BY <1>2, CommitRows
<1>10. \A t \in trades : Visible(t.maker) /\ Visible(t.taker) /\ t.maker # i /\ t.taker # i
  BY <1>9 DEF Accounts
<1>11. \A t \in T : t.taker = i /\ t.maker # i /\ t.maker \in MakersOf(i) /\ t \notin trades
  <2> TAKE t \in T
  <2>1. PICK n \in DOMAIN s : t = TradeOf(i, s[n])
    BY <1>7
  <2>2. t.maker = fills[i][n].maker /\ n \in DOMAIN fills[i]
    BY <1>6, <1>7, <2>1
  <2>3. t.maker \in MakersOf(i)
    BY <2>2 DEF MakersOf
  <2>4. QED
    BY <1>7, <1>9, <1>10, <2>3
\* Whoever is visible stays so, and order i becomes visible.
<1>12. \A j : Visible(j) \/ j = i => Visible(j)'
  <2>1. \A j : Visible(j) => Visible(j)'
    BY CommitEffects, VisibleKept
  <2>2. Visible(i)'
    <3>1. i \in DOMAIN rows[i] /\ rows[i][i].status # "NONE"
      BY <1>1, <1>2 DEF TakerAlone, MatchedRows, MatchInv, TakerOK, OwnRows
    <3>2. orders'[i] = rows[i][i]
      BY <1>9, <3>1, CommitEffects
    <3>3. QED
      BY <1>9, <3>1, <3>2 DEF Visible
  <2>3. QED
    BY <2>1, <2>2
<1>13. \A t \in trades' : Visible(t.maker)' /\ Visible(t.taker)'
  <2> SUFFICES ASSUME NEW t \in trades', NEW j \in {t.maker, t.taker} PROVE Visible(j)'
    BY DEF Visible
  <2>1. CASE t \in trades
    BY <1>10, <1>12, <2>1
  <2>2. CASE t \in T
    BY <1>9, <1>11, <1>12, <2>2
  <2>3. QED
    BY <1>8, <2>1, <2>2
<1>14. \A j : ~Unlocking(j) /\ ~Unlocking(j)'
  BY <1>1, <1>2 DEF Unlocking, Cancelling
<1>15. ASSUME NEW j \in DOMAIN orders, j # i, Visible(j) \/ j \in MakersOf(i)
       PROVE  /\ orders'[j].filled = Traded(j)'
              /\ orders'[j].filled + orders'[j].remaining = orders'[j].amount
              /\ unlocked'[j] = IF orders'[j].status = "CANCELLED" THEN orders'[j].remaining ELSE 0
  <2>1. Visible(j)
    BY <1>9, <1>15
  <2>2. /\ orders[j].filled = Traded(j)
        /\ orders[j].filled + orders[j].remaining = orders[j].amount
        /\ unlocked[j] = IF orders[j].status = "CANCELLED" THEN orders[j].remaining ELSE 0
    BY <1>14, <2>1 DEF Accounts
  <2>3. CASE j \notin MakersOf(i)
    <3>1. TradesOf(j)' = TradesOf(j)
      <4>1. \A t \in T : j \notin {t.maker, t.taker}
        BY <1>11, <1>15, <2>3
      <4>2. QED
        BY <1>8, <4>1 DEF TradesOf
    <3>2. Traded(j)' = Traded(j)
      BY <1>3, <1>8, <3>1, TradedSame
    <3>3. orders'[j] = orders[j]
      BY <1>9, <1>15, <2>3
    <3>4. QED
      BY <1>1, <2>2, <3>2, <3>3
  <2>4. CASE j \in MakersOf(i)
    <3>1. PICK n \in DOMAIN s : j = s[n].maker /\ n \in DOMAIN fills[i] /\ fills[i][n] = s[n]
      BY <1>6, <2>4 DEF MakersOf
    <3>2. PICK t \in T : t = TradeOf(i, s[n])
      BY <1>7
    <3>3. t.maker = j /\ t.quantity = s[n].quantity /\ t \in trades' \ trades /\ t.quantity \in Nat
      BY <1>7, <1>8, <1>11, <3>1, <3>2 DEF TradeRecord
    <3>4. \A u \in T : j \in {u.maker, u.taker} => u = t
      <4> SUFFICES ASSUME NEW u \in T, j \in {u.maker, u.taker} PROVE u = t
        OBVIOUS
      <4>1. u.maker = j
        BY <1>11, <1>15
      <4>2. PICK m \in DOMAIN s : u = TradeOf(i, s[m])
        BY <1>7
      <4>3. s[m].maker = s[n].maker
        BY <1>7, <3>1, <4>1, <4>2
      <4>4. m = n
        BY <1>5, <1>6, <4>3
      <4>5. QED
        BY <3>2, <4>2, <4>4
    <3>5. TradesOf(j)' = TradesOf(j) \cup {t}
      BY <1>8, <3>3, <3>4 DEF TradesOf
    <3>6. Traded(j)' = Traded(j) + t.quantity
      BY <1>3, <1>8, <3>3, <3>5, TradedSame
    <3>7. /\ orders'[j].filled = orders[j].filled + t.quantity
          /\ orders'[j].remaining = orders[j].remaining - t.quantity
          /\ orders'[j].amount = orders[j].amount
          /\ orders[j].status # "CANCELLED" /\ orders'[j].status # "CANCELLED"
      BY <1>9, <3>1, <3>3
    <3>8. orders[j].filled \in Nat /\ orders[j].remaining \in Nat
      BY OrderLengths, RowFields DEF MatchInv
    <3>9. QED
      BY <1>1, <2>2, <3>3, <3>6, <3>7, <3>8
  <2>5. QED
    BY <2>3, <2>4
<1>16. /\ orders'[i].filled = Traded(i)'
       /\ orders'[i].filled + orders'[i].remaining = orders'[i].amount
       /\ unlocked'[i] = 0 /\ orders'[i].status # "CANCELLED"
  <2>1. TradesOf(i)' = T
    BY <1>8, <1>10, <1>11 DEF TradesOf
  <2>2. PICK q : q = [t \in trades' |-> t.quantity]
    OBVIOUS
  <2>3. Traded(i)' = SumFunctionOnSet(q, T)
    BY <2>1, <2>2 DEF Traded, TradesOf
  <2>4. \A t \in T : q[t] = t.quantity
    BY <1>8, <2>2
  <2>5. Traded(i)' = Filled(fills[i])
    BY <1>6, <1>7, <2>3, <2>4
  <2>6. unlocked'[i] = 0
    BY <1>1, <1>3, <1>9
  <2>7. QED
    BY <1>9, <2>5, <2>6
<1>17. ASSUME NEW j \in DOMAIN orders', Visible(j)'
       PROVE  /\ orders'[j].filled = Traded(j)'
              /\ orders'[j].filled + orders'[j].remaining = orders'[j].amount
              /\ unlocked'[j] = IF orders'[j].status = "CANCELLED" /\ ~Unlocking(j)'
                                THEN orders'[j].remaining ELSE 0
  <2>1. CASE j = i
    BY <1>16, <2>1
  <2>2. CASE j # i
    <3>1. Visible(j) \/ j \in MakersOf(i)
      BY <1>9, <1>17, <2>2 DEF Visible
    <3>2. QED
      BY <1>9, <1>14, <1>15, <2>2, <3>1
  <2>3. QED
    BY <2>1, <2>2
<1>18. QED
  BY <1>13, <1>17 DEF Accounts

-----------------------------------------------------------------------------

\* Where no trade is made, and every visible row is as it was or accounted for anew.
LEMMA AccountsKept ==
    ASSUME Accounts, trades' = trades,
           \A j : Visible(j) <=> Visible(j)',
           \A j \in DOMAIN orders : Visible(j) =>
              /\ orders'[j].filled = orders[j].filled /\ orders'[j].remaining = orders[j].remaining
              /\ orders'[j].amount = orders[j].amount
              /\ unlocked'[j] = IF orders'[j].status = "CANCELLED" /\ ~Unlocking(j)'
                                THEN orders'[j].remaining ELSE 0
    PROVE  Accounts'
<1>1. \A j : Traded(j)' = Traded(j)
  BY DEF Traded
<1>2. \A t \in trades' : Visible(t.maker)' /\ Visible(t.taker)'
  <2> SUFFICES ASSUME NEW t \in trades', NEW j \in {t.maker, t.taker} PROVE Visible(j)'
    BY DEF Visible
  <2>1. Visible(j)
    BY DEF Accounts
  <2>2. QED
    BY <2>1
<1>3. ASSUME NEW j \in DOMAIN orders', Visible(j)'
      PROVE  /\ orders'[j].filled = Traded(j)'
             /\ orders'[j].filled + orders'[j].remaining = orders'[j].amount
             /\ unlocked'[j] = IF orders'[j].status = "CANCELLED" /\ ~Unlocking(j)'
                               THEN orders'[j].remaining ELSE 0
  <2>1. Visible(j) /\ j \in DOMAIN orders
    BY <1>3 DEF Visible
  <2>2. orders[j].filled = Traded(j) /\ orders[j].filled + orders[j].remaining = orders[j].amount
    BY <2>1 DEF Accounts
  <2>3. QED
    BY <1>1, <2>1, <2>2
<1>4. QED
  BY <1>2, <1>3 DEF Accounts

\* The table and the funds stay the same, and nobody begins or ends to unlock.
LEMMA AccountsSame ==
    ASSUME Accounts, UNCHANGED <<orders, trades, unlocked>>, \A j : Unlocking(j)' <=> Unlocking(j)
    PROVE  Accounts'
<1>1. \A j : Visible(j) <=> Visible(j)'
  BY DEF Visible
<1>2. \A j \in DOMAIN orders : Visible(j) =>
         unlocked'[j] = IF orders'[j].status = "CANCELLED" /\ ~Unlocking(j)'
                        THEN orders'[j].remaining ELSE 0
  BY DEF Accounts
<1>3. QED
  BY <1>1, <1>2, AccountsKept

LEMMA PlaceOrderAccounts ==
    ASSUME MatchInv, Accounts, NEW r \in Request, PlaceOrder(r)
    PROVE  Accounts'
<1>0. PICK i, o : /\ i = Len(orders) + 1
                  /\ o = [user |-> r.user, side |-> r.side, price |-> r.price, amount |-> r.amount,
                          filled |-> 0, remaining |-> r.amount, status |-> "NONE"]
  OBVIOUS
<1>1. orders' = Append(orders, o) /\ UNCHANGED <<trades, cancel, unlocked>>
  BY <1>0 DEF PlaceOrder
<1>2. Table /\ Len(orders) \in Nat /\ DOMAIN orders = 1 .. Len(orders)
  BY OrderLengths DEF MatchInv
<1>3. o.status = "NONE" /\ o \in Row
  BY <1>0, RequestAssumption DEF Row
<1>4. /\ DOMAIN orders' = DOMAIN orders \cup {i} /\ orders'[i] = o /\ i \notin DOMAIN orders
      /\ \A j \in DOMAIN orders : orders'[j] = orders[j]
  <2>1. orders \in Seq(Row)
    BY <1>2 DEF Table
  <2>2. /\ DOMAIN Append(orders, o) = 1 .. Len(orders) + 1
        /\ \A n \in DOMAIN orders : Append(orders, o)[n] = orders[n]
        /\ Append(orders, o)[Len(orders) + 1] = o
    BY <1>3, <2>1, AppendFacts
  <2>3. QED
    BY <1>0, <1>1, <1>2, <2>2
<1>5. \A j : Visible(j) <=> Visible(j)'
  BY <1>3, <1>4 DEF Visible
<1>6. \A j : Unlocking(j)' <=> Unlocking(j)
  BY <1>1 DEF Unlocking, Cancelling
<1>7. \A j \in DOMAIN orders : Visible(j) =>
         unlocked'[j] = IF orders'[j].status = "CANCELLED" /\ ~Unlocking(j)'
                        THEN orders'[j].remaining ELSE 0
  BY <1>1, <1>4, <1>6 DEF Accounts
<1>8. QED
  BY <1>1, <1>4, <1>5, <1>7, AccountsKept

\* A canceller that does not unlock before or after a step.
LEMMA UnlockingKept ==
    ASSUME MatchInv, NEW c \in Canceller, NEW rec, cancel' = [cancel EXCEPT ![c] = rec],
           cancel[c].pc # "cancelled", rec.pc # "cancelled"
    PROVE  \A j : Unlocking(j)' <=> Unlocking(j)
<1>1. cancel'[c] = rec /\ \A d \in Canceller \ {c} : cancel'[d] = cancel[d]
  BY DEF MatchInv, CancelTypes
<1>2. \A j : Unlocking(j) <=> \E d \in Canceller : cancel[d].pc = "cancelled" /\ cancel[d].order = j
  BY DEF Unlocking, Cancelling
<1>3. \A j : Unlocking(j)' <=> \E d \in Canceller : cancel'[d].pc = "cancelled" /\ cancel'[d].order = j
  BY DEF Unlocking, Cancelling
<1>4. QED
  BY <1>1, <1>2, <1>3

LEMMA BeginCancelAccounts ==
    ASSUME MatchInv, Accounts, NEW c \in Canceller, NEW i \in Id, BeginCancel(c, i)
    PROVE  Accounts'
<1>0. PICK rec : rec = [pc |-> "found", order |-> i, amount |-> 0]
  OBVIOUS
<1>1. /\ cancel[c].pc = "idle" /\ cancel' = [cancel EXCEPT ![c] = rec]
      /\ UNCHANGED <<orders, trades, unlocked>>
  BY <1>0 DEF BeginCancel
<1>2. rec.pc = "found"
  BY <1>0
<1>3. QED
  BY <1>1, <1>2, UnlockingKept, AccountsSame

LEMMA RemoveOrderAccounts ==
    ASSUME MatchInv, Accounts, NEW c \in Canceller, RemoveOrder(c)
    PROVE  Accounts'
<1>0. PICK rec : rec = [cancel[c] EXCEPT !.pc = "removed"]
  OBVIOUS
<1>1. /\ cancel[c].pc = "found" /\ cancel' = [cancel EXCEPT ![c].pc = "removed"]
      /\ UNCHANGED <<orders, trades, unlocked>>
  BY DEF RemoveOrder
<1>2. rec.pc = "removed" /\ cancel' = [cancel EXCEPT ![c] = rec]
  <2>1. cancel[c] \in CancelRecord
    BY CancelFacts
  <2>2. QED
    BY <1>0, <1>1, <2>1 DEF CancelRecord
<1>3. QED
  BY <1>1, <1>2, UnlockingKept, AccountsSame

\* The row is cancelled, and its funds are still locked.
LEMMA CancelRowAccounts ==
    ASSUME MatchInv, Alone, Accounts, NEW c \in Canceller, CancelRow(c)
    PROVE  Accounts'
<1>0. PICK i : i = cancel[c].order
  OBVIOUS
<1>1. cancel[c].pc = "removed" /\ UNCHANGED <<trades, unlocked>>
  BY DEF CancelRow
<1>2. Cancelling = {c} /\ CancelAlone(c) /\ CancelTypes
  BY <1>1 DEF MatchInv, Alone, Cancelling
<1>3. cancel[c] \in CancelRecord /\ Live(orders[i]) /\ Visible(i)
  BY <1>0, <1>1, <1>2, CancelFacts DEF CancelAlone
<1>4. /\ DOMAIN orders' = DOMAIN orders /\ i \in DOMAIN orders
      /\ \A j \in DOMAIN orders \ {i} : orders'[j] = orders[j]
      /\ orders'[i].status = "CANCELLED" /\ SameTerms(orders[i], orders'[i])
      /\ orders'[i].filled = orders[i].filled /\ orders'[i].remaining = orders[i].remaining
  BY <1>0, <1>3, CancelRowEffects
<1>5. PICK rec : rec = [cancel[c] EXCEPT !.pc = "cancelled", !.amount = orders[i].remaining]
  OBVIOUS
<1>6. rec.pc = "cancelled" /\ rec.order = i
  BY <1>0, <1>3, <1>5 DEF CancelRecord
<1>7. cancel' = [cancel EXCEPT ![c] = rec]
  BY <1>0, <1>3, <1>5 DEF CancelRow
<1>8. cancel'[c] = rec /\ Cancelling' = {c}
  BY <1>2, <1>6, <1>7, CancellerMoves
<1>9. \A j : ~Unlocking(j) /\ (Unlocking(j)' <=> j = i)
  BY <1>1, <1>2, <1>6, <1>8 DEF Unlocking
<1>10. \A j : Visible(j) <=> Visible(j)'
  <2>1. Visible(i) /\ Visible(i)'
    BY <1>3, <1>4 DEF Visible
  <2>2. \A j : j # i => (Visible(j) <=> Visible(j)')
    BY <1>4 DEF Visible
  <2>3. QED
    BY <2>1, <2>2
<1>11. \A j \in DOMAIN orders : Visible(j) =>
          /\ orders'[j].filled = orders[j].filled /\ orders'[j].remaining = orders[j].remaining
          /\ orders'[j].amount = orders[j].amount
          /\ unlocked'[j] = IF orders'[j].status = "CANCELLED" /\ ~Unlocking(j)'
                            THEN orders'[j].remaining ELSE 0
  <2> SUFFICES ASSUME NEW j \in DOMAIN orders, Visible(j)
               PROVE  /\ orders'[j].filled = orders[j].filled /\ orders'[j].remaining = orders[j].remaining
                      /\ orders'[j].amount = orders[j].amount
                      /\ unlocked'[j] = IF orders'[j].status = "CANCELLED" /\ ~Unlocking(j)'
                                        THEN orders'[j].remaining ELSE 0
    OBVIOUS
  <2>1. unlocked[j] = IF orders[j].status = "CANCELLED" THEN orders[j].remaining ELSE 0
    BY <1>9 DEF Accounts
  <2>2. CASE j = i
    <3>1. orders[i].status # "CANCELLED"
      BY <1>3 DEF Live
    <3>2. QED
      BY <1>1, <1>4, <1>9, <2>1, <2>2, <3>1 DEF SameTerms
  <2>3. CASE j # i
    BY <1>1, <1>4, <1>9, <2>1, <2>3
  <2>4. QED
    BY <2>2, <2>3
<1>12. QED
  BY <1>1, <1>10, <1>11, AccountsKept

\* The funds of what remained are unlocked, once.
LEMMA UnlockAccounts ==
    ASSUME MatchInv, Alone, Accounts, NEW c \in Canceller, Unlock(c)
    PROVE  Accounts'
<1>0. PICK i, n : i = cancel[c].order /\ n = cancel[c].amount
  OBVIOUS
<1>1. /\ cancel[c].pc = "cancelled" /\ unlocked' = [unlocked EXCEPT ![i] = unlocked[i] + n]
      /\ cancel' = [cancel EXCEPT ![c] = Idle] /\ UNCHANGED <<orders, trades>>
  BY <1>0 DEF Unlock
<1>2. Cancelling = {c} /\ CancelAlone(c) /\ CancelTypes /\ Funds
  BY <1>1 DEF MatchInv, Alone, Cancelling
<1>3. /\ i \in Id /\ Visible(i) /\ orders[i].status = "CANCELLED" /\ n = orders[i].remaining /\ n \in Nat
  BY <1>0, <1>1, <1>2, CancelFacts DEF CancelAlone, CancelRecord
<1>4. Cancelling' = {}
  BY <1>1, <1>2, IdleCancel, CancellerMoves
<1>5. \A j : ~Unlocking(j)' /\ (Unlocking(j) <=> j = i)
  BY <1>0, <1>1, <1>2, <1>4 DEF Unlocking
<1>6. unlocked[i] = 0
  BY <1>3, <1>5 DEF Accounts, Visible
<1>7. unlocked'[i] = n /\ \A j \in Id \ {i} : unlocked'[j] = unlocked[j]
  BY <1>1, <1>2, <1>3, <1>6 DEF Funds
<1>8. \A j : Visible(j) <=> Visible(j)'
  BY <1>1 DEF Visible
<1>9. \A j \in DOMAIN orders : Visible(j) =>
         unlocked'[j] = IF orders'[j].status = "CANCELLED" /\ ~Unlocking(j)'
                        THEN orders'[j].remaining ELSE 0
  <2> SUFFICES ASSUME NEW j \in DOMAIN orders, Visible(j)
               PROVE  unlocked'[j] = IF orders'[j].status = "CANCELLED" /\ ~Unlocking(j)'
                                     THEN orders'[j].remaining ELSE 0
    OBVIOUS
  <2>1. CASE j = i
    BY <1>1, <1>3, <1>5, <1>7, <2>1
  <2>2. CASE j # i
    <3>1. j \in Id
      BY OrderLengths DEF MatchInv
    <3>2. unlocked[j] = IF orders[j].status = "CANCELLED" THEN orders[j].remaining ELSE 0
      BY <1>5, <2>2 DEF Accounts
    <3>3. QED
      BY <1>1, <1>5, <1>7, <2>2, <3>1, <3>2
  <2>3. QED
    BY <2>1, <2>2
<1>10. QED
  BY <1>1, <1>8, <1>9, AccountsKept

LEMMA RestartAccounts ==
    ASSUME MatchInv, serial => Alone /\ Accounts, Restart, serial'
    PROVE  Accounts'
<1>1. serial' = (serial /\ Active = 0) /\ UNCHANGED <<orders, trades, unlocked>>
  BY DEF Restart
<1>2. Accounts /\ Cancelling = {}
  BY <1>1, ActiveZero
<1>3. Cancelling' = {}
  <2>1. cancel' = [c \in Canceller |-> Idle]
    BY DEF Restart
  <2>2. QED
    BY <2>1, IdleCancel DEF Cancelling
<1>4. \A j : Unlocking(j)' <=> Unlocking(j)
  BY <1>2, <1>3 DEF Unlocking
<1>5. QED
  BY <1>1, <1>2, <1>4, AccountsSame

LEMMA InitAccounts == MatchingInit => AccountsInv
<1> SUFFICES ASSUME MatchingInit PROVE AccountsInv
  OBVIOUS
<1>1. trades = {} /\ DOMAIN orders = {}
  BY DEF MatchingInit
<1>2. QED
  BY <1>1, InitAlone, FS_EmptySet DEF AccountsInv, Accounts

\* The trades stay finitely many.
LEMMA TradesFinite ==
    ASSUME AloneInv, IsFiniteSet(trades), [MatchingNext]_matchingVars
    PROVE  IsFiniteSet(trades')
<1>1. ASSUME NEW i \in Id, CommitOrder(i) PROVE IsFiniteSet(trades')
  <2>1. fills[i] \in Seq(FillRecord)
    BY DEF AloneInv, MatchInv, TakerTypes
  <2>2. PICK s \in Seq(FillRecord) : s = fills[i]
    BY <2>1
  <2> DEFINE h == [n \in DOMAIN s |-> TradeOf(i, s[n])]
  <2>3. h \in Surjection(DOMAIN s, NewTrades(i, s))
    BY DEF Surjection, NewTrades, ToSet
  <2> HIDE DEF h
  <2>4. IsFiniteSet(DOMAIN s)
    BY SequenceFacts, FS_Interval
  <2>5. IsFiniteSet(NewTrades(i, s))
    BY <2>3, <2>4, FS_Surjection
  <2>6. trades' = trades \cup NewTrades(i, s)
    BY <1>1, <2>2 DEF CommitOrder, NewTrades, TradeOf
  <2>7. QED
    BY <2>5, <2>6, FS_Union
<1>2. (\A i \in Id : ~CommitOrder(i)) => trades' = trades
  BY DEF MatchingNext, matchingVars, PlaceOrder, ReadBook, ReadDetails, FindMaker, UpdateMaker, UpdateBook,
         AddTaker, RollbackOrder, BeginCancel, RemoveOrder, CancelRow, Unlock, CancelFails, Restart
<1>3. QED
  BY <1>1, <1>2

LEMMA NextAccounts == AccountsInv /\ [MatchingNext]_matchingVars => AccountsInv'
<1> SUFFICES ASSUME AccountsInv, [MatchingNext]_matchingVars PROVE AccountsInv'
  OBVIOUS
<1>0. MatchInv /\ MatchInv' /\ AloneInv' /\ IsFiniteSet(trades) /\ (serial => Alone /\ Accounts)
  BY NextAlone DEF AccountsInv, AloneInv
<1>t. IsFiniteSet(trades')
  BY TradesFinite DEF AccountsInv
<1> SUFFICES ASSUME serial' PROVE Accounts'
  BY <1>0, <1>t DEF AccountsInv
<1>1. ASSUME NEW r \in Request, PlaceOrder(r) PROVE Accounts'
  <2>1. serial
    BY <1>1 DEF PlaceOrder, Begin
  <2>2. QED
    BY <1>0, <1>1, <2>1, PlaceOrderAccounts
<1>2. ASSUME NEW i \in Id,
             \/ ReadBook(i) \/ ReadDetails(i) \/ FindMaker(i) \/ UpdateMaker(i)
             \/ UpdateBook(i) \/ AddTaker(i)
      PROVE Accounts'
  <2>1. serial' = serial /\ UNCHANGED <<orders, trades, unlocked, cancel>>
    BY <1>2 DEF ReadBook, ReadDetails, FindMaker, UpdateMaker, UpdateBook, AddTaker
  <2>2. \A j : Unlocking(j)' <=> Unlocking(j)
    BY <2>1 DEF Unlocking, Cancelling
  <2>3. QED
    BY <1>0, <2>1, <2>2, AccountsSame
<1>3. ASSUME NEW i \in Id, CommitOrder(i) PROVE Accounts'
  <2>1. serial' = serial
    BY <1>3 DEF CommitOrder
  <2>2. QED
    BY <1>0, <1>3, <2>1, CommitOrderAccounts
<1>4. ASSUME NEW i \in Id, RollbackOrder(i) PROVE Accounts'
  BY <1>4 DEF RollbackOrder
<1>5. ASSUME NEW c \in Canceller, NEW i \in Id, BeginCancel(c, i) PROVE Accounts'
  <2>1. serial
    BY <1>5 DEF BeginCancel, Begin
  <2>2. QED
    BY <1>0, <1>5, <2>1, BeginCancelAccounts
<1>6. ASSUME NEW c \in Canceller, RemoveOrder(c) \/ CancelRow(c) \/ Unlock(c) PROVE Accounts'
  <2>1. serial' = serial
    BY <1>6 DEF RemoveOrder, CancelRow, Unlock
  <2>2. QED
    BY <1>0, <1>6, <2>1, RemoveOrderAccounts, CancelRowAccounts, UnlockAccounts
<1>7. ASSUME NEW c \in Canceller, CancelFails(c) PROVE Accounts'
  BY <1>7 DEF CancelFails
<1>8. CASE Restart
  BY <1>0, <1>8, RestartAccounts
<1>9. CASE UNCHANGED matchingVars
  <2>1. serial' = serial /\ UNCHANGED <<orders, trades, unlocked, cancel>>
    BY <1>9 DEF matchingVars
  <2>2. \A j : Unlocking(j)' <=> Unlocking(j)
    BY <2>1 DEF Unlocking, Cancelling
  <2>3. QED
    BY <1>0, <2>1, <2>2, AccountsSame
<1>10. QED
  BY <1>1, <1>2, <1>3, <1>4, <1>5, <1>6, <1>7, <1>8, <1>9 DEF MatchingNext

\* As long as no requests overlap and none fails, the filled amount of every order in
\* the table is what its trades in the outbox add up to, filled and remaining make up
\* its amount, and funds are unlocked for cancelled orders only, once and in full.
THEOREM MatchingRowsTellTrades == MatchingSpec => []RowsTellTrades
<1>1. MatchingInit => AccountsInv
  BY InitAccounts
<1>2. AccountsInv /\ [MatchingNext]_matchingVars => AccountsInv'
  BY NextAccounts
<1>3. AccountsInv => RowsTellTrades
  BY DEF AccountsInv, Accounts, RowsTellTrades
<1>4. QED
  BY <1>1, <1>2, <1>3, PTL DEF MatchingSpec

-----------------------------------------------------------------------------
(***************************************************************************)
(* Matching implements Exchange. What an order trades one maker after the  *)
(* other is what the sum of the makers ahead of each leaves for it.        *)
(***************************************************************************)

\* The live orders of its side that come before order j.
Better(j) == {k \in DOMAIN orders : /\ Live(orders[k]) /\ orders[k].side = orders[j].side
                                    /\ Ahead(k, j)}

\* The orders a taker is to look at.
Offered(i) == {j \in DOMAIN orders : /\ Live(orders[j]) /\ orders[j].side # orders[i].side
                                     /\ Cardinality(Better(j)) < Limit}

Unread(i) == {ids[i][n] : n \in DOMAIN ids[i]}
Unmatched(i) == {entries[i][n].order : n \in DOMAIN entries[i]}

\* It goes through what it was offered, but for orders of its own user.
InSight(i) == Unread(i) \cup Unmatched(i) \cup MakersOf(i)
GoesThrough(i) ==
    /\ InSight(i) \subseteq Offered(i)
    /\ \A j \in Offered(i) : orders[j].user # orders[i].user => j \in InSight(i)
    /\ \A j \in Unmatched(i) : orders[j].user # orders[i].user

\* The maker is filled, or it is the last and nothing is left of the taker.
WholeFills(i) ==
    \A n \in DOMAIN fills[i] :
        LET f == fills[i][n]
        IN  /\ Crosses(orders[i], orders[f.maker])
            /\ f.quantity <= orders[f.maker].remaining
            /\ f.quantity = orders[f.maker].remaining \/ (n = Len(fills[i]) /\ Left(i) = 0)

Course(i) ==
    /\ at[i] # "reading" => GoesThrough(i)
    /\ WholeFills(i)
    /\ at[i] \in {"updating", "booking"} => HasMatch(i)
    /\ at[i] = "committing" => ~HasMatch(i)

\* The order being placed is the last one, and every other is seen.
InOrder == \A j \in DOMAIN orders : Visible(j) \/ (j \in Placing /\ j = Len(orders))

\* Every order has been asked for.
Asked == \A j \in DOMAIN orders : \E r \in Request : SameTerms(orders[j], r)

OnCourse == InOrder /\ \A i \in Placing : Course(i)
CourseInv == AccountsInv /\ Asked /\ (serial => OnCourse)

LEMMA IdFinite == IsFiniteSet(Id)
<1>1. 1 \in Int /\ MaxOrders \in Int
  BY RequestAssumption
<1>2. IsFiniteSet(1 .. MaxOrders)
  BY <1>1, FS_Interval
<1>3. QED
  BY <1>2 DEF Id

LEMMA SumWithout ==
    ASSUME NEW g, NEW K, IsFiniteSet(K), \A k \in K : g[k] \in Nat \ {0},
           NEW l \in K, NEW L, L = K \ {l}
    PROVE  SumFunctionOnSet(g, K) = g[l] + SumFunctionOnSet(g, L)
<1>1. \A j \in K : g[j] \in Int
  OBVIOUS
<1>2. QED
  BY <1>1, SumRemove

\* The sum over makers that differ is the sum over the fills.
LEMMA FilledOfMakers ==
    ASSUME NEW s \in Seq(FillRecord), NEW K,
           \A n \in DOMAIN s : s[n].maker \in K, \A k \in K : \E n \in DOMAIN s : s[n].maker = k,
           \A m, n \in DOMAIN s : s[m].maker = s[n].maker => m = n,
           NEW g, \A n \in DOMAIN s : g[s[n].maker] = s[n].quantity
    PROVE  IsFiniteSet(K) /\ SumFunctionOnSet(g, K) = Filled(s) /\ \A k \in K : g[k] \in Nat \ {0}
<1> DEFINE h == [n \in DOMAIN s |-> s[n].maker]
           f == [n \in DOMAIN s |-> s[n].quantity]
           index == [k \in K |-> CHOOSE n \in DOMAIN s : k = s[n].maker]
<1>1. Len(s) \in Nat /\ DOMAIN s = 1 .. Len(s) /\ \A n \in DOMAIN s : s[n] \in FillRecord
  BY SequenceFacts
<1>2. IsFiniteSet(DOMAIN s)
  <2>1. 1 \in Int /\ Len(s) \in Int
    BY <1>1
  <2>2. IsFiniteSet(1 .. Len(s))
    BY <2>1, FS_Interval
  <2>3. QED
    BY <1>1, <2>2
<1>3. \A n \in DOMAIN s : /\ f[n] \in Nat \ {0} /\ h[n] \in K /\ g[h[n]] = f[n]
  BY <1>1 DEF FillRecord
<1>4. \A m, n \in DOMAIN s : h[m] = h[n] => m = n
  OBVIOUS
<1>5. \A k \in K : index[k] \in DOMAIN s /\ h[index[k]] = k
  <2> TAKE k \in K
  <2>1. \E n \in DOMAIN s : k = s[n].maker
    OBVIOUS
  <2>2. QED
    BY <2>1
<1>6. IsFiniteSet(K)
  <2>1. h \in Surjection(DOMAIN s, K)
    BY DEF Surjection
  <2> HIDE DEF h
  <2>2. QED
    BY <1>2, <2>1, FS_Surjection
<1>7. Filled(s) = SumFunctionOnSet(f, DOMAIN s)
  BY DEF Filled
<1> HIDE DEF h, f, index
<1>8. \A k \in K : g[k] \in Nat \ {0} /\ g[k] = f[index[k]]
  <2> TAKE k \in K
  <2>1. PICK n \in DOMAIN s : n = index[k] /\ h[n] = k
    BY <1>5
  <2>2. g[k] = f[n] /\ f[n] \in Nat \ {0}
    BY <1>3, <2>1
  <2>3. QED
    BY <2>1, <2>2
<1>9. \A k, l \in K : index[k] = index[l] => k = l
  BY <1>5
<1>10. SumFunctionOnSet(f, DOMAIN s) <= SumFunctionOnSet(g, K)
  <2>1. \A n \in DOMAIN s : h[n] \in K /\ f[n] \in Nat /\ f[n] <= g[h[n]]
    BY <1>3
  <2>2. \A k \in K : g[k] \in Nat
    BY <1>8
  <2>3. QED
    BY <1>2, <1>4, <1>6, <2>1, <2>2, SumInto
<1>11. SumFunctionOnSet(g, K) <= SumFunctionOnSet(f, DOMAIN s)
  <2>1. \A k \in K : index[k] \in DOMAIN s /\ g[k] \in Nat /\ g[k] <= f[index[k]]
    BY <1>3, <1>5, <1>8
  <2>2. \A n \in DOMAIN s : f[n] \in Nat
    BY <1>3
  <2>3. QED
    BY <1>2, <1>6, <1>9, <2>1, <2>2, SumInto
<1>12. SumFunctionOnSet(f, DOMAIN s) \in Nat /\ SumFunctionOnSet(g, K) \in Nat
  BY <1>2, <1>3, <1>6, <1>8, SumNat
<1>13. QED
  BY <1>6, <1>7, <1>8, <1>10, <1>11, <1>12

\* Fills s of an order of an amount: makers K, of those in M, are filled in turn, all but
\* the last whole, and all of M unless nothing is left of the order.
InTurn(s, K, M, rem, amount, ahead) ==
    /\ s \in Seq(FillRecord) /\ amount \in Nat \ {0} /\ Filled(s) <= amount
    /\ IsFiniteSet(M) /\ K \subseteq M /\ \A j \in M : rem[j] \in Nat \ {0}
    /\ \A n \in DOMAIN s : s[n].maker \in K
    /\ \A k \in K : \E n \in DOMAIN s : s[n].maker = k
    /\ \A m, n \in DOMAIN s : s[m].maker = s[n].maker => m = n
    /\ \A n \in DOMAIN s : /\ s[n].quantity <= rem[s[n].maker]
                           /\ \/ s[n].quantity = rem[s[n].maker]
                              \/ n = Len(s) /\ Filled(s) = amount
    /\ \A j \in M : ahead[j] \subseteq M
    /\ \A m, n \in DOMAIN s : m < n => s[m].maker \in ahead[s[n].maker]
    /\ \A n \in DOMAIN s : \A j \in ahead[s[n].maker] : \E m \in DOMAIN s : m < n /\ j = s[m].maker
    /\ K = M \/ (Filled(s) = amount /\ \A j \in M \ K : K \subseteq ahead[j])

LEMMA LeftForWhole ==
    ASSUME NEW t \in Nat, NEW most \in Nat \ {0}, NEW sum \in Nat, t + most <= sum,
           NEW amount \in Nat, sum <= amount
    PROVE  t < amount /\ most = IF most < amount - t THEN most ELSE amount - t
OBVIOUS

\* What each maker trades is what those ahead of it leave.
LEMMA TradedInTurn ==
    ASSUME NEW s, NEW K, NEW M, NEW rem, NEW amount, NEW ahead, InTurn(s, K, M, rem, amount, ahead),
           NEW taken, \A j \in M : taken[j] = SumFunctionOnSet(rem, ahead[j])
    PROVE  /\ \A n \in DOMAIN s, k \in K : k = s[n].maker =>
                 /\ taken[k] \in Nat /\ taken[k] < amount
                 /\ s[n].quantity = IF rem[k] < amount - taken[k] THEN rem[k] ELSE amount - taken[k]
           /\ \A j \in M \ K : taken[j] \in Nat /\ ~(taken[j] < amount)
<1> USE DEF InTurn
<1>1. Len(s) \in Nat /\ DOMAIN s = 1 .. Len(s) /\ \A n \in DOMAIN s : s[n].quantity \in Nat \ {0}
  <2>1. Len(s) \in Nat /\ DOMAIN s = 1 .. Len(s) /\ \A n \in DOMAIN s : s[n] \in FillRecord
    BY SequenceFacts
  <2>2. QED
    BY <2>1 DEF FillRecord
<1> DEFINE index == [k \in K |-> CHOOSE n \in DOMAIN s : s[n].maker = k]
           g == [k \in K |-> s[index[k]].quantity]
<1>2. \A k \in K : index[k] \in DOMAIN s /\ s[index[k]].maker = k /\ g[k] = s[index[k]].quantity
  <2> TAKE k \in K
  <2>1. \E n \in DOMAIN s : s[n].maker = k
    OBVIOUS
  <2>2. QED
    BY <2>1
<1> HIDE DEF index, g
<1>3. \A n \in DOMAIN s : s[n].maker \in K /\ g[s[n].maker] = s[n].quantity
  <2> TAKE n \in DOMAIN s
  <2>1. s[n].maker \in K
    OBVIOUS
  <2>2. index[s[n].maker] = n
    BY <1>2, <2>1
  <2>3. QED
    BY <1>2, <2>1, <2>2
<1>4. IsFiniteSet(K) /\ SumFunctionOnSet(g, K) = Filled(s) /\ \A k \in K : g[k] \in Nat \ {0}
  BY <1>3, FilledOfMakers
<1>5. \A S \in SUBSET M : IsFiniteSet(S) /\ SumFunctionOnSet(rem, S) \in Nat
  <2> TAKE S \in SUBSET M
  <2>1. IsFiniteSet(S) /\ \A j \in S : rem[j] \in Nat
    BY FS_Subset
  <2>2. QED
    BY <2>1, SumNat
<1>6. \A S, T \in SUBSET M : S \subseteq T => SumFunctionOnSet(rem, S) <= SumFunctionOnSet(rem, T)
  <2> TAKE S, T \in SUBSET M
  <2> HAVE S \subseteq T
  <2>1. IsFiniteSet(T) /\ \A j \in T : rem[j] \in Nat
    BY <1>5
  <2>2. QED
    BY <2>1, SumOfPart
<1>7. \A j \in M : taken[j] \in Nat /\ ahead[j] \in SUBSET M
  BY <1>5
\* A maker that is filled with those ahead of it takes no more than they all do.
<1>8. ASSUME NEW k \in M, k \notin ahead[k], NEW S \in SUBSET M, ahead[k] \subseteq S, k \in S
      PROVE  taken[k] + rem[k] <= SumFunctionOnSet(rem, S)
  <2>1. SumFunctionOnSet(rem, ahead[k] \cup {k}) = taken[k] + rem[k]
    <3>1. IsFiniteSet(ahead[k]) /\ \A j \in ahead[k] \cup {k} : rem[j] \in Int
      BY <1>5, <1>7
    <3>2. QED
      BY <1>8, <3>1, SumJoin
  <2>2. ahead[k] \cup {k} \in SUBSET M /\ ahead[k] \cup {k} \subseteq S
    BY <1>7, <1>8
  <2>3. QED
    BY <1>6, <2>1, <2>2
<1>9. \A n \in DOMAIN s : s[n].maker \notin ahead[s[n].maker]
  <2>1. /\ \A n \in DOMAIN s : \A j \in ahead[s[n].maker] : \E m \in DOMAIN s : m < n /\ j = s[m].maker
        /\ \A m, n \in DOMAIN s : s[m].maker = s[n].maker => m = n
    OBVIOUS
  <2> HIDE DEF InTurn
  <2>2. ASSUME NEW n \in DOMAIN s, s[n].maker \in ahead[s[n].maker] PROVE FALSE
    <3>1. PICK m \in DOMAIN s : m < n /\ s[n].maker = s[m].maker
      BY <2>1, <2>2
    <3>2. m = n
      BY <2>1, <3>1
    <3>3. QED
      BY <1>1, <3>1, <3>2
  <2>3. QED
    BY <2>2
<1>10. CASE \A n \in DOMAIN s : s[n].quantity = rem[s[n].maker]
  <2>1. SumFunctionOnSet(rem, K) = Filled(s)
    <3>1. \A k \in K : g[k] = rem[k]
      BY <1>2, <1>10
    <3>2. QED
      BY <1>4, <3>1, SumSame
  <2>2. ASSUME NEW n \in DOMAIN s, NEW k \in K, k = s[n].maker
        PROVE  /\ taken[k] \in Nat /\ taken[k] < amount
               /\ s[n].quantity = IF rem[k] < amount - taken[k] THEN rem[k] ELSE amount - taken[k]
    <3>0. \A j \in ahead[k] : j \in K
      <4> TAKE j \in ahead[k]
      <4>1. PICK m \in DOMAIN s : j = s[m].maker
        BY <2>2
      <4>2. QED
        BY <1>3, <4>1
    <3>1. k \in M /\ k \notin ahead[k] /\ K \in SUBSET M /\ ahead[k] \subseteq K
      BY <1>9, <2>2, <3>0
    <3>2. taken[k] + rem[k] <= Filled(s)
      BY <1>8, <2>1, <3>1
    <3>3. taken[k] \in Nat /\ rem[k] \in Nat \ {0} /\ s[n].quantity = rem[k] /\ Filled(s) \in Nat
      BY <1>5, <1>7, <1>10, <2>1, <2>2, <3>1
    <3>4. Filled(s) <= amount /\ amount \in Nat
      OBVIOUS
    <3> HIDE DEF InTurn
    <3>5. /\ taken[k] < amount
          /\ rem[k] = IF rem[k] < amount - taken[k] THEN rem[k] ELSE amount - taken[k]
      BY <3>2, <3>3, <3>4, LeftForWhole
    <3>6. QED
      BY <3>3, <3>5
  <2>3. ASSUME NEW j \in M \ K PROVE taken[j] \in Nat /\ ~(taken[j] < amount)
    <3>1. Filled(s) = amount /\ K \subseteq ahead[j]
      BY <2>3
    <3>2. SumFunctionOnSet(rem, K) <= taken[j]
      BY <1>6, <1>7, <3>1
    <3>3. QED
      BY <1>7, <2>1, <3>1, <3>2
  <2>4. QED
    BY <2>2, <2>3
<1>11. CASE \E n \in DOMAIN s : s[n].quantity # rem[s[n].maker]
  <2>1. Filled(s) = amount /\ Len(s) \in DOMAIN s
    BY <1>11
  <2> DEFINE l == s[Len(s)].maker
             L == K \ {l}
  <2>l. L = K \ {l}
    OBVIOUS
  <2>2. l \in K /\ l \in M /\ L \in SUBSET M /\ L \subseteq K /\ g[l] = s[Len(s)].quantity
    BY <1>3, <2>1
  <2>3. \A k \in L : g[k] = rem[k]
    <3> TAKE k \in L
    <3>1. index[k] \in DOMAIN s /\ index[k] # Len(s)
      BY <1>2
    <3>2. s[index[k]].quantity = rem[k]
      BY <1>2, <3>1
    <3>3. QED
      BY <1>2, <3>2
  <2>4. ahead[l] = L
    <3>1. \A j \in ahead[l] : j \in L
      <4> TAKE j \in ahead[l]
      <4>1. PICK m \in DOMAIN s : m < Len(s) /\ j = s[m].maker
        BY <2>1
      <4>2. j \in K /\ m # Len(s)
        BY <1>1, <1>3, <4>1
      <4>3. QED
        BY <2>1, <4>1, <4>2
    <3>2. \A j \in L : j \in ahead[l]
      <4> TAKE j \in L
      <4>1. index[j] \in DOMAIN s /\ index[j] # Len(s) /\ s[index[j]].maker = j
        BY <1>2
      <4>2. index[j] < Len(s)
        BY <1>1, <4>1
      <4>3. QED
        BY <2>1, <4>1, <4>2
    <3>3. QED
      BY <3>1, <3>2
  <2>5. \A n \in DOMAIN s : n # Len(s) =>
           s[n].maker \in L /\ ahead[s[n].maker] \subseteq L /\ s[n].quantity = rem[s[n].maker]
    <3> TAKE n \in DOMAIN s
    <3> HAVE n # Len(s)
    <3>1. s[n].maker \in L /\ s[n].quantity = rem[s[n].maker]
      BY <1>3, <2>1
    <3>2. \A m \in DOMAIN s : m < n => s[m].maker \in L
      <4> TAKE m \in DOMAIN s
      <4> HAVE m < n
      <4>1. m # Len(s)
        BY <1>1
      <4>2. QED
        BY <1>3, <2>1, <4>1
    <3>3. \A j \in ahead[s[n].maker] : j \in L
      <4> TAKE j \in ahead[s[n].maker]
      <4>1. PICK m \in DOMAIN s : m < n /\ j = s[m].maker
        OBVIOUS
      <4>2. QED
        BY <3>2, <4>1
    <3>4. QED
      BY <3>1, <3>3
  <2> HIDE DEF l, L
  <2>6. /\ SumFunctionOnSet(rem, L) \in Nat
        /\ SumFunctionOnSet(rem, L) + g[l] = amount /\ g[l] \in Nat \ {0} /\ g[l] <= rem[l]
    <3>1. SumFunctionOnSet(g, K) = g[l] + SumFunctionOnSet(g, L)
      BY <1>4, <2>2, <2>l, SumWithout
    <3>2. SumFunctionOnSet(g, L) = SumFunctionOnSet(rem, L)
      BY <1>5, <2>2, <2>3, SumSame
    <3>3. g[l] <= rem[l]
      BY <2>1, <2>2 DEF l
    <3>4. SumFunctionOnSet(rem, L) \in Nat /\ g[l] \in Nat \ {0}
      BY <1>4, <1>5, <2>2
    <3>5. QED
      BY <1>4, <2>1, <3>1, <3>2, <3>3, <3>4
  <2>7. ASSUME NEW n \in DOMAIN s, NEW k \in K, k = s[n].maker
        PROVE  /\ taken[k] \in Nat /\ taken[k] < amount
               /\ s[n].quantity = IF rem[k] < amount - taken[k] THEN rem[k] ELSE amount - taken[k]
    <3>1. taken[k] \in Nat /\ rem[k] \in Nat \ {0} /\ k \in M
      BY <1>7
    <3>2. CASE n = Len(s)
      <4>1. k = l /\ taken[k] = SumFunctionOnSet(rem, L) /\ s[n].quantity = g[l]
        BY <2>2, <2>4, <2>7, <3>2 DEF l
      <4>2. QED
        BY <2>6, <3>1, <4>1
    <3>3. CASE n # Len(s)
      <4>1. k \in L /\ ahead[k] \subseteq L /\ s[n].quantity = rem[k] /\ k \notin ahead[k]
        BY <1>9, <2>5, <2>7, <3>3
      <4>2. taken[k] + rem[k] <= SumFunctionOnSet(rem, L)
        BY <1>8, <2>2, <3>1, <4>1
      <4>3. SumFunctionOnSet(rem, L) <= amount /\ amount \in Nat
        BY <2>6
      <4> HIDE DEF InTurn
      <4>4. /\ taken[k] < amount
            /\ rem[k] = IF rem[k] < amount - taken[k] THEN rem[k] ELSE amount - taken[k]
        BY <2>6, <3>1, <4>2, <4>3, LeftForWhole
      <4>5. QED
        BY <3>1, <4>1, <4>4
    <3>4. QED
      BY <3>2, <3>3
  <2>8. ASSUME NEW j \in M \ K PROVE taken[j] \in Nat /\ ~(taken[j] < amount)
    <3>1. K \in SUBSET M /\ K \subseteq ahead[j] /\ taken[j] \in Nat /\ ahead[j] \in SUBSET M
      BY <1>7, <2>8
    <3>2. SumFunctionOnSet(rem, K) <= taken[j]
      BY <1>6, <3>1
    <3>3. SumFunctionOnSet(g, K) <= SumFunctionOnSet(rem, K)
      <4>1. \A k \in K : g[k] \in Int /\ rem[k] \in Int /\ g[k] <= rem[k]
        <5> TAKE k \in K
        <5>1. PICK n \in DOMAIN s : n = index[k] /\ s[n].maker = k /\ g[k] = s[n].quantity
          BY <1>2
        <5>2. s[n].quantity <= rem[k] /\ g[k] \in Nat /\ rem[k] \in Nat
          BY <1>1, <5>1
        <5>3. QED
          BY <5>1, <5>2
      <4>2. QED
        BY <1>4, <4>1, SumMonotone
    <3>4. SumFunctionOnSet(rem, K) \in Nat
      BY <1>5, <3>1
    <3>5. QED
      BY <1>4, <2>1, <3>1, <3>2, <3>3, <3>4
  <2>9. QED
    BY <2>7, <2>8
<1>12. QED
  BY <1>10, <1>11

-----------------------------------------------------------------------------

LEMMA AheadOrders ==
    ASSUME Table, NEW j \in DOMAIN orders, NEW k \in DOMAIN orders, orders[j].side = orders[k].side
    PROVE  ~(Ahead(j, k) /\ Ahead(k, j))
<1>1. orders[j].price \in Nat /\ orders[k].price \in Nat /\ j \in Nat /\ k \in Nat
  BY OrderLengths, RowFields
<1>2. Ahead(j, k) /\ Ahead(k, j) => Ahead(j, j)
  BY <1>1, BeforeOrders DEF Ahead
<1>3. QED
  BY <1>2, AheadNotSelf

\* The range of the sorted set has the orders on offer.
LEMMA BestOffered ==
    ASSUME MatchInv, NEW i \in Id, at[i] # "new", \A j \in DOMAIN orders : Booked(j, orders[j]),
           NEW best \in BestFirst(Opposing(i)),
           NEW n, n = IF Len(best) < Limit THEN Len(best) ELSE Limit
    PROVE  /\ \A m \in 1 .. n : best[m] \in Offered(i)
           /\ \A j \in Offered(i) : \E m \in 1 .. n : j = best[m]
<1>1. /\ i \in DOMAIN orders /\ Table /\ Book
      /\ \A j \in DOMAIN orders : orders[j].side \in {"BUY", "SELL"}
  BY TakerFacts, OrderLengths, RowFields
<1>2. /\ best \in Seq(Id) /\ Len(best) = Cardinality(Opposing(i))
      /\ \A m \in DOMAIN best : best[m] \in Opposing(i)
      /\ \A l, m \in DOMAIN best : l < m => Ahead(best[l], best[m])
  BY BestFacts
<1>3. \A j : j \in Opposing(i) <=>
               j \in DOMAIN orders /\ Live(orders[j]) /\ orders[j].side # orders[i].side
  BY <1>1 DEF Opposing, Booked, Book
<1> DEFINE D == Len(best)
<1>4. D = Len(best) /\ D \in Nat /\ DOMAIN best = 1 .. D /\ best = [m \in 1 .. D |-> best[m]]
  BY <1>2
<1> HIDE DEF D
<1>5. \A l, m \in DOMAIN best : best[l] = best[m] => l = m
  <2> TAKE l, m \in DOMAIN best
  <2> HAVE best[l] = best[m]
  <2>1. l \in Nat /\ m \in Nat /\ best[l] \in DOMAIN orders
    BY <1>2, <1>3, <1>4
  <2>2. ~Ahead(best[l], best[l])
    BY <1>1, <2>1, AheadNotSelf
  <2>3. QED
    BY <1>2, <2>1, <2>2
<1>6. \A j \in Opposing(i) : \E m \in DOMAIN best : j = best[m]
  <2>1. best \in Injection(1 .. D, Opposing(i))
    BY <1>2, <1>4, <1>5 DEF Injection, IsInjective
  <2>2. IsFiniteSet(Opposing(i))
    <3>1. Opposing(i) \subseteq Id
      BY <1>1, <1>3, OrderLengths
    <3>2. IsFiniteSet(Id)
      BY IdFinite
    <3>3. QED
      BY <3>1, <3>2, FS_Subset
  <2>3. Cardinality(1 .. D) = D
    <3>1. 1 \in Int /\ D \in Int
      BY <1>4
    <3>2. Cardinality(1 .. D) = IF 1 > D THEN 0 ELSE D - 1 + 1
      BY <3>1, FS_Interval
    <3>3. QED
      BY <1>4, <3>2
  <2>4. best \in Surjection(1 .. D, Opposing(i))
    <3>1. PICK S, T : S = 1 .. D /\ T = Opposing(i)
      OBVIOUS
    <3>2. best \in Injection(S, T) /\ IsFiniteSet(T) /\ Cardinality(S) = Cardinality(T)
      BY <1>2, <1>4, <2>1, <2>2, <2>3, <3>1
    <3>3. best \in Surjection(S, T)
      BY <3>2, FS_Injection
    <3>4. QED
      BY <3>1, <3>3
  <2>5. QED
    BY <1>4, <2>4 DEF Surjection
<1>7. ASSUME NEW m \in DOMAIN best
      PROVE  Cardinality(Better(best[m])) = m - 1
  <2> DEFINE before == [l \in 1 .. m - 1 |-> best[l]]
  <2>1. m \in Nat \ {0} /\ \A l \in 1 .. m - 1 : l \in DOMAIN best /\ l < m
    BY <1>4
  <2>2. best[m] \in DOMAIN orders /\ Live(orders[best[m]]) /\ orders[best[m]].side # orders[i].side
    BY <1>2, <1>3
  <2>3. \A l \in 1 .. m - 1 : best[l] \in Better(best[m])
    <3> TAKE l \in 1 .. m - 1
    <3>1. best[l] \in DOMAIN orders /\ Live(orders[best[l]]) /\ orders[best[l]].side # orders[i].side
      BY <1>2, <1>3, <2>1
    <3>2. orders[best[l]].side = orders[best[m]].side /\ Ahead(best[l], best[m])
      BY <1>1, <1>2, <2>1, <2>2, <3>1
    <3>3. QED
      BY <3>1, <3>2 DEF Better
  <2>4. ASSUME NEW k \in Better(best[m]) PROVE \E l \in 1 .. m - 1 : k = best[l]
    <3>1. /\ k \in DOMAIN orders /\ Live(orders[k])
          /\ orders[k].side = orders[best[m]].side /\ Ahead(k, best[m])
      BY <2>4 DEF Better
    <3>2. PICK l \in DOMAIN best : k = best[l]
      BY <1>3, <1>6, <2>2, <3>1
    <3>3. ~Ahead(best[m], k)
      BY <1>1, <2>2, <3>1, AheadOrders
    <3>4. l # m
      BY <1>1, <2>2, <3>1, <3>2, AheadNotSelf
    <3>5. ~(m < l)
      BY <1>2, <3>2, <3>3
    <3>6. l \in 1 .. m - 1
      BY <1>4, <2>1, <3>4, <3>5
    <3>7. QED
      BY <3>2, <3>6
  <2>5. before \in Bijection(1 .. m - 1, Better(best[m]))
    <3>1. before \in [1 .. m - 1 -> Better(best[m])]
      BY <2>3
    <3>2. \A k, l \in 1 .. m - 1 : before[k] = before[l] => k = l
      BY <1>5, <2>1
    <3>3. \A k \in Better(best[m]) : \E l \in 1 .. m - 1 : before[l] = k
      BY <2>4
    <3> HIDE DEF before
    <3>4. QED
      BY <3>1, <3>2, <3>3 DEF Bijection, Injection, Surjection, IsInjective
  <2> HIDE DEF before
  <2>6. ExistsBijection(1 .. m - 1, Better(best[m]))
    BY <2>5 DEF ExistsBijection
  <2>7. IsFiniteSet(1 .. m - 1) /\ Cardinality(1 .. m - 1) = m - 1
    <3>1. 1 \in Int /\ m - 1 \in Int
      BY <2>1
    <3>2. IsFiniteSet(1 .. m - 1) /\ Cardinality(1 .. m - 1) = IF 1 > m - 1 THEN 0 ELSE m - 1 - 1 + 1
      BY <3>1, FS_Interval
    <3>3. QED
      BY <2>1, <3>2
  <2>8. QED
    BY <2>6, <2>7, FS_Bijection
<1>8. n \in Nat /\ \A m \in DOMAIN best : m \in 1 .. n <=> m - 1 < Limit
  BY <1>4, RequestAssumption
<1>9. \A m \in 1 .. n : m \in DOMAIN best
  BY <1>4, <1>8, RequestAssumption
<1>10. ASSUME NEW m \in 1 .. n PROVE best[m] \in Offered(i)
  <2>1. Cardinality(Better(best[m])) < Limit
    BY <1>7, <1>8, <1>9
  <2>2. QED
    BY <1>2, <1>3, <1>9, <2>1 DEF Offered
<1>11. ASSUME NEW j \in Offered(i) PROVE \E m \in 1 .. n : j = best[m]
  <2>1. j \in Opposing(i) /\ Cardinality(Better(j)) < Limit
    BY <1>3 DEF Offered
  <2>2. PICK m \in DOMAIN best : j = best[m]
    BY <1>6, <2>1
  <2>3. m - 1 < Limit
    BY <1>7, <2>1, <2>2
  <2>4. QED
    BY <1>8, <2>2, <2>3
<1>12. QED
  BY <1>10, <1>11

-----------------------------------------------------------------------------

LEMMA OfferKept ==
    ASSUME orders' = orders, NEW i
    PROVE  Offered(i)' = Offered(i)
BY DEF Offered, Better, Ahead

LEMMA GoesOn ==
    ASSUME orders' = orders, NEW i, GoesThrough(i), InSight(i)' \subseteq InSight(i),
           \A j \in InSight(i) : j \in InSight(i)' \/ orders[j].user = orders[i].user,
           \A j \in Unmatched(i)' : j \in Unmatched(i) \/ orders[j].user # orders[i].user
    PROVE  GoesThrough(i)'
BY OfferKept DEF GoesThrough

LEMMA FillsSame ==
    ASSUME orders' = orders, NEW i, fills'[i] = fills[i], WholeFills(i)
    PROVE  WholeFills(i)' /\ Left(i)' = Left(i)
BY DEF WholeFills, Left

LEMMA MatchSame ==
    ASSUME orders' = orders, NEW i, fills'[i] = fills[i], entries'[i] = entries[i]
    PROVE  HasMatch(i)' <=> HasMatch(i)
BY DEF HasMatch, Left

LEMMA ReadBookCourse ==
    ASSUME MatchInv, NEW i \in Id, TakerAlone(i), Course(i), ReadBook(i)
    PROVE  Course(i)'
<1>1. /\ at[i] = "reading"
      /\ at' = [at EXCEPT ![i] = IF Opposing(i) = {} THEN "matching" ELSE "details"]
      /\ UNCHANGED <<orders, entries, fills, rows>>
  BY DEF ReadBook, Goto
<1>2. TakerOK(i) /\ TakerTypes
  BY DEF MatchInv
<1>3. at'[i] \in {"matching", "details"}
  BY <1>1, <1>2 DEF TakerTypes
<1>4. DOMAIN rows[i] = {} /\ DOMAIN fills[i] = {} /\ DOMAIN entries[i] = {}
  BY <1>1, <1>2 DEF TakerOK, Progress
<1>5. \A j \in DOMAIN orders : Booked(j, orders[j])
  BY <1>4 DEF TakerAlone, RowSeen
<1>6. PICK best \in BestFirst(Opposing(i)) :
          ids' = [ids EXCEPT ![i] = SubSeq(best, 1, IF Len(best) < Limit THEN Len(best) ELSE Limit)]
  BY DEF ReadBook
<1>7. PICK n : n = IF Len(best) < Limit THEN Len(best) ELSE Limit
  OBVIOUS
<1>8. /\ \A m \in 1 .. n : best[m] \in Offered(i)
      /\ \A j \in Offered(i) : \E m \in 1 .. n : j = best[m]
  BY <1>1, <1>5, <1>7, BestOffered
<1>9. DOMAIN ids'[i] = 1 .. n /\ \A m \in 1 .. n : ids'[i][m] = best[m]
  <2>1. best \in Seq(Id)
    BY BestFacts
  <2>2. n \in 0 .. Len(best)
    <3>1. Len(best) \in Nat
      BY <2>1
    <3>2. QED
      BY <1>7, <3>1, RequestAssumption
  <2>3. ids'[i] = SubSeq(best, 1, n)
    BY <1>2, <1>6, <1>7 DEF TakerTypes
  <2>4. QED
    BY <2>1, <2>2, <2>3, SubsequenceFacts
<1>10. InSight(i)' = Offered(i)
  BY <1>1, <1>4, <1>8, <1>9 DEF InSight, Unread, Unmatched, MakersOf
<1>11. GoesThrough(i)'
  <2>1. Unmatched(i)' = {}
    BY <1>1, <1>4 DEF Unmatched
  <2>2. QED
    BY <1>1, <1>10, <2>1, OfferKept DEF GoesThrough
<1>12. WholeFills(i)'
  BY <1>1, <1>4 DEF WholeFills
<1>13. QED
  BY <1>3, <1>11, <1>12 DEF Course

LEMMA ReadDetailsCourse ==
    ASSUME MatchInv, NEW i \in Id, TakerAlone(i), Course(i), ReadDetails(i)
    PROVE  Course(i)'
<1>0. PICK j : j = Head(ids[i])
  OBVIOUS
<1>1. PICK e : e = [order |-> j, remaining |-> book[j]]
  OBVIOUS
<1>2. /\ at[i] = "details" /\ ids' = [ids EXCEPT ![i] = Tail(ids[i])]
      /\ entries' = [entries EXCEPT ![i] = IF j \in DOMAIN book /\ orders[j].user # orders[i].user
                                           THEN Append(entries[i], e) ELSE entries[i]]
      /\ at' = [at EXCEPT ![i] = IF Tail(ids[i]) = << >> THEN "matching" ELSE "details"]
      /\ UNCHANGED <<orders, book, seen, rows, fills>>
  BY <1>0, <1>1 DEF ReadDetails, Goto
<1>3. TakerOK(i) /\ TakerTypes /\ Book /\ ids[i] \in Seq(Id) /\ entries[i] \in Seq(EntryRecord)
  BY DEF MatchInv, TakerTypes
<1>4. /\ at'[i] \in {"matching", "details"} /\ ids'[i] = Tail(ids[i])
      /\ entries'[i] = IF j \in DOMAIN book /\ orders[j].user # orders[i].user
                       THEN Append(entries[i], e) ELSE entries[i]
  BY <1>2, <1>3 DEF TakerTypes
<1>5. DOMAIN rows[i] = {} /\ ids[i] # << >> /\ \A k \in DOMAIN orders : Booked(k, orders[k])
  BY <1>2, <1>3 DEF TakerOK, Progress, TakerAlone, RowSeen
<1>6. /\ j = ids[i][1] /\ 1 \in DOMAIN ids[i]
      /\ DOMAIN ids[i] = 1 .. Len(ids[i]) /\ Len(ids[i]) \in Nat
      /\ DOMAIN Tail(ids[i]) = 1 .. Len(ids[i]) - 1
      /\ \A n \in DOMAIN Tail(ids[i]) : Tail(ids[i])[n] = ids[i][n + 1] /\ n + 1 \in DOMAIN ids[i]
  BY <1>0, <1>3, <1>5, SequenceFacts
<1>7. j \in DOMAIN orders /\ j \in DOMAIN book
  <2>1. j \in DOMAIN orders /\ Live(orders[j])
    BY <1>3, <1>6 DEF TakerOK, Queue, TakerAlone, FreshReads
  <2>2. QED
    BY <1>5, <2>1 DEF Booked
<1>8. Unread(i) = {j} \cup Unread(i)'
  <2>1. \A k \in Unread(i)' : k \in Unread(i)
    BY <1>4, <1>6 DEF Unread
  <2>2. ASSUME NEW k \in Unread(i), k # j PROVE k \in Unread(i)'
    <3>1. PICK n \in DOMAIN ids[i] : k = ids[i][n]
      BY DEF Unread
    <3>2. PICK m \in DOMAIN Tail(ids[i]) : n = m + 1
      <4>1. n # 1 /\ n \in Nat
        BY <1>6, <2>2, <3>1
      <4>2. n - 1 \in DOMAIN Tail(ids[i]) /\ n = n - 1 + 1
        BY <1>6, <3>1, <4>1
      <4>3. QED
        BY <4>2
    <3>3. k = ids'[i][m] /\ m \in DOMAIN ids'[i]
      BY <1>4, <1>6, <3>1, <3>2
    <3>4. QED
      BY <3>3 DEF Unread
  <2>3. j \in Unread(i)
    BY <1>6 DEF Unread
  <2>4. QED
    BY <2>1, <2>2, <2>3
<1>9. Unmatched(i)' = IF orders[j].user # orders[i].user THEN Unmatched(i) \cup {j} ELSE Unmatched(i)
  <2>1. CASE orders[j].user # orders[i].user
    <3>1. entries'[i] = Append(entries[i], e) /\ e.order = j /\ e \in EntryRecord
      <4>1. entries'[i] = Append(entries[i], e)
        BY <1>4, <1>7, <2>1
      <4>2. j \in Id /\ book[j] \in Nat \ {0}
        BY <1>3, <1>7, OrderLengths DEF MatchInv, Book
      <4>3. QED
        BY <1>1, <4>1, <4>2 DEF EntryRecord
    <3>2. /\ DOMAIN Append(entries[i], e) = 1 .. Len(entries[i]) + 1
          /\ \A n \in DOMAIN entries[i] : Append(entries[i], e)[n] = entries[i][n]
          /\ Append(entries[i], e)[Len(entries[i]) + 1] = e
          /\ DOMAIN entries[i] = 1 .. Len(entries[i]) /\ Len(entries[i]) \in Nat
      BY <1>3, <3>1, AppendFacts
    <3>3. DOMAIN entries'[i] = DOMAIN entries[i] \cup {Len(entries[i]) + 1}
      BY <3>1, <3>2
    <3>4. /\ \A n \in DOMAIN entries[i] : entries'[i][n] = entries[i][n]
          /\ entries'[i][Len(entries[i]) + 1].order = j
      BY <3>1, <3>2
    <3>5. Unmatched(i)' = Unmatched(i) \cup {j}
      BY <3>3, <3>4 DEF Unmatched
    <3>6. QED
      BY <2>1, <3>5
  <2>2. CASE ~(orders[j].user # orders[i].user)
    BY <1>4, <2>2 DEF Unmatched
  <2>3. QED
    BY <2>1, <2>2
<1>10. MakersOf(i)' = MakersOf(i)
  BY <1>2 DEF MakersOf
<1>11. GoesThrough(i)'
  <2>1. InSight(i)' \subseteq InSight(i)
    BY <1>8, <1>9, <1>10 DEF InSight
  <2>2. \A k \in InSight(i) : k \in InSight(i)' \/ orders[k].user = orders[i].user
    BY <1>8, <1>9, <1>10 DEF InSight
  <2>3. \A k \in Unmatched(i)' : k \in Unmatched(i) \/ orders[k].user # orders[i].user
    BY <1>9
  <2>4. QED
    BY <1>2, <2>1, <2>2, <2>3, GoesOn DEF Course
<1>12. WholeFills(i)'
  BY <1>2, FillsSame DEF Course
<1>13. QED
  BY <1>4, <1>11, <1>12 DEF Course

\* Finding and updating a maker leave what it goes through.
LEMMA MakerCourse ==
    ASSUME MatchInv, NEW i \in Id, Course(i), FindMaker(i) \/ UpdateMaker(i)
    PROVE  Course(i)'
<1>1. /\ at[i] \in {"matching", "updating"} /\ HasMatch(i)
      /\ UNCHANGED <<orders, ids, entries, fills>>
  BY DEF FindMaker, UpdateMaker, Course
<1>2. at'[i] \in {"updating", "booking"}
  BY DEF FindMaker, UpdateMaker, Goto, MatchInv, TakerTypes
<1>3. InSight(i)' = InSight(i) /\ Unmatched(i)' = Unmatched(i)
  BY <1>1 DEF InSight, Unread, Unmatched, MakersOf
<1>4. GoesThrough(i)'
  BY <1>1, <1>3, GoesOn DEF Course
<1>5. WholeFills(i)' /\ HasMatch(i)'
  BY <1>1, FillsSame, MatchSame DEF Course
<1>6. QED
  BY <1>2, <1>4, <1>5 DEF Course

\* The loop ends because no maker is left to match.
LEMMA AddTakerCourse ==
    ASSUME MatchInv, NEW i \in Id, Course(i), AddTaker(i)
    PROVE  Course(i)'
<1>1. at[i] = "matching" /\ ~HasMatch(i) /\ UNCHANGED <<orders, ids, entries, fills>>
  BY DEF AddTaker
<1>2. at'[i] = "committing"
  BY DEF AddTaker, Goto, MatchInv, TakerTypes
<1>3. InSight(i)' = InSight(i) /\ Unmatched(i)' = Unmatched(i)
  BY <1>1 DEF InSight, Unread, Unmatched, MakersOf
<1>4. GoesThrough(i)'
  BY <1>1, <1>3, GoesOn DEF Course
<1>5. WholeFills(i)' /\ ~HasMatch(i)'
  BY <1>1, FillsSame, MatchSame DEF Course
<1>6. QED
  BY <1>2, <1>4, <1>5 DEF Course

\* A maker that is not filled is the last, as nothing is left of the taker.
LEMMA UpdateBookCourse ==
    ASSUME MatchInv, NEW i \in Id, TakerAlone(i), Course(i), UpdateBook(i)
    PROVE  Course(i)'
<1>0. PICK j, q : j = NextMaker(i) /\ q = MatchAmount(i)
  OBVIOUS
<1>1. PICK x : x = [maker |-> j, price |-> orders[j].price, quantity |-> q]
  OBVIOUS
<1>2. /\ at[i] = "booking" /\ at' = [at EXCEPT ![i] = "matching"]
      /\ fills' = [fills EXCEPT ![i] = Append(fills[i], x)]
      /\ entries' = [entries EXCEPT ![i] = Tail(entries[i])]
      /\ UNCHANGED <<orders, ids, seen, rows>>
  BY <1>0, <1>1 DEF UpdateBook, Goto, NextMaker
<1>3. /\ TakerTypes /\ Table /\ HasMatch(i)
      /\ fills[i] \in Seq(FillRecord) /\ entries[i] \in Seq(EntryRecord)
  BY <1>2 DEF MatchInv, Course, TakerTypes
<1>4. entries[i] # << >> /\ Crosses(orders[i], orders[j])
  BY <1>0, <1>3 DEF HasMatch, NextMaker
<1>5. /\ j \in DOMAIN orders /\ orders[j] \in Row /\ j = entries[i][1].order
      /\ Head(entries[i]).remaining = orders[j].remaining
  BY <1>0, <1>2, <1>4, NextMakerFacts
<1>6. PICK left, most : left = Left(i) /\ most = orders[j].remaining
  OBVIOUS
<1>7. /\ left \in Nat \ {0} /\ most \in Nat
      /\ q = (IF left < most THEN left ELSE most) /\ q \in Nat \ {0}
  <2>1. q = (IF left < most THEN left ELSE most)
    BY <1>0, <1>5, <1>6 DEF MatchAmount
  <2>2. q \in Nat \ {0}
    BY <1>0, <1>2, MatchAmountFacts
  <2>3. Left(i) \in Nat /\ Left(i) > 0
    BY <1>2, <1>3 DEF MatchInv, TakerOK, Progress, HasMatch
  <2>4. most \in Nat
    BY <1>5, <1>6, RowFields
  <2>5. QED
    BY <1>6, <2>1, <2>2, <2>3, <2>4
<1>8. x.maker = j /\ x.quantity = q /\ x \in FillRecord
  <2>1. j \in Id /\ orders[j].price \in Nat
    BY <1>3, <1>5, OrderLengths, RowFields
  <2>2. QED
    BY <1>1, <1>7, <2>1 DEF FillRecord
<1>9. at'[i] = "matching" /\ fills'[i] = Append(fills[i], x) /\ entries'[i] = Tail(entries[i])
  BY <1>2, <1>3 DEF TakerTypes
<1>10. /\ Len(fills[i]) \in Nat /\ DOMAIN fills[i] = 1 .. Len(fills[i])
       /\ DOMAIN fills'[i] = 1 .. Len(fills[i]) + 1 /\ Len(fills'[i]) = Len(fills[i]) + 1
       /\ \A n \in DOMAIN fills[i] : fills'[i][n] = fills[i][n]
       /\ fills'[i][Len(fills[i]) + 1] = x
  BY <1>3, <1>8, <1>9, AppendFacts, SequenceFacts
<1>11. Left(i)' = left - q
  <2>1. Filled(fills'[i]) = Filled(fills[i]) + q
    BY <1>3, <1>8, <1>9, FilledAppend
  <2>2. /\ Left(i) = orders[i].amount - Filled(fills[i])
        /\ Filled(fills[i]) \in Nat /\ orders[i].amount \in Nat
    BY <1>2, <1>3, LeftIs, FilledType, TakerFacts
  <2>3. Left(i)' = orders[i].amount - Filled(fills'[i])
    BY <1>2 DEF Left, Filled
  <2>4. QED
    BY <1>6, <1>7, <2>1, <2>2, <2>3
<1>12. WholeFills(i)'
  <2>1. ASSUME NEW n \in DOMAIN fills'[i], NEW k, k = fills'[i][n].maker
        PROVE  /\ Crosses(orders[i], orders[k])
               /\ fills'[i][n].quantity <= orders[k].remaining
               /\ \/ fills'[i][n].quantity = orders[k].remaining
                  \/ n = Len(fills'[i]) /\ Left(i)' = 0
    <3>1. CASE n \in DOMAIN fills[i]
      <4>1. fills'[i][n] = fills[i][n] /\ Left(i) # 0
        BY <1>6, <1>7, <1>10, <3>1
      <4>2. QED
        BY <2>1, <3>1, <4>1 DEF Course, WholeFills
    <3>2. CASE n = Len(fills[i]) + 1
      <4>1. k = j /\ fills'[i][n].quantity = q
        BY <1>8, <1>10, <2>1, <3>2
      <4>2. q <= most /\ (q = most \/ left - q = 0)
        BY <1>7
      <4>3. QED
        BY <1>4, <1>6, <1>10, <1>11, <3>2, <4>1, <4>2
    <3>3. QED
      BY <1>10, <3>1, <3>2
  <2>2. QED
    BY <1>2, <2>1 DEF WholeFills
<1>13. Unmatched(i) = {j} \cup Unmatched(i)'
  <2>1. /\ 1 \in DOMAIN entries[i]
        /\ DOMAIN entries[i] = 1 .. Len(entries[i]) /\ Len(entries[i]) \in Nat
        /\ DOMAIN Tail(entries[i]) = 1 .. Len(entries[i]) - 1
        /\ \A n \in DOMAIN Tail(entries[i]) : Tail(entries[i])[n] = entries[i][n + 1]
                                              /\ n + 1 \in DOMAIN entries[i]
    BY <1>3, <1>4, SequenceFacts
  <2>2. \A k \in Unmatched(i)' : k \in Unmatched(i)
    BY <1>9, <2>1 DEF Unmatched
  <2>3. ASSUME NEW k \in Unmatched(i), k # j PROVE k \in Unmatched(i)'
    <3>1. PICK n \in DOMAIN entries[i] : k = entries[i][n].order
      BY DEF Unmatched
    <3>2. PICK m \in DOMAIN Tail(entries[i]) : n = m + 1
      <4>1. n # 1 /\ n \in Nat
        BY <1>5, <2>1, <2>3, <3>1
      <4>2. n - 1 \in DOMAIN Tail(entries[i]) /\ n = n - 1 + 1
        BY <2>1, <3>1, <4>1
      <4>3. QED
        BY <4>2
    <3>3. k = entries'[i][m].order /\ m \in DOMAIN entries'[i]
      BY <1>9, <2>1, <3>1, <3>2
    <3>4. QED
      BY <3>3 DEF Unmatched
  <2>4. j \in Unmatched(i)
    BY <1>5, <2>1 DEF Unmatched
  <2>5. QED
    BY <2>2, <2>3, <2>4
<1>14. MakersOf(i)' = MakersOf(i) \cup {j}
  <2>1. DOMAIN fills'[i] = DOMAIN fills[i] \cup {Len(fills[i]) + 1}
    BY <1>10
  <2>2. /\ \A n \in DOMAIN fills[i] : fills'[i][n].maker = fills[i][n].maker
        /\ fills'[i][Len(fills[i]) + 1].maker = j
    BY <1>8, <1>10
  <2>3. QED
    BY <2>1, <2>2 DEF MakersOf
<1>15. GoesThrough(i)'
  <2>1. InSight(i)' = InSight(i)
    BY <1>2, <1>13, <1>14 DEF InSight, Unread
  <2>2. \A k \in Unmatched(i)' : k \in Unmatched(i)
    BY <1>13
  <2>3. QED
    BY <1>2, <2>1, <2>2, GoesOn DEF Course
<1>16. QED
  BY <1>9, <1>12, <1>15 DEF Course

-----------------------------------------------------------------------------

\* Asked for stays asked for.
LEMMA AskedKept ==
    ASSUME Asked, TermsKept, DOMAIN orders' = DOMAIN orders
    PROVE  Asked'
<1>1. ASSUME NEW j \in DOMAIN orders' PROVE \E r \in Request : SameTerms(orders'[j], r)
  <2>1. PICK r \in Request : SameTerms(orders[j], r)
    BY DEF Asked
  <2>2. SameTerms(orders'[j], r)
    BY <2>1 DEF TermsKept, SameTerms
  <2>3. QED
    BY <2>2
<1>2. QED
  BY <1>1 DEF Asked

\* What placing an order does.
LEMMA PlaceOrderEffects ==
    ASSUME MatchInv, NEW r \in Request, PlaceOrder(r), NEW i, i = Len(orders) + 1
    PROVE  /\ i \in Id /\ i \notin DOMAIN orders
           /\ DOMAIN orders' = DOMAIN orders \cup {i} /\ Len(orders') = i
           /\ \A j \in DOMAIN orders : orders'[j] = orders[j]
           /\ orders'[i].status = "NONE" /\ SameTerms(orders'[i], r)
           /\ at'[i] = "reading" /\ \A k \in Id \ {i} : at'[k] = at[k]
           /\ fills'[i] = << >>
           /\ serial' = (serial /\ Active = 0) /\ UNCHANGED <<trades, cancel>>
<1>0. PICK o : o = [user |-> r.user, side |-> r.side, price |-> r.price, amount |-> r.amount,
                    filled |-> 0, remaining |-> r.amount, status |-> "NONE"]
  OBVIOUS
<1>1. /\ i <= MaxOrders /\ orders' = Append(orders, o) /\ at' = [at EXCEPT ![i] = "reading"]
      /\ serial' = (serial /\ Active = 0) /\ UNCHANGED <<trades, fills, cancel>>
  BY <1>0 DEF PlaceOrder, Goto, Begin
<1>2. /\ Table /\ TakerTypes /\ Len(orders) \in Nat /\ DOMAIN orders = 1 .. Len(orders)
      /\ \A k \in Id : TakerOK(k)
  BY OrderLengths DEF MatchInv
<1>3. i \in Id /\ i \notin DOMAIN orders
  BY <1>1, <1>2, RequestAssumption DEF Id
<1>4. o \in Row /\ o.status = "NONE" /\ SameTerms(o, r)
  BY <1>0, RequestAssumption DEF Row, SameTerms
<1>5. /\ DOMAIN orders' = DOMAIN orders \cup {i} /\ orders'[i] = o /\ Len(orders') = i
      /\ \A j \in DOMAIN orders : orders'[j] = orders[j]
  <2>1. orders \in Seq(Row)
    BY <1>2 DEF Table
  <2>2. /\ DOMAIN Append(orders, o) = 1 .. Len(orders) + 1
        /\ \A n \in DOMAIN orders : Append(orders, o)[n] = orders[n]
        /\ Append(orders, o)[Len(orders) + 1] = o
        /\ Len(Append(orders, o)) = Len(orders) + 1
    BY <1>4, <2>1, AppendFacts
  <2>3. QED
    BY <1>1, <1>2, <2>2
<1>6. at'[i] = "reading" /\ \A k \in Id \ {i} : at'[k] = at[k]
  BY <1>1, <1>2, <1>3 DEF TakerTypes
<1>7. fills'[i] = << >>
  BY <1>1, <1>2, <1>3 DEF TakerOK, Progress
<1>8. QED
  BY <1>1, <1>3, <1>4, <1>5, <1>6, <1>7

LEMMA PlaceOrderCourse ==
    ASSUME MatchInv, serial => Alone /\ OnCourse, Asked, NEW r \in Request, PlaceOrder(r)
    PROVE  Asked' /\ (serial' => OnCourse')
<1>0. PICK i : i = Len(orders) + 1
  OBVIOUS
<1>1. /\ i \in Id /\ i \notin DOMAIN orders
      /\ DOMAIN orders' = DOMAIN orders \cup {i} /\ Len(orders') = i
      /\ \A j \in DOMAIN orders : orders'[j] = orders[j]
      /\ orders'[i].status = "NONE" /\ SameTerms(orders'[i], r)
      /\ at'[i] = "reading" /\ \A k \in Id \ {i} : at'[k] = at[k]
      /\ fills'[i] = << >>
      /\ serial' = (serial /\ Active = 0)
  BY <1>0, PlaceOrderEffects
<1>2. Asked'
  <2>1. ASSUME NEW j \in DOMAIN orders' PROVE \E s \in Request : SameTerms(orders'[j], s)
    <3>1. CASE j = i
      BY <1>1, <3>1
    <3>2. CASE j # i
      BY <1>1, <3>2 DEF Asked
    <3>3. QED
      BY <3>1, <3>2
  <2>2. QED
    BY <2>1 DEF Asked
<1>3. ASSUME serial' PROVE OnCourse'
  <2>1. OnCourse /\ Placing = {}
    BY <1>1, <1>3, ActiveZero
  <2>2. Placing' = {i}
    BY <1>1, <2>1 DEF Placing
  <2>3. InOrder'
    <3>1. \A j \in DOMAIN orders : Visible(j)'
      BY <1>1, <2>1 DEF OnCourse, InOrder, Visible
    <3>2. QED
      BY <1>1, <2>2, <3>1 DEF InOrder
  <2>4. Course(i)'
    BY <1>1 DEF Course, WholeFills
  <2>5. QED
    BY <2>2, <2>3, <2>4 DEF OnCourse
<1>4. QED
  BY <1>2, <1>3

\* A step of the one request under way that places an order.
LEMMA TakerStepCourse ==
    ASSUME MatchInv, Alone, OnCourse, NEW i \in Id,
           \/ ReadBook(i) \/ ReadDetails(i) \/ FindMaker(i) \/ UpdateMaker(i)
           \/ UpdateBook(i) \/ AddTaker(i)
    PROVE  OnCourse'
<1>1. orders' = orders /\ at[i] \notin {"new", "done", "aborted"}
  BY DEF ReadBook, ReadDetails, FindMaker, UpdateMaker, UpdateBook, AddTaker
<1>2. PICK step \in {"details", "matching", "updating", "booking", "committing"} :
          at' = [at EXCEPT ![i] = step]
  BY DEF ReadBook, ReadDetails, FindMaker, UpdateMaker, UpdateBook, AddTaker, Goto
<1>3. Placing = {i} /\ TakerAlone(i) /\ Course(i)
  BY <1>1 DEF Placing, Alone, OnCourse
<1>4. Placing' = {i}
  <2>1. at'[i] = step /\ \A k \in Id \ {i} : at'[k] = at[k]
    BY <1>2 DEF MatchInv, TakerTypes
  <2>2. QED
    BY <1>3, <2>1 DEF Placing
<1>5. Course(i)'
  BY <1>3, ReadBookCourse, ReadDetailsCourse, MakerCourse, UpdateBookCourse, AddTakerCourse
<1>6. InOrder'
  BY <1>1, <1>3, <1>4 DEF OnCourse, InOrder, Visible
<1>7. QED
  BY <1>4, <1>5, <1>6 DEF OnCourse

\* With its commit every order is seen.
LEMMA CommitOrderCourse ==
    ASSUME MatchInv, Alone, OnCourse, NEW i \in Id, CommitOrder(i)
    PROVE  OnCourse'
<1>1. at[i] = "committing" /\ at' = [at EXCEPT ![i] = "done"]
  BY DEF CommitOrder, End, Goto
<1>2. Placing = {i} /\ TakerAlone(i)
  BY <1>1 DEF Placing, Alone
<1>3. Placing' = {}
  <2>1. at'[i] = "done" /\ \A k \in Id \ {i} : at'[k] = at[k]
    BY <1>1 DEF MatchInv, TakerTypes
  <2>2. QED
    BY <1>2, <2>1 DEF Placing
<1>4. /\ TermsKept /\ DOMAIN orders' = DOMAIN orders
      /\ \A j \in DOMAIN orders : orders'[j] = IF j \in DOMAIN rows[i] THEN rows[i][j] ELSE orders[j]
  BY CommitEffects
<1>5. i \in DOMAIN rows[i] /\ rows[i][i].status # "NONE"
  BY <1>1, <1>2 DEF TakerAlone, MatchedRows, MatchInv, TakerOK, OwnRows
<1>6. ASSUME NEW j \in DOMAIN orders PROVE Visible(j)'
  <2>1. CASE j = i
    BY <1>4, <1>5, <2>1 DEF Visible
  <2>2. CASE j # i
    BY <1>2, <1>4, <2>2, VisibleKept DEF OnCourse, InOrder
  <2>3. QED
    BY <2>1, <2>2
<1>7. QED
  BY <1>3, <1>4, <1>6 DEF OnCourse, InOrder

\* Where no order is being placed.
LEMMA NonePlacing ==
    ASSUME OnCourse, TermsKept, DOMAIN orders' = DOMAIN orders, Placing = {}, Placing' = {}
    PROVE  OnCourse'
BY VisibleKept DEF OnCourse, InOrder

LEMMA CancelRowTerms ==
    ASSUME MatchInv, NEW c \in Canceller, CancelRow(c)
    PROVE  TermsKept /\ DOMAIN orders' = DOMAIN orders
<1>1. CASE Live(orders[cancel[c].order])
  BY <1>1, CancelRowEffects
<1>2. CASE ~Live(orders[cancel[c].order])
  BY <1>2, TermsSame DEF CancelRow
<1>3. QED
  BY <1>1, <1>2

LEMMA CancelCourse ==
    ASSUME MatchInv, Alone, OnCourse, NEW c \in Canceller, RemoveOrder(c) \/ CancelRow(c) \/ Unlock(c)
    PROVE  OnCourse'
<1>1. cancel[c].pc # "idle" /\ at' = at
  BY DEF RemoveOrder, CancelRow, Unlock, taker
<1>2. Placing = {} /\ Placing' = {}
  BY <1>1 DEF Alone, Cancelling, Placing
<1>3. TermsKept /\ DOMAIN orders' = DOMAIN orders
  BY TermsSame, CancelRowTerms DEF RemoveOrder, Unlock
<1>4. QED
  BY <1>2, <1>3, NonePlacing

\* A cancellation begins, or the service restarts, while nothing is under way.
LEMMA QuietCourse ==
    ASSUME serial => OnCourse, serial',
           (\E c \in Canceller, i \in Id : BeginCancel(c, i)) \/ Restart
    PROVE  OnCourse'
<1>1. serial' = (serial /\ Active = 0) /\ orders' = orders
  BY DEF BeginCancel, Begin, Restart
<1>2. OnCourse /\ Placing = {} /\ TermsKept
  BY <1>1, ActiveZero, TermsSame
<1>3. Placing' = {}
  <2>1. \A k \in Id : at'[k] = at[k]
    BY <1>2 DEF BeginCancel, taker, Restart
  <2>2. QED
    BY <1>2, <2>1 DEF Placing
<1>4. QED
  BY <1>1, <1>2, <1>3, NonePlacing

LEMMA InitCourse == MatchingInit => CourseInv
<1> SUFFICES ASSUME MatchingInit PROVE CourseInv
  OBVIOUS
<1>1. AccountsInv
  BY InitAccounts
<1>2. DOMAIN orders = {} /\ Placing = {}
  BY DEF MatchingInit, Placing
<1>3. QED
  BY <1>1, <1>2 DEF CourseInv, OnCourse, InOrder, Asked

LEMMA NextAsked == CourseInv /\ [MatchingNext]_matchingVars => Asked'
<1> SUFFICES ASSUME CourseInv, [MatchingNext]_matchingVars PROVE Asked'
  OBVIOUS
<1>0. MatchInv /\ Asked /\ (serial => Alone /\ OnCourse)
  BY DEF CourseInv, AccountsInv, AloneInv
<1>1. ASSUME NEW r \in Request, PlaceOrder(r) PROVE Asked'
  BY <1>0, <1>1, PlaceOrderCourse
<1>2. ASSUME NEW i \in Id, CommitOrder(i) PROVE Asked'
  BY <1>0, <1>2, CommitEffects, AskedKept
<1>3. ASSUME NEW c \in Canceller, CancelRow(c) PROVE Asked'
  BY <1>0, <1>3, CancelRowTerms, AskedKept
<1>4. CASE orders' = orders
  BY <1>0, <1>4, TermsSame, AskedKept
<1>5. QED
  BY <1>1, <1>2, <1>3, <1>4
  DEF MatchingNext, ReadBook, ReadDetails, FindMaker, UpdateMaker, UpdateBook, AddTaker,
      RollbackOrder, BeginCancel, RemoveOrder, Unlock, CancelFails, Restart, matchingVars

LEMMA NextCourse == CourseInv /\ [MatchingNext]_matchingVars => CourseInv'
<1> SUFFICES ASSUME CourseInv, [MatchingNext]_matchingVars, serial' PROVE OnCourse'
  BY NextAccounts, NextAsked DEF CourseInv
<1>0. MatchInv /\ Asked /\ (serial => Alone /\ OnCourse)
  BY DEF CourseInv, AccountsInv, AloneInv
<1>1. ASSUME NEW r \in Request, PlaceOrder(r) PROVE OnCourse'
  BY <1>0, <1>1, PlaceOrderCourse
<1>2. ASSUME NEW i \in Id,
             \/ ReadBook(i) \/ ReadDetails(i) \/ FindMaker(i) \/ UpdateMaker(i)
             \/ UpdateBook(i) \/ AddTaker(i)
      PROVE OnCourse'
  <2>1. serial' = serial
    BY <1>2 DEF ReadBook, ReadDetails, FindMaker, UpdateMaker, UpdateBook, AddTaker
  <2>2. QED
    BY <1>0, <1>2, <2>1, TakerStepCourse
<1>3. ASSUME NEW i \in Id, CommitOrder(i) PROVE OnCourse'
  <2>1. serial' = serial
    BY <1>3 DEF CommitOrder
  <2>2. QED
    BY <1>0, <1>3, <2>1, CommitOrderCourse
<1>4. ASSUME NEW i \in Id, RollbackOrder(i) PROVE OnCourse'
  BY <1>4 DEF RollbackOrder
<1>5. ASSUME NEW c \in Canceller, NEW i \in Id, BeginCancel(c, i) PROVE OnCourse'
  BY <1>0, <1>5, QuietCourse
<1>6. ASSUME NEW c \in Canceller, RemoveOrder(c) \/ CancelRow(c) \/ Unlock(c) PROVE OnCourse'
  <2>1. serial' = serial
    BY <1>6 DEF RemoveOrder, CancelRow, Unlock
  <2>2. QED
    BY <1>0, <1>6, <2>1, CancelCourse
<1>7. ASSUME NEW c \in Canceller, CancelFails(c) PROVE OnCourse'
  BY <1>7 DEF CancelFails
<1>8. CASE Restart
  BY <1>0, <1>8, QuietCourse
<1>9. CASE UNCHANGED matchingVars
  <2>1. /\ serial' = serial /\ orders' = orders /\ at' = at /\ ids' = ids /\ entries' = entries
        /\ fills' = fills
    BY <1>9 DEF matchingVars
  <2>2. Placing' = Placing /\ InOrder'
    BY <1>0, <2>1 DEF OnCourse, InOrder, Placing, Visible
  <2>3. ASSUME NEW i \in Placing PROVE Course(i)'
    <3>1. Course(i)
      BY <1>0, <2>1 DEF OnCourse
    <3>2. InSight(i)' = InSight(i) /\ Unmatched(i)' = Unmatched(i)
      BY <2>1 DEF InSight, Unread, Unmatched, MakersOf
    <3>3. GoesThrough(i) => GoesThrough(i)'
      BY <2>1, <3>2, GoesOn
    <3>4. WholeFills(i)' /\ (HasMatch(i)' <=> HasMatch(i))
      BY <2>1, <3>1, FillsSame, MatchSame DEF Course
    <3>5. QED
      BY <2>1, <3>1, <3>3, <3>4 DEF Course
  <2>4. QED
    BY <2>2, <2>3 DEF OnCourse
<1>10. QED
  BY <1>1, <1>2, <1>3, <1>4, <1>5, <1>6, <1>7, <1>8, <1>9 DEF MatchingNext

\* As long as no requests overlap and none fails, a taker goes through the live orders
\* that are among the Limit best of the other side, and fills each maker whole until
\* nothing is left of the taker.
THEOREM CourseInvariant == MatchingSpec => []CourseInv
<1>1. QED
  BY InitCourse, NextCourse, PTL DEF MatchingSpec

-----------------------------------------------------------------------------

\* The makers an order trades with: those it is to look at whose prices are met.
Crossing(i) == {j \in Offered(i) : Crosses(orders[i], orders[j])}

\* Of two orders on offer, the one ahead crosses whenever the other does, but for its user.
LEMMA AheadCrosses ==
    ASSUME Table, NEW i \in DOMAIN orders, NEW j \in DOMAIN orders, NEW k \in DOMAIN orders,
           orders[j].side = orders[k].side, Ahead(j, k), Crosses(orders[i], orders[k]),
           orders[j].user # orders[i].user
    PROVE  Crosses(orders[i], orders[j])
<1>1. /\ orders[j].price \in Nat /\ orders[k].price \in Nat /\ orders[i].price \in Nat
      /\ orders[j].side \in {"BUY", "SELL"}
  BY OrderLengths, RowFields
<1>2. QED
  BY <1>1 DEF Ahead, Before, Crosses

\* When nothing matches any more, it has traded with all makers, or nothing of it is
\* left and every other maker comes after those it has traded with.
LEMMA MakersLeft ==
    ASSUME MatchInv, NEW i \in Id, at[i] = "committing", TakerAlone(i), Course(i),
           NEW j \in Crossing(i), j \notin MakersOf(i)
    PROVE  Left(i) = 0 /\ \A k \in MakersOf(i) : Ahead(k, j)
<1>1. /\ i \in DOMAIN orders /\ InHand(i) /\ TakerOK(i) /\ TakerTypes /\ Table
  BY TakerFacts
<1>2. GoesThrough(i) /\ ~HasMatch(i) /\ ids[i] = << >> /\ Left(i) \in Nat
  BY <1>1 DEF Course, TakerOK, Progress
<1>3. /\ Crosses(orders[i], orders[j]) /\ orders[j].user # orders[i].user
      /\ j \in InSight(i) /\ j \in DOMAIN orders
  BY <1>2 DEF Crossing, Crosses, GoesThrough, Offered
<1>4. j \in Unmatched(i)
  BY <1>2, <1>3 DEF InSight, Unread
<1>5. PICK n \in DOMAIN entries[i] : j = entries[i][n].order
  BY <1>4 DEF Unmatched
<1>6. \A k \in MakersOf(i) : Ahead(k, j)
  BY <1>5 DEF MakersOf, TakerAlone, MatchedFills
<1>7. ASSUME Left(i) # 0 PROVE FALSE
  <2>1. /\ entries[i] \in Seq(EntryRecord)
        /\ DOMAIN entries[i] = 1 .. Len(entries[i]) /\ Len(entries[i]) \in Nat
    BY <1>1, SequenceFacts DEF InHand
  <2>2. entries[i] # << >>
    BY <1>5, <2>1
  <2>3. PICK h : h = NextMaker(i)
    OBVIOUS
  <2>4. h = entries[i][1].order /\ 1 \in DOMAIN entries[i]
    BY <1>1, <2>2, <2>3, HeadFacts
  <2>5. ~Crosses(orders[i], orders[h])
    BY <1>2, <1>7, <2>2, <2>3 DEF HasMatch, NextMaker
  <2>6. h \in DOMAIN orders /\ orders[h].side # orders[i].side /\ orders[j].side # orders[i].side
    BY <1>1, <1>5, <2>4 DEF TakerOK, Queue
  <2>7. orders[h].user # orders[i].user
    BY <1>2, <2>4 DEF GoesThrough, Unmatched
  <2>8. Ahead(h, j)
    <3>1. n # 1
      BY <1>3, <1>5, <2>4, <2>5
    <3>2. 1 < n
      BY <2>1, <3>1
    <3>3. QED
      BY <1>1, <1>5, <2>4, <3>2 DEF TakerOK, Queue
  <2>9. orders[h].side = orders[j].side
    BY <1>1, <1>3, <2>6, OrderLengths, RowFields
  <2>10. QED
    BY <1>1, <1>3, <2>5, <2>6, <2>7, <2>8, <2>9, AheadCrosses
<1>8. QED
  BY <1>6, <1>7

\* What it trades with each is what those ahead of the maker leave for it.
LEMMA CommittedFills ==
    ASSUME MatchInv, NEW i \in Id, at[i] = "committing", TakerAlone(i), Course(i),
           orders[i].amount # 0,
           NEW M, M = Crossing(i), NEW rem, \A j \in M : rem[j] = orders[j].remaining,
           NEW taken, \A j \in M : taken[j] = SumFunctionOnSet(rem, {k \in M : Ahead(k, j)})
    PROVE  /\ IsFiniteSet(M) /\ MakersOf(i) \subseteq M
           /\ \A n \in DOMAIN fills[i], k \in MakersOf(i) : k = fills[i][n].maker =>
                 /\ taken[k] \in Nat /\ taken[k] < orders[i].amount
                 /\ fills[i][n].quantity =
                       IF rem[k] < orders[i].amount - taken[k] THEN rem[k]
                                                               ELSE orders[i].amount - taken[k]
           /\ \A j \in M \ MakersOf(i) : taken[j] \in Nat /\ ~(taken[j] < orders[i].amount)
<1>0. PICK K : K = MakersOf(i)
  OBVIOUS
<1>1. /\ i \in DOMAIN orders /\ InHand(i) /\ TakerOK(i) /\ TakerTypes /\ Table
      /\ orders[i].amount \in Nat /\ DOMAIN orders \subseteq Id
  BY TakerFacts
<1>2. PICK s \in Seq(FillRecord) : s = fills[i]
  BY <1>1 DEF InHand
<1>3. /\ \A n \in DOMAIN s : s[n].maker \in K
      /\ \A k \in K : \E n \in DOMAIN s : s[n].maker = k
  BY <1>0, <1>2 DEF MakersOf
<1>4. \A m, n \in DOMAIN s : s[m].maker = s[n].maker => m = n
  BY <1>2, MakersDiffer DEF TakerAlone
<1>5. /\ M \subseteq DOMAIN orders
      /\ \A j \in M : Live(orders[j]) /\ orders[j].side # orders[i].side
  BY DEF Crossing, Offered
<1>6. IsFiniteSet(M)
  <2>1. IsFiniteSet(Id)
    BY IdFinite
  <2>2. QED
    BY <1>1, <1>5, <2>1, FS_Subset
<1>7. K \subseteq M
  <2>1. ASSUME NEW k \in K PROVE k \in M
    <3>1. PICK n \in DOMAIN s : s[n].maker = k
      BY <1>3
    <3>2. Crosses(orders[i], orders[k])
      BY <1>2, <3>1 DEF Course, WholeFills
    <3>3. k \in Offered(i)
      BY <1>0 DEF Course, GoesThrough, InSight
    <3>4. QED
      BY <3>2, <3>3 DEF Crossing
  <2>2. QED
    BY <2>1
<1>8. \A j \in M : rem[j] \in Nat \ {0}
  BY <1>1, <1>5, LiveRow
<1>9. PICK amount \in Nat \ {0} : amount = orders[i].amount
  BY <1>1
<1>10. PICK left \in Nat : left = Left(i) /\ left = amount - Filled(s)
  BY <1>1, <1>2, <1>9, LeftIs DEF TakerOK, Progress
<1>11. Filled(s) \in Nat /\ Filled(s) <= amount /\ (left = 0 => Filled(s) = amount)
  BY <1>10, FilledType
<1>12. PICK ahead : ahead = [j \in M |-> {k \in M : Ahead(k, j)}]
  OBVIOUS
<1>13. /\ \A j \in M : ahead[j] \subseteq M
       /\ \A j, k \in M : k \in ahead[j] <=> Ahead(k, j)
       /\ \A j \in M : taken[j] = SumFunctionOnSet(rem, ahead[j])
  BY <1>12
<1>14. \A n \in DOMAIN s : /\ s[n].quantity <= rem[s[n].maker]
                           /\ \/ s[n].quantity = rem[s[n].maker]
                              \/ n = Len(s) /\ Filled(s) = amount
  <2> TAKE n \in DOMAIN s
  <2>1. s[n].maker \in M
    BY <1>3, <1>7
  <2>2. /\ s[n].quantity <= orders[s[n].maker].remaining
        /\ s[n].quantity = orders[s[n].maker].remaining \/ (n = Len(s) /\ left = 0)
    BY <1>2, <1>10 DEF Course, WholeFills
  <2>3. QED
    BY <1>11, <2>1, <2>2
<1>15. \A m, n \in DOMAIN s : m < n => Ahead(s[m].maker, s[n].maker)
  BY <1>2 DEF TakerAlone, MatchedFills
<1>16. \A m, n \in DOMAIN s : m < n => s[m].maker \in ahead[s[n].maker]
  BY <1>3, <1>7, <1>13, <1>15
<1>17. \A j \in M : j \notin K => Left(i) = 0 /\ \A k \in K : Ahead(k, j)
  BY <1>0, MakersLeft
<1>18. ASSUME NEW n \in DOMAIN s, NEW j \in ahead[s[n].maker]
       PROVE  \E m \in DOMAIN s : m < n /\ j = s[m].maker
  <2>1. PICK k : k = s[n].maker
    OBVIOUS
  <2>2. k \in K /\ k \in M /\ j \in M /\ Ahead(j, k)
    BY <1>3, <1>7, <1>13, <1>18, <2>1
  <2>3. j \in DOMAIN orders /\ k \in DOMAIN orders /\ orders[j].side = orders[k].side
    BY <1>1, <1>5, <2>2, OrderLengths, RowFields
  <2>4. ~Ahead(k, j)
    BY <1>1, <2>2, <2>3, AheadOrders
  <2>5. j \in K
    BY <1>17, <2>2, <2>4
  <2>6. PICK m \in DOMAIN s : s[m].maker = j
    BY <1>3, <2>5
  <2>7. m # n
    BY <1>1, <2>1, <2>2, <2>3, <2>6, AheadNotSelf
  <2>8. ~(n < m)
    BY <1>15, <2>1, <2>4, <2>6
  <2>9. m \in Nat /\ n \in Nat
    BY <1>2, SequenceFacts
  <2>10. QED
    BY <2>6, <2>7, <2>8, <2>9
<1>19. K = M \/ (Filled(s) = amount /\ \A j \in M \ K : K \subseteq ahead[j])
  <2>1. CASE \E j \in M : j \notin K
    <3>1. left = 0
      BY <1>10, <1>17, <2>1
    <3>2. \A j \in M \ K : K \subseteq ahead[j]
      BY <1>7, <1>13, <1>17
    <3>3. QED
      BY <1>11, <3>1, <3>2
  <2>2. CASE \A j \in M : j \in K
    BY <1>7, <2>2
  <2>3. QED
    BY <2>1, <2>2
<1>20. /\ \A n \in DOMAIN s, k \in K : k = s[n].maker =>
             /\ taken[k] \in Nat /\ taken[k] < amount
             /\ s[n].quantity = IF rem[k] < amount - taken[k] THEN rem[k] ELSE amount - taken[k]
       /\ \A j \in M \ K : taken[j] \in Nat /\ ~(taken[j] < amount)
  <2>1. \A n \in DOMAIN s : \A j \in ahead[s[n].maker] : \E m \in DOMAIN s : m < n /\ j = s[m].maker
    BY <1>18
  <2>2. InTurn(s, K, M, rem, amount, ahead)
    BY <1>3, <1>4, <1>6, <1>7, <1>8, <1>11, <1>13, <1>14, <1>16, <1>19, <2>1 DEF InTurn
  <2>3. QED
    BY <1>13, <2>2, TradedInTurn
<1>21. QED
  BY <1>0, <1>2, <1>6, <1>7, <1>9, <1>20

-----------------------------------------------------------------------------

\* The table as everybody sees it.
Shown == [j \in {k \in DOMAIN orders : Visible(k)} |-> orders[j]]

\* The operators of Exchange are those used here.
LEMMA ExchangeTerms ==
    /\ \A S : Exchange!Cardinality(S) = Cardinality(S)
    /\ \A f, S : Exchange!SumFunctionOnSet(f, S) = SumFunctionOnSet(f, S)
    /\ \A o : Exchange!Live(o) <=> Live(o)
    /\ \A o, p : Exchange!Crosses(o, p) <=> Crosses(o, p)
    /\ \A o, i, p, j : Exchange!Before(o, i, p, j) <=> Before(o, i, p, j)
    /\ \A o, f, r : Exchange!Executed(o, f, r) = Executed(o, f, r)
<1>1. \A S : Exchange!Cardinality(S) = Cardinality(S)
  BY DEF Exchange!Cardinality, Cardinality
<1>2. \A f, S : Exchange!SumFunctionOnSet(f, S) = SumFunctionOnSet(f, S)
  BY SumUnfolded
  DEF Exchange!SumFunctionOnSet, Exchange!FoldFunctionOnSet, Exchange!MapThenFoldSet,
      SumOver, Sums, Chosen
<1>3. \A o : Exchange!Live(o) <=> Live(o)
  BY DEF Exchange!Live, Live
<1>4. \A o, p : Exchange!Crosses(o, p) <=> Crosses(o, p)
  BY DEF Exchange!Crosses, Crosses
<1>5. \A o, i, p, j : Exchange!Before(o, i, p, j) <=> Before(o, i, p, j)
  BY DEF Exchange!Before, Before
<1>6. \A o, f, r : Exchange!Executed(o, f, r) = Executed(o, f, r)
  BY DEF Exchange!Executed, Executed, Exchange!StatusOf, StatusOf
<1>7. QED
  BY <1>1, <1>2, <1>3, <1>4, <1>5, <1>6

LEMMA ShownBetter ==
    ASSUME Table, NEW j, Visible(j)
    PROVE  Exchange!Better(j) = Better(j)
<1>1. PICK V : V = Shown
  OBVIOUS
<1>2. /\ \A k : k \in DOMAIN V <=> k \in DOMAIN orders /\ Visible(k)
      /\ \A k \in DOMAIN V : V[k] = orders[k]
  BY <1>1 DEF Shown
<1>3. Exchange!Better(j) = {k \in DOMAIN V : /\ Exchange!Live(V[k]) /\ V[k].side = V[j].side
                                             /\ Exchange!Before(V[k], k, V[j], j)}
  BY <1>1 DEF Exchange!Better, Shown
<1>4. \A k \in DOMAIN orders : Live(orders[k]) => k \in DOMAIN V
  BY <1>2, LiveRow
<1>5. j \in DOMAIN V
  BY <1>2 DEF Visible
<1>6. QED
  BY <1>2, <1>3, <1>4, <1>5, ExchangeTerms DEF Better, Ahead

LEMMA ShownMakers ==
    ASSUME Table, NEW i \in DOMAIN orders, NEW r, SameTerms(orders[i], r)
    PROVE  Exchange!Makers(r) = Crossing(i)
<1>1. PICK V : V = Shown
  OBVIOUS
<1>2. /\ \A k : k \in DOMAIN V <=> k \in DOMAIN orders /\ Visible(k)
      /\ \A k \in DOMAIN V : V[k] = orders[k]
  BY <1>1 DEF Shown
<1>3. Exchange!Makers(r) = {k \in DOMAIN V : /\ Exchange!Live(V[k]) /\ Exchange!Crosses(r, V[k])
                                             /\ Exchange!Cardinality(Exchange!Better(k)) < Limit}
  BY <1>1 DEF Exchange!Makers, Shown
<1>4. \A k \in DOMAIN orders : Live(orders[k]) => k \in DOMAIN V
  BY <1>2, LiveRow
<1>5. \A k \in DOMAIN V : Exchange!Better(k) = Better(k)
  BY <1>2, ShownBetter
<1>6. \A p : Crosses(r, p) <=> Crosses(orders[i], p)
  BY DEF SameTerms, Crosses
<1>7. \A k \in DOMAIN orders : Crosses(orders[i], orders[k]) => orders[k].side # orders[i].side
  BY DEF Crosses
<1>8. ASSUME NEW k PROVE k \in Exchange!Makers(r) <=> k \in Crossing(i)
  <2>1. k \in Exchange!Makers(r) <=>
            /\ k \in DOMAIN V /\ Live(V[k]) /\ Crosses(r, V[k])
            /\ Cardinality(Exchange!Better(k)) < Limit
    BY <1>3, ExchangeTerms
  <2>2. k \in Crossing(i) <=>
            /\ k \in DOMAIN orders /\ Live(orders[k]) /\ Crosses(orders[i], orders[k])
            /\ Cardinality(Better(k)) < Limit
    BY <1>7 DEF Crossing, Offered
  <2>3. QED
    BY <1>2, <1>4, <1>5, <1>6, <2>1, <2>2
<1>9. QED
  BY <1>8

\* What the makers before j take of the order, in terms of the table.
LEMMA ShownTaken ==
    ASSUME Table, NEW i \in DOMAIN orders, NEW r, SameTerms(orders[i], r),
           NEW M, M = Crossing(i), NEW j \in M
    PROVE  Exchange!Taken(r, j) =
               SumFunctionOnSet([k \in M |-> orders[k].remaining], {k \in M : Ahead(k, j)})
<1>1. PICK V : V = Shown
  OBVIOUS
<1>2. /\ \A k : k \in DOMAIN V <=> k \in DOMAIN orders /\ Visible(k)
      /\ \A k \in DOMAIN V : V[k] = orders[k]
  BY <1>1 DEF Shown
<1>3. Exchange!Makers(r) = M
  BY ShownMakers
<1>4. Exchange!Taken(r, j) = Exchange!SumFunctionOnSet([k \in Exchange!Makers(r) |-> V[k].remaining],
                                 {k \in Exchange!Makers(r) : Exchange!Before(V[k], k, V[j], j)})
  BY <1>1 DEF Exchange!Taken, Shown
<1>5. Exchange!Taken(r, j) = SumFunctionOnSet([k \in M |-> V[k].remaining],
                                              {k \in M : Before(V[k], k, V[j], j)})
  BY <1>3, <1>4, ExchangeTerms
<1>6. \A k \in M : V[k] = orders[k]
  BY <1>2, LiveRow DEF Crossing, Offered
<1>7. [k \in M |-> V[k].remaining] = [k \in M |-> orders[k].remaining]
  BY <1>6
<1>8. {k \in M : Before(V[k], k, V[j], j)} = {k \in M : Ahead(k, j)}
  BY <1>6 DEF Ahead
<1>9. QED
  BY <1>5, <1>7, <1>8

\* What the specification lets the order trade with each is what it has traded.
LEMMA ShownFills ==
    ASSUME MatchInv, NEW i \in Id, at[i] = "committing", TakerAlone(i), Course(i),
           NEW r \in Request, SameTerms(orders[i], r)
    PROVE  /\ \A n \in DOMAIN fills[i] : Exchange!Fill(r, fills[i][n].maker) = fills[i][n].quantity
           /\ \A j : j \notin MakersOf(i) => Exchange!Fill(r, j) = 0
<1>1. PICK V : V = Shown
  OBVIOUS
<1>2. /\ \A k : k \in DOMAIN V <=> k \in DOMAIN orders /\ Visible(k)
      /\ \A k \in DOMAIN V : V[k] = orders[k]
  BY <1>1 DEF Shown
<1>3. Table /\ i \in DOMAIN orders /\ fills[i] \in Seq(FillRecord)
  BY TakerFacts DEF InHand
<1>4. PICK M, rem, taken : /\ M = Crossing(i) /\ rem = [k \in M |-> orders[k].remaining]
                           /\ taken = [j \in M |-> Exchange!Taken(r, j)]
  OBVIOUS
<1>5. Exchange!Makers(r) = M
  BY <1>3, <1>4, ShownMakers
<1>6. \A j \in M : taken[j] = SumFunctionOnSet(rem, {k \in M : Ahead(k, j)})
  BY <1>3, <1>4, ShownTaken
<1>7. PICK amount \in Nat \ {0} : amount = r.amount /\ amount = orders[i].amount
  BY RequestAssumption DEF SameTerms
<1>8. \A j \in M : V[j].remaining = rem[j] /\ rem[j] = orders[j].remaining /\ rem[j] \in Nat \ {0}
  BY <1>2, <1>3, <1>4, LiveRow DEF Crossing, Offered
<1>9. /\ MakersOf(i) \subseteq M
      /\ \A n \in DOMAIN fills[i], k \in MakersOf(i) : k = fills[i][n].maker =>
            /\ taken[k] \in Nat /\ taken[k] < amount
            /\ fills[i][n].quantity = IF rem[k] < amount - taken[k] THEN rem[k] ELSE amount - taken[k]
      /\ \A j \in M \ MakersOf(i) : taken[j] \in Nat /\ ~(taken[j] < amount)
  <2>1. \A j \in M : rem[j] = orders[j].remaining
    BY <1>8
  <2>2. orders[i].amount # 0
    BY <1>7
  <2>3. QED
    BY <1>4, <1>6, <1>7, <2>1, <2>2, CommittedFills
<1>10. ASSUME NEW j
       PROVE  Exchange!Fill(r, j) =
                  IF j \notin M THEN 0
                  ELSE LET left == IF taken[j] < amount THEN amount - taken[j] ELSE 0
                       IN  IF rem[j] < left THEN rem[j] ELSE left
  <2>1. Exchange!Fill(r, j) = IF j \notin Exchange!Makers(r) THEN 0
                              ELSE IF V[j].remaining < Exchange!LeftFor(r, j) THEN V[j].remaining
                              ELSE Exchange!LeftFor(r, j)
    BY <1>1 DEF Exchange!Fill, Shown
  <2>2. j \in M => Exchange!LeftFor(r, j) = IF taken[j] < amount THEN amount - taken[j] ELSE 0
    BY <1>4, <1>7 DEF Exchange!LeftFor
  <2>3. QED
    BY <1>5, <1>8, <2>1, <2>2
<1>11. ASSUME NEW n \in DOMAIN fills[i]
       PROVE  Exchange!Fill(r, fills[i][n].maker) = fills[i][n].quantity
  <2>1. PICK k : k = fills[i][n].maker
    OBVIOUS
  <2>2. k \in MakersOf(i) /\ k \in M
    BY <1>9, <2>1 DEF MakersOf
  <2>3. taken[k] < amount
        /\ fills[i][n].quantity = IF rem[k] < amount - taken[k] THEN rem[k] ELSE amount - taken[k]
    BY <1>9, <2>1, <2>2
  <2>4. QED
    BY <1>10, <2>1, <2>2, <2>3
<1>12. ASSUME NEW j, j \notin MakersOf(i)
       PROVE  Exchange!Fill(r, j) = 0
  <2>1. CASE j \in M
    <3>1. ~(taken[j] < amount) /\ rem[j] \in Nat \ {0}
      BY <1>8, <1>9, <1>12, <2>1
    <3>2. ~(rem[j] < 0)
      BY <3>1
    <3>3. QED
      BY <1>10, <2>1, <3>1, <3>2
  <2>2. CASE j \notin M
    BY <1>10, <2>2
  <2>3. QED
    BY <2>1, <2>2
<1>13. QED
  BY <1>11, <1>12

\* In all it trades what it has been filled.
LEMMA ShownTotal ==
    ASSUME MatchInv, NEW i \in Id, at[i] = "committing", TakerAlone(i), Course(i),
           NEW r \in Request, SameTerms(orders[i], r)
    PROVE  Exchange!Total(r) = Filled(fills[i])
<1>1. PICK V : V = Shown
  OBVIOUS
<1>2. \A k : k \in DOMAIN V <=> k \in DOMAIN orders /\ Visible(k)
  BY <1>1 DEF Shown
<1>3. Table /\ DOMAIN orders \subseteq Id
  BY TakerFacts
<1>4. PICK s \in Seq(FillRecord) : s = fills[i]
  BY TakerFacts DEF InHand
<1>5. PICK g : g = [k \in DOMAIN V |-> Exchange!Fill(r, k)]
  OBVIOUS
<1>6. Exchange!Total(r) = SumFunctionOnSet(g, DOMAIN V)
  <2>1. Exchange!Total(r) =
            Exchange!SumFunctionOnSet([k \in DOMAIN V |-> Exchange!Fill(r, k)], DOMAIN V)
    BY <1>1 DEF Exchange!Total, Shown
  <2>2. QED
    BY <1>5, <2>1, ExchangeTerms
<1>7. PICK K : K = MakersOf(i)
  OBVIOUS
<1>8. /\ \A n \in DOMAIN s : s[n].maker \in K
      /\ \A k \in K : \E n \in DOMAIN s : s[n].maker = k
  BY <1>4, <1>7 DEF MakersOf
<1>9. \A m, n \in DOMAIN s : s[m].maker = s[n].maker => m = n
  BY <1>4, MakersDiffer DEF TakerAlone
<1>10. K \subseteq DOMAIN V
  BY <1>2, <1>3, <1>4, <1>8, LiveRow DEF TakerAlone, MatchedFills
<1>11. \A n \in DOMAIN s : g[s[n].maker] = s[n].quantity
  BY <1>4, <1>5, <1>8, <1>10, ShownFills
<1>12. IsFiniteSet(K) /\ SumFunctionOnSet(g, K) = Filled(s) /\ \A k \in K : g[k] \in Nat \ {0}
  BY <1>8, <1>9, <1>11, FilledOfMakers
<1>13. \A k \in DOMAIN V \ K : g[k] = 0
  BY <1>5, <1>7, ShownFills
<1>14. IsFiniteSet(DOMAIN V)
  <2>1. IsFiniteSet(Id)
    BY IdFinite
  <2>2. DOMAIN V \subseteq Id
    BY <1>2, <1>3
  <2>3. QED
    BY <2>1, <2>2, FS_Subset
<1>15. \A k \in K : g[k] \in Int
  BY <1>12
<1>16. SumFunctionOnSet(g, DOMAIN V) = SumFunctionOnSet(g, K)
  BY <1>10, <1>13, <1>14, <1>15, SumOfRest
<1>17. QED
  BY <1>4, <1>6, <1>12, <1>16

\* What execution makes of a row, field by field.
LEMMA ExecutedFields ==
    ASSUME NEW u, NEW side, NEW p, NEW a, NEW f, NEW g, NEW status, NEW q, NEW left, NEW o,
           o = [user |-> u, side |-> side, price |-> p, amount |-> a,
                filled |-> f, remaining |-> g, status |-> status]
    PROVE  Executed(o, q, left) = [user |-> u, side |-> side, price |-> p, amount |-> a, filled |-> q,
                                   remaining |-> left, status |-> StatusOf(q, left)]
<1>1. o \in [user : {u}, side : {side}, price : {p}, amount : {a}, filled : {f},
             remaining : {g}, status : {status}]
  OBVIOUS
<1>2. Executed(o, q, left) \in [user : {u}, side : {side}, price : {p}, amount : {a}, filled : {q},
                                remaining : {left}, status : {StatusOf(q, left)}]
  BY <1>1 DEF Executed
<1>3. QED
  BY <1>2

\* The row a commit makes visible is that of a new order that has traded.
LEMMA NewTraded ==
    ASSUME NEW o \in Row, NEW r, SameTerms(o, r), NEW q \in Nat, NEW left, left = o.amount - q,
           left \in Nat, o.amount # 0
    PROVE  Executed(o, q, left) = Exchange!Traded(Exchange!New(r), q)
<1>1. PICK p : p = [user |-> r.user, side |-> r.side, price |-> r.price, amount |-> r.amount,
                    filled |-> 0, remaining |-> r.amount, status |-> "OPEN"]
  OBVIOUS
<1>2. Exchange!New(r) = p
  BY <1>1 DEF Exchange!New
<1>3. PICK f, g, t : /\ o = [user |-> r.user, side |-> r.side, price |-> r.price, amount |-> r.amount,
                             filled |-> f, remaining |-> g, status |-> t]
                     /\ o.amount \in Nat
  BY DEF SameTerms, Row
<1>4. Executed(o, q, left) = [user |-> r.user, side |-> r.side, price |-> r.price, amount |-> r.amount,
                              filled |-> q, remaining |-> left, status |-> StatusOf(q, left)]
  BY <1>3, ExecutedFields
<1>5. Executed(p, 0 + q, r.amount - q) =
          [user |-> r.user, side |-> r.side, price |-> r.price, amount |-> r.amount,
           filled |-> 0 + q, remaining |-> r.amount - q, status |-> StatusOf(0 + q, r.amount - q)]
  BY <1>1, ExecutedFields
<1>6. o.amount = r.amount /\ left = r.amount - q /\ r.amount \in Nat \ {0}
  BY <1>3 DEF SameTerms
<1>7. CASE q = 0
  <2>1. Exchange!Traded(p, q) = p
    BY <1>7 DEF Exchange!Traded
  <2>2. left = r.amount /\ StatusOf(q, left) = "OPEN"
    BY <1>6, <1>7 DEF StatusOf
  <2>3. QED
    BY <1>1, <1>2, <1>4, <1>7, <2>1, <2>2
<1>8. CASE q # 0
  <2>1. Exchange!Traded(p, q) = Executed(p, p.filled + q, p.remaining - q)
    BY <1>8, ExchangeTerms DEF Exchange!Traded
  <2>2. p.filled = 0 /\ p.remaining = r.amount
    BY <1>1
  <2>3. QED
    BY <1>2, <1>4, <1>5, <1>6, <2>1, <2>2
<1>9. QED
  BY <1>7, <1>8

\* A sequence is what it is up to its last element, with that appended.
LEMMA AppendLast ==
    ASSUME NEW n \in Nat, NEW w, w = [j \in 1 .. n + 1 |-> w[j]],
           NEW f, f = [j \in 1 .. n |-> f[j]], \A j \in 1 .. n : f[j] = w[j]
    PROVE  w = Append(f, w[n + 1]) /\ Len(f) = n
<1>1. PICK T : T = {w[j] : j \in 1 .. n + 1}
  OBVIOUS
<1>2. \A j \in 1 .. n + 1 : w[j] \in T
  BY <1>1
<1>3. f \in Seq(T) /\ Len(f) = n
  <2>1. \A j \in 1 .. n : j \in 1 .. n + 1
    OBVIOUS
  <2>2. \A j \in 1 .. n : f[j] \in T
    BY <1>2, <2>1
  <2>3. f \in [1 .. n -> T]
    BY <2>2
  <2>4. QED
    BY <2>3
<1>4. PICK x : x = w[n + 1]
  OBVIOUS
<1>5. x \in T
  BY <1>2, <1>4
<1>6. Append(f, x) = [j \in 1 .. n + 1 |-> Append(f, x)[j]]
  BY <1>3, <1>5
<1>7. \A j \in 1 .. n + 1 : Append(f, x)[j] = w[j]
  <2>1. /\ \A j \in 1 .. n : Append(f, x)[j] = f[j]
        /\ Append(f, x)[n + 1] = x
    BY <1>3, <1>5, AppendFacts
  <2>2. \A j \in 1 .. n + 1 : j \in 1 .. n \/ j = n + 1
    OBVIOUS
  <2>3. QED
    BY <1>4, <2>1, <2>2
<1>8. QED
  BY <1>3, <1>4, <1>6, <1>7

\* Where every order but the last is seen.
LEMMA ShownBut ==
    ASSUME Table, OnCourse, NEW i \in Id, Placing = {i}, ~Visible(i), i \in DOMAIN orders,
           NEW V, V = Shown
    PROVE  /\ i - 1 \in Nat /\ i = Len(orders) /\ DOMAIN orders = 1 .. i
           /\ DOMAIN V = 1 .. i - 1 /\ \A j \in 1 .. i - 1 : V[j] = orders[j]
<1>1. DOMAIN orders = 1 .. Len(orders) /\ Len(orders) \in Nat
  BY OrderLengths
<1>2. i = Len(orders) /\ \A j \in DOMAIN orders : j # i => Visible(j)
  BY DEF OnCourse, InOrder
<1>3. i \in Nat \ {0}
  BY <1>1
<1>4. \A j : j \in 1 .. i - 1 <=> j \in DOMAIN orders /\ Visible(j)
  BY <1>1, <1>2, <1>3
<1>5. {k \in DOMAIN orders : Visible(k)} = 1 .. i - 1
  BY <1>4
<1>6. QED
  BY <1>1, <1>2, <1>3, <1>5 DEF Shown

\* The commit of the only request under way is one step of the specification.
LEMMA CommitOrderPlaces ==
    ASSUME MatchInv, Alone, OnCourse, Asked, NEW i \in Id, CommitOrder(i)
    PROVE  \E r \in Request : Exchange!Place(r)
<1>1. /\ at[i] = "committing" /\ at' = [at EXCEPT ![i] = "done"]
      /\ trades' = trades \cup NewTrades(i, fills[i])
  BY DEF CommitOrder, End, Goto, TradeOf, NewTrades
<1>2. Placing = {i} /\ TakerAlone(i) /\ Course(i)
  BY <1>1 DEF Placing, Alone, OnCourse
<1>3. /\ i \in DOMAIN orders /\ InHand(i) /\ TakerOK(i) /\ TakerTypes /\ Table /\ orders[i] \in Row
      /\ orders[i].amount \in Nat
  BY <1>1, TakerFacts
<1>4. PICK r \in Request : SameTerms(orders[i], r)
  BY <1>3 DEF Asked
<1>5. PICK V, W : V = Shown /\ W = Shown'
  OBVIOUS
<1>6. PICK n \in Nat : n = i - 1 /\ i = n + 1
  BY <1>2, <1>3, <1>5, ShownBut, CommitRows
<1>7. /\ DOMAIN orders = 1 .. n + 1 /\ DOMAIN V = 1 .. n
      /\ \A j \in 1 .. n : V[j] = orders[j]
  BY <1>2, <1>3, <1>5, <1>6, ShownBut, CommitRows
<1>8. /\ DOMAIN orders' = DOMAIN orders
      /\ \A j \in DOMAIN orders : orders'[j] = IF j \in DOMAIN rows[i] THEN rows[i][j] ELSE orders[j]
  BY CommitEffects
<1>9. W = [j \in 1 .. n + 1 |-> W[j]] /\ \A j \in 1 .. n + 1 : W[j] = orders'[j]
  <2>1. InOrder'
    BY CommitOrderCourse DEF OnCourse
  <2>2. Placing' = {}
    <3>1. at'[i] = "done" /\ \A k \in Id \ {i} : at'[k] = at[k]
      BY <1>1, <1>3 DEF TakerTypes
    <3>2. QED
      BY <1>2, <3>1 DEF Placing
  <2>3. {k \in DOMAIN orders' : Visible(k)'} = 1 .. n + 1
    BY <1>7, <1>8, <2>1, <2>2 DEF InOrder
  <2>4. W = [j \in {k \in DOMAIN orders' : Visible(k)'} |-> orders'[j]]
    BY <1>5 DEF Shown
  <2>5. QED
    BY <2>3, <2>4
<1>10. PICK fill : fill = [j \in 1 .. n |-> Exchange!Fill(r, j)]
  OBVIOUS
<1>11. /\ \A m \in DOMAIN fills[i] : Exchange!Fill(r, fills[i][m].maker) = fills[i][m].quantity
       /\ \A j : j \notin MakersOf(i) => Exchange!Fill(r, j) = 0
  BY <1>1, <1>2, <1>4, ShownFills
<1>12. PICK s \in Seq(FillRecord) : /\ s = fills[i] /\ DOMAIN s = 1 .. Len(s)
                                    /\ \A m \in DOMAIN s : s[m] \in FillRecord
  BY <1>3, SequenceFacts DEF InHand
<1>13. \A m \in DOMAIN s : /\ s[m].maker \in 1 .. n /\ s[m].quantity \in Nat \ {0}
                           /\ s[m].price = orders[s[m].maker].price
                           /\ s[m].maker \in DOMAIN rows[i]
                           /\ rows[i][s[m].maker] = Settled(orders[s[m].maker], s[m].quantity)
                           /\ fill[s[m].maker] = s[m].quantity
  <2> TAKE m \in DOMAIN s
  <2>1. PICK j : j = s[m].maker
    OBVIOUS
  <2>2. /\ j \in DOMAIN orders /\ j # i /\ s[m].price = orders[j].price /\ j \in DOMAIN rows[i]
        /\ rows[i][j] = Settled(orders[j], s[m].quantity)
    BY <1>2, <1>12, <2>1 DEF TakerAlone, MatchedFills
  <2>3. j \in 1 .. n
    BY <1>6, <1>7, <2>2
  <2>4. s[m].quantity \in Nat \ {0}
    BY <1>12 DEF FillRecord
  <2>5. fill[j] = s[m].quantity
    BY <1>10, <1>11, <1>12, <2>1, <2>3
  <2>6. QED
    BY <2>1, <2>2, <2>3, <2>4, <2>5
<1>14. PICK f : f = [j \in 1 .. n |-> Exchange!Traded(V[j], fill[j])]
  OBVIOUS
<1>15. \A j \in 1 .. n : f[j] = W[j]
  <2> TAKE j \in 1 .. n
  <2>0. j \in 1 .. n + 1 /\ j # i
    BY <1>6
  <2>1. j \in DOMAIN orders /\ j # i /\ W[j] = orders'[j] /\ V[j] = orders[j]
    BY <1>7, <1>9, <2>0
  <2>2. CASE j \in MakersOf(i)
    <3>1. PICK m \in DOMAIN s : j = s[m].maker
      BY <1>12, <2>2 DEF MakersOf
    <3>2. PICK q : q = s[m].quantity
      OBVIOUS
    <3>3. /\ fill[j] = q /\ q # 0
          /\ orders'[j] = Executed(orders[j], orders[j].filled + q, orders[j].remaining - q)
      BY <1>8, <1>13, <2>1, <3>1, <3>2 DEF Settled
    <3>4. Exchange!Traded(V[j], fill[j]) =
              Executed(orders[j], orders[j].filled + q, orders[j].remaining - q)
      BY <2>1, <3>3, ExchangeTerms DEF Exchange!Traded
    <3>5. QED
      BY <1>14, <2>1, <3>3, <3>4
  <2>3. CASE j \notin MakersOf(i)
    <3>1. fill[j] = 0
      BY <1>10, <1>11, <2>3
    <3>2. Exchange!Traded(V[j], fill[j]) = V[j]
      BY <3>1 DEF Exchange!Traded
    <3>3. orders'[j] = orders[j]
      BY <1>2, <2>1, <2>3, CommitRows
    <3>4. QED
      BY <1>14, <2>1, <3>2, <3>3
  <2>4. QED
    BY <2>2, <2>3
<1>16. W[n + 1] = Exchange!Traded(Exchange!New(r), Exchange!Total(r))
  <2>1. Left(i) = orders[i].amount - Filled(s) /\ Filled(s) \in Nat /\ Left(i) \in Nat
    BY <1>1, <1>3, <1>12, LeftIs, FilledType DEF TakerOK, Progress
  <2>2. i \in DOMAIN rows[i] /\ rows[i][i] = Executed(orders[i], orders[i].amount - Left(i), Left(i))
    BY <1>1, <1>2 DEF TakerAlone, MatchedRows, FreshReads
  <2>3. orders[i].amount - Left(i) = Filled(s)
    BY <1>3, <2>1
  <2>4. W[n + 1] = Executed(orders[i], Filled(s), Left(i))
    BY <1>3, <1>6, <1>7, <1>8, <1>9, <2>2, <2>3
  <2>5. orders[i].amount # 0
    BY <1>4, RequestAssumption DEF SameTerms
  <2>6. Executed(orders[i], Filled(s), Left(i)) = Exchange!Traded(Exchange!New(r), Filled(s))
    BY <1>3, <1>4, <2>1, <2>5, NewTraded
  <2>7. Exchange!Total(r) = Filled(s)
    BY <1>1, <1>2, <1>4, <1>12, ShownTotal
  <2>8. QED
    BY <2>4, <2>6, <2>7
<1>17. W = Append(f, Exchange!Traded(Exchange!New(r), Exchange!Total(r)))
  <2>1. f = [j \in 1 .. n |-> f[j]]
    BY <1>14
  <2>2. W = Append(f, W[n + 1])
    BY <1>9, <1>15, <2>1, AppendLast
  <2>3. QED
    BY <1>16, <2>2
<1>18. f = [j \in DOMAIN V |-> Exchange!Traded(V[j], Exchange!Fill(r, j))]
  BY <1>7, <1>10, <1>14
<1>19. Len(V) = n
  BY <1>7
<1>20. NewTrades(i, s) = {[maker |-> j, taker |-> Len(V) + 1, price |-> V[j].price,
                           quantity |-> Exchange!Fill(r, j)] :
                              j \in {k \in DOMAIN V : Exchange!Fill(r, k) > 0}}
  <2>1. ASSUME NEW m \in DOMAIN s, NEW j, j = s[m].maker
        PROVE  /\ j \in DOMAIN V /\ Exchange!Fill(r, j) > 0
               /\ TradeOf(i, s[m]) = [maker |-> j, taker |-> Len(V) + 1, price |-> V[j].price,
                                      quantity |-> Exchange!Fill(r, j)]
    <3>1. j \in 1 .. n /\ s[m].quantity \in Nat \ {0} /\ s[m].price = V[j].price
      BY <1>7, <1>13, <2>1
    <3>2. Exchange!Fill(r, j) = s[m].quantity
      BY <1>11, <1>12, <2>1
    <3>3. Len(V) + 1 = i /\ j \in DOMAIN V
      BY <1>6, <1>7, <1>19, <3>1
    <3>4. Exchange!Fill(r, j) > 0
      BY <3>1, <3>2
    <3>5. TradeOf(i, s[m]) = [maker |-> j, taker |-> i, price |-> V[j].price,
                              quantity |-> Exchange!Fill(r, j)]
      BY <2>1, <3>1, <3>2 DEF TradeOf
    <3>6. QED
      BY <3>3, <3>4, <3>5
  <2>2. \A j \in DOMAIN V : Exchange!Fill(r, j) > 0 => \E m \in DOMAIN s : j = s[m].maker
    <3> TAKE j \in DOMAIN V
    <3> HAVE Exchange!Fill(r, j) > 0
    <3>1. Exchange!Fill(r, j) # 0
      OBVIOUS
    <3>2. j \in MakersOf(i)
      BY <1>11, <3>1
    <3>3. QED
      BY <1>12, <3>2 DEF MakersOf
  <2>3. \A t : t \in NewTrades(i, s) <=> \E m \in DOMAIN s : t = TradeOf(i, s[m])
    BY DEF NewTrades, ToSet
  <2>4. QED
    BY <2>1, <2>2, <2>3
<1>21. Exchange!Place(r) <=>
          /\ W = Append([j \in DOMAIN V |-> Exchange!Traded(V[j], Exchange!Fill(r, j))],
                        Exchange!Traded(Exchange!New(r), Exchange!Total(r)))
          /\ trades' = trades \cup
                {[maker |-> j, taker |-> Len(V) + 1, price |-> V[j].price,
                  quantity |-> Exchange!Fill(r, j)] :
                    j \in {k \in DOMAIN V : Exchange!Fill(r, k) > 0}}
  BY <1>5 DEF Exchange!Place, Shown
<1>22. Exchange!Place(r)
  BY <1>1, <1>12, <1>17, <1>18, <1>20, <1>21
<1>23. QED
  BY <1>22

\* So is the conditional UPDATE of a live order, by the only request under way.
LEMMA CancelRowCancels ==
    ASSUME MatchInv, Alone, NEW c \in Canceller, CancelRow(c)
    PROVE  \E i \in DOMAIN Shown : Exchange!Cancel(i)
<1>0. PICK i : i = cancel[c].order
  OBVIOUS
<1>1. cancel[c].pc = "removed" /\ trades' = trades
  BY DEF CancelRow
<1>2. CancelAlone(c) /\ Table
  BY <1>1 DEF MatchInv, Alone, Cancelling
<1>3. Live(orders[i])
  BY <1>0, <1>1, <1>2 DEF CancelAlone
<1>4. /\ DOMAIN orders' = DOMAIN orders /\ i \in DOMAIN orders /\ TermsKept
      /\ \A j \in DOMAIN orders \ {i} : orders'[j] = orders[j]
      /\ orders'[i] = [orders[i] EXCEPT !.status = "CANCELLED"] /\ orders'[i].status = "CANCELLED"
  BY <1>0, <1>3, CancelRowEffects
<1>5. Visible(i)
  BY <1>2, <1>3, <1>4, LiveRow
<1>6. \A j \in DOMAIN orders : Visible(j)' <=> Visible(j)
  <2> TAKE j \in DOMAIN orders
  <2>1. CASE j = i
    BY <1>4, <1>5, <2>1 DEF Visible
  <2>2. CASE j # i
    BY <1>4, <2>2 DEF Visible
  <2>3. QED
    BY <2>1, <2>2
<1>7. PICK V, W : V = Shown /\ W = Shown'
  OBVIOUS
<1>8. /\ V = [j \in DOMAIN V |-> V[j]] /\ \A j \in DOMAIN V : V[j] = orders[j] /\ j \in DOMAIN orders
      /\ i \in DOMAIN V
  BY <1>4, <1>5, <1>7 DEF Shown
<1>9. {k \in DOMAIN orders' : Visible(k)'} = DOMAIN V
  BY <1>4, <1>6, <1>7 DEF Shown
<1>10. W = [j \in DOMAIN V |-> orders'[j]]
  <2>1. W = [j \in {k \in DOMAIN orders' : Visible(k)'} |-> orders'[j]]
    BY <1>7 DEF Shown
  <2>2. QED
    BY <1>9, <2>1
<1>11. PICK o : o = [orders[i] EXCEPT !.status = "CANCELLED"]
  OBVIOUS
<1>12. \A j \in DOMAIN V : orders'[j] = IF j = i THEN o ELSE V[j]
  BY <1>4, <1>8, <1>11
<1>13. o = [V[i] EXCEPT !.status = "CANCELLED"]
  BY <1>8, <1>11
<1>14. W = [V EXCEPT ![i] = o]
  BY <1>8, <1>10, <1>12
<1>15. W = [V EXCEPT ![i].status = "CANCELLED"]
  BY <1>8, <1>13, <1>14
<1>16. Exchange!Live(V[i])
  BY <1>3, <1>8, ExchangeTerms
<1>17. Exchange!Cancel(i) <=> /\ Exchange!Live(V[i]) /\ W = [V EXCEPT ![i].status = "CANCELLED"]
                              /\ trades' = trades
  BY <1>7 DEF Exchange!Cancel, Shown
<1>18. QED
  BY <1>1, <1>7, <1>8, <1>15, <1>16, <1>17

\* Nothing else is noticed: a row that is inserted is not seen yet.
LEMMA ShownSame ==
    /\ orders' = orders => Shown' = Shown
    /\ MatchInv /\ (\E r \in Request : PlaceOrder(r)) => Shown' = Shown
<1>1. ASSUME orders' = orders PROVE Shown' = Shown
  BY <1>1 DEF Shown, Visible
<1>2. ASSUME MatchInv, NEW r \in Request, PlaceOrder(r) PROVE Shown' = Shown
  <2>1. PICK i : i = Len(orders) + 1
    OBVIOUS
  <2>2. /\ i \notin DOMAIN orders /\ DOMAIN orders' = DOMAIN orders \cup {i}
        /\ \A j \in DOMAIN orders : orders'[j] = orders[j]
        /\ orders'[i].status = "NONE"
    BY <1>2, <2>1, PlaceOrderEffects
  <2>3. \A j : Visible(j)' <=> Visible(j)
    BY <2>2 DEF Visible
  <2>4. {k \in DOMAIN orders' : Visible(k)'} = {k \in DOMAIN orders : Visible(k)}
    BY <2>2, <2>3 DEF Visible
  <2>5. PICK S : S = {k \in DOMAIN orders : Visible(k)}
    OBVIOUS
  <2>6. Shown = [j \in S |-> orders[j]] /\ Shown' = [j \in S |-> orders'[j]]
    BY <2>4, <2>5 DEF Shown
  <2>7. \A j \in S : orders'[j] = orders[j]
    BY <2>2, <2>5
  <2>8. QED
    BY <2>6, <2>7
<1>3. QED
  BY <1>1, <1>2

LEMMA ExchangeSame ==
    ASSUME UNCHANGED <<Shown, trades, serial>>
    PROVE  UNCHANGED Exchange!exchangeVars
BY DEF Exchange!exchangeVars, Shown

LEMMA ExchangeInit == MatchingInit => Exchange!Init
<1> SUFFICES ASSUME MatchingInit PROVE Exchange!Init
  OBVIOUS
<1>1. orders = << >> /\ trades = {} /\ serial = TRUE
  BY DEF MatchingInit
<1>2. Shown = << >>
  BY <1>1 DEF Shown
<1>3. QED
  BY <1>1, <1>2 DEF Exchange!Init, Shown

\* Once requests have overlapped, or one has failed, nothing is promised any more.
LEMMA SerialStays == [MatchingNext]_matchingVars /\ serial' => serial
BY DEF MatchingNext, PlaceOrder, Begin, ReadBook, ReadDetails, FindMaker, UpdateMaker,
       UpdateBook, AddTaker, CommitOrder, RollbackOrder, BeginCancel, RemoveOrder, CancelRow, Unlock, CancelFails, Restart,
       matchingVars

LEMMA ExchangeStep ==
    CourseInv /\ [MatchingNext]_matchingVars => [Exchange!Next]_Exchange!exchangeVars
<1> SUFFICES ASSUME CourseInv, [MatchingNext]_matchingVars PROVE [Exchange!Next]_Exchange!exchangeVars
  OBVIOUS
<1>1. CASE ~serial'
  BY <1>1 DEF Exchange!Next
<1>2. CASE serial'
  <2>0. serial /\ serial' = serial
    <3>1. serial
      BY <1>2, SerialStays
    <3>2. serial \in BOOLEAN /\ serial' \in BOOLEAN
      <4>1. CourseInv'
        BY NextCourse
      <4>2. QED
        BY <4>1 DEF CourseInv, AccountsInv, AloneInv, MatchInv, Rest
    <3>3. QED
      BY <1>2, <3>1, <3>2
  <2>1. MatchInv /\ Asked /\ Alone /\ OnCourse
    BY <2>0 DEF CourseInv, AccountsInv, AloneInv
  <2>2. ASSUME NEW r \in Request, PlaceOrder(r) PROVE UNCHANGED Exchange!exchangeVars
    <3>1. trades' = trades
      BY <2>2 DEF PlaceOrder
    <3>2. QED
      BY <2>0, <2>1, <2>2, <3>1, ShownSame, ExchangeSame
  <2>3. ASSUME NEW i \in Id, CommitOrder(i) PROVE Exchange!Next
    <3>1. \E r \in Request : Exchange!Place(r)
      BY <2>1, <2>3, CommitOrderPlaces
    <3>2. QED
      BY <1>2, <2>0, <3>1 DEF Exchange!Next
  <2>4. ASSUME NEW c \in Canceller, CancelRow(c) PROVE Exchange!Next
    <3>1. \E i \in DOMAIN Shown : Exchange!Cancel(i)
      BY <2>1, <2>4, CancelRowCancels
    <3>2. QED
      BY <1>2, <2>0, <3>1 DEF Exchange!Next, Shown
  <2>5. CASE UNCHANGED <<orders, trades>>
    BY <2>0, <2>5, ShownSame, ExchangeSame
  <2>6. QED
    BY <2>2, <2>3, <2>4, <2>5
    DEF MatchingNext, ReadBook, ReadDetails, FindMaker, UpdateMaker, UpdateBook, AddTaker,
        RollbackOrder, BeginCancel, RemoveOrder, Unlock, CancelFails, Restart, matchingVars
<1>3. QED
  BY <1>1, <1>2

\* As long as no requests overlap and none fails, placing an order is one step, in which
\* each of the Limit best opposing orders that it crosses trades what those before it
\* leave; nobody sees the steps createOrder and cancelOrder are made of, nor a restart.
THEOREM MatchingImplementsExchange == MatchingSpec => ImplementsExchange
<1>1. QED
  BY CourseInvariant, ExchangeInit, ExchangeStep, PTL
  DEF MatchingSpec, ImplementsExchange, Exchange!Spec
==============================================================================
