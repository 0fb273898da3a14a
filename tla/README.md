# A TLA+ model of ether-trade

ether-trade is a small exchange in TypeScript: six NestJS services that talk over gRPC and
Kafka and keep their state in PostgreSQL and Redis (Valkey). This directory models the parts
of it that move money, decide who may, or tell users what happened, model-checks them with TLC
on small instances, and proves with TLAPS what matters most about them for instances of
every size.

## The system

| Component | State | Operations | What makes it correct |
|---|---|---|---|
| **Balances** (`apps/accounts/src/balances`) | tables `accounts` (available, locked) and `ledger_transactions` (unique `idempotency_key`) | `deposit`, `lock`, `unlock`, `creditDeposit`, `debitWithdrawal`, `findOrCreate` | no negative balance; a key is posted once; the ledger explains the balances |
| **Trade settlement** (`apps/accounts/src/consumers`) | `processed_events`, the same accounts and ledger | `handleMessage` of `TRADE_EXECUTED` | each trade settled once and whole; money conserved |
| **Kafka consumer base** (`libs/common/src/kafka`) | offsets of the group | join, batch loop, dead letter queue, pause and redelivery | no message lost, none blocks the partition |
| **Outbox** (`apps/orders/src/outbox`, the same code in `apps/transfers/src/outbox`) | table `outbox_events` | insert in a business transaction, relay, retention | every committed event sent, none invented, duplicates only after failures |
| **Order intake** (`apps/orders/src/orders/orders.service.ts`) | `orders`, `idempotency_records` | `createOrder`, `cancelOrder`, start-up | funds locked exactly while an order is open; one order per idempotency key |
| **Matching** (`matching-engine.service.ts`, `orderbook.service.ts`) | Redis book and its sequence, `orders`, `trades` | match a taker, add, remove, rehydrate | no order trades more than its quantity; book and table agree; no deadlock of row locks |
| **Withdrawals** (`apps/transfers`) | `withdrawal_requests`, locked funds, the chain | request, worker, recovery at start | paid once; what may leave the chain account is locked until it is debited; events tell what the chain did |
| **Deposits** (`apps/transfers`) | `wallet_deposits`, `scanner_state` | poll, scan a range, record, credit | credited once, never more than was deposited, never before it is final; nothing scanned is lost |
| **Copy trading** (`apps/copy-trading`) | masters and a copy of them in memory, subscriptions, history, `processed_events`, Redis locks | register, subscribe, cancel, replicate a trade | the history tells the orders; a follower never sells more than was bought; a processed trade is copied |
| **Sessions** (`apps/identity`, `auth` of the gateway) | nonces in Redis, `users`, `refresh_tokens`, a cookie in the browser | nonce, sign in, sandbox login, refresh, logout | a nonce opens one session; devices stay logged in; concurrent first logins succeed |
| **WebSocket rooms** (`apps/api-gateway/src/websockets`) | rooms and their index, sockets, the offset of the bridge | connect, subscribe, snapshot, publish, broadcast, heartbeat | no delta lost between snapshot and stream; no closed socket in a room |
| **REST facade** (`apps/api-gateway`) | none of its own; deadlines and statuses | nine routes over the five services | a repeated request takes effect once; a client is never blamed for a failure |

How they interact: an order is taken by the orders service, which locks funds in the accounts
service (gRPC), then matches inside one SQL transaction that also writes the outbox. The relay
publishes trades to Kafka. The settlement consumer of the accounts service moves the balances,
the copy-trading consumer replicates a master's trade by creating orders for followers, and the
gateway pushes the events to browsers. The transfers service locks, debits and credits funds in
the accounts service around transactions on the chain.

What is hard: transactions interleave at READ COMMITTED; calls between services are repeated
after their answer was lost; sagas stop half way and compensate; Kafka delivers again, and
consumers of a group overlap; relays and services crash between any two steps. `PROJECT.json`
lists each such hazard with its line.

## The modules

| Module | What it models |
|---|---|
| `Ledger` | abstract: a call is one atomic posting to an append-only ledger that has each key once |
| `Balances` | the transactions of `BalancesRepository`, statement by statement, on several connections |
| `TradeAmounts` | fixed point amounts of a trade: `calculateSettlementAmounts`, and what the orders service locks for an order |
| `Clearing` | abstract: a trade moves its four accounts in one step, once, while funds of orders are unlocked |
| `Settlement` | `TradesSettlementConsumer` on `BaseKafkaConsumer`: messages, consumers, row locks, `processed_events` |
| `TradeProofs` | proofs about `Settlement` and `Matching`, from the match of a trade to its settlement |
| `OutboxRelay` | `OutboxRelayService`, `OutboxRepository`, the producer and the retention job |
| `OrderTerms` | which orders cross, in which order makers come, the status of an order |
| `Exchange` | abstract: an order is matched with the `Limit` best opposing ones, or cancelled, in one step |
| `Matching` | `createOrder`'s transaction with `MatchingEngineService`, `OrderbookService`, `cancelOrder`, rehydration |
| `OrderIntake` | `createOrder` and `cancelOrder` as sagas over idempotency records, `Ledger` and the orders table |
| `OrderIntakeProofs` | proofs about `OrderIntake` |
| `Withdrawals` | `TransfersService.requestWithdrawal`, `WithdrawalProcessorService`, the chain |
| `WithdrawalsProofs` | proofs about `Withdrawals` |
| `Deposits` | `DepositScannerService`, `DepositProcessorService`, a chain that grows, is reorganised and reset |
| `LedgerProofs` | proofs about `Balances` and `Deposits`, an implementation of `Ledger` and a client of it |
| `CopyRatio` | the quantities of copied orders: `CopyRatioCalculator` |
| `CopyTrading` | `MasterTradeReplicationConsumer`, `CopyTradingService`, `DistributedLockService` |
| `CopyTradingProofs` | proofs about `CopyTrading` |
| `MarketFeed` | from the counter of the book to the socket: `KafkaToWebSocketBridgeService`, `ValkeyPubSubService`, `RoomManagerService`, `TradingGateway` |
| `EventProofs` | proofs about `OutboxRelay` and `MarketFeed`, the way of an event to the clients |
| `Sessions` | `NonceService`, `SiweService`, `UsersRepository`, `TokenService`, the cookie of the gateway |
| `Gateway` | the REST controllers' services, both exception filters, and what the services behind answer |
| `AccessProofs` | proofs about `Sessions` and `Gateway`, who gets in and what a request does |
| `SumTheorems` | lemmas about sums over finite sets, for `Settlement`, `Matching`, `OrderIntake`, `Withdrawals` and `CopyTrading`, and about least sets |
| `MCBalances`, `MCSettlement`, `MCOutboxRelay`, `MCMatching`, `MCOrderIntake`, `MCWithdrawals`, `MCDeposits`, `MCCopyTrading`, `MCMarketFeed`, `MCSessions`, `MCGateway` | the instances for TLC |

Three specifications are abstract, and each is both implemented and used: `Ledger` is what
`Balances` implements, and what `OrderIntake`, `Withdrawals` and `Deposits` compose with in place
of the accounts service; `Clearing` is what `Settlement` implements; `Exchange` what `Matching` does.

**Balances.** `accounts` and `ledger` are the committed rows; `pc[t]`, `req[t]` and `row[t]` are
the transaction that connection `t` runs. The five mutations share a shape in the code (look for
the key, SELECT ... FOR UPDATE, conditional UPDATE, INSERT of the ledger row, COMMIT), so one
action per statement stands for that statement in each, and `Suffices`, `AvailDelta` and
`LockedDelta` hold what differs. A row lock is `Holds`, an uncommitted unique key is `Claims`;
both are functions of `pc`. PostgreSQL refuses statements after an error, so the replay the code
looks for after a unique violation inside the transaction never succeeds: `InsertDuplicate` and
the second half of `CreateAccount` end in an error. `Rollback` is a lost connection or crash at
any step, and `Commit` may lose its answer.

**Settlement.** One partition. `pos[c]` is the offset consumer `c` handles, `pc[c]` where it is in
`handleMessage`, `held[c]` the account rows it has locked one after another in the order of their
ids. `Commit` is the transaction's effect: balances, four ledger rows, `processed_events`. `Fail`
is an error of the database or Kafka, after which the message is taken up again; `Leave` is the
end of a consumer. Overlap of two consumers stands for a rebalance one of them has not noticed.
kafkajs (external) commits no offset through `commitOffsetsIfNecessary()` when neither
`autoCommitInterval` nor `autoCommitThreshold` is set; none is. `Reserved` is what the accounts have
locked at the start: at least, per order, what `createOrder` locks once for all of it, however many
trades then fill it. `Release` is the orders service unlocking funds of an order, for as much of it
as it likes; `released` (history) counts it. Whether it unlocks more than what an order has left to
trade, or an order trades more than its amount, is up to the orders service (`Matching`,
`OrderIntake`): `NonNegative` names the orders that do (`WithinOrder`) and nothing else.

**TradeAmounts.** Decimals with eight places are whole numbers of units, `Scale` of which are one.
`Times` rounds down as configured in the accounts process, `TimesHalfUp` half up as is the default
in the orders process, which computes what it locks and unlocks.

**OutboxRelay.** `status[e]` is the row of event `e`; rows inserted by a transaction share its start
time, as `created_at` is `now()`. `batch[r]` are the rows relay `r` has locked. A send appends one
request with the messages of the batch to each of their partitions, or to some and fails. The
`UPDATE`s made after a failed send are rolled back by the error that is thrown next, so
`RecordRetryAttempt` changes no row. `failed` is a history variable. The outbox of the transfers
service is the same code with other events; this module stands for both.

**Matching.** One trading pair. `orders` is the table as committed, `rows[i]` what the transaction of
order `i` has written, `book` the orders in Redis with their remaining amounts. One action per
command whose place among the others matters: the range of the sorted set, each hash, `findById`,
`updateExecution`, the change of the book, COMMIT. Nothing in the code keeps requests of a pair
apart. What matching promises therefore depends on a condition, the history variable `serial`: no
two requests have overlapped so far, and none has failed. Under it the engine implements
`Exchange`, its book matches its table, and the rows tell the trades; without it, it still never
deadlocks, and `matching_race` shows what does happen. The order a taker puts into the book before
it commits, fills of rows it cannot see, and the book left behind by a rollback are all in the model.

**OrderIntake.** It composes with the accounts service through its specification: a call is a `Post`
of `Ledger`, a repetition that changes nothing, or a refusal, and one that fails may have been
posted. `records` is `idempotency_records`, `orders` the table, `work[h]` and `cancel[c]` the handlers.
The transaction of an order is two steps, its INSERT with the first trades, which nobody else sees
(`UNPLACED`), and its COMMIT. Of other orders that trade with it there are two kinds (how they come
about is `Matching`): `Trade` takes what the row says, `TradeStale` what the book or the table said
some time before. `updateExecution` has no condition but the identifier, so a stale trade may be of an
order that was cancelled, or filled, or of one whose transaction was rolled back and which the book
still has. `Settle` is the settlement of `Settlement`, reduced to the locked balance. `failures` is a
history of the kinds of failures, stale trades among them, by which the properties say what they
depend on. Early returns and refusals that change no state are steps that stutter, and not written
down. The keys of the calls do not name a user (`lock:<key>`): the call of a user whose key another
has used for the same operation and amount is answered as that one's repetition (`Repeats`). The
properties about funds are of the users to whom that has not happened (`LocksOwn`, `UnlocksOwn`).

**Withdrawals.** `rows` is `withdrawal_requests` in the order of `created_at`, `handling[h]` a request
between two of its awaits (look-up, lock, INSERT, compensation), `work[w]` an instance: the row it
works on, the hash it was given, and the rows its recovery has left. `Pick` is the transaction with
FOR UPDATE SKIP LOCKED; it ends before the transaction is sent. `Send` may have sent although it
throws, and every error between there and the receipt leads to `Unlock` and `Fail`, as the one
`catch` does. `Recover` is the recovery at start, which looks only at rows in progress that have a
hash. `chain` is external; a hash is an index into it. `failures` says which kinds of errors there
were. The keys of the saga's calls do not name the user (`withdraw-lock:<key>`), so that two users
with one key have one lock for two withdrawals, and one unlock: the second call is taken for a
repetition of the first (`Repeats`). `Backed` is about the users it has not happened to
(`LocksOwn`), and `NoneLeftBehind` names it as one of the reasons for which a row stays in progress.

**Deposits.** `work[s]` is a poll of instance `s`: the height it read, its range, the logs it still has
to process, first the native and then the token events, as `scanRange` does; it takes them by block and
as the transaction emitted them (`First`). `deposits[t]` is the
row whose unique hash is `t`: one row per transaction, however many deposits it logs. `scannerState`
is the one cursor all instances share. The chain grows, replaces up to `Confirmations` blocks, and
its node may be reset; `life` (history) tells which chain a block number was read from. A log names its
event: one of the two the scanner asks for (`ScannedEvent`, `AskedLogs`) or another, as is
`Deposited`, the one of `deposit-vault.sol` (`VaultEvent`). Of several deposits in one transaction
the first one processed gets the row and the others are lost, so that what `NothingLost` and
`EventuallyRecorded` promise is of a transaction with one deposit the scanner asks for (`Only`), next
to logs it does not ask for, and says that the row is that deposit's (`OnRecord`).

**CopyTrading.** `work[i]` is the consumer of instance `i`: the sides of the trade left, the subscribers
left, and what was computed for one of them. Subscribers are taken in any order, one at a time, for
`Promise.all` over them: they touch different rows, locks and orders. `known[i]` is `activeMastersMap`,
which another instance's registration does not reach. `handling[h]` is `createSubscription` or
`cancelSubscription` between its statements: the check of the allocation and the write are apart.
`owed` is a history variable for `ProcessedIsCopied`. The quantities are `CopyRatio`, with
BigNumber's two roundings; `RatioScale` is 10^20 in the code.

**MarketFeed.** One pair. `TakeNumber` is the INCR in Redis, which comes before the commit that puts
the event into Kafka, so that numbers may be committed in another order. `pos` and `stage` are how
far the bridge is with an event that goes to one, two or three channels. `wire[n]` are the messages
on their way from Valkey to node `n`. A handler of a frame is split where it awaits: joining the
room and the acknowledgement are one step, reading the book and sending the snapshot are later
ones, while the socket may close. `view[c]` is what the client knows.

**Sessions.** `call[k]` is a call between two statements; `nonces` is Redis, one nonce per wallet;
`held[d]` is the cookie, which the gateway sets with an answer to a login or refresh and clears with
one to a logout. `Fails` ends a call before or after its statement took effect, and stands for a lost
answer too: the device keeps the cookie it had.

**Gateway.** `attempt[a]` is one HTTP request on its way: refused by guard, pipe or method (`Send`),
or in a service. `told[a]` is the status of its answer. A service's method is its look-ups and writes,
each a step, on one row of a table; how it works inside is the business of the other modules. An
error becomes a gRPC status (`GrpcStatus`, the filter of the services) and that an HTTP status
(`HttpStatus` and the table in the gateway's filter). `Deadline` leaves the service running. The orders
service throws HTTP statuses as gRPC codes, which the gateway's table does not have: 502.
The row of an order is written by others too: `UpdateExecution` is a match that sets it partly filled
or filled whatever it says, also after it was cancelled; it can then be cancelled again, with effect.
`overwritten` (history) counts that, and `OncePerRequest` allows a cancellation one effect more for
each time. `Expire` lets the record of an order's key pass its 24 hours: the look-up no longer finds
it, and the unique index refuses another one.

Operators whose comment starts with *Mutant* are variants of the definition below them, each with
a plausible bug. No specification uses them. Substituted for that definition they make TLC find
the property named in `PROJECT.json` violated, which shows that the property depends on it. History
variables and fields are marked *(history)*: no guard of a code action reads them, except bounds.

## The runs

| Run | Instance | What it shows |
|---|---|---|
| `balances` | 2 connections, 2 users, 2 currencies, 7 calls over 4 keys | `NonNegative`, `AuditTrail`, `PostedOnce`, `SuccessIsOnLedger`, and the refinement `ImplementsLedger` |
| `settlement` | 2 consumers, 3 trades of 2 users over the same 4 accounts, two of which fill an order in parts, one published twice, an unlock of a part, a poison pill, 1 failure, 2 joins | `NonNegative`, `Conservation`, `SettledOnce`, `NothingSkipped`, the refinement `ImplementsClearing`, and `EveryMessageHandled` (liveness) |
| `outbox_relay` | 2 relays, 3 events, 2 partitions, batches of 2, 2 failures | `PublishedIsSent`, `DuplicatesOnlyAfterFailure`, `EveryEventSent` (liveness) |
| `matching` | 4 orders from 3 requests, 2 requests at a time, 1 failure or restart | `BookMatchesTable`, `RowsTellTrades`, `NoWaitCycle`, the refinement `ImplementsExchange` |
| `matching_race` | the same | violation of `NoDoubleSpending`: a cancelled order trades (see *Findings*) |
| `order_intake` | 2 handlers, 2 cancellers, 2 keys, one of them with two payloads and shared with another user, 2 failures or a stale trade | `FundsMatchOrders`, `OrdersAreBacked`, `OneOrderPerKey`, `RecordTellsOrder` |
| `withdrawals` | 2 users who share a key, one with funds for 2 withdrawals, 2 handlers, 2 instances, 2 failures | `PaidOnce`, `Backed`, `EventsTellChain`, `NoneLeftBehind` |
| `deposits` | 2 instances, a transaction with one deposit and one with two, 3 blocks, reorganisations, 1 reset, 1 failure | `CreditsAreFinal`, `NothingLost`, `EventuallyRecorded` (liveness) |
| `copy_trading` | 2 instances, 1 master, 1 follower, 3 trades, 1 handler of subscriptions, 1 failure | `HistoryTellsOrders`, `NeverOversells`, `ProcessedIsCopied` |
| `market_feed` | 1 client, 2 orders, 2 numbers, 2 subscriptions, 1 transfer, 1 failure | `NoGap`, `IndexAgrees` |
| `sessions` | 1 wallet with 2 devices, 2 calls at a time, 2 nonces, 3 tokens, 1 failure | `NonceUsedOnce`, `DevicesStayLoggedIn`, `FirstLoginSucceeds` |
| `gateway` | 3 attempts at requests of 9 routes, with and without key, token and valid body, 1 cancellation overwritten, 2 failures | `OncePerRequest`, `RefusedHasNoEffect`, `RepeatedIsAcknowledged` |

**Bounds.** `Balances` needs none: a key is posted once, so the ledgers end. Two connections are enough
for every race of two calls; the calls are chosen so that they meet on an account that does not exist
yet, on locked funds that suffice for one of two, and on keys used for another type, user or currency.
In `Settlement`, `MaxLog` (3) lets two different trades and a repetition or a poison pill be in the log
together; `Copies` allows the repetition; `MaxJoins` (2) allows both an overlap and a rejoin;
`MaxFaults` (1) one failure at any step. `Scale` = 2 with odd products makes both roundings happen. The
buyer's order (2 at price 3) is filled by two trades of 1, each of which costs it a product that is
rounded, and one unlock (`Releases`) of a part of it comes before, between or after them; the
constraint `InParts` leaves out that it is unlocked as a whole, which no step of a consumer would look
at. In `OutboxRelay`, three events and batches of two make relays share the table; two faults allow a
partial send followed by a crash. In `Matching`, four orders and two requests at a time (`MaxOrders`,
`MaxActive`) are what a wait cycle needs, two takers on two makers; the bid wants three asks, at one
price or at two, and is to look at two of them: `Limit` (50 in the code) is two in `matching`, and as
large as the book in the other runs of the module. In `OrderIntake`, two failures are a rollback and
then a compensation that fails too; two cancellers cancel the same order; `MaxOrders` leaves room for
one order of each key. In `Withdrawals`, two handlers repeat a request, two instances pick and recover
at the same time, and two failures are, for example, a crash after the hash is recorded and a debit
that fails in the recovery. `Dust` = 2 makes an odd amount lose what the token cannot express. In
`Deposits`, three blocks with one confirmation leave room for a deposit that is final, one that is
replaced and one in a new life of the node; `MaxBlockRange` = 1 makes every block a range of its own;
one transaction logs a deposit after an event the scanner does not ask for, the other one deposit of an
unsupported and one of a supported token, and what is credited rounds down. In `CopyTrading`, a buy and
two sells of one master meet in two instances, the allocation is less than the master's balance, and
ratios have one decimal, so that both roundings happen. In `MarketFeed`, two numbers can be committed
in the other order; two subscriptions leave two snapshots outstanding. In `Sessions`, two calls are
every race of two; three tokens are a login on each device and a refresh. In `Gateway`, three attempts
are a request, its repetition while it is under way, and one after, or a cancellation that is
overwritten (`MaxOverwrites` = 1) and comes again.

Reductions: symmetry of interchangeable processes in `Sessions`, `Withdrawals`, `OrderIntake` and
`CopyTrading`, which check no liveness; views in `OrderIntake` and `Withdrawals` that forget in
which order keys were posted (only whether they were is read) and what a finished handler or
cancellation had done; and constraints. `MCOneTable` in `Gateway` drops attempts at routes of two
different tables, whose steps touch different rows; an order to cancel is there from the start or
not, and the behaviours in which it is hold attempts to cancel only.
`MCBounds` in `OrderIntake` lets either the two keys of one user take part or the key two users
share, with one failure, one cancellation and no expiry; a stale trade is the only failure of its
behaviour, as no property about funds has anything to say of it, and those about keys do not read
amounts. `TwoAtMost` in `Withdrawals` does the same there, with one instance and one failure for the
shared key, and lets handlers overlap on one key only. `OneOrTheOther` in `Deposits` lets one of the two
transactions take part. The proofs have none of these limits.

`CHECK_DEADLOCK FALSE` is set where the bounded environment comes to an end: `Settlement`,
`OutboxRelay`, `Matching`, `Withdrawals`, `CopyTrading`, `MarketFeed`, `Sessions` and `Gateway` (all
messages handled, all rows ended, all numbers, tokens or attempts used).

**Fairness.** `Settlement` assumes weak fairness of what each consumer does by itself: the kafkajs
fetch loop runs for ever, and a pause ends after five seconds. No fairness of publishing, joining,
leaving or failing is assumed. `OutboxRelay` assumes weak fairness of each relay's own steps, as
`runPollLoop` loops and catches every error; failures, crashes and business transactions are not
fair. Failures are bounded: a broker that fails for ever publishes nothing. `Deposits` assumes weak
fairness of each scanner's steps, as `poll` schedules the next poll in `finally` whatever came of this
one; the chain's growth, crashes and failures are not fair. The others state no liveness: a
withdrawal or a copy that is left behind by a failure waits for a restart, which nothing promises;
`NoneLeftBehind` and `ProcessedIsCopied` say as safety properties who will go on.

## The proofs

`LedgerProofs` proves of `Balances`, for all sets of users, currencies, keys, calls and connections (from
`RequestAssumption`: a call has a positive amount and one of the five operations):

- `BalancesTypeOK`, `BalancesNonNegative`,
- `BalancesImplementsLedger`: `Spec => Ledger!Spec`; a commit is a posting, opening an account is
  one, every other step is a stutter,
- `BalancesPostedOnce` and `BalancesAuditTrail`,
- `BalancesSuccessIsOnLedger`.

The properties are not inductive: nothing in them says that the balances an UPDATE returned are
still those of the row when it commits. `LockInv` adds what the locks are for: a row has one
holder (`RowLock`); the balances about to be committed are the call applied to the committed
ones (`Pending`); a key about to be committed is on no ledger and claimed by nobody else
(`ClaimedKey`); a transaction past its SELECT has an account or is a deposit (`HeldAccount`).
`InitLockInv` and `NextKeepsLockInv` (one lemma for `Commit`, one case for each other action) show
that it is inductive. `CommitAppends` and `OtherStepsKeepBalances` then describe what a step does
to the ledgers, and the three theorems after the invariant follow. `BalancesSuccessIsOnLedger` is
about answers that were given long ago: `LedgersGrow` says that a row is never changed or taken away,
so that an answer stays true (`AnswerStays`) until its connection serves another call, and only a
commit and the look-up of a key answer with a success.

Of `Deposits` it proves, for any chain and logs of its transactions, any vault, number of
confirmations, block range and set of instances (from `ChainAssumption`: the types of these, and
that a unit of the platform is some positive number of on-chain units):

- `DepositsCreditsAreFinal`,
- `DepositsNothingLost`, of each deposit that is the only one its transaction logs among the two
  events the scanner asks for. (The vault of the repository emits neither of them, see *Findings*;
  of several deposits of a transaction one is recorded.)

Neither property says anything of a poll that is under way. `CreditsInv` follows a deposit from the
chain to the ledger: a poll goes on to blocks that have their confirmations in the life of the node it
read (`PollOK`), so the logs it has to process are final; a row that is credited tells of one of its
transaction's logs (`RowOK`); an entry of the ledger repeats a row (`PostingsOK`). `Kept` is what no
step undoes: what is credited, the contents of a confirmed row, and final blocks within a life.
`LostInv` looks back: in the blocks up to the last one of its range, a poll in the node's present life
has each log still to read or to process (`Ahead`), or the transaction of the log has its row and the
credit it is to have (`Handled`; `ScanOK`); before the cursor all have (`CursorTells`). A row is that
of one of the deposits its transaction was scanned for (`RowsTell`), so that where there is only one it
is that one. `RecordsStay` says that being handled lasts; a poll is done with a log only when that
holds of its transaction (`ProcessedScans`), and an empty list after the token logs leaves nothing
ahead, which is when the cursor is written. A crash or an error drops a poll with what it knew, and the
next one starts from the cursor. `FirstIn` (that there is a first log) is the one induction: a least
number, from `LeastSet`.

`SumTheorems` is what the theorems about money rest on. The sums of the community modules are a
CHOOSE of a recursive function, and none of its lemmas is in the libraries: `SumRecursion` shows
that the function exists, by a least counterexample among the finite subsets, `SumRemove` that it
does not matter which element is taken out first. `SumJoin`, `SumChange`, `SumAdd`, `SumMonotone`,
`SumOfPart`, `SumTransfer` and `SumInto` then say what a sum becomes when a member or a value changes.

`TradeProofs` proves about `Settlement`, for any orders and trades, log, consumers and failures (from
`OrderAssumption` and `TradeAssumption`: the fields of orders, and of a trade, which is on the terms of
its two orders (`Between`); `IdAssumption`: accounts have different ids; `ScaleAssumption`; and for the
second line `FundsAreLocked`: an account has locked at the start what `createOrder` locks, once per
order, and `FinitelyMany`: users, orders and trades):

- `SettlementTypeOK`, `SettlementSettledOnce` and `SettlementNothingSkipped`,
- `SettlementNonNegative` and `SettlementConservation`,
- `SettlementImplementsClearing`: `Spec => Clearing!Spec`; a commit settles the trade on its four
  accounts at once, an unlock of the orders service is a release, every other step is a stutter.

`SettleInv` says what a handler may rely on after each of its steps (`Hand`): the message in hand is
a trade whose accounts are open; a transaction that has inserted its event into `processed_events`
holds the rows of all accounts of the trade, and the trade is not settled; a message that is
handled has nothing left to do (`Done`). As row locks are exclusive (`RowLocks`), no two
transactions can be about to commit the same trade, which is why the second copy of an event never
reaches the ledger. `RowAppended` shows that a row that continues the last one keeps what
`SettledOnce` says of a ledger. The steps of a handler that change nothing but its own progress are
treated together by `HandlerKeeps`, the others by `ConsumerKeeps`.

That balances stay positive is not inductive: a settlement takes from `locked` without looking. The
invariant, `MoneyInv`, says where the funds of an order went: an account has locked what it had at the
start but what was spent or released of each of its orders (`Explained`), and `Scale` times what was
spent of a buy is no more than its price times the quantities of its trades (`Priced`), whatever
rounding down did to each of them (`DivBounds`, `DivLargest`). `PartsFit` is the arithmetic: the lock of
a whole order, half up, covers parts rounded down and the rest unlocked half up. `TakenWithin` applies
it to an order that trades no more than its amount and of which no more than the rest is unlocked
(`WithinOrder`). An order of which more is taken is what `NonNegative` names as the one reason for a
negative balance; the orders service can produce it (see *Findings*).
The sum of a currency stays because a trade between two users moves the same amount between two of
four different accounts; that a trade of a user with itself is not settled is part of the invariant.

About `Matching` it proves, for any requests, limits, numbers of orders and failures and finitely many
cancellers (`RequestAssumption`; prices and amounts are positive):

- `MatchingTypes` and `MatchingNoWaitCycle`, whatever overlaps or fails,
- `MatchingBookMatchesTable` and `MatchingRowsTellTrades`, which have `serial` as their premise,
- `MatchingImplementsExchange`: as long as `serial` holds, every step is a step of `Exchange` or a
  stutter.

`MatchInv` holds without `serial`. An order's side, price and place never change (`TermsKept`), so
the order of the book is fixed even where remaining amounts are overwritten. A taker has in hand
a list of makers in that order, all of them after those whose rows it holds (`Queue`). One who waits
therefore waits for a taker of its own side that holds the row it wants and whose own next maker
comes later (`WaitsForLater`): along a circle the next maker would come later and later, and among
finitely many one is last (`LastElement`).

That the book agrees with the table is said between requests; `Alone` says it for every step of
one, as long as `serial` holds. One request is under way; what it has read is still so; the book is
what its transaction sees of the table (`RowSeen`, `Booked`), except for the maker whose row it has
updated and whose entry it has not, and for the order a canceller has taken out. Each maker it has
filled differs from those before, as they come in the order of the book (`MakersDiffer`). A commit
then makes the table what the transaction saw, and a rehydration with nobody under way puts back what
the book had. `Accounts` adds the trades: the fills of a transaction become trades with makers that
differ, so that the taker's filled amount grows by their sum and each maker's by its own
(`TradesOfFills`), and only a cancelled order has an amount unlocked, its remaining one.

For the refinement a COMMIT has to be the one step of `Exchange` that places the order. `CourseInv`
says what the transaction has done until then. A taker goes through exactly the orders on offer
(`Offered`: live, of the other side, with fewer than `Limit` better ones), which are those the range of
the sorted set gave it (`BestOffered`), and drops none but those of its own user (`GoesThrough`);
every maker it has filled is filled whole, unless it is the last and the taker has nothing left
(`WholeFills`); every order but the one being placed is in the table and seen (`InOrder`). In
`Exchange` a maker gets what the sum of those ahead of it leaves. That makers filled in turn trade
just that is `TradedInTurn`. It needs no induction: what was filled before a maker is a part of the
taker's fills, and a maker filled whole adds its remaining amount to both sums. `CommitOrderPlaces`
then maps COMMIT to `Place` and `CancelRowCancels` the UPDATE of a cancel to `Cancel`; every other
step leaves what is shown of the table as it was (`ShownSame`).

`OrderIntakeProofs` proves, for all users, requests, handlers and cancellers and any number of
failures (from `RequestAssumption`: there is a request, and its amount is positive;
`BoundsAssumption`: the funds and the size of the table are natural numbers, handlers and cancellers
are finitely many):

- `OrderIntakeTypeOK`: no available balance is negative, and every record, handler and canceller
  refers to an order there is,
- `OrderIntakeOneOrderPerKey` and `OrderIntakeRecordTellsOrder`,
- `OrderIntakeOrdersAreBacked` and `OrderIntakeFundsMatchOrders`.

That a key makes one order is not inductive: what keeps a handler from placing a second one was decided
several steps before, when it created the record. `IntakeInv` says what each step may rely on: the
record of a key somebody works on is in progress (`RecordInProgress`); nobody else works on the key
(`OneHandler`); there is no order of the key before the handler places one, exactly its own afterwards,
and none while it compensates unless a COMMIT went unanswered (`OrdersOfHandler`); and no order is
without a record (`OrdersHaveRecords`); an order that a transaction has inserted and not committed is
its own (`OrderOfTransaction`), and neither trades nor is cancelled. `CreateRecordKeepsInv`,
`PlaceKeepsInv` and `FinishKeepsInv` are the steps that matter; every other step is a `Move`, which
only gives up or goes on, and `MovesKeepInv` treats them together.

The funds are three sums: what the orders claim (`Owing`), what the handlers in flight have locked
(`Held`) and what the cancellers are to give back (`Given`). `FundsInv` says of the difference to
what is locked, `Spare`, that it is never negative unless a COMMIT went unanswered or a trade was
stale (`Lossless`), and zero if only rollbacks happened; each step moves an amount from one of the four
numbers to another. A call moves the balance only if its key is new, and a repetition changes nothing:
`KeyInv` says at which steps a key is new on the ledger of its user, so that a lock is never taken for
done when it was not, and nothing is given back twice. As `lock:<key>` names no user, that is enough
only for a user under whose keys nobody else has locked (`LocksOwn`) or, for equality, unlocked
(`UnlocksOwn`): the lock of another is answered as a repetition, and his order is not backed.

`AccessProofs` proves about `Gateway`, for any set of requests, attempts and faults, `GatewayTypeOK`,
`GatewayRefusedHasNoEffect`, `GatewayOncePerRequest` and `GatewayRepeatedIsAcknowledged`. That a client
who is told 4xx has had no effect needs `AnswersInv`: an attempt that took effect has ended well or
with a plain error (`ResultOfEffect`), which the two filters make 200 or 500, and one that was told 4xx
has ended (`RefusedHasEnded`), so that it cannot take effect afterwards; a deadline is 504 and a broken
connection 503. `OncePerRequest` needs `EffectsInv`: a row that is there does not go away, so that
requests which insert one do so once, and only the attempt that created the record, also one that has
expired since, may place the order. A row of `orders` can be written again: `CancelsInv` says that an
order was cancelled as often as a match has overwritten that it is cancelled, and once more if its row
says so. That a repetition is acknowledged needs more: `AckInv` says that a record in progress has one
creator, who alone makes it completed or failed, so that a completed one stays (`RecordsInv`); and that
what a finished request made is `Found` from then on, so that a late attempt never gets past the
look-up, unless it is an order whose record has expired, or a cancellation of a subscription, which is
repeated. `RequestAssumption` says which services look at a body at all.

About `Sessions` it proves, for any wallets, devices, calls and bounds, `SessionsTypeOK`,
`SessionsNonceUsedOnce`, `SessionsFirstLoginSucceeds` and `SessionsDevicesStayLoggedIn`. `NonceInv`
says that a nonce is in one place, Redis, a call that has consumed it, or behind a token, and is of
one wallet throughout: GETDEL moves it from the first to the second, the INSERT of the token from
the second to the third. `LoginInv` says that a login that looks again for its user finds the row or
something failed. That devices stay logged in needs `DevicesInv`: a token belongs to one device
(`OwnInv`), so that whoever revokes it revokes his own; and as long as no device of a user asks
twice at a time and nothing fails, the token a call is to replace is good (`GoodAt`) and the call is
the only one of its device for that (`AloneAt`), so that `revoking_all`, the answer to a revoked
token, is never reached. `MovesKeepDevices` says what is to be shown of a step of a call.

`WithdrawalsProofs` proves, for any users, handlers, instances and faults and finitely many requests,
`WithdrawalsTypeOK`, `WithdrawalsPaidOnce`, `WithdrawalsBacked`, `WithdrawalsEventsTellChain` and
`WithdrawalsNoneLeftBehind`. `PayInv` is why nobody is paid twice: a user and key has one row; a row
that has been picked is never pending again; one instance at most is about to send for a row, and
none when there is a transaction of it. The balances play no part in that.

They do in the others, which need to know what has happened to a row on four places at once, the
table, the chain, the ledger and in an instance's hands. `ChainInv` ties them: a row is debited only
when it was paid (`Paid`), and completed only when it was debited; it is unlocked or fails only when
nothing was and nothing will be transferred for it (`Void`), as long as no error was taken for one
of the transaction (`Trusted`). Both `Paid` and `Void` stay once they hold, by what never goes back:
rows, transactions, postings and failures (`Grows`). `FundsInv` then says that what a user has locked
is the sum, over the requests, of what is locked for each and not released, and `Backed` is that each
row that was or may be transferred is in that sum. The keys of the ledger do not name the user:
`KeysTell` says that a key is of one posting, whoever made it, and `LocksTell` that the funds of a row
were locked on somebody's account. That it was the account of the row's user holds as long as nobody
else locks under his keys (`LocksOwn`), which is what `FundsInv` and `Backed` say it of; what leaves a
row in progress behind, a shared key among it, is `Excused`.

`EventProofs` proves about `OutboxRelay`, for any events, relays, batch size and failures,
`OutboxTypesOK`, `OutboxPublishedIsSent` and `OutboxDuplicatesOnlyAfterFailure`. Neither property is
inductive: that a row is marked only after its event was sent depends on a relay that is about to
mark its batch having sent all of it, and on nobody else having the row. `OutboxInv` says so, and
counts: of the copies of an event all are of sends that failed, but one if its last send did not
(`Sent`). A send that succeeds adds a copy and makes the event `Sent`; one that fails half way, or a
relay that stops between the send and the commit, adds a failure. `WriteAdds` says what a send does
to the number of copies.

About `MarketFeed` it proves, for any orders, nodes, clients and faults, `MarketFeedTypeOK`,
`MarketFeedIndexAgrees` and `MarketFeedNoGap`. `NoGap` speaks of clients who wait for nothing; the
invariant, `GapInv`, says what a waiting one may rely on: a client who has subscribed is in the
room, and each delta the bridge has published was sent to him, is on its way to his node or lost, or
has a number that a snapshot covers, one he was sent or one to come. A snapshot that is asked for
covers every number, one that was read covers the counter it was read with; that the client joins
before he asks is what keeps the room and the snapshot together (`SubscribeBookKeeps`). The steps of
the orders service, of the bridge and of the sockets leave different parts of the state, and
`GrowsKeeps`, `BridgeKeeps` and `ClientKeeps` say what is to be shown of each kind.

`CopyTradingProofs` proves, for any instances, masters, followers and faults and finitely many trades,
`CopyHistoryTellsOrders`, `CopyProcessedIsCopied`, `CopyOneAtATime` and `CopyNeverOversells`. `LockInv`
says that who works for a follower holds his lock; only an expiry under the owner breaks it, not a
crash, since the lock of an instance that stopped stays. With `OrderInv` (an order was placed for a
subscription of its follower to a party of its trade) it gives `TellInv`: between the order and its row
nobody else asks for an order with the same key, so that the answer `COMPLETED` is about one's own
order unless a row was there before. `ProcessedIsCopied` allows that some instance is still at work;
the invariant, `DueInv`, says more: while a copy that is owed has no row, its trade is not marked, and
the instance that handles it is alone and has yet to come to this subscription (`Awaits`). `WorkKeeps`
says what is to be shown of a step of the consumer, `QuietKeeps` of one that writes no order, row or
lock. That a follower sells no more than was bought for him is a race between reading his history and
adding to it: `SellInv` says that what an instance is about to sell still fits into what the history
says (`Fits`), since nobody else gets the lock before the order has its row, and `HistoryTotals` that a
history which agrees with the orders adds up to the same; `Quotients` and `QuantitiesFit` say that
neither rounding makes the quantity more than the position it was computed from.

Assumptions of the proofs: the named ASSUMEs of the modules (types of the constants, that there is a
request, that amounts are positive, that "none" is no instance, trade or subscription, that what is
summed over is finite, and that trades are between orders with locked funds, as said above). TLC
evaluates them in every run.

Only model-checked: liveness (`EveryMessageHandled`, `EveryEventSent`, `EventuallyRecorded`), as
TLAPS does not reason about fairness and ENABLED here. Every other property of a passing run, the
three refinements among them, is proved.

## Findings

`matching_race`: `README.md:16` says the system is "protecting against double spending". A taker
has read an order from the book; its owner cancels it and its funds are unlocked; the taker's
`updateExecution` (`matching-engine.service.ts:101`) does not look at the status, and it trades.

### Further known divergences

Other places where the code does not do what a doc, a comment or a test says. Each has a
configuration under which TLC shows a behaviour (`tlc -config X.cfg MCModule`); they are not
among the runs of the project.

| Configuration, property | What the repository says | What TLC shows |
|---|---|---|
| `BalancesReplay.cfg`, `DuplicateKeyReturnsOriginalResult` | `libs/contracts/proto/accounts.proto:38`: "duplicate key returns the original result" | `resolveIdempotencyReplay` (`balances.repository.ts:560`) answers with the balances the account has by then |
| `SettlementCommit.cfg`, `CommittedAfterHandling` | `kafka-consumer.abstract.ts:108`: "manual commit after successful handling" | `commitOffsetsIfNecessary()` without offsets commits nothing in this configuration; a group that restarts begins at the end of the log, and trades published meanwhile are not settled |
| `OutboxRetry.cfg`, `RetryAttemptIsRecorded` | `outbox-relay.service.spec.ts:161`: "should record retry attempt on each event when Kafka publish fails" | the attempt is rolled back with the transaction |
| `MatchingPriority.cfg`, `OlderOrdersFirst` | `orderbook.service.spec.ts:153` calls the order of makers "Price-Time" | bids are read in reverse (`orderbook.service.ts:122`), and among equal prices the order ids too: the newest bid trades first |
| `OrderIntakeCommit.cfg`, `OrdersAreAlwaysBacked` | `README.md:16`: "protecting against double spending" | the compensation in `createOrder` (`orders.service.ts:364`) also runs when COMMIT took effect and its answer was lost: the order is in the table, its funds unlocked |
| `DepositsVault.cfg`, `DepositsAreCredited` | `test/e2e/deposit.e2e-spec.ts:64`: "should deposit native ETH into DepositVault and credit account balance" | `deposit-vault.sol:13` emits `Deposited`; the scanner (`deposit-scanner.service.ts:8-14`) asks for `NativeDeposited` and `TokenDeposited`, and never sees it |
| `CopySubscriptions.cfg`, `AllocationsFit` | `copy-trading.service.ts:142`: "sum(existing active allocations) + requested <= availableBalance" | two calls of a follower check before either writes, and the sum exceeds his balance |
| `GatewayRefusals.cfg`, `MissingOrderIsNotFound` | `test/e2e/trading.e2e-spec.ts:77`: cancelling a non-existent order "correctly returns 404" | the orders service throws 404 as a gRPC code, and the client is told 502 |
| `GatewayRetries.cfg`, `CancellationRetriesAreSafe` | `orders.swagger.ts:49`: "Unique client operation key for safe cancellation retries." | the key is not used; the repetition of a cancellation that succeeded is answered 502 |

`Withdrawals!AlwaysBacked` is `Backed` without its premise (`README.md:16` again): an error after a
transaction was broadcast, or a second identical request whose INSERT is refused, unlocks funds
that leave the chain account (`withdrawal-processor.service.ts:189`, `transfers.service.ts:75`).

### Met while modelling, and not checked

- The level of a delta (`orders.events.ts:19`) is the total from before matching
  (`orders.service.ts:206`), and trades change the levels of makers with no delta; the total counts
  the first 501 orders of the book (`orderbook.service.ts:166`). `NoGap` is about deltas, not totals.
- A snapshot's number is read after the book (`orderbook.service.ts:219`): a delta in between is older
  than the snapshot says and newer than what it holds.
- A member of the bridge's group that rejoins starts at the end of the log; Valkey keeps no messages.
  `NoGap` excludes both by name (`missing`, `lost`).
- A transaction has one row of `wallet_deposits` (`deposit-processor.service.ts:80`): of several deposits
  that one transaction logs all but one are lost. `NothingLost` and `EventuallyRecorded` are about
  transactions with one.
- The book in Redis is changed inside the SQL transaction of a match (`matching-engine.service.ts:116`)
  and stays ahead of the table when that is rolled back; a rehydration adds the live orders and removes
  none (`orderbook.service.ts:233`). `BookMatchesTable` excludes both by `serial`.
- `updateExecution` (`orders.repository.ts:112`) makes a cancelled order filled or partially filled
  again: in the second case it can be cancelled again with effect, and what is unlocked may be owed for
  its trades. `OncePerRequest`
  counts that, `OrdersAreBacked` excludes it by name (`"stale"`).
- `lock:<key>` and `withdraw-lock:<key>` name no user: of two users who send the same key the second is
  told that his funds are locked, and none are. `LocksOwn` excludes it.
- A record of `idempotency_records` that has expired is not found (`idempotency.repository.ts:42`) and is
  still unique: an order that is repeated after a day is answered with 500.
- The lock of a follower expires after ten seconds, also while it is held
  (`distributed-lock.service.ts:20`); `NeverOversells` excludes that.
- The bridge tells a client that a deposit is CREDITED when it is confirmed
  (`kafka-bridge.service.ts:270`).
- A logout or refresh that overlaps a refresh of the same device, or a refresh repeated because its
  answer was lost, revokes all sessions of the user (`token.service.ts:120`); two refreshes with one
  token that overlap may both be given a successor. `DevicesStayLoggedIn` excludes that by its premise.
  A second nonce replaces the first: two devices cannot sign in at once.
- A follower of both parties of a trade gets one order for two copies, as the key names the trade and
  the follower (`master-trade-replication.consumer.ts:267`). If the copy of the SELL side places it and
  the trade comes again since it could not be marked, the copy of the BUY side is answered with that
  same order and gets a COMPLETED row of something nobody bought, which the buyer's next sale sells.
  `NeverOversells` excludes such a subscription (`Agrees`), as the history no longer tells its orders;
  without that premise TLC finds this with two masters. A FAILED or SKIPPED row keeps a later COMPLETED
  one out; `activeMastersMap` is per instance; the balance of a master is up to 5 s old.
- `copy-trading.swagger.ts:62` says "Idempotent via x-idempotency-key"; the key is not used.
- A withdrawal that is refused for insufficient balance is answered with 500, and so is the
  repetition of an order whose record has failed. A faucet call without a key gets a fresh one
  for every attempt. An exception whose text names a refused connection becomes 503 whatever its
  status was. Calls from orders to accounts have no deadline.

## Not modelled

Ledger ids, timestamps, metrics, tracing and log lines; reads that change nothing (lists, balances,
profiles); DTO classes and their mapping; generated contracts; health checks and configuration.
Of the Solidity contracts only the event of a deposit is modelled, not the owner's withdrawals or
pausing. Retention: rows of `processed_events` are deleted after 30 days; whether a message may
still come again by then depends on the retention of Kafka, which is not in the repository. Rate
limits (of the gateway and of sockets) refuse requests and change nothing else. Roles and admin
routes. Decimal arithmetic beyond the amounts of settlement and of copies. Access tokens are
signed and not stored; their expiry is a `token` that is valid or not in `Gateway`.

`partly` in `PROJECT.json`: the Kafka producer is modelled as a send that writes all, some or
nothing; of the book's queries the depth is a number in `MarketFeed`, its levels are not.

## Plan

What is worth adding next: the sequence of levels in `MarketFeed` (the first two points of *Met while modelling*);
composition of `MarketFeed` with `OutboxRelay`, whose relays may reorder events between batches.
