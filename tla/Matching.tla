------------------------------ MODULE Matching ------------------------------
(***************************************************************************)
(* Matching in the orders service: createOrder's database transaction with *)
(* the MatchingEngineService in it, cancelOrder, the OrderbookService and  *)
(* the rehydration at start, for one trading pair.                         *)
(*                                                                         *)
(* There are two records of the live orders: the table orders, changed in  *)
(* transactions, and the book in Redis, changed at once by every command.  *)
(* A taker reads the makers' remaining amounts from the book, reads what   *)
(* is filled of them from the table, updates the table (where an UPDATE    *)
(* waits for a row another transaction has updated, and then overwrites    *)
(* it), updates the book, puts what is left of it into the book, and       *)
(* commits. Nothing keeps requests of a pair apart: each may be at any of  *)
(* these steps while another proceeds.                                     *)
(*                                                                         *)
(* An order is in the book when Redis has both its place in the sorted set *)
(* and its hash: who sees only one of them skips the order, or has read    *)
(* the other before. Funds are only accounted for by what a cancelled      *)
(* order unlocks.                                                          *)
(***************************************************************************)
EXTENDS OrderTerms, SequencesExt

CONSTANTS
    Request,    \* the orders that may be placed: [user, side, price, amount] records
    Canceller,  \* handlers of cancelOrder
    Limit,      \* how many opposing orders a taker looks at
    MaxOrders,
    MaxActive,  \* how many requests may be worked on at a time
    MaxFailures

ASSUME RequestAssumption ==
    /\ MaxOrders \in Nat /\ Limit \in Nat \ {0} /\ IsFiniteSet(Canceller)
    /\ \A r \in Request :
          r.side \in {"BUY", "SELL"} /\ r.price \in Nat \ {0} /\ r.amount \in Nat \ {0}

VARIABLES
    orders,    \* orders[i]: the committed row of order i, with status "NONE" before
    trades,    \* the committed trades (outbox_events of type trade_executed)
    book,      \* the orders in the book, with their remaining amounts
    at,        \* at[i]: how far the request that places order i has come
    ids,       \* ids[i]: the opposing orders whose details it has still to read
    entries,   \* entries[i]: those it has read and not yet matched
    seen,      \* seen[i]: the filled amount of the maker it is matching
    rows,      \* rows[i]: the rows its transaction has updated
    fills,     \* fills[i]: the trades of its transaction
    cancel,    \* cancel[c]: what canceller c does, and to which order
    unlocked,  \* unlocked[i]: the amount of order i whose funds have been unlocked
    failures,  \* how often a request failed
    serial     \* no requests have overlapped so far, and none has failed (history)

taker == <<at, ids, entries, seen, rows, fills>>
matchingVars == <<orders, trades, book, at, ids, entries, seen, rows, fills, cancel, unlocked,
                  failures, serial>>

Id == 1 .. MaxOrders
EmptyFunction == [i \in {} |-> 0]
Idle == [pc |-> "idle", order |-> 0, amount |-> 0]

MatchingInit ==
    /\ orders = << >>
    /\ trades = {}
    /\ book = EmptyFunction
    /\ at = [i \in Id |-> "new"]
    /\ ids = [i \in Id |-> << >>]
    /\ entries = [i \in Id |-> << >>]
    /\ seen = [i \in Id |-> 0]
    /\ rows = [i \in Id |-> EmptyFunction]
    /\ fills = [i \in Id |-> << >>]
    /\ cancel = [c \in Canceller |-> Idle]
    /\ unlocked = [i \in Id |-> 0]
    /\ failures = 0
    /\ serial = TRUE

-----------------------------------------------------------------------------

Placing == {i \in Id : at[i] \notin {"new", "done", "aborted"}}
Cancelling == {c \in Canceller : cancel[c].pc # "idle"}
Active == Cardinality(Placing) + Cardinality(Cancelling)

\* A request begins.
Begin == Active < MaxActive /\ serial' = (serial /\ Active = 0)

Visible(j) == j \in DOMAIN orders /\ orders[j].status # "NONE"

\* A transaction other than the one of i has updated row j, and is not over. A row
\* that is not committed yet is not seen, and not waited for.
RowLocked(i, j) == Visible(j) /\ \E k \in Placing \ {i} : j \in DOMAIN rows[k]

\* What is left of the amount of the taker.
Left(i) ==
    orders[i].amount -
        SumFunctionOnSet([n \in DOMAIN fills[i] |-> fills[i][n].quantity], DOMAIN fills[i])

Set(f, j, value) == [k \in DOMAIN f \cup {j} |-> IF k = j THEN value ELSE f[k]]
Without(f, j) == [k \in DOMAIN f \ {j} |-> f[k]]

Goto(i, step) == at' = [at EXCEPT ![i] = step]

\* The transaction of i is over, and its locks are released.
End(i, outcome) ==
    /\ Goto(i, outcome)
    /\ ids' = [ids EXCEPT ![i] = << >>]
    /\ entries' = [entries EXCEPT ![i] = << >>]
    /\ seen' = [seen EXCEPT ![i] = 0]
    /\ rows' = [rows EXCEPT ![i] = EmptyFunction]
    /\ fills' = [fills EXCEPT ![i] = << >>]

-----------------------------------------------------------------------------
(***************************************************************************)
(* createOrder, from the start of its transaction.                         *)
(***************************************************************************)

\* The row of the order is inserted, which nobody else sees yet.
PlaceOrder(r) ==
    LET i == Len(orders) + 1
    IN  /\ i <= MaxOrders
        /\ Begin
        /\ orders' = Append(orders,
               [user |-> r.user, side |-> r.side, price |-> r.price, amount |-> r.amount,
                filled |-> 0, remaining |-> r.amount, status |-> "NONE"])
        /\ Goto(i, "reading")
        /\ UNCHANGED <<trades, book, ids, entries, seen, rows, fills, cancel, unlocked, failures>>

Opposing(i) == {j \in DOMAIN book : orders[j].side # orders[i].side}
BestFirst(S) ==
    {s \in SetToSeqs(S) :
        \A m, n \in DOMAIN s : m < n => Before(orders[s[m]], s[m], orders[s[n]], s[n])}

\* Mutant: the opposing orders come in no particular order.
ReadBookUnordered(i) ==
    /\ at[i] = "reading"
    /\ \E s \in SetToSeqs(Opposing(i)) : ids' = [ids EXCEPT ![i] = s]
    /\ Goto(i, IF Opposing(i) = {} THEN "matching" ELSE "details")
    /\ UNCHANGED <<orders, trades, book, entries, seen, rows, fills, cancel, unlocked, failures,
                   serial>>

\* zrange: the ids of the best opposing orders, of which there is one order.
ReadBook(i) ==
    /\ at[i] = "reading"
    /\ \E best \in BestFirst(Opposing(i)) :
           ids' = [ids EXCEPT ![i] = SubSeq(best, 1, IF Len(best) < Limit THEN Len(best) ELSE Limit)]
    /\ Goto(i, IF Opposing(i) = {} THEN "matching" ELSE "details")
    /\ UNCHANGED <<orders, trades, book, entries, seen, rows, fills, cancel, unlocked, failures,
                   serial>>

\* hgetall: the details of the next one, unless it is gone. Orders of the same user
\* will be skipped.
ReadDetails(i) ==
    LET j == Head(ids[i])
    IN  /\ at[i] = "details"
        /\ ids' = [ids EXCEPT ![i] = Tail(@)]
        /\ entries' = [entries EXCEPT ![i] =
               IF j \in DOMAIN book /\ orders[j].user # orders[i].user
               THEN Append(@, [order |-> j, remaining |-> book[j]])
               ELSE @]
        /\ Goto(i, IF Tail(ids[i]) = << >> THEN "matching" ELSE "details")
        /\ UNCHANGED <<orders, trades, book, seen, rows, fills, cancel, unlocked, failures, serial>>

\* There is something left to trade, and the next maker's price is met.
HasMatch(i) ==
    /\ Left(i) > 0
    /\ entries[i] # << >>
    /\ Crosses(orders[i], orders[Head(entries[i]).order])

\* Mutant: the maker is taken for unfilled.
FindMakerUnfilled(i) ==
    /\ at[i] = "matching"
    /\ HasMatch(i)
    /\ seen' = [seen EXCEPT ![i] = 0]
    /\ Goto(i, "updating")
    /\ UNCHANGED <<orders, trades, book, ids, entries, rows, fills, cancel, unlocked, failures,
                   serial>>

\* findById: the filled amount of the maker, as far as the transaction sees its row.
FindMaker(i) ==
    /\ at[i] = "matching"
    /\ HasMatch(i)
    /\ LET j == Head(entries[i]).order
       IN  seen' = [seen EXCEPT ![i] = IF Visible(j) THEN orders[j].filled ELSE 0]
    /\ Goto(i, "updating")
    /\ UNCHANGED <<orders, trades, book, ids, entries, rows, fills, cancel, unlocked, failures,
                   serial>>

\* Mutant: the taker trades all it has left with the maker.
MatchAmountOfTaker(i) == Left(i)

\* The quantity of the trade with the next maker.
MatchAmount(i) ==
    LET remaining == Head(entries[i]).remaining
    IN  IF Left(i) < remaining THEN Left(i) ELSE remaining

\* updateExecution of the maker: waits for its row, and sets the amounts computed
\* from the book and from what findById saw, whatever the row has by now. Without
\* a row that it sees it does nothing.
UpdateMaker(i) ==
    LET entry == Head(entries[i])
        j == entry.order
        q == MatchAmount(i)
    IN  /\ at[i] = "updating"
        /\ ~RowLocked(i, j)
        /\ rows' = [rows EXCEPT ![i] =
               IF Visible(j)
               THEN Set(@, j, Executed(orders[j], seen[i] + q, entry.remaining - q))
               ELSE @]
        /\ Goto(i, "booking")
        /\ UNCHANGED <<orders, trades, book, ids, entries, seen, fills, cancel, unlocked,
                       failures, serial>>

\* The maker leaves the book when it is filled, or its remaining amount is set (if
\* it has left meanwhile, the hash this makes is no order). The trade is recorded.
UpdateBook(i) ==
    LET entry == Head(entries[i])
        q == MatchAmount(i)
        j == entry.order
    IN  /\ at[i] = "booking"
        /\ book' = IF entry.remaining = q THEN Without(book, j)
                   ELSE IF j \in DOMAIN book THEN Set(book, j, entry.remaining - q)
                   ELSE book
        /\ fills' = [fills EXCEPT ![i] =
               Append(@, [maker |-> j, price |-> orders[j].price, quantity |-> q])]
        /\ entries' = [entries EXCEPT ![i] = Tail(@)]
        /\ Goto(i, "matching")
        /\ UNCHANGED <<orders, trades, ids, seen, rows, cancel, unlocked, failures, serial>>

\* The loop ends. updateExecution of the taker's own row, and addOrder of what is
\* left: the book has the order before its row is committed.
AddTaker(i) ==
    /\ at[i] = "matching"
    /\ ~HasMatch(i)
    /\ rows' = [rows EXCEPT ![i] =
           Set(@, i, Executed(orders[i], orders[i].amount - Left(i), Left(i)))]
    /\ book' = IF Left(i) > 0 THEN Set(book, i, Left(i)) ELSE book
    /\ Goto(i, "committing")
    /\ UNCHANGED <<orders, trades, ids, entries, seen, fills, cancel, unlocked, failures, serial>>

\* COMMIT of the rows and the outbox events.
CommitOrder(i) ==
    /\ at[i] = "committing"
    /\ orders' = [j \in DOMAIN orders |-> IF j \in DOMAIN rows[i] THEN rows[i][j] ELSE orders[j]]
    /\ trades' = trades \cup
          {[maker |-> f.maker, taker |-> i, price |-> f.price, quantity |-> f.quantity] :
              f \in ToSet(fills[i])}
    /\ End(i, "done")
    /\ UNCHANGED <<book, cancel, unlocked, failures, serial>>

\* The database or Redis fails, and the transaction is rolled back. The book keeps
\* what has been done to it.
RollbackOrder(i) ==
    /\ i \in Placing
    /\ failures < MaxFailures
    /\ failures' = failures + 1 /\ serial' = FALSE
    /\ End(i, "aborted")
    /\ UNCHANGED <<orders, trades, book, cancel, unlocked>>

-----------------------------------------------------------------------------
(***************************************************************************)
(* cancelOrder.                                                            *)
(***************************************************************************)

\* The order is found, neither cancelled nor filled.
BeginCancel(c, i) ==
    /\ cancel[c].pc = "idle"
    /\ Visible(i) /\ Live(orders[i])
    /\ Begin
    /\ cancel' = [cancel EXCEPT ![c] = [pc |-> "found", order |-> i, amount |-> 0]]
    /\ UNCHANGED <<orders, trades, book, taker, unlocked, failures>>

\* It is removed from the book.
RemoveOrder(c) ==
    /\ cancel[c].pc = "found"
    /\ book' = Without(book, cancel[c].order)
    /\ cancel' = [cancel EXCEPT ![c].pc = "removed"]
    /\ UNCHANGED <<orders, trades, taker, unlocked, failures, serial>>

\* The conditional UPDATE waits for the row, and commits. An order that is not live
\* any more is refused.
CancelRow(c) ==
    LET i == cancel[c].order
    IN  /\ cancel[c].pc = "removed"
        /\ ~RowLocked(0, i)
        /\ IF Live(orders[i])
           THEN /\ orders' = [orders EXCEPT ![i].status = "CANCELLED"]
                /\ cancel' = [cancel EXCEPT ![c].pc = "cancelled", ![c].amount = orders[i].remaining]
           ELSE UNCHANGED orders /\ cancel' = [cancel EXCEPT ![c] = Idle]
        /\ UNCHANGED <<trades, book, taker, unlocked, failures, serial>>

\* The funds of what remained are unlocked.
Unlock(c) ==
    /\ cancel[c].pc = "cancelled"
    /\ unlocked' = [unlocked EXCEPT ![cancel[c].order] = @ + cancel[c].amount]
    /\ cancel' = [cancel EXCEPT ![c] = Idle]
    /\ UNCHANGED <<orders, trades, book, taker, failures, serial>>

\* The database fails, or the accounts service does, which is only logged: the order
\* is live and not in the book, or it is cancelled and its funds stay locked.
CancelFails(c) ==
    /\ c \in Cancelling
    /\ failures < MaxFailures
    /\ failures' = failures + 1 /\ serial' = FALSE
    /\ cancel' = [cancel EXCEPT ![c] = Idle]
    /\ UNCHANGED <<orders, trades, book, taker, unlocked>>

-----------------------------------------------------------------------------

\* Mutant: rehydration starts from the amounts the orders were placed with.
RehydrateAmounts == [i \in {j \in DOMAIN orders : Live(orders[j])} |-> orders[i].amount]

\* What onModuleInit puts into the book.
Rehydrate == [i \in {j \in DOMAIN orders : Live(orders[j])} |-> orders[i].remaining]

\* The service restarts: requests end where they are, and all live orders of the
\* table are added to the book, which is not cleared.
Restart ==
    /\ failures < MaxFailures
    /\ failures' = failures + 1
    /\ serial' = (serial /\ Active = 0)
    /\ at' = [i \in Id |-> IF i \in Placing THEN "aborted" ELSE at[i]]
    /\ ids' = [i \in Id |-> << >>] /\ entries' = [i \in Id |-> << >>]
    /\ seen' = [i \in Id |-> 0] /\ fills' = [i \in Id |-> << >>]
    /\ rows' = [i \in Id |-> EmptyFunction]
    /\ cancel' = [c \in Canceller |-> Idle]
    /\ book' = [i \in DOMAIN book \cup DOMAIN Rehydrate |->
                   IF i \in DOMAIN Rehydrate THEN Rehydrate[i] ELSE book[i]]
    /\ UNCHANGED <<orders, trades, unlocked>>

MatchingNext ==
    \/ \E r \in Request : PlaceOrder(r)
    \/ \E i \in Id :
          \/ ReadBook(i) \/ ReadDetails(i) \/ FindMaker(i) \/ UpdateMaker(i)
          \/ UpdateBook(i) \/ AddTaker(i) \/ CommitOrder(i) \/ RollbackOrder(i)
    \/ \E c \in Canceller :
          \/ \E i \in Id : BeginCancel(c, i)
          \/ RemoveOrder(c) \/ CancelRow(c) \/ Unlock(c) \/ CancelFails(c)
    \/ Restart

MatchingSpec == MatchingInit /\ [][MatchingNext]_matchingVars

-----------------------------------------------------------------------------
(***************************************************************************)
(* What is true of it.                                                     *)
(***************************************************************************)

Stage == {"new", "reading", "details", "matching", "updating", "booking", "committing",
          "done", "aborted"}
Row == [user : {r.user : r \in Request}, side : {"BUY", "SELL"}, price : Nat, amount : Nat,
        filled : Nat, remaining : Nat,
        status : {"NONE", "OPEN", "PARTIALLY_FILLED", "FILLED", "CANCELLED"}]

\* The table, the book and the requests have the values they can have: no amount is
\* negative, even where transactions have overwritten each other, and a transaction
\* updates rows of others only if they are committed.
MatchingTypeOK ==
    /\ orders \in Seq(Row) /\ Len(orders) <= MaxOrders
    /\ trades \subseteq [maker : Id, taker : Id, price : Nat, quantity : Nat \ {0}]
    /\ DOMAIN book \subseteq DOMAIN orders /\ \A i \in DOMAIN book : book[i] \in Nat \ {0}
    /\ at \in [Id -> Stage] /\ \A i \in Id : at[i] = "new" <=> i \notin DOMAIN orders
    /\ ids \in [Id -> Seq(Id)]
    /\ entries \in [Id -> Seq([order : Id, remaining : Nat \ {0}])]
    /\ seen \in [Id -> Nat]
    /\ \A i \in Id : \A j \in DOMAIN rows[i] : rows[i][j] \in Row /\ (j = i \/ Visible(j))
    /\ fills \in [Id -> Seq([maker : Id, price : Nat, quantity : Nat \ {0}])]
    /\ cancel \in [Canceller -> [pc : {"idle", "found", "removed", "cancelled"},
                              order : 0 .. MaxOrders, amount : Nat]]
    /\ unlocked \in [Id -> Nat] /\ failures \in Nat /\ serial \in BOOLEAN

\* As long as requests neither overlap nor fail, each of them is one atomic step of
\* an exchange.
Exchange == INSTANCE Exchange WITH
    orders <- [i \in {j \in DOMAIN orders : Visible(j)} |-> orders[i]]
ImplementsExchange == Exchange!Spec

\* As long as requests neither overlap nor fail, the book has the live orders of the
\* table with what remains of them, whenever no request is worked on. A restart
\* changes nothing about it.
BookMatchesTable ==
    LET live == {i \in DOMAIN orders : Live(orders[i])}
    IN  serial /\ Active = 0 => book = [i \in live |-> orders[i].remaining]

\* Transactions that match side by side do not deadlock on the rows of makers: all
\* update them in the order of the book.
WaitsFor(i, j) ==
    /\ at[i] = "updating"
    /\ LET maker == Head(entries[i]).order
       IN  Visible(maker) /\ j \in Placing \ {i} /\ maker \in DOMAIN rows[j]
NoWaitCycle ==
    \A S \in (SUBSET Placing) \ {{}} : \E i \in S : \A j \in S : ~WaitsFor(i, j)

\* The quantity order i has traded.
Traded(i) ==
    SumFunctionOnSet([t \in trades |-> t.quantity], {t \in trades : i \in {t.maker, t.taker}})

\* README.md:16 says that the system is "protecting against double spending". The
\* funds locked for an order pay for what it trades, or are unlocked.
NoDoubleSpending ==
    \A i \in DOMAIN orders : Traded(i) + unlocked[i] <= orders[i].amount

\* As long as requests neither overlap nor fail, the row of an order says what it has
\* traded, and its funds are accounted for.
Unlocking(i) == \E c \in Cancelling : cancel[c].pc = "cancelled" /\ cancel[c].order = i
RowsTellTrades ==
    serial => \A i \in DOMAIN orders : Visible(i) =>
        /\ orders[i].filled = Traded(i)
        /\ orders[i].filled + orders[i].remaining = orders[i].amount
        /\ unlocked[i] = IF orders[i].status = "CANCELLED" /\ ~Unlocking(i)
                         THEN orders[i].remaining ELSE 0

\* apps/orders/src/orders/orderbook.service.spec.ts:153 calls the order of makers
\* "Price-Time": an order does not trade while an older one of the same price waits.
OlderOrdersFirst ==
    serial => \A t \in trades : \A i \in DOMAIN orders :
        /\ i < t.maker
        /\ orders[i].side = orders[t.maker].side /\ orders[i].price = orders[t.maker].price
        /\ orders[i].user # orders[t.taker].user
        => ~Live(orders[i])
=============================================================================
