------------------------------- MODULE Gateway -------------------------------
(***************************************************************************)
(* The REST facade of the api gateway, and the services behind it as far   *)
(* as their answers go.                                                    *)
(*                                                                         *)
(* A request passes the guard and the method of the gateway, which calls a *)
(* service and waits for it with a deadline. What the service throws is    *)
(* made a gRPC status by its exception filter, and that status an HTTP     *)
(* status by the filter of the gateway. A call whose deadline passed, or   *)
(* whose connection broke, goes on in the service all the same. The client *)
(* may repeat a request at any time, also while an attempt is under way.   *)
(*                                                                         *)
(* A service looks at its table, then writes to it, in steps that other    *)
(* attempts come between. A key is used for one request only. The record   *)
(* of an order's key expires after a day, and the row of an order is       *)
(* written by the takers that it is matched with, whatever it says.        *)
(***************************************************************************)
EXTENDS Naturals, FiniteSets

CONSTANTS
    Request,      \* what clients ask for: [route, target, key, token, valid] records, a
                  \*   target being a tuple
    MaxAttempts,
    MaxFaults,    \* attempts that something breaks in
    MaxOverwrites \* cancellations of an order that a match overwrites

Route == {"order", "cancel", "withdraw", "faucet", "register", "subscribe", "unsubscribe",
          "readOrder", "readWithdrawal"}

\* key: is there a header x-idempotency-key; token: is the access token valid; valid: are
\* the amount, the pair, the currency and the address such as the service wants them. The
\* services of three routes look at that first; what is asked of the others counts as valid.
ASSUME RequestAssumption ==
    /\ Request # {}
    /\ \A r \in Request : r.route \in Route /\ {r.key, r.token, r.valid} \subseteq BOOLEAN
    /\ \A r \in Request : ~r.valid => r.route \in {"order", "withdraw", "faucet"}
ASSUME BoundsAssumption == {MaxAttempts, MaxFaults, MaxOverwrites} \subseteq Nat

Attempt == 1 .. MaxAttempts

VARIABLES
    sent,      \* how many attempts have been made
    attempt,   \* attempt[a]: its request and how far the service has come with it
    told,      \* told[a]: the HTTP status of its answer, or Nothing
    rows,      \* rows[t]: the status of a row of the services' tables
    expired,   \* the rows of idempotency_records whose expires_at has passed
    finished,  \* the requests a call of which the service ended well (history)
    effects,   \* effects[r]: how often r has taken effect (history)
    overwritten \* overwritten[t]: how often a match has overwritten that t is cancelled (history)

vars == <<sent, attempt, told, rows, expired, finished, effects, overwritten>>

Nothing == 0
Success == 200

-----------------------------------------------------------------------------
(***************************************************************************)
(* Exceptions and what they become. "named" says that the text of an       *)
(* exception names a refused connection.                                   *)
(***************************************************************************)

Fine == [class |-> "none", code |-> 0, named |-> FALSE]
HttpException(status) == [class |-> "Http", code |-> status, named |-> FALSE]
RpcException(code, named) == [class |-> "Rpc", code |-> code, named |-> named]
PlainError(named) == [class |-> "Error", code |-> 0, named |-> named]
Result == [class : {"none", "Http", "Rpc", "Error"}, code : Nat, named : BOOLEAN]

OK == 0
INVALID_ARGUMENT == 3
NOT_FOUND == 5
ALREADY_EXISTS == 6
PERMISSION_DENIED == 7
RESOURCE_EXHAUSTED == 8
INTERNAL == 13
UNAVAILABLE == 14
UNAUTHENTICATED == 16

\* The filter of the services: the gRPC status of an exception.
GrpcStatus(e) ==
    CASE e.class = "none" -> OK
      [] e.class = "Rpc" -> e.code
      [] e.class = "Http" ->
            (CASE e.code = 400 -> INVALID_ARGUMENT
               [] e.code = 401 -> UNAUTHENTICATED
               [] e.code = 403 -> PERMISSION_DENIED
               [] e.code = 404 -> NOT_FOUND
               [] e.code = 409 -> ALREADY_EXISTS
               [] e.code = 429 -> RESOURCE_EXHAUSTED
               [] OTHER -> INTERNAL)
      [] e.class = "Error" -> INTERNAL

\* The table of the gateway's filter, from the status 0 on.
GRPC_TO_HTTP_STATUS ==
    <<200, 408, 502, 400, 504, 404, 409, 403, 429, 400, 409, 400, 501, 500, 503, 500, 401>>

\* A status that the table does not have is a bad gateway.
HttpStatus(code, named) ==
    IF code = UNAVAILABLE \/ named THEN 503
    ELSE IF code + 1 \in DOMAIN GRPC_TO_HTTP_STATUS THEN GRPC_TO_HTTP_STATUS[code + 1]
    ELSE 502

\* Mutant: the gateway blames the client for the time that has passed.
RequestTimeout == 408

\* What the filter makes of the TimeoutError of RxJS.
TimeoutStatus == 504

-----------------------------------------------------------------------------
(***************************************************************************)
(* The gateway.                                                            *)
(***************************************************************************)

\* Which calls the methods of the gateway make, and which they refuse for want of a key.
OrdersAccepts(r) == r.route \in {"order", "cancel"} /\ r.key
OrdersReads(r) == r.route = "readOrder"
TransfersAccepts(r) == r.route = "withdraw" /\ r.key
TransfersReads(r) == r.route = "readWithdrawal"
CopyTradingAccepts(r) ==
    \/ r.route \in {"register", "unsubscribe"}
    \/ r.route = "subscribe" /\ r.key
SandboxAccepts(r) == r.route = "faucet"
Accepts(r) ==
    \/ OrdersAccepts(r) \/ OrdersReads(r) \/ TransfersAccepts(r) \/ TransfersReads(r)
    \/ CopyTradingAccepts(r) \/ SandboxAccepts(r)

Table(route) ==
    CASE route \in {"order", "readOrder"} -> "idempotency_records"
      [] route = "cancel" -> "orders"
      [] route \in {"withdraw", "readWithdrawal"} -> "withdrawal_requests"
      [] route = "faucet" -> "ledger_transactions"
      [] route = "register" -> "master_traders"
      [] route \in {"subscribe", "unsubscribe"} -> "copy_subscriptions"

\* The key or identifier that the service is called with: the faucet makes one up if the
\* client gives none.
SentKey(a, r) == IF r.route = "faucet" /\ ~r.key THEN <<"fresh", a>> ELSE r.target

Target(a) == <<Table(attempt[a].req.route), SentKey(a, attempt[a].req)>>
TargetOf(r) == <<Table(r.route), r.target>>
Targets == {TargetOf(r) : r \in Request} \cup ({Table("faucet")} \X ({"fresh"} \X Attempt))

Unsent == [req |-> CHOOSE r \in Request : TRUE, pc |-> "unsent", seen |-> "NONE",
           result |-> Fine, late |-> FALSE, hit |-> FALSE, acted |-> FALSE]

\* The row of an order that a client wants to cancel may be there; no other row is.
Init ==
    /\ sent = 0
    /\ attempt = [a \in Attempt |-> Unsent]
    /\ told = [a \in Attempt |-> Nothing]
    /\ \E status \in {"OPEN", "NONE"} :
          rows = [t \in Targets |-> IF t[1] = "orders" THEN status ELSE "NONE"]
    /\ expired = {}
    /\ finished = {}
    /\ effects = [r \in Request |-> 0]
    /\ overwritten = [t \in Targets |-> 0]

\* What r was repeated for is finished already, or what it reads.
IsLate(r) ==
    \E q \in finished :
        \/ q = r
        \/ q.target = r.target
           /\ <<q.route, r.route>> \in {<<"order", "readOrder">>, <<"withdraw", "readWithdrawal">>}

\* The pipe that validates a body catches some of what the service does not want.
Refusals(r) ==
    IF ~r.token THEN {401}
    ELSE IF ~Accepts(r) THEN {400}
    ELSE IF ~r.valid THEN {400, Nothing}
    ELSE {Nothing}

\* An attempt is refused by the gateway, or its call is on the way to the service.
Send(r) ==
    LET a == sent + 1
    IN  /\ a \in Attempt
        /\ sent' = a
        /\ \E refusal \in Refusals(r) :
               /\ told' = [told EXCEPT ![a] = refusal]
               /\ attempt' = [attempt EXCEPT ![a] =
                      [Unsent EXCEPT !.req = r, !.late = IsLate(r),
                                     !.pc = IF refusal = Nothing THEN "arrived" ELSE "ended"]]
        /\ UNCHANGED <<rows, expired, finished, effects, overwritten>>

Waiting(a) == attempt[a].pc # "unsent" /\ told[a] = Nothing

\* The service has ended the call, and the gateway still waits for it.
Answer(a) ==
    /\ Waiting(a) /\ attempt[a].pc = "ended"
    /\ told' = [told EXCEPT ![a] = HttpStatus(GrpcStatus(attempt[a].result), attempt[a].result.named)]
    /\ UNCHANGED <<sent, attempt, rows, expired, finished, effects, overwritten>>

\* The gateway does not wait any longer; the service goes on.
Deadline(a) ==
    /\ Waiting(a)
    /\ told' = [told EXCEPT ![a] = TimeoutStatus]
    /\ UNCHANGED <<sent, attempt, rows, expired, finished, effects, overwritten>>

\* Something breaks in attempt a.
Fault(a) == attempt[a].hit \/ Cardinality({b \in Attempt : attempt[b].hit}) < MaxFaults

\* The connection is refused or breaks: the call has not reached the service, or the
\* service stops in the middle of it, or goes on.
Unavailable(a) ==
    /\ Waiting(a) /\ Fault(a)
    /\ told' = [told EXCEPT ![a] = HttpStatus(UNAVAILABLE, TRUE)]
    /\ \E pc \in {attempt[a].pc, "ended"} :
          attempt' = [attempt EXCEPT ![a].pc = pc, ![a].hit = TRUE]
    /\ UNCHANGED <<sent, rows, expired, finished, effects, overwritten>>

-----------------------------------------------------------------------------
(***************************************************************************)
(* Steps of the services.                                                  *)
(***************************************************************************)

At(a, route, pc) == attempt[a].pc = pc /\ attempt[a].req.route = route

Row(a) == rows[Target(a)]
Goto(a, pc) == attempt' = [attempt EXCEPT ![a].pc = pc, ![a].seen = Row(a)]
Write(a, status) ==
    /\ rows' = [rows EXCEPT ![Target(a)] = status]
    /\ UNCHANGED <<expired, overwritten>>

\* The call of a ends with a result, and has taken effect in this step or not.
End(a, result) ==
    /\ attempt' = [attempt EXCEPT ![a].pc = "ended", ![a].result = result]
    /\ finished' = IF result = Fine THEN finished \cup {attempt[a].req} ELSE finished
EndWithEffect(a) ==
    /\ attempt' = [attempt EXCEPT ![a].pc = "ended", ![a].result = Fine, ![a].acted = TRUE]
    /\ finished' = finished \cup {attempt[a].req}
    /\ effects' = [effects EXCEPT ![attempt[a].req] = @ + 1]

\* A call ends without any change of a table.
Reply(a, result) == End(a, result) /\ UNCHANGED <<sent, told, rows, expired, effects, overwritten>>
Proceed(a, pc) == Goto(a, pc) /\ UNCHANGED <<sent, told, rows, expired, finished, effects, overwritten>>

\* A statement of the service throws.
Throw(a) ==
    /\ attempt[a].pc \in {"arrived", "found", "recorded", "placed"} /\ Fault(a)
    /\ attempt' = [attempt EXCEPT ![a].pc = "ended", ![a].result = PlainError(FALSE), ![a].hit = TRUE]
    /\ UNCHANGED <<sent, told, rows, expired, finished, effects, overwritten>>

(***************************************************************************)
(* createOrder. It throws HTTP statuses as codes of gRPC.                  *)
(***************************************************************************)

RefuseOrder(a) ==
    /\ At(a, "order", "arrived") /\ ~attempt[a].req.valid
    /\ Reply(a, RpcException(400, FALSE))

\* Mutant: the answer of a completed record is not given again.
FindRecordAnew(a) ==
    /\ At(a, "order", "arrived") /\ attempt[a].req.valid
    /\ IF Row(a) = "IN_PROGRESS" THEN Reply(a, RpcException(409, FALSE)) ELSE Proceed(a, "found")

\* A record is found until it expires.
FindRecord(a) ==
    LET found == IF Target(a) \in expired THEN "NONE" ELSE Row(a)
    IN  /\ At(a, "order", "arrived") /\ attempt[a].req.valid
        /\ CASE found = "COMPLETED" -> Reply(a, Fine)
             [] found = "IN_PROGRESS" -> Reply(a, RpcException(409, FALSE))
             [] OTHER -> Proceed(a, "found")

\* A record that failed, or has expired, is in the way of another one.
CreateRecord(a) ==
    /\ At(a, "order", "found")
    /\ IF Row(a) = "NONE"
       THEN Write(a, "IN_PROGRESS") /\ Goto(a, "recorded") /\ UNCHANGED <<sent, told, finished, effects>>
       ELSE Reply(a, PlainError(FALSE))

\* The accounts service refuses to lock the funds, or cannot be reached.
LockRefused(a) ==
    /\ At(a, "order", "recorded")
    /\ Write(a, "FAILED")
    /\ \E named \in BOOLEAN : End(a, RpcException(402, named))
    /\ UNCHANGED <<sent, told, effects>>

\* The transaction commits; if that is not heard of, the record fails.
PlaceOrder(a) ==
    /\ At(a, "order", "recorded")
    /\ effects' = [effects EXCEPT ![attempt[a].req] = @ + 1]
    /\ \/ /\ attempt' = [attempt EXCEPT ![a].pc = "placed", ![a].acted = TRUE]
          /\ UNCHANGED <<rows, expired, overwritten>>
       \/ /\ Fault(a)
          /\ attempt' = [attempt EXCEPT ![a].pc = "ended", ![a].acted = TRUE, ![a].hit = TRUE,
                                        ![a].result = PlainError(FALSE)]
          /\ Write(a, "FAILED")
    /\ UNCHANGED <<sent, told, finished>>

CompleteRecord(a) ==
    /\ At(a, "order", "placed")
    /\ Write(a, "COMPLETED")
    /\ End(a, Fine)
    /\ UNCHANGED <<sent, told, effects>>

\* A day has gone by since the record was made; it is not deleted.
Expire(t) ==
    /\ t[1] = "idempotency_records" /\ rows[t] # "NONE" /\ t \notin expired
    /\ expired' = expired \cup {t}
    /\ UNCHANGED <<sent, attempt, told, rows, finished, effects, overwritten>>

CreateOrder(a) ==
    RefuseOrder(a) \/ FindRecord(a) \/ CreateRecord(a) \/ LockRefused(a) \/ PlaceOrder(a) \/ CompleteRecord(a)

(***************************************************************************)
(* cancelOrder, getOrder.                                                  *)
(***************************************************************************)

FindOrder(a) ==
    /\ At(a, "cancel", "arrived")
    /\ CASE Row(a) = "NONE" -> Reply(a, RpcException(404, FALSE))
         [] Row(a) \in {"CANCELLED", "FILLED"} -> Reply(a, RpcException(400, FALSE))
         [] OTHER -> Proceed(a, "found")

\* Mutant: the status of the row is not a condition of the UPDATE.
CancelAnyRow(a) ==
    /\ At(a, "cancel", "found")
    /\ Write(a, "CANCELLED") /\ EndWithEffect(a) /\ UNCHANGED <<sent, told>>

CancelRow(a) ==
    /\ At(a, "cancel", "found")
    /\ IF Row(a) \in {"OPEN", "PARTIALLY_FILLED"}
       THEN Write(a, "CANCELLED") /\ EndWithEffect(a) /\ UNCHANGED <<sent, told>>
       ELSE Reply(a, RpcException(400, FALSE))

CancelOrder(a) == FindOrder(a) \/ CancelRow(a)

\* An order of somebody else is matched with this one: its row is overwritten, whatever
\* has become of it since the taker looked at it.
UpdateExecution(t) ==
    /\ t[1] = "orders" /\ rows[t] # "NONE"
    /\ rows[t] = "CANCELLED" => overwritten[t] < MaxOverwrites
    /\ \E status \in {"PARTIALLY_FILLED", "FILLED"} : rows' = [rows EXCEPT ![t] = status]
    /\ overwritten' = [overwritten EXCEPT ![t] = IF rows[t] = "CANCELLED" THEN @ + 1 ELSE @]
    /\ UNCHANGED <<sent, attempt, told, expired, finished, effects>>

\* Is there an order of this key?
GetOrder(a) ==
    LET placed == \E r \in Request : r.route = "order" /\ r.target = attempt[a].req.target /\ effects[r] > 0
    IN  /\ At(a, "readOrder", "arrived")
        /\ Reply(a, IF placed THEN Fine ELSE RpcException(404, FALSE))

(***************************************************************************)
(* requestWithdrawal, getWithdrawalById.                                   *)
(***************************************************************************)

RefuseWithdrawal(a) ==
    /\ At(a, "withdraw", "arrived") /\ ~attempt[a].req.valid
    /\ Reply(a, HttpException(400))

FindWithdrawal(a) ==
    /\ At(a, "withdraw", "arrived") /\ attempt[a].req.valid
    /\ IF Row(a) # "NONE" THEN Reply(a, Fine) ELSE Proceed(a, "found")

\* The funds are locked, or the error of the accounts service is thrown as it came.
LockFunds(a) ==
    /\ At(a, "withdraw", "found")
    /\ \/ Proceed(a, "recorded")
       \/ \E named \in BOOLEAN : Reply(a, PlainError(named))

InsertWithdrawal(a) ==
    /\ At(a, "withdraw", "recorded")
    /\ IF Row(a) = "NONE"
       THEN Write(a, "PENDING") /\ EndWithEffect(a) /\ UNCHANGED <<sent, told>>
       ELSE Reply(a, PlainError(FALSE))

RequestWithdrawal(a) ==
    RefuseWithdrawal(a) \/ FindWithdrawal(a) \/ LockFunds(a) \/ InsertWithdrawal(a)

GetWithdrawal(a) ==
    /\ At(a, "readWithdrawal", "arrived")
    /\ Reply(a, IF Row(a) # "NONE" THEN Fine ELSE HttpException(404))

(***************************************************************************)
(* depositSandboxFunds, one transaction.                                   *)
(***************************************************************************)

\* The amount is not a number, or exceeds SANDBOX_DEPOSIT_MAX.
RefuseDeposit(a) ==
    /\ At(a, "faucet", "arrived") /\ ~attempt[a].req.valid
    /\ Reply(a, HttpException(400))

PostDeposit(a) ==
    /\ At(a, "faucet", "arrived") /\ attempt[a].req.valid
    /\ \/ Row(a) # "NONE" /\ Reply(a, Fine)
       \/ Row(a) = "NONE" /\ Write(a, "POSTED") /\ EndWithEffect(a) /\ UNCHANGED <<sent, told>>

DepositSandboxFunds(a) == RefuseDeposit(a) \/ PostDeposit(a)

(***************************************************************************)
(* The calls of the copy trading service: none of them looks at a key.     *)
(***************************************************************************)

RegisterMaster(a) ==
    \/ /\ At(a, "register", "arrived")
       /\ IF Row(a) # "NONE" THEN Reply(a, Fine) ELSE Proceed(a, "found")
    \/ /\ At(a, "register", "found")
       /\ IF Row(a) = "NONE"
          THEN Write(a, "ACTIVE") /\ EndWithEffect(a) /\ UNCHANGED <<sent, told>>
          ELSE Reply(a, PlainError(FALSE))

\* There is such a master and the allocation fits, or there is an answer that says which.
CheckSubscription(a) ==
    /\ At(a, "subscribe", "arrived")
    /\ \/ \E status \in {400, 404} : Reply(a, HttpException(status))
       \/ Row(a) = "ACTIVE" /\ Reply(a, HttpException(409))
       \/ Row(a) # "ACTIVE" /\ Proceed(a, "found")

\* A subscription is inserted, or the one that was seen is made active again.
ActivateSubscription(a) ==
    /\ At(a, "subscribe", "found")
    /\ IF attempt[a].seen = "NONE" /\ Row(a) # "NONE" THEN Reply(a, PlainError(FALSE))
       ELSE Write(a, "ACTIVE") /\ EndWithEffect(a) /\ UNCHANGED <<sent, told>>

CreateSubscription(a) == CheckSubscription(a) \/ ActivateSubscription(a)

CancelSubscription(a) ==
    \/ /\ At(a, "unsubscribe", "arrived")
       /\ CASE Row(a) = "NONE" -> Reply(a, HttpException(404))
            [] Row(a) = "TERMINATED" -> Reply(a, Fine)
            [] OTHER -> Proceed(a, "found")
    \/ /\ At(a, "unsubscribe", "found")
       /\ Write(a, "TERMINATED") /\ EndWithEffect(a) /\ UNCHANGED <<sent, told>>

Next ==
    \/ \E r \in Request : Send(r)
    \/ \E t \in Targets : Expire(t) \/ UpdateExecution(t)
    \/ \E a \in Attempt :
          \/ Answer(a) \/ Deadline(a) \/ Unavailable(a) \/ Throw(a)
          \/ CreateOrder(a) \/ CancelOrder(a) \/ GetOrder(a)
          \/ RequestWithdrawal(a) \/ GetWithdrawal(a) \/ DepositSandboxFunds(a)
          \/ RegisterMaster(a) \/ CreateSubscription(a) \/ CancelSubscription(a)

Spec == Init /\ [][Next]_vars

-----------------------------------------------------------------------------
(***************************************************************************)
(* What is true of it.                                                     *)
(***************************************************************************)

Step == {"unsent", "arrived", "found", "recorded", "placed", "ended"}
Status == {"NONE", "IN_PROGRESS", "COMPLETED", "FAILED", "OPEN", "PARTIALLY_FILLED", "FILLED",
           "CANCELLED", "PENDING", "POSTED", "ACTIVE", "TERMINATED"}
AttemptRow == [req : Request, pc : Step, seen : Status, result : Result,
               late : BOOLEAN, hit : BOOLEAN, acted : BOOLEAN]

\* Attempts, answers, rows and histories have the values they can have.
TypeOK ==
    /\ sent \in 0 .. MaxAttempts
    /\ attempt \in [Attempt -> AttemptRow]
    /\ told \in [Attempt -> Nat]
    /\ rows \in [Targets -> Status]
    /\ expired \subseteq Targets
    /\ finished \subseteq Request
    /\ effects \in [Request -> Nat]
    /\ overwritten \in [Targets -> Nat]

\* orders.swagger.ts:27 and transfers.swagger.ts:45: "Unique client operation key ... for
\* safe retries": a request takes effect once, however often and whenever it is repeated,
\* also while an attempt that the gateway has given up goes on. So does a funding with a
\* key, a registration, and a cancellation, which takes effect again only when a match that
\* had read the order before has overwritten that it is cancelled.
OncePerRequest ==
    \A r \in Request :
        CASE r.route \in {"subscribe", "unsubscribe"} -> TRUE
          [] r.route = "faucet" /\ ~r.key -> TRUE
          [] r.route = "cancel" -> effects[r] <= 1 + overwritten[TargetOf(r)]
          [] OTHER -> effects[r] <= 1

\* Whoever is told that the request was wrong may take it that this attempt has had no
\* effect and will have none: a failure is never reported as the client's.
RefusedHasNoEffect == \A a \in Attempt : told[a] \in 400 .. 499 => ~attempt[a].acted

\* A request that is repeated when it is finished is acknowledged, and what was finished
\* is found, unless something breaks or the record of the order has expired. (Not so a
\* cancellation and a subscription.)
RepeatedIsAcknowledged ==
    \A a \in Attempt :
        attempt[a].late /\ ~attempt[a].hit /\ attempt[a].req.token
            /\ attempt[a].req.route \notin {"cancel", "subscribe"}
            /\ (attempt[a].req.route = "faucet" => attempt[a].req.key)
            /\ (attempt[a].req.route = "order" => Target(a) \notin expired)
        => told[a] \in {Nothing, Success, TimeoutStatus}

\* test/e2e/trading.e2e-spec.ts:77: "Attempting to cancel non-existent order correctly
\* returns 404".
MissingOrderIsNotFound ==
    \A a \in Attempt :
        attempt[a].req.route = "cancel" /\ attempt[a].pc = "ended" /\ ~attempt[a].hit
            /\ attempt[a].result.code = 404
        => told[a] \in {Nothing, 404, TimeoutStatus}

\* orders.swagger.ts:49: "Unique client operation key for safe cancellation retries."
CancellationRetriesAreSafe ==
    \A a \in Attempt :
        attempt[a].late /\ ~attempt[a].hit /\ attempt[a].req.token /\ attempt[a].req.route = "cancel"
        => told[a] \in {Nothing, Success, TimeoutStatus}
=============================================================================
