---------------------------- MODULE OutboxRelay ----------------------------
(***************************************************************************)
(* The transactional outbox of the orders service (OutboxRelayService,     *)
(* OutboxRepository, OutboxRetentionService). Business transactions insert *)
(* events; relays, one in every instance of the service, poll for pending  *)
(* ones. A relay locks a batch with FOR UPDATE SKIP LOCKED, sends it to    *)
(* Kafka, marks it as published and commits. When the send fails it        *)
(* records the attempt on every event, and throws: the transaction that    *)
(* holds the batch rolls back, and the events stay pending.                *)
(*                                                                         *)
(* The Kafka producer retries a send by itself, without an idempotent      *)
(* producer id: messages of a partition go in one request, which may have  *)
(* been written although it failed.                                        *)
(***************************************************************************)
EXTENDS Integers, Sequences, FiniteSets, FiniteSetsExt

CONSTANTS
    Event,
    PartitionKey,  \* PartitionKey[e]: the trading pair of event e
    Relay,
    BatchSize,
    MaxFailures

ASSUME BatchAssumption == BatchSize \in Nat \ {0} /\ IsFiniteSet(Event)

Partition == {PartitionKey[e] : e \in Event}

VARIABLES
    status,     \* status[e]: of the row of event e, "UNSAVED" before its transaction
                \*   and "OPEN" while that is not committed
    createdAt,  \* createdAt[e]: when the transaction that inserted e began
    clock,      \* the time, in transactions
    retryCount, \* retryCount[e]: the committed column of that name
    topic,      \* topic[p]: the requests in partition p, each with its messages
    pc,         \* pc[r]: how far the transaction of relay r has come
    batch,      \* batch[r]: the events it has locked, in the order of the query
    failures,   \* how many times anything failed
    failed      \* failed[e]: how many sends of e failed, a history variable

db == <<status, createdAt, clock, retryCount>>
outboxVars == <<status, createdAt, clock, retryCount, topic, pc, batch, failures, failed>>

OutboxInit ==
    /\ status = [e \in Event |-> "UNSAVED"]
    /\ createdAt = [e \in Event |-> 0]
    /\ clock = 0
    /\ retryCount = [e \in Event |-> 0]
    /\ topic = [p \in Partition |-> << >>]
    /\ pc = [r \in Relay |-> "polling"]
    /\ batch = [r \in Relay |-> << >>]
    /\ failures = 0
    /\ failed = [e \in Event |-> 0]

-----------------------------------------------------------------------------
(***************************************************************************)
(* The business transactions.                                              *)
(***************************************************************************)

\* A transaction inserts events. Their created_at is the time it began.
Insert(S) ==
    /\ S # {} /\ \A e \in S : status[e] = "UNSAVED"
    /\ clock' = clock + 1
    /\ status' = [e \in Event |-> IF e \in S THEN "OPEN" ELSE status[e]]
    /\ createdAt' = [e \in Event |-> IF e \in S THEN clock' ELSE createdAt[e]]
    /\ UNCHANGED <<retryCount, topic, pc, batch, failures, failed>>

\* The transaction that began at time t ends. Rolled back, its events never were.
EndTransaction(t, outcome) ==
    /\ \E e \in Event : status[e] = "OPEN" /\ createdAt[e] = t
    /\ status' = [e \in Event |->
           IF status[e] = "OPEN" /\ createdAt[e] = t THEN outcome ELSE status[e]]
    /\ UNCHANGED <<createdAt, clock, retryCount, topic, pc, batch, failures, failed>>

-----------------------------------------------------------------------------
(***************************************************************************)
(* A relay.                                                                *)
(***************************************************************************)

Elements(s) == {s[i] : i \in DOMAIN s}

\* Mutant: a plain SELECT, without FOR UPDATE SKIP LOCKED.
FetchableUnlocked(e) == status[e] = "PENDING"

\* The rows the query of a relay sees: pending, and not locked by another one.
Fetchable(e) == status[e] = "PENDING" /\ \A r \in Relay : e \notin Elements(batch[r])

\* The batches the query may return: as many rows as it finds, up to BatchSize,
\* the oldest, in an order that says nothing about rows of one transaction.
Batches ==
    LET found == {e \in Event : Fetchable(e)}
        size == IF Cardinality(found) < BatchSize THEN Cardinality(found) ELSE BatchSize
    IN  {s \in [1 .. size -> found] :
            /\ \A i, j \in 1 .. size : i < j => s[i] # s[j] /\ createdAt[s[i]] <= createdAt[s[j]]
            /\ \A e \in found \ Elements(s) : \A i \in 1 .. size : createdAt[s[i]] <= createdAt[e]}

\* An empty batch ends the transaction at once, and the relay goes on polling.
FetchPendingBatch(r) ==
    /\ pc[r] = "polling"
    /\ \E s \in Batches \ {<< >>} : batch' = [batch EXCEPT ![r] = s]
    /\ pc' = [pc EXCEPT ![r] = "fetched"]
    /\ UNCHANGED <<db, topic, failures, failed>>

\* The messages for partition p, by their places in the batch of r.
Messages(r, p) ==
    [i \in {j \in DOMAIN batch[r] : PartitionKey[batch[r][j]] = p} |-> batch[r][i]]

\* The messages of the batch of r for the partitions P are written.
Write(r, P) ==
    topic' = [p \in Partition |->
        IF p \in P /\ Messages(r, p) # << >> THEN Append(topic[p], Messages(r, p)) ELSE topic[p]]

SendBatch(r) ==
    /\ pc[r] = "fetched"
    /\ Write(r, Partition)
    /\ pc' = [pc EXCEPT ![r] = "sent"]
    /\ UNCHANGED <<db, batch, failures, failed>>

\* A request to some of the partitions is written, but fails or its answer is lost.
\* The producer tries again, or gives up.
SendFails(r) ==
    /\ pc[r] = "fetched"
    /\ failures < MaxFailures
    /\ failures' = failures + 1
    /\ failed' = [e \in Event |-> IF e \in Elements(batch[r]) THEN failed[e] + 1 ELSE failed[e]]
    /\ \E P \in SUBSET Partition : Write(r, P)
    /\ \/ UNCHANGED pc
       \/ pc' = [pc EXCEPT ![r] = "failed"]
    /\ UNCHANGED <<db, batch>>

\* Mutant: the rows of a failed batch are given up (markAsFailed, which nothing
\* calls), on a connection of its own.
GiveUpBatch(r) ==
    /\ pc[r] = "failed"
    /\ status' = [e \in Event |-> IF e \in Elements(batch[r]) THEN "FAILED" ELSE status[e]]
    /\ pc' = [pc EXCEPT ![r] = "polling"]
    /\ batch' = [batch EXCEPT ![r] = << >>]
    /\ UNCHANGED <<createdAt, clock, retryCount, topic, failures, failed>>

\* recordRetryAttempt updates retry_count and last_error of the events. The rethrown
\* error rolls the same transaction back, so that no column has changed.
RecordRetryAttempt(r) ==
    /\ pc[r] = "failed"
    /\ pc' = [pc EXCEPT ![r] = "polling"]
    /\ batch' = [batch EXCEPT ![r] = << >>]
    /\ UNCHANGED <<db, topic, failures, failed>>

\* Mutant: the batch is marked before it is sent, in a transaction of its own.
MarkBeforeSend(r) ==
    /\ pc[r] \in {"fetched", "sent"}
    /\ status' = [e \in Event |-> IF e \in Elements(batch[r]) THEN "PUBLISHED" ELSE status[e]]
    /\ pc' = [pc EXCEPT ![r] = "polling"]
    /\ batch' = [batch EXCEPT ![r] = << >>]
    /\ UNCHANGED <<createdAt, clock, retryCount, topic, failures, failed>>

\* markAsPublished, and the commit.
MarkAsPublished(r) ==
    /\ pc[r] = "sent"
    /\ status' = [e \in Event |-> IF e \in Elements(batch[r]) THEN "PUBLISHED" ELSE status[e]]
    /\ pc' = [pc EXCEPT ![r] = "polling"]
    /\ batch' = [batch EXCEPT ![r] = << >>]
    /\ UNCHANGED <<createdAt, clock, retryCount, topic, failures, failed>>

\* The instance crashes, or loses its connection to the database: the transaction
\* rolls back, whatever has been sent.
Rollback(r) ==
    /\ pc[r] # "polling"
    /\ failures < MaxFailures
    /\ failures' = failures + 1
    /\ failed' = [e \in Event |-> IF e \in Elements(batch[r]) THEN failed[e] + 1 ELSE failed[e]]
    /\ pc' = [pc EXCEPT ![r] = "polling"]
    /\ batch' = [batch EXCEPT ![r] = << >>]
    /\ UNCHANGED <<db, topic>>

\* The retention job deletes a published event, two days after it was created.
DeletePublished(e) ==
    /\ status[e] = "PUBLISHED"
    /\ status' = [status EXCEPT ![e] = "DELETED"]
    /\ UNCHANGED <<createdAt, clock, retryCount, topic, pc, batch, failures, failed>>

Relays(r) ==
    FetchPendingBatch(r) \/ SendBatch(r) \/ RecordRetryAttempt(r) \/ MarkAsPublished(r)

OutboxNext ==
    \/ \E S \in SUBSET Event : Insert(S)
    \/ \E t \in 1 .. clock, outcome \in {"PENDING", "ABORTED"} : EndTransaction(t, outcome)
    \/ \E r \in Relay : Relays(r) \/ SendFails(r) \/ Rollback(r)
    \/ \E e \in Event : DeletePublished(e)

\* runPollLoop goes on for ever, and catches every error. Any one running instance
\* is enough to drain the table.
Fairness == \A r \in Relay : WF_outboxVars(Relays(r))

OutboxSpec == OutboxInit /\ [][OutboxNext]_outboxVars
FairOutboxSpec == OutboxSpec /\ Fairness

-----------------------------------------------------------------------------
(***************************************************************************)
(* What is true of it.                                                     *)
(***************************************************************************)

Status == {"UNSAVED", "OPEN", "ABORTED", "PENDING", "PUBLISHED", "FAILED", "DELETED"}

Copies(e) ==
    LET requests == topic[PartitionKey[e]]
    IN  Cardinality({i \in DOMAIN requests : e \in Elements(requests[i])})

\* The messages of one request.
Request == UNION {[I -> Event] : I \in SUBSET (1 .. BatchSize)}

\* Rows, requests and relays have the values they can have, and only pending rows are
\* in a batch.
OutboxTypes ==
    /\ status \in [Event -> Status]
    /\ createdAt \in [Event -> 0 .. clock]
    /\ retryCount \in [Event -> Nat] /\ failed \in [Event -> Nat]
    /\ clock \in Nat /\ failures \in Nat
    /\ topic \in [Partition -> Seq(Request)]
    /\ pc \in [Relay -> {"polling", "fetched", "sent", "failed"}]
    /\ batch \in [Relay -> Seq(Event)]
    /\ \A r \in Relay : /\ Len(batch[r]) <= BatchSize
                        /\ \A e \in Elements(batch[r]) : status[e] = "PENDING"

\* An event marked as published is in the topic, and an event is in the topic only
\* if the transaction that inserted it has committed: the outbox neither loses
\* events nor announces what did not happen.
PublishedIsSent ==
    \A e \in Event : /\ status[e] \in {"PUBLISHED", "DELETED"} => Copies(e) > 0
                     /\ Copies(e) > 0 => status[e] \in {"PENDING", "PUBLISHED", "DELETED"}

\* Relays do not send an event twice without cause: there is one copy of it more
\* than there were failures, at most, and one at all while nothing failed.
DuplicatesOnlyAfterFailure == \A e \in Event : Copies(e) <= 1 + failed[e]

\* An event whose transaction has committed is sent in the end, although sends fail
\* (finitely often) and other relays hold it meanwhile.
EveryEventSent == \A e \in Event : status[e] = "PENDING" ~> Copies(e) > 0

\* apps/orders/src/outbox/outbox-relay.service.spec.ts:161 says of the relay "should
\* record retry attempt on each event when Kafka publish fails".
RetryAttemptIsRecorded ==
    \A e \in Event : failed[e] > 0 /\ (\A r \in Relay : e \notin Elements(batch[r]))
        => retryCount[e] > 0
=============================================================================
