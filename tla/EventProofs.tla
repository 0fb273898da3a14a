----------------------------- MODULE EventProofs -----------------------------
(***************************************************************************)
(* Proofs about the way of an event, from the row that a business          *)
(* transaction inserts (OutboxRelay) to the clients (MarketFeed).          *)
(*                                                                         *)
(* Whatever relays stop or fail, an event that is marked was sent, nothing *)
(* is sent that did not happen, and nothing twice without a failure.       *)
(*                                                                         *)
(* However many nodes and clients there are, in whatever order requests    *)
(* commit, sockets close and snapshots come, no delta is missing between a *)
(* snapshot and the stream, and no closed socket stays in a room.          *)
(***************************************************************************)
EXTENDS OutboxRelay, MarketFeed, FiniteSetTheorems, TLAPS

-----------------------------------------------------------------------------
(***************************************************************************)
(* The outbox: what a send adds to the topic.                              *)
(***************************************************************************)

\* Where the copies of event e are.
PlacesOf(e) == {i \in 1 .. Len(topic[PartitionKey[e]]) : e \in Elements(topic[PartitionKey[e]][i])}

LEMMA PartitionOf == \A e \in Event : PartitionKey[e] \in Partition
BY DEF Partition

LEMMA CopiesCounted ==
    ASSUME OutboxTypes, NEW e \in Event
    PROVE  /\ Copies(e) = Cardinality(PlacesOf(e)) /\ Copies(e) \in Nat
           /\ IsFiniteSet(PlacesOf(e)) /\ Len(topic[PartitionKey[e]]) \in Nat
<1>1. topic[PartitionKey[e]] \in Seq(Request)
  BY PartitionOf DEF OutboxTypes
<1>2. /\ Len(topic[PartitionKey[e]]) \in Nat
      /\ DOMAIN topic[PartitionKey[e]] = 1 .. Len(topic[PartitionKey[e]])
  BY <1>1
<1>3. IsFiniteSet(1 .. Len(topic[PartitionKey[e]]))
  BY <1>2, FS_Interval
<1>4. IsFiniteSet(PlacesOf(e))
  BY <1>3, FS_Subset DEF PlacesOf
<1>5. Copies(e) = Cardinality(PlacesOf(e))
  BY <1>2 DEF Copies, PlacesOf
<1>6. QED
  BY <1>2, <1>4, <1>5, FS_CardinalityType

\* The messages for a partition are the events of the batch that belong to it.
LEMMA MessagesOf ==
    ASSUME OutboxTypes, NEW r \in Relay, NEW p
    PROVE  /\ Messages(r, p) \in Request
           /\ Elements(Messages(r, p)) = {e \in Elements(batch[r]) : PartitionKey[e] = p}
           /\ Elements(batch[r]) \subseteq Event
<1>1. batch[r] \in Seq(Event) /\ Len(batch[r]) <= BatchSize /\ BatchSize \in Nat
  BY BatchAssumption DEF OutboxTypes
<1>2. /\ DOMAIN batch[r] = 1 .. Len(batch[r]) /\ Len(batch[r]) \in Nat
      /\ \A i \in DOMAIN batch[r] : batch[r][i] \in Event
  BY <1>1
<1> DEFINE I == {j \in DOMAIN batch[r] : PartitionKey[batch[r][j]] = p}
<1>3. I \in SUBSET (1 .. BatchSize)
  BY <1>1, <1>2
<1>4. Messages(r, p) = [i \in I |-> batch[r][i]]
  BY DEF Messages
<1>5. Messages(r, p) \in [I -> Event]
  BY <1>2, <1>4
<1>6. Messages(r, p) \in Request
  BY <1>3, <1>5 DEF Request
<1>7. Elements(Messages(r, p)) = {e \in Elements(batch[r]) : PartitionKey[e] = p}
  BY <1>4 DEF Elements
<1>8. QED
  BY <1>2, <1>6, <1>7 DEF Elements

LEMMA WriteAdds ==
    ASSUME OutboxTypes, NEW r \in Relay, NEW P, Write(r, P)
    PROVE  /\ topic' \in [Partition -> Seq(Request)]
           /\ \A e \in Event :
                 /\ Copies(e) \in Nat /\ Copies(e)' \in {Copies(e), Copies(e) + 1}
                 /\ e \notin Elements(batch[r]) => Copies(e)' = Copies(e)
                 /\ e \in Elements(batch[r]) /\ PartitionKey[e] \in P => Copies(e)' = Copies(e) + 1
<1>1. topic \in [Partition -> Seq(Request)]
  BY DEF OutboxTypes
<1>2. /\ DOMAIN topic' = Partition
      /\ \A p \in Partition : topic'[p] =
            IF p \in P /\ Messages(r, p) # << >> THEN Append(topic[p], Messages(r, p)) ELSE topic[p]
  BY DEF Write
<1>3. \A p \in Partition : Messages(r, p) \in Request
  BY MessagesOf
<1>4. topic' \in [Partition -> Seq(Request)]
  <2>1. \A p \in Partition : topic'[p] \in Seq(Request)
    BY <1>1, <1>2, <1>3
  <2>2. topic' = [p \in Partition |-> topic'[p]]
    BY DEF Write
  <2>3. QED
    BY <2>1, <2>2
<1>5. ASSUME NEW e \in Event
      PROVE  /\ Copies(e) \in Nat /\ Copies(e)' \in {Copies(e), Copies(e) + 1}
             /\ e \notin Elements(batch[r]) => Copies(e)' = Copies(e)
             /\ e \in Elements(batch[r]) /\ PartitionKey[e] \in P => Copies(e)' = Copies(e) + 1
  <2>1. PICK p \in Partition : p = PartitionKey[e]
    BY PartitionOf
  <2>2. PICK n \in Nat : n = Len(topic[p])
    BY <2>1, CopiesCounted
  <2>3. PICK m \in Request : m = Messages(r, p)
    BY <1>3
  <2>4. e \in Elements(m) <=> e \in Elements(batch[r])
    BY <2>1, <2>3, MessagesOf
  <2>5. Copies(e) = Cardinality(PlacesOf(e)) /\ Copies(e) \in Nat /\ IsFiniteSet(PlacesOf(e))
    BY CopiesCounted
  <2>6. Copies(e)' = Cardinality(PlacesOf(e)')
    <3>1. topic'[p] \in Seq(Request)
      BY <1>4
    <3>2. DOMAIN topic'[p] = 1 .. Len(topic'[p])
      BY <3>1
    <3>3. QED
      BY <2>1, <3>2 DEF Copies, PlacesOf
  <2>7. CASE topic'[p] = topic[p]
    <3>1. PlacesOf(e)' = PlacesOf(e)
      BY <2>1, <2>7 DEF PlacesOf
    <3>2. ~(e \in Elements(batch[r]) /\ PartitionKey[e] \in P)
      <4>1. SUFFICES ASSUME e \in Elements(batch[r]), p \in P PROVE FALSE
        BY <2>1
      <4>2. e \in Elements(m)
        BY <2>4, <4>1
      <4>3. m # << >>
        BY <4>2 DEF Elements
      <4>4. topic'[p] = Append(topic[p], m)
        BY <1>2, <2>3, <4>1, <4>3
      <4>5. topic[p] \in Seq(Request)
        BY <1>1
      <4>6. Len(topic'[p]) = Len(topic[p]) + 1
        BY <4>4, <4>5
      <4>7. QED
        BY <2>2, <2>7, <4>6
    <3>3. QED
      BY <2>5, <2>6, <3>1, <3>2
  <2>8. CASE topic'[p] = Append(topic[p], m)
    <3>1. topic[p] \in Seq(Request)
      BY <1>1
    <3>2. /\ Len(topic'[p]) = n + 1 /\ topic'[p][n + 1] = m
          /\ \A i \in 1 .. n : topic'[p][i] = topic[p][i]
      BY <2>2, <2>8, <3>1
    <3>3. PlacesOf(e)' = IF e \in Elements(m) THEN PlacesOf(e) \cup {n + 1} ELSE PlacesOf(e)
      <4>1. PlacesOf(e) = {i \in 1 .. n : e \in Elements(topic[p][i])}
        BY <2>1, <2>2 DEF PlacesOf
      <4>2. PlacesOf(e)' = {i \in 1 .. n + 1 : e \in Elements(topic'[p][i])}
        BY <2>1, <3>2 DEF PlacesOf
      <4>3. 1 .. n + 1 = (1 .. n) \cup {n + 1}
        BY <2>2
      <4>4. QED
        BY <3>2, <4>1, <4>2, <4>3
    <3>4. n + 1 \notin PlacesOf(e)
      BY <2>1, <2>2 DEF PlacesOf
    <3>5. Cardinality(PlacesOf(e) \cup {n + 1}) = Cardinality(PlacesOf(e)) + 1
      BY <2>5, <3>4, FS_AddElement
    <3>6. QED
      BY <2>4, <2>5, <2>6, <3>3, <3>5
  <2>9. QED
    BY <1>2, <2>3, <2>7, <2>8
<1>6. QED
  BY <1>4, <1>5

-----------------------------------------------------------------------------
(***************************************************************************)
(* The outbox: types.                                                      *)
(***************************************************************************)

\* A batch is of rows that nobody has locked.
LEMMA BatchesOf ==
    ASSUME OutboxTypes, NEW s \in Batches
    PROVE  /\ s \in Seq(Event) /\ Len(s) <= BatchSize
           /\ \A e \in Elements(s) : Fetchable(e)
<1> DEFINE found == {e \in Event : Fetchable(e)}
           size == IF Cardinality(found) < BatchSize THEN Cardinality(found) ELSE BatchSize
<1>1. Cardinality(found) \in Nat /\ BatchSize \in Nat
  <2>1. IsFiniteSet(found)
    BY BatchAssumption, FS_Subset
  <2>2. QED
    BY <2>1, FS_CardinalityType, BatchAssumption
<1>2. size \in Nat /\ size <= BatchSize
  BY <1>1
<1>3. s \in [1 .. size -> found]
  BY DEF Batches
<1> HIDE DEF size
<1>4. s \in Seq(Event) /\ Len(s) = size
  BY <1>2, <1>3
<1>5. \A e \in Elements(s) : e \in found
  BY <1>3 DEF Elements
<1>6. QED
  BY <1>2, <1>4, <1>5

\* What a transaction of a relay leaves behind when it ends.
Ends(r) ==
    /\ pc' = [pc EXCEPT ![r] = "polling"]
    /\ batch' = [batch EXCEPT ![r] = << >>]

LEMMA EndsKeep ==
    ASSUME OutboxTypes, NEW r \in Relay, Ends(r)
    PROVE  /\ pc' \in [Relay -> {"polling", "fetched", "sent", "failed"}]
           /\ batch' \in [Relay -> Seq(Event)]
           /\ \A q \in Relay : q # r => pc'[q] = pc[q] /\ batch'[q] = batch[q]
           /\ pc'[r] = "polling" /\ batch'[r] = << >> /\ Elements(batch'[r]) = {}
           /\ \A q \in Relay : Len(batch'[q]) <= BatchSize
<1>1. << >> \in Seq(Event) /\ Len(<< >>) = 0 /\ BatchSize \in Nat /\ DOMAIN << >> = {}
  BY BatchAssumption
<1>2. batch \in [Relay -> Seq(Event)] /\ pc \in [Relay -> {"polling", "fetched", "sent", "failed"}]
  BY DEF OutboxTypes
<1>3. /\ \A q \in Relay : q # r => pc'[q] = pc[q] /\ batch'[q] = batch[q]
      /\ pc'[r] = "polling" /\ batch'[r] = << >>
      /\ batch' \in [Relay -> Seq(Event)]
      /\ pc' \in [Relay -> {"polling", "fetched", "sent", "failed"}]
  BY <1>1, <1>2 DEF Ends
<1>4. Elements(batch'[r]) = {}
  BY <1>1, <1>3 DEF Elements
<1>5. \A q \in Relay : Len(batch'[q]) <= BatchSize
  <2>1. \A q \in Relay : Len(batch[q]) <= BatchSize
    BY DEF OutboxTypes
  <2>2. QED
    BY <1>1, <1>3, <2>1
<1>6. QED
  BY <1>3, <1>4, <1>5

\* How often a send of an event failed is counted.
FailuresCount(r) ==
    /\ failures' = failures + 1
    /\ failed' = [e \in Event |-> IF e \in Elements(batch[r]) THEN failed[e] + 1 ELSE failed[e]]

LEMMA FailuresKeep ==
    ASSUME OutboxTypes, NEW r \in Relay, FailuresCount(r)
    PROVE  failures' \in Nat /\ failed' \in [Event -> Nat]
BY DEF OutboxTypes, FailuresCount

LEMMA BusinessKeepsTypes ==
    ASSUME OutboxTypes,
           \/ \E S \in SUBSET Event : Insert(S)
           \/ \E t \in 1 .. clock, outcome \in {"PENDING", "ABORTED"} : EndTransaction(t, outcome)
    PROVE  OutboxTypes'
<1>1. ASSUME NEW S \in SUBSET Event, Insert(S) PROVE OutboxTypes'
  <2>1. clock' = clock + 1 /\ clock \in Nat /\ UNCHANGED <<retryCount, topic, pc, batch, failures, failed>>
    BY <1>1 DEF Insert, OutboxTypes
  <2>2. /\ status' = [e \in Event |-> IF e \in S THEN "OPEN" ELSE status[e]]
        /\ createdAt' = [e \in Event |-> IF e \in S THEN clock' ELSE createdAt[e]]
        /\ \A e \in S : status[e] = "UNSAVED"
    BY <1>1 DEF Insert
  <2>3. status' \in [Event -> Status]
    BY <2>2 DEF OutboxTypes, Status
  <2>4. createdAt' \in [Event -> 0 .. clock']
    BY <2>1, <2>2 DEF OutboxTypes
  <2>5. ASSUME NEW r \in Relay, NEW e \in Elements(batch[r]) PROVE status'[e] = "PENDING"
    BY <2>2, <2>5, MessagesOf DEF OutboxTypes
  <2>6. QED
    BY <2>1, <2>3, <2>4, <2>5 DEF OutboxTypes
<1>2. ASSUME NEW t \in 1 .. clock, NEW outcome \in {"PENDING", "ABORTED"}, EndTransaction(t, outcome)
      PROVE  OutboxTypes'
  <2>1. UNCHANGED <<createdAt, clock, retryCount, topic, pc, batch, failures, failed>>
    BY <1>2 DEF EndTransaction
  <2>2. status' = [e \in Event |->
           IF status[e] = "OPEN" /\ createdAt[e] = t THEN outcome ELSE status[e]]
    BY <1>2 DEF EndTransaction
  <2>3. status' \in [Event -> Status]
    BY <2>2 DEF OutboxTypes, Status
  <2>4. ASSUME NEW r \in Relay, NEW e \in Elements(batch[r]) PROVE status'[e] = "PENDING"
    BY <2>2, <2>4, MessagesOf DEF OutboxTypes
  <2>5. QED
    BY <2>1, <2>3, <2>4 DEF OutboxTypes
<1>3. QED
  BY <1>1, <1>2

LEMMA FetchKeepsTypes ==
    ASSUME OutboxTypes, NEW r \in Relay, FetchPendingBatch(r)
    PROVE  /\ OutboxTypes'
           /\ \E s \in Batches : batch' = [batch EXCEPT ![r] = s]
<1>1. PICK s \in Batches : batch' = [batch EXCEPT ![r] = s]
  BY DEF FetchPendingBatch
<1>2. /\ pc' = [pc EXCEPT ![r] = "fetched"]
      /\ UNCHANGED <<status, createdAt, clock, retryCount, topic, failures, failed>>
  BY DEF FetchPendingBatch, db
<1>3. s \in Seq(Event) /\ Len(s) <= BatchSize /\ \A e \in Elements(s) : status[e] = "PENDING"
  BY BatchesOf DEF Fetchable
<1>4. batch \in [Relay -> Seq(Event)]
  BY DEF OutboxTypes
<1>5. batch' \in [Relay -> Seq(Event)] /\ pc' \in [Relay -> {"polling", "fetched", "sent", "failed"}]
  BY <1>1, <1>2, <1>3, <1>4 DEF OutboxTypes
<1>6. \A q \in Relay : batch'[q] = IF q = r THEN s ELSE batch[q]
  BY <1>1, <1>4
<1>7. \A q \in Relay : /\ Len(batch'[q]) <= BatchSize
                       /\ \A e \in Elements(batch'[q]) : status[e] = "PENDING"
  BY <1>3, <1>6 DEF OutboxTypes
<1>8. QED
  BY <1>1, <1>2, <1>5, <1>7 DEF OutboxTypes

LEMMA SendKeepsTypes ==
    ASSUME OutboxTypes, NEW r \in Relay, SendBatch(r) \/ SendFails(r)
    PROVE  OutboxTypes'
<1>1. UNCHANGED <<status, createdAt, clock, retryCount, batch>>
  BY DEF SendBatch, SendFails, db
<1>2. PICK P : Write(r, P)
  BY DEF SendBatch, SendFails
<1>3. topic' \in [Partition -> Seq(Request)]
  BY <1>2, WriteAdds
<1>4. pc' \in [Relay -> {"polling", "fetched", "sent", "failed"}]
  BY DEF SendBatch, SendFails, OutboxTypes
<1>5. failures' \in Nat /\ failed' \in [Event -> Nat]
  <2>1. CASE SendBatch(r)
    BY <2>1 DEF SendBatch, OutboxTypes
  <2>2. CASE SendFails(r)
    BY <2>2, FailuresKeep DEF SendFails, FailuresCount
  <2>3. QED
    BY <2>1, <2>2
<1>6. QED
  BY <1>1, <1>3, <1>4, <1>5 DEF OutboxTypes

\* Only the rows of the batch that is marked change.
LEMMA EndingKeepsTypes ==
    ASSUME OutboxTypes, NEW r \in Relay, Ends(r),
           UNCHANGED <<createdAt, clock, retryCount, topic>>,
           failures' \in Nat, failed' \in [Event -> Nat],
           \/ UNCHANGED status
           \/ /\ status' = [e \in Event |-> IF e \in Elements(batch[r]) THEN "PUBLISHED" ELSE status[e]]
              /\ \A q \in Relay : q # r => Elements(batch[q]) \cap Elements(batch[r]) = {}
    PROVE  OutboxTypes'
<1>1. status' \in [Event -> Status]
  BY DEF OutboxTypes, Status
<1>2. \A q \in Relay : \A e \in Elements(batch'[q]) : status'[e] = "PENDING"
  <2> SUFFICES ASSUME NEW q \in Relay, NEW e \in Elements(batch'[q]) PROVE status'[e] = "PENDING"
    OBVIOUS
  <2>1. q # r /\ e \in Elements(batch[q]) /\ e \in Event
    <3>1. q # r /\ batch'[q] = batch[q]
      BY EndsKeep
    <3>2. QED
      BY <3>1, MessagesOf
  <2>2. status[e] = "PENDING"
    BY <2>1 DEF OutboxTypes
  <2>3. QED
    BY <2>1, <2>2
<1>3. QED
  BY <1>1, <1>2, EndsKeep DEF OutboxTypes

-----------------------------------------------------------------------------
(***************************************************************************)
(* The outbox: what is sent. A batch is locked by one relay and its rows   *)
(* stay pending; a row is marked after its event was sent; and of the      *)
(* copies of an event all but one are of sends that failed.                *)
(***************************************************************************)

\* The last send of event e did not fail, or not yet.
Sent(e) ==
    \/ status[e] \in {"PUBLISHED", "DELETED"}
    \/ \E r \in Relay : pc[r] = "sent" /\ e \in Elements(batch[r])

OutboxInv ==
    /\ OutboxTypes
    /\ \A q, r \in Relay : q # r => Elements(batch[q]) \cap Elements(batch[r]) = {}
    /\ \A e \in Event : Sent(e) => Copies(e) > 0
    /\ \A e \in Event : Copies(e) > 0 => status[e] \in {"PENDING", "PUBLISHED", "DELETED"}
    /\ \A e \in Event : Copies(e) <= failed[e] + (IF Sent(e) THEN 1 ELSE 0)

LEMMA InitKeepsOutbox == OutboxInit => OutboxInv
<1> SUFFICES ASSUME OutboxInit PROVE OutboxInv
  OBVIOUS
<1>1. << >> \in Seq(Event) /\ << >> \in Seq(Request) /\ Len(<< >>) = 0 /\ DOMAIN << >> = {}
  OBVIOUS
<1>2. Elements(<< >>) = {}
  BY <1>1 DEF Elements
<1>3. OutboxTypes
  BY <1>1, <1>2, BatchAssumption DEF OutboxInit, OutboxTypes, Status
<1>4. \A e \in Event : Copies(e) = 0
  <2> TAKE e \in Event
  <2>1. topic[PartitionKey[e]] = << >>
    BY PartitionOf DEF OutboxInit
  <2>2. PlacesOf(e) = {}
    BY <1>1, <2>1 DEF PlacesOf
  <2>3. QED
    BY <1>3, <2>2, CopiesCounted, FS_EmptySet
<1>5. \A e \in Event : ~Sent(e) /\ failed[e] = 0
  BY DEF OutboxInit, Sent
<1>6. \A r \in Relay : batch[r] = << >>
  BY DEF OutboxInit
<1>7. QED
  BY <1>2, <1>3, <1>4, <1>5, <1>6 DEF OutboxInv

\* A step that writes nothing to the topic.
LEMMA NothingWritten ==
    ASSUME UNCHANGED topic, NEW e \in Event
    PROVE  Copies(e)' = Copies(e)
BY DEF Copies

\* Rows appear, are committed or rolled back, or are deleted; no relay moves.
LEMMA RowsKeepOutbox ==
    ASSUME OutboxInv, OutboxTypes', UNCHANGED <<topic, pc, batch, failed>>,
           \A e \in Event : \/ status[e] \in {"UNSAVED", "OPEN"} /\ status'[e] \notin {"PUBLISHED", "DELETED"}
                            \/ status'[e] = status[e]
                            \/ status[e] = "PUBLISHED" /\ status'[e] = "DELETED"
    PROVE  OutboxInv'
<1>1. \A e \in Event : Copies(e)' = Copies(e) /\ Copies(e) \in Nat
  BY NothingWritten, CopiesCounted DEF OutboxInv
<1>2. \A e \in Event : Sent(e)' <=> Sent(e)
  <2> TAKE e \in Event
  <2>1. status'[e] \in {"PUBLISHED", "DELETED"} <=> status[e] \in {"PUBLISHED", "DELETED"}
    OBVIOUS
  <2>2. QED
    BY <2>1 DEF Sent
<1>3. \A e \in Event : Copies(e) > 0 => status'[e] \in {"PENDING", "PUBLISHED", "DELETED"}
  BY DEF OutboxInv
<1>4. QED
  BY <1>1, <1>2, <1>3 DEF OutboxInv

LEMMA FetchKeepsOutbox ==
    ASSUME OutboxInv, NEW r \in Relay, FetchPendingBatch(r)
    PROVE  OutboxInv'
<1>1. OutboxTypes'
  BY FetchKeepsTypes DEF OutboxInv
<1>2. PICK s \in Batches : batch' = [batch EXCEPT ![r] = s]
  BY FetchKeepsTypes DEF OutboxInv
<1>3. /\ pc' = [pc EXCEPT ![r] = "fetched"] /\ pc[r] = "polling"
      /\ UNCHANGED <<status, topic, failed>>
  BY DEF FetchPendingBatch, db
<1>4. /\ \A q \in Relay : batch'[q] = IF q = r THEN s ELSE batch[q]
      /\ \A q \in Relay : pc'[q] = IF q = r THEN "fetched" ELSE pc[q]
  BY <1>2, <1>3 DEF OutboxInv, OutboxTypes
<1>5. \A e \in Elements(s) : \A q \in Relay : e \notin Elements(batch[q])
  BY BatchesOf DEF Fetchable, OutboxInv
<1>6. \A q, p \in Relay : q # p => Elements(batch'[q]) \cap Elements(batch'[p]) = {}
  BY <1>4, <1>5 DEF OutboxInv
<1>7. \A e \in Event : Sent(e)' <=> Sent(e)
  BY <1>3, <1>4 DEF Sent
<1>8. \A e \in Event : Copies(e)' = Copies(e)
  BY <1>3, NothingWritten
<1>9. QED
  BY <1>1, <1>3, <1>6, <1>7, <1>8 DEF OutboxInv

\* A relay has sent its batch.
LEMMA SendKeepsOutbox ==
    ASSUME OutboxInv, NEW r \in Relay, SendBatch(r)
    PROVE  OutboxInv'
<1>1. OutboxTypes' /\ OutboxTypes
  BY SendKeepsTypes DEF OutboxInv
<1>2. /\ Write(r, Partition) /\ UNCHANGED <<status, batch, failed>> /\ pc[r] = "fetched"
      /\ \A q \in Relay : pc'[q] = IF q = r THEN "sent" ELSE pc[q]
  BY DEF SendBatch, db, OutboxInv, OutboxTypes
<1>3. \A e \in Event :
         /\ Copies(e) \in Nat
         /\ Copies(e)' = IF e \in Elements(batch[r]) THEN Copies(e) + 1 ELSE Copies(e)
  BY <1>1, <1>2, WriteAdds, PartitionOf
<1>4. \A e \in Event : failed[e] \in Nat
  BY <1>1 DEF OutboxTypes
<1>5. ASSUME NEW e \in Event
      PROVE  /\ Sent(e)' => Copies(e)' > 0
             /\ Copies(e)' > 0 => status'[e] \in {"PENDING", "PUBLISHED", "DELETED"}
             /\ Copies(e)' <= failed'[e] + (IF Sent(e)' THEN 1 ELSE 0)
  <2>1. CASE e \in Elements(batch[r])
    <3>1. status[e] = "PENDING"
      BY <1>1, <2>1 DEF OutboxTypes
    <3>2. ~Sent(e)
      <4>1. \A q \in Relay : q # r => e \notin Elements(batch[q])
        BY <2>1 DEF OutboxInv
      <4>2. QED
        BY <1>2, <3>1, <4>1 DEF Sent
    <3>3. Sent(e)'
      BY <1>2, <2>1 DEF Sent
    <3>4. Copies(e) <= failed[e]
      BY <1>3, <1>4, <3>2 DEF OutboxInv
    <3>5. QED
      BY <1>2, <1>3, <1>4, <2>1, <3>1, <3>3, <3>4
  <2>2. CASE e \notin Elements(batch[r])
    <3>1. Sent(e)' <=> Sent(e)
      BY <1>2, <2>2 DEF Sent
    <3>2. QED
      BY <1>2, <1>3, <2>2, <3>1 DEF OutboxInv
  <2>3. QED
    BY <2>1, <2>2
<1>6. QED
  BY <1>1, <1>2, <1>5 DEF OutboxInv

\* A send fails: a copy more at most, and a failure more.
LEMMA SendFailsKeepsOutbox ==
    ASSUME OutboxInv, NEW r \in Relay, SendFails(r)
    PROVE  OutboxInv'
<1>1. OutboxTypes' /\ OutboxTypes
  BY SendKeepsTypes DEF OutboxInv
<1>2. PICK P \in SUBSET Partition : Write(r, P)
  BY DEF SendFails
<1>3. /\ UNCHANGED <<status, batch>> /\ pc[r] = "fetched"
      /\ failed' = [e \in Event |-> IF e \in Elements(batch[r]) THEN failed[e] + 1 ELSE failed[e]]
  BY DEF SendFails, db
<1>4. pc'[r] # "sent" /\ \A q \in Relay : q # r => pc'[q] = pc[q]
  BY <1>1, <1>3 DEF SendFails, OutboxTypes
<1>5. \A e \in Event : /\ Copies(e) \in Nat /\ Copies(e)' \in {Copies(e), Copies(e) + 1}
                       /\ e \notin Elements(batch[r]) => Copies(e)' = Copies(e)
  BY <1>1, <1>2, WriteAdds
<1>6. \A e \in Event : Sent(e)' <=> Sent(e)
  BY <1>3, <1>4 DEF Sent
<1>7. \A e \in Event : failed[e] \in Nat
  BY <1>1 DEF OutboxTypes
<1>8. ASSUME NEW e \in Event
      PROVE  /\ Sent(e)' => Copies(e)' > 0
             /\ Copies(e)' > 0 => status'[e] \in {"PENDING", "PUBLISHED", "DELETED"}
             /\ Copies(e)' <= failed'[e] + (IF Sent(e)' THEN 1 ELSE 0)
  <2>1. CASE e \in Elements(batch[r])
    <3>1. status[e] = "PENDING"
      BY <1>1, <2>1 DEF OutboxTypes
    <3>2. QED
      BY <1>3, <1>5, <1>6, <1>7, <2>1, <3>1 DEF OutboxInv
  <2>2. CASE e \notin Elements(batch[r])
    BY <1>3, <1>5, <1>6, <2>2 DEF OutboxInv
  <2>3. QED
    BY <2>1, <2>2
<1>9. QED
  BY <1>1, <1>3, <1>8 DEF OutboxInv

\* The transaction ends without a change, before or after the send.
LEMMA GivenUpKeepsOutbox ==
    ASSUME OutboxInv, NEW r \in Relay,
           \/ RecordRetryAttempt(r)
           \/ Rollback(r)
    PROVE  OutboxInv'
<1>1. /\ Ends(r) /\ OutboxTypes
      /\ UNCHANGED <<status, createdAt, clock, retryCount, topic>>
  BY DEF RecordRetryAttempt, Rollback, Ends, db, OutboxInv
<1>2. \/ pc[r] = "failed" /\ UNCHANGED <<failures, failed>>
      \/ FailuresCount(r)
  BY DEF RecordRetryAttempt, Rollback, FailuresCount
<1>3. failures' \in Nat /\ failed' \in [Event -> Nat]
  BY <1>1, <1>2, FailuresKeep DEF OutboxTypes
<1>4. OutboxTypes'
  BY <1>1, <1>3, EndingKeepsTypes
<1>5. /\ \A q \in Relay : q # r => pc'[q] = pc[q] /\ batch'[q] = batch[q]
      /\ pc'[r] = "polling" /\ Elements(batch'[r]) = {}
  BY <1>1, EndsKeep
<1>6. \A e \in Event : Copies(e)' = Copies(e) /\ Copies(e) \in Nat /\ failed[e] \in Nat
  BY <1>1, NothingWritten, CopiesCounted DEF OutboxTypes
<1>7. \A e \in Event : Sent(e)' => Sent(e)
  BY <1>1, <1>5 DEF Sent
<1>8. ASSUME NEW e \in Event
      PROVE  Copies(e) <= failed'[e] + (IF Sent(e)' THEN 1 ELSE 0)
  <2>1. CASE Sent(e) /\ ~Sent(e)'
    <3>1. pc[r] = "sent" /\ e \in Elements(batch[r])
      BY <1>1, <1>5, <2>1 DEF Sent
    <3>2. failed'[e] = failed[e] + 1
      BY <1>2, <3>1 DEF FailuresCount
    <3>3. QED
      BY <1>6, <2>1, <3>2 DEF OutboxInv
  <2>2. CASE Sent(e) <=> Sent(e)'
    <3>1. failed'[e] >= failed[e] /\ failed'[e] \in Nat
      BY <1>2, <1>3, <1>6 DEF FailuresCount
    <3>2. Copies(e) <= failed[e] + (IF Sent(e) THEN 1 ELSE 0)
      BY DEF OutboxInv
    <3>3. QED
      BY <1>6, <2>2, <3>1, <3>2
  <2>3. QED
    BY <1>7, <2>1, <2>2
<1>9. \A q, p \in Relay : q # p => Elements(batch'[q]) \cap Elements(batch'[p]) = {}
  BY <1>5 DEF OutboxInv
<1>10. \A e \in Event : /\ Sent(e)' => Copies(e)' > 0
                        /\ Copies(e)' > 0 => status'[e] \in {"PENDING", "PUBLISHED", "DELETED"}
  BY <1>1, <1>6, <1>7 DEF OutboxInv
<1>11. QED
  BY <1>4, <1>6, <1>8, <1>9, <1>10 DEF OutboxInv

\* The batch is marked, after it was sent.
LEMMA MarkKeepsOutbox ==
    ASSUME OutboxInv, NEW r \in Relay, MarkAsPublished(r)
    PROVE  OutboxInv'
<1>1. /\ Ends(r) /\ OutboxTypes /\ pc[r] = "sent"
      /\ status' = [e \in Event |-> IF e \in Elements(batch[r]) THEN "PUBLISHED" ELSE status[e]]
      /\ UNCHANGED <<createdAt, clock, retryCount, topic, failures, failed>>
  BY DEF MarkAsPublished, Ends, OutboxInv
<1>2. \A q \in Relay : q # r => Elements(batch[q]) \cap Elements(batch[r]) = {}
  BY DEF OutboxInv
<1>3. OutboxTypes'
  <2>1. failures' \in Nat /\ failed' \in [Event -> Nat]
    BY <1>1 DEF OutboxTypes
  <2>2. QED
    BY <1>1, <1>2, <2>1, EndingKeepsTypes
<1>4. /\ \A q \in Relay : q # r => pc'[q] = pc[q] /\ batch'[q] = batch[q]
      /\ pc'[r] = "polling" /\ Elements(batch'[r]) = {}
  BY <1>1, EndsKeep
<1>5. \A e \in Event : Copies(e)' = Copies(e)
  BY <1>1, NothingWritten
<1>6. ASSUME NEW e \in Event
      PROVE  /\ Sent(e)' <=> Sent(e)
             /\ Copies(e) > 0 => status'[e] \in {"PENDING", "PUBLISHED", "DELETED"}
  <2>1. CASE e \in Elements(batch[r])
    <3>1. status'[e] = "PUBLISHED"
      BY <1>1, <2>1
    <3>2. Sent(e) /\ Sent(e)'
      BY <1>1, <2>1, <3>1 DEF Sent
    <3>3. QED
      BY <3>1, <3>2
  <2>2. CASE e \notin Elements(batch[r])
    <3>1. status'[e] = status[e]
      BY <1>1, <2>2
    <3>2. Sent(e)' <=> Sent(e)
      BY <1>4, <2>2, <3>1 DEF Sent
    <3>3. QED
      BY <3>1, <3>2 DEF OutboxInv
  <2>3. QED
    BY <2>1, <2>2
<1>7. \A q, p \in Relay : q # p => Elements(batch'[q]) \cap Elements(batch'[p]) = {}
  BY <1>4 DEF OutboxInv
<1>8. QED
  BY <1>1, <1>3, <1>5, <1>6, <1>7 DEF OutboxInv

LEMMA NextKeepsOutbox == OutboxInv /\ [OutboxNext]_outboxVars => OutboxInv'
<1> SUFFICES ASSUME OutboxInv, [OutboxNext]_outboxVars PROVE OutboxInv'
  OBVIOUS
<1>1. CASE \/ \E S \in SUBSET Event : Insert(S)
           \/ \E t \in 1 .. clock, outcome \in {"PENDING", "ABORTED"} : EndTransaction(t, outcome)
  <2>1. OutboxTypes'
    BY <1>1, BusinessKeepsTypes DEF OutboxInv
  <2>2. UNCHANGED <<topic, pc, batch, failed>>
    BY <1>1 DEF Insert, EndTransaction
  <2>3. \A e \in Event :
           \/ status[e] \in {"UNSAVED", "OPEN"} /\ status'[e] \notin {"PUBLISHED", "DELETED"}
           \/ status'[e] = status[e]
    BY <1>1 DEF Insert, EndTransaction
  <2>4. QED
    BY <2>1, <2>2, <2>3, RowsKeepOutbox
<1>2. ASSUME NEW e \in Event, DeletePublished(e) PROVE OutboxInv'
  <2>1. status' = [status EXCEPT ![e] = "DELETED"] /\ status[e] = "PUBLISHED"
    BY <1>2 DEF DeletePublished
  <2>2. /\ UNCHANGED <<createdAt, clock, retryCount, topic, pc, batch, failures, failed>>
        /\ status \in [Event -> Status]
    BY <1>2 DEF DeletePublished, OutboxInv, OutboxTypes
  <2>3. \A d \in Event : status'[d] = status[d] \/ (status[d] = "PUBLISHED" /\ status'[d] = "DELETED")
    BY <2>1, <2>2
  <2>4. status' \in [Event -> Status]
    BY <2>1, <2>2 DEF Status
  <2>5. \A r \in Relay : \A d \in Elements(batch[r]) : status'[d] = "PENDING"
    BY <2>1, <2>2 DEF OutboxInv, OutboxTypes
  <2>6. OutboxTypes'
    BY <2>2, <2>4, <2>5 DEF OutboxInv, OutboxTypes
  <2>7. QED
    BY <2>2, <2>3, <2>6, RowsKeepOutbox
<1>3. ASSUME NEW r \in Relay, Relays(r) \/ SendFails(r) \/ Rollback(r) PROVE OutboxInv'
  BY <1>3, FetchKeepsOutbox, SendKeepsOutbox, SendFailsKeepsOutbox, GivenUpKeepsOutbox,
     MarkKeepsOutbox DEF Relays
<1>4. CASE UNCHANGED outboxVars
  <2>1. UNCHANGED <<status, createdAt, clock, retryCount, topic, pc, batch, failures, failed>>
    BY <1>4 DEF outboxVars
  <2>2. OutboxTypes'
    BY <2>1 DEF OutboxInv, OutboxTypes
  <2>3. QED
    BY <2>1, <2>2, RowsKeepOutbox
<1>5. QED
  BY <1>1, <1>2, <1>3, <1>4 DEF OutboxNext

LEMMA OutboxInvariant == OutboxSpec => []OutboxInv
BY InitKeepsOutbox, NextKeepsOutbox, PTL DEF OutboxSpec

\* The rows, the topic and the batches of the relays keep their types, and what a relay
\* has locked stays pending (FOR UPDATE).
THEOREM OutboxTypesOK == OutboxSpec => []OutboxTypes
<1>1. OutboxInv => OutboxTypes
  BY DEF OutboxInv
<1>2. QED
  BY <1>1, OutboxInvariant, PTL

\* However often relays stop and sends fail half way, an event that is marked as
\* published was sent, and only an event that was committed is sent.
THEOREM OutboxPublishedIsSent == OutboxSpec => []PublishedIsSent
<1>1. OutboxInv => PublishedIsSent
  BY DEF OutboxInv, PublishedIsSent, Sent
<1>2. QED
  BY <1>1, OutboxInvariant, PTL

\* An event is sent once and then once more for every failure at most, however many
\* relays poll the same table (FOR UPDATE SKIP LOCKED).
THEOREM OutboxDuplicatesOnlyAfterFailure == OutboxSpec => []DuplicatesOnlyAfterFailure
<1>1. OutboxInv => DuplicatesOnlyAfterFailure
  <2> SUFFICES ASSUME OutboxInv, NEW e \in Event PROVE Copies(e) <= 1 + failed[e]
    BY DEF DuplicatesOnlyAfterFailure
  <2>1. Copies(e) \in Nat /\ failed[e] \in Nat
    BY CopiesCounted DEF OutboxInv, OutboxTypes
  <2>2. Copies(e) <= failed[e] + (IF Sent(e) THEN 1 ELSE 0)
    BY DEF OutboxInv
  <2>3. QED
    BY <2>1, <2>2
<1>2. QED
  BY <1>1, OutboxInvariant, PTL

-----------------------------------------------------------------------------
(***************************************************************************)
(* Types.                                                                  *)
(***************************************************************************)

LEMMA Sequence ==
    ASSUME NEW S, NEW s \in Seq(S)
    PROVE  /\ Len(s) \in Nat /\ DOMAIN s = 1 .. Len(s) /\ s \in [1 .. Len(s) -> S]
           /\ \A e \in S : /\ Append(s, e) \in Seq(S) /\ Len(Append(s, e)) = Len(s) + 1
                           /\ DOMAIN Append(s, e) = 1 .. Len(s) + 1
                           /\ \A i \in 1 .. Len(s) : Append(s, e)[i] = s[i]
                           /\ Append(s, e)[Len(s) + 1] = e
OBVIOUS

LEMMA Joined ==
    ASSUME NEW S, NEW s \in Seq(S), NEW t \in Seq(S)
    PROVE  /\ s \o t \in Seq(S) /\ Len(s \o t) = Len(s) + Len(t)
           /\ \A i \in 1 .. Len(s) : (s \o t)[i] = s[i]
           /\ \A i \in 1 .. Len(t) : (s \o t)[Len(s) + i] = t[i]
OBVIOUS

LEMMA Rest ==
    ASSUME NEW S, NEW s \in Seq(S), s # << >>
    PROVE  /\ Head(s) = s[1] /\ Head(s) \in S /\ Tail(s) \in Seq(S) /\ Len(Tail(s)) = Len(s) - 1
           /\ Len(s) \in Nat \ {0} /\ DOMAIN s = 1 .. Len(s) /\ DOMAIN Tail(s) = 1 .. Len(s) - 1
           /\ \A i \in 1 .. Len(s) - 1 : Tail(s)[i] = s[i + 1]
OBVIOUS

LEMMA LogTypes ==
    ASSUME TypeOK
    PROVE  /\ Len(log) \in Nat /\ DOMAIN log = 1 .. Len(log) /\ \A i \in 1 .. Len(log) : log[i] \in EventRow
           /\ pos \in Nat \ {0} /\ pos <= Len(log) + 1
BY Sequence DEF TypeOK

\* An event is published to one channel at least, and a delta to the book first.
LEMMA ChannelTypes ==
    ASSUME NEW e \in EventRow
    PROVE  /\ Channels(e) \in Seq(Channel) /\ Len(Channels(e)) \in Nat \ {0}
           /\ e.type \in {"placed", "cancelled"} => Channels(e)[1] = Book
<1>1. e.users \in Seq(User) /\ Len(e.users) \in {1, 2} /\ (e.type = "trade" => Len(e.users) = 2)
  BY DEF EventRow
<1>2. e.users[1] \in User /\ (e.type = "trade" => e.users[2] \in User)
  BY <1>1
<1>3. Book \in Channel /\ Trades \in Channel /\ \A u \in User : Orders(u) \in Channel /\ TransfersOf(u) \in Channel
  BY DEF Channel
<1> HIDE DEF Book, Trades, Orders, TransfersOf, Channel
<1>4. CASE e.type = "trade"
  BY <1>2, <1>3, <1>4 DEF Channels, TradeExecuted
<1>5. CASE e.type \in {"placed", "cancelled"}
  BY <1>2, <1>3, <1>5 DEF Channels, OrderPlaced
<1>6. CASE e.type = "filled"
  BY <1>2, <1>3, <1>6 DEF Channels, OrderFilled
<1>7. CASE e.type = "transfer"
  BY <1>2, <1>3, <1>7 DEF Channels, TransferEnded
<1>8. QED
  BY <1>4, <1>5, <1>6, <1>7 DEF EventRow

-----------------------------------------------------------------------------
(***************************************************************************)
(* The orders and the transfers service, seen from the bridge.             *)
(***************************************************************************)

LogGrows ==
    /\ log' \in Seq(EventRow) /\ Len(log') >= Len(log)
    /\ \A i \in 1 .. Len(log) : log'[i] = log[i]
    /\ sequence' \in Nat /\ sequence <= sequence'
    /\ \A i \in DOMAIN log' : log'[i].sequenceId <= sequence'
    /\ number' \in [Order -> 0 .. sequence']
    /\ request' \in [Order -> {"new", "placing", "open", "cancelling", "closed"}]
    /\ UNCHANGED <<bridge, wire, lost, sockets, index, fetch, view>>
    /\ faults' \in Nat

LEMMA FaultTypes ==
    ASSUME TypeOK, Fault \/ NoFault
    PROVE  faults' \in Nat
BY DEF TypeOK, Fault, NoFault

LEMMA EventTypes ==
    ASSUME NEW type \in {"placed", "cancelled", "filled", "transfer"}, NEW n \in Nat, NEW u \in User
    PROVE  /\ EventAbout(type, n, <<u>>) \in EventRow
           /\ EventAbout(type, n, <<u>>).sequenceId = n
<1> DEFINE who == <<u>>
<1>1. who \in Seq(User) /\ Len(who) = 1
  OBVIOUS
<1> HIDE DEF who
<1>2. EventAbout(type, n, who) \in EventRow /\ EventAbout(type, n, who).sequenceId = n
  BY <1>1 DEF EventAbout, EventRow
<1>3. QED
  BY <1>2 DEF who

LEMMA TradeTypes ==
    ASSUME NEW n \in Nat, NEW u \in User, NEW v \in User
    PROVE  EventAbout("trade", n, <<u, v>>) \in EventRow /\ EventAbout("trade", n, <<u, v>>).sequenceId = n
BY DEF EventAbout, EventRow

LEMMA AppendGrows ==
    ASSUME TypeOK, NEW e \in EventRow, e.sequenceId <= sequence, log' = Append(log, e),
           UNCHANGED <<sequence, number>>
    PROVE  /\ log' \in Seq(EventRow) /\ Len(log') >= Len(log)
           /\ \A i \in 1 .. Len(log) : log'[i] = log[i]
           /\ sequence' \in Nat /\ sequence <= sequence'
           /\ \A i \in DOMAIN log' : log'[i].sequenceId <= sequence'
           /\ number' \in [Order -> 0 .. sequence']
BY Sequence DEF TypeOK

LEMMA ServeGrows ==
    ASSUME TypeOK, NEW o \in Order, Serve(o)
    PROVE  LogGrows
<1>1. faults' \in Nat
  BY FaultTypes DEF Serve, TakeNumber, CommitPlaced, CommitFilled, CommitCancelled, RollBack
<1>2. number[o] \in Nat /\ number[o] <= sequence /\ OwnerOf[o] \in User
  BY PlacesAssumption DEF TypeOK
<1>3. CASE TakeNumber(o)
  <2>1. \A s \in {"placing", "cancelling"} : NextSequence(o, s) =>
            /\ sequence' = sequence + 1 /\ sequence' \in Nat
            /\ number' \in [Order -> 0 .. sequence']
            /\ request' \in [Order -> {"new", "placing", "open", "cancelling", "closed"}]
    BY DEF NextSequence, TypeOK
  <2>2. \A i \in DOMAIN log : log[i].sequenceId <= sequence + 1
    BY LogTypes DEF TypeOK, EventRow
  <2>3. QED
    BY <1>1, <1>3, <2>1, <2>2, LogTypes DEF TakeNumber, LogGrows, TypeOK, bridge, sockets, index
<1>4. CASE CommitPlaced(o) \/ CommitCancelled(o)
  <2>1. \E t \in {"placed", "cancelled"} : log' = Append(log, EventAbout(t, number[o], <<OwnerOf[o]>>))
    BY <1>4 DEF CommitPlaced, CommitCancelled
  <2>2. request' \in [Order -> {"new", "placing", "open", "cancelling", "closed"}]
    BY <1>4 DEF CommitPlaced, CommitCancelled, TypeOK
  <2>3. UNCHANGED <<sequence, number, bridge, wire, lost, sockets, index, fetch, view>>
    BY <1>4 DEF CommitPlaced, CommitCancelled
  <2>4. QED
    BY <1>1, <1>2, <2>1, <2>2, <2>3, EventTypes, AppendGrows DEF LogGrows
<1>5. CASE \E p \in Order : CommitFilled(o, p)
  <2>1. PICK p \in Order : CommitFilled(o, p)
    BY <1>5
  <2>2. OwnerOf[p] \in User /\ sequence + 1 \in Nat /\ 0 \in Nat
    BY PlacesAssumption DEF TypeOK
  <2> DEFINE e1 == EventAbout("placed", number[o], <<OwnerOf[o]>>)
             e2 == EventAbout("trade", sequence + 1, <<OwnerOf[o], OwnerOf[p]>>)
             e3 == EventAbout("filled", 0, <<OwnerOf[o]>>)
             e4 == EventAbout("filled", 0, <<OwnerOf[p]>>)
  <2>3. /\ e1 \in EventRow /\ e1.sequenceId = number[o] /\ e2 \in EventRow /\ e2.sequenceId = sequence + 1
        /\ e3 \in EventRow /\ e3.sequenceId = 0 /\ e4 \in EventRow /\ e4.sequenceId = 0
    BY <1>2, <2>2, EventTypes, TradeTypes
  <2>4. log' = log \o <<e1, e2, e3, e4>> /\ sequence' = sequence + 1 /\ UNCHANGED number
    BY <2>1 DEF CommitFilled
  <2>5. request' \in [Order -> {"new", "placing", "open", "cancelling", "closed"}]
    BY <2>1 DEF CommitFilled, TypeOK
  <2>6. UNCHANGED <<bridge, wire, lost, sockets, index, fetch, view>>
    BY <2>1 DEF CommitFilled
  <2> HIDE DEF e1, e2, e3, e4
  <2> DEFINE more == <<e1, e2, e3, e4>>
  <2>7. more \in Seq(EventRow) /\ Len(more) = 4 /\ \A i \in 1 .. 4 : more[i].sequenceId <= sequence + 1
    <3>1. \A i \in 1 .. 4 : more[i] \in {e1, e2, e3, e4}
      OBVIOUS
    <3>2. \A e \in {e1, e2, e3, e4} : e \in EventRow /\ e.sequenceId <= sequence + 1
      BY <1>2, <2>2, <2>3 DEF TypeOK
    <3>3. more \in Seq(EventRow) /\ Len(more) = 4
      BY <2>3
    <3>4. QED
      BY <3>1, <3>2, <3>3
  <2> HIDE DEF more
  <2>8. /\ log' \in Seq(EventRow) /\ Len(log') = Len(log) + 4
        /\ \A i \in 1 .. Len(log) : log'[i] = log[i]
        /\ \A i \in 1 .. 4 : log'[Len(log) + i] = more[i]
    BY <2>4, <2>7, Joined DEF TypeOK, more
  <2>9. \A i \in DOMAIN log' : log'[i].sequenceId <= sequence'
    <3> SUFFICES ASSUME NEW i \in DOMAIN log' PROVE log'[i].sequenceId <= sequence + 1
      BY <2>4
    <3>1. i \in 1 .. Len(log) + 4 /\ Len(log) \in Nat
      BY <2>8, Sequence, LogTypes
    <3>2. CASE i \in 1 .. Len(log)
      <4>1. log'[i] = log[i] /\ log[i] \in EventRow /\ log[i].sequenceId <= sequence /\ sequence \in Nat
        BY <2>8, <3>2, LogTypes DEF TypeOK
      <4>2. log[i].sequenceId \in Nat
        BY <4>1 DEF EventRow
      <4>3. QED
        BY <4>1, <4>2
    <3>3. CASE i \notin 1 .. Len(log)
      <4>1. PICK n \in Nat : n = Len(log)
        BY <3>1
      <4>2. i - n \in 1 .. 4 /\ i = n + (i - n)
        BY <3>1, <3>3, <4>1
      <4>3. PICK j \in 1 .. 4 : i = n + j
        BY <4>2
      <4>4. log'[n + j] = more[j]
        BY <2>8, <4>1
      <4>5. log'[i] = more[j] /\ more[j].sequenceId <= sequence + 1
        BY <2>7, <4>3, <4>4
      <4>6. QED
        BY <4>5
    <3>4. QED
      BY <3>2, <3>3
  <2>10. number' \in [Order -> 0 .. sequence'] /\ sequence' \in Nat /\ sequence <= sequence'
    BY <2>4 DEF TypeOK
  <2>11. Len(log') >= Len(log)
    BY <2>8, LogTypes
  <2>12. \A i \in 1 .. Len(log) : log'[i] = log[i]
    BY <2>8
  <2>13. log' \in Seq(EventRow) /\ faults' \in Nat
    BY <1>1, <2>8
  <2>14. QED
    BY <2>5, <2>6, <2>9, <2>10, <2>11, <2>12, <2>13 DEF LogGrows
<1>6. CASE RollBack(o)
  BY <1>1, <1>6, LogTypes DEF RollBack, LogGrows, TypeOK
<1>7. QED
  BY <1>3, <1>4, <1>5, <1>6 DEF Serve

LEMMA TransferGrows ==
    ASSUME TypeOK, NEW u \in User, Transfer(u)
    PROVE  LogGrows
<1>1. /\ faults' \in Nat /\ log' = Append(log, EventAbout("transfer", 0, <<u>>))
      /\ UNCHANGED <<sequence, request, number, bridge, wire, lost, sockets, index, fetch, view>>
  BY FaultTypes DEF Transfer
<1>2. 0 <= sequence /\ 0 \in Nat /\ request' \in [Order -> {"new", "placing", "open", "cancelling", "closed"}]
  BY <1>1 DEF TypeOK
<1>3. QED
  BY <1>1, <1>2, EventTypes, AppendGrows DEF LogGrows

-----------------------------------------------------------------------------
(***************************************************************************)
(* The invariant. A client of the book who was told no error is in its     *)
(* room; and each delta that was handled has been sent to him, or is on    *)
(* its way to his node or lost, or is in a snapshot he was sent or is to   *)
(* be sent.                                                                *)
(***************************************************************************)

\* The events the bridge has published, at least to their first channel.
Handled == {i \in 1 .. Len(log) : i < pos \/ (i = pos /\ stage > 0)}

Ready(c) == Open(c) /\ view[c].on /\ ~view[c].error

\* A snapshot has number n or a newer one, or will have.
Covers(c, n) ==
    \/ n <= view[c].snapshot
    \/ \E k \in DOMAIN fetch[c] :
          fetch[c][k].pc = "asked" \/ (fetch[c][k].pc = "read" /\ n <= fetch[c][k].number)

GapInv ==
    /\ \A c \in Client : socket[c] = "new" => ~view[c].on
    /\ \A c \in Client : Ready(c) =>
          /\ c \in rooms[Book]
          /\ \A i \in Handled : Delta(i) =>
                \/ i \in view[c].deltas
                \/ Undelivered(NodeOf[c], i)
                \/ Covers(c, log[i].sequenceId)

FeedInv == TypeOK /\ IndexAgrees /\ GapInv

LEMMA InitFeed == Init => FeedInv
<1> SUFFICES ASSUME Init PROVE FeedInv
  OBVIOUS
<1>1. TypeOK
  <2>1. Nothing \in ViewRow
    BY DEF Nothing, ViewRow
  <2>2. Len(log) = 0 /\ DOMAIN log = {} /\ log \in Seq(EventRow)
    BY DEF Init
  <2>3. QED
    BY <2>1, <2>2, PlacesAssumption DEF Init, TypeOK
<1>2. IndexAgrees
  BY DEF Init, IndexAgrees
<1>3. GapInv
  <2>1. \A c \in Client : view[c].on = FALSE
    BY DEF Init, Nothing
  <2>2. QED
    BY <2>1 DEF GapInv, Ready
<1>4. QED
  BY <1>1, <1>2, <1>3 DEF FeedInv

LEMMA GrowsKeeps ==
    ASSUME FeedInv, LogGrows
    PROVE  FeedInv'
<1>1. /\ pos' = pos /\ stage' = stage /\ missing' = missing /\ wire' = wire /\ lost' = lost
      /\ socket' = socket /\ alive' = alive /\ rooms' = rooms /\ clientRooms' = clientRooms
      /\ fetch' = fetch /\ view' = view
  BY DEF LogGrows, bridge, sockets, index
<1>2. TypeOK /\ IndexAgrees /\ GapInv
  BY DEF FeedInv
<1>3. /\ Len(log) \in Nat /\ Len(log') \in Nat /\ Len(log) <= Len(log') /\ DOMAIN log' = 1 .. Len(log')
      /\ \A i \in 1 .. Len(log) : log'[i] = log[i]
      /\ pos \in Nat /\ pos <= Len(log) + 1
  BY <1>2, LogTypes, Sequence DEF LogGrows
<1>4. stage > 0 => pos \in 1 .. Len(log)
  BY <1>2, <1>3, LogTypes DEF TypeOK, Waiting
<1>5. Handled' = Handled /\ \A i \in Handled : log'[i] = log[i]
  <2>1. \A i \in 1 .. Len(log') : i < pos \/ (i = pos /\ stage > 0) => i \in 1 .. Len(log)
    BY <1>3, <1>4
  <2>2. 1 .. Len(log) \subseteq 1 .. Len(log')
    BY <1>3
  <2>3. QED
    BY <1>1, <1>3, <2>1, <2>2 DEF Handled
<1>6. TypeOK'
  <2>1. pos' \in 1 .. Len(log') + 1
    BY <1>1, <1>2, <1>3 DEF TypeOK
  <2>2. stage' > 0 => ~Waiting' /\ stage' < Len(Channels(log'[pos']))
    <3>1. ASSUME stage > 0 PROVE pos \in 1 .. Len(log) /\ pos <= Len(log') /\ log'[pos] = log[pos]
      BY <1>3, <1>4, <3>1
    <3>2. QED
      BY <1>1, <1>2, <1>3, <3>1 DEF TypeOK, Waiting
  <2>3. QED
    BY <1>1, <1>2, <2>1, <2>2 DEF TypeOK, LogGrows
<1>7. IndexAgrees'
  BY <1>1, <1>2 DEF IndexAgrees
<1>8. GapInv'
  <2>1. \A c \in Client : Ready(c)' <=> Ready(c)
    BY <1>1 DEF Ready, Open
  <2>2. \A i \in Handled : Delta(i)' <=> Delta(i)
    BY <1>5 DEF Delta
  <2>3. \A c \in Client, i \in Handled :
            /\ Undelivered(NodeOf[c], i)' <=> Undelivered(NodeOf[c], i)
            /\ Covers(c, log[i].sequenceId)' <=> Covers(c, log[i].sequenceId)
    BY <1>1, <1>5 DEF Undelivered, Covers
  <2>4. QED
    BY <1>1, <1>2, <1>5, <2>1, <2>2, <2>3 DEF GapInv
<1>9. QED
  BY <1>6, <1>7, <1>8 DEF FeedInv

-----------------------------------------------------------------------------
(***************************************************************************)
(* The bridge.                                                             *)
(***************************************************************************)

\* A step of the bridge keeps the invariant when what it takes as handled it has put
\* on the way to every node, or counts as missing.
LEMMA BridgeKeeps ==
    ASSUME FeedInv, UNCHANGED <<backend, lost, sockets, index, fetch, view>>, faults' \in Nat,
           pos' \in 1 .. Len(log) + 1, stage' \in Nat, missing' \subseteq Nat,
           stage' > 0 => pos' <= Len(log) /\ stage' < Len(Channels(log[pos'])),
           wire' \in [Node -> Seq(Nat \X Channel)],
           \A n \in Node, i \in 1 .. Len(log) : Undelivered(n, i) => Undelivered(n, i)',
           \A i \in Handled' : \/ i \in Handled
                               \/ Delta(i) => \A n \in Node : Undelivered(n, i)'
    PROVE  FeedInv'
<1>1. /\ log' = log /\ sequence' = sequence /\ number' = number /\ request' = request /\ lost' = lost
      /\ socket' = socket /\ alive' = alive /\ rooms' = rooms /\ clientRooms' = clientRooms
      /\ fetch' = fetch /\ view' = view
  BY DEF backend, sockets, index
<1>2. TypeOK /\ IndexAgrees /\ GapInv /\ Len(log) \in Nat /\ pos' \in Nat
  BY LogTypes DEF FeedInv
<1>3. TypeOK'
  <2>1. stage' > 0 => ~Waiting' /\ stage' < Len(Channels(log'[pos']))
    BY <1>1, <1>2 DEF Waiting
  <2>2. QED
    BY <1>1, <1>2, <2>1 DEF TypeOK
<1>4. IndexAgrees'
  BY <1>1, <1>2 DEF IndexAgrees
<1>5. GapInv'
  <2>1. \A c \in Client : NodeOf[c] \in Node /\ (Ready(c)' <=> Ready(c))
    BY <1>1, PlacesAssumption DEF Ready, Open
  <2>2. \A i : Delta(i)' <=> Delta(i)
    BY <1>1 DEF Delta
  <2>3. \A c \in Client : \A n : Covers(c, n)' <=> Covers(c, n)
    BY <1>1 DEF Covers
  <2>4. Handled' \subseteq 1 .. Len(log)
    BY <1>1 DEF Handled
  <2>5. QED
    BY <1>1, <1>2, <2>1, <2>2, <2>3, <2>4 DEF GapInv
<1>6. QED
  BY <1>3, <1>4, <1>5 DEF FeedInv

\* A message that is published is one, of an event to one of its channels.
LEMMA PublishedTypes ==
    ASSUME TypeOK, ~Waiting
    PROVE  /\ pos \in 1 .. Len(log) /\ stage \in Nat /\ stage < Len(Channels(log[pos]))
           /\ Len(Channels(log[pos])) \in Nat
           /\ Published \in [Node -> Seq(Nat \X Channel)]
           /\ \A n \in Node : \A i : Undelivered(n, i) =>
                 \/ i \in missing \/ i \in lost[n]
                 \/ \E m \in DOMAIN Published[n] : Published[n][m] = <<i, Book>>
           /\ Delta(pos) /\ stage = 0 => \A n \in Node :
                 \E m \in DOMAIN Published[n] : Published[n][m] = <<pos, Book>>
<1>1. pos \in 1 .. Len(log) /\ log[pos] \in EventRow /\ Len(log) \in Nat
  BY LogTypes DEF Waiting
<1>2. /\ Channels(log[pos]) \in Seq(Channel) /\ Len(Channels(log[pos])) \in Nat \ {0}
      /\ Delta(pos) => Channels(log[pos])[1] = Book
  BY <1>1, ChannelTypes DEF Delta
<1>3. stage \in Nat /\ stage < Len(Channels(log[pos]))
  BY <1>2 DEF TypeOK
<1> DEFINE channel == Channels(log[pos])[stage + 1]
           msg == <<pos, channel>>
<1>4. channel \in Channel /\ (Delta(pos) /\ stage = 0 => channel = Book)
  BY <1>2, <1>3
<1>5. msg \in Nat \X Channel /\ Published = [n \in Node |-> Append(wire[n], msg)]
  BY <1>1, <1>4 DEF Published
<1> HIDE DEF channel, msg
<1>6. \A n \in Node : /\ Published[n] = Append(wire[n], msg) /\ wire[n] \in Seq(Nat \X Channel)
  BY <1>5 DEF TypeOK
<1>7. \A n \in Node : /\ Published[n] \in Seq(Nat \X Channel) /\ DOMAIN wire[n] = 1 .. Len(wire[n])
                      /\ Len(wire[n]) \in Nat /\ DOMAIN Published[n] = 1 .. Len(wire[n]) + 1
                      /\ Published[n][Len(wire[n]) + 1] = msg
                      /\ \A m \in 1 .. Len(wire[n]) : Published[n][m] = wire[n][m]
  <2> TAKE n \in Node
  <2>1. wire[n] \in Seq(Nat \X Channel) /\ Published[n] = Append(wire[n], msg)
    BY <1>6
  <2>2. QED
    BY <1>5, <2>1, Sequence
<1>8. Published \in [Node -> Seq(Nat \X Channel)]
  BY <1>5, <1>7
<1>9. ASSUME NEW n \in Node, NEW i, Undelivered(n, i)
      PROVE  \/ i \in missing \/ i \in lost[n]
             \/ \E m \in DOMAIN Published[n] : Published[n][m] = <<i, Book>>
  <2>1. CASE \E m \in DOMAIN wire[n] : wire[n][m] = <<i, Book>>
    <3>1. PICK m \in DOMAIN wire[n] : wire[n][m] = <<i, Book>>
      BY <2>1
    <3>2. Len(wire[n]) \in Nat /\ m \in 1 .. Len(wire[n]) /\ m \in 1 .. Len(wire[n]) + 1
      BY <1>7
    <3>3. m \in DOMAIN Published[n] /\ Published[n][m] = <<i, Book>>
      BY <1>7, <3>1, <3>2
    <3>4. QED
      BY <3>3
  <2>2. QED
    BY <1>9, <2>1 DEF Undelivered
<1>10. ASSUME NEW n \in Node, Delta(pos), stage = 0
       PROVE  \E m \in DOMAIN Published[n] : Published[n][m] = <<pos, Book>>
  <2>1. /\ Len(wire[n]) + 1 \in DOMAIN Published[n]
        /\ Published[n][Len(wire[n]) + 1] = <<pos, Book>>
    BY <1>4, <1>7, <1>10 DEF msg
  <2>2. QED
    BY <2>1
<1>11. QED
  BY <1>1, <1>2, <1>3, <1>8, <1>9, <1>10

LEMMA PublishKeeps ==
    ASSUME FeedInv, Publish
    PROVE  FeedInv'
<1>1. TypeOK /\ ~Waiting /\ wire' = Published /\ faults' \in Nat
  BY FaultTypes DEF FeedInv, Publish
<1>2. /\ UNCHANGED <<backend, lost, sockets, index, fetch, view>> /\ missing' = missing
      /\ log' = log /\ lost' = lost
  BY DEF Publish, backend
<1>3. /\ pos \in 1 .. Len(log) /\ stage \in Nat /\ stage < Len(Channels(log[pos]))
      /\ Len(Channels(log[pos])) \in Nat /\ Len(log) \in Nat
      /\ wire' \in [Node -> Seq(Nat \X Channel)]
  BY <1>1, PublishedTypes, LogTypes
<1>4. /\ pos' \in 1 .. Len(log) + 1 /\ stage' \in Nat
      /\ stage' > 0 => pos' <= Len(log) /\ stage' < Len(Channels(log[pos']))
      /\ \/ pos' = pos + 1 /\ stage' = 0
         \/ pos' = pos
  BY <1>3 DEF Publish
<1>5. \A n \in Node : \A i : Undelivered(n, i) => Undelivered(n, i)'
  BY <1>1, <1>2, PublishedTypes DEF Undelivered
<1>6. \A i \in Handled' : i \in Handled \/ (i = pos /\ stage = 0)
  BY <1>2, <1>3, <1>4 DEF Handled
<1>7. \A i : i = pos /\ stage = 0 => (Delta(i) => \A n \in Node : Undelivered(n, i)')
  BY <1>1, PublishedTypes DEF Undelivered
<1>8. missing' \subseteq Nat
  BY <1>1, <1>2 DEF TypeOK
<1>9. QED
  BY <1>1, <1>2, <1>3, <1>4, <1>5, <1>6, <1>7, <1>8, BridgeKeeps

LEMMA PublishFailsKeeps ==
    ASSUME FeedInv, PublishFails
    PROVE  FeedInv'
<1>1. TypeOK /\ ~Waiting /\ wire' \in {wire, Published} /\ faults' \in Nat
  BY FaultTypes DEF FeedInv, PublishFails
<1>2. /\ UNCHANGED <<backend, lost, sockets, index, fetch, view>> /\ missing' = missing
      /\ log' = log /\ lost' = lost /\ pos' = pos /\ stage' = 0
  BY DEF PublishFails, backend
<1>3. /\ pos \in 1 .. Len(log) /\ Len(log) \in Nat
      /\ wire' \in [Node -> Seq(Nat \X Channel)] /\ missing \subseteq Nat
  BY <1>1, PublishedTypes, LogTypes DEF TypeOK
<1>4. \A n \in Node : \A i : Undelivered(n, i) => Undelivered(n, i)'
  BY <1>1, <1>2, PublishedTypes DEF Undelivered
<1>5. \A i \in Handled' : i \in Handled
  BY <1>2, <1>3 DEF Handled
<1>6. pos' \in 1 .. Len(log) + 1 /\ stage' \in Nat /\ ~(stage' > 0)
  BY <1>2, <1>3
<1>7. QED
  BY <1>1, <1>2, <1>3, <1>4, <1>5, <1>6, BridgeKeeps

LEMMA RejoinKeeps ==
    ASSUME FeedInv, Rejoin
    PROVE  FeedInv'
<1>1. TypeOK /\ ~Waiting /\ wire' = wire /\ faults' \in Nat
  BY FaultTypes DEF FeedInv, Rejoin
<1>2. /\ UNCHANGED <<backend, lost, sockets, index, fetch, view>>
      /\ missing' = missing \cup pos .. Len(log) /\ pos' = Len(log) + 1 /\ stage' = 0
      /\ log' = log /\ lost' = lost
  BY DEF Rejoin, backend
<1>3. /\ pos \in 1 .. Len(log) /\ Len(log) \in Nat
      /\ wire' \in [Node -> Seq(Nat \X Channel)] /\ missing' \subseteq Nat
  <2>1. pos \in 1 .. Len(log) /\ Len(log) \in Nat
    BY <1>1, PublishedTypes, LogTypes
  <2>2. missing \subseteq Nat /\ wire \in [Node -> Seq(Nat \X Channel)]
    BY <1>1 DEF TypeOK
  <2>3. pos .. Len(log) \subseteq Nat
    BY <2>1
  <2>4. QED
    BY <1>1, <1>2, <2>1, <2>2, <2>3
<1>4. \A n \in Node : \A i : Undelivered(n, i) => Undelivered(n, i)'
  BY <1>1, <1>2 DEF Undelivered
<1>5. \A i \in Handled' : i \in Handled \/ i \in missing'
  BY <1>2, <1>3 DEF Handled
<1>6. \A i \in missing', n \in Node : Undelivered(n, i)'
  BY DEF Undelivered
<1>7. pos' \in 1 .. Len(log) + 1 /\ stage' \in Nat /\ ~(stage' > 0)
  BY <1>2, <1>3
<1>8. QED
  BY <1>1, <1>2, <1>3, <1>4, <1>5, <1>6, <1>7, BridgeKeeps

-----------------------------------------------------------------------------
(***************************************************************************)
(* The nodes of the gateway. Their steps leave the log and the bridge.     *)
(***************************************************************************)

LEMMA NodeTypes ==
    ASSUME TypeOK, UNCHANGED <<backend, bridge>>, faults' \in Nat,
           wire' \in [Node -> Seq(Nat \X Channel)], lost' \in [Node -> SUBSET Nat],
           socket' \in [Client -> {"new", "open", "closing", "gone"}], alive' \subseteq Client,
           rooms' \in [Channel -> SUBSET Client], clientRooms' \in [Client -> SUBSET Channel],
           fetch' \in [Client -> Seq(FetchRow)], view' \in [Client -> ViewRow]
    PROVE  TypeOK'
<1>1. /\ log' = log /\ sequence' = sequence /\ number' = number /\ request' = request
      /\ pos' = pos /\ stage' = stage /\ missing' = missing
  BY DEF backend, bridge
<1>2. Waiting' <=> Waiting
  BY <1>1 DEF Waiting
<1>3. stage' > 0 => ~Waiting' /\ stage' < Len(Channels(log'[pos']))
  BY <1>1, <1>2 DEF TypeOK
<1>4. QED
  BY <1>1, <1>3 DEF TypeOK

\* A client who is ready after a step was so before, and has or may expect as much; or
\* all numbers are covered now.
LEMMA GapKeeps ==
    ASSUME FeedInv, UNCHANGED <<backend, bridge>>,
           \A c \in Client : socket'[c] = "new" => ~view'[c].on,
           \A c \in Client : Ready(c)' =>
              /\ c \in rooms'[Book]
              /\ \/ /\ Ready(c)
                    /\ \A i : i \in view[c].deltas \/ Undelivered(NodeOf[c], i)
                              => i \in view'[c].deltas \/ Undelivered(NodeOf[c], i)'
                    /\ \A n \in 0 .. sequence : Covers(c, n) => Covers(c, n)'
                 \/ \A n \in 0 .. sequence : Covers(c, n)'
    PROVE  GapInv'
<1>1. log' = log /\ pos' = pos /\ stage' = stage
  BY DEF backend, bridge
<1>2. Handled' = Handled /\ \A i : Delta(i)' <=> Delta(i)
  BY <1>1 DEF Handled, Delta
<1>3. \A i \in Handled : log[i].sequenceId \in 0 .. sequence
  <2>1. \A i \in 1 .. Len(log) : log[i].sequenceId \in Nat /\ log[i].sequenceId <= sequence
    BY LogTypes DEF FeedInv, TypeOK, EventRow
  <2>2. sequence \in Nat /\ Handled \subseteq 1 .. Len(log)
    BY DEF FeedInv, TypeOK, Handled
  <2>3. QED
    BY <2>1, <2>2
<1>4. SUFFICES ASSUME NEW c \in Client, Ready(c)', NEW i \in Handled, Delta(i)
               PROVE  \/ i \in view'[c].deltas
                      \/ Undelivered(NodeOf[c], i)'
                      \/ Covers(c, log[i].sequenceId)'
  BY <1>1, <1>2 DEF GapInv
<1> DEFINE s == log[i].sequenceId
<1>5. s \in 0 .. sequence
  BY <1>3, <1>4
<1>6. \A n : n = s /\ Covers(c, n)' => Covers(c, log[i].sequenceId)'
  BY <1>1 DEF Covers
<1>7. CASE \A n \in 0 .. sequence : Covers(c, n)'
  BY <1>5, <1>6, <1>7
<1>8. CASE /\ Ready(c)
           /\ \A j : j \in view[c].deltas \/ Undelivered(NodeOf[c], j)
                     => j \in view'[c].deltas \/ Undelivered(NodeOf[c], j)'
           /\ \A n \in 0 .. sequence : Covers(c, n) => Covers(c, n)'
  <2>1. i \in view[c].deltas \/ Undelivered(NodeOf[c], i) \/ Covers(c, s)
    BY <1>4, <1>8 DEF FeedInv, GapInv
  <2>2. CASE Covers(c, s)
    <3>1. \E n \in 0 .. sequence : n = s /\ Covers(c, n)'
      BY <1>5, <1>8, <2>2
    <3>2. QED
      BY <1>6, <3>1
  <2>3. QED
    BY <1>8, <2>1, <2>2
<1>9. QED
  BY <1>4, <1>7, <1>8

\* The next message of a node is taken off its wire.
LEMMA TakenOff ==
    ASSUME TypeOK, NEW n \in Node, wire[n] # << >>, wire' = [wire EXCEPT ![n] = Tail(@)]
    PROVE  /\ wire' \in [Node -> Seq(Nat \X Channel)]
           /\ Received(n) \in Nat \X Channel
           /\ \A o \in Node : \A i : (\E m \in DOMAIN wire[o] : wire[o][m] = <<i, Book>>) =>
                 \/ \E m \in DOMAIN wire'[o] : wire'[o][m] = <<i, Book>>
                 \/ o = n /\ Received(n) = <<i, Book>>
<1>1. wire[n] \in Seq(Nat \X Channel) /\ wire'[n] = Tail(wire[n]) /\ \A o \in Node \ {n} : wire'[o] = wire[o]
  BY DEF TypeOK
<1>2. /\ Head(wire[n]) = wire[n][1] /\ Head(wire[n]) \in Nat \X Channel
      /\ Tail(wire[n]) \in Seq(Nat \X Channel)
      /\ Len(wire[n]) \in Nat \ {0} /\ DOMAIN wire[n] = 1 .. Len(wire[n])
      /\ DOMAIN Tail(wire[n]) = 1 .. Len(wire[n]) - 1
      /\ \A m \in 1 .. Len(wire[n]) - 1 : Tail(wire[n])[m] = wire[n][m + 1]
  BY <1>1, Rest
<1>3. ASSUME NEW i, NEW m \in DOMAIN wire[n], wire[n][m] = <<i, Book>>
      PROVE  \/ \E k \in DOMAIN wire'[n] : wire'[n][k] = <<i, Book>>
             \/ Received(n) = <<i, Book>>
  <2>1. CASE m = 1
    BY <1>2, <1>3, <2>1 DEF Received
  <2>2. CASE m # 1
    <3>1. m - 1 \in 1 .. Len(wire[n]) - 1 /\ (m - 1) + 1 = m
      BY <1>2, <2>2
    <3>2. m - 1 \in DOMAIN wire'[n] /\ wire'[n][m - 1] = <<i, Book>>
      BY <1>1, <1>2, <1>3, <3>1
    <3>3. QED
      BY <3>2
  <2>3. QED
    BY <2>1, <2>2
<1>4. wire' \in [Node -> Seq(Nat \X Channel)]
  BY <1>1, <1>2 DEF TypeOK
<1>5. QED
  BY <1>1, <1>2, <1>3, <1>4 DEF Received

LEMMA BroadcastKeeps ==
    ASSUME FeedInv, NEW n \in Node, BroadcastToRoom(n)
    PROVE  FeedInv'
<1>1. TypeOK /\ IndexAgrees /\ GapInv /\ faults' \in Nat
  BY FaultTypes DEF FeedInv, BroadcastToRoom
<1> DEFINE msg == Received(n)
<1>2. PICK slow \in SUBSET Audience(n, msg[2]) :
          /\ socket' = [c \in Client |-> IF c \in slow THEN "closing" ELSE socket[c]]
          /\ view' = [c \in Client |->
                 IF c \in Audience(n, msg[2]) \ slow /\ msg[2] = Book
                 THEN [view[c] EXCEPT !.deltas = @ \cup {msg[1]}] ELSE view[c]]
  BY DEF BroadcastToRoom
<1>3. /\ wire[n] # << >> /\ wire' = [wire EXCEPT ![n] = Tail(@)]
      /\ UNCHANGED <<backend, bridge>> /\ missing' = missing
      /\ lost' = lost /\ alive' = alive /\ rooms' = rooms /\ clientRooms' = clientRooms /\ fetch' = fetch
  BY DEF BroadcastToRoom, bridge, index
<1>4. /\ wire' \in [Node -> Seq(Nat \X Channel)] /\ msg \in Nat \X Channel
      /\ \A o \in Node : \A i : (\E m \in DOMAIN wire[o] : wire[o][m] = <<i, Book>>) =>
            \/ \E m \in DOMAIN wire'[o] : wire'[o][m] = <<i, Book>>
            \/ o = n /\ msg = <<i, Book>>
  BY <1>1, <1>3, TakenOff
<1>5. msg[1] \in Nat /\ \A i : msg = <<i, Book>> => msg[1] = i /\ msg[2] = Book
  BY <1>4
<1>6. \A c \in slow : Open(c)
  BY <1>2 DEF Audience
<1> HIDE DEF msg
<1>7. \A c \in Client :
          /\ view'[c] \in ViewRow /\ view'[c].on = view[c].on /\ view'[c].error = view[c].error
          /\ view'[c].snapshot = view[c].snapshot /\ view[c].deltas \subseteq view'[c].deltas
          /\ c \in Audience(n, msg[2]) \ slow /\ msg[2] = Book => msg[1] \in view'[c].deltas
  <2> TAKE c \in Client
  <2>1. view[c] \in ViewRow
    BY <1>1 DEF TypeOK
  <2>2. QED
    BY <1>2, <1>5, <2>1 DEF ViewRow
<1>8. view' \in [Client -> ViewRow]
  BY <1>2, <1>7
<1>9. socket' \in [Client -> {"new", "open", "closing", "gone"}]
  BY <1>1, <1>2 DEF TypeOK
<1>10. TypeOK'
  <2>1. /\ lost' \in [Node -> SUBSET Nat] /\ alive' \subseteq Client
        /\ rooms' \in [Channel -> SUBSET Client] /\ clientRooms' \in [Client -> SUBSET Channel]
        /\ fetch' \in [Client -> Seq(FetchRow)]
    BY <1>1, <1>3 DEF TypeOK
  <2>2. QED
    BY <1>1, <1>3, <1>4, <1>8, <1>9, <2>1, NodeTypes
<1>11. IndexAgrees'
  BY <1>1, <1>2, <1>3, <1>6 DEF IndexAgrees, Open
<1>12. GapInv'
  <2>1. \A c \in Client : socket'[c] = "new" => ~view'[c].on
    BY <1>1, <1>2, <1>7 DEF GapInv
  <2>2. ASSUME NEW c \in Client, Ready(c)'
        PROVE  /\ c \in rooms'[Book] /\ Ready(c)
               /\ \A i : i \in view[c].deltas \/ Undelivered(NodeOf[c], i)
                         => i \in view'[c].deltas \/ Undelivered(NodeOf[c], i)'
               /\ \A m \in 0 .. sequence : Covers(c, m) => Covers(c, m)'
    <3>1. Ready(c) /\ c \notin slow
      BY <1>2, <1>7, <2>2 DEF Ready, Open
    <3>2. c \in rooms[Book]
      BY <1>1, <3>1 DEF GapInv
    <3>3. \A i : Undelivered(NodeOf[c], i) =>
              Undelivered(NodeOf[c], i)' \/ (NodeOf[c] = n /\ msg = <<i, Book>>)
      <4>1. PICK o \in Node : o = NodeOf[c]
        BY PlacesAssumption
      <4>2. \A i : Undelivered(o, i) => Undelivered(o, i)' \/ (o = n /\ msg = <<i, Book>>)
        <5>1. TAKE i
        <5>2. missing' = missing /\ lost'[o] = lost[o]
          BY <1>3
        <5>3. (\E m \in DOMAIN wire[o] : wire[o][m] = <<i, Book>>) =>
                \/ \E m \in DOMAIN wire'[o] : wire'[o][m] = <<i, Book>>
                \/ o = n /\ msg = <<i, Book>>
          BY <1>4
        <5>4. QED
          BY <5>2, <5>3 DEF Undelivered
      <4>3. QED
        BY <4>1, <4>2
    <3>4. NodeOf[c] = n /\ msg[2] = Book => c \in Audience(n, msg[2]) \ slow
      BY <3>1, <3>2 DEF Audience, Ready
    <3>5. \A i : Undelivered(NodeOf[c], i) => i \in view'[c].deltas \/ Undelivered(NodeOf[c], i)'
      BY <1>5, <1>7, <3>3, <3>4
    <3>6. \A m : Covers(c, m) => Covers(c, m)'
      BY <1>3, <1>7 DEF Covers
    <3>7. QED
      BY <1>3, <1>7, <3>1, <3>2, <3>5, <3>6
  <2>3. QED
    BY <1>3, <2>1, <2>2, GapKeeps
<1>13. QED
  BY <1>10, <1>11, <1>12 DEF FeedInv

LEMMA LoseKeeps ==
    ASSUME FeedInv, NEW n \in Node, Lose(n)
    PROVE  FeedInv'
<1>1. TypeOK /\ IndexAgrees /\ GapInv /\ faults' \in Nat
  BY FaultTypes DEF FeedInv, Lose
<1> DEFINE msg == Received(n)
<1>2. /\ wire[n] # << >> /\ wire' = [wire EXCEPT ![n] = Tail(@)]
      /\ lost' = IF msg[2] = Book THEN [lost EXCEPT ![n] = @ \cup {msg[1]}] ELSE lost
      /\ UNCHANGED <<backend, bridge>> /\ missing' = missing
      /\ socket' = socket /\ alive' = alive /\ rooms' = rooms /\ clientRooms' = clientRooms
      /\ fetch' = fetch /\ view' = view
  BY DEF Lose, bridge, sockets, index
<1>3. /\ wire' \in [Node -> Seq(Nat \X Channel)] /\ msg \in Nat \X Channel
      /\ \A o \in Node : \A i : (\E m \in DOMAIN wire[o] : wire[o][m] = <<i, Book>>) =>
            \/ \E m \in DOMAIN wire'[o] : wire'[o][m] = <<i, Book>>
            \/ o = n /\ msg = <<i, Book>>
  BY <1>1, <1>2, TakenOff
<1>4. msg[1] \in Nat /\ \A i : msg = <<i, Book>> => msg[1] = i /\ msg[2] = Book
  BY <1>3
<1> HIDE DEF msg
<1>5. lost \in [Node -> SUBSET Nat]
  BY <1>1 DEF TypeOK
<1>6. /\ lost' \in [Node -> SUBSET Nat] /\ \A o \in Node : lost[o] \subseteq lost'[o]
      /\ msg[2] = Book => msg[1] \in lost'[n]
  BY <1>2, <1>4, <1>5
<1>7. TypeOK'
  <2>1. /\ socket' \in [Client -> {"new", "open", "closing", "gone"}] /\ alive' \subseteq Client
        /\ rooms' \in [Channel -> SUBSET Client] /\ clientRooms' \in [Client -> SUBSET Channel]
        /\ fetch' \in [Client -> Seq(FetchRow)] /\ view' \in [Client -> ViewRow]
    BY <1>1, <1>2 DEF TypeOK
  <2>2. QED
    BY <1>1, <1>2, <1>3, <1>6, <2>1, NodeTypes
<1>8. IndexAgrees'
  BY <1>1, <1>2 DEF IndexAgrees
<1>9. GapInv'
  <2>1. \A c \in Client : socket'[c] = "new" => ~view'[c].on
    BY <1>1, <1>2 DEF GapInv
  <2>2. \A o \in Node : \A i : Undelivered(o, i) => Undelivered(o, i)'
    <3>1. TAKE o \in Node
    <3>2. TAKE i
    <3>3. missing' = missing /\ lost[o] \subseteq lost'[o]
      BY <1>2, <1>6
    <3>4. (\E m \in DOMAIN wire[o] : wire[o][m] = <<i, Book>>) =>
            \/ \E m \in DOMAIN wire'[o] : wire'[o][m] = <<i, Book>>
            \/ o = n /\ msg = <<i, Book>>
      BY <1>3
    <3>5. o = n /\ msg = <<i, Book>> => i \in lost'[o]
      BY <1>4, <1>6
    <3>6. QED
      BY <3>3, <3>4, <3>5 DEF Undelivered
  <2>3. \A c \in Client : /\ NodeOf[c] \in Node /\ (Ready(c)' => Ready(c) /\ c \in rooms'[Book])
                          /\ \A m : Covers(c, m) => Covers(c, m)'
    BY <1>1, <1>2, PlacesAssumption DEF Ready, Open, Covers, GapInv
  <2>4. QED
    BY <1>2, <2>1, <2>2, <2>3, GapKeeps
<1>10. QED
  BY <1>7, <1>8, <1>9 DEF FeedInv

-----------------------------------------------------------------------------
(***************************************************************************)
(* The sockets. Their steps leave the messages on their way too.           *)
(***************************************************************************)

LEMMA ClientKeeps ==
    ASSUME FeedInv, UNCHANGED <<backend, bridge, wire, lost>>, faults' \in Nat,
           socket' \in [Client -> {"new", "open", "closing", "gone"}], alive' \subseteq Client,
           rooms' \in [Channel -> SUBSET Client], clientRooms' \in [Client -> SUBSET Channel],
           fetch' \in [Client -> Seq(FetchRow)], view' \in [Client -> ViewRow],
           IndexAgrees',
           \A c \in Client : socket'[c] = "new" => ~view'[c].on,
           \A c \in Client : Ready(c)' =>
              /\ c \in rooms'[Book]
              /\ \/ /\ Ready(c) /\ view[c].deltas \subseteq view'[c].deltas
                    /\ \A n \in 0 .. sequence : Covers(c, n) => Covers(c, n)'
                 \/ \A n \in 0 .. sequence : Covers(c, n)'
    PROVE  FeedInv'
<1>1. UNCHANGED <<backend, bridge>> /\ wire' = wire /\ lost' = lost /\ missing' = missing
  BY DEF bridge
<1>2. wire' \in [Node -> Seq(Nat \X Channel)] /\ lost' \in [Node -> SUBSET Nat] /\ TypeOK
  BY <1>1 DEF FeedInv, TypeOK
<1>3. TypeOK'
  BY <1>1, <1>2, NodeTypes
<1>4. \A n \in Node : \A i : Undelivered(n, i) => Undelivered(n, i)'
  BY <1>1 DEF Undelivered
<1>5. \A c \in Client : NodeOf[c] \in Node
  BY PlacesAssumption
<1>6. GapInv'
  BY <1>1, <1>4, <1>5, GapKeeps
<1>7. QED
  BY <1>3, <1>6 DEF FeedInv

\* What FeedInv says of a client, and the types of what a client's steps change.
LEMMA ClientFacts ==
    ASSUME FeedInv
    PROVE  /\ socket \in [Client -> {"new", "open", "closing", "gone"}] /\ alive \subseteq Client
           /\ rooms \in [Channel -> SUBSET Client] /\ clientRooms \in [Client -> SUBSET Channel]
           /\ fetch \in [Client -> Seq(FetchRow)] /\ view \in [Client -> ViewRow]
           /\ sequence \in Nat /\ IndexAgrees
           /\ \A c \in Client : /\ socket[c] = "new" => ~view[c].on
                                /\ Ready(c) => c \in rooms[Book]
BY DEF FeedInv, TypeOK, GapInv

\* A step on sockets alone opens none but new ones, and closes none that is new.
LEMMA SocketKeeps ==
    ASSUME FeedInv, UNCHANGED <<backend, bridge, wire, lost, index, fetch, view>>, faults' \in Nat,
           socket' \in [Client -> {"new", "open", "closing", "gone"}], alive' \subseteq Client,
           \A c \in Client : /\ socket'[c] \in {"new", "gone"} => socket[c] = socket'[c]
                             /\ socket'[c] = "open" => socket[c] \in {"new", "open"}
    PROVE  FeedInv'
<1>1. UNCHANGED <<backend, bridge, wire, lost>>
  OBVIOUS
<1>2. rooms' = rooms /\ clientRooms' = clientRooms /\ fetch' = fetch /\ view' = view
  BY DEF index
<1>3. IndexAgrees'
  BY <1>2, ClientFacts DEF IndexAgrees
<1>4. \A c \in Client : /\ socket'[c] = "new" => ~view'[c].on
                        /\ Ready(c)' => Ready(c) /\ c \in rooms'[Book]
  BY <1>2, ClientFacts DEF Ready, Open
<1>5. \A c \in Client : \A n : Covers(c, n) => Covers(c, n)'
  BY <1>2 DEF Covers
<1>6. QED
  BY <1>1, <1>2, <1>3, <1>4, <1>5, ClientFacts, ClientKeeps

LEMMA ConnectionKeeps ==
    ASSUME FeedInv, NEW c \in Client, HandleConnection(c) \/ HangUp(c) \/ Pong(c)
    PROVE  FeedInv'
<1>1. faults' \in Nat /\ UNCHANGED <<backend, bridge, wire, lost, index, fetch, view>>
  BY FaultTypes DEF FeedInv, HandleConnection, HangUp, Pong
<1>2. /\ socket' \in [Client -> {"new", "open", "closing", "gone"}] /\ alive' \subseteq Client
      /\ \A d \in Client : /\ socket'[d] \in {"new", "gone"} => socket[d] = socket'[d]
                           /\ socket'[d] = "open" => socket[d] \in {"new", "open"}
  BY ClientFacts DEF HandleConnection, HangUp, Pong, Open
<1>3. QED
  BY <1>1, <1>2, SocketKeeps

LEMMA HeartbeatKeeps ==
    ASSUME FeedInv, NEW n \in Node, Heartbeat(n)
    PROVE  FeedInv'
<1>1. faults' \in Nat /\ UNCHANGED <<backend, bridge, wire, lost, index, fetch, view>>
  BY FaultTypes DEF FeedInv, Heartbeat
<1>2. /\ socket' \in [Client -> {"new", "open", "closing", "gone"}] /\ alive' \subseteq Client
      /\ \A d \in Client : /\ socket'[d] \in {"new", "gone"} => socket[d] = socket'[d]
                           /\ socket'[d] = "open" => socket[d] \in {"new", "open"}
  BY ClientFacts DEF Heartbeat
<1>3. QED
  BY <1>1, <1>2, SocketKeeps

LEMMA NothingTypes == Nothing \in ViewRow /\ [Nothing EXCEPT !.on = TRUE] \in ViewRow /\ ~Nothing.on
BY DEF Nothing, ViewRow

LEMMA DisconnectKeeps ==
    ASSUME FeedInv, NEW c \in Client, HandleDisconnect(c)
    PROVE  FeedInv'
<1>1. /\ faults' \in Nat /\ UNCHANGED <<backend, bridge, wire, lost>>
      /\ alive' = alive /\ fetch' = fetch /\ socket[c] = "closing"
      /\ socket' = [socket EXCEPT ![c] = "gone"] /\ view' = [view EXCEPT ![c] = Nothing]
      /\ rooms' = [room \in Channel |->
             IF room \in clientRooms[c] THEN rooms[room] \ {c} ELSE rooms[room]]
      /\ clientRooms' = [clientRooms EXCEPT ![c] = {}]
  BY FaultTypes DEF FeedInv, HandleDisconnect, RemoveClient
<1> HIDE DEF Nothing
<1>2. /\ socket' \in [Client -> {"new", "open", "closing", "gone"}]
      /\ rooms' \in [Channel -> SUBSET Client] /\ clientRooms' \in [Client -> SUBSET Channel]
      /\ view' \in [Client -> ViewRow]
  BY <1>1, ClientFacts, NothingTypes
<1>3. IndexAgrees'
  BY <1>1, ClientFacts DEF IndexAgrees
<1>4. \A d \in Client : d # c => /\ socket'[d] = socket[d] /\ view'[d] = view[d] /\ fetch'[d] = fetch[d]
                                 /\ \A room \in Channel : d \in rooms[room] => d \in rooms'[room]
  BY <1>1, ClientFacts
<1>5. \A d \in Client : socket'[d] = "new" => ~view'[d].on
  BY <1>1, <1>4, ClientFacts
<1>6. \A d \in Client : Ready(d)' => d # c /\ Ready(d) /\ d \in rooms'[Book]
  BY <1>1, <1>4, ClientFacts DEF Ready, Open, Channel
<1>7. \A d \in Client : \A n : d # c /\ Covers(d, n) => Covers(d, n)'
  BY <1>4 DEF Covers
<1>8. QED
  BY <1>1, <1>2, <1>3, <1>4, <1>5, <1>6, <1>7, ClientFacts, ClientKeeps

-----------------------------------------------------------------------------
(***************************************************************************)
(* The frames of a client.                                                 *)
(***************************************************************************)

LEMMA JoinAgrees ==
    ASSUME FeedInv, NEW c \in Client, NEW room \in Channel, Connected(c), Join(c, room), socket' = socket
    PROVE  /\ rooms' \in [Channel -> SUBSET Client] /\ clientRooms' \in [Client -> SUBSET Channel]
           /\ IndexAgrees' /\ c \in rooms'[room]
           /\ \A r \in Channel : rooms[r] \subseteq rooms'[r]
BY ClientFacts DEF IndexAgrees, Join, Connected

LEMMA LeaveAgrees ==
    ASSUME FeedInv, NEW c \in Client, NEW room \in Channel, Connected(c), Leave(c, room), socket' = socket
    PROVE  /\ rooms' \in [Channel -> SUBSET Client] /\ clientRooms' \in [Client -> SUBSET Channel]
           /\ IndexAgrees'
           /\ \A r \in Channel, d \in Client : d # c \/ r # room => (d \in rooms[r] => d \in rooms'[r])
BY ClientFacts DEF IndexAgrees, Leave, Connected

LEMMA SubscribeKeeps ==
    ASSUME FeedInv, NEW c \in Client, NEW room \in Channel, Subscribe(c, room)
    PROVE  FeedInv'
<1>1. /\ faults' \in Nat /\ UNCHANGED <<backend, bridge, wire, lost>>
      /\ socket' = socket /\ alive' = alive /\ fetch' = fetch /\ view' = view
      /\ Connected(c) /\ Join(c, room)
  BY FaultTypes DEF FeedInv, Subscribe, sockets
<1>2. /\ rooms' \in [Channel -> SUBSET Client] /\ clientRooms' \in [Client -> SUBSET Channel]
      /\ IndexAgrees' /\ \A r \in Channel : rooms[r] \subseteq rooms'[r]
  BY <1>1, JoinAgrees
<1>3. \A d \in Client : /\ socket'[d] = "new" => ~view'[d].on
                        /\ Ready(d)' => Ready(d) /\ d \in rooms'[Book]
  BY <1>1, <1>2, ClientFacts DEF Ready, Open, Channel
<1>4. \A d \in Client : \A n : Covers(d, n) => Covers(d, n)'
  BY <1>1 DEF Covers
<1>5. QED
  BY <1>1, <1>2, <1>3, <1>4, ClientFacts, ClientKeeps

LEMMA SubscribeBookKeeps ==
    ASSUME FeedInv, NEW c \in Client, SubscribeBook(c)
    PROVE  FeedInv'
<1> DEFINE row == [pc |-> "asked", number |-> 0]
<1>1. /\ faults' \in Nat /\ UNCHANGED <<backend, bridge, wire, lost>>
      /\ socket' = socket /\ alive' = alive /\ Connected(c) /\ Join(c, Book) /\ Book \in Channel
      /\ view' = [view EXCEPT ![c] = Acknowledged(c)]
      /\ fetch' = [fetch EXCEPT ![c] = Append(@, row)]
  BY FaultTypes DEF FeedInv, SubscribeBook, sockets, Channel
<1>2. row \in FetchRow /\ row.pc = "asked"
  BY DEF FetchRow
<1> HIDE DEF row
<1>3. /\ rooms' \in [Channel -> SUBSET Client] /\ clientRooms' \in [Client -> SUBSET Channel]
      /\ IndexAgrees' /\ c \in rooms'[Book] /\ \A r \in Channel : rooms[r] \subseteq rooms'[r]
  BY <1>1, JoinAgrees
<1>4. view' \in [Client -> ViewRow]
  BY <1>1, ClientFacts, NothingTypes DEF Acknowledged
<1>5. /\ fetch' \in [Client -> Seq(FetchRow)]
      /\ \E k \in DOMAIN fetch'[c] : fetch'[c][k].pc = "asked"
  <2>1. fetch[c] \in Seq(FetchRow) /\ fetch'[c] = Append(fetch[c], row)
    BY <1>1, ClientFacts
  <2>2. /\ fetch'[c] \in Seq(FetchRow) /\ Len(fetch[c]) + 1 \in DOMAIN fetch'[c]
        /\ fetch'[c][Len(fetch[c]) + 1].pc = "asked"
    BY <1>2, <2>1, Sequence
  <2>3. QED
    BY <1>1, <2>1, <2>2, ClientFacts
<1>6. \A n : Covers(c, n)'
  BY <1>5 DEF Covers
<1>7. \A d \in Client : d # c => view'[d] = view[d] /\ fetch'[d] = fetch[d]
  BY <1>1, ClientFacts
<1>8. \A d \in Client : socket'[d] = "new" => ~view'[d].on
  BY <1>1, <1>7, ClientFacts DEF Connected
<1>9. \A d \in Client : d # c /\ Ready(d)' => Ready(d) /\ d \in rooms'[Book]
  BY <1>1, <1>3, <1>7, ClientFacts DEF Ready, Open
<1>10. \A d \in Client : \A n : d # c /\ Covers(d, n) => Covers(d, n)'
  BY <1>7 DEF Covers
<1>11. QED
  BY <1>1, <1>3, <1>4, <1>5, <1>6, <1>7, <1>8, <1>9, <1>10, ClientFacts, ClientKeeps

LEMMA UnsubscribeKeeps ==
    ASSUME FeedInv, NEW c \in Client, NEW room \in Channel, Unsubscribe(c, room)
    PROVE  FeedInv'
<1>1. /\ faults' \in Nat /\ UNCHANGED <<backend, bridge, wire, lost>>
      /\ socket' = socket /\ alive' = alive /\ fetch' = fetch /\ Connected(c) /\ Leave(c, room)
      /\ view' = IF Open(c) /\ room = Book THEN [view EXCEPT ![c] = Nothing] ELSE view
  BY FaultTypes DEF FeedInv, Unsubscribe, sockets
<1>2. /\ rooms' \in [Channel -> SUBSET Client] /\ clientRooms' \in [Client -> SUBSET Channel]
      /\ IndexAgrees'
      /\ \A r \in Channel, d \in Client : d # c \/ r # room => (d \in rooms[r] => d \in rooms'[r])
  BY <1>1, LeaveAgrees
<1>3. view' \in [Client -> ViewRow] /\ \A d \in Client : d # c => view'[d] = view[d]
  BY <1>1, ClientFacts, NothingTypes
<1>4. Ready(c)' => room # Book /\ view' = view
  BY <1>1, ClientFacts, NothingTypes DEF Ready, Open
<1>5. \A d \in Client : socket'[d] = "new" => ~view'[d].on
  BY <1>1, <1>3, ClientFacts DEF Connected
<1>6. ASSUME NEW d \in Client, Ready(d)'
      PROVE  Ready(d) /\ d \in rooms'[Book] /\ view'[d] = view[d]
  <2>1. view'[d] = view[d] /\ (d # c \/ room # Book)
    BY <1>3, <1>4, <1>6
  <2>2. Ready(d)
    BY <1>1, <1>6, <2>1 DEF Ready, Open
  <2>3. QED
    BY <1>2, <2>1, <2>2, ClientFacts DEF Channel
<1>7. \A d \in Client : \A n : Ready(d)' /\ Covers(d, n) => Covers(d, n)'
  BY <1>1, <1>6 DEF Covers
<1>8. QED
  BY <1>1, <1>2, <1>3, <1>5, <1>6, <1>7, ClientFacts, ClientKeeps

-----------------------------------------------------------------------------
(***************************************************************************)
(* The snapshots a handler waits for.                                      *)
(***************************************************************************)

\* Whatever a handler does with the answer, another client's view is as it was.
LEMMA FetchKeeps ==
    ASSUME FeedInv, NEW c \in Client, NEW k \in DOMAIN fetch[c], NEW row \in FetchRow,
           fetch' = [fetch EXCEPT ![c][k] = row], faults' \in Nat,
           UNCHANGED <<backend, bridge, wire, lost, sockets, index>>,
           view' \in [Client -> ViewRow], \A d \in Client : d # c => view'[d] = view[d],
           view'[c].on = view[c].on,
           Ready(c)' => /\ Ready(c) /\ view[c].deltas \subseteq view'[c].deltas
                        /\ \A n \in 0 .. sequence : Covers(c, n) => Covers(c, n)'
    PROVE  FeedInv'
<1>1. /\ UNCHANGED <<backend, bridge, wire, lost>>
      /\ socket' = socket /\ alive' = alive /\ rooms' = rooms /\ clientRooms' = clientRooms
  BY DEF sockets, index
<1>2. fetch' \in [Client -> Seq(FetchRow)] /\ \A d \in Client : d # c => fetch'[d] = fetch[d]
  BY ClientFacts
<1>3. IndexAgrees'
  BY <1>1, ClientFacts DEF IndexAgrees
<1>4. \A d \in Client : socket'[d] = "new" => ~view'[d].on
  BY <1>1, ClientFacts
<1>5. \A d \in Client : Ready(d)' => /\ Ready(d) /\ d \in rooms'[Book]
                                     /\ view[d].deltas \subseteq view'[d].deltas
  BY <1>1, ClientFacts DEF Ready, Open
<1>6. \A d \in Client : d # c => \A n : Covers(d, n) => Covers(d, n)'
  BY <1>2 DEF Covers
<1>7. \A d \in Client : Ready(d)' => \A n \in 0 .. sequence : Covers(d, n) => Covers(d, n)'
  BY <1>6
<1>8. /\ wire' = wire /\ lost' = lost /\ alive' \subseteq Client
      /\ socket' \in [Client -> {"new", "open", "closing", "gone"}]
      /\ rooms' \in [Channel -> SUBSET Client] /\ clientRooms' \in [Client -> SUBSET Channel]
  BY <1>1, ClientFacts
<1>9. QED
  BY <1>1, <1>2, <1>3, <1>4, <1>5, <1>7, <1>8, ClientKeeps

LEMMA GetOrderBookKeeps ==
    ASSUME FeedInv, NEW c \in Client, NEW k \in DOMAIN fetch[c], GetOrderBook(c, k)
    PROVE  FeedInv'
<1> DEFINE row == [pc |-> "read", number |-> sequence]
<1>1. /\ faults' \in Nat /\ UNCHANGED <<backend, bridge, wire, lost, sockets, index>>
      /\ fetch' = [fetch EXCEPT ![c][k] = row] /\ view' = view /\ socket' = socket
  BY FaultTypes DEF FeedInv, GetOrderBook, sockets
<1>2. row \in FetchRow /\ row.pc = "read" /\ row.number = sequence
  BY ClientFacts DEF FetchRow
<1> HIDE DEF row
<1>3. k \in DOMAIN fetch'[c] /\ fetch'[c][k] = row
  BY <1>1, ClientFacts
<1>4. ASSUME NEW n \in 0 .. sequence
      PROVE  Covers(c, n)'
  <2>1. n <= fetch'[c][k].number /\ fetch'[c][k].pc = "read"
    BY <1>2, <1>3, ClientFacts
  <2>2. QED
    BY <1>3, <2>1 DEF Covers
<1>5. Ready(c)' => Ready(c)
  BY <1>1 DEF Ready, Open
<1>6. QED
  BY <1>1, <1>2, <1>4, <1>5, ClientFacts, FetchKeeps

LEMMA OverType == Over \in FetchRow
BY DEF Over, FetchRow

LEMMA SendSnapshotKeeps ==
    ASSUME FeedInv, NEW c \in Client, NEW k \in DOMAIN fetch[c], SendOrderBookSnapshot(c, k)
    PROVE  FeedInv'
<1> DEFINE number0 == fetch[c][k].number
<1>1. /\ faults' \in Nat /\ UNCHANGED <<backend, bridge, wire, lost, sockets, index>>
      /\ fetch' = [fetch EXCEPT ![c][k] = Over] /\ socket' = socket /\ fetch[c][k].pc = "read"
      /\ view' = IF Open(c) /\ view[c].on /\ number0 > view[c].snapshot
                 THEN [view EXCEPT ![c].snapshot = number0] ELSE view
  BY FaultTypes DEF FeedInv, SendOrderBookSnapshot, sockets
<1>2. fetch[c][k] \in FetchRow /\ view[c] \in ViewRow
  BY ClientFacts
<1>3. number0 \in Nat /\ view[c].snapshot \in Nat \cup {-1}
  BY <1>2 DEF FetchRow, ViewRow
<1> HIDE DEF number0
<1>4. /\ view' \in [Client -> ViewRow] /\ \A d \in Client : d # c => view'[d] = view[d]
      /\ view'[c].on = view[c].on /\ view'[c].error = view[c].error /\ view'[c].deltas = view[c].deltas
      /\ Open(c) /\ view[c].on =>
            view'[c].snapshot = IF number0 > view[c].snapshot THEN number0 ELSE view[c].snapshot
  <2>1. \A s \in Nat : [view[c] EXCEPT !.snapshot = s] \in ViewRow
    BY <1>2 DEF ViewRow
  <2>2. QED
    BY <1>1, <1>2, <1>3, <2>1, ClientFacts DEF ViewRow
<1>5. Open(c) /\ view[c].on => /\ view[c].snapshot <= view'[c].snapshot /\ number0 <= view'[c].snapshot
                               /\ view'[c].snapshot \in Nat \cup {-1}
  BY <1>3, <1>4
<1>6. Ready(c)' => Ready(c)
  BY <1>1, <1>4 DEF Ready, Open
<1>7. /\ DOMAIN fetch'[c] = DOMAIN fetch[c]
      /\ \A j \in DOMAIN fetch[c] : j # k => fetch'[c][j] = fetch[c][j]
  BY <1>1, ClientFacts
<1>8. ASSUME NEW n \in 0 .. sequence, Ready(c), Covers(c, n)
      PROVE  Covers(c, n)'
  <2>1. n \in Int /\ Open(c) /\ view[c].on
    BY <1>8, ClientFacts DEF Ready
  <2>2. CASE n <= view[c].snapshot \/ n <= number0
    <3>1. n <= view'[c].snapshot
      BY <1>3, <1>5, <2>1, <2>2
    <3>2. QED
      BY <3>1 DEF Covers
  <2>3. CASE ~(n <= view[c].snapshot \/ n <= number0)
    <3>1. PICK j \in DOMAIN fetch[c] :
              fetch[c][j].pc = "asked" \/ (fetch[c][j].pc = "read" /\ n <= fetch[c][j].number)
      BY <1>8, <2>3 DEF Covers
    <3>2. j # k
      BY <1>1, <2>3, <3>1 DEF number0
    <3>3. j \in DOMAIN fetch'[c] /\ fetch'[c][j] = fetch[c][j]
      BY <1>7, <3>2
    <3>4. QED
      BY <3>1, <3>3 DEF Covers
  <2>4. QED
    BY <2>2, <2>3
<1>9. QED
  BY <1>1, <1>4, <1>6, <1>8, OverType, FetchKeeps

LEMMA SnapshotFailsKeeps ==
    ASSUME FeedInv, NEW c \in Client, NEW k \in DOMAIN fetch[c], SnapshotFails(c, k)
    PROVE  FeedInv'
<1>1. /\ faults' \in Nat /\ UNCHANGED <<backend, bridge, wire, lost, sockets, index>>
      /\ fetch' = [fetch EXCEPT ![c][k] = Over] /\ socket' = socket
      /\ view' = IF Open(c) THEN [view EXCEPT ![c].error = TRUE] ELSE view
  BY FaultTypes DEF FeedInv, SnapshotFails, sockets
<1>2. view[c] \in ViewRow
  BY ClientFacts
<1>3. /\ view' \in [Client -> ViewRow] /\ \A d \in Client : d # c => view'[d] = view[d]
      /\ view'[c].on = view[c].on /\ (Open(c) => view'[c].error = TRUE)
  BY <1>1, <1>2, ClientFacts DEF ViewRow
<1>4. ~Ready(c)'
  BY <1>1, <1>3 DEF Ready, Open
<1>5. QED
  BY <1>1, <1>3, <1>4, OverType, FetchKeeps

-----------------------------------------------------------------------------
(***************************************************************************)
(* The theorems.                                                           *)
(***************************************************************************)

LEMMA NextFeed == FeedInv /\ [Next]_vars => FeedInv'
<1> SUFFICES ASSUME FeedInv, [Next]_vars PROVE FeedInv'
  OBVIOUS
<1>1. CASE \E o \in Order : Serve(o)
  BY <1>1, ServeGrows, GrowsKeeps DEF FeedInv
<1>2. CASE \E u \in User : Transfer(u)
  BY <1>2, TransferGrows, GrowsKeeps DEF FeedInv
<1>3. CASE Bridge
  BY <1>3, PublishKeeps, PublishFailsKeeps, RejoinKeeps DEF Bridge
<1>4. CASE \E n \in Node : BroadcastToRoom(n) \/ Lose(n) \/ Heartbeat(n)
  BY <1>4, BroadcastKeeps, LoseKeeps, HeartbeatKeeps
<1>5. CASE \E c \in Client : Frame(c)
  BY <1>5, SubscribeKeeps, UnsubscribeKeeps, SubscribeBookKeeps DEF Frame
<1>6. CASE \E c \in Client : Snapshot(c)
  BY <1>6, GetOrderBookKeeps, SendSnapshotKeeps, SnapshotFailsKeeps DEF Snapshot
<1>7. CASE \E c \in Client : Connection(c)
  BY <1>7, ConnectionKeeps, DisconnectKeeps DEF Connection
<1>8. CASE UNCHANGED vars
  <2>1. /\ UNCHANGED <<backend, bridge, wire, lost, index, fetch, view>>
        /\ faults' = faults /\ socket' = socket /\ alive' = alive
    BY <1>8 DEF vars, sockets
  <2>2. faults \in Nat
    BY DEF FeedInv, TypeOK
  <2>3. QED
    BY <2>1, <2>2, ClientFacts, SocketKeeps
<1>9. QED
  BY <1>1, <1>2, <1>3, <1>4, <1>5, <1>6, <1>7, <1>8 DEF Next

\* The inductive invariant holds in every state.
THEOREM FeedInvariant == Spec => []FeedInv
<1>1. Init => FeedInv
  BY InitFeed
<1>2. FeedInv /\ [Next]_vars => FeedInv'
  BY NextFeed
<1>3. QED
  BY <1>1, <1>2, PTL DEF Spec

\* The state of the live feed keeps its types: no event carries a number that was not
\* taken from the counter, and the bridge is always at a channel of an event it has read
\* (kafka-bridge.service.ts).
THEOREM MarketFeedTypeOK == Spec => []TypeOK
<1>1. FeedInv => TypeOK
  BY DEF FeedInv
<1>2. QED
  BY <1>1, FeedInvariant, PTL

\* The two maps of the room index always tell the same, and a socket whose close was
\* reported is in no room (room-manager.service.ts).
THEOREM MarketFeedIndexAgrees == Spec => []IndexAgrees
<1>1. FeedInv => IndexAgrees
  BY DEF FeedInv
<1>2. QED
  BY <1>1, FeedInvariant, PTL

LEMMA GapInvNoGap == FeedInv => NoGap
<1> SUFFICES ASSUME FeedInv, NEW c \in Client,
                    Open(c), view[c].on, ~view[c].error,
                    \A k \in DOMAIN fetch[c] : fetch[c][k].pc = "over",
                    NEW i \in 1 .. pos - 1, Delta(i), log[i].sequenceId > view[c].snapshot,
                    view[c].snapshot >= 0
             PROVE  i \in view[c].deltas \/ Undelivered(NodeOf[c], i)
  BY DEF NoGap
<1>1. i \in Handled /\ log[i] \in EventRow
  BY LogTypes DEF FeedInv, Handled
<1>2. log[i].sequenceId \in Nat /\ view[c].snapshot \in Int
  BY <1>1, ClientFacts DEF EventRow, ViewRow
<1>3. ~Covers(c, log[i].sequenceId)
  BY <1>2 DEF Covers
<1>4. QED
  BY <1>1, <1>3 DEF FeedInv, GapInv, Ready

\* No delta is missing between the snapshot a subscriber was sent and the stream, but for
\* what Kafka or Valkey did not deliver: the client is in the room before the book is read
\* (handleSubscribe, trading.gateway.ts).
THEOREM MarketFeedNoGap == Spec => []NoGap
<1>1. FeedInv => NoGap
  BY GapInvNoGap
<1>2. QED
  BY <1>1, FeedInvariant, PTL
=============================================================================
