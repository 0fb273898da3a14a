------------------------------ MODULE MarketFeed ------------------------------
(***************************************************************************)
(* The live feed of the api gateway, from the orders service to the socket *)
(* of a client, for one trading pair.                                      *)
(*                                                                         *)
(* Placing or cancelling an order takes a number from a counter in Redis,  *)
(* and the event, committed later, is a delta with this number. The bridge *)
(* (a member of a Kafka group) publishes each event to one or more         *)
(* channels of Valkey, which every node of the gateway hears, and a node   *)
(* sends it to the sockets in the room of the channel. A client who        *)
(* subscribes to the order book is put into the room, told so, and sent a  *)
(* snapshot with the number the counter had after the book was read.       *)
(*                                                                         *)
(* A handler runs up to its next await without interruption. Quantities    *)
(* are left out: a delta and a snapshot are their numbers. Kafka, Valkey,  *)
(* the relay of the outbox and the other end of a socket are external:     *)
(* events are in Kafka when they are committed, in one log, as deltas are; *)
(* a member that joins the group again starts at the end of it (see        *)
(* Settlement); Valkey may lose a message on its way to a node.            *)
(***************************************************************************)
EXTENDS Integers, Sequences, FiniteSets, FiniteSetsExt

CONSTANTS
    User,
    Order, OwnerOf,          \* the orders, and who places them
    Resting,                 \* the orders that are in the book at first
    Node,                    \* instances of the gateway
    Client, NodeOf, UserOf,  \* sockets, where they connect, and as whom (or None)
    Wanted,                  \* Wanted[c]: the channels c may subscribe to
    Transfers,               \* how many events the transfers service emits
    MaxNumber,               \* how many numbers are taken
    MaxSubscribes,           \* how often a client subscribes to the order book
    MaxWire,                 \* how many messages may be on their way to a node
    MaxFaults

None == "none"

ASSUME PlacesAssumption ==
    /\ OwnerOf \in [Order -> User] /\ Resting \subseteq Order
    /\ NodeOf \in [Client -> Node] /\ UserOf \in [Client -> User \cup {None}]
    /\ {Transfers, MaxNumber, MaxSubscribes, MaxFaults} \subseteq Nat /\ MaxWire \in Nat \ {0}

VARIABLES
    sequence,  \* the counter orderbook:<pair>:sequence
    request,   \* request[o]: what is being done about order o
    number,    \* number[o]: the number that was taken for it last
    log,       \* the events in Kafka
    pos,       \* the one the bridge handles or waits for
    stage,     \* to how many channels it has published this event
    wire,      \* wire[n]: the messages <<event, channel>> on their way to node n
    socket,    \* socket[c]: the state of the connection
    alive,     \* the sockets with isAlive set
    rooms, clientRooms,  \* the index of RoomManagerService, both ways
    fetch,     \* fetch[c]: the snapshots handlers are waiting for
    view,      \* view[c]: what the client was sent of the order book
    missing,   \* the events that no member of the group has handled (history)
    lost,      \* lost[n]: the deltas that were lost on their way to node n (history)
    faults

backend == <<sequence, request, number, log>>
bridge  == <<pos, stage, missing>>
index   == <<rooms, clientRooms>>
sockets == <<socket, alive>>
vars == <<backend, bridge, wire, lost, sockets, index, fetch, view, faults>>

Book == <<"orderbook", "pair">>
Trades == <<"trades", "pair">>
Orders(u) == <<"orders", u>>
TransfersOf(u) == <<"transfers", u>>
Channel == {Book, Trades} \cup {Orders(u) : u \in User} \cup {TransfersOf(u) : u \in User}

\* A client that has subscribed to nothing. Number 0 is the first there may be.
Nothing == [on |-> FALSE, snapshot |-> -1, error |-> FALSE, deltas |-> {}]

Init ==
    /\ sequence = 0
    /\ request = [o \in Order |-> IF o \in Resting THEN "open" ELSE "new"]
    /\ number = [o \in Order |-> 0]
    /\ log = << >> /\ pos = 1 /\ stage = 0 /\ missing = {}
    /\ wire = [n \in Node |-> << >>] /\ lost = [n \in Node |-> {}]
    /\ socket = [c \in Client |-> "new"]
    /\ alive = {}
    /\ rooms = [ch \in Channel |-> {}] /\ clientRooms = [c \in Client |-> {}]
    /\ fetch = [c \in Client |-> << >>]
    /\ view = [c \in Client |-> Nothing]
    /\ faults = 0

Fault == faults < MaxFaults /\ faults' = faults + 1
NoFault == UNCHANGED faults

-----------------------------------------------------------------------------
(***************************************************************************)
(* The orders service and the transfers service.                           *)
(***************************************************************************)

NextSequence(o, step) ==
    /\ sequence < MaxNumber
    /\ sequence' = sequence + 1
    /\ number' = [number EXCEPT ![o] = sequence + 1]
    /\ request' = [request EXCEPT ![o] = step]

\* createOrder takes a number in its transaction, cancelOrder before its transaction.
TakeNumber(o) ==
    /\ \/ request[o] = "new" /\ NextSequence(o, "placing")
       \/ request[o] = "open" /\ NextSequence(o, "cancelling")
    /\ NoFault
    /\ UNCHANGED <<log, bridge, wire, lost, sockets, index, fetch, view>>

EventAbout(type, n, users) == [type |-> type, sequenceId |-> n, users |-> users]

\* The transaction of createOrder commits; the order rests in the book.
CommitPlaced(o) ==
    /\ request[o] = "placing"
    /\ request' = [request EXCEPT ![o] = "open"]
    /\ log' = Append(log, EventAbout("placed", number[o], <<OwnerOf[o]>>))
    /\ NoFault
    /\ UNCHANGED <<sequence, number, bridge, wire, lost, sockets, index, fetch, view>>

\* It commits; the order has filled an order p, in a trade that took a number too.
CommitFilled(o, p) ==
    LET owner == OwnerOf[o]
        maker == OwnerOf[p]
    IN  /\ request[o] = "placing" /\ request[p] = "open"
        /\ sequence < MaxNumber
        /\ sequence' = sequence + 1
        /\ request' = [request EXCEPT ![o] = "closed", ![p] = "closed"]
        /\ log' = log \o <<EventAbout("placed", number[o], <<owner>>),
                          EventAbout("trade", sequence + 1, <<owner, maker>>),
                          EventAbout("filled", 0, <<owner>>), EventAbout("filled", 0, <<maker>>)>>
        /\ NoFault
        /\ UNCHANGED <<number, bridge, wire, lost, sockets, index, fetch, view>>

\* The transaction of cancelOrder commits.
CommitCancelled(o) ==
    /\ request[o] = "cancelling"
    /\ request' = [request EXCEPT ![o] = "closed"]
    /\ log' = Append(log, EventAbout("cancelled", number[o], <<OwnerOf[o]>>))
    /\ NoFault
    /\ UNCHANGED <<sequence, number, bridge, wire, lost, sockets, index, fetch, view>>

\* A transaction is rolled back. Its number is not used again.
RollBack(o) ==
    /\ request[o] \in {"placing", "cancelling"}
    /\ request' = [request EXCEPT ![o] = IF @ = "placing" THEN "closed" ELSE "open"]
    /\ Fault
    /\ UNCHANGED <<sequence, number, log, bridge, wire, lost, sockets, index, fetch, view>>

\* A deposit is confirmed, or a withdrawal has ended.
Transfer(u) ==
    /\ Cardinality({i \in DOMAIN log : log[i].type = "transfer"}) < Transfers
    /\ log' = Append(log, EventAbout("transfer", 0, <<u>>))
    /\ NoFault
    /\ UNCHANGED <<sequence, request, number, bridge, wire, lost, sockets, index, fetch, view>>

-----------------------------------------------------------------------------
(***************************************************************************)
(* KafkaToWebSocketBridgeService.                                          *)
(***************************************************************************)

\* A trade is public, and of the buyer and the seller.
TradeExecuted(e) == <<Trades, Orders(e.users[1]), Orders(e.users[2])>>

\* An order placed or cancelled is a delta of the book, and of its owner.
OrderPlaced(e) == <<Book, Orders(e.users[1])>>

OrderFilled(e) == <<Orders(e.users[1])>>

\* The end of a transfer is its user's.
TransferEnded(e) == <<TransfersOf(e.users[1])>>

\* The channels an event is published to, in this order.
Channels(e) ==
    CASE e.type = "trade" -> TradeExecuted(e)
      [] e.type \in {"placed", "cancelled"} -> OrderPlaced(e)
      [] e.type = "filled" -> OrderFilled(e)
      [] e.type = "transfer" -> TransferEnded(e)

Waiting == pos > Len(log)
Room == \A n \in Node : Len(wire[n]) < MaxWire

\* The message for the next channel is sent to every node.
Published == [n \in Node |-> Append(wire[n], <<pos, Channels(log[pos])[stage + 1]>>)]

\* The next of the channels of the event is published to. After the last one
\* handleMessage returns, and the offset is resolved.
Publish ==
    /\ ~Waiting /\ Room
    /\ wire' = Published
    /\ IF stage + 1 = Len(Channels(log[pos]))
       THEN pos' = pos + 1 /\ stage' = 0
       ELSE stage' = stage + 1 /\ UNCHANGED pos
    /\ NoFault
    /\ UNCHANGED <<backend, missing, lost, sockets, index, fetch, view>>

\* Mutant: the error is logged, and the next event is handled.
PublishFailsQuietly ==
    /\ ~Waiting /\ Room
    /\ wire' \in {wire, Published}
    /\ pos' = pos + 1 /\ stage' = 0
    /\ Fault
    /\ UNCHANGED <<backend, missing, lost, sockets, index, fetch, view>>

\* Publishing throws, whether Valkey has the message or not. The event is handled again.
PublishFails ==
    /\ ~Waiting /\ Room
    /\ wire' \in {wire, Published}
    /\ stage' = 0
    /\ Fault
    /\ UNCHANGED <<backend, pos, missing, lost, sockets, index, fetch, view>>

\* The member leaves the group, and it or another one starts at the end of the log.
Rejoin ==
    /\ ~Waiting
    /\ missing' = missing \cup pos .. Len(log)
    /\ pos' = Len(log) + 1
    /\ stage' = 0
    /\ Fault
    /\ UNCHANGED <<backend, wire, lost, sockets, index, fetch, view>>

-----------------------------------------------------------------------------
(***************************************************************************)
(* RoomManagerService and ValkeyPubSubService.                             *)
(***************************************************************************)

Join(c, room) ==
    /\ rooms' = [rooms EXCEPT ![room] = @ \cup {c}]
    /\ clientRooms' = [clientRooms EXCEPT ![c] = @ \cup {room}]

Leave(c, room) ==
    /\ rooms' = [rooms EXCEPT ![room] = @ \ {c}]
    /\ clientRooms' = [clientRooms EXCEPT ![c] = @ \ {room}]

\* The client leaves the rooms clientRooms tells.
RemoveClient(c) ==
    /\ rooms' = [room \in Channel |->
           IF room \in clientRooms[c] THEN rooms[room] \ {c} ELSE rooms[room]]
    /\ clientRooms' = [clientRooms EXCEPT ![c] = {}]

Open(c) == socket[c] = "open"

\* Sockets of node n that are sent a message of this room.
Audience(n, room) == {c \in rooms[room] : NodeOf[c] = n /\ Open(c)}

\* What the subscriber of node n hears next: it listens to all channels.
Received(n) == Head(wire[n])

\* Node n hears a message and sends it to the room. Sockets with too much unsent are
\* terminated.
BroadcastToRoom(n) ==
    /\ wire[n] # << >>
    /\ \E slow \in SUBSET Audience(n, Received(n)[2]) :
          LET msg == Received(n)
              sent == Audience(n, msg[2]) \ slow
          IN  /\ socket' = [c \in Client |-> IF c \in slow THEN "closing" ELSE socket[c]]
              /\ view' = [c \in Client |->
                     IF c \in sent /\ msg[2] = Book
                     THEN [view[c] EXCEPT !.deltas = @ \cup {msg[1]}] ELSE view[c]]
    /\ wire' = [wire EXCEPT ![n] = Tail(@)]
    /\ NoFault
    /\ UNCHANGED <<backend, bridge, lost, alive, index, fetch>>

\* Valkey does not deliver a message to node n.
Lose(n) ==
    /\ wire[n] # << >>
    /\ wire' = [wire EXCEPT ![n] = Tail(@)]
    /\ lost' = IF Received(n)[2] = Book
               THEN [lost EXCEPT ![n] = @ \cup {Received(n)[1]}] ELSE lost
    /\ Fault
    /\ UNCHANGED <<backend, bridge, sockets, index, fetch, view>>

-----------------------------------------------------------------------------
(***************************************************************************)
(* TradingGateway: the connection.                                         *)
(***************************************************************************)

HandleConnection(c) ==
    /\ socket[c] = "new"
    /\ socket' = [socket EXCEPT ![c] = "open"]
    /\ alive' = alive \cup {c}
    /\ NoFault
    /\ UNCHANGED <<backend, bridge, wire, lost, index, fetch, view>>

\* The other end closes the connection.
HangUp(c) ==
    /\ Open(c)
    /\ socket' = [socket EXCEPT ![c] = "closing"]
    /\ NoFault
    /\ UNCHANGED <<backend, bridge, wire, lost, alive, index, fetch, view>>

HandleDisconnect(c) ==
    /\ socket[c] = "closing"
    /\ socket' = [socket EXCEPT ![c] = "gone"]
    /\ RemoveClient(c)
    /\ view' = [view EXCEPT ![c] = Nothing]
    /\ NoFault
    /\ UNCHANGED <<backend, bridge, wire, lost, alive, fetch>>

\* Every 30 s: sockets that have not answered since the last time are terminated,
\* and the others must answer until the next.
Heartbeat(n) ==
    LET here == {c \in Client : NodeOf[c] = n /\ socket[c] \in {"open", "closing"}}
    IN  /\ socket' = [c \in Client |-> IF c \in here \ alive THEN "closing" ELSE socket[c]]
        /\ alive' = alive \ here
        /\ NoFault
        /\ UNCHANGED <<backend, bridge, wire, lost, index, fetch, view>>

Pong(c) ==
    /\ Open(c) /\ c \notin alive
    /\ alive' = alive \cup {c}
    /\ NoFault
    /\ UNCHANGED <<backend, bridge, wire, lost, socket, index, fetch, view>>

-----------------------------------------------------------------------------
(***************************************************************************)
(* TradingGateway: the frames of a client. One may still be handled after  *)
(* the socket was terminated, but none after the close event. A frame that *)
(* exceeds the rate, names no channel, or wants a private one without a    *)
(* user is answered by an error and changes nothing.                       *)
(***************************************************************************)

Connected(c) == socket[c] \in {"open", "closing"}

\* No token came with the handshake of the socket, or none that verifies.
Anonymous(c) == UserOf[c] = None

PrivateRooms(c) ==
    IF Anonymous(c) THEN {} ELSE {Orders(UserOf[c]), TransfersOf(UserOf[c])}

RoomsFor(c) == Wanted[c] \cap ({Book, Trades} \cup PrivateRooms(c))

\* A private channel, or the trades.
Subscribe(c, room) ==
    /\ Connected(c)
    /\ room \in RoomsFor(c) \ {Book}
    /\ Join(c, room)
    /\ NoFault
    /\ UNCHANGED <<backend, bridge, wire, lost, sockets, fetch, view>>

\* What the client knows when he is told that he has subscribed.
Acknowledged(c) ==
    IF Open(c) /\ ~view[c].on THEN [Nothing EXCEPT !.on = TRUE] ELSE view[c]

\* The order book: the client joins and is told so, and the handler asks for the book.
SubscribeBook(c) ==
    /\ Connected(c) /\ Book \in RoomsFor(c)
    /\ Join(c, Book)
    /\ view' = [view EXCEPT ![c] = Acknowledged(c)]
    /\ fetch' = [fetch EXCEPT ![c] = Append(@, [pc |-> "asked", number |-> 0])]
    /\ NoFault
    /\ UNCHANGED <<backend, bridge, wire, lost, sockets>>

\* The orders service reads the book, and the counter after it.
GetOrderBook(c, k) ==
    /\ fetch[c][k].pc = "asked"
    /\ fetch' = [fetch EXCEPT ![c][k] = [pc |-> "read", number |-> sequence]]
    /\ NoFault
    /\ UNCHANGED <<backend, bridge, wire, lost, sockets, index, view>>

Over == [pc |-> "over", number |-> 0]

\* Mutant: the client joins the room when the answer has come.
SendAndJoin(c, k) ==
    /\ fetch[c][k].pc = "read"
    /\ Join(c, Book)
    /\ view' = IF Open(c) /\ view[c].on /\ fetch[c][k].number > view[c].snapshot
               THEN [view EXCEPT ![c].snapshot = fetch[c][k].number] ELSE view
    /\ fetch' = [fetch EXCEPT ![c][k] = Over]
    /\ NoFault
    /\ UNCHANGED <<backend, bridge, wire, lost, sockets>>

\* The answer has come, and the client is sent the snapshot.
SendOrderBookSnapshot(c, k) ==
    /\ fetch[c][k].pc = "read"
    /\ view' = IF Open(c) /\ view[c].on /\ fetch[c][k].number > view[c].snapshot
               THEN [view EXCEPT ![c].snapshot = fetch[c][k].number] ELSE view
    /\ fetch' = [fetch EXCEPT ![c][k] = Over]
    /\ NoFault
    /\ UNCHANGED <<backend, bridge, wire, lost, sockets, index>>

\* The book could not be fetched, and the client is told so.
SnapshotFails(c, k) ==
    /\ fetch[c][k].pc \in {"asked", "read"}
    /\ view' = IF Open(c) THEN [view EXCEPT ![c].error = TRUE] ELSE view
    /\ fetch' = [fetch EXCEPT ![c][k] = Over]
    /\ Fault
    /\ UNCHANGED <<backend, bridge, wire, lost, sockets, index>>

Unsubscribe(c, room) ==
    /\ Connected(c)
    /\ room \in RoomsFor(c)
    /\ Leave(c, room)
    /\ view' = IF Open(c) /\ room = Book THEN [view EXCEPT ![c] = Nothing] ELSE view
    /\ NoFault
    /\ UNCHANGED <<backend, bridge, wire, lost, sockets, fetch>>

-----------------------------------------------------------------------------

Serve(o) ==
    \/ TakeNumber(o) \/ CommitPlaced(o) \/ CommitCancelled(o) \/ RollBack(o)
    \/ \E p \in Order : CommitFilled(o, p)

Bridge == Publish \/ PublishFails \/ Rejoin

Frame(c) ==
    \/ \E room \in Channel : Subscribe(c, room) \/ Unsubscribe(c, room)
    \/ Len(fetch[c]) < MaxSubscribes /\ SubscribeBook(c)

Snapshot(c) ==
    \E k \in DOMAIN fetch[c] : GetOrderBook(c, k) \/ SendOrderBookSnapshot(c, k) \/ SnapshotFails(c, k)

Connection(c) ==
    HandleConnection(c) \/ HangUp(c) \/ HandleDisconnect(c) \/ Pong(c)

Next ==
    \/ \E o \in Order : Serve(o)
    \/ \E u \in User : Transfer(u)
    \/ Bridge
    \/ \E n \in Node : BroadcastToRoom(n) \/ Lose(n) \/ Heartbeat(n)
    \/ \E c \in Client : Frame(c) \/ Snapshot(c) \/ Connection(c)

Spec == Init /\ [][Next]_vars

-----------------------------------------------------------------------------

EventRow ==
    {e \in [type : {"placed", "cancelled", "trade", "filled", "transfer"},
            sequenceId : Nat, users : Seq(User)] :
        Len(e.users) = IF e.type = "trade" THEN 2 ELSE 1}
ViewRow == [on : BOOLEAN, snapshot : Nat \cup {-1}, error : BOOLEAN, deltas : SUBSET Nat]
FetchRow == [pc : {"asked", "read", "over"}, number : Nat]

\* The variables have the values they can have, and no event has a number that was not
\* taken. What is left to publish of an event is one of its channels.
TypeOK ==
    /\ sequence \in Nat /\ number \in [Order -> 0 .. sequence]
    /\ request \in [Order -> {"new", "placing", "open", "cancelling", "closed"}]
    /\ log \in Seq(EventRow)
    /\ \A i \in DOMAIN log : log[i].sequenceId <= sequence
    /\ pos \in 1 .. Len(log) + 1 /\ stage \in Nat /\ missing \subseteq Nat
    /\ stage > 0 => ~Waiting /\ stage < Len(Channels(log[pos]))
    /\ wire \in [Node -> Seq(Nat \X Channel)] /\ lost \in [Node -> SUBSET Nat]
    /\ socket \in [Client -> {"new", "open", "closing", "gone"}] /\ alive \subseteq Client
    /\ rooms \in [Channel -> SUBSET Client] /\ clientRooms \in [Client -> SUBSET Channel]
    /\ fetch \in [Client -> Seq(FetchRow)] /\ view \in [Client -> ViewRow]
    /\ faults \in Nat

\* Node n has not got, or not kept, what the bridge has handled of event i.
Undelivered(n, i) ==
    \/ i \in missing
    \/ i \in lost[n]
    \/ \E m \in DOMAIN wire[n] : wire[n][m] = <<i, Book>>

Delta(i) == log[i].type \in {"placed", "cancelled"}

\* A client who was told that he has subscribed and was sent every snapshot he is to
\* get has also been sent each newer delta that was handled, but for those Kafka or
\* Valkey did not deliver: whatever changed between his subscription and the reading
\* of the book, and in whatever order requests committed (handleSubscribe joins the
\* room before it asks for the book, trading.gateway.ts).
NoGap ==
    \A c \in Client :
        /\ Open(c) /\ view[c].on /\ ~view[c].error /\ view[c].snapshot >= 0
        /\ \A k \in DOMAIN fetch[c] : fetch[c][k].pc = "over"
        => \A i \in 1 .. pos - 1 :
              Delta(i) /\ log[i].sequenceId > view[c].snapshot
              => i \in view[c].deltas \/ Undelivered(NodeOf[c], i)

\* The two maps of the index tell the same, and a socket whose close was reported is in
\* no room, whatever handler of it was still waiting (RoomManagerService).
IndexAgrees ==
    \A c \in Client :
        /\ \A room \in Channel : c \in rooms[room] <=> room \in clientRooms[c]
        /\ socket[c] \in {"new", "gone"} => clientRooms[c] = {}
=============================================================================
