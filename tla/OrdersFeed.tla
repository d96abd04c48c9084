----------------------------- MODULE OrdersFeed -----------------------------
(***************************************************************************)
(* The HTTP layer's orders (src/orders): a list in the memory of one       *)
(* process, an event bus with a buffer per order, SSE streams that resume  *)
(* with Last-Event-ID, and WebSocket rooms that are joined after an        *)
(* asynchronous authentication. Pages.tla walks through the lists.         *)
(*                                                                         *)
(* HTTP handlers here never await, so each is one step. A stream's bytes   *)
(* travel: what was written and not yet read is lost with the connection.  *)
(* A restart forgets everything but what the clients remember.             *)
(***************************************************************************)
EXTENDS Integers, Sequences, Positions

CONSTANTS
  User, Admin, Seller,  \* accounts; those with role admin, those with role seller
  MaxOrder,         \* bound: orders of one process life
  InitialBuyers,    \* buyer_id of the orders every process starts with
  OrderStatus,
  EventSource,      \* SSE clients
  Socket,           \* WebSocket connections
  BUFFER_SIZE,
  Absent,
  MaxEvents,        \* bound: status changes
  MaxDrops,         \* bound: connections of EventSources that break
  MaxRestarts       \* bound: restarts of the process

Id == 1..MaxOrder
Anonymous == Absent

ASSUME OrdersFeedAssumption ==
  /\ Admin \subseteq User /\ Seller \subseteq User /\ Absent \notin User \cup Id
  /\ InitialBuyers \in Seq(User) /\ Len(InitialBuyers) <= MaxOrder
  /\ BUFFER_SIZE \in Nat \ {0} /\ "new" \in OrderStatus
  /\ {MaxEvents, MaxDrops, MaxRestarts, MaxOrder} \subseteq Nat

VARIABLES
  buyer, status,    \* ORDERS: buyer_id and status of the order with id o<i>
  nextId,           \* number of the next order
  counters,         \* last event id of each order
  buffers,          \* last events of each order
  watch,            \* watch[c]: the order EventSource c is for
  viewer,           \* viewer[c]: the account it sends the token of
  stream,           \* stream[c]: the server has a subscription for c
  wire,             \* wire[c]: events written to c's connection, not yet read
  lastId,           \* lastId[c]: the Last-Event-ID c will send
  user,             \* user[s]: what client.data.user resolves to
  resolved,         \* sockets whose client.data.user has resolved
  connected,        \* sockets that are connected
  joining,          \* joining[s]: join messages that wait for the promise
  rooms,            \* rooms[s]: the orders whose room s is in
  current,          \* history: EventSources whose lastId is of this
                    \* process life
  behind,           \* history: EventSources that asked for more than the buffer
                    \* has, or with a Last-Event-ID of an earlier life
  log,              \* history: all statuses sent for an order in this life
  changes, drops, restarts

service == <<buyer, status, nextId>>
events == <<counters, buffers, log>>
streams == <<watch, viewer, stream, wire, lastId, current, behind>>
sockets == <<user, resolved, connected, joining, rooms>>
bounds == <<changes, drops, restarts>>
feedVars == <<service, events, streams, sockets, bounds>>

\* The types of the tables and of the connections; what the sequences hold is
\* the business of StreamHasNoGap.
TypeOK ==
  /\ nextId \in 1..(MaxOrder + 1)
  /\ buyer \in [Id -> User \cup {Absent}] /\ status \in [Id -> OrderStatus]
  /\ watch \in [EventSource -> Id \cup {Absent}]
  /\ viewer \in [EventSource -> User \cup {Absent}]
  /\ stream \subseteq EventSource
  /\ user \in [Socket -> User \cup {Anonymous}]
  /\ resolved \subseteq connected /\ connected \subseteq Socket
  /\ joining \in [Socket -> SUBSET Id] /\ rooms \in [Socket -> SUBSET Id]

FirstBuyer ==
  [i \in Id |-> IF i <= Len(InitialBuyers) THEN InitialBuyers[i] ELSE Absent]

FeedInit ==
  /\ buyer = FirstBuyer /\ status = [i \in Id |-> "new"]
  /\ nextId = Len(InitialBuyers) + 1
  /\ counters = [i \in Id |-> 0] /\ buffers = [i \in Id |-> <<>>]
  /\ log = [i \in Id |-> <<>>]
  /\ watch = [c \in EventSource |-> Absent] /\ viewer = [c \in EventSource |-> Absent]
  /\ stream = {} /\ wire = [c \in EventSource |-> <<>>]
  /\ lastId = [c \in EventSource |-> 0]
  /\ current = EventSource /\ behind = {}
  /\ user = [s \in Socket |-> Anonymous] /\ resolved = {} /\ connected = {}
  /\ joining = [s \in Socket |-> {}] /\ rooms = [s \in Socket |-> {}]
  /\ changes = 0 /\ drops = 0 /\ restarts = 0

Exists(o) == o < nextId

\* getOwned: the buyer, or an admin.
MayRead(u, o) == Exists(o) /\ (u = buyer[o] \/ u \in Admin)

-----------------------------------------------------------------------------
\* POST /orders. openapi.yaml requires an Idempotency-Key, which the handler never
\* reads: a request that is sent again creates another order.
createOrder(u) ==
  /\ nextId <= MaxOrder /\ nextId' = nextId + 1
  /\ buyer' = [buyer EXCEPT ![nextId] = u]
  /\ status' = [status EXCEPT ![nextId] = "new"]
  /\ UNCHANGED <<events, streams, sockets, bounds>>

\* emitStatusChange up to bus.next.
NewEvent(o, st) == [id |-> counters[o] + 1, status |-> st]
Push(buffer, e) ==
  LET pushed == Append(buffer, e)
  IN  IF Len(pushed) > BUFFER_SIZE THEN Tail(pushed) ELSE pushed

\* @Roles('seller', 'admin').
hasRole(u) == u \in Seller \cup Admin

\* PATCH /orders/:id/status: any status may follow any other. The bus calls the
\* subscribers of all streams; rooms get the event from the gateway's own.
updateStatus(u, o, st) ==
  /\ hasRole(u) /\ Exists(o)
  /\ changes < MaxEvents /\ changes' = changes + 1
  /\ status' = [status EXCEPT ![o] = st]
  /\ counters' = [counters EXCEPT ![o] = @ + 1]
  /\ buffers' = [buffers EXCEPT ![o] = Push(@, NewEvent(o, st))]
  /\ log' = [log EXCEPT ![o] = Append(@, st)]
  /\ wire' = [c \in EventSource |->
                IF c \in stream /\ watch[c] = o
                THEN Append(wire[c], NewEvent(o, st)) ELSE wire[c]]
  /\ UNCHANGED <<buyer, nextId, watch, viewer, stream, lastId, current, behind,
                 sockets, drops, restarts>>

-----------------------------------------------------------------------------
\* Mutant: id >= lastEventId.
missedSinceIncl(o, last) ==
  Kept(buffers[o], {i \in 1..Len(buffers[o]) : buffers[o][i].id >= last})
\* The buffered events with id > lastEventId.
missedSince(o, last) ==
  Kept(buffers[o], {i \in 1..Len(buffers[o]) : buffers[o][i].id > last})

\* GET /orders/:id/events: what was missed is written, then the subscription
\* starts, with no await in between. A client keeps asking for its order.
openStream(c, u, o) ==
  /\ c \notin stream /\ watch[c] \in {Absent, o} /\ viewer[c] \in {Absent, u}
  /\ MayRead(u, o)
  /\ watch' = [watch EXCEPT ![c] = o] /\ viewer' = [viewer EXCEPT ![c] = u]
  /\ wire' = [wire EXCEPT ![c] = missedSince(o, lastId[c])]
  /\ stream' = stream \cup {c}
  /\ behind' = IF c \in current /\ counters[o] <= lastId[c] + BUFFER_SIZE
               THEN behind \ {c} ELSE behind \cup {c}
  /\ UNCHANGED <<service, events, lastId, current, sockets, bounds>>

\* The client reads an event and remembers its id.
Receive(c) ==
  /\ wire[c] # <<>>
  /\ lastId' = [lastId EXCEPT ![c] = Head(wire[c]).id]
  /\ wire' = [wire EXCEPT ![c] = Tail(@)]
  /\ current' = current \cup {c}
  /\ UNCHANGED <<service, events, watch, viewer, stream, behind, sockets,
                 bounds>>

\* The connection breaks; req.on('close') ends the subscription.
close(c) ==
  /\ c \in stream /\ drops < MaxDrops /\ drops' = drops + 1
  /\ stream' = stream \ {c} /\ wire' = [wire EXCEPT ![c] = <<>>]
  /\ UNCHANGED <<service, events, watch, viewer, lastId, current, behind,
                 sockets, changes, restarts>>

-----------------------------------------------------------------------------
\* A socket connects: client.data.user is the promise of authenticate().
handleConnection(s) ==
  /\ s \notin connected /\ connected' = connected \cup {s}
  /\ UNCHANGED <<service, events, streams, user, resolved, joining, rooms,
                 bounds>>

\* The promise resolves to the token's account, or to undefined when there was
\* no token or authenticate rejected it.
Authenticated(s, u) ==
  /\ s \in connected \ resolved /\ resolved' = resolved \cup {s}
  /\ user' = [user EXCEPT ![s] = u]
  /\ UNCHANGED <<service, events, streams, connected, joining, rooms, bounds>>

\* A join message arrives, perhaps before the promise resolves.
join(s, o) ==
  /\ s \in connected /\ o \notin joining[s]
  /\ joining' = [joining EXCEPT ![s] = @ \cup {o}]
  /\ UNCHANGED <<service, events, streams, user, resolved, connected, rooms,
                 bounds>>

\* Mutant: the check does not wait for the promise, and lets in a socket whose
\* user is not known yet.
joinNoAwait(s, o) ==
  /\ o \in joining[s]
  /\ joining' = [joining EXCEPT ![s] = @ \ {o}]
  /\ rooms' = [rooms EXCEPT ![s] =
                 IF Exists(o) /\ (s \notin resolved \/ MayRead(user[s], o))
                 THEN @ \cup {o} ELSE @]
  /\ UNCHANGED <<service, events, streams, user, resolved, connected, bounds>>

\* The rest of join() after its await: not-found, forbidden, or into the room.
joined(s, o) ==
  /\ s \in resolved /\ o \in joining[s]
  /\ joining' = [joining EXCEPT ![s] = @ \ {o}]
  /\ rooms' = [rooms EXCEPT ![s] =
                 IF Exists(o) /\ user[s] # Anonymous /\ MayRead(user[s], o)
                 THEN @ \cup {o} ELSE @]
  /\ UNCHANGED <<service, events, streams, user, resolved, connected, bounds>>

\* socket.io forgets a disconnected socket and takes it out of its rooms.
disconnect(s) ==
  /\ s \in connected
  /\ connected' = connected \ {s} /\ resolved' = resolved \ {s}
  /\ user' = [user EXCEPT ![s] = Anonymous]
  /\ joining' = [joining EXCEPT ![s] = {}] /\ rooms' = [rooms EXCEPT ![s] = {}]
  /\ UNCHANGED <<service, events, streams, bounds>>

-----------------------------------------------------------------------------
\* The process restarts: ORDERS, nextId, counters and buffers are those of the
\* source text again, every connection is gone; clients keep their Last-Event-IDs.
Restart ==
  /\ restarts < MaxRestarts /\ restarts' = restarts + 1
  /\ buyer' = FirstBuyer /\ status' = [i \in Id |-> "new"]
  /\ nextId' = Len(InitialBuyers) + 1
  /\ counters' = [i \in Id |-> 0] /\ buffers' = [i \in Id |-> <<>>]
  /\ log' = [i \in Id |-> <<>>]
  /\ stream' = {} /\ wire' = [c \in EventSource |-> <<>>]
  /\ current' = {c \in EventSource : lastId[c] = 0}
  /\ connected' = {} /\ resolved' = {}
  /\ user' = [s \in Socket |-> Anonymous]
  /\ joining' = [s \in Socket |-> {}] /\ rooms' = [s \in Socket |-> {}]
  /\ UNCHANGED <<watch, viewer, lastId, behind, changes, drops>>

FeedNext ==
  \/ \E u \in User : createOrder(u)
  \/ \E u \in User, o \in Id, st \in OrderStatus : updateStatus(u, o, st)
  \/ \E c \in EventSource :
       \/ \E u \in User, o \in Id : openStream(c, u, o)
       \/ Receive(c) \/ close(c)
  \/ \E s \in Socket :
       \/ handleConnection(s) \/ disconnect(s)
       \/ \E u \in User \cup {Anonymous} : Authenticated(s, u)
       \/ \E o \in Id : join(s, o) \/ joined(s, o)
  \/ Restart

FeedSpec == FeedInit /\ [][FeedNext]_feedVars

-----------------------------------------------------------------------------
\* A stream brings the order's events in order, each once, with the statuses
\* that were set, up to the last one; and it begins where the client stopped,
\* unless that is further back than the buffer reaches or the Last-Event-ID is
\* of an earlier life of the process: then events before the first are missing.
StreamHasNoGap ==
  \A c \in stream :
    LET o == watch[c]
        before == counters[o] - Len(wire[c])
    IN  /\ c \notin behind => lastId[c] = before
        /\ \A i \in 1..Len(wire[c]) :
             wire[c][i] = [id |-> before + i, status |-> log[o][before + i]]

\* Whoever receives an order's events may read the order, by SSE or in a room,
\* although a join may be answered long after it was sent.
OnlyReadersListen ==
  /\ \A c \in stream : MayRead(viewer[c], watch[c])
  /\ \A s \in Socket : \A o \in rooms[s] :
       s \in resolved /\ user[s] # Anonymous /\ MayRead(user[s], o)

\* The inductive invariant behind OnlyReadersListen: a stream or a room belongs
\* to an order that exists, whose buyer no longer changes, and a socket gets
\* into rooms only after its user has resolved for good.
IInv ==
  /\ TypeOK
  /\ \A c \in stream : watch[c] \in Id
  /\ OnlyReadersListen

Event == [id : Nat, status : OrderStatus]

\* s holds the last events of order o, up to the one that was sent last.
Recent(s, o) ==
  /\ s \in Seq(Event) /\ Len(s) <= counters[o]
  /\ \A i \in 1..Len(s) :
       s[i] = [id |-> counters[o] - Len(s) + i,
               status |-> log[o][counters[o] - Len(s) + i]]

\* The inductive invariant behind StreamHasNoGap: an order's buffer and every
\* connection hold its last events; the buffer is full unless it holds them all;
\* and a Last-Event-ID of this life is the id of an event of the order.
NumbersInv ==
  /\ counters \in [Id -> Nat] /\ log \in [Id -> Seq(OrderStatus)]
  /\ buffers \in [Id -> Seq(Event)] /\ wire \in [EventSource -> Seq(Event)]
  /\ lastId \in [EventSource -> Nat]

BufferInv(o) ==
  /\ Len(log[o]) = counters[o] /\ Recent(buffers[o], o)
  /\ Len(buffers[o]) = IF counters[o] < BUFFER_SIZE THEN counters[o] ELSE BUFFER_SIZE

StreamInv(c) ==
  /\ c \in stream => Recent(wire[c], watch[c])
  /\ c \in stream \ behind => lastId[c] = counters[watch[c]] - Len(wire[c])
  /\ c \notin stream => wire[c] = <<>>
  /\ c \in current =>
       IF watch[c] = Absent THEN lastId[c] = 0 ELSE lastId[c] <= counters[watch[c]]

GapInv ==
  /\ NumbersInv /\ (\A o \in Id : BufferInv(o))
  /\ \A c \in EventSource : StreamInv(c)
=============================================================================
