-------------------------- MODULE OrdersFeedProofs --------------------------
(* Who listens to an order's events, and what a stream brings, for every set *)
(* of clients and orders and every size of the buffers.                      *)
EXTENDS OrdersFeed, FiniteSetTheorems, SequenceTheorems, TLAPS

\* At the start nobody listens.
LEMMA FeedInitInv == FeedInit => IInv
  <1> SUFFICES ASSUME FeedInit PROVE IInv
    OBVIOUS
  <1>1. nextId \in 1..(MaxOrder + 1) /\ buyer \in [Id -> User \cup {Absent}]
    BY OrdersFeedAssumption DEF FeedInit, FirstBuyer, Id
  <1>2. TypeOK
    BY <1>1, OrdersFeedAssumption DEF FeedInit, TypeOK, Anonymous
  <1> QED BY <1>2 DEF FeedInit, IInv, OnlyReadersListen

\* createOrder takes a number no order has: the buyers of the orders that exist stay.
LEMMA FeedCreate ==
  ASSUME IInv, NEW u \in User, createOrder(u)
  PROVE  IInv'
  <1>1. TypeOK'
    BY OrdersFeedAssumption DEF IInv, TypeOK, createOrder, streams, sockets, Id
  <1>2. \A o \in Id : Exists(o) => buyer'[o] = buyer[o] /\ o < nextId'
    BY DEF createOrder, Exists, IInv, TypeOK, Id
  <1>3. UNCHANGED <<watch, viewer, stream, user, resolved, connected, joining, rooms>>
    BY DEF createOrder, streams, sockets
  <1>4. \A c \in stream : watch[c] \in Id /\ MayRead(viewer[c], watch[c])
    BY DEF IInv, OnlyReadersListen
  <1>5. \A s \in Socket : \A o \in rooms[s] :
          o \in Id /\ s \in resolved /\ user[s] # Anonymous /\ MayRead(user[s], o)
    BY DEF IInv, TypeOK, OnlyReadersListen
  <1>6. (\A c \in stream : watch[c] \in Id)' /\ OnlyReadersListen'
    BY <1>2, <1>3, <1>4, <1>5 DEF OnlyReadersListen, MayRead, Exists
  <1> QED BY <1>1, <1>6 DEF IInv

\* Steps that leave buyers and connections alone.
LEMMA FeedFrame ==
  ASSUME IInv, status' \in [Id -> OrderStatus],
         UNCHANGED <<buyer, nextId, watch, viewer, stream, sockets>>
  PROVE  IInv'
  BY DEF IInv, TypeOK, OnlyReadersListen, MayRead, Exists, sockets

\* Every step of a stream keeps the invariant.
LEMMA FeedStreams ==
  ASSUME IInv, NEW c \in EventSource,
         (\E u \in User, o \in Id : openStream(c, u, o)) \/ Receive(c) \/ close(c)
  PROVE  IInv'
  <1>1. CASE \E u \in User, o \in Id : openStream(c, u, o)
    <2> PICK u \in User, o \in Id : openStream(c, u, o)
      BY <1>1
    <2> QED BY DEF openStream, IInv, TypeOK, OnlyReadersListen, MayRead, Exists,
                   service, sockets
  <1>2. CASE Receive(c)
    BY <1>2, FeedFrame DEF Receive, IInv, TypeOK, service
  <1>3. CASE close(c)
    BY <1>3 DEF close, IInv, TypeOK, OnlyReadersListen, MayRead, Exists, service,
                sockets
  <1> QED BY <1>1, <1>2, <1>3

\* Every step of a socket keeps it: user[s] is set once, before s is in a room.
LEMMA FeedSockets ==
  ASSUME IInv, NEW s \in Socket,
         \/ handleConnection(s) \/ disconnect(s)
         \/ \E u \in User \cup {Anonymous} : Authenticated(s, u)
         \/ \E o \in Id : join(s, o) \/ joined(s, o)
  PROVE  IInv'
  <1>1. CASE handleConnection(s)
    BY <1>1 DEF handleConnection, IInv, TypeOK, OnlyReadersListen, MayRead, Exists,
                service, streams
  <1>2. CASE disconnect(s)
    BY <1>2 DEF disconnect, IInv, TypeOK, OnlyReadersListen, MayRead, Exists,
                service, streams
  <1>3. CASE \E u \in User \cup {Anonymous} : Authenticated(s, u)
    BY <1>3 DEF Authenticated, IInv, TypeOK, OnlyReadersListen, MayRead, Exists,
                service, streams
  <1>4. CASE \E o \in Id : join(s, o)
    BY <1>4 DEF join, IInv, TypeOK, OnlyReadersListen, MayRead, Exists,
                service, streams
  <1>5. CASE \E o \in Id : joined(s, o)
    BY <1>5 DEF joined, IInv, TypeOK, OnlyReadersListen, MayRead, Exists,
                service, streams
  <1> QED BY <1>1, <1>2, <1>3, <1>4, <1>5

\* A restart closes every connection.
LEMMA FeedRestart ==
  ASSUME IInv, Restart
  PROVE  IInv'
  <1>1. nextId' \in 1..(MaxOrder + 1) /\ buyer' \in [Id -> User \cup {Absent}]
    BY OrdersFeedAssumption DEF Restart, FirstBuyer, Id
  <1>2. TypeOK'
    BY <1>1, OrdersFeedAssumption DEF Restart, IInv, TypeOK, Anonymous
  <1> QED BY <1>2 DEF Restart, IInv, OnlyReadersListen

\* The inductive invariant of the orders' buyers, streams and rooms holds in
\* every run of the HTTP layer (orders.service.ts, orders.gateway.ts).
THEOREM FeedInvariant == FeedSpec => []IInv
  <1>1. IInv /\ [FeedNext]_feedVars => IInv'
    <2> SUFFICES ASSUME IInv, [FeedNext]_feedVars PROVE IInv'
      OBVIOUS
    <2>1. CASE \E u \in User : createOrder(u)
      BY <2>1, FeedCreate
    <2>2. CASE \E u \in User, o \in Id, st \in OrderStatus : updateStatus(u, o, st)
      <3> PICK u \in User, o \in Id, st \in OrderStatus : updateStatus(u, o, st)
        BY <2>2
      <3>1. status' \in [Id -> OrderStatus]
        BY DEF updateStatus, IInv, TypeOK
      <3> QED BY <3>1, FeedFrame DEF updateStatus
    <2>3. CASE \E c \in EventSource :
                 \/ \E u \in User, o \in Id : openStream(c, u, o)
                 \/ Receive(c) \/ close(c)
      BY <2>3, FeedStreams
    <2>4. CASE \E s \in Socket :
                 \/ handleConnection(s) \/ disconnect(s)
                 \/ \E u \in User \cup {Anonymous} : Authenticated(s, u)
                 \/ \E o \in Id : join(s, o) \/ joined(s, o)
      BY <2>4, FeedSockets
    <2>5. CASE Restart
      BY <2>5, FeedRestart
    <2>6. CASE UNCHANGED feedVars
      <3>1. status' \in [Id -> OrderStatus]
        BY <2>6 DEF feedVars, service, IInv, TypeOK
      <3> QED BY <2>6, <3>1, FeedFrame DEF feedVars, service, streams
    <2> QED BY <2>1, <2>2, <2>3, <2>4, <2>5, <2>6 DEF FeedNext
  <1> QED BY <1>1, FeedInitInv, PTL DEF FeedSpec

\* Whoever receives an order's events, by SSE or in a room, may read the order.
THEOREM FeedOnlyReadersListen == FeedSpec => []OnlyReadersListen
  <1>1. IInv => OnlyReadersListen
    BY DEF IInv
  <1> QED BY <1>1, FeedInvariant, PTL

-----------------------------------------------------------------------------
(* What a stream brings *)

\* A function from 1..n is a sequence of its values.
LEMMA FcnIsSeq ==
  ASSUME NEW n \in Nat, NEW S, NEW f \in [1..n -> S]
  PROVE  f \in Seq(S) /\ Len(f) = n
  <1>1. f \in Seq(S)
    BY SeqDef, Zenon
  <1>2. DOMAIN f = 1..n
    OBVIOUS
  <1> QED BY <1>1, <1>2, LenProperties

\* The k-th number after m.
LEMMA NthAfter ==
  ASSUME NEW m \in Nat, NEW n \in Nat, NEW k \in 1..(n - m)
  PROVE  Nth((m + 1)..n, k) = m + k
  <1> DEFINE I == (m + 1)..n
  <1>1. ASSUME NEW i \in I PROVE Cardinality({j \in I : j <= i}) = i - m
    <2>1. {j \in I : j <= i} = (m + 1)..i
      OBVIOUS
    <2>2. Cardinality((m + 1)..i) = i - m
      BY FS_Interval
    <2> QED BY <2>1, <2>2
  <1>2. m + k \in I
    OBVIOUS
  <1>3. \A i \in I : i - m = k <=> i = m + k
    OBVIOUS
  <1>4. Ranked(I, k) = {m + k}
    BY <1>1, <1>2, <1>3 DEF Ranked
  <1> QED BY <1>4 DEF Nth

\* What filter keeps of the positions after m is the rest of the array.
LEMMA KeptAfter ==
  ASSUME NEW S, NEW s \in Seq(S), NEW m \in 0..Len(s)
  PROVE  /\ Kept(s, (m + 1)..Len(s)) \in Seq(S)
         /\ Len(Kept(s, (m + 1)..Len(s))) = Len(s) - m
         /\ \A k \in 1..(Len(s) - m) : Kept(s, (m + 1)..Len(s))[k] = s[m + k]
  <1> DEFINE n == Len(s)
             f == Kept(s, (m + 1)..n)
  <1>1. n \in Nat /\ m \in Nat /\ n - m \in Nat /\ m <= n
    BY LenProperties
  <1>2. Cardinality((m + 1)..n) = n - m
    <2> HIDE DEF n
    <2>1. Cardinality((m + 1)..n) = IF m + 1 > n THEN 0 ELSE n - (m + 1) + 1
      BY <1>1, FS_Interval
    <2> QED BY <1>1, <2>1
  <1>3. f = [k \in 1..(n - m) |-> s[Nth((m + 1)..n, k)]]
    BY <1>2 DEF Kept
  <1> HIDE DEF n
  <1>4. \A k \in 1..(n - m) : Nth((m + 1)..n, k) = m + k
    BY <1>1, NthAfter
  <1>5. \A k \in 1..(n - m) : m + k \in 1..n
    BY <1>1
  <1>6. \A i \in 1..n : s[i] \in S
    BY ElementOfSeq DEF n
  <1> HIDE DEF f
  <1>7. \A k \in 1..(n - m) : f[k] = s[m + k] /\ f[k] \in S
    BY <1>3, <1>4, <1>5, <1>6
  <1>8. f \in [1..(n - m) -> S]
    BY <1>3, <1>7
  <1>9. f \in Seq(S) /\ Len(f) = n - m
    BY <1>1, <1>8, FcnIsSeq
  <1> QED BY <1>7, <1>9 DEF n, f

\* missedSince: the last events of the order, and exactly those after
\* Last-Event-ID when the buffer reaches back to it.
LEMMA MissedIsRecent ==
  ASSUME GapInv, NEW o \in Id, NEW last \in Nat
  PROVE  /\ Recent(missedSince(o, last), o)
         /\ (last <= counters[o] /\ counters[o] <= last + BUFFER_SIZE)
              => last = counters[o] - Len(missedSince(o, last))
  <1> DEFINE b == buffers[o]
             n == Len(b)
             base == counters[o] - n
             m == IF last <= base THEN 0 ELSE IF last - base < n THEN last - base ELSE n
             s == missedSince(o, last)
  <1>1. /\ b \in Seq(Event) /\ n \in Nat /\ counters[o] \in Nat /\ base \in Nat
        /\ n <= counters[o]
    <2>1. b \in Seq(Event) /\ n <= counters[o] /\ counters[o] \in Nat
      BY DEF GapInv, BufferInv, Recent, NumbersInv
    <2>2. n \in Nat
      BY <2>1, LenProperties
    <2> QED BY <2>1, <2>2
  <1>2. \A i \in 1..n : b[i] = [id |-> base + i, status |-> log[o][base + i]]
    BY DEF GapInv, BufferInv, Recent
  <1>3. n = IF counters[o] < BUFFER_SIZE THEN counters[o] ELSE BUFFER_SIZE
    BY DEF GapInv, BufferInv
  <1>4. m \in 0..n /\ n - m \in Nat
    BY <1>1
  <1>5. {i \in 1..n : b[i].id > last} = (m + 1)..n
    <2> HIDE DEF n, base, b
    <2>1. ASSUME NEW i \in 1..n PROVE b[i].id = base + i
      <3>1. b[i] = [id |-> base + i, status |-> log[o][base + i]]
        BY <1>2
      <3> QED BY <3>1
    <2>2. \A i \in 1..n : base + i > last <=> i \in (m + 1)..n
      BY <1>1
    <2>3. (m + 1)..n \subseteq 1..n
      BY <1>1, <1>4
    <2> HIDE DEF m
    <2> QED BY <2>1, <2>2, <2>3
  <1>6. s = Kept(b, (m + 1)..n)
    BY <1>5 DEF missedSince
  <1>7. /\ s \in Seq(Event) /\ Len(s) = n - m
        /\ \A k \in 1..(n - m) : s[k] = b[m + k]
    <2> HIDE DEF b, m, s
    <2> QED BY <1>1, <1>4, <1>6, KeptAfter DEF n
  <1>8. ASSUME NEW k \in 1..Len(s)
        PROVE  s[k] = [id |-> counters[o] - Len(s) + k,
                       status |-> log[o][counters[o] - Len(s) + k]]
    <2> HIDE DEF b, m, s
    <2>1. k \in 1..(n - m) /\ m + k \in 1..n
      BY <1>1, <1>4, <1>7 DEF n
    <2>2. s[k] = b[m + k]
      BY <1>7, <2>1
    <2>3. b[m + k] = [id |-> base + (m + k), status |-> log[o][base + (m + k)]]
      BY <1>2, <2>1
    <2>4. base + (m + k) = counters[o] - Len(s) + k
      BY <1>1, <1>4, <1>7, <2>1
    <2> QED BY <2>2, <2>3, <2>4
  <1>9. Recent(s, o)
    <2>1. Len(s) <= counters[o]
      BY <1>1, <1>4, <1>7
    <2> HIDE DEF s
    <2> QED BY <1>7, <1>8, <2>1 DEF Recent
  <1>10. ASSUME last <= counters[o], counters[o] <= last + BUFFER_SIZE
         PROVE  last = counters[o] - Len(s)
    <2> HIDE DEF b, s
    <2>1. Len(s) = n - m
      BY <1>7
    <2>2. base <= last
      BY <1>1, <1>3, <1>10, OrdersFeedAssumption
    <2>3. m = last - base
      BY <1>1, <1>10, <2>2
    <2> QED BY <1>1, <2>1, <2>3
  <1> QED BY <1>9, <1>10

\* One more event at the end of what holds the last ones.
LEMMA AppendIsRecent ==
  ASSUME NumbersInv, NEW o \in Id, NEW st \in OrderStatus, NEW s, Recent(s, o),
         Len(log[o]) = counters[o],
         counters'[o] = counters[o] + 1, log'[o] = Append(log[o], st)
  PROVE  /\ Append(s, NewEvent(o, st)) \in Seq(Event)
         /\ Len(Append(s, NewEvent(o, st))) = Len(s) + 1
         /\ \A i \in 1..(Len(s) + 1) :
              Append(s, NewEvent(o, st))[i] =
                [id |-> counters'[o] - (Len(s) + 1) + i,
                 status |-> log'[o][counters'[o] - (Len(s) + 1) + i]]
  <1> DEFINE e == NewEvent(o, st)
             t == Append(s, e)
             n == Len(s)
             base == counters[o] - n
  <1>1. /\ counters[o] \in Nat /\ log[o] \in Seq(OrderStatus) /\ s \in Seq(Event)
        /\ n <= counters[o]
    BY DEF NumbersInv, Recent
  <1>2. n \in Nat /\ base \in Nat
    BY <1>1, LenProperties
  <1>3. e = [id |-> counters[o] + 1, status |-> st] /\ e \in Event
    BY <1>1 DEF NewEvent, Event
  <1>4. /\ t \in Seq(Event) /\ Len(t) = n + 1 /\ t[n + 1] = e
        /\ \A i \in 1..n : t[i] = s[i]
    <2> HIDE DEF e
    <2> QED BY <1>1, <1>3, AppendProperties
  <1>5. /\ \A j \in 1..counters[o] : log'[o][j] = log[o][j]
        /\ log'[o][counters[o] + 1] = st
    BY <1>1, AppendProperties
  <1>6. \A i \in 1..n : s[i] = [id |-> base + i, status |-> log[o][base + i]]
    BY DEF Recent
  <1>7. counters'[o] - (n + 1) = base
    BY <1>1, <1>2
  <1> HIDE DEF t, e, n, base
  <1>8. ASSUME NEW i \in 1..(n + 1)
        PROVE  t[i] = [id |-> base + i, status |-> log'[o][base + i]]
    <2>1. CASE i = n + 1
      <3>1. base + i = counters[o] + 1
        BY <1>1, <1>2, <2>1 DEF base
      <3> QED BY <1>3, <1>4, <1>5, <2>1, <3>1
    <2>2. CASE i # n + 1
      <3>1. i \in 1..n
        BY <1>2, <2>2
      <3>2. base + i \in 1..counters[o]
        BY <1>1, <1>2, <3>1 DEF base
      <3> QED BY <1>4, <1>5, <1>6, <3>1, <3>2
    <2> QED BY <2>1, <2>2
  <1> QED BY <1>4, <1>7, <1>8 DEF t, e, n, base

\* At the start there are no events.
LEMMA GapInit == FeedInit => GapInv
  <1> SUFFICES ASSUME FeedInit PROVE GapInv
    OBVIOUS
  <1>1. NumbersInv
    BY DEF FeedInit, NumbersInv
  <1>2. ASSUME NEW o \in Id PROVE BufferInv(o)
    <2>1. counters[o] = 0 /\ buffers[o] = <<>> /\ log[o] = <<>>
      BY DEF FeedInit
    <2> QED BY <2>1, OrdersFeedAssumption DEF BufferInv, Recent
  <1>3. ASSUME NEW c \in EventSource PROVE StreamInv(c)
    BY OrdersFeedAssumption DEF FeedInit, StreamInv
  <1> QED BY <1>1, <1>2, <1>3 DEF GapInv

\* Steps that leave events and streams alone.
LEMMA GapFrame ==
  ASSUME GapInv, UNCHANGED <<events, streams>>
  PROVE  GapInv'
  BY DEF GapInv, NumbersInv, BufferInv, StreamInv, Recent, events, streams

\* emitStatusChange: the event goes to the end of the buffer, whose first one
\* goes when it is full, and to the end of every stream of the order.
LEMMA GapUpdate ==
  ASSUME IInv, GapInv, NEW u \in User, NEW o \in Id, NEW st \in OrderStatus,
         updateStatus(u, o, st)
  PROVE  GapInv'
  <1> PICK e : e = NewEvent(o, st)
    OBVIOUS
  <1>1. NumbersInv /\ (\A x \in Id : BufferInv(x)) /\ \A c \in EventSource : StreamInv(c)
    BY DEF GapInv
  <1>2. /\ counters' = [counters EXCEPT ![o] = @ + 1]
        /\ buffers' = [buffers EXCEPT ![o] = Push(@, e)]
        /\ log' = [log EXCEPT ![o] = Append(@, st)]
        /\ wire' = [c \in EventSource |->
             IF c \in stream /\ watch[c] = o THEN Append(wire[c], e) ELSE wire[c]]
        /\ UNCHANGED <<watch, stream, lastId, current, behind>>
    BY DEF updateStatus
  <1>3. /\ counters[o] \in Nat /\ counters'[o] = counters[o] + 1
        /\ log'[o] = Append(log[o], st) /\ log[o] \in Seq(OrderStatus)
        /\ Len(log[o]) = counters[o] /\ buffers'[o] = Push(buffers[o], e)
    BY <1>1, <1>2 DEF NumbersInv, BufferInv
  <1>4. ASSUME NEW x \in Id, x # o
        PROVE  counters'[x] = counters[x] /\ log'[x] = log[x] /\ buffers'[x] = buffers[x]
    BY <1>1, <1>2, <1>4 DEF NumbersInv
  <1>5. ASSUME NEW s, Recent(s, o)
        PROVE  /\ Append(s, e) \in Seq(Event) /\ Len(Append(s, e)) = Len(s) + 1
               /\ \A i \in 1..(Len(s) + 1) :
                    Append(s, e)[i] =
                      [id |-> counters'[o] - (Len(s) + 1) + i,
                       status |-> log'[o][counters'[o] - (Len(s) + 1) + i]]
    BY <1>1, <1>3, <1>5, AppendIsRecent
  <1>6. ASSUME NEW s, Recent(s, o)
        PROVE  Recent(Append(s, e), o)'
    <2>1. Len(s) <= counters[o] /\ Len(s) \in Nat
      BY <1>6, LenProperties DEF Recent
    <2>2. Len(s) + 1 <= counters'[o]
      BY <1>3, <2>1
    <2> QED BY <1>5, <1>6, <2>2 DEF Recent
  <1>7. ASSUME NEW s, Recent(s, o), s # <<>>
        PROVE  /\ Recent(Tail(Append(s, e)), o)' /\ Len(Tail(Append(s, e))) = Len(s)
    <2> DEFINE t == Append(s, e)
               r == Tail(t)
               n == Len(s)
    <2>1. n \in Nat /\ n <= counters[o]
      BY <1>7, LenProperties DEF Recent
    <2>2. t \in Seq(Event) /\ Len(t) = n + 1 /\ t # <<>>
      <3>1. t \in Seq(Event) /\ Len(t) = n + 1
        BY <1>5, <1>7
      <3> QED BY <2>1, <3>1, EmptySeq
    <2>3. r \in Seq(Event) /\ Len(r) = n /\ \A i \in 1..n : r[i] = t[i + 1]
      <3> HIDE DEF t, n
      <3> QED BY <2>1, <2>2, HeadTailProperties
    <2>4. ASSUME NEW i \in 1..n
          PROVE  r[i] = [id |-> counters'[o] - n + i,
                         status |-> log'[o][counters'[o] - n + i]]
      <3>1. /\ i + 1 \in 1..(n + 1)
            /\ counters'[o] - (n + 1) + (i + 1) = counters'[o] - n + i
        <4> HIDE DEF n
        <4>1. i + 1 \in 1..(n + 1)
          BY <2>1
        <4>2. \A x \in Nat : x - (n + 1) + (i + 1) = x - n + i
          BY <2>1
        <4>3. counters'[o] \in Nat
          BY <1>3
        <4> QED BY <4>1, <4>2, <4>3
      <3>2. t[i + 1] = [id |-> counters'[o] - (n + 1) + (i + 1),
                        status |-> log'[o][counters'[o] - (n + 1) + (i + 1)]]
        BY <1>5, <1>7, <3>1
      <3>3. r[i] = t[i + 1]
        BY <2>3
      <3> HIDE DEF r, t, n
      <3> QED BY <3>1, <3>2, <3>3
    <2>5. n <= counters'[o]
      BY <1>3, <2>1
    <2>6. Recent(r, o)'
      BY <2>3, <2>4, <2>5 DEF Recent
    <2> QED BY <2>3, <2>6
  <1>8. ASSUME NEW x \in Id, x # o, NEW s, Recent(s, x) PROVE Recent(s, x)'
    BY <1>4, <1>8 DEF Recent
  <1>9. BufferInv(o)' /\ buffers'[o] \in Seq(Event)
    <2>1. PICK b : b = buffers[o]
      OBVIOUS
    <2>2. /\ Recent(b, o)
          /\ Len(b) = IF counters[o] < BUFFER_SIZE THEN counters[o] ELSE BUFFER_SIZE
      BY <1>1, <2>1 DEF BufferInv
    <2>3. Len(log'[o]) = counters'[o]
      BY <1>3, AppendProperties
    <2>4. Len(b) \in Nat /\ Len(Append(b, e)) = Len(b) + 1
      BY <1>5, <2>2, LenProperties DEF Recent
    <2>5. CASE Len(b) + 1 > BUFFER_SIZE
      <3>1. buffers'[o] = Tail(Append(b, e))
        BY <1>3, <2>1, <2>4, <2>5 DEF Push
      <3>2. b # <<>>
        BY <2>4, <2>5, EmptySeq, OrdersFeedAssumption
      <3>3. Recent(Tail(Append(b, e)), o)' /\ Len(Tail(Append(b, e))) = Len(b)
        BY <1>7, <2>2, <3>2
      <3>4. Len(buffers'[o]) =
              IF counters'[o] < BUFFER_SIZE THEN counters'[o] ELSE BUFFER_SIZE
        BY <1>3, <2>2, <2>4, <2>5, <3>1, <3>3, OrdersFeedAssumption
      <3>5. Recent(buffers[o], o)' /\ buffers'[o] \in Seq(Event)
        BY <3>1, <3>3 DEF Recent
      <3> QED BY <2>3, <3>4, <3>5 DEF BufferInv
    <2>6. CASE ~ (Len(b) + 1 > BUFFER_SIZE)
      <3>1. buffers'[o] = Append(b, e)
        BY <1>3, <2>1, <2>4, <2>6 DEF Push
      <3>2. Recent(Append(b, e), o)'
        BY <1>6, <2>2
      <3>3. Len(buffers'[o]) =
              IF counters'[o] < BUFFER_SIZE THEN counters'[o] ELSE BUFFER_SIZE
        BY <1>3, <2>2, <2>4, <2>6, <3>1, OrdersFeedAssumption
      <3>4. Recent(buffers[o], o)' /\ buffers'[o] \in Seq(Event)
        BY <3>1, <3>2 DEF Recent
      <3> QED BY <2>3, <3>3, <3>4 DEF BufferInv
    <2> QED BY <2>5, <2>6
  <1>10. ASSUME NEW x \in Id, x # o PROVE BufferInv(x)'
    <2>1. PICK b : b = buffers[x]
      OBVIOUS
    <2>2. Recent(b, x)'
      BY <1>1, <1>8, <1>10, <2>1 DEF BufferInv
    <2> QED BY <1>1, <1>4, <1>10, <2>1, <2>2 DEF BufferInv
  <1>11. ASSUME NEW c \in EventSource
         PROVE  StreamInv(c)' /\ wire'[c] \in Seq(Event)
    <2>1. PICK w : w = wire[c] /\ w \in Seq(Event)
      BY <1>1 DEF NumbersInv
    <2>2. StreamInv(c) /\ lastId[c] \in Nat /\ \A x \in Id : counters[x] \in Nat
      BY <1>1 DEF NumbersInv
    <2>3. CASE c \in stream /\ watch[c] = o
      <3>1. wire'[c] = Append(w, e) /\ Recent(w, o)
        BY <1>2, <2>1, <2>2, <2>3 DEF StreamInv
      <3>2. Recent(Append(w, e), o)' /\ Len(Append(w, e)) = Len(w) + 1 /\ Len(w) \in Nat
        BY <1>5, <1>6, <2>1, <3>1, LenProperties
      <3>3. Recent(wire[c], watch[c])' /\ wire'[c] \in Seq(Event)
        BY <1>2, <2>3, <3>1, <3>2 DEF Recent
      <3>4. c \notin behind => lastId[c] = counters'[o] - Len(wire'[c])
        BY <1>3, <2>1, <2>2, <2>3, <3>1, <3>2 DEF StreamInv
      <3>5. c \in current /\ watch[c] # Absent => lastId[c] <= counters'[o]
        BY <1>3, <2>2, <2>3 DEF StreamInv
      <3>6. watch[c] # Absent
        BY <2>3, OrdersFeedAssumption
      <3> QED BY <1>2, <2>3, <3>3, <3>4, <3>5, <3>6 DEF StreamInv
    <2>4. CASE c \in stream /\ watch[c] # o
      <3>1. watch[c] \in Id /\ wire'[c] = w
        BY <1>2, <2>1, <2>4 DEF IInv
      <3>2. PICK x \in Id : x = watch[c]
        BY <3>1
      <3>3. Recent(w, x)'
        BY <1>8, <2>1, <2>2, <2>4, <3>2 DEF StreamInv
      <3>4. Recent(wire[c], watch[c])'
        BY <1>2, <3>1, <3>2, <3>3
      <3>5. counters'[x] = counters[x]
        BY <1>4, <2>4, <3>2
      <3> QED BY <1>2, <2>1, <2>2, <2>4, <3>1, <3>2, <3>4, <3>5 DEF StreamInv
    <2>5. CASE c \notin stream
      <3>1. wire'[c] = w
        BY <1>2, <2>1, <2>5
      <3>2. watch[c] # Absent => watch[c] \in Id
        BY DEF IInv, TypeOK
      <3>3. \A x \in Id : counters[x] <= counters'[x] /\ counters'[x] \in Nat
        BY <1>3, <1>4, <2>2
      <3>4. c \in current /\ watch[c] # Absent => lastId[c] <= counters'[watch[c]]
        BY <2>2, <3>2, <3>3 DEF StreamInv
      <3> QED BY <1>2, <2>1, <2>2, <2>5, <3>1, <3>4 DEF StreamInv
    <2> QED BY <2>3, <2>4, <2>5
  <1>12. NumbersInv'
    <2>1. counters' \in [Id -> Nat]
      BY <1>1, <1>2 DEF NumbersInv
    <2>2. log' \in [Id -> Seq(OrderStatus)]
      <3>1. Append(log[o], st) \in Seq(OrderStatus)
        BY <1>3, AppendProperties
      <3> QED BY <1>1, <1>2, <3>1 DEF NumbersInv
    <2>3. buffers' \in [Id -> Seq(Event)]
      <3>1. Push(buffers[o], e) \in Seq(Event)
        BY <1>3, <1>9
      <3> QED BY <1>1, <1>2, <3>1 DEF NumbersInv
    <2>4. wire' \in [EventSource -> Seq(Event)]
      BY <1>2, <1>11
    <2> QED BY <1>1, <1>2, <2>1, <2>2, <2>3, <2>4 DEF NumbersInv
  <1> QED BY <1>9, <1>10, <1>11, <1>12 DEF GapInv

\* openStream: what was missed is written, and nothing that was not.
LEMMA GapOpen ==
  ASSUME IInv, GapInv, NEW c \in EventSource, NEW u \in User, NEW o \in Id,
         openStream(c, u, o)
  PROVE  GapInv'
  <1>1. NumbersInv /\ (\A x \in Id : BufferInv(x)) /\ \A d \in EventSource : StreamInv(d)
    BY DEF GapInv
  <1>2. /\ watch' = [watch EXCEPT ![c] = o] /\ stream' = stream \cup {c}
        /\ behind' = IF c \in current /\ counters[o] <= lastId[c] + BUFFER_SIZE
                     THEN behind \ {c} ELSE behind \cup {c}
        /\ UNCHANGED <<counters, buffers, log, lastId, current>>
        /\ watch[c] \in {Absent, o}
    BY DEF openStream, events
  <1>3. PICK s : s = missedSince(o, lastId[c])
    OBVIOUS
  <1>4. wire' = [wire EXCEPT ![c] = s]
    BY <1>3 DEF openStream
  <1>5. /\ lastId[c] \in Nat /\ counters[o] \in Nat /\ watch'[c] = o /\ wire'[c] = s
    BY <1>1, <1>2, <1>4 DEF NumbersInv, IInv, TypeOK
  <1>6. /\ Recent(s, o)
        /\ (lastId[c] <= counters[o] /\ counters[o] <= lastId[c] + BUFFER_SIZE)
             => lastId[c] = counters[o] - Len(s)
    BY <1>3, <1>5, MissedIsRecent
  <1>7. c \in current => lastId[c] <= counters[o]
    BY <1>1, <1>2, <1>5 DEF StreamInv
  <1>8. NumbersInv'
    BY <1>1, <1>2, <1>4, <1>6 DEF NumbersInv, Recent
  <1>9. ASSUME NEW x \in Id PROVE BufferInv(x)'
    BY <1>1, <1>2 DEF BufferInv, Recent
  <1>10. StreamInv(c)'
    <2>1. Recent(wire[c], watch[c])'
      BY <1>2, <1>5, <1>6 DEF Recent
    <2>2. c \notin behind' => lastId[c] = counters[o] - Len(s)
      BY <1>2, <1>6, <1>7
    <2> QED BY <1>2, <1>5, <1>7, <2>1, <2>2, OrdersFeedAssumption DEF StreamInv
  <1>11. ASSUME NEW d \in EventSource, d # c PROVE StreamInv(d)'
    <2>1. watch'[d] = watch[d] /\ wire'[d] = wire[d]
      BY <1>1, <1>2, <1>4, <1>11 DEF NumbersInv, IInv, TypeOK
    <2>2. d \in behind' <=> d \in behind
      BY <1>2, <1>11
    <2>3. d \in stream' <=> d \in stream
      BY <1>2, <1>11
    <2>4. Recent(wire[d], watch[d])' <=> Recent(wire[d], watch[d])
      BY <1>2, <2>1 DEF Recent
    <2> QED BY <1>1, <1>2, <2>1, <2>2, <2>3, <2>4 DEF StreamInv
  <1> QED BY <1>8, <1>9, <1>10, <1>11 DEF GapInv

\* The client reads the first event of what its connection holds.
LEMMA GapReceive ==
  ASSUME IInv, GapInv, NEW c \in EventSource, Receive(c)
  PROVE  GapInv'
  <1>1. NumbersInv /\ (\A x \in Id : BufferInv(x)) /\ \A d \in EventSource : StreamInv(d)
    BY DEF GapInv
  <1>2. PICK w, o : w = wire[c] /\ o = watch[c]
    OBVIOUS
  <1>3. /\ w # <<>> /\ lastId' = [lastId EXCEPT ![c] = Head(w).id]
        /\ wire' = [wire EXCEPT ![c] = Tail(w)] /\ current' = current \cup {c}
        /\ UNCHANGED <<counters, buffers, log, watch, stream, behind>>
    BY <1>2 DEF Receive, events
  <1>4. c \in stream /\ o \in Id /\ o # Absent /\ Recent(w, o)
    BY <1>1, <1>2, <1>3, OrdersFeedAssumption DEF StreamInv, IInv
  <1>5. w \in Seq(Event) /\ Len(w) \in Nat /\ Len(w) <= counters[o] /\ counters[o] \in Nat
    BY <1>1, <1>4, LenProperties DEF Recent, NumbersInv
  <1>6. /\ Tail(w) \in Seq(Event) /\ Len(Tail(w)) = Len(w) - 1
        /\ \A i \in 1..Len(Tail(w)) : Tail(w)[i] = w[i + 1]
    BY <1>3, <1>5, HeadTailProperties
  <1>7. Len(w) # 0
    BY <1>3, <1>5
  <1>8. Head(w).id = counters[o] - Len(Tail(w)) /\ Head(w).id \in Nat
    <2>1. Head(w) = w[1]
      BY <1>3, <1>5
    <2>2. w[1] = [id |-> counters[o] - Len(w) + 1,
                  status |-> log[o][counters[o] - Len(w) + 1]]
      <3>1. 1 \in 1..Len(w)
        BY <1>5, <1>7
      <3> QED BY <1>4, <3>1 DEF Recent
    <2>3. Head(w).id = counters[o] - Len(w) + 1
      BY <2>1, <2>2
    <2> QED BY <1>5, <1>6, <1>7, <2>3
  <1>9. Recent(Tail(w), o)
    <2>1. Len(Tail(w)) <= counters[o]
      BY <1>5, <1>6
    <2>2. ASSUME NEW i \in 1..Len(Tail(w))
          PROVE  Tail(w)[i] = [id |-> counters[o] - Len(Tail(w)) + i,
                               status |-> log[o][counters[o] - Len(Tail(w)) + i]]
      <3>1. i + 1 \in 1..Len(w)
        BY <1>5, <1>6, <1>7
      <3>2. w[i + 1] = [id |-> counters[o] - Len(w) + (i + 1),
                        status |-> log[o][counters[o] - Len(w) + (i + 1)]]
        BY <1>4, <3>1 DEF Recent
      <3>3. counters[o] - Len(w) + (i + 1) = counters[o] - Len(Tail(w)) + i
        BY <1>5, <1>6, <1>7
      <3>4. Tail(w)[i] = w[i + 1]
        BY <1>6
      <3> QED BY <3>2, <3>3, <3>4
    <2> QED BY <1>6, <2>1, <2>2 DEF Recent
  <1>10. NumbersInv'
    BY <1>1, <1>3, <1>6, <1>8 DEF NumbersInv
  <1>11. ASSUME NEW x \in Id PROVE BufferInv(x)'
    BY <1>1, <1>3 DEF BufferInv, Recent
  <1>12. StreamInv(c)'
    <2>1. wire'[c] = Tail(w) /\ lastId'[c] = Head(w).id
      BY <1>1, <1>3 DEF NumbersInv
    <2>2. Recent(wire[c], watch[c])'
      BY <1>2, <1>3, <1>9, <2>1 DEF Recent
    <2>3. Head(w).id <= counters[o]
      BY <1>5, <1>6, <1>7, <1>8
    <2> QED BY <1>2, <1>3, <1>4, <1>8, <2>1, <2>2, <2>3 DEF StreamInv
  <1>13. ASSUME NEW d \in EventSource, d # c PROVE StreamInv(d)'
    <2>1. wire'[d] = wire[d] /\ lastId'[d] = lastId[d]
      BY <1>1, <1>3, <1>13 DEF NumbersInv
    <2>2. d \in current' <=> d \in current
      BY <1>3, <1>13
    <2>3. Recent(wire[d], watch[d])' <=> Recent(wire[d], watch[d])
      BY <1>3, <2>1 DEF Recent
    <2> QED BY <1>1, <1>3, <2>1, <2>2, <2>3 DEF StreamInv
  <1> QED BY <1>10, <1>11, <1>12, <1>13 DEF GapInv

\* What was written and not read is lost with the connection; the Last-Event-ID
\* is not.
LEMMA GapClose ==
  ASSUME GapInv, NEW c \in EventSource, close(c)
  PROVE  GapInv'
  <1>1. NumbersInv /\ (\A x \in Id : BufferInv(x)) /\ \A d \in EventSource : StreamInv(d)
    BY DEF GapInv
  <1>2. /\ stream' = stream \ {c} /\ wire' = [wire EXCEPT ![c] = <<>>]
        /\ UNCHANGED <<counters, buffers, log, watch, lastId, current, behind>>
    BY DEF close, events
  <1>3. NumbersInv'
    BY <1>1, <1>2 DEF NumbersInv
  <1>4. ASSUME NEW x \in Id PROVE BufferInv(x)'
    BY <1>1, <1>2 DEF BufferInv, Recent
  <1>5. StreamInv(c)'
    BY <1>1, <1>2 DEF StreamInv, NumbersInv
  <1>6. ASSUME NEW d \in EventSource, d # c PROVE StreamInv(d)'
    <2>1. wire'[d] = wire[d] /\ (d \in stream' <=> d \in stream)
      BY <1>1, <1>2, <1>6 DEF NumbersInv
    <2> QED BY <1>1, <1>2, <2>1 DEF StreamInv, Recent
  <1> QED BY <1>3, <1>4, <1>5, <1>6 DEF GapInv

\* A restart begins again at event 1; only a Last-Event-ID of 0 is still true.
LEMMA GapRestart ==
  ASSUME IInv, GapInv, Restart
  PROVE  GapInv'
  <1>1. /\ counters' = [i \in Id |-> 0] /\ buffers' = [i \in Id |-> <<>>]
        /\ log' = [i \in Id |-> <<>>]
        /\ stream' = {} /\ wire' = [c \in EventSource |-> <<>>]
        /\ current' = {c \in EventSource : lastId[c] = 0}
        /\ UNCHANGED <<watch, lastId, behind>>
    BY DEF Restart
  <1>2. lastId \in [EventSource -> Nat] /\ watch \in [EventSource -> Id \cup {Absent}]
    BY DEF GapInv, NumbersInv, IInv, TypeOK
  <1>3. NumbersInv'
    BY <1>1, <1>2 DEF NumbersInv
  <1>4. ASSUME NEW o \in Id PROVE BufferInv(o)'
    <2>1. counters'[o] = 0 /\ buffers'[o] = <<>> /\ log'[o] = <<>>
      BY <1>1
    <2> QED BY <2>1, OrdersFeedAssumption DEF BufferInv, Recent
  <1>5. ASSUME NEW c \in EventSource PROVE StreamInv(c)'
    BY <1>1, <1>2, <1>5 DEF StreamInv
  <1> QED BY <1>3, <1>4, <1>5 DEF GapInv

\* order-events.service.ts: buffers, connections and Last-Event-IDs fit together
\* in every reachable state.
THEOREM FeedGapInvariant == FeedSpec => []GapInv
  <1>1. IInv /\ GapInv /\ [FeedNext]_feedVars => GapInv'
    <2> SUFFICES ASSUME IInv, GapInv, [FeedNext]_feedVars PROVE GapInv'
      OBVIOUS
    <2>1. CASE \E u \in User : createOrder(u)
      BY <2>1, GapFrame DEF createOrder
    <2>2. CASE \E u \in User, o \in Id, st \in OrderStatus : updateStatus(u, o, st)
      BY <2>2, GapUpdate
    <2>3. CASE \E c \in EventSource :
                 \/ \E u \in User, o \in Id : openStream(c, u, o)
                 \/ Receive(c) \/ close(c)
      BY <2>3, GapOpen, GapReceive, GapClose
    <2>4. CASE \E s \in Socket :
                 \/ handleConnection(s) \/ disconnect(s)
                 \/ \E u \in User \cup {Anonymous} : Authenticated(s, u)
                 \/ \E o \in Id : join(s, o) \/ joined(s, o)
      <3>1. UNCHANGED <<events, streams>>
        BY <2>4 DEF handleConnection, disconnect, Authenticated, join, joined
      <3> QED BY <3>1, GapFrame
    <2>5. CASE Restart
      BY <2>5, GapRestart
    <2>6. CASE UNCHANGED feedVars
      BY <2>6, GapFrame DEF feedVars
    <2> QED BY <2>1, <2>2, <2>3, <2>4, <2>5, <2>6 DEF FeedNext
  <1> QED BY <1>1, FeedInvariant, GapInit, PTL DEF FeedSpec

\* GET /orders/:id/events: a stream that resumes within the buffer brings every
\* event after Last-Event-ID once, in order and with its status, for every size
\* of the buffer, however often it breaks.
THEOREM FeedStreamHasNoGap == FeedSpec => []StreamHasNoGap
  <1>1. IInv /\ GapInv => StreamHasNoGap
    <2> SUFFICES ASSUME IInv, GapInv, NEW c \in stream
                 PROVE  LET o == watch[c]
                            before == counters[o] - Len(wire[c])
                        IN  /\ c \notin behind => lastId[c] = before
                            /\ \A i \in 1..Len(wire[c]) :
                                 wire[c][i] = [id |-> before + i,
                                               status |-> log[o][before + i]]
      BY DEF StreamHasNoGap
    <2>1. StreamInv(c) /\ Recent(wire[c], watch[c])
      BY DEF GapInv, StreamInv, IInv, TypeOK
    <2> QED BY <2>1 DEF StreamInv, Recent
  <1> QED BY <1>1, FeedInvariant, FeedGapInvariant, PTL
=============================================================================
