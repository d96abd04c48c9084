------------------------------ MODULE Delivery ------------------------------
(***************************************************************************)
(* An event's way from the outbox table to its effect: the relay           *)
(* (src/outbox/relay.ts), its publisher (src/messaging/publisher.ts), the  *)
(* broker topology (src/messaging/topology.ts) and the consumer with its   *)
(* inbox (src/messaging/consumer.ts).                                      *)
(*                                                                         *)
(* Events are numbered in created_at order, the order of the relay's       *)
(* SELECT; their rows may be committed in any order. A published message   *)
(* is a copy of its event: publishing again makes another copy with the    *)
(* same messageId. Failures (lost frames, dead connections and processes,  *)
(* database errors) draw on a budget of MaxFaults.                         *)
(***************************************************************************)
EXTENDS Integers, FiniteSets

CONSTANTS
  Event,            \* events, as outbox rows in created_at order
  Poison,           \* the content of a message that does not parse
  Copy,             \* message copies the broker may hold
  Relay, Consumer,  \* processes
  None,
  BatchSize,        \* LIMIT of the relay's SELECT
  Prefetch,         \* unacked messages per consumer
  DeliveryLimit,    \* x-delivery-limit
  MaxFaults

VARIABLES
  outbox,           \* committed rows of outbox
  published,        \* rows with published_at set
  conn,             \* conn[r]: the relay's connection, "dead" with its process
  rpc,              \* rpc[r]: where relayOnce is
  batch,            \* batch[r]: the rows r has locked
  done,             \* done[r]: the rows of the batch that were confirmed
  taken,            \* taken[r]: the broker took the message r waits for
  topology,         \* how far assertTopology has got
  event, place, returns, owner,     \* the broker's copies
  status,           \* status[c]: the consumer process and its channel
  asserted,         \* asserted[c]: its own progress in assertTopology
  handler,          \* handler[<<c, m>>]: c's handle() of copy m
  processed,        \* processed_messages, by event id
  receipts,         \* order_receipts, by order id
  faults

outboxVars == <<outbox, published>>
relayVars == <<conn, rpc, batch, done, taken>>
brokerVars == <<topology, event, place, returns, owner>>
consumerVars == <<status, asserted, handler>>
inboxVars == <<processed, receipts>>
vars == <<outboxVars, relayVars, brokerVars, consumerVars, inboxVars, faults>>

\* events.ts: the id of an event is a hash of its type and of the order it is
\* about, the same for every publication; hashes do not collide.
eventIdFor(type, businessKey) == <<type, businessKey>>

\* The payload checkout puts into the row of an order, and every copy has.
toOrderPlacedEvent(order) ==
  [eventId |-> eventIdFor("order.placed", order), type |-> "order.placed", orderId |-> order]

\* What the consumer parses; anything else is poison.
OrderPlacedSchema ==
  [eventId : {"order.placed"} \X Event, type : {"order.placed"}, orderId : Event]

ASSUME DeliveryAssumption ==
  /\ Event \subseteq Nat /\ {Poison, None} \cap OrderPlacedSchema = {}
  /\ None \notin Consumer \cup {Poison}
  /\ BatchSize \in Nat \ {0} /\ Prefetch \in Nat \ {0}
  /\ DeliveryLimit \in Nat /\ MaxFaults \in Nat

\* assertTopology declares: 1 the alternate exchange and its queue, 2 the
\* exchange, 3 the dead-letter and work queues, 4 the work queue's binding.
ExchangeDeclared == 2
Bound == 4

Places == {"unused", "work", "unacked", "acked", "dlq", "unroutable"}

TypeOK ==
  /\ outbox \subseteq Event /\ published \subseteq outbox
  /\ conn \in [Relay -> {"open", "cut", "dead"}]
  /\ rpc \in [Relay -> {"idle", "publish", "confirm", "mark"}]
  /\ batch \in [Relay -> SUBSET Event]
  /\ done \in [Relay -> SUBSET Event]
  /\ taken \in [Relay -> BOOLEAN]
  /\ topology \in 0..Bound
  /\ event \in [Copy -> OrderPlacedSchema \cup {Poison, None}]
  /\ place \in [Copy -> Places]
  /\ returns \in [Copy -> 0..DeliveryLimit + 1]
  /\ owner \in [Copy -> Consumer \cup {None}]
  /\ status \in [Consumer -> {"down", "up", "cut"}]
  /\ asserted \in [Consumer -> 0..Bound]
  /\ handler \in [Consumer \X Copy -> {"idle", "received", "claimed", "applied"}]
  /\ processed \subseteq {"order.placed"} \X Event /\ receipts \subseteq Event
  /\ faults \in 0..MaxFaults

\* The relay runs; the broker is fresh and no consumer has started.
Init ==
  /\ outbox = {} /\ published = {}
  /\ conn = [r \in Relay |-> "open"]
  /\ rpc = [r \in Relay |-> "idle"]
  /\ batch = [r \in Relay |-> {}]
  /\ done = [r \in Relay |-> {}]
  /\ taken = [r \in Relay |-> FALSE]
  /\ topology = 0
  /\ event = [m \in Copy |-> None]
  /\ place = [m \in Copy |-> "unused"]
  /\ returns = [m \in Copy |-> 0]
  /\ owner = [m \in Copy |-> None]
  /\ status = [c \in Consumer |-> "down"]
  /\ asserted = [c \in Consumer |-> 0]
  /\ handler = [h \in Consumer \X Copy |-> "idle"]
  /\ processed = {} /\ receipts = {}
  /\ faults = 0

Fault == faults < MaxFaults /\ faults' = faults + 1

-----------------------------------------------------------------------------
(* The outbox and the relay *)

\* COMMIT of a checkout (Checkout.tla) makes its outbox row visible.
CommitRow(e) ==
  /\ e \notin outbox
  /\ outbox' = outbox \cup {e}
  /\ UNCHANGED <<published, relayVars, brokerVars, consumerVars, inboxVars, faults>>

Locked == UNION {batch[r] : r \in Relay}

\* The n oldest rows of S.
Oldest(S, n) == {e \in S : Cardinality({d \in S : d < e}) < n}

\* Mutant: a SELECT without published_at IS NULL.
ClaimMarked(r) ==
  /\ rpc[r] = "idle" /\ conn[r] # "dead"
  /\ LET free == outbox \ Locked IN
       /\ free # {}
       /\ batch' = [batch EXCEPT ![r] = Oldest(free, BatchSize)]
  /\ rpc' = [rpc EXCEPT ![r] = "publish"]
  /\ UNCHANGED <<outboxVars, conn, done, taken, brokerVars, consumerVars, inboxVars,
                 faults>>

\* BEGIN; SELECT ... FOR UPDATE SKIP LOCKED.
ClaimBatch(r) ==
  /\ rpc[r] = "idle" /\ conn[r] # "dead"
  /\ LET free == (outbox \ published) \ Locked IN
       /\ free # {}
       /\ batch' = [batch EXCEPT ![r] = Oldest(free, BatchSize)]
  /\ rpc' = [rpc EXCEPT ![r] = "publish"]
  /\ UNCHANGED <<outboxVars, conn, done, taken, brokerVars, consumerVars, inboxVars,
                 faults>>

\* The row the publish loop is at.
Current(r) == CHOOSE e \in batch[r] \ done[r] : \A d \in batch[r] \ done[r] : e <= d

\* The exchange routes to the work queue or, unbound, to the alternate
\* exchange. Without an exchange the broker closes the channel instead.
Route == IF topology = Bound THEN "work" ELSE "unroutable"

Enqueue(m, content) ==
  /\ place[m] = "unused"
  /\ event' = [event EXCEPT ![m] = content]
  /\ place' = [place EXCEPT ![m] = Route]
  /\ UNCHANGED <<topology, returns, owner>>

\* ch.publish: the broker takes the message.
Publish(r) ==
  /\ rpc[r] = "publish" /\ conn[r] = "open"
  /\ topology >= ExchangeDeclared
  /\ \E m \in Copy : Enqueue(m, toOrderPlacedEvent(Current(r)))
  /\ taken' = [taken EXCEPT ![r] = TRUE]
  /\ rpc' = [rpc EXCEPT ![r] = "confirm"]
  /\ UNCHANGED <<outboxVars, conn, batch, done, consumerVars, inboxVars, faults>>

\* The message is lost on the way, and with it the connection.
PublishLost(r) ==
  /\ rpc[r] = "publish" /\ conn[r] = "open"
  /\ Fault
  /\ conn' = [conn EXCEPT ![r] = "cut"]
  /\ taken' = [taken EXCEPT ![r] = FALSE]
  /\ rpc' = [rpc EXCEPT ![r] = "confirm"]
  /\ UNCHANGED <<outboxVars, batch, done, brokerVars, consumerVars, inboxVars>>

\* waitForConfirms resolves. A message that went to the alternate exchange
\* was routed: no basic.return precedes its confirm, nothing is thrown.
Confirm(r) ==
  /\ rpc[r] = "confirm" /\ taken[r]
  /\ done' = [done EXCEPT ![r] = @ \cup {Current(r)}]
  /\ taken' = [taken EXCEPT ![r] = FALSE]
  /\ rpc' = [rpc EXCEPT ![r] = IF batch[r] \ (done[r] \cup {Current(r)}) = {}
                                 THEN "mark" ELSE "publish"]
  /\ UNCHANGED <<outboxVars, conn, batch, brokerVars, consumerVars, inboxVars, faults>>

\* publishRaw throws because its channel is closed; the broker may have
\* taken the message before. The rest of the batch is left alone.
PublishFails(r) ==
  /\ rpc[r] \in {"publish", "confirm"} /\ conn[r] = "cut"
  /\ taken' = [taken EXCEPT ![r] = FALSE]
  /\ rpc' = [rpc EXCEPT ![r] = "mark"]
  /\ UNCHANGED <<outboxVars, conn, batch, done, brokerVars, consumerVars, inboxVars,
                 faults>>

\* The broker answers nack, having kept the message or not: the channel
\* stays open.
PublishNacked(r) ==
  /\ rpc[r] \in {"publish", "confirm"} /\ conn[r] = "open"
  /\ topology >= ExchangeDeclared
  /\ Fault
  /\ taken' = [taken EXCEPT ![r] = FALSE]
  /\ rpc' = [rpc EXCEPT ![r] = "mark"]
  /\ UNCHANGED <<outboxVars, conn, batch, done, brokerVars, consumerVars, inboxVars>>

EndPass(r) ==
  /\ batch' = [batch EXCEPT ![r] = {}]
  /\ done' = [done EXCEPT ![r] = {}]
  /\ taken' = [taken EXCEPT ![r] = FALSE]
  /\ rpc' = [rpc EXCEPT ![r] = "idle"]

\* Mutant: the whole batch is marked, not the confirmed rows.
MarkBatch(r) ==
  /\ rpc[r] = "mark"
  /\ published' = published \cup batch[r]
  /\ EndPass(r)
  /\ UNCHANGED <<outbox, conn, brokerVars, consumerVars, inboxVars, faults>>

\* UPDATE outbox SET published_at for the confirmed rows; COMMIT.
MarkPublished(r) ==
  /\ rpc[r] = "mark"
  /\ published' = published \cup done[r]
  /\ EndPass(r)
  /\ UNCHANGED <<outbox, conn, brokerVars, consumerVars, inboxVars, faults>>

\* A statement of the pass throws: ROLLBACK, and the loop goes on.
PassFails(r) ==
  /\ rpc[r] # "idle"
  /\ Fault
  /\ EndPass(r)
  /\ UNCHANGED <<outboxVars, conn, brokerVars, consumerVars, inboxVars>>

\* The broker closes the connection (a restart, a network partition). The
\* publisher never opens another one.
CutRelay(r) ==
  /\ conn[r] = "open"
  /\ Fault
  /\ conn' = [conn EXCEPT ![r] = "cut"]
  /\ UNCHANGED <<outboxVars, rpc, batch, done, taken, brokerVars, consumerVars,
                 inboxVars>>

\* The process dies anywhere in the pass; PostgreSQL frees its rows.
RelayDies(r) ==
  /\ conn[r] # "dead"
  /\ Fault
  /\ EndPass(r)
  /\ conn' = [conn EXCEPT ![r] = "dead"]
  /\ UNCHANGED <<outboxVars, brokerVars, consumerVars, inboxVars>>

\* Publishing to an exchange nobody has declared yet: the broker closes the
\* channel with 404, an 'error' event nobody listens to ends the process.
NoExchange(r) ==
  /\ rpc[r] = "publish" /\ conn[r] = "open"
  /\ topology < ExchangeDeclared
  /\ EndPass(r)
  /\ conn' = [conn EXCEPT ![r] = "dead"]
  /\ UNCHANGED <<outboxVars, brokerVars, consumerVars, inboxVars, faults>>

\* An operator starts the relay process again.
RestartRelay(r) ==
  /\ conn[r] \in {"cut", "dead"}
  /\ EndPass(r)
  /\ conn' = [conn EXCEPT ![r] = "open"]
  /\ UNCHANGED <<outboxVars, brokerVars, consumerVars, inboxVars, faults>>

-----------------------------------------------------------------------------
(* The broker and the consumers *)

\* One declaration of assertTopology; declaring again changes nothing.
AssertTopology(c) ==
  /\ status[c] = "down" /\ asserted[c] < Bound
  /\ asserted' = [asserted EXCEPT ![c] = @ + 1]
  /\ topology' = IF topology > asserted[c] THEN topology ELSE asserted[c] + 1
  /\ UNCHANGED <<outboxVars, relayVars, event, place, returns, owner, status, handler,
                 inboxVars, faults>>

\* ch.consume.
Subscribe(c) ==
  /\ status[c] = "down" /\ asserted[c] = Bound
  /\ status' = [status EXCEPT ![c] = "up"]
  /\ UNCHANGED <<outboxVars, relayVars, brokerVars, asserted, handler, inboxVars, faults>>

\* Somebody publishes bytes that are not an OrderPlacedEvent.
PublishPoison(m) ==
  /\ topology = Bound
  /\ Fault
  /\ Enqueue(m, Poison)
  /\ UNCHANGED <<outboxVars, relayVars, consumerVars, inboxVars>>

Unacked(c) == {m \in Copy : place[m] = "unacked" /\ owner[m] = c}

Deliver(c, m) ==
  /\ status[c] = "up" /\ place[m] = "work"
  /\ Cardinality(Unacked(c)) < Prefetch
  /\ place' = [place EXCEPT ![m] = "unacked"]
  /\ owner' = [owner EXCEPT ![m] = c]
  /\ handler' = [handler EXCEPT ![<<c, m>>] = "received"]
  /\ UNCHANGED <<outboxVars, relayVars, topology, event, returns, status, asserted,
                 inboxVars, faults>>

\* The broker takes the copies of S back: to the queue, or past the delivery
\* limit to the dead-letter queue.
Return(S) ==
  /\ returns' = [m \in Copy |-> IF m \in S THEN returns[m] + 1 ELSE returns[m]]
  /\ place' = [m \in Copy |-> IF m \notin S THEN place[m]
                              ELSE IF returns[m] + 1 > DeliveryLimit
                                THEN "dlq" ELSE "work"]
  /\ owner' = [m \in Copy |-> IF m \in S THEN None ELSE owner[m]]
  /\ UNCHANGED <<topology, event>>

\* ack and reject(requeue = false) settle a delivery only on the channel it
\* came from; on a closed channel they throw.
Settle(c, m, where) ==
  /\ IF m \in Unacked(c)
       THEN /\ place' = [place EXCEPT ![m] = where]
            /\ owner' = [owner EXCEPT ![m] = None]
       ELSE UNCHANGED <<place, owner>>
  /\ UNCHANGED <<topology, event, returns>>

HandlerGoto(c, m, where) == handler' = [handler EXCEPT ![<<c, m>>] = where]

\* Mutant: poison goes back to the queue, with no limit on its returns.
RequeuePoison(c, m) ==
  /\ handler[<<c, m>>] = "received" /\ event[m] \notin OrderPlacedSchema
  /\ Settle(c, m, "work")
  /\ HandlerGoto(c, m, "idle")
  /\ UNCHANGED <<outboxVars, relayVars, status, asserted, inboxVars, faults>>

RejectPoison(c, m) ==
  /\ handler[<<c, m>>] = "received" /\ event[m] \notin OrderPlacedSchema
  /\ Settle(c, m, "dlq")
  /\ HandlerGoto(c, m, "idle")
  /\ UNCHANGED <<outboxVars, relayVars, status, asserted, inboxVars, faults>>

\* Mutant: the inbox is looked up with a SELECT, which waits for nobody.
InboxCommitted(id) == id \in processed

\* Another transaction has inserted this inbox row and not committed it.
InboxLocked(id) ==
  \E h \in Consumer \X Copy : handler[h] = "claimed" /\ event[h[2]].eventId = id

\* INSERT INTO processed_messages inserted the row.
ClaimInbox(c, m) ==
  /\ handler[<<c, m>>] = "received" /\ event[m] \in OrderPlacedSchema
  /\ event[m].eventId \notin processed /\ ~ InboxLocked(event[m].eventId)
  /\ HandlerGoto(c, m, "claimed")
  /\ UNCHANGED <<outboxVars, relayVars, brokerVars, status, asserted, inboxVars, faults>>

\* The row was there: a duplicate, acked without an effect.
SkipDuplicate(c, m) ==
  /\ handler[<<c, m>>] = "received" /\ event[m] \in OrderPlacedSchema
  /\ event[m].eventId \in processed
  /\ HandlerGoto(c, m, "applied")
  /\ UNCHANGED <<outboxVars, relayVars, brokerVars, status, asserted, inboxVars, faults>>

\* INSERT INTO order_receipts ON CONFLICT DO NOTHING; COMMIT.
ApplyEffect(e) ==
  /\ processed' = processed \cup {e.eventId}
  /\ receipts' = receipts \cup {e.orderId}

CommitEffect(c, m) ==
  /\ handler[<<c, m>>] = "claimed"
  /\ ApplyEffect(event[m])
  /\ HandlerGoto(c, m, "applied")
  /\ UNCHANGED <<outboxVars, relayVars, brokerVars, status, asserted, faults>>

Ack(c, m) ==
  /\ handler[<<c, m>>] = "applied"
  /\ Settle(c, m, "acked")
  /\ HandlerGoto(c, m, "idle")
  /\ UNCHANGED <<outboxVars, relayVars, status, asserted, inboxVars, faults>>

\* The database fails the transaction, or fails to say that it committed:
\* reject(requeue = true).
EffectFails(c, m) ==
  /\ handler[<<c, m>>] \in {"received", "claimed"} /\ event[m] \in OrderPlacedSchema
  /\ Fault
  /\ Return({m} \cap Unacked(c))
  /\ \/ UNCHANGED inboxVars
     \/ handler[<<c, m>>] = "claimed" /\ ApplyEffect(event[m])
  /\ HandlerGoto(c, m, "idle")
  /\ UNCHANGED <<outboxVars, relayVars, status, asserted>>

\* The broker closes the channel: it takes the unacked copies back while the
\* handlers of the living process run on.
CutConsumer(c) ==
  /\ status[c] = "up"
  /\ Fault
  /\ Return(Unacked(c))
  /\ status' = [status EXCEPT ![c] = "cut"]
  /\ UNCHANGED <<outboxVars, relayVars, asserted, handler, inboxVars>>

\* The process ends and is to be started again.
StopConsumer(c) ==
  /\ Return(Unacked(c))
  /\ status' = [status EXCEPT ![c] = "down"]
  /\ asserted' = [asserted EXCEPT ![c] = 0]
  /\ handler' = [h \in Consumer \X Copy |-> IF h[1] = c THEN "idle" ELSE handler[h]]
  /\ UNCHANGED <<outboxVars, relayVars, inboxVars>>

ConsumerDies(c) == status[c] # "cut" /\ Fault /\ StopConsumer(c)

RestartConsumer(c) == status[c] = "cut" /\ StopConsumer(c) /\ UNCHANGED faults

-----------------------------------------------------------------------------
RelayStep(r) ==
  \/ ClaimBatch(r) \/ Publish(r) \/ Confirm(r) \/ PublishFails(r)
  \/ MarkPublished(r) \/ NoExchange(r)

RelayFault(r) ==
  PublishLost(r) \/ PublishNacked(r) \/ PassFails(r) \/ CutRelay(r) \/ RelayDies(r)

HandlerStep(c, m) ==
  \/ RejectPoison(c, m) \/ ClaimInbox(c, m) \/ SkipDuplicate(c, m)
  \/ CommitEffect(c, m) \/ Ack(c, m)

Next ==
  \/ \E e \in Event : CommitRow(e)
  \/ \E r \in Relay : RelayStep(r) \/ RelayFault(r) \/ RestartRelay(r)
  \/ \E m \in Copy : PublishPoison(m)
  \/ \E c \in Consumer :
       \/ AssertTopology(c) \/ Subscribe(c)
       \/ CutConsumer(c) \/ ConsumerDies(c) \/ RestartConsumer(c)
       \/ \E m \in Copy : Deliver(c, m) \/ HandlerStep(c, m) \/ EffectFails(c, m)

Spec == Init /\ [][Next]_vars

\* Running processes keep running: the relay's polling loop, the broker's
\* deliveries and the handlers. A process that died is started again.
CodeFairness ==
  /\ \A r \in Relay : WF_vars(RelayStep(r))
  /\ \A r \in Relay : WF_vars(conn[r] = "dead" /\ RestartRelay(r))
  /\ \A c \in Consumer : WF_vars(AssertTopology(c) \/ Subscribe(c))
  /\ WF_vars(\E c \in Consumer, m \in Copy : Deliver(c, m))
  /\ \A c \in Consumer, m \in Copy : WF_vars(HandlerStep(c, m))

\* Somebody also restarts a living process that has lost its connection:
\* neither the publisher nor the consumer opens a new one.
OperatorFairness ==
  /\ \A r \in Relay : WF_vars(RestartRelay(r))
  /\ \A c \in Consumer : WF_vars(RestartConsumer(c))

UnattendedSpec == Spec /\ CodeFairness
AttendedSpec == UnattendedSpec /\ OperatorFairness
-----------------------------------------------------------------------------
(* Properties *)

\* The broker still answers for event e, in whichever queue.
Held(e) ==
  \E m \in Copy : event[m] = toOrderPlacedEvent(e) /\ place[m] \notin {"unused", "acked"}

\* relay.ts publishes (A) before it marks (B), and consumer.ts acks after the
\* effect, so that no failure between the two loses an event: a row with
\* published_at set has its receipt or is still held by a queue of the broker,
\* and what was acked, also as a duplicate without an effect, has its receipt.
NoEventLost ==
  /\ \A e \in published : e \in receipts \/ Held(e)
  /\ \A m \in Copy : place[m] = "acked" => event[m].orderId \in receipts

\* The inbox and the effect are one COMMIT, and the inbox alone admits each
\* event once: a transaction that has claimed an inbox row is the only one
\* and finds no receipt, so the receipt's unique key never has to step in.
InboxMatchesEffect ==
  /\ processed = {eventIdFor("order.placed", o) : o \in receipts}
  /\ \A g, h \in Consumer \X Copy :
       handler[g] = "claimed" /\ handler[h] = "claimed" =>
         /\ event[g[2]].orderId \notin receipts
         /\ event[g[2]] = event[h[2]] => g = h

\* e has its effect, or the broker will not forget it.
Safe(e) == e \in receipts \/ Held(e)

\* A pass works on rows that nobody has marked; what was confirmed, or taken and
\* not yet confirmed, is safe.
PassHolds(r) ==
  /\ batch[r] \subseteq outbox \ published /\ done[r] \subseteq batch[r]
  /\ rpc[r] = "idle" => batch[r] = {}
  /\ rpc[r] \in {"publish", "confirm"} => batch[r] \ done[r] # {}
  /\ \A e \in done[r] : Safe(e)
  /\ taken[r] => rpc[r] = "confirm" /\ Safe(Current(r))

\* A copy is poison or of a committed row; it is acked only when its event has
\* had its effect.
CopyIsTrue(m) ==
  /\ place[m] = "unused" => event[m] = None
  /\ place[m] # "unused" =>
       event[m] = Poison \/ \E e \in outbox : event[m] = toOrderPlacedEvent(e)
  /\ place[m] = "acked" => \E e \in receipts : event[m] = toOrderPlacedEvent(e)
  /\ place[m] # "dlq" => returns[m] <= DeliveryLimit

\* What a handler has found out about its event stays so.
HandlerKnows(c, m) ==
  /\ handler[<<c, m>>] # "idle" => place[m] # "unused"
  /\ handler[<<c, m>>] = "claimed" =>
       \E e \in outbox \ receipts : event[m] = toOrderPlacedEvent(e)
  /\ handler[<<c, m>>] = "applied" =>
       \E e \in receipts : event[m] = toOrderPlacedEvent(e)

\* The inductive invariant.
IInv ==
  /\ TypeOK
  /\ \A r \in Relay : PassHolds(r)
  /\ \A r, s \in Relay : r # s => batch[r] \cap batch[s] = {}
  /\ \A e \in published : Safe(e)
  /\ \A m \in Copy : CopyIsTrue(m)
  /\ \A c \in Consumer, m \in Copy : HandlerKnows(c, m)
  /\ InboxMatchesEffect
  /\ receipts \subseteq outbox

\* A row that was marked is never published again: duplicates come only
\* from passes that did not reach their COMMIT.
MarkedIsNotResent ==
  [][\A m \in Copy : event[m] = None =>
       \A e \in published : event'[m] # toOrderPlacedEvent(e)]_vars

\* Every committed event is settled in the end: it has its receipt, or waits
\* for a human in the dead-letter or unroutable queue. Neither duplicates,
\* nor poison, nor a lost connection stop the flow for good, provided that
\* somebody restarts the processes.
EventuallySettled ==
  \A e \in Event :
    e \in outbox ~>
      \/ e \in receipts
      \/ \E m \in Copy : /\ event[m] = toOrderPlacedEvent(e)
                         /\ place[m] \in {"dlq", "unroutable"}

\* relay.ts: an error of the broker does not kill the polling loop, the rows
\* stay NULL and go with the next tick.
EventuallyPublished == \A e \in Event : e \in outbox ~> e \in published
=============================================================================
