--------------------------- MODULE DeliveryProofs ---------------------------
(***************************************************************************)
(* Delivery.tla holds its promises for any number of rows, relays, copies, *)
(* consumers and failures. The inductive invariant IInv is split in two:   *)
(* Upstream is what the relays know (a batch is unmarked, what was         *)
(* confirmed is safe), Downstream what the broker and the consumers know   *)
(* (a copy is of a committed row, an acked one has its receipt, a claimed  *)
(* inbox row is nobody else's). A relay's step leaves Downstream alone and *)
(* a consumer's leaves Upstream alone, because Safe never becomes false.   *)
(***************************************************************************)
EXTENDS Delivery, FiniteSetTheorems, NaturalsInduction, TLAPS

\* A set of numbers that is not empty has a least one.
LEMMA LeastOf ==
  ASSUME NEW S, S \subseteq Nat, S # {}
  PROVE  \E x \in S : \A y \in S : x <= y
  <1> DEFINE R == OpToRel(<, Nat)
  <1>1. IsWellFoundedOn(R, Nat)
    BY NatLessThanWellFounded, Zenon
  <1>2. \A x, y \in Nat : y < x => <<y, x>> \in R
    BY DEF OpToRel
  <1> HIDE DEF R
  <1>3. PICK x \in S : \A y \in S : ~ (<<y, x>> \in R)
    BY <1>1, WFMin
  <1>4. \A y \in S : ~ (y < x)
    BY <1>2, <1>3
  <1> QED BY <1>4

\* The row the publish loop is at is a row of the batch.
LEMMA CurrentIsInBatch ==
  ASSUME NEW r \in Relay, batch[r] \subseteq Event, batch[r] \ done[r] # {}
  PROVE  Current(r) \in batch[r] \ done[r]
  <1>1. \E e \in batch[r] \ done[r] : \A d \in batch[r] \ done[r] : e <= d
    BY LeastOf, DeliveryAssumption
  <1> QED BY <1>1 DEF Current

\* LIMIT leaves at least the oldest row.
LEMMA OldestIsSome ==
  ASSUME NEW S, S \subseteq Event, S # {}
  PROVE  Oldest(S, BatchSize) # {} /\ Oldest(S, BatchSize) \subseteq S
  <1>1. PICK x \in S : \A y \in S : x <= y
    BY LeastOf, DeliveryAssumption
  <1>2. {d \in S : d < x} = {}
    <2>1. S \subseteq Nat
      BY DeliveryAssumption
    <2>2. \A d \in S : ~ (d < x)
      BY <1>1, <2>1
    <2> QED BY <2>2
  <1>3. Cardinality({d \in S : d < x}) = 0
    BY <1>2, FS_EmptySet
  <1> QED BY <1>3, DeliveryAssumption DEF Oldest

\* The payload of an order parses, tells orders apart, and is never poison.
LEMMA PayloadFacts ==
  ASSUME NEW e \in Event
  PROVE  /\ toOrderPlacedEvent(e) \in OrderPlacedSchema
         /\ toOrderPlacedEvent(e) \notin {Poison, None}
         /\ toOrderPlacedEvent(e).eventId = eventIdFor("order.placed", e)
         /\ toOrderPlacedEvent(e).orderId = e
         /\ \A d \in Event : toOrderPlacedEvent(d) = toOrderPlacedEvent(e) => d = e
         /\ \A d \in Event : eventIdFor("order.placed", d) = eventIdFor("order.placed", e) => d = e
  <1>1. toOrderPlacedEvent(e) \in OrderPlacedSchema
    BY DEF toOrderPlacedEvent, OrderPlacedSchema, eventIdFor
  <1>2. \A d \in Event : toOrderPlacedEvent(d).orderId = d
    BY DEF toOrderPlacedEvent
  <1>3. \A d \in Event : eventIdFor("order.placed", d) = eventIdFor("order.placed", e) => d = e
    BY DEF eventIdFor
  <1> QED BY <1>1, <1>2, <1>3, DeliveryAssumption DEF toOrderPlacedEvent

\* The parts of IInv that only the broker, the consumers and the inbox disturb.
Downstream ==
  /\ \A m \in Copy : CopyIsTrue(m)
  /\ \A c \in Consumer, m \in Copy : HandlerKnows(c, m)
  /\ InboxMatchesEffect
  /\ receipts \subseteq outbox

\* The parts of IInv that the relays disturb.
Upstream ==
  /\ \A r \in Relay : PassHolds(r)
  /\ \A r, s \in Relay : r # s => batch[r] \cap batch[s] = {}
  /\ \A e \in published : Safe(e)

\* Nothing is there at the start.
LEMMA DeliveryInit == Init => IInv
  <1> SUFFICES ASSUME Init PROVE IInv
    OBVIOUS
  <1>1. TypeOK
    BY DeliveryAssumption DEF Init, TypeOK, Bound, Places
  <1>2. Upstream
    BY DEF Init, Upstream, PassHolds
  <1>3. Downstream
    BY DeliveryAssumption DEF Init, Downstream, CopyIsTrue, HandlerKnows, InboxMatchesEffect
  <1> QED BY <1>1, <1>2, <1>3 DEF IInv, Upstream, Downstream

\* What the relays and the checkouts do leaves downstream alone.
LEMMA RelayFrame ==
  ASSUME IInv, outbox \subseteq outbox',
         UNCHANGED <<brokerVars, consumerVars, inboxVars>>
  PROVE  Downstream' /\ \A e : Safe(e)' <=> Safe(e)
  <1>1. \A e : Safe(e)' <=> Safe(e)
    BY DEF Safe, Held, brokerVars, inboxVars
  <1>2. \A m \in Copy : CopyIsTrue(m)'
    BY DEF IInv, CopyIsTrue, brokerVars, inboxVars
  <1>3. \A c \in Consumer, m \in Copy : HandlerKnows(c, m)'
    BY DEF IInv, HandlerKnows, brokerVars, consumerVars, inboxVars
  <1>4. InboxMatchesEffect' /\ receipts' \subseteq outbox'
    BY DEF IInv, InboxMatchesEffect, brokerVars, consumerVars, inboxVars
  <1> QED BY <1>1, <1>2, <1>3, <1>4 DEF Downstream

\* A checkout commits a row.
LEMMA CommitRowKeeps ==
  ASSUME IInv, NEW e \in Event, CommitRow(e)
  PROVE  IInv'
  <1>1. Downstream' /\ \A d : Safe(d)' <=> Safe(d)
    BY RelayFrame DEF CommitRow
  <1>2. TypeOK'
    BY DEF CommitRow, IInv, TypeOK, relayVars, brokerVars, consumerVars, inboxVars
  <1>3. Upstream'
    <2>1. UNCHANGED <<published, conn, rpc, batch, done, taken>> /\ outbox \subseteq outbox'
      BY DEF CommitRow, relayVars
    <2>2. \A r \in Relay : Current(r)' = Current(r)
      BY <2>1 DEF Current
    <2> QED BY <1>1, <2>1, <2>2 DEF IInv, Upstream, PassHolds
  <1> QED BY <1>1, <1>2, <1>3 DEF IInv, Upstream, Downstream

\* A relay that only moves on in its pass, or ends it.
LEMMA PassKeeps ==
  ASSUME IInv, NEW r \in Relay,
         UNCHANGED <<outbox, brokerVars, consumerVars, inboxVars>>,
         TypeOK', published \subseteq published',
         \A e \in published' \ published : Safe(e) /\ e \in batch[r],
         \A s \in Relay \ {r} : /\ rpc'[s] = rpc[s] /\ batch'[s] = batch[s]
                                /\ done'[s] = done[s] /\ taken'[s] = taken[s],
         \A s \in Relay \ {r} : batch'[r] \cap batch[s] = {},
         PassHolds(r)'
  PROVE  IInv'
  <1>1. Downstream' /\ \A d : Safe(d)' <=> Safe(d)
    BY RelayFrame
  <1>2. \A s \in Relay \ {r} : PassHolds(s)'
    <2> SUFFICES ASSUME NEW s \in Relay \ {r} PROVE PassHolds(s)'
      OBVIOUS
    <2>1. PassHolds(s) /\ batch[s] \cap batch[r] = {}
      BY DEF IInv
    <2>2. Current(s)' = Current(s)
      BY DEF Current
    <2> QED BY <1>1, <2>1, <2>2 DEF PassHolds
  <1>3. \A q, s \in Relay : q # s => batch'[q] \cap batch'[s] = {}
    BY DEF IInv
  <1>4. \A e \in published' : Safe(e)'
    BY <1>1 DEF IInv
  <1> QED BY <1>1, <1>2, <1>3, <1>4 DEF IInv, Downstream

\* The end of a pass.
LEMMA EndPassKeeps ==
  ASSUME IInv, NEW r \in Relay, EndPass(r), conn' \in [Relay -> {"open", "cut", "dead"}],
         UNCHANGED <<outbox, brokerVars, consumerVars, inboxVars>>,
         published' = published \/ published' = published \cup done[r],
         faults' \in 0..MaxFaults
  PROVE  IInv'
  <1>1. PassHolds(r) /\ done[r] \subseteq outbox
    BY DEF IInv, PassHolds
  <1>2. TypeOK'
    BY <1>1 DEF EndPass, IInv, TypeOK, brokerVars, consumerVars, inboxVars
  <1>3. \A e \in published' \ published : Safe(e) /\ e \in batch[r]
    BY <1>1 DEF PassHolds
  <1>4. batch'[r] = {} /\ done'[r] = {} /\ rpc'[r] = "idle" /\ taken'[r] = FALSE
    BY DEF EndPass, IInv, TypeOK
  <1>5. PassHolds(r)'
    BY <1>4 DEF PassHolds
  <1>6. \A s \in Relay \ {r} : /\ rpc'[s] = rpc[s] /\ batch'[s] = batch[s]
                               /\ done'[s] = done[s] /\ taken'[s] = taken[s]
    BY DEF EndPass, IInv, TypeOK
  <1> QED BY <1>2, <1>3, <1>4, <1>5, <1>6, PassKeeps

\* The steps of a pass that publish nothing.
LEMMA RelayKeeps ==
  ASSUME IInv, NEW r \in Relay,
         \/ ClaimBatch(r) \/ PublishLost(r) \/ Confirm(r) \/ PublishFails(r)
         \/ PublishNacked(r) \/ MarkPublished(r) \/ PassFails(r) \/ CutRelay(r)
         \/ RelayDies(r) \/ NoExchange(r) \/ RestartRelay(r)
  PROVE  IInv'
  <1> USE DeliveryAssumption
  <1>0. TypeOK /\ PassHolds(r)
    BY DEF IInv
  <1>1. CASE ClaimBatch(r)
    <2> DEFINE free == (outbox \ published) \ Locked
    <2>1. /\ free # {} /\ free \subseteq Event /\ rpc[r] = "idle"
          /\ batch' = [batch EXCEPT ![r] = Oldest(free, BatchSize)]
          /\ rpc' = [rpc EXCEPT ![r] = "publish"]
          /\ UNCHANGED <<outbox, published, conn, done, taken, brokerVars, consumerVars,
                         inboxVars, faults>>
      BY <1>0, <1>1 DEF ClaimBatch, TypeOK, outboxVars
    <2>2. batch'[r] # {} /\ batch'[r] \subseteq free /\ batch'[r] \subseteq Event
      BY <1>0, <2>1, OldestIsSome DEF TypeOK
    <2>3. done[r] = {} /\ taken[r] = FALSE
      BY <1>0, <2>1 DEF PassHolds, TypeOK
    <2>4. TypeOK'
      BY <1>0, <2>1, <2>2 DEF TypeOK, brokerVars, consumerVars, inboxVars
    <2>5. \A s \in Relay \ {r} : batch'[r] \cap batch[s] = {}
      BY <2>2 DEF Locked
    <2>6. PassHolds(r)'
      BY <1>0, <2>1, <2>2, <2>3 DEF PassHolds, TypeOK
    <2>7. \A s \in Relay \ {r} : /\ rpc'[s] = rpc[s] /\ batch'[s] = batch[s]
                                 /\ done'[s] = done[s] /\ taken'[s] = taken[s]
      BY <1>0, <2>1 DEF TypeOK
    <2> HIDE DEF free
    <2> QED BY <2>1, <2>4, <2>5, <2>6, <2>7, PassKeeps
  <1>2. CASE PublishLost(r) \/ PublishFails(r) \/ PublishNacked(r) \/ CutRelay(r)
    <2>1. /\ UNCHANGED <<outbox, published, batch, done, brokerVars, consumerVars, inboxVars>>
          /\ taken' = [taken EXCEPT ![r] = FALSE] \/ UNCHANGED <<rpc, taken>>
          /\ \E x \in {"confirm", "mark", rpc[r]} : rpc' = [rpc EXCEPT ![r] = x]
          /\ rpc[r] \in {"publish", "confirm"} \/ UNCHANGED <<rpc, taken>>
          /\ faults' \in 0..MaxFaults /\ conn' \in [Relay -> {"open", "cut", "dead"}]
      BY <1>0, <1>2
      DEF PublishLost, PublishFails, PublishNacked, CutRelay, Fault, outboxVars, TypeOK
    <2>2. TypeOK'
      <3>1. rpc' \in [Relay -> {"idle", "publish", "confirm", "mark"}]
        BY <1>0, <2>1 DEF TypeOK
      <3>2. taken' \in [Relay -> BOOLEAN]
        BY <1>0, <2>1 DEF TypeOK
      <3> QED BY <1>0, <2>1, <3>1, <3>2 DEF TypeOK, brokerVars, consumerVars, inboxVars
    <2>3. Current(r)' = Current(r) /\ \A d : Safe(d)' <=> Safe(d)
      BY <2>1 DEF Current, Safe, Held, brokerVars, inboxVars
    <2>4. PassHolds(r)'
      BY <1>0, <2>1, <2>3 DEF PassHolds, TypeOK
    <2>5. \A s \in Relay \ {r} : /\ rpc'[s] = rpc[s] /\ batch'[s] = batch[s]
                                 /\ done'[s] = done[s] /\ taken'[s] = taken[s]
      BY <1>0, <2>1 DEF TypeOK
    <2>6. \A s \in Relay \ {r} : batch'[r] \cap batch[s] = {}
      BY <2>1 DEF IInv
    <2> QED BY <2>1, <2>2, <2>4, <2>5, <2>6, PassKeeps
  <1>3. CASE Confirm(r)
    <2>1. /\ Current(r) \in batch[r] \ done[r] /\ Safe(Current(r)) /\ batch[r] \subseteq Event
      BY <1>0, <1>3, CurrentIsInBatch DEF Confirm, PassHolds, TypeOK
    <2>2. /\ done' = [done EXCEPT ![r] = done[r] \cup {Current(r)}]
          /\ taken' = [taken EXCEPT ![r] = FALSE]
          /\ rpc' = [rpc EXCEPT ![r] = IF batch[r] \ (done[r] \cup {Current(r)}) = {}
                                         THEN "mark" ELSE "publish"]
          /\ UNCHANGED <<outbox, published, conn, batch, brokerVars, consumerVars, inboxVars,
                         faults>>
      BY <1>0, <1>3 DEF Confirm, outboxVars, TypeOK
    <2>3. TypeOK'
      BY <1>0, <2>1, <2>2 DEF TypeOK, brokerVars, consumerVars, inboxVars
    <2>4. \A d : Safe(d)' <=> Safe(d)
      BY <2>2 DEF Safe, Held, brokerVars, inboxVars
    <2>5. PassHolds(r)'
      BY <1>0, <2>1, <2>2, <2>4 DEF PassHolds, TypeOK
    <2>6. \A s \in Relay \ {r} : /\ rpc'[s] = rpc[s] /\ batch'[s] = batch[s]
                                 /\ done'[s] = done[s] /\ taken'[s] = taken[s]
      BY <1>0, <2>2 DEF TypeOK
    <2>7. \A s \in Relay \ {r} : batch'[r] \cap batch[s] = {}
      BY <2>2 DEF IInv
    <2> QED BY <2>2, <2>3, <2>5, <2>6, <2>7, PassKeeps
  <1>4. CASE \/ MarkPublished(r) \/ PassFails(r) \/ RelayDies(r) \/ NoExchange(r)
             \/ RestartRelay(r)
    <2>1. /\ EndPass(r) /\ conn' \in [Relay -> {"open", "cut", "dead"}]
          /\ UNCHANGED <<outbox, brokerVars, consumerVars, inboxVars>>
          /\ published' = published \/ published' = published \cup done[r]
          /\ faults' \in 0..MaxFaults
      BY <1>0, <1>4
      DEF MarkPublished, PassFails, RelayDies, NoExchange, RestartRelay, Fault,
          outboxVars, TypeOK
    <2> QED BY <2>1, EndPassKeeps
  <1> QED BY <1>1, <1>2, <1>3, <1>4

\* Copies may come and move, and an ack follows the effect: what was safe is.
LEMMA SafeStays ==
  ASSUME IInv, receipts \subseteq receipts', receipts' \subseteq Event,
         \A m \in Copy : place[m] # "unused" => event'[m] = event[m] /\ place'[m] # "unused",
         \A m \in Copy : CopyIsTrue(m)',
         NEW e \in Event, Safe(e)
  PROVE  Safe(e)'
  <1>1. CASE e \in receipts
    BY <1>1 DEF Safe
  <1>2. CASE Held(e)
    <2>1. PICK m \in Copy : event[m] = toOrderPlacedEvent(e) /\ place[m] \notin {"unused", "acked"}
      BY <1>2 DEF Held
    <2>2. event'[m] = toOrderPlacedEvent(e) /\ place'[m] # "unused"
      BY <2>1
    <2>3. CASE place'[m] = "acked"
      <3>1. PICK d \in receipts' : event'[m] = toOrderPlacedEvent(d)
        BY <2>3 DEF CopyIsTrue, toOrderPlacedEvent, eventIdFor
      <3>2. d = e
        BY <2>2, <3>1, PayloadFacts
      <3> QED BY <3>1, <3>2 DEF Safe
    <2>4. CASE place'[m] # "acked"
      BY <2>2, <2>4 DEF Safe, Held, toOrderPlacedEvent, eventIdFor
    <2> QED BY <2>3, <2>4
  <1> QED BY <1>1, <1>2 DEF Safe

\* What the broker and the consumers do leaves upstream alone.
LEMMA ConsumerFrame ==
  ASSUME IInv, UNCHANGED <<outboxVars, relayVars>>,
         receipts \subseteq receipts', receipts' \subseteq Event,
         \A m \in Copy : place[m] # "unused" => event'[m] = event[m] /\ place'[m] # "unused",
         \A m \in Copy : CopyIsTrue(m)'
  PROVE  Upstream'
  <1>1. \A e \in Event : Safe(e) => Safe(e)'
    BY SafeStays
  <1>2. UNCHANGED <<outbox, published, rpc, batch, done, taken>>
    BY DEF outboxVars, relayVars
  <1>3. \A r \in Relay : Current(r)' = Current(r)
    BY <1>2 DEF Current
  <1>4. ASSUME NEW r \in Relay PROVE PassHolds(r)'
    <2>1. PassHolds(r) /\ batch[r] \subseteq Event
      BY DEF IInv, TypeOK
    <2>2. taken[r] => Current(r) \in Event
      BY <2>1, CurrentIsInBatch DEF PassHolds
    <2> QED BY <1>1, <1>2, <1>3, <2>1, <2>2 DEF PassHolds
  <1>5. \A e \in published' : Safe(e)'
    BY <1>1, <1>2 DEF IInv, TypeOK
  <1> QED BY <1>2, <1>4, <1>5 DEF IInv, Upstream

\* A new copy, of a committed row or poison.
LEMMA EnqueueKeeps ==
  ASSUME IInv, NEW m \in Copy, NEW content, Enqueue(m, content),
         content = Poison \/ \E e \in outbox : content = toOrderPlacedEvent(e),
         UNCHANGED <<outboxVars, consumerVars, inboxVars>>
  PROVE  /\ Downstream'
         /\ topology' \in 0..Bound /\ event' \in [Copy -> OrderPlacedSchema \cup {Poison, None}]
         /\ place' \in [Copy -> Places] /\ returns' \in [Copy -> 0..DeliveryLimit + 1]
         /\ owner' \in [Copy -> Consumer \cup {None}]
         /\ event'[m] = content /\ place'[m] \notin {"unused", "acked"}
         /\ \A k \in Copy : place[k] # "unused" => event'[k] = event[k] /\ place'[k] # "unused"
  <1>1. /\ place[m] = "unused" /\ Route \in {"work", "unroutable"}
        /\ event' = [event EXCEPT ![m] = content] /\ place' = [place EXCEPT ![m] = Route]
        /\ UNCHANGED <<topology, returns, owner, outbox, handler, processed, receipts>>
    BY DEF Enqueue, Route, outboxVars, consumerVars, inboxVars
  <1>2. /\ event \in [Copy -> OrderPlacedSchema \cup {Poison, None}]
        /\ place \in [Copy -> Places] /\ outbox \subseteq Event
        /\ topology \in 0..Bound /\ returns \in [Copy -> 0..DeliveryLimit + 1]
        /\ owner \in [Copy -> Consumer \cup {None}]
    BY DEF IInv, TypeOK
  <1>3. content \in OrderPlacedSchema \cup {Poison}
    BY <1>2, PayloadFacts
  <1>4. /\ event'[m] = content /\ place'[m] = Route
        /\ \A k \in Copy \ {m} : event'[k] = event[k] /\ place'[k] = place[k]
        /\ event' \in [Copy -> OrderPlacedSchema \cup {Poison, None}]
        /\ place' \in [Copy -> Places]
    BY <1>1, <1>2, <1>3 DEF Places
  <1>5. \A k \in Copy : CopyIsTrue(k)'
    <2>1. CopyIsTrue(m)'
      BY <1>1, <1>4 DEF IInv, CopyIsTrue
    <2>2. ASSUME NEW k \in Copy \ {m} PROVE CopyIsTrue(k)'
      BY <1>1, <1>4 DEF IInv, CopyIsTrue
    <2> QED BY <2>1, <2>2
  <1>6. \A c \in Consumer : handler[<<c, m>>] = "idle"
    BY <1>1 DEF IInv, HandlerKnows, TypeOK
  <1>7. ASSUME NEW c \in Consumer, NEW k \in Copy PROVE HandlerKnows(c, k)'
    <2>1. CASE k = m
      BY <1>1, <1>6, <2>1 DEF HandlerKnows
    <2>2. CASE k # m
      BY <1>1, <1>4, <2>2 DEF IInv, HandlerKnows
    <2> QED BY <2>1, <2>2
  <1>8. InboxMatchesEffect' /\ receipts' \subseteq outbox'
    <2>1. \A g \in Consumer \X Copy : handler[g] = "claimed" =>
            g[2] # m /\ g[2] \in Copy
      BY <1>6
    <2> QED BY <1>1, <1>4, <2>1 DEF IInv, InboxMatchesEffect
  <1> QED BY <1>1, <1>2, <1>4, <1>5, <1>7, <1>8 DEF Downstream

\* ch.publish of the current row: the broker holds it from now on.
LEMMA PublishKeeps ==
  ASSUME IInv, NEW r \in Relay, Publish(r)
  PROVE  IInv'
  <1>1. PassHolds(r) /\ batch[r] \subseteq Event
    BY DEF IInv, TypeOK
  <1>2. Current(r) \in batch[r] \ done[r]
    BY <1>1, CurrentIsInBatch DEF Publish, PassHolds
  <1>3. PICK m \in Copy : Enqueue(m, toOrderPlacedEvent(Current(r)))
    BY DEF Publish
  <1>4. /\ UNCHANGED <<outboxVars, conn, batch, done, consumerVars, inboxVars, faults>>
        /\ taken' = [taken EXCEPT ![r] = TRUE] /\ rpc' = [rpc EXCEPT ![r] = "confirm"]
    BY DEF Publish
  <1>5. Current(r) \in outbox
    BY <1>1, <1>2 DEF PassHolds
  <1>6. /\ Downstream'
        /\ topology' \in 0..Bound /\ event' \in [Copy -> OrderPlacedSchema \cup {Poison, None}]
        /\ place' \in [Copy -> Places] /\ returns' \in [Copy -> 0..DeliveryLimit + 1]
        /\ owner' \in [Copy -> Consumer \cup {None}]
        /\ event'[m] = toOrderPlacedEvent(Current(r)) /\ place'[m] \notin {"unused", "acked"}
        /\ \A k \in Copy : place[k] # "unused" => event'[k] = event[k] /\ place'[k] # "unused"
    BY <1>3, <1>4, <1>5, EnqueueKeeps
  <1>7. TypeOK'
    BY <1>4, <1>6 DEF IInv, TypeOK, outboxVars, consumerVars, inboxVars
  <1>8. \A e \in Event : Safe(e) => Safe(e)'
    BY <1>4, <1>6, SafeStays DEF IInv, TypeOK, Downstream, inboxVars
  <1>9. \A s \in Relay : Current(s)' = Current(s)
    BY <1>4 DEF Current
  <1>10. Safe(Current(r))'
    BY <1>6, <1>9 DEF Safe, Held, toOrderPlacedEvent, eventIdFor
  <1>11. ASSUME NEW s \in Relay PROVE PassHolds(s)'
    <2>1. PassHolds(s) /\ batch[s] \subseteq Event
      BY DEF IInv, TypeOK
    <2>2. UNCHANGED <<outbox, published, batch, done>>
      BY <1>4 DEF outboxVars
    <2>3. \A e \in done[s] : Safe(e)'
      BY <1>8, <2>1 DEF PassHolds
    <2>4. CASE s = r
      <3>1. rpc[r] = "publish" /\ rpc'[r] = "confirm"
        BY <1>4 DEF Publish, IInv, TypeOK
      <3> QED BY <1>10, <2>1, <2>2, <2>3, <2>4, <3>1 DEF PassHolds
    <2>5. CASE s # r
      <3>1. rpc'[s] = rpc[s] /\ taken'[s] = taken[s]
        BY <1>4, <2>5 DEF IInv, TypeOK
      <3>2. taken[s] => Current(s) \in Event /\ Safe(Current(s))
        BY <2>1, CurrentIsInBatch DEF PassHolds
      <3> QED BY <1>8, <1>9, <2>1, <2>2, <2>3, <3>1, <3>2 DEF PassHolds
    <2> QED BY <2>4, <2>5
  <1>12. \A e \in published' : Safe(e)'
    BY <1>4, <1>8 DEF IInv, TypeOK, outboxVars
  <1> QED BY <1>4, <1>6, <1>7, <1>11, <1>12 DEF IInv, Downstream

\* Somebody publishes poison.
LEMMA PoisonKeeps ==
  ASSUME IInv, NEW m \in Copy, PublishPoison(m)
  PROVE  IInv'
  <1>1. /\ Enqueue(m, Poison) /\ faults' \in 0..MaxFaults
        /\ UNCHANGED <<outboxVars, relayVars, consumerVars, inboxVars>>
    BY DeliveryAssumption DEF PublishPoison, Fault, IInv, TypeOK
  <1>2. /\ Downstream'
        /\ topology' \in 0..Bound /\ event' \in [Copy -> OrderPlacedSchema \cup {Poison, None}]
        /\ place' \in [Copy -> Places] /\ returns' \in [Copy -> 0..DeliveryLimit + 1]
        /\ owner' \in [Copy -> Consumer \cup {None}]
        /\ \A k \in Copy : place[k] # "unused" => event'[k] = event[k] /\ place'[k] # "unused"
    BY <1>1, EnqueueKeeps
  <1>3. TypeOK'
    BY <1>1, <1>2 DEF IInv, TypeOK, outboxVars, relayVars, consumerVars, inboxVars
  <1>4. Upstream'
    BY <1>1, <1>2, ConsumerFrame DEF IInv, TypeOK, Downstream, inboxVars
  <1> QED BY <1>2, <1>3, <1>4 DEF IInv, Upstream, Downstream

\* Steps that write no inbox row: copies move, and are acked only with an effect.
LEMMA MoveKeeps ==
  ASSUME IInv, UNCHANGED <<outboxVars, relayVars, event, inboxVars>>, TypeOK',
         \A m \in Copy : place'[m] = "unused" <=> place[m] = "unused",
         \A m \in Copy : place'[m] = "acked" =>
            \E e \in receipts : event[m] = toOrderPlacedEvent(e),
         \A m \in Copy : place'[m] # "dlq" => returns'[m] <= DeliveryLimit,
         \A c \in Consumer, m \in Copy : HandlerKnows(c, m)',
         \A g \in Consumer \X Copy : handler'[g] = "claimed" => handler[g] = "claimed"
  PROVE  IInv'
  <1>1. UNCHANGED <<outbox, processed, receipts>>
    BY DEF outboxVars, inboxVars
  <1>2. \A m \in Copy : CopyIsTrue(m)'
    BY <1>1 DEF IInv, CopyIsTrue
  <1>3. Upstream'
    BY <1>1, <1>2, ConsumerFrame DEF IInv, TypeOK
  <1>4. InboxMatchesEffect'
    BY <1>1 DEF IInv, InboxMatchesEffect
  <1> QED BY <1>1, <1>2, <1>3, <1>4 DEF IInv, Upstream

\* The broker takes unacked copies back.
LEMMA ReturnFacts ==
  ASSUME IInv, NEW S, \A m \in S : m \in Copy /\ place[m] = "unacked", Return(S)
  PROVE  /\ UNCHANGED <<topology, event>>
         /\ place' \in [Copy -> Places] /\ returns' \in [Copy -> 0..DeliveryLimit + 1]
         /\ owner' \in [Copy -> Consumer \cup {None}]
         /\ \A m \in Copy : place'[m] = "unused" <=> place[m] = "unused"
         /\ \A m \in Copy : place'[m] = "acked" => place[m] = "acked"
         /\ \A m \in Copy : place'[m] # "dlq" => returns'[m] <= DeliveryLimit
  <1>1. /\ place \in [Copy -> Places] /\ returns \in [Copy -> 0..DeliveryLimit + 1]
        /\ owner \in [Copy -> Consumer \cup {None}]
        /\ \A m \in Copy : place[m] # "dlq" => returns[m] <= DeliveryLimit
    BY DEF IInv, TypeOK, CopyIsTrue
  <1> QED BY <1>1, DeliveryAssumption DEF Return, Places

\* A copy that parses and is there is of a committed row.
LEMMA ParsedIsCommitted ==
  ASSUME IInv, NEW m \in Copy, place[m] # "unused", event[m] \in OrderPlacedSchema
  PROVE  \E e \in outbox : /\ event[m] = toOrderPlacedEvent(e)
                            /\ event[m].eventId = eventIdFor("order.placed", e)
                            /\ event[m].orderId = e
  <1>1. event[m] # Poison
    BY DeliveryAssumption
  <1>2. PICK e \in outbox : event[m] = toOrderPlacedEvent(e)
    BY <1>1 DEF IInv, CopyIsTrue
  <1> QED BY <1>2, PayloadFacts DEF IInv, TypeOK

\* The inbox knows exactly the events with a receipt.
LEMMA InboxIds ==
  ASSUME IInv, NEW e \in Event
  PROVE  eventIdFor("order.placed", e) \in processed <=> e \in receipts
  <1>1. processed = {eventIdFor("order.placed", o) : o \in receipts} /\ receipts \subseteq Event
    BY DEF IInv, InboxMatchesEffect, TypeOK
  <1> QED BY <1>1, PayloadFacts

\* Declarations, subscriptions and deliveries.
LEMMA DeliverKeeps ==
  ASSUME IInv, NEW c \in Consumer,
         AssertTopology(c) \/ Subscribe(c) \/ \E m \in Copy : Deliver(c, m)
  PROVE  IInv'
  <1> USE DeliveryAssumption
  <1>1. CASE AssertTopology(c) \/ Subscribe(c)
    <2>1. /\ UNCHANGED <<outboxVars, relayVars, event, place, returns, owner, handler,
                         inboxVars, faults>>
          /\ topology' \in 0..Bound /\ status' \in [Consumer -> {"down", "up", "cut"}]
          /\ asserted' \in [Consumer -> 0..Bound]
      <3>1. CASE AssertTopology(c)
        <4>1. asserted[c] \in 0..3 /\ topology \in 0..4 /\ asserted \in [Consumer -> 0..4]
          BY <3>1 DEF AssertTopology, IInv, TypeOK, Bound
        <4> QED BY <3>1, <4>1 DEF AssertTopology, IInv, TypeOK, Bound
      <3>2. CASE Subscribe(c)
        BY <3>2 DEF Subscribe, IInv, TypeOK, brokerVars
      <3> QED BY <1>1, <3>1, <3>2
    <2>2. TypeOK'
      BY <2>1 DEF IInv, TypeOK, outboxVars, relayVars, inboxVars
    <2> QED BY <2>1, <2>2, MoveKeeps DEF IInv, CopyIsTrue, HandlerKnows, outboxVars, inboxVars
  <1>2. ASSUME NEW m \in Copy, Deliver(c, m) PROVE IInv'
    <2>1. /\ UNCHANGED <<outboxVars, relayVars, topology, event, returns, status, asserted,
                         inboxVars, faults>>
          /\ place[m] = "work" /\ place' = [place EXCEPT ![m] = "unacked"]
          /\ owner' = [owner EXCEPT ![m] = c]
          /\ handler' = [handler EXCEPT ![<<c, m>>] = "received"]
      BY <1>2 DEF Deliver
    <2>2. TypeOK'
      BY <2>1 DEF IInv, TypeOK, outboxVars, relayVars, inboxVars, Places
    <2>3. ASSUME NEW d \in Consumer, NEW k \in Copy PROVE HandlerKnows(d, k)'
      <3>1. handler'[<<d, k>>] \in {"received", handler[<<d, k>>]}
        BY <2>1 DEF IInv, TypeOK
      <3>2. place'[k] = "unused" <=> place[k] = "unused"
        BY <2>1 DEF IInv, TypeOK
      <3>3. handler'[<<d, k>>] # handler[<<d, k>>] => k = m
        BY <2>1 DEF IInv, TypeOK
      <3> QED BY <2>1, <3>1, <3>2, <3>3 DEF IInv, HandlerKnows, outboxVars, inboxVars
    <2>4. \A k \in Copy : /\ place'[k] = "unused" <=> place[k] = "unused"
                          /\ place'[k] = "acked" => place[k] = "acked"
                          /\ place'[k] # "dlq" => place[k] # "dlq"
      BY <2>1 DEF IInv, TypeOK
    <2>5. \A g \in Consumer \X Copy : handler'[g] = "claimed" => handler[g] = "claimed"
      BY <2>1 DEF IInv, TypeOK
    <2> QED BY <2>1, <2>2, <2>3, <2>4, <2>5, MoveKeeps DEF IInv, CopyIsTrue
  <1> QED BY <1>1, <1>2

\* ack and reject: the delivery is settled, or its channel is gone.
LEMMA SettleKeeps ==
  ASSUME IInv, NEW c \in Consumer, NEW m \in Copy, RejectPoison(c, m) \/ Ack(c, m)
  PROVE  IInv'
  <1>1. PICK where \in {"dlq", "acked"} :
          /\ Settle(c, m, where) /\ HandlerGoto(c, m, "idle")
          /\ where = "acked" => handler[<<c, m>>] = "applied"
          /\ UNCHANGED <<outboxVars, relayVars, status, asserted, inboxVars, faults>>
    BY DEF RejectPoison, Ack
  <1>2. /\ UNCHANGED <<topology, event, returns>>
        /\ handler' = [handler EXCEPT ![<<c, m>>] = "idle"]
        /\ \/ /\ place[m] = "unacked" /\ place' = [place EXCEPT ![m] = where]
              /\ owner' = [owner EXCEPT ![m] = None]
           \/ UNCHANGED <<place, owner>>
    BY <1>1 DEF Settle, HandlerGoto, Unacked
  <1>3. TypeOK'
    BY <1>1, <1>2 DEF IInv, TypeOK, outboxVars, relayVars, inboxVars, Places
  <1>4. ASSUME NEW k \in Copy
        PROVE  /\ place'[k] = "unused" <=> place[k] = "unused"
               /\ place'[k] = "acked" => place[k] = "acked" \/ (k = m /\ where = "acked")
               /\ place'[k] # "dlq" => place[k] # "dlq"
    <2>1. place \in [Copy -> Places] /\ where \in {"dlq", "acked"}
      BY <1>1 DEF IInv, TypeOK
    <2>2. place'[k] = place[k] \/ (k = m /\ place[k] = "unacked" /\ place'[k] = where)
      BY <1>2, <2>1
    <2> QED BY <2>1, <2>2
  <1>5. \A k \in Copy : place'[k] = "acked" => \E e \in receipts : event[k] = toOrderPlacedEvent(e)
    BY <1>1, <1>4 DEF IInv, CopyIsTrue, HandlerKnows
  <1>6. ASSUME NEW d \in Consumer, NEW k \in Copy PROVE HandlerKnows(d, k)'
    <2>1. handler'[<<d, k>>] \in {"idle", handler[<<d, k>>]}
      BY <1>2 DEF IInv, TypeOK
    <2> QED BY <1>1, <1>2, <1>4, <2>1 DEF IInv, HandlerKnows, outboxVars, inboxVars
  <1>7. \A g \in Consumer \X Copy : handler'[g] = "claimed" => handler[g] = "claimed"
    BY <1>2 DEF IInv, TypeOK
  <1> QED BY <1>1, <1>2, <1>3, <1>4, <1>5, <1>6, <1>7, MoveKeeps DEF IInv, CopyIsTrue

\* The broker takes copies back: one that was rejected, or all of a channel.
LEMMA ReturnKeeps ==
  ASSUME IInv, NEW c \in Consumer,
         \/ CutConsumer(c) \/ ConsumerDies(c) \/ RestartConsumer(c)
         \/ \E m \in Copy : EffectFails(c, m) /\ UNCHANGED inboxVars
  PROVE  IInv'
  <1>1. PICK S \in SUBSET Unacked(c) :
          /\ Return(S)
          /\ UNCHANGED <<outboxVars, relayVars, inboxVars>>
          /\ \A g \in Consumer \X Copy : handler'[g] \in {"idle", handler[g]}
          /\ handler' \in [Consumer \X Copy -> {"idle", "received", "claimed", "applied"}]
          /\ status' \in [Consumer -> {"down", "up", "cut"}]
          /\ asserted' \in [Consumer -> 0..Bound] /\ faults' \in 0..MaxFaults
    <2>1. CASE CutConsumer(c)
      BY <2>1, DeliveryAssumption DEF CutConsumer, IInv, TypeOK, Fault
    <2>2. CASE ConsumerDies(c) \/ RestartConsumer(c)
      <3>1. StopConsumer(c) /\ faults' \in 0..MaxFaults
        BY <2>2, DeliveryAssumption DEF ConsumerDies, RestartConsumer, IInv, TypeOK, Fault
      <3>2. /\ \A g \in Consumer \X Copy : handler'[g] \in {"idle", handler[g]}
            /\ handler' \in [Consumer \X Copy -> {"idle", "received", "claimed", "applied"}]
        BY <3>1 DEF StopConsumer, IInv, TypeOK
      <3>3. /\ Return(Unacked(c)) /\ UNCHANGED <<outboxVars, relayVars, inboxVars>>
            /\ status' \in [Consumer -> {"down", "up", "cut"}]
            /\ asserted' \in [Consumer -> 0..Bound]
        BY <3>1 DEF StopConsumer, IInv, TypeOK, Bound
      <3> QED BY <3>1, <3>2, <3>3
    <2>3. ASSUME NEW m \in Copy, EffectFails(c, m), UNCHANGED inboxVars
          PROVE  \E S \in SUBSET Unacked(c) :
                    /\ Return(S)
                    /\ UNCHANGED <<outboxVars, relayVars, inboxVars>>
                    /\ \A g \in Consumer \X Copy : handler'[g] \in {"idle", handler[g]}
                    /\ handler' \in [Consumer \X Copy -> {"idle", "received", "claimed", "applied"}]
                    /\ status' \in [Consumer -> {"down", "up", "cut"}]
                    /\ asserted' \in [Consumer -> 0..Bound] /\ faults' \in 0..MaxFaults
      BY <2>3, DeliveryAssumption DEF EffectFails, HandlerGoto, IInv, TypeOK, Fault
    <2> QED BY <2>1, <2>2, <2>3
  <1>2. /\ UNCHANGED <<topology, event>>
        /\ place' \in [Copy -> Places] /\ returns' \in [Copy -> 0..DeliveryLimit + 1]
        /\ owner' \in [Copy -> Consumer \cup {None}]
        /\ \A m \in Copy : place'[m] = "unused" <=> place[m] = "unused"
        /\ \A m \in Copy : place'[m] = "acked" => place[m] = "acked"
        /\ \A m \in Copy : place'[m] # "dlq" => returns'[m] <= DeliveryLimit
    BY <1>1, ReturnFacts DEF Unacked
  <1>3. TypeOK'
    BY <1>1, <1>2 DEF IInv, TypeOK, outboxVars, relayVars, inboxVars
  <1>4. ASSUME NEW d \in Consumer, NEW k \in Copy PROVE HandlerKnows(d, k)'
    <2>1. handler'[<<d, k>>] \in {"idle", handler[<<d, k>>]}
      BY <1>1
    <2> QED BY <1>1, <1>2, <2>1 DEF IInv, HandlerKnows, outboxVars, inboxVars
  <1>5. \A g \in Consumer \X Copy : handler'[g] = "claimed" => handler[g] = "claimed"
    BY <1>1
  <1> QED BY <1>1, <1>2, <1>3, <1>4, <1>5, MoveKeeps DEF IInv, CopyIsTrue

\* A duplicate: its event has had its effect.
LEMMA SkipKeeps ==
  ASSUME IInv, NEW c \in Consumer, NEW m \in Copy, SkipDuplicate(c, m)
  PROVE  IInv'
  <1>1. /\ UNCHANGED <<outboxVars, relayVars, brokerVars, status, asserted, inboxVars, faults>>
        /\ handler' = [handler EXCEPT ![<<c, m>>] = "applied"]
        /\ handler[<<c, m>>] = "received" /\ event[m] \in OrderPlacedSchema
        /\ event[m].eventId \in processed
    BY DEF SkipDuplicate, HandlerGoto
  <1>2. place[m] # "unused"
    BY <1>1 DEF IInv, HandlerKnows
  <1>3. PICK e \in outbox : /\ event[m] = toOrderPlacedEvent(e)
                            /\ event[m].eventId = eventIdFor("order.placed", e)
    BY <1>1, <1>2, ParsedIsCommitted
  <1>4. e \in receipts
    BY <1>1, <1>3, InboxIds DEF IInv, TypeOK
  <1>5. UNCHANGED <<outbox, event, place, returns, receipts>>
    BY <1>1 DEF outboxVars, brokerVars, inboxVars
  <1>6. TypeOK'
    BY <1>1 DEF IInv, TypeOK, outboxVars, relayVars, brokerVars, inboxVars
  <1>7. ASSUME NEW d \in Consumer, NEW k \in Copy PROVE HandlerKnows(d, k)'
    <2>1. CASE d = c /\ k = m
      <3>1. handler'[<<d, k>>] = "applied"
        BY <1>1, <2>1 DEF IInv, TypeOK
      <3> QED BY <1>2, <1>3, <1>4, <1>5, <2>1, <3>1 DEF HandlerKnows
    <2>2. CASE ~ (d = c /\ k = m)
      <3>1. handler'[<<d, k>>] = handler[<<d, k>>]
        BY <1>1, <2>2 DEF IInv, TypeOK
      <3> QED BY <1>5, <3>1 DEF IInv, HandlerKnows
    <2> QED BY <2>1, <2>2
  <1>8. \A g \in Consumer \X Copy : handler'[g] = "claimed" => handler[g] = "claimed"
    BY <1>1 DEF IInv, TypeOK
  <1> QED BY <1>1, <1>5, <1>6, <1>7, <1>8, MoveKeeps DEF IInv, CopyIsTrue

\* INSERT INTO processed_messages: nobody else has this row, committed or not.
LEMMA ClaimKeeps ==
  ASSUME IInv, NEW c \in Consumer, NEW m \in Copy, ClaimInbox(c, m)
  PROVE  IInv'
  <1>1. /\ UNCHANGED <<outboxVars, relayVars, brokerVars, status, asserted, inboxVars, faults>>
        /\ handler' = [handler EXCEPT ![<<c, m>>] = "claimed"]
        /\ handler[<<c, m>>] = "received" /\ event[m] \in OrderPlacedSchema
        /\ event[m].eventId \notin processed /\ ~ InboxLocked(event[m].eventId)
    BY DEF ClaimInbox, HandlerGoto
  <1>2. place[m] # "unused"
    BY <1>1 DEF IInv, HandlerKnows
  <1>3. PICK e \in outbox : /\ event[m] = toOrderPlacedEvent(e)
                            /\ event[m].eventId = eventIdFor("order.placed", e)
                            /\ event[m].orderId = e
    BY <1>1, <1>2, ParsedIsCommitted
  <1>4. e \notin receipts
    BY <1>1, <1>3, InboxIds DEF IInv, TypeOK
  <1>5. UNCHANGED <<outbox, event, place, returns, receipts, processed>>
    BY <1>1 DEF outboxVars, brokerVars, inboxVars
  <1>6. TypeOK'
    BY <1>1 DEF IInv, TypeOK, outboxVars, relayVars, brokerVars, inboxVars
  <1>7. ASSUME NEW d \in Consumer, NEW k \in Copy PROVE HandlerKnows(d, k)'
    <2>1. CASE d = c /\ k = m
      <3>1. handler'[<<d, k>>] = "claimed"
        BY <1>1, <2>1 DEF IInv, TypeOK
      <3> QED BY <1>2, <1>3, <1>4, <1>5, <2>1, <3>1 DEF HandlerKnows
    <2>2. CASE ~ (d = c /\ k = m)
      <3>1. handler'[<<d, k>>] = handler[<<d, k>>]
        BY <1>1, <2>2 DEF IInv, TypeOK
      <3> QED BY <1>5, <3>1 DEF IInv, HandlerKnows
    <2> QED BY <2>1, <2>2
  <1>8. \A k \in Copy : CopyIsTrue(k)'
    BY <1>5 DEF IInv, CopyIsTrue
  <1>9. Upstream'
    BY <1>1, <1>5, <1>8, ConsumerFrame DEF IInv, TypeOK
  <1>10. InboxMatchesEffect'
    <2>1. \A g \in Consumer \X Copy : g # <<c, m>> => handler'[g] = handler[g]
      BY <1>1 DEF IInv, TypeOK
    <2>2. \A g \in Consumer \X Copy :
            handler[g] = "claimed" => event[g[2]] # event[m]
      BY <1>1 DEF InboxLocked
    <2>3. processed' = {eventIdFor("order.placed", o) : o \in receipts'}
      BY <1>5 DEF IInv, InboxMatchesEffect
    <2>4. ASSUME NEW g \in Consumer \X Copy, NEW h \in Consumer \X Copy,
                 handler'[g] = "claimed", handler'[h] = "claimed"
          PROVE  /\ event'[g[2]].orderId \notin receipts'
                 /\ event'[g[2]] = event'[h[2]] => g = h
      BY <1>3, <1>4, <1>5, <2>1, <2>2, <2>4 DEF IInv, InboxMatchesEffect
    <2> QED BY <2>3, <2>4 DEF InboxMatchesEffect
  <1> QED BY <1>1, <1>5, <1>6, <1>7, <1>8, <1>9, <1>10 DEF IInv, Upstream

\* The COMMIT of inbox row and receipt, whether or not the handler hears of it:
\* every other transaction that has claimed a row has claimed another event's.
LEMMA ApplyKeeps ==
  ASSUME IInv, NEW c \in Consumer, NEW m \in Copy,
         \/ CommitEffect(c, m)
         \/ EffectFails(c, m) /\ handler[<<c, m>>] = "claimed" /\ ApplyEffect(event[m])
  PROVE  IInv'
  <1>1. /\ handler[<<c, m>>] = "claimed" /\ ApplyEffect(event[m])
        /\ UNCHANGED <<outboxVars, relayVars, status, asserted, event, topology>>
    BY DEF CommitEffect, EffectFails, Return, brokerVars
  <1>2. PICK where \in {"idle", "applied"} : handler' = [handler EXCEPT ![<<c, m>>] = where]
    BY DEF CommitEffect, EffectFails, HandlerGoto
  <1>3. PICK e \in outbox \ receipts : event[m] = toOrderPlacedEvent(e)
    BY <1>1 DEF IInv, HandlerKnows
  <1>4. /\ e \in Event /\ event[m].eventId = eventIdFor("order.placed", e)
        /\ event[m].orderId = e
    BY <1>3, PayloadFacts DEF IInv, TypeOK
  <1>5. /\ processed' = processed \cup {eventIdFor("order.placed", e)}
        /\ receipts' = receipts \cup {e}
    BY <1>1, <1>4 DEF ApplyEffect
  <1>6. /\ place' \in [Copy -> Places] /\ returns' \in [Copy -> 0..DeliveryLimit + 1]
        /\ owner' \in [Copy -> Consumer \cup {None}] /\ faults' \in 0..MaxFaults
        /\ \A k \in Copy : place'[k] = "unused" <=> place[k] = "unused"
        /\ \A k \in Copy : place'[k] = "acked" => place[k] = "acked"
        /\ \A k \in Copy : place'[k] # "dlq" => returns'[k] <= DeliveryLimit
    <2>1. CASE CommitEffect(c, m)
      BY <2>1 DEF CommitEffect, brokerVars, IInv, TypeOK, CopyIsTrue
    <2>2. CASE EffectFails(c, m)
      <3>1. Return({m} \cap Unacked(c)) /\ faults' \in 0..MaxFaults
        BY <2>2, DeliveryAssumption DEF EffectFails, Fault, IInv, TypeOK
      <3> QED BY <3>1, ReturnFacts DEF Unacked
    <2> QED BY <2>1, <2>2
  <1>7. /\ outbox \subseteq Event /\ receipts \subseteq outbox
        /\ processed \subseteq {"order.placed"} \X Event
        /\ handler \in [Consumer \X Copy -> {"idle", "received", "claimed", "applied"}]
    BY DEF IInv, TypeOK
  <1>8. UNCHANGED outbox
    BY <1>1 DEF outboxVars
  <1>9. TypeOK'
    <2>1. processed' \subseteq {"order.placed"} \X Event /\ receipts' \subseteq Event
      BY <1>4, <1>5, <1>7 DEF eventIdFor
    <2>2. handler' \in [Consumer \X Copy -> {"idle", "received", "claimed", "applied"}]
      BY <1>2, <1>7
    <2> QED BY <1>1, <1>6, <2>1, <2>2 DEF IInv, TypeOK, outboxVars, relayVars
  <1>10. \A k \in Copy : CopyIsTrue(k)'
    BY <1>1, <1>5, <1>6, <1>8 DEF IInv, CopyIsTrue
  <1>11. Upstream'
    BY <1>1, <1>5, <1>6, <1>9, <1>10, ConsumerFrame DEF TypeOK
  <1>12. \A g \in Consumer \X Copy : handler'[g] = "claimed" =>
           handler[g] = "claimed" /\ g # <<c, m>>
    BY <1>2, <1>7
  <1>13. ASSUME NEW g \in Consumer \X Copy, handler'[g] = "claimed"
         PROVE  \E d \in outbox \ receipts' :
                   event[g[2]] = toOrderPlacedEvent(d) /\ event[g[2]].orderId = d
    <2>1. handler[g] = "claimed" /\ g # <<c, m>> /\ <<c, m>> \in Consumer \X Copy
      BY <1>12, <1>13
    <2>2. event[g[2]] # event[m]
      BY <1>1, <2>1 DEF IInv, InboxMatchesEffect
    <2>3. g[1] \in Consumer /\ g[2] \in Copy /\ g = <<g[1], g[2]>>
      OBVIOUS
    <2>4. HandlerKnows(g[1], g[2]) /\ handler[<<g[1], g[2]>>] = "claimed"
      BY <2>1, <2>3 DEF IInv
    <2>5. PICK d \in outbox \ receipts : event[g[2]] = toOrderPlacedEvent(d)
      BY <2>4 DEF HandlerKnows
    <2>6. d # e /\ event[g[2]].orderId = d
      BY <1>3, <1>7, <2>2, <2>5, PayloadFacts
    <2> QED BY <1>5, <2>5, <2>6
  <1>14. ASSUME NEW d \in Consumer, NEW k \in Copy PROVE HandlerKnows(d, k)'
    <2>1. HandlerKnows(d, k) /\ <<d, k>> \in Consumer \X Copy
      BY DEF IInv
    <2>2. handler'[<<d, k>>] # "idle" => place'[k] # "unused"
      BY <1>1, <1>2, <1>6, <1>7, <2>1 DEF HandlerKnows
    <2>3. handler'[<<d, k>>] = "claimed" =>
            \E x \in (outbox \ receipts)' : event'[k] = toOrderPlacedEvent(x)
      BY <1>1, <1>8, <1>13, <2>1
    <2>4. handler'[<<d, k>>] = "applied" =>
            \E x \in receipts' : event'[k] = toOrderPlacedEvent(x)
      <3>1. CASE d = c /\ k = m
        BY <1>1, <1>3, <1>5, <3>1
      <3>2. CASE ~ (d = c /\ k = m)
        <4>1. handler'[<<d, k>>] = handler[<<d, k>>]
          BY <1>2, <1>7, <3>2
        <4> QED BY <1>1, <1>5, <2>1, <4>1 DEF HandlerKnows
      <3> QED BY <3>1, <3>2
    <2> QED BY <2>2, <2>3, <2>4 DEF HandlerKnows, toOrderPlacedEvent, eventIdFor
  <1>15. InboxMatchesEffect'
    <2>1. processed' = {eventIdFor("order.placed", o) : o \in receipts'}
      <3>1. processed = {eventIdFor("order.placed", o) : o \in receipts}
        BY DEF IInv, InboxMatchesEffect
      <3> QED BY <1>5, <3>1
    <2>2. \A g, h \in Consumer \X Copy :
            handler'[g] = "claimed" /\ handler'[h] = "claimed" =>
              /\ event'[g[2]].orderId \notin receipts'
              /\ event'[g[2]] = event'[h[2]] => g = h
      <3>1. SUFFICES ASSUME NEW g \in Consumer \X Copy, NEW h \in Consumer \X Copy,
                            handler'[g] = "claimed", handler'[h] = "claimed"
                     PROVE  /\ event'[g[2]].orderId \notin receipts'
                            /\ event'[g[2]] = event'[h[2]] => g = h
        OBVIOUS
      <3>2. event[g[2]].orderId \notin receipts'
        BY <1>13, <3>1
      <3>3. event[g[2]] = event[h[2]] => g = h
        BY <1>12, <3>1 DEF IInv, InboxMatchesEffect
      <3> QED BY <1>1, <3>2, <3>3
    <2> QED BY <2>1, <2>2 DEF InboxMatchesEffect, eventIdFor
  <1>16. receipts' \subseteq outbox'
    BY <1>3, <1>5, <1>7, <1>8
  <1> QED BY <1>9, <1>10, <1>11, <1>14, <1>15, <1>16 DEF IInv, Upstream

\* Nothing the model remembers changes.
LEMMA StutterKeeps ==
  ASSUME IInv, UNCHANGED vars
  PROVE  IInv'
  <1>1. /\ UNCHANGED <<outboxVars, relayVars, event, inboxVars>>
        /\ UNCHANGED <<outbox, place, returns, receipts, handler>>
    BY DEF vars, outboxVars, brokerVars, consumerVars, inboxVars
  <1>2. TypeOK'
    BY DEF IInv, TypeOK, vars, outboxVars, relayVars, brokerVars, consumerVars, inboxVars
  <1>3. \A c \in Consumer, m \in Copy : HandlerKnows(c, m)'
    BY <1>1 DEF IInv, HandlerKnows
  <1> QED BY <1>1, <1>2, <1>3, MoveKeeps DEF IInv, CopyIsTrue

-----------------------------------------------------------------------------
(* The theorems *)

\* Every step of the relays, the broker and the consumers keeps the inductive
\* invariant: nothing relay.ts, publisher.ts or consumer.ts does, in any order and with
\* any failure of the model, breaks the chain from the outbox row to its receipt.
THEOREM DeliveryInvariant == Spec => []IInv
  <1>1. Init => IInv
    BY DeliveryInit
  <1>2. IInv /\ [Next]_vars => IInv'
    <2>1. SUFFICES ASSUME IInv, [Next]_vars PROVE IInv'
      OBVIOUS
    <2>2. ASSUME NEW e \in Event, CommitRow(e) PROVE IInv'
      BY <2>1, <2>2, CommitRowKeeps
    <2>3. ASSUME NEW r \in Relay, RelayStep(r) \/ RelayFault(r) \/ RestartRelay(r)
          PROVE  IInv'
      BY <2>1, <2>3, RelayKeeps, PublishKeeps DEF RelayStep, RelayFault
    <2>4. ASSUME NEW m \in Copy, PublishPoison(m) PROVE IInv'
      BY <2>1, <2>4, PoisonKeeps
    <2>5. ASSUME NEW c \in Consumer,
                 \/ AssertTopology(c) \/ Subscribe(c)
                 \/ CutConsumer(c) \/ ConsumerDies(c) \/ RestartConsumer(c)
                 \/ \E m \in Copy : Deliver(c, m)
          PROVE  IInv'
      BY <2>1, <2>5, DeliverKeeps, ReturnKeeps
    <2>6. ASSUME NEW c \in Consumer, NEW m \in Copy, HandlerStep(c, m) PROVE IInv'
      BY <2>1, <2>6, SettleKeeps, ClaimKeeps, SkipKeeps, ApplyKeeps DEF HandlerStep
    <2>7. ASSUME NEW c \in Consumer, NEW m \in Copy, EffectFails(c, m) PROVE IInv'
      <3>1. UNCHANGED inboxVars \/ (handler[<<c, m>>] = "claimed" /\ ApplyEffect(event[m]))
        BY <2>7 DEF EffectFails
      <3> QED BY <2>1, <2>7, <3>1, ReturnKeeps, ApplyKeeps
    <2>8. CASE UNCHANGED vars
      BY <2>1, <2>8, StutterKeeps
    <2> QED BY <2>1, <2>2, <2>3, <2>4, <2>5, <2>6, <2>7, <2>8 DEF Next
  <1> QED BY <1>1, <1>2, PTL DEF Spec

\* relay.ts publishes before it marks and consumer.ts acks after the effect: with any
\* number of relays, consumers, copies and failures no event is lost between the two.
THEOREM DeliveryNoEventLost == Spec => []NoEventLost
  <1>1. IInv => NoEventLost
    <2>1. SUFFICES ASSUME IInv PROVE NoEventLost
      OBVIOUS
    <2>2. \A e \in published : e \in receipts \/ Held(e)
      BY <2>1 DEF IInv, Safe
    <2>3. ASSUME NEW m \in Copy, place[m] = "acked" PROVE event[m].orderId \in receipts
      <3>1. PICK e \in receipts : event[m] = toOrderPlacedEvent(e)
        BY <2>1, <2>3 DEF IInv, CopyIsTrue
      <3> QED BY <2>1, <3>1, PayloadFacts DEF IInv, TypeOK
    <2> QED BY <2>2, <2>3 DEF NoEventLost
  <1> QED BY <1>1, DeliveryInvariant, PTL

\* consumer.ts writes the inbox row and the receipt in one COMMIT: they always agree,
\* and two transactions never hold the inbox row of one event.
THEOREM DeliveryInboxMatchesEffect == Spec => []InboxMatchesEffect
  <1>1. IInv => InboxMatchesEffect
    BY DEF IInv
  <1> QED BY <1>1, DeliveryInvariant, PTL

\* No receipt without an order: every effect is of an event that some checkout committed.
THEOREM DeliveryNoPhantomReceipt == Spec => [](receipts \subseteq outbox)
  <1>1. IInv => receipts \subseteq outbox
    BY DEF IInv
  <1> QED BY <1>1, DeliveryInvariant, PTL

\* Only ch.publish makes copies of events, and it publishes a row of the relay's batch.
LEMMA OnlyPublishCopies ==
  ASSUME IInv, Next
  PROVE  \/ UNCHANGED event
         \/ \E m \in Copy : Enqueue(m, Poison)
         \/ \E r \in Relay : Publish(r)
  <1>1. ASSUME NEW r \in Relay, RelayStep(r) \/ RelayFault(r) \/ RestartRelay(r)
        PROVE  UNCHANGED event \/ Publish(r)
    BY <1>1 DEF RelayStep, RelayFault, RestartRelay, ClaimBatch, Confirm, PublishFails,
         MarkPublished, NoExchange, PublishLost, PublishNacked, PassFails, CutRelay,
         RelayDies, brokerVars
  <1>2. ASSUME NEW c \in Consumer,
               \/ AssertTopology(c) \/ Subscribe(c)
               \/ CutConsumer(c) \/ ConsumerDies(c) \/ RestartConsumer(c)
        PROVE  UNCHANGED event
    BY <1>2 DEF AssertTopology, Subscribe, CutConsumer, ConsumerDies, RestartConsumer,
         StopConsumer, Return, brokerVars
  <1>3. ASSUME NEW c \in Consumer, NEW m \in Copy,
               Deliver(c, m) \/ HandlerStep(c, m) \/ EffectFails(c, m)
        PROVE  UNCHANGED event
    BY <1>3 DEF Deliver, HandlerStep, EffectFails, RejectPoison, ClaimInbox, SkipDuplicate,
         CommitEffect, Ack, Settle, Return, brokerVars
  <1>4. ASSUME NEW e \in Event, CommitRow(e) PROVE UNCHANGED event
    BY <1>4 DEF CommitRow, brokerVars
  <1>5. ASSUME NEW m \in Copy, PublishPoison(m) PROVE Enqueue(m, Poison)
    BY <1>5 DEF PublishPoison
  <1> QED BY <1>1, <1>2, <1>3, <1>4, <1>5 DEF Next

\* The relay's SELECT skips the rows with published_at set and its locks keep other
\* relays from marking what it works on: a marked row is never published again.
THEOREM DeliveryMarkedIsNotResent == Spec => MarkedIsNotResent
  <1>1. ASSUME IInv, [Next]_vars, NEW m \in Copy, event[m] = None, NEW e \in published
        PROVE  event'[m] # toOrderPlacedEvent(e)
    <2>1. /\ e \in Event /\ published \subseteq Event
          /\ event \in [Copy -> OrderPlacedSchema \cup {Poison, None}]
      BY <1>1 DEF IInv, TypeOK
    <2>2. toOrderPlacedEvent(e) # None /\ toOrderPlacedEvent(e) # Poison
      BY <2>1, PayloadFacts, DeliveryAssumption
    <2>3. CASE UNCHANGED event
      BY <1>1, <2>2, <2>3
    <2>4. ASSUME NEW k \in Copy, Enqueue(k, Poison) PROVE event'[m] # toOrderPlacedEvent(e)
      <3>1. event'[m] \in {None, Poison}
        BY <1>1, <2>1, <2>4 DEF Enqueue
      <3> QED BY <2>2, <3>1
    <2>5. ASSUME NEW r \in Relay, Publish(r) PROVE event'[m] # toOrderPlacedEvent(e)
      <3>1. PassHolds(r) /\ batch[r] \subseteq Event
        BY <1>1 DEF IInv, TypeOK
      <3>2. Current(r) \in batch[r] \ done[r]
        BY <2>5, <3>1, CurrentIsInBatch DEF Publish, PassHolds
      <3>3. Current(r) \in Event /\ Current(r) # e
        BY <3>1, <3>2 DEF PassHolds
      <3>4. toOrderPlacedEvent(Current(r)) # toOrderPlacedEvent(e)
        BY <2>1, <3>3, PayloadFacts
      <3>5. event'[m] \in {None, toOrderPlacedEvent(Current(r))}
        BY <1>1, <2>1, <2>5 DEF Publish, Enqueue
      <3> QED BY <2>2, <3>4, <3>5
    <2> QED BY <1>1, <2>3, <2>4, <2>5, OnlyPublishCopies DEF vars, brokerVars
  <1>2. IInv /\ [Next]_vars =>
          [\A m \in Copy : event[m] = None =>
             \A e \in published : event'[m] # toOrderPlacedEvent(e)]_vars
    BY <1>1
  <1> QED BY <1>2, DeliveryInvariant, PTL DEF Spec, MarkedIsNotResent
=============================================================================
