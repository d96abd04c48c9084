----------------------------- MODULE EdgeCache ------------------------------
(***************************************************************************)
(* The edge in front of the closed bucket (src/cdn/edge.ts) and the        *)
(* publishing of assets under a name made of a hash of their content       *)
(* (src/cdn/assets.ts). Eight hex digits may be the same for two contents, *)
(* so a name may be put again with other bytes; and whoever has access to  *)
(* the bucket may put under assets/ without a Cache-Control, over what is  *)
(* there. Puts are numbered. Between a request's miss and its answer the   *)
(* edge waits twice, for GetObject and for the body.                       *)
(***************************************************************************)
EXTENDS Clock

CONSTANTS
  Content,          \* what app.css may contain
  Key,              \* names under assets/
  Digest,           \* Digest[c]: the name that hashedKey makes of content c
  MaxPuts,          \* bound: puts
  MaxEdgeTime,      \* bound: the last instant at the edge, within MaxTime
  MaxAge,           \* max-age of IMMUTABLE
  Hit               \* requests to the edge, each of them again and again

ASSUME EdgeAssumption ==
  /\ Digest \in [Content -> Key] /\ MaxPuts \in Nat /\ MaxEdgeTime \in Nat
  /\ MaxAge \in Nat \ {0}

VARIABLES
  bucket,           \* bucket[k]: which put is there, 0 for none
  puts,             \* how many puts there were
  maxAge,           \* maxAge[n]: max-age of put n, 0: no Cache-Control
  goneAt,           \* history: when put n was overwritten or deleted, or None
  edge,             \* edge[k]: which put is in the Map and until when, or None
  epc, ekey,        \* where a request is and the key it is for
  began,            \* when it asked the bucket
  object,           \* which put GetObject answered it with
  answered,         \* history: which put the last 200 was, 0 before the first
  outdated,         \* history: for how long that had been gone by then
  slowest           \* history: the longest wait for the bucket

stored == <<bucket, puts, maxAge, goneAt>>
handlers == <<epc, ekey, began, object>>
served == <<answered, outdated, slowest>>
edgeOnly == <<stored, edge, handlers, served>>
edgeVars == <<now, edgeOnly>>

Put == 1..MaxPuts

EdgeTypeOK ==
  /\ bucket \in [Key -> 0..MaxPuts] /\ puts \in 0..MaxPuts
  /\ maxAge \in [Put -> Nat] /\ goneAt \in [Put -> Nat \cup {None}]
  /\ edge \in [Key -> [put : Put, expires : Nat] \cup {None}]
  /\ epc \in [Hit -> {"idle", "origin", "body"}]
  /\ ekey \in [Hit -> Key \cup {None}] /\ began \in [Hit -> Nat]
  /\ object \in [Hit -> 0..MaxPuts]
  /\ answered \in 0..MaxPuts /\ outdated \in Nat /\ slowest \in Nat

EdgeInit ==
  /\ now = 0 /\ bucket = [k \in Key |-> 0] /\ puts = 0
  /\ maxAge = [n \in Put |-> 0] /\ goneAt = [n \in Put |-> None]
  /\ edge = [k \in Key |-> None]
  /\ epc = [q \in Hit |-> "idle"] /\ ekey = [q \in Hit |-> None]
  /\ began = [q \in Hit |-> 0] /\ object = [q \in Hit |-> 0]
  /\ answered = 0 /\ outdated = 0 /\ slowest = 0

-----------------------------------------------------------------------------
\* What was under k is gone from now on, and n is there instead.
Replace(k, n) ==
  /\ bucket' = [bucket EXCEPT ![k] = n]
  /\ goneAt' = IF bucket[k] = 0 THEN goneAt ELSE [goneAt EXCEPT ![bucket[k]] = now]

PutObject(k, age) ==
  /\ puts < MaxPuts /\ puts' = puts + 1 /\ Replace(k, puts')
  /\ maxAge' = [maxAge EXCEPT ![puts'] = age]
  /\ UNCHANGED <<now, edge, handlers, served>>

hashedKey(c) == Digest[c]

\* A deploy: PutObject with CacheControl IMMUTABLE.
publishAsset(c) == PutObject(hashedKey(c), MaxAge)

\* Somebody puts a file under assets/ by hand, without a Cache-Control.
putByHand(k) == PutObject(k, 0)

\* demo-cdn wipes assets/ in the end.
wipe(k) ==
  /\ bucket[k] # 0 /\ Replace(k, 0)
  /\ UNCHANGED <<now, puts, maxAge, edge, handlers, served>>

-----------------------------------------------------------------------------
\* Mutant: an entry is still good at the instant it expires.
FreshToTheEnd(k) == edge[k] # None /\ edge[k].expires >= now
Fresh(k) == edge[k] # None /\ edge[k].expires > now

\* 200 with put n.
Answer(n) ==
  /\ answered' = n
  /\ outdated' = IF goneAt[n] = None THEN 0 ELSE now - goneAt[n]

\* The handler finds the entry of k: HIT.
hit(k) ==
  /\ Fresh(k) /\ Answer(edge[k].put)
  /\ UNCHANGED <<now, stored, edge, handlers, slowest>>

\* It finds none, or drops one that has expired, and asks the bucket.
miss(q, k) ==
  /\ epc[q] = "idle" /\ ~ Fresh(k) /\ edge' = [edge EXCEPT ![k] = None]
  /\ epc' = [epc EXCEPT ![q] = "origin"] /\ ekey' = [ekey EXCEPT ![q] = k]
  /\ began' = [began EXCEPT ![q] = now]
  /\ UNCHANGED <<now, stored, object, served>>

\* The bucket answers GetObject; the body is still to be read.
readObject(q) ==
  /\ epc[q] = "origin" /\ bucket[ekey[q]] # 0
  /\ object' = [object EXCEPT ![q] = bucket[ekey[q]]]
  /\ epc' = [epc EXCEPT ![q] = "body"]
  /\ UNCHANGED <<now, stored, edge, ekey, began, served>>

\* The handler returns.
Return(q) ==
  /\ epc' = [epc EXCEPT ![q] = "idle"] /\ ekey' = [ekey EXCEPT ![q] = None]
  /\ began' = [began EXCEPT ![q] = 0] /\ object' = [object EXCEPT ![q] = 0]

\* ttlSec of the Cache-Control of put n.
ttlSec(n) == maxAge[n]

\* The body is there: cached if the object allows it, over what another request
\* has cached meanwhile. MISS.
fetched(q) ==
  /\ epc[q] = "body" /\ Answer(object[q]) /\ Return(q)
  /\ edge' = IF ttlSec(object[q]) = 0 THEN edge
             ELSE [edge EXCEPT ![ekey[q]] =
                     [put |-> object[q], expires |-> now + ttlSec(object[q])]]
  /\ slowest' = IF now - began[q] > slowest THEN now - began[q] ELSE slowest
  /\ UNCHANGED <<now, stored>>

\* 404 or 502: nothing is cached.
fetchFails(q) ==
  /\ epc[q] # "idle" /\ Return(q)
  /\ UNCHANGED <<now, stored, edge, served>>

EdgeTick == now < MaxEdgeTime /\ Later /\ UNCHANGED edgeOnly

EdgeNext ==
  \/ \E c \in Content : publishAsset(c)
  \/ \E k \in Key : putByHand(k) \/ wipe(k) \/ hit(k) \/ \E q \in Hit : miss(q, k)
  \/ EdgeTick \/ \E q \in Hit : readObject(q) \/ fetched(q) \/ fetchFails(q)

EdgeSpec == EdgeInit /\ [][EdgeNext]_edgeVars

-----------------------------------------------------------------------------
\* What put n, gone for d, may have been answered with: it was there when the
\* bucket was asked, and stayed at the edge for its max-age at most.
InTime(n, d) == d > slowest => d < slowest + maxAge[n]

\* edge.ts caches "only what the origin allowed": whatever order puts, deletions
\* and overlapping fetches came in, a fetch that was slow and cached an older
\* object over a newer one included, an answer is out of date by less than the
\* max-age of what it is and the slowest fetch; without a Cache-Control, by no
\* more than a fetch.
AnswersInTime == answered # 0 => InTime(answered, outdated)

\* The inductive invariant: a put in the bucket is not gone; one that a request
\* has read went, if it did, after the request had asked; one at the edge expires
\* no later than that allows.
EdgeInv ==
  /\ EdgeTypeOK /\ now \in Nat
  /\ \A n \in Put : goneAt[n] # None => goneAt[n] <= now /\ n <= puts
  /\ \A k \in Key : bucket[k] # 0 =>
       /\ bucket[k] <= puts /\ goneAt[bucket[k]] = None
       /\ \A j \in Key : bucket[j] = bucket[k] => j = k
  /\ \A q \in Hit :
       /\ epc[q] # "idle" => ekey[q] \in Key /\ began[q] <= now
       /\ epc[q] = "body" =>
            /\ object[q] \in 1..puts
            /\ goneAt[object[q]] # None => began[q] <= goneAt[object[q]]
  /\ answered <= puts /\ AnswersInTime
  /\ \A k \in Key : edge[k] # None =>
       LET n == edge[k].put IN
       /\ n <= puts /\ maxAge[n] > 0 /\ edge[k].expires <= now + maxAge[n]
       /\ goneAt[n] # None => edge[k].expires <= goneAt[n] + slowest + maxAge[n]
=============================================================================
