# Formal model of the marketplace back end

TLA+ modules, TLC configurations and TLAPS proofs for the back end of this
repository (paths below are relative to the repository). The code is a course
project that grew one subsystem at a time; its core is not the CRUD layer but a
chain of protocols that must survive concurrency and crashes:

    client --POST--> checkout() --one COMMIT--> orders, job_queue, outbox
                                                    |           |
                                       worker pool <-           -> relay -> RabbitMQ
                                     (SKIP LOCKED)                             |
                                                          consumer: inbox + receipt

Beside that chain stand the sessions of the Nest application (rotating refresh
tokens, denylist), uploads that go straight to an object storage, and an
in-memory order catalogue with an event bus, SSE and WebSocket rooms. Around them
are a Redis layer (card cache, sessions, rate limit, BullMQ), an edge cache, paging,
a retry helper for serialization failures, and what operators run: key rotation,
password rotation, backups and restore drills. The application and its
scripts reach PostgreSQL through PgBouncer in transaction mode; `rotate.sh` and the
backups go past it.

## 1. Inventory

| part | code | state it keeps | operations | interacts with |
|---|---|---|---|---|
| checkout, orders API | `src/checkout.ts`, `src/outbox/orders-api.ts` | `products.stock`, `users.balance`, `orders`, `job_queue`, `outbox`, `idempotency_keys`; row locks | claim the key, replay, take stock, take balance, insert, commit, roll back | job queue and outbox (a row per order) |
| outbox relay | `src/outbox/relay.ts`, `relay-process.ts` | `published_at`; batch and row locks of a pass | claim a batch, publish, mark, fail, poll | outbox rows, publisher |
| publisher, topology | `src/messaging/publisher.ts`, `topology.ts`, `events.ts` | the connection; exchanges, queues, dead letters | publish and wait for the confirm; declare | relay, consumer |
| consumer | `src/messaging/consumer.ts`, `consumer-process.ts` | `processed_messages`, `order_receipts`, unacknowledged deliveries | subscribe, handle, ack, reject, die | broker, database |
| job queue | `src/queue-worker.ts` | `job_queue.status`, `worker`, `processed`; row locks | claim, do, count, leave | checkout |
| sessions | `src/auth/*.ts` | `refresh_tokens`, `access_denylist`, the clock | login, refresh, reuse, logout, authenticate, purge | every HTTP handler |
| uploads | `src/files/*.ts`, `src/storage/limits.ts` | `files`; multipart uploads, parts and objects of the storage | intent, commit, plan of the parts, listing in pages, resume | storage, client |
| orders, bus, SSE, WebSocket | `src/orders/*.ts` | `ORDERS`, counters and buffers of events, subscriptions, rooms | create, change status, open a stream, connect, join | sessions (`authenticate`) |
| card cache | `src/redis/cache.ts`, `product-card.ts` | `card:<id>`, `lock:card:<id>` in Redis | get with a leader and waiters, fill, invalidate | database, recalculation job |
| recalculation job | `src/redis/queue.ts` | a BullMQ job per product, on a Redis of its own | add, process, complete, retry, stall, age out | card cache |
| rate limiter | `src/redis/rate-limit.ts` | a ZSET of request times | check, refuse, fail open | every pod |
| Redis sessions | `src/redis/session.ts`, `src/demo-session.ts` | session data with a rolling TTL | touch, create, save, destroy | browsers |
| edge cache | `src/cdn/*.ts`, `src/demo-cdn.ts` | objects by key with their expiry | hit, miss, fetch, publish, wipe | object storage |
| paging | `src/common/cursor.ts`, `src/products`, `src/orders` | arrays in memory, cursors at the clients | list, create | |
| retry | `src/concurrency/lib.ts`, `src/demo-retry.ts` | a balance, its row lock, snapshots | select, update, commit, retry | PostgreSQL |
| signing keys | `src/auth/token.service.ts`, `src/config/env.schema.ts` | keys and kids of each instance | validate, self-check, sign, verify | operator |
| password, pool and PgBouncer | `rotate.sh`, `src/database/database.module.ts`, `pgbouncer/pgbouncer.ini`, `docker-compose.yml` | role password, password file, the API's sessions with PgBouncer, PgBouncer's connections to PostgreSQL and the SCRAM keys it has | rotate, connect, authenticate, query, log in to PostgreSQL, lend, idle out | PostgreSQL |
| backups | `scripts/backup.sh`, `restore-drill.sh` | dump files, scratch container | dump, move, rotate, restore and compare | database |
| entities, bootstrap, problem responses, demos | `src/entities`, `src/migrations`, `src/main.ts`, `src/common`, `src/demo-*.ts` | none of their own, or declarations | | |

What is hard in it, and what makes each part correct:

* **checkout**: attempts that share a key, a product and a buyer overlap
  statement by statement; a COMMIT may succeed and its answer be lost. Correct
  means: no oversold stock, no lost update, the rows of a purchase together or
  not at all, one order per key, truthful answers, no deadlock.
* **relay, broker, consumer**: every process may die between any two calls, a
  connection may be cut, a confirm lost, a message delivered twice or to two
  consumers at once. Correct means: what was committed is not lost, has its
  effect once, and nothing downstream is without a committed cause.
* **job queue**: a worker dies with a row in its hands; an empty
  `SKIP LOCKED` result is not an empty queue.
* **sessions**: refreshes and logouts of one family overlap under READ
  COMMITTED, with family-wide UPDATEs over a snapshot; the denylist is purged
  while tokens are being checked.
* **uploads**: a handler makes several calls to two systems without a common
  transaction; the client sends parts again, repeats intents and commits, dies in
  the middle and is resumed by another process while its last bytes still arrive. An
  INSERT that was committed may look failed to the handler, which then cleans up.
* **orders**: clients resume streams from a bounded buffer, sockets join rooms
  before their token has been verified, a restart forgets everything.
* **card cache**: every Redis call may fail with or without its effect, a lock runs
  out under its leader, a slow reader writes an old card after the invalidation,
  BullMQ drops an `add` whose jobId it still keeps. The row, the card and the job are in
  three stores, and a crash or another process comes between any two of them.
* **limiter, Redis sessions, edge, keys, backups**: they depend on time. A request
  exactly a window old, a `save` after `destroy` or after the TTL, a slow miss that
  caches an older object over a newer one, instances with different keys, a rotation that would
  delete the only dump.
* **retry, paging, password**: conflicts that use up the attempts, rows added
  between two pages, a script that dies between the role and the file, a PgBouncer that
  logs in with keys of the password before.

The complete list, each at its line, is `hazards` in `PROJECT.json`.

## 2. Modules and their correspondence to the code

In all modules an action is what the code does between two awaits, or one SQL
statement; row locks and what a transaction has written but not committed are
explicit. `PROJECT.json` maps each definition to its lines. Definitions marked
"Mutant" are plausible bugs, used to see that each property can fail; no
specification uses them.

**AtomicCheckout** is what `checkout()` promises: an attempt takes effect in one
step (`Place`), or is answered `Replay`, `RefuseStock`, `RefuseFunds` truthfully,
or fails with or without effect (`Fail`: the client sees 500 either way).

**Checkout** is the transaction. `pc[a]` walks the statements in their order;
`holder` are the row locks (key, product, buyer: always in this order),
`newStock`, `newBalance` and `inserted` the uncommitted writes. An UPDATE stores
the new value of the row, so that a missing lock shows as a lost update.
`Throw` covers a failing statement and a COMMIT whose answer is lost. Prices are
integers; the product of JavaScript numbers is not modelled with its rounding.

**Delivery** composes relay, publisher, broker and consumer, because the
interesting behaviour is between them. Outbox rows appear with `CommitRow`, in any
order (`created_at` is assigned before COMMIT). `ClaimBatch` is the `FOR UPDATE
SKIP LOCKED` select; `Publish`, `Confirm`, `PublishNacked`, `PublishLost`,
`PublishFails` are the outcomes of `publishRaw`; `MarkPublished` marks the confirmed
rows and commits. The broker is external: copies of messages sit in places (work
queue, unacked, dead letters, unroutable), return to the queue when a channel
goes, and move to the dead letters past `DeliveryLimit`. `assertTopology` is
four declarations, so that a relay may publish before the queue is bound. A copy
carries the payload of `toOrderPlacedEvent`, whose id `eventIdFor` derives from the
order; a consumer first parses it (`OrderPlacedSchema`), then works by event id in the
inbox and by order id in the receipts. A
handler is `ClaimInbox` or `SkipDuplicate`, `CommitEffect`, `Ack`, with
`EffectFails` and `RejectPoison` as its error paths. The `attempts` column, which
nothing reads, and statistics are left out.

**JobQueue**: `ClaimOne`, `Finish`, `Count`, `WorkerFails`. A claimed row stays
locked until COMMIT; a worker leaves when the count is zero or `claimOne` throws.

**AuthSessions**: a token pair has one id. `SelectForUpdate` takes the row lock,
`Rotate`/`CommitRotate` spend a token and insert its successor, `BeginReuse`,
`RevokeRow`, `CommitReuse` are the family UPDATE, row by row over the snapshot
(`todo`), `BeginLogout`..`CommitLogout` the transaction of logout, `Verify` and
`Accept`/`DenyAccess` the two halves of `authenticate` on both sides of its await,
`purgeDenylist` what `Purge` deletes, every five minutes (at any moment in the model).
Signatures are left out; keys are in KeyRotation, roles in OrdersFeed and Pages.

**PartPlan** has the arithmetic of `src/storage/limits.ts` as operators;
**FileUploads** extends it with the handlers of `files.service.ts`, call by call:
`LookupKey`, `CreateUpload`, `InsertRow`/`InsertConflict`, `AbortUpload`, `Reread`;
`InsertFails` and `Cleanup` (the INSERT throws, with or without its effect, and the
catch aborts the upload);
`ReadRow`, `ListParts`, `CompleteUpload`, `HeadObject`, `CompleteRow`. The client
sends bytes with `PutPart` and `PutObject`, cut off or complete, again and again.
`Fail` is a call without effect, `LoseAnswer` one whose effect stays and whose caller
never hears of it. Bytes are "none", "short" or "good". `downloadUrl()` changes nothing.

**Resume** takes a large upload from the side of its clients
(`src/files/client-mpu.ts`): a process `start`s it and may `die` at any part, others
ask `parts()`, which lists the storage page by page (`listAllParts`), and send what is
missing; `commitUpload` lists in the same way. What a dead process has sent may
arrive later, whole or cut off (`landLate`), also between two pages. The calls of
`commit` after its listing are one step here; FileUploads has them one by one.

**OrdersFeed**: handlers of `src/orders` never await and are one step each, except
`join`, whose await of `client.data.user` is the gap between `join` and `joined`.
`wire` is what was written to a stream and not yet read; it is lost when the
connection closes. `Restart` puts the module-level state back to the source text
while clients keep their Last-Event-IDs.

**CardCache**: `cpc[r]` walks `get()`: `readMiss`, `takeLock`, `checkAgain`,
`loadCard`, `writeCard`, `unlock` for the leader, `pollHit` or `deadline` for a
waiter. Every action has the branch in which `safe()` swallowed an error.
`CardLeaves` and `LockLeaves` are TTL, eviction and loss of the instance at once.
The job behind it takes a step per store: `addReview` changes the row,
`enqueueRecalcRating` asks for the job (or is lost, or ignored), `startJob`,
`recalcRating` drops the card on the cache's Redis, `completeJob` tells the queue's
Redis, and in between an `add()` is still ignored; `failJob`, `stallJob`, `ageOut`
are its ends. Two steps stand for code that is not there yet: no handler writes
reviews, and the dropping of the card is what the comment on `recalcRating` and
README.md:1079-1081 say its injected work has to do.

**SlidingWindow** is what the limiter promises; **RateLimiter** the ZSET script, in
one step as Redis runs it, with `checkFails` (before or after the script) and
`evictCounter`. `retryAfterSec` keeps the rounding from milliseconds to seconds.

**SessionStore**: `touch`, `create`, `save`, `destroy`, a command each, by overlapping
requests; time passes in between. **EdgeCache**: `hit`, or `miss`, `readObject` and
`fetched` on both sides of the two awaits, `fetchFails`; `publishAsset` puts under a name
made of eight hex digits of a hash, which two contents may share (`Digest`),
`putByHand` without a Cache-Control, `wipe` deletes. Puts are numbered, so that an
answer can be held against the time when its object was replaced. **KeyRotation**: `validate` and `selfCheck` stand
between a configuration and a `restart`; `beginOverlap`, `endOverlap`, `slip` and
`correct` are the operator. **BackupDrill**: the two shell scripts line by line on one
directory, with days, failures, and a database that changes. **Clock** is what those
with expiries share.

**AtomicAdjust** is an adjustment in one step; **TxRetry** the transaction of
`demo-retry.ts` under `withRetry`, with PostgreSQL's first-updater-wins.
**Pages**: a cursor is an offset into what the caller may see. **Positions** is what
`Array.prototype.filter` keeps, for Pages and OrdersFeed, written without recursion so
that it can be reasoned about. **PasswordRotation**:
`rotate.sh` step by step (`alterRole`, `truncateFile`, `writeFile`,
`terminateBackends`, `killScript`) against the API's pool and PgBouncer. `conn` are the
pool's sessions with PgBouncer: `connect` (PgBouncer looks the role's hash up),
`readPassword`, `authenticate`, `query`, `finishQuery`, `closeIdle`. `backend` are
PgBouncer's connections to Postgres: `openServer`, `serverLogin`, `lend` for one
transaction, `refuse`, `closeServer`. PgBouncer knows no password and logs in to
Postgres with the SCRAM keys of the last client that authenticated (`keys`).
`terminateBackends` closes backends, and with them the sessions whose transaction ran
on one; idle sessions notice nothing.

Proof modules (`*Proofs`) extend the modules they are about: `ExpiryProofs` the ones
that `MCExpiry` runs, `ProgressProofs` those of `MCProgress` except `CardCache`, which
has its own. `MC*` modules give TLC its instances. `MCExpiry` and `MCProgress` hold several small parts that share no
state (but a clock): the variable `part`, chosen at the start, says which of them the
behaviour follows, so that the run is the union of their state spaces and not the
product. Refinements: `Checkout` implements `AtomicCheckout`, `RateLimiter`
implements `SlidingWindow`, `TxRetry` implements `AtomicAdjust`. Composition:
`Delivery` of relay, broker and consumer, `CardCache` of cache and job,
`FileUploads` and `Resume` extend `PartPlan`; `Delivery!CommitRow` and `JobQueue!Enqueue` are the
COMMIT of `Checkout`, and `Checkout!RowsTogether` is what entitles them to appear
exactly with an order.

## 3. Runs

| run | instance | what it shows |
|---|---|---|
| `checkout` | 3 attempts over 4 calls: a key repeated with the same and with another body, a shared product, a shared buyer, a buyer who cannot pay; 265k states | all safety properties, `ImplementsAtomic` (refinement), `EveryAttemptAnswered` |
| `delivery` | 2 events, 2 relays, 2 consumers, 3 copies, batches of 2, 2 faults; 837k states | nothing published is lost and what is acked is applied, inbox = receipts, marked rows are not sent again |
| `delivery_live` | 2 events, 1 relay, 2 consumers, a fault, poison | `EventuallySettled`, when processes are restarted |
| `delivery_unattended` | 1 event, a fault | *violated*: `EventuallyPublished` without an operator |
| `auth` | 3 pairs, 2 requests, clock 0..2, a fault; 337k states up to symmetry | families are chains, only live tokens rotate, a logged-out token stays out |
| `auth_live` | the same with a still clock | `RequestsEnd`, deadlocks of family UPDATEs included |
| `auth_logout_race` | | *violated*: `LogoutEndsFamily` |
| `files` | 2 files, a key, 2 handlers, 2 parts, a fault; plans of all sizes up to 400; 167k states | same key same file, nothing orphaned, what is completed is stored and whole (`StoredIsWhole`), plans are exact, `UncutGetsCompleted` |
| `files_cut_off` | 1 file | *violated*: `AssembledGetsCompleted` |
| `expiry` | limits 0..2 over a window of 3 with 4 requests in 7 instants; 2 overlapping requests on 2 sessions; 2 fetches in flight, 2 contents of one name, a name put by hand, 2 puts, max-age 2; 2 instances, 2 keys; 3 backups in 4 days kept for 1; 2 orders, a stream, a socket, a buffer of 2, 3 events, 2 drops, a restart; 2.1M states | `ImplementsWindow` (refinement), `RetryAfterHonest`, `SessionLives`, `AnswersInTime`, `TokensSurvive`, `BackupsStand`; resumed streams have no gap (`StreamHasNoGap`), `OnlyReadersListen` |
| `progress` | 2 readers, 2 versions; 3 transactions with 3 attempts; pages of 1 or 2 over 3 rows; 2 sessions, a backend, 3 passwords; 2 jobs, 3 workers, 2 of which may die; 2 client processes on an upload of 3 parts listed 2 at a time, a death; 103k states | `SingleFlight`, `StaleCardExplained`, `NobodyGivesUp`, `WalkIsExact`, `BackendsCurrent`, `ProcessedOnce`, `ResumeIsExact`; `ImplementsAdjust` (refinement); `CardConverges`, `EveryGetAnswered`, `PoolComesBack`, `NoJobAbandoned`, `UploadGetsWhole` under fairness |
| `rotation_pool` | a session, a backend, 2 passwords | *violated*: `SessionsCurrent` |

**Why the bounds are enough.** Every conflict in this code is between two
holders of one row (or two copies of one message), and the third attempt or copy
is there for what happens to a bystander: the attempt that takes over a key after
a rollback, the duplicate that meets an already committed inbox row. Three pairs
are a login, its successor and one more rotation or a second login. A buffer of two
with three events overflows; one drop meets the edge of the buffer, the second
a stream that was resumed before. `MIB = 3`, `MAX_PARTS = 7` keep the relations
between the real constants (a part is at least five MiB, the largest object needs
parts above the minimum) while all sizes are enumerated; the theorems cover the
real ones. Faults are bounded because each is an independent interruption; two in
`delivery` are a crash during the recovery from a crash. In `expiry` every TTL is at
most half of the time there is, so that things run out, are renewed and run out
again, and the clock reaches each boundary exactly. Three transactions are the
smallest number in which the last attempt is used; two readers are a leader and a
waiter, or an old leader and a new one (the invariants were also checked with three,
and are proved for any number). Three parts in pages of two need a second page, and
two processes with a death are three lives of a client, two of them at once. Two
sessions share one backend, so one waits while the other's transaction runs, and a
backend that authenticates meets a session that has brought newer keys; three passwords
are a rotation after one that died. Two puts are the older and the newer object that
two overlapping fetches bring in the wrong order. With two jobs and three workers one
worker always finds nothing to claim.

**Deadlock** is checked in `checkout`, where the lock order is at stake (`AllDone`
is the regular end). The other systems may stop: all jobs done, all bounds used.

**Fairness.**
* `Checkout!FairSpec`, `JobQueue!JobFairSpec` (and `WorkerFairness` in `MCProgress`): weak fairness of each attempt's or
  worker's own steps; Node resumes an awaiting handler and PostgreSQL answers.
  Arrivals and failures are never fair.
* `AuthSessions!FairSpec` adds strong fairness of the statements that wait for a
  row lock (PostgreSQL queues waiters) and fairness of its deadlock detector.
* `Delivery!UnattendedSpec`: running loops run, the broker delivers, a process that
  DIED is started again. `AttendedSpec` adds that somebody also restarts a process
  that lives on with a closed connection: no code does, `connect()` is called once.
  `EventuallySettled` needs it and `delivery_unattended` shows why.
* `FileUploads!FairSpec`: handlers run on, and the client of a pending file keeps
  sending commits (strong, since a handler must be free for it). A client that
  gives up leaves a PENDING row, as the code intends.
* `MCProgress!CacheFairness`: a `get()` that has begun goes on, and a card leaves in the
  end because it is always written with a TTL. New reads, the job and its worker are
  not fair: `CardConverges` does not count on the invalidation.
* `MCProgress!PoolFairness`: queries come again and again and the pool goes on with
  them (`PoolStep`), PgBouncer logs in, lends what it has (`ServerStep`) and sends
  clients away while its login fails (`refuse`). Rotations need not come, nor go on:
  the script may die at any step; idle timeouts are not fair either. `PoolComesBack`
  says what is left after the last one.
* `MCProgress!UploaderFairness`: a client process goes on, its requests arrive or are
  lost, and whoever wants the file resumes and commits again (strong, since a process
  must be free for it). Deaths are not fair.

## 4. Disagreements between code and documentation

1. `delivery_unattended`: the comment at `src/outbox/relay.ts:128` promises that
   rows left by a broker error go with the next tick; after a closed connection
   every tick fails.
2. `auth_logout_race`: README.md says that after logout the whole family is
   revoked; the row of a refresh in flight is outside the snapshot of the UPDATE and
   stays live.
3. `files_cut_off`: the comment in `commit()` says a commit that assembled the
   object and did not reach the database is mended by the next; the next one fails
   in `listAllParts`, which is called outside the `try`.
4. `rotation_pool`: `rotate.sh:7-8` and README.md:182-184 say that step 3 cuts the old
   connections and the pool opens new ones with the new password. That was so when the
   pool was connected to Postgres. `DB_URL` now points at PgBouncer, whose backends are
   what `pg_terminate_backend` closes; the pool's idle sessions, made with the old
   password, stay and are used on. What does hold is `BackendsCurrent` (no backend works
   on with the old password) and `PoolComesBack` (queries get through again without a
   restart). In between, the first queries on old sessions may be refused: PgBouncer has
   the keys of the old password until a new session brings those of the new one.

Met while modelling and not stated as runs: `openapi.yaml:125-127` says that a
repeated `Idempotency-Key` of `POST /orders` is a repeat of the same attempt, but the
handler at `src/orders/orders.controller.ts:53` never reads the header and creates an
order each time (the API of `src/outbox` does read it: `OneOrderPerKey`). When an
intent's INSERT is committed and its answer lost, the catch aborts the multipart upload
of a row that stays PENDING and is what its Idempotency-Key names from then on: no
commit can complete it (`InsertFails`, `Cleanup`; the invariant `CommitKnows` allows it).
After a restart event ids begin with 1 again, and a Last-Event-ID of the earlier life
filters new events out (`StreamHasNoGap` is about ids of the present life). A
`save` after `destroy`, or after the TTL, brings a Redis session back; `SessionLives`
confines that to requests that held the session when it ended. A `jobId` that BullMQ still keeps, or a reader that was slow, leaves a
stale card until its TTL: `StaleCardExplained` lists these causes and
`CardConverges` says that the TTL ends it. The throw for unroutable messages in
`publisher.ts` cannot happen with the topology the code declares, since an
alternate exchange takes such messages and no `basic.return` is sent. They are not
lost (`NoEventLost` counts the unroutable queue as held).

## 5. Proofs

Every invariant, action property and refinement that a passing run checks is also a
theorem, for every value of the constants that satisfies the `ASSUME` of the module:
any number of processes, rows, copies, requests and failures. The assumptions say only
that sets are disjoint where SQL types are (`None` is not a user, an order or a
session), that quantities, TTLs and sizes are positive, that there is at least one
instance, that the minimal part size is not above the maximal, and that the largest
object fits `MAX_PARTS` parts. The inductive invariants stand beside the properties in
the modules they are about, and TLC has checked each on its run's instance.

* **CheckoutProofs**: `CheckoutTypeCorrect`, `CheckoutInvariant`,
  `CheckoutRowsTogether`, `CheckoutOneOrderPerKey`, `CheckoutAnswersTrue`,
  `CheckoutImplementsAtomic`, `CheckoutLedgerBalanced`. `TypeOK` alone is not inductive:
  that COMMIT leaves
  stock in `Nat` follows only from the lock held since the UPDATE. `IInv` adds which
  locks a transaction holds at each statement and that the version it wrote is
  still based on the committed one (`LocksHeld`), what it has inserted so far
  (`WritesSoFar`), and that a verdict reached before ROLLBACK is still true after it
  (`VerdictsStand`: stock and balances only fall, key rows stay). The refinement
  uses the same invariant: COMMIT maps to `Place`, ROLLBACK to the refusal or the
  replay, every other statement is invisible. The ledger is a sum over the orders;
  it is stated as the number of the single units in them (`Units`, `Spent`), so that
  COMMIT adds a finite set disjoint from what was there and no induction is needed.
* **DeliveryProofs**: `DeliveryInvariant`, `DeliveryNoEventLost`,
  `DeliveryInboxMatchesEffect`, `DeliveryNoPhantomReceipt`,
  `DeliveryMarkedIsNotResent`. An event is `Safe` when it has its receipt or the broker
  holds a copy. Being safe is stable: a copy leaves the broker only by an ack, which
  comes after the receipt. `IInv` says that batches of
  two relays are disjoint and unmarked and what a pass has confirmed is safe
  (`PassHolds`), that copies are of committed rows (`CopyIsTrue`), and that what a
  handler found in the inbox stays so while it holds the row's lock (`HandlerKnows`).
* **AuthSessionsProofs**: `AuthInvariant`, `AuthFamilyIsChain`, and the action
  properties `AuthOnlyLiveTokensRotate`, `AuthLogoutHolds`. The invariant says that
  past its SELECT a refresh has the row locked, so what it decided about `used` and
  `revoked` is still so at COMMIT, and that a logged-out token is off the denylist
  only past its exp.
* **FileUploadsProofs**: `FilesInvariant`, `FilesSameKeySameFile`,
  `FilesStoredIsWhole`, `FilesNoOrphanUpload`, and the arithmetic: `FilesPlanIsSound`
  from lemmas about `ceil`. `IInv` says that an intent owns a
  file without a row, except one that cleans up, which knows only that it opened an
  upload (`CleanupKnows`); that a commit past the assembly works on an upload that is
  over, and on a completed one once HeadObject has found the object (`CommitKnows`);
  that an object of a multipart file comes from its assembled upload alone
  (`UploadsMatch`), so an upload aborted under a row leaves nothing to be taken for
  whole; and that every answer given for a key names its row. `UploadsOwned` adds, for
  `NoOrphanUpload`, that an open upload without a row belongs to an intent that has
  still to insert the row or to abort the upload.
* **OrdersFeedProofs**: `FeedInvariant`, `FeedOnlyReadersListen`: an order that
  exists keeps its buyer, and a socket gets into a room only after its user resolved.
  `FeedGapInvariant`, `FeedStreamHasNoGap`: a buffer and a wire are the last events of
  an order (`Recent`), numbered without a hole; a buffer is shorter than `BUFFER_SIZE`
  only if it holds everything, so a Last-Event-ID within it is followed by exactly what
  `missedSince` keeps.
* **ExpiryProofs**, the parts that compare times:
  * `LimiterInvariant`, `LimiterWindowLimit`,
    `LimiterRetryAfterHonest`, `LimiterImplementsWindow`. The bound on a window is not
    inductive alone: `LimiterInv` adds that whatever passed and is still in the window
    is in the ZSET, which needs that PEXPIRE outlives every entry. For Retry-After,
    `ComeBack` adds that the ZSET never exceeds the limit and that one of its
    entries will have left. The refinement maps `allow` to `Admit`, `checkFails` to
    `Leak`.
  * `SessionInvariant`, `SessionSessionLives`: a session expires a TTL after its last
    use, what ended with no request holding it has nobody left to save it, and a
    request has read no visit that was not saved (`HolderKnows`).
  * `EdgeInvariant`, `EdgeAnswersInTime`: what a request has read was not gone before
    the request asked, so it is gone for no longer than the fetch took when it arrives,
    and what is cached then expires at most its max-age later; an object without
    Cache-Control is never at the edge.
  * `RotationInvariant`, `RotationTokensSurvive`: in a steady stage all configurations
    and tokens are of one key; in an overlap of two, and once no instance signs with
    the old key its last token expires `TokenTtl` after the switch, before which
    `endOverlap` does not come.
  * `BackupInvariant`, `BackupBackupsStand`: only a checked file is moved into place, a
    rotation runs just after a dump of the day was moved, and what the drill compares
    with is as old as its dump.
* **ProgressProofs**, the parts that have to get through:
  * `RetryInvariant`, `RetryNobodyGivesUp`, `RetryImplementsAdjust`.
    `RetryInv` pays for attempts: the number of commits is the cardinality of the set of
    callers that committed, and an attempt is at most one more than the commits its
    snapshot saw; so one that gives up has met `maxAttempts` other callers. The holder
    of the row lock has seen the balance that is there, which is the refinement.
  * `JobProcessedOnce`, from "a worker past its claim holds its row, which is still new".
  * `PasswordInvariant`, `PasswordBackendsCurrent`: `HandsCurrent` extends the property
    to backends that still authenticate. `LentIsUsed` says that a transaction has one
    backend and a backend one transaction, known to its client: what makes closing the
    backends and dropping the sessions at work on them one and the same.
  * `PagesInvariant`, `PagesWalkIsExact`: a walk has collected the first n rows its
    caller may see, and its cursor stands right after them; rows are only appended, also
    among the rows of one buyer, so the prefix stays what it was.
  * `ResumeInvariant`, `ResumeResumeIsExact`: of the parts that were there for the whole
    listing all up to the marker are listed, and nothing is listed that was never
    there (`ListingExact`).
* **CardCacheProofs**: `CardInvariant`, `CardSingleFlight`, `CardStaleExplained`.
  `CardInv` adds to the two properties that in a quiet wave every load is the
  leader's and comes before the card, that a stale card in a reader's hands is
  explained like one in the cache, and that a job that is still to run has attempts
  left. A recalculation is `OnItsWay` only until its DEL: from there to the completion
  an ignored `add()` is one of the losses.

Only model-checked: liveness, since the prover has neither fairness nor ENABLED
(`EveryAttemptAnswered`, `EventuallySettled`, `RequestsEnd`, `UncutGetsCompleted`,
`CardConverges`, `EveryGetAnswered`, `PoolComesBack`, `NoJobAbandoned`,
`UploadGetsWhole`); the absence of deadlocks in `checkout`; and that `Kept` and
`InOrder` of Positions are what the recursive `SelectSeq` returns (`KeptIsSelectSeq`,
for all sets of up to five positions), because what a recursive definition computes for
every input is out of the prover's reach. The theorems are about each part's own
specification; `MCExpiry` and `MCProgress` run several of them side by side. The type
invariants are part of the proved invariants.

## 6. Plan

Done, in this order: checkout (abstract and detailed), delivery, job queue,
sessions, uploads with their arithmetic, orders feed; then the Redis layer, edge
cache, paging, retry, the rotations, the backups and resumed uploads, with the
abstract specifications of the limiter and of the retried transaction; then the
proofs of all safety properties the runs check. Next:

1. An abstract specification of delivery ("each committed event once, or in a queue
   a human reads") that Delivery implements, proved from its `IInv`; an abstract family
   of tokens for AuthSessions in the same way.
2. Checkout feeding Delivery and JobQueue in one specification, to state end to end
   that an order has one receipt and one processed job.
3. The step of each liveness argument that needs no fairness, as an invariant: what
   is enabled, in terms of the state, while an attempt or an event is not settled.

## 7. Not modelled

Entities, migrations (their constraints are in the modules that use the
tables), bootstrap and the parts of the configuration schema that are not about
keys, problem-json formatting, liveness probes, password hashing, signatures,
presigned URLs as strings, seeds, reports and demos (other than the handlers of
`demo-session.ts` and `demo-retry.ts`, which SessionStore and TxRetry model):
declarations, formatting, cryptography, pure I/O, or programs that only exercise the
parts above. The rounding of JavaScript numbers in `checkout.ts` is not modelled. Of
BullMQ, Redis, PostgreSQL, PgBouncer, RabbitMQ and the object storage only what the code relies
on is there, marked external in the map.

## 8. Running

    tlc -workers 2 -config MCCheckout.cfg MCCheckout
    tlapm CheckoutProofs.tla

and so on for the runs and theorems that `PROJECT.json` lists.
