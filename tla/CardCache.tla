----------------------------- MODULE CardCache ------------------------------
(***************************************************************************)
(* The card of one product, read through Redis (src/redis/cache.ts), and   *)
(* the BullMQ job that drops it when a review is added                     *)
(* (src/redis/queue.ts). Every Redis call goes through safe(): it may fail *)
(* at any time, with or without its effect, and then counts as a miss. A   *)
(* card and a lock leave Redis by their TTL, by allkeys-lru or with the    *)
(* whole instance, which keeps nothing on disk: one action covers all.     *)
(* TTLs and the waiter's deadline may run out at any moment.               *)
(* The database, the cache's Redis and the queue's Redis are three servers:*)
(* a review, the add() of its job, the DEL of the card and the completion  *)
(* of the job are four steps.                                              *)
(***************************************************************************)
EXTENDS Naturals, FiniteSets

CONSTANTS
  Reader,           \* callers of get(), each with one call at a time
  MaxVersion,       \* bound: versions of the product's row
  Attempts,         \* attempts of DEFAULT_JOB_OPTS
  Nil

ASSUME CardAssumption ==
  Nil \notin Reader \cup Nat /\ MaxVersion \in Nat /\ Attempts \in Nat \ {0}

VARIABLES
  row,              \* version of the card in the database, 0: no such product
  card,             \* version under card:<id>
  lock,             \* whose token is under lock:card:<id>
  cpc,              \* cpc[r]: where r's get() is
  loaded,           \* loaded[r]: the version r's load() returned
  pending,          \* reviews whose caller has still to call add()
  recalc,           \* the job recalc-rating-<id>; "dropped": still active, and
                    \* its processor has called invalidate()
  made,             \* its attemptsMade
  lost,             \* history: leaders whose lock left Redis under them
  calls,            \* history: loads since the card left a quiet cache; Nil
                    \* once anything but plain get()s has happened since
  excuse            \* history: something left the card unannounced

cacheState == <<card, lock>>
getState == <<cpc, loaded, lost, calls>>
jobState == <<pending, recalc, made, excuse>>
cardVars == <<row, cacheState, getState, jobState>>

LeaderAt == {"check", "load", "write", "unlock"}

CardTypeOK ==
  /\ row \in 0..MaxVersion /\ card \in 1..MaxVersion \cup {Nil}
  /\ lock \in Reader \cup {Nil} /\ lost \subseteq Reader
  /\ cpc \in [Reader -> {"idle", "lock", "wait", "fill", "store"} \cup LeaderAt]
  /\ loaded \in [Reader -> 0..MaxVersion]
  /\ pending \in Nat
  /\ recalc \in {"none", "waiting", "active", "dropped", "completed", "failed"}
  /\ made \in 0..Attempts /\ calls \in 0..2 \cup {Nil} /\ excuse \in BOOLEAN

CardInit ==
  /\ row = 0 /\ card = Nil /\ lock = Nil
  /\ cpc = [r \in Reader |-> "idle"] /\ loaded = [r \in Reader |-> 0]
  /\ pending = 0 /\ recalc = "none" /\ made = 0
  /\ lost = {} /\ calls = Nil /\ excuse = FALSE

Goto(r, from, to) == cpc[r] = from /\ cpc' = [cpc EXCEPT ![r] = to]

\* fill() is over: the leader still has its finally block to run.
AfterFill(r) == IF cpc[r] \in LeaderAt THEN "unlock" ELSE "idle"

\* A read whose error is swallowed is a miss that the card does not explain.
Missed == card # Nil => calls' = Nil
Quiet == UNCHANGED calls
Disturbed == calls' = Nil

-----------------------------------------------------------------------------
\* get(): the first read misses. A hit returns at once and changes nothing.
readMiss(r) ==
  /\ \/ Goto(r, "idle", "lock") /\ (card = Nil => Quiet) /\ Missed
     \/ Goto(r, "idle", "fill") /\ Disturbed          \* singleFlight: false
  /\ UNCHANGED <<row, cacheState, loaded, lost, jobState>>

\* SET lock token PX NX.
takeLock(r) ==
  /\ \/ /\ lock = Nil /\ lock' = r
        /\ lost' = lost \ {r} /\ Goto(r, "lock", "check") /\ Quiet
     \/ /\ lock # Nil /\ Goto(r, "lock", "wait") /\ Quiet /\ UNCHANGED <<lock, lost>>
     \/ /\ lock' \in (IF lock = Nil THEN {Nil, r} ELSE {lock})   \* failed
        /\ Goto(r, "lock", "wait") /\ Disturbed /\ UNCHANGED lost
  /\ UNCHANGED <<row, card, loaded, jobState>>

\* The second read: the leader before may have filled the cache meanwhile.
checkAgain(r) ==
  /\ \/ card # Nil /\ Goto(r, "check", "unlock") /\ Quiet
     \/ Goto(r, "check", "load") /\ (card = Nil => Quiet) /\ Missed
  /\ UNCHANGED <<row, cacheState, loaded, lost, jobState>>

\* load(): one SELECT. No row: nothing to write. An error leaves get().
loadCard(r) ==
  /\ cpc[r] \in {"load", "fill"}
  /\ \/ /\ row # 0
        /\ cpc' = [cpc EXCEPT ![r] = IF @ = "load" THEN "write" ELSE "store"]
        /\ loaded' = [loaded EXCEPT ![r] = row]
        /\ calls' = IF calls \in {0, 1} THEN calls + 1 ELSE calls
     \/ /\ cpc' = [cpc EXCEPT ![r] = AfterFill(r)]
        /\ UNCHANGED loaded /\ Disturbed
  /\ UNCHANGED <<row, cacheState, lost, jobState>>

\* write(): SET card EX ttl, or nothing.
writeCard(r) ==
  /\ cpc[r] \in {"write", "store"}
  /\ cpc' = [cpc EXCEPT ![r] = AfterFill(r)]
  /\ \/ card' = loaded[r] /\ Quiet
     \/ UNCHANGED card /\ Disturbed
  /\ loaded' = [loaded EXCEPT ![r] = 0]
  /\ UNCHANGED <<row, lock, lost, jobState>>

\* Mutant: a plain DEL.
unlockAny(r) ==
  /\ Goto(r, "unlock", "idle") /\ lost' = lost \ {r}
  /\ lock' = Nil
  /\ UNCHANGED <<row, card, loaded, calls, jobState>>

\* UNLOCK_LUA: delete the lock if it is still ours, or fail and leave it.
unlock(r) ==
  /\ Goto(r, "unlock", "idle") /\ lost' = lost \ {r}
  /\ \/ lock' = IF lock = r THEN Nil ELSE lock
     \/ UNCHANGED lock
  /\ UNCHANGED <<row, card, loaded, calls, jobState>>

\* A waiter sees the card.
pollHit(r) ==
  /\ card # Nil /\ Goto(r, "wait", "idle")
  /\ UNCHANGED <<row, cacheState, loaded, lost, calls, jobState>>

\* Mutant: a waiter goes on waiting while the lock is there.
deadlineIfFree(r) ==
  /\ lock = Nil /\ Goto(r, "wait", "fill") /\ Disturbed
  /\ UNCHANGED <<row, cacheState, loaded, lost, jobState>>

\* waitMs have passed: the waiter goes to the database itself.
deadline(r) ==
  /\ Goto(r, "wait", "fill") /\ Disturbed
  /\ UNCHANGED <<row, cacheState, loaded, lost, jobState>>

\* The process dies; what it left in Redis stays.
CrashReader(r) ==
  /\ cpc[r] # "idle" /\ cpc' = [cpc EXCEPT ![r] = "idle"]
  /\ loaded' = [loaded EXCEPT ![r] = 0] /\ lost' = lost \ {r} /\ Disturbed
  /\ UNCHANGED <<row, cacheState, jobState>>

-----------------------------------------------------------------------------
Resting == lock = Nil /\ \A r \in Reader : cpc[r] = "idle"

\* Mutant: SET without EX.
CardNeverLeaves == FALSE /\ UNCHANGED cardVars

\* The card leaves Redis. When nobody is about, a new wave of reads may start.
CardLeaves ==
  /\ card # Nil /\ card' = Nil
  /\ calls' = IF Resting THEN 0 ELSE Nil
  /\ UNCHANGED <<row, lock, cpc, loaded, lost, jobState>>

LockLeaves ==
  /\ lock # Nil /\ lock' = Nil /\ Disturbed
  /\ lost' = lost \cup {r \in {lock} : cpc[r] \in LeaderAt}
  /\ UNCHANGED <<row, card, cpc, loaded, jobState>>

\* A card that is out of date, in Redis or in the hands of a get() that will
\* still write it.
Stale(v) == v \in 1..(row - 1)
StaleAbout == Stale(card) \/ \E r \in Reader : Stale(loaded[r])

\* A review changes what the card shows. The job is still to be asked for.
addReview ==
  /\ row < MaxVersion /\ row' = row + 1 /\ pending' = pending + 1 /\ Disturbed
  /\ UNCHANGED <<cacheState, cpc, loaded, lost, recalc, made, excuse>>

\* add(): a job with the same jobId, finished ones included as long as they are
\* kept, makes it a no-op. It is lost with its caller or with the queue's Redis.
enqueueRecalcRating ==
  /\ pending > 0 /\ pending' = pending - 1
  /\ \/ recalc = "none" /\ recalc' = "waiting" /\ UNCHANGED excuse
     \/ recalc \in {"waiting", "active"} /\ UNCHANGED <<recalc, excuse>>
     \/ UNCHANGED recalc /\ excuse' = (excuse \/ StaleAbout)
  /\ UNCHANGED <<row, cacheState, getState, made>>

startJob ==
  /\ recalc = "waiting" /\ recalc' = "active"
  /\ UNCHANGED <<row, cacheState, getState, pending, made, excuse>>

\* Mutant: the processor forgets the card.
recalcOnly ==
  /\ recalc = "active" /\ recalc' = "dropped"
  /\ UNCHANGED <<row, cacheState, getState, pending, made, excuse>>

\* recalcRating comes to invalidate(): DEL, or nothing. A get() that has already
\* loaded an older card will still write it.
recalcRating ==
  /\ recalc = "active" /\ recalc' = "dropped" /\ Disturbed
  /\ \/ card' = Nil
        /\ excuse' = (excuse \/ \E r \in Reader : Stale(loaded[r]))
     \/ UNCHANGED card /\ excuse' = (excuse \/ StaleAbout)
  /\ UNCHANGED <<row, lock, cpc, loaded, lost, pending, made>>

\* The processor has returned and the worker tells the queue's Redis.
completeJob ==
  /\ recalc = "dropped" /\ recalc' = "completed"
  /\ UNCHANGED <<row, cacheState, getState, pending, made, excuse>>

\* The processor throws: again after the backoff, or for good.
failJob ==
  /\ recalc = "active" /\ made' = made + 1
  /\ recalc' = IF made + 1 < Attempts THEN "waiting" ELSE "failed"
  /\ excuse' = (excuse \/ (recalc' = "failed" /\ StaleAbout))
  /\ UNCHANGED <<row, cacheState, getState, pending>>

\* The worker dies or loses its lock on the job: BullMQ has the stalled job done
\* again, or gives it up.
stallJob ==
  /\ recalc \in {"active", "dropped"} /\ recalc' \in {"waiting", "failed"}
  /\ excuse' = (excuse \/ (recalc' = "failed" /\ StaleAbout))
  /\ UNCHANGED <<row, cacheState, getState, pending, made>>

\* removeOnComplete and removeOnFail: forgotten when old enough.
ageOut ==
  /\ recalc \in {"completed", "failed"} /\ recalc' = "none" /\ made' = 0
  /\ UNCHANGED <<row, cacheState, getState, pending, excuse>>

ReaderStep(r) ==
  \/ readMiss(r) \/ takeLock(r) \/ checkAgain(r) \/ loadCard(r)
  \/ writeCard(r) \/ unlock(r) \/ pollHit(r) \/ deadline(r)

JobStep == startJob \/ recalcRating \/ completeJob \/ failJob \/ stallJob

CardNext ==
  \/ \E r \in Reader : ReaderStep(r) \/ CrashReader(r)
  \/ CardLeaves \/ LockLeaves
  \/ addReview \/ enqueueRecalcRating \/ JobStep \/ ageOut

CardSpec == CardInit /\ [][CardNext]_cardVars

-----------------------------------------------------------------------------
Leading == {r \in Reader : cpc[r] \in LeaderAt}

\* The lock belongs to the leader whose lock it is: whoever leads and has not
\* lost the lock still holds it, although an earlier leader, whose lock ran out,
\* may unlock at any moment. So there is one such leader at most.
LockIsLeaders == \A r \in Leading \ lost : lock = r

\* demo-cache.ts expects one load for a wave of reads of a card that left the
\* cache, as long as nothing fails, expires or times out.
OneLoadPerWave == calls # Nil => calls <= 1

\* cache.ts, single flight: the lock is its leader's, and a quiet wave of reads
\* costs one load.
SingleFlight == LockIsLeaders /\ OneLoadPerWave

\* The recalculation that will drop the card is still to come.
OnItsWay == pending > 0 \/ recalc \in {"waiting", "active"}
Explained == excuse \/ OnItsWay

\* A card older than the database has a cause: the recalculation that will drop
\* it is still to come, or at some moment with an old card about, the cause was
\* lost: an add() that BullMQ ignored or that was never made, a failed
\* invalidation or job, or a load that was under way when the card was dropped.
StaleCardExplained == card # Nil /\ card < row => Explained

\* The inductive invariant: besides the above, in a quiet wave of reads every
\* load is its leader's, the one load comes before the card, and a stale card in
\* a reader's hands is explained like one in the cache.
CardInv ==
  /\ CardTypeOK /\ LockIsLeaders
  /\ recalc \notin {"completed", "failed"} => made < Attempts
  /\ \A r \in Reader :
       /\ cpc[r] \in {"write", "store"} => loaded[r] # 0
       /\ loaded[r] <= row /\ (Stale(loaded[r]) => Explained)
  /\ card # Nil => card <= row /\ (Stale(card) => Explained)
  /\ calls # Nil =>
       /\ calls <= 1 /\ Leading \cap lost = {}
       /\ \A r \in Reader : cpc[r] \notin {"fill", "store"}
       /\ calls = 0 => card = Nil /\ \A r \in Reader : cpc[r] # "write"
       /\ calls = 1 => /\ \A r \in Reader : cpc[r] # "load"
                       /\ card # Nil \/ \E r \in Reader : cpc[r] = "write"

\* When the database rests, a stale card does not stay, whatever was lost.
CardConverges == <>[](card \in {row, Nil})

\* Every get() comes to an end, with Redis failing at any step of it.
EveryGetAnswered == \A r \in Reader : cpc[r] # "idle" ~> cpc[r] = "idle"
=============================================================================
