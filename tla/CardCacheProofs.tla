-------------------------- MODULE CardCacheProofs ---------------------------
(* The card cache for every number of readers, versions and attempts. *)
EXTENDS CardCache, TLAPS

\* The parts of CardInv.
JobLeft == recalc \notin {"completed", "failed"} => made < Attempts
HandInv(r) ==
  /\ cpc[r] \in {"write", "store"} => loaded[r] # 0
  /\ loaded[r] <= row /\ (Stale(loaded[r]) => Explained)
CachedInv == card # Nil => card <= row /\ (Stale(card) => Explained)
WaveInv ==
  calls # Nil =>
    /\ calls <= 1 /\ Leading \cap lost = {}
    /\ \A r \in Reader : cpc[r] \notin {"fill", "store"}
    /\ calls = 0 => card = Nil /\ \A r \in Reader : cpc[r] # "write"
    /\ calls = 1 => /\ \A r \in Reader : cpc[r] # "load"
                    /\ card # Nil \/ \E r \in Reader : cpc[r] = "write"

LEMMA CardInvParts ==
  CardInv <=> /\ CardTypeOK /\ LockIsLeaders /\ JobLeft
              /\ (\A r \in Reader : HandInv(r)) /\ CachedInv /\ WaveInv
  BY DEF CardInv, HandInv, CachedInv, WaveInv, JobLeft

LEMMA CardInitInv == CardInit => CardInv
  <1> SUFFICES ASSUME CardInit PROVE CardInv
    OBVIOUS
  <1>1. CardTypeOK
    <2>1. excuse \in BOOLEAN
      BY Zenon DEF CardInit
    <2>2. /\ row \in 0..MaxVersion /\ made \in 0..Attempts /\ pending \in Nat
          /\ cpc \in [Reader -> {"idle", "lock", "wait", "fill", "store"} \cup LeaderAt]
          /\ loaded \in [Reader -> 0..MaxVersion]
      BY CardAssumption DEF CardInit
    <2> QED BY <2>1, <2>2, Zenon DEF CardInit, CardTypeOK
  <1>2. LockIsLeaders
    BY DEF CardInit, LockIsLeaders, Leading, LeaderAt
  <1>3. ASSUME NEW r \in Reader PROVE HandInv(r)
    BY DEF CardInit, HandInv, Stale
  <1>4. CachedInv /\ WaveInv
    BY DEF CardInit, CachedInv, WaveInv
  <1>5. JobLeft
    BY CardAssumption DEF CardInit, JobLeft
  <1> QED BY <1>1, <1>2, <1>3, <1>4, <1>5, CardInvParts

-----------------------------------------------------------------------------
\* What a step of a reader does to the job and the excuse: nothing. Stated once
\* so that the steps below need not look at them.
LEMMA ReaderLeavesJob ==
  ASSUME NEW r \in Reader, ReaderStep(r) \/ CrashReader(r)
  PROVE  UNCHANGED <<row, pending, recalc, made, excuse>>
  BY DEF ReaderStep, readMiss, takeLock, checkAgain, loadCard, writeCard, unlock,
         pollHit, deadline, CrashReader, jobState, cacheState

LEMMA ReaderKeepsTypes ==
  ASSUME CardInv, NEW r \in Reader, ReaderStep(r) \/ CrashReader(r)
  PROVE  CardTypeOK'
  <1> DEFINE Types == /\ card \in 1..MaxVersion \cup {Nil}
                      /\ lock \in Reader \cup {Nil} /\ lost \subseteq Reader
                      /\ cpc \in [Reader -> {"idle", "lock", "wait", "fill", "store"} \cup LeaderAt]
                      /\ loaded \in [Reader -> 0..MaxVersion]
                      /\ calls \in 0..2 \cup {Nil}
  <1>0. Types /\ row \in 0..MaxVersion /\ HandInv(r)
    BY CardInvParts DEF CardTypeOK
  <1>1. Types'
    <2> USE <1>0, CardAssumption DEF Goto, Quiet, Disturbed, Missed, cacheState, LeaderAt
    <2>1. CASE readMiss(r)
      BY <2>1 DEF readMiss
    <2>2. CASE takeLock(r)
      BY <2>2 DEF takeLock
    <2>3. CASE checkAgain(r)
      BY <2>3 DEF checkAgain
    <2>4. CASE loadCard(r)
      BY <2>4 DEF loadCard, AfterFill
    <2>5. CASE writeCard(r)
      BY <2>5 DEF writeCard, AfterFill, HandInv
    <2>6. CASE unlock(r)
      BY <2>6 DEF unlock
    <2>7. CASE pollHit(r)
      BY <2>7 DEF pollHit
    <2>8. CASE deadline(r)
      BY <2>8 DEF deadline
    <2>9. CASE CrashReader(r)
      BY <2>9 DEF CrashReader
    <2> QED BY <2>1, <2>2, <2>3, <2>4, <2>5, <2>6, <2>7, <2>8, <2>9 DEF ReaderStep
  <1>2. UNCHANGED <<row, pending, recalc, made, excuse>>
    BY ReaderLeavesJob
  <1> QED BY <1>1, <1>2, Zenon DEF CardTypeOK, CardInv

\* A leader's steps keep it in LeaderAt until it unlocks its own lock.
LEMMA ReaderKeepsLock ==
  ASSUME CardInv, NEW r \in Reader, ReaderStep(r) \/ CrashReader(r)
  PROVE  LockIsLeaders'
  <1>0. /\ cpc \in [Reader -> {"idle", "lock", "wait", "fill", "store"} \cup LeaderAt]
        /\ LockIsLeaders /\ lost \subseteq Reader
    BY DEF CardInv, CardTypeOK
  <1> USE <1>0, CardAssumption DEF Goto, LockIsLeaders, Leading, LeaderAt, cacheState
  <1>1. CASE readMiss(r)
    BY <1>1 DEF readMiss
  <1>2. CASE takeLock(r)
    BY <1>2 DEF takeLock
  <1>3. CASE checkAgain(r)
    BY <1>3 DEF checkAgain
  <1>4. CASE loadCard(r)
    BY <1>4 DEF loadCard, AfterFill
  <1>5. CASE writeCard(r)
    BY <1>5 DEF writeCard, AfterFill
  <1>6. CASE unlock(r)
    BY <1>6 DEF unlock
  <1>7. CASE pollHit(r)
    BY <1>7 DEF pollHit
  <1>8. CASE deadline(r)
    BY <1>8 DEF deadline
  <1>9. CASE CrashReader(r)
    BY <1>9 DEF CrashReader
  <1> QED BY <1>1, <1>2, <1>3, <1>4, <1>5, <1>6, <1>7, <1>8, <1>9 DEF ReaderStep

\* A reader loads the card that is there and writes the one it loaded.
LEMMA ReaderKeepsHands ==
  ASSUME CardInv, NEW r \in Reader, ReaderStep(r) \/ CrashReader(r)
  PROVE  (\A u \in Reader : HandInv(u)') /\ CachedInv'
  <1>0. /\ cpc \in [Reader -> {"idle", "lock", "wait", "fill", "store"} \cup LeaderAt]
        /\ loaded \in [Reader -> 0..MaxVersion] /\ row \in 0..MaxVersion
        /\ \A u \in Reader : HandInv(u)
        /\ CachedInv
    BY CardInvParts DEF CardTypeOK
  <1>1. Explained' = Explained /\ row' = row
    BY ReaderLeavesJob DEF Explained, OnItsWay
  <1> HIDE DEF Explained
  <1> USE <1>0, <1>1, CardAssumption
      DEF Goto, LeaderAt, cacheState, HandInv, CachedInv, Stale, AfterFill
  <1>2. CASE readMiss(r)
    BY <1>2 DEF readMiss
  <1>3. CASE takeLock(r)
    BY <1>3 DEF takeLock
  <1>4. CASE checkAgain(r)
    BY <1>4 DEF checkAgain
  <1>5. CASE loadCard(r)
    BY <1>5 DEF loadCard
  <1>6. CASE writeCard(r)
    BY <1>6 DEF writeCard
  <1>7. CASE unlock(r)
    BY <1>7 DEF unlock
  <1>8. CASE pollHit(r)
    BY <1>8 DEF pollHit
  <1>9. CASE deadline(r)
    BY <1>9 DEF deadline
  <1>10. CASE CrashReader(r)
    BY <1>10 DEF CrashReader
  <1> QED BY <1>2, <1>3, <1>4, <1>5, <1>6, <1>7, <1>8, <1>9, <1>10 DEF ReaderStep

\* In a quiet wave the leader is one, so that its load is the only one.
LEMMA ReaderKeepsWave ==
  ASSUME CardInv, NEW r \in Reader, ReaderStep(r) \/ CrashReader(r)
  PROVE  WaveInv'
  <1>0. /\ cpc \in [Reader -> {"idle", "lock", "wait", "fill", "store"} \cup LeaderAt]
        /\ loaded \in [Reader -> 0..MaxVersion] /\ row \in 0..MaxVersion
        /\ calls \in 0..2 \cup {Nil} /\ lost \subseteq Reader
        /\ LockIsLeaders /\ WaveInv
    BY CardInvParts DEF CardTypeOK
  <1>1. calls # Nil => \A u \in Reader : cpc[u] \in LeaderAt => lock = u
    BY <1>0 DEF LockIsLeaders, Leading, WaveInv
  <1> USE <1>0, <1>1, CardAssumption
      DEF Goto, Quiet, Disturbed, Missed, LeaderAt, Leading, cacheState, WaveInv, AfterFill
  <1>2. CASE readMiss(r)
    BY <1>2 DEF readMiss
  <1>3. CASE takeLock(r)
    BY <1>3 DEF takeLock
  <1>4. CASE checkAgain(r)
    BY <1>4 DEF checkAgain
  <1>5. CASE loadCard(r)
    BY <1>5 DEF loadCard
  <1>6. CASE writeCard(r)
    BY <1>6 DEF writeCard
  <1>7. CASE unlock(r)
    BY <1>7 DEF unlock
  <1>8. CASE pollHit(r)
    BY <1>8 DEF pollHit
  <1>9. CASE deadline(r)
    BY <1>9 DEF deadline
  <1>10. CASE CrashReader(r)
    BY <1>10 DEF CrashReader
  <1> QED BY <1>2, <1>3, <1>4, <1>5, <1>6, <1>7, <1>8, <1>9, <1>10 DEF ReaderStep

-----------------------------------------------------------------------------
\* Redis forgets the card or the lock.
LEMMA RedisKeeps ==
  ASSUME CardInv, CardLeaves \/ LockLeaves
  PROVE  CardInv'
  <1>0. CardTypeOK /\ LockIsLeaders /\ JobLeft
        /\ (\A u \in Reader : HandInv(u)) /\ CachedInv /\ WaveInv
    BY CardInvParts
  <1>1. UNCHANGED <<row, cpc, loaded, pending, recalc, made, excuse>>
    BY DEF CardLeaves, LockLeaves, jobState
  <1>2. Explained' = Explained
    BY <1>1 DEF Explained, OnItsWay
  <1>3. CardTypeOK'
    <2>1. /\ card' \in 1..MaxVersion \cup {Nil} /\ lock' \in Reader \cup {Nil}
          /\ lost' \subseteq Reader /\ calls' \in 0..2 \cup {Nil}
      BY <1>0, CardAssumption DEF CardTypeOK, CardLeaves, LockLeaves, Disturbed, LeaderAt
    <2> QED BY <1>0, <1>1, <2>1, Zenon DEF CardTypeOK
  <1>4. LockIsLeaders'
    BY <1>0, <1>1 DEF LockIsLeaders, Leading, CardLeaves, LockLeaves, CardTypeOK
  <1>5. (\A u \in Reader : HandInv(u)') /\ CachedInv'
    BY <1>0, <1>1, <1>2 DEF HandInv, CachedInv, Stale, CardLeaves, LockLeaves
  <1>6. WaveInv'
    BY <1>0, CardAssumption
       DEF WaveInv, Leading, LeaderAt, Resting, CardLeaves, LockLeaves, Disturbed
  <1> QED BY <1>0, <1>1, <1>3, <1>4, <1>5, <1>6 DEF JobLeft, CardInv, HandInv, CachedInv, WaveInv

\* What the database and the job do leaves the readers alone, and a quiet wave of
\* reads sees the card unchanged.
LEMMA JobFrame ==
  ASSUME addReview \/ enqueueRecalcRating \/ JobStep \/ ageOut
  PROVE  /\ UNCHANGED <<lock, cpc, loaded, lost>>
         /\ card' \in {card, Nil} /\ calls' \in {calls, Nil}
         /\ calls' # Nil => card' = card
  BY DEF JobStep, addReview, enqueueRecalcRating, startJob, recalcRating, completeJob,
         failJob, stallJob, ageOut, cacheState, getState, Disturbed

LEMMA JobKeepsTypes ==
  ASSUME CardInv, addReview \/ enqueueRecalcRating \/ JobStep \/ ageOut
  PROVE  CardTypeOK' /\ JobLeft'
  <1>0. CardTypeOK /\ JobLeft
    BY CardInvParts
  <1>1. /\ row' \in 0..MaxVersion /\ pending' \in Nat /\ made' \in 0..Attempts /\ JobLeft'
        /\ recalc' \in {"none", "waiting", "active", "dropped", "completed", "failed"}
    <2> USE <1>0, CardAssumption DEF CardTypeOK, JobLeft
    <2>1. CASE addReview
      BY <2>1 DEF addReview
    <2>2. CASE enqueueRecalcRating
      BY <2>2 DEF enqueueRecalcRating
    <2>3. CASE startJob \/ completeJob \/ ageOut
      BY <2>3 DEF startJob, completeJob, ageOut
    <2>4. CASE recalcRating
      BY <2>4 DEF recalcRating
    <2>5. CASE failJob \/ stallJob
      BY <2>5 DEF failJob, stallJob
    <2> QED BY <2>1, <2>2, <2>3, <2>4, <2>5 DEF JobStep
  <1>2. excuse' \in BOOLEAN
    <2>1. CASE enqueueRecalcRating
      BY <1>0, <2>1, Zenon DEF CardTypeOK, enqueueRecalcRating
    <2>2. CASE addReview \/ startJob \/ completeJob \/ ageOut
      BY <1>0, <2>2 DEF CardTypeOK, addReview, startJob, completeJob, ageOut
    <2>3. CASE recalcRating
      BY <2>3, Zenon DEF recalcRating
    <2>4. CASE failJob \/ stallJob
      BY <2>4, Zenon DEF failJob, stallJob
    <2> QED BY <2>1, <2>2, <2>3, <2>4 DEF JobStep
  <1>3. card' \in 1..MaxVersion \cup {Nil} /\ calls' \in 0..2 \cup {Nil}
    BY <1>0, JobFrame, Zenon DEF CardTypeOK
  <1> QED BY <1>0, <1>1, <1>2, <1>3, JobFrame, Zenon DEF CardTypeOK

\* The row grows with a call of add() to come. Whatever ends the prospect of a DEL
\* leaves no old card about, or an excuse.
LEMMA JobExplains ==
  ASSUME CardInv, addReview \/ enqueueRecalcRating \/ JobStep \/ ageOut
  PROVE  row' >= row /\ (StaleAbout' => Explained')
  <1>0. CardTypeOK /\ (StaleAbout => Explained)
    BY CardAssumption DEF CardInv, CardTypeOK, StaleAbout, Stale
  <1>1. CASE addReview
    BY <1>0, <1>1 DEF addReview, CardTypeOK, Explained, OnItsWay
  <1>2. ASSUME row' = row PROVE StaleAbout' => StaleAbout
    BY <1>0, <1>2, JobFrame, CardAssumption DEF StaleAbout, Stale, CardTypeOK
  <1>3. CASE startJob \/ completeJob \/ ageOut
    BY <1>0, <1>2, <1>3
       DEF startJob, completeJob, ageOut, CardTypeOK, Explained, OnItsWay
  <1>4. CASE enqueueRecalcRating
    <2>1. /\ row' = row
          /\ recalc' \in {"waiting", "active"} \/ (excuse' <=> excuse \/ StaleAbout)
      BY <1>4, Zenon DEF enqueueRecalcRating
    <2> QED BY <1>0, <1>2, <2>1 DEF CardTypeOK, Explained, OnItsWay
  <1>5. CASE recalcRating
    <2>1. row' = row /\ UNCHANGED loaded
      BY <1>5 DEF recalcRating
    <2>2. \/ excuse' \/ ~ StaleAbout
          \/ card' = Nil /\ ~ \E r \in Reader : Stale(loaded[r])
      BY <1>5, Zenon DEF recalcRating
    <2>3. excuse' \/ ~ StaleAbout'
      BY <1>0, <1>2, <2>1, <2>2, CardAssumption DEF CardTypeOK, StaleAbout, Stale
    <2> QED BY <1>0, <2>1, <2>3 DEF CardTypeOK, Explained
  <1>6. CASE failJob \/ stallJob
    <2>1. row' = row /\ recalc' \in {"waiting", "failed"}
      BY <1>6 DEF failJob, stallJob
    <2>2. excuse' <=> excuse \/ (recalc' = "failed" /\ StaleAbout)
      BY <1>6, Zenon DEF failJob, stallJob
    <2> QED BY <1>0, <1>2, <2>1, <2>2 DEF CardTypeOK, Explained, OnItsWay
  <1> QED BY <1>1, <1>3, <1>4, <1>5, <1>6 DEF JobStep

LEMMA JobKeeps ==
  ASSUME CardInv, addReview \/ enqueueRecalcRating \/ JobStep \/ ageOut
  PROVE  CardInv'
  <1>0. CardTypeOK /\ LockIsLeaders
        /\ (\A u \in Reader : HandInv(u)) /\ CachedInv /\ WaveInv
    BY CardInvParts
  <1>1. CardTypeOK' /\ JobLeft'
    BY JobKeepsTypes
  <1>2. LockIsLeaders'
    BY <1>0, JobFrame DEF LockIsLeaders, Leading
  <1>3. (\A u \in Reader : HandInv(u)') /\ CachedInv'
    <2>1. /\ row \in Nat /\ row' \in Nat /\ row' >= row
          /\ loaded \in [Reader -> Nat] /\ card \in Nat \cup {Nil}
      BY <1>0, <1>1, JobExplains DEF CardTypeOK
    <2>2. \A u \in Reader : Stale(loaded[u])' => Explained'
      BY JobExplains DEF StaleAbout
    <2>3. Stale(card)' => Explained'
      BY JobExplains DEF StaleAbout
    <2> HIDE DEF Explained
    <2> QED BY <1>0, <2>1, <2>2, <2>3, JobFrame DEF HandInv, CachedInv
  <1>4. WaveInv'
    BY <1>0, JobFrame DEF WaveInv, Leading
  <1> QED BY <1>1, <1>2, <1>3, <1>4 DEF JobLeft, CardInv, HandInv, CachedInv, WaveInv

LEMMA CardNextInv == CardInv /\ [CardNext]_cardVars => CardInv'
  <1> SUFFICES ASSUME CardInv, [CardNext]_cardVars PROVE CardInv'
    OBVIOUS
  <1>1. CASE UNCHANGED cardVars
    BY <1>1 DEF cardVars, cacheState, getState, jobState, CardInv, CardTypeOK,
                LockIsLeaders, Leading, Stale, Explained, OnItsWay
  <1>2. ASSUME NEW r \in Reader, ReaderStep(r) \/ CrashReader(r) PROVE CardInv'
    BY <1>2, ReaderLeavesJob, ReaderKeepsTypes, ReaderKeepsLock, ReaderKeepsHands,
       ReaderKeepsWave
       DEF CardInv, HandInv, CachedInv, WaveInv
  <1> QED BY <1>1, <1>2, RedisKeeps, JobKeeps DEF CardNext

-----------------------------------------------------------------------------
\* cache.ts and queue.ts: the invariant of lock, loads and stale cards holds in
\* every reachable state.
THEOREM CardInvariant == CardSpec => []CardInv
  BY CardInitInv, CardNextInv, PTL DEF CardSpec

\* cache.ts, get() and UNLOCK_LUA: the lock is its leader's although locks run out
\* under leaders that unlock later, and a quiet wave of reads costs one load.
THEOREM CardSingleFlight == CardSpec => []SingleFlight
  <1>1. CardInv => SingleFlight
    BY DEF CardInv, SingleFlight, OneLoadPerWave
  <1> QED BY <1>1, CardInvariant, PTL

\* cache.ts and queue.ts: a card older than its row is on its way out, or one of
\* the enumerated losses has happened.
THEOREM CardStaleExplained == CardSpec => []StaleCardExplained
  <1>1. CardInv => StaleCardExplained
    BY DEF CardInv, CardTypeOK, StaleCardExplained, Stale, Explained
  <1> QED BY <1>1, CardInvariant, PTL
=============================================================================
