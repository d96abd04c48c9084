---------------------------- MODULE ExpiryProofs ----------------------------
(***************************************************************************)
(* Proofs about what runs out, each component under its own specification  *)
(* and for every value of its constants: the rate limiter for every window,*)
(* limit and number of requests, the Redis sessions, the edge cache, the   *)
(* rotation of signing keys, the backups and the restore drill.            *)
(***************************************************************************)
EXTENDS RateLimiter, SessionStore, EdgeCache, KeyRotation, BackupDrill,
        FiniteSetTheorems, NaturalsInduction, TLAPS

(* The rate limiter *)

\* What passed and is still in the window is counted by the script: the ZSET
\* holds it, and ZREMRANGEBYSCORE keeps it.
LEMMA PassedIsLive ==
  ASSUME LimiterInv
  PROVE  /\ InWindow(now) \subseteq Live
         /\ IsFiniteSet(Live)
         /\ Cardinality(InWindow(now)) <= Cardinality(Live)
         /\ IsFiniteSet(InWindow(now))
         /\ Cardinality(Live) \in Nat /\ Cardinality(InWindow(now)) \in Nat
  <1>1. InWindow(now) \subseteq Live
    BY LimiterAssumption DEF LimiterInv, LimiterTypeOK, InWindow, Live
  <1>2. IsFiniteSet(Live)
    BY FS_Subset DEF LimiterInv, Live
  <1>3. IsFiniteSet(InWindow(now)) /\ Cardinality(InWindow(now)) <= Cardinality(Live)
    BY <1>1, <1>2, FS_Subset
  <1> QED BY <1>1, <1>2, <1>3, FS_CardinalityType

LEMMA LimiterInitInv == LimiterInit => LimiterInv
  <1> SUFFICES ASSUME LimiterInit PROVE LimiterInv
    OBVIOUS
  <1>1. LimiterTypeOK
    <2>1. failOpen \in BOOLEAN /\ leaked \in BOOLEAN
      BY Zenon DEF LimiterInit
    <2>2. /\ now \in Nat /\ limit \in Nat /\ zset = {} /\ passed = {}
          /\ keyExpires \in Nat /\ retryAt = None /\ requests \in 0..MaxRequests
      BY LimiterAssumption DEF LimiterInit
    <2> QED BY <2>1, <2>2, Zenon DEF LimiterTypeOK
  <1>2. IsFiniteSet({}) /\ Cardinality({}) = 0
    BY FS_EmptySet
  <1>3. \A t \in 0..now : InWindow(t) = {}
    BY DEF LimiterInit, InWindow
  <1>4. WindowLimit
    BY <1>1, <1>2, <1>3 DEF LimiterInit, LimiterTypeOK, WindowLimit
  <1> QED BY <1>1, <1>2, <1>4 DEF LimiterInit, LimiterInv

\* ZADD keeps the types and the bookkeeping of the ZSET.
LEMMA AddKeeps ==
  ASSUME LimiterInv, AddRequest, UNCHANGED now
  PROVE  /\ requests' \in 0..MaxRequests /\ requests' = requests + 1
         /\ zset' \subseteq Nat \X Request /\ IsFiniteSet(zset')
         /\ keyExpires' \in Nat
         /\ \A e \in zset' : e[1] <= now /\ e[1] + Window <= keyExpires' /\ e[2] <= requests'
         /\ \A e \in zset : e[1] > now - Window => e \in zset'
  <1>1. IsFiniteSet(Live)
    BY FS_Subset DEF LimiterInv, Live
  <1>2. IsFiniteSet(zset')
    BY <1>1, FS_AddElement DEF AddRequest
  <1> QED BY <1>2, LimiterAssumption
          DEF LimiterInv, LimiterTypeOK, AddRequest, Live, Request

LEMMA AllowKeeps ==
  ASSUME LimiterInv, allow
  PROVE  LimiterInv'
  <1> DEFINE new == <<now, requests + 1>>
  <1> UNCHANGED <<now, limit, failOpen, leaked>> /\ AddRequest
    BY DEF allow
  <1>1. passed' = passed \cup {new} /\ new \in Nat \X Request
    BY LimiterAssumption DEF allow, AddRequest, LimiterInv, LimiterTypeOK, Request
  <1>2. LimiterTypeOK'
    BY <1>1, AddKeeps DEF LimiterInv, LimiterTypeOK, allow
  <1>3. IsFiniteSet(passed') /\ IsFiniteSet(zset')
    BY <1>1, AddKeeps, FS_AddElement DEF LimiterInv
  <1>4. /\ \A p \in passed' : p[1] <= now /\ p[2] <= requests'
        /\ \A p \in passed' : p[1] > now - Window => p \in zset'
    <2>1. new[1] = now /\ new[2] = requests' /\ new \in zset' /\ now \in Nat
          /\ requests \in Nat /\ requests' = requests + 1
      BY DEF AddRequest, LimiterInv, LimiterTypeOK
    <2>2. \A p \in passed :
            /\ p \in Nat \X Request
            /\ p[1] <= now /\ p[2] <= requests
            /\ p[1] > now - Window => p \in zset
      BY DEF LimiterInv, LimiterTypeOK
    <2> HIDE DEF new
    <2>3. ASSUME NEW p \in passed PROVE p[1] <= now /\ p[2] <= requests'
      <3>1. p[1] <= now /\ p[2] <= requests /\ p[2] \in Nat
        BY <2>2 DEF Request
      <3> QED BY <2>1, <3>1
    <2>4. ASSUME NEW p \in passed, p[1] > now - Window PROVE p \in zset'
      <3>1. p \in zset
        BY <2>2, <2>4
      <3>2. \A e \in zset : e[1] > now - Window => e \in zset'
        BY AddKeeps
      <3> QED BY <2>4, <3>1, <3>2
    <2> QED BY <1>1, <2>1, <2>3, <2>4
  <1>5. ASSUME NEW t \in 0..now PROVE Cardinality(InWindow(t)') <= limit
    <2>1. CASE t # now
      <3>1. InWindow(t)' = InWindow(t)
        BY <1>1, <2>1 DEF InWindow, LimiterInv, LimiterTypeOK
      <3> QED BY <3>1 DEF LimiterInv, WindowLimit
    <2>2. CASE t = now
      <3>1. InWindow(t)' \subseteq InWindow(now) \cup {new}
        BY <1>1, <2>2 DEF InWindow
      <3>2. /\ IsFiniteSet(InWindow(now) \cup {new})
            /\ Cardinality(InWindow(now) \cup {new}) <= Cardinality(InWindow(now)) + 1
            /\ Cardinality(InWindow(now) \cup {new}) \in Nat
        <4> HIDE DEF new
        <4>1. /\ IsFiniteSet(InWindow(now) \cup {new})
              /\ \/ Cardinality(InWindow(now) \cup {new}) = Cardinality(InWindow(now))
                 \/ Cardinality(InWindow(now) \cup {new}) = Cardinality(InWindow(now)) + 1
          BY PassedIsLive, FS_AddElement
        <4> QED BY <4>1, PassedIsLive
      <3>3. /\ Cardinality(InWindow(t)') <= Cardinality(InWindow(now) \cup {new})
            /\ Cardinality(InWindow(t)') \in Nat
        BY <3>1, <3>2, FS_Subset, FS_CardinalityType
      <3>4. Cardinality(Live) < limit /\ limit \in Nat
        BY DEF AddRequest, LimiterInv, LimiterTypeOK
      <3> QED BY <3>2, <3>3, <3>4, PassedIsLive
    <2> QED BY <2>1, <2>2
  <1>6. WindowLimit'
    BY <1>5 DEF WindowLimit, LimiterInv
  <1> QED BY <1>2, <1>3, <1>4, <1>6, AddKeeps DEF LimiterInv

\* Steps that let nobody in keep the limit as long as passed stays.
LEMMA RefuseKeeps ==
  ASSUME LimiterInv, refuse \/ checkFails
  PROVE  LimiterInv'
  <1>1. WindowLimit'
    BY DEF LimiterInv, LimiterTypeOK, WindowLimit, InWindow, refuse, checkFails
  <1>2. CASE refuse
    <2>1. zset' = Live /\ IsFiniteSet(Live)
      BY <1>2, FS_Subset DEF refuse, LimiterInv, Live
    <2>2. retryAt' \in Nat
      <3> PICK oldest \in Live :
            retryAt' = now + Second * retryAfterSec(oldest[1] + Window - now)
        BY <1>2 DEF refuse
      <3> DEFINE ms == oldest[1] + Window - now
                 s == (ms + Second - 1) \div Second
      <3>1. ms \in Nat \ {0}
        BY LimiterAssumption DEF Live, LimiterInv, LimiterTypeOK
      <3>2. s \in Int
        BY <3>1, LimiterAssumption
      <3>3. retryAfterSec(ms) \in Nat
        <4> HIDE DEF s
        <4>1. retryAfterSec(ms) = IF s < 1 THEN 1 ELSE s
          BY DEF retryAfterSec, s
        <4> QED BY <4>1, <3>2
      <3> HIDE DEF ms
      <3>4. retryAt' = now + Second * retryAfterSec(ms)
        BY DEF ms
      <3>5. Second * retryAfterSec(ms) \in Nat
        BY <3>3, LimiterAssumption
      <3> QED BY <3>4, <3>5 DEF LimiterInv, LimiterTypeOK
    <2>3. LimiterTypeOK'
      BY <1>2, <2>1, <2>2 DEF refuse, LimiterInv, LimiterTypeOK, Live
    <2> QED BY <1>1, <1>2, <2>1, <2>3 DEF refuse, LimiterInv, Live
  <1>3. CASE checkFails
    <2>1. /\ requests' \in 0..MaxRequests /\ requests' = requests + 1
          /\ zset' \subseteq Nat \X Request /\ IsFiniteSet(zset')
          /\ keyExpires' \in Nat
          /\ \A e \in zset' :
               e[1] <= now /\ e[1] + Window <= keyExpires' /\ e[2] <= requests'
          /\ \A e \in zset : e[1] > now - Window => e \in zset'
      <3>1. CASE AddRequest
        BY <1>3, <3>1, AddKeeps DEF checkFails
      <3>2. CASE ~AddRequest
        <4>1. requests' = requests + 1 /\ requests < MaxRequests
              /\ zset' = zset /\ keyExpires' = keyExpires
          BY <1>3, <3>2 DEF checkFails
        <4>2. /\ requests \in 0..MaxRequests /\ keyExpires \in Nat
              /\ zset \subseteq Nat \X Request /\ IsFiniteSet(zset)
              /\ \A e \in zset :
                   e[1] <= now /\ e[1] + Window <= keyExpires /\ e[2] <= requests
          BY DEF LimiterInv, LimiterTypeOK
        <4>3. \A e \in zset : e[2] <= requests + 1
          BY <4>2 DEF Request
        <4> QED BY <4>1, <4>2, <4>3, LimiterAssumption
      <3> QED BY <3>1, <3>2
    <2>2. leaked' \in BOOLEAN
      BY <1>3 DEF checkFails
    <2>3. LimiterTypeOK'
      BY <1>3, <2>1, <2>2 DEF checkFails, LimiterInv, LimiterTypeOK
    <2>4. \A p \in passed : p[1] <= now /\ p[2] <= requests'
      <3>1. \A p \in passed : p \in Nat \X Request /\ p[1] <= now /\ p[2] <= requests
        BY DEF LimiterInv, LimiterTypeOK
      <3> QED BY <2>1, <3>1 DEF LimiterInv, LimiterTypeOK, Request
    <2>5. now' = now /\ passed' = passed
      BY <1>3 DEF checkFails
    <2> QED BY <1>1, <2>1, <2>3, <2>4, <2>5 DEF LimiterInv
  <1> QED BY <1>2, <1>3

LEMMA EvictKeeps ==
  ASSUME LimiterInv, evictCounter
  PROVE  LimiterInv'
  <1>1. IsFiniteSet({}) /\ Cardinality({}) = 0
    BY FS_EmptySet
  <1>2. \A t \in 0..now' : InWindow(t)' = {}
    BY DEF evictCounter, InWindow
  <1>3. LimiterTypeOK'
    BY DEF evictCounter, LimiterInv, LimiterTypeOK
  <1>4. \A t \in 0..now' : Cardinality(InWindow(t)') <= limit'
    BY <1>1, <1>2, <1>3 DEF LimiterTypeOK
  <1>5. leaked' => failOpen'
    BY Zenon DEF evictCounter, LimiterInv, WindowLimit
  <1>6. WindowLimit'
    BY <1>4, <1>5, Zenon DEF WindowLimit
  <1> QED BY <1>1, <1>3, <1>6 DEF evictCounter, LimiterInv

\* Time empties the window from the old end, and PEXPIRE never takes an entry
\* that is still in it.
LEMMA TickKeeps ==
  ASSUME LimiterInv, LimiterTick
  PROVE  LimiterInv'
  <1>1. now' = now + 1 /\ now' \in Nat /\ passed' = passed /\ limit' = limit
    BY ClockAssumption DEF LimiterTick, Later, LimiterInv, LimiterTypeOK
  <1>2. zset' \subseteq zset /\ IsFiniteSet(zset')
    BY FS_Subset, FS_EmptySet DEF LimiterTick, LimiterInv
  <1>3. LimiterTypeOK'
    BY <1>1, <1>2 DEF LimiterTick, LimiterInv, LimiterTypeOK
  <1>4. \A p \in passed : p[1] > now' - Window => p \in zset'
    BY <1>1, LimiterAssumption DEF LimiterTick, LimiterInv, LimiterTypeOK
  <1>5. ASSUME NEW t \in 0..now' PROVE Cardinality(InWindow(t)') <= limit
    <2>1. CASE t \in 0..now
      <3>1. InWindow(t)' = InWindow(t)
        BY <1>1 DEF InWindow
      <3> QED BY <2>1, <3>1 DEF LimiterInv, WindowLimit
    <2>2. CASE t = now + 1
      <3>1. InWindow(t)' \subseteq InWindow(now)
        BY <1>1, <2>2, LimiterAssumption DEF InWindow, LimiterInv, LimiterTypeOK
      <3>2. Cardinality(InWindow(t)') <= Cardinality(InWindow(now))
        BY <3>1, PassedIsLive, FS_Subset
      <3>3. Cardinality(InWindow(t)') \in Nat
        BY <3>1, PassedIsLive, FS_Subset, FS_CardinalityType
      <3>4. Cardinality(InWindow(now)) <= limit /\ limit \in Nat
        BY DEF LimiterInv, LimiterTypeOK, WindowLimit
      <3> QED BY <3>2, <3>3, <3>4, PassedIsLive
    <2> QED BY <1>1, <2>1, <2>2 DEF LimiterInv, LimiterTypeOK
  <1>6. WindowLimit'
    BY <1>1, <1>5 DEF LimiterTick, LimiterInv, WindowLimit
  <1> QED BY <1>1, <1>2, <1>3, <1>4, <1>6 DEF LimiterTick, LimiterInv, LimiterTypeOK

\* The inductive invariant of rate-limit.ts: the ZSET knows all that passed
\* within the window.
THEOREM LimiterInvariant == LimiterSpec => []LimiterInv
  <1>1. LimiterInv /\ [LimiterNext]_limiterVars => LimiterInv'
    <2> SUFFICES ASSUME LimiterInv, [LimiterNext]_limiterVars PROVE LimiterInv'
      OBVIOUS
    <2>1. CASE allow
      BY <2>1, AllowKeeps
    <2>2. CASE refuse \/ checkFails
      BY <2>2, RefuseKeeps
    <2>3. CASE evictCounter
      BY <2>3, EvictKeeps
    <2>4. CASE LimiterTick
      BY <2>4, TickKeeps
    <2>5. CASE UNCHANGED limiterVars
      BY <2>5 DEF limiterVars, LimiterInv, LimiterTypeOK, WindowLimit, InWindow
    <2> QED BY <2>1, <2>2, <2>3, <2>4, <2>5 DEF LimiterNext
  <1> QED BY <1>1, LimiterInitInv, PTL DEF LimiterSpec

\* No window, aligned or not, lets in more than limit requests, and only a
\* fail-open limiter lets others pass.
THEOREM LimiterWindowLimit == LimiterSpec => []WindowLimit
  <1>1. LimiterInv => WindowLimit
    BY DEF LimiterInv
  <1> QED BY <1>1, LimiterInvariant, PTL

\* Math.ceil to whole seconds reaches the moment that was meant.
LEMMA RoundedUp ==
  ASSUME NEW ms \in Nat \ {0}
  PROVE  /\ retryAfterSec(ms) \in Nat
         /\ ms <= Second * retryAfterSec(ms)
  <1> DEFINE a == ms + Second - 1
             q == a \div Second
  <1>1. a \in Nat /\ Second \in Nat \ {0}
    BY LimiterAssumption
  <1>2. q \in Nat /\ a < q * Second + Second
    <2> HIDE DEF a
    <2> QED BY <1>1
  <1> HIDE DEF q
  <1>3. q # 0
    BY <1>1, <1>2
  <1>4. ms <= Second * q
    BY <1>1, <1>2
  <1>5. retryAfterSec(ms) = q
    BY <1>2, <1>3 DEF retryAfterSec, q
  <1> QED BY <1>2, <1>4, <1>5

\* Who is refused is told of a moment when the oldest entry has left.
LEMMA ComeBackKept ==
  ASSUME LimiterInv, ComeBack, [LimiterNext]_limiterVars
  PROVE  ComeBack'
  <1> limit \in Nat /\ IsFiniteSet(zset) /\ IsFiniteSet(Live) /\ Live \subseteq zset
      /\ Cardinality(zset) \in Nat /\ Cardinality(Live) \in Nat
      /\ Cardinality(Live) <= Cardinality(zset) /\ Cardinality(zset) <= limit
    BY FS_Subset, FS_CardinalityType, PassedIsLive
       DEF LimiterInv, LimiterTypeOK, Live, ComeBack
  <1>1. ASSUME AddRequest PROVE Cardinality(zset') <= limit
    <2> DEFINE new == <<now, requests + 1>>
    <2>1. zset' = Live \cup {new} /\ Cardinality(Live) < limit
      BY <1>1 DEF AddRequest
    <2> HIDE DEF new
    <2>2. \/ Cardinality(Live \cup {new}) = Cardinality(Live)
          \/ Cardinality(Live \cup {new}) = Cardinality(Live) + 1
      BY FS_AddElement
    <2> QED BY <2>1, <2>2
  <1>2. CASE allow
    BY <1>1, <1>2 DEF allow, ComeBack
  <1>3. CASE checkFails
    BY <1>1, <1>3 DEF checkFails, ComeBack
  <1>4. CASE evictCounter
    BY <1>4, FS_EmptySet DEF evictCounter, ComeBack
  <1>5. CASE refuse
    <2> PICK oldest \in Live :
          retryAt' = now + Second * retryAfterSec(oldest[1] + Window - now)
      BY <1>5 DEF refuse
    <2> DEFINE ms == oldest[1] + Window - now
               wait == Second * retryAfterSec(ms)
    <2>1. ms \in Nat \ {0} /\ oldest[1] \in Nat /\ now \in Nat /\ Window \in Nat
      BY LimiterAssumption DEF Live, LimiterInv, LimiterTypeOK
    <2>2. ms <= wait /\ wait \in Nat
      BY <2>1, RoundedUp, LimiterAssumption
    <2>3. oldest[1] + Window = now + ms /\ retryAt' = now + wait
      BY <2>1
    <2>4. oldest[1] + Window <= retryAt'
      <3> HIDE DEF ms, wait
      <3> QED BY <2>1, <2>2, <2>3
    <2>5. Cardinality(Live) # 0
      BY FS_EmptySet
    <2>6. zset' = Live /\ limit' = limit
      BY <1>5 DEF refuse
    <2> QED BY <2>4, <2>5, <2>6 DEF ComeBack
  <1>6. CASE LimiterTick
    BY <1>6, FS_EmptySet DEF LimiterTick, ComeBack
  <1>7. CASE UNCHANGED limiterVars
    BY <1>7 DEF limiterVars, ComeBack
  <1> QED BY <1>2, <1>3, <1>4, <1>5, <1>6, <1>7 DEF LimiterNext

\* A client that obeys Retry-After is let in: for every window, limit and
\* rounding.
THEOREM LimiterRetryAfterHonest == LimiterSpec => []RetryAfterHonest
  <1>1. LimiterInit => ComeBack
    BY FS_EmptySet, LimiterAssumption DEF LimiterInit, ComeBack
  <1>2. LimiterInv /\ ComeBack => RetryAfterHonest
    <2> SUFFICES ASSUME LimiterInv, ComeBack, retryAt # None, now >= retryAt
                 PROVE  Cardinality(Live) < limit
      BY DEF RetryAfterHonest
    <2>1. IsFiniteSet(zset) /\ limit \in Nat /\ retryAt \in Nat /\ now \in Nat
      BY DEF LimiterInv, LimiterTypeOK
    <2>2. Cardinality(zset) \in Nat /\ Cardinality(Live) \in Nat
          /\ Cardinality(Live) <= Cardinality(zset)
      BY <2>1, FS_Subset, FS_CardinalityType DEF Live
    <2>3. CASE Cardinality(zset) < limit
      BY <2>1, <2>2, <2>3
    <2>4. CASE \E e \in zset : e[1] + Window <= retryAt
      <3> PICK e \in zset : e[1] + Window <= retryAt
        BY <2>4
      <3>1. e[1] \in Nat /\ Window \in Nat
        BY LimiterAssumption DEF LimiterInv, LimiterTypeOK
      <3>2. Live \subseteq zset \ {e}
        BY <2>1, <3>1 DEF Live
      <3>3. IsFiniteSet(zset \ {e}) /\ Cardinality(zset \ {e}) = Cardinality(zset) - 1
        BY <2>1, FS_RemoveElement
      <3>4. Cardinality(Live) <= Cardinality(zset \ {e})
        BY <3>2, <3>3, FS_Subset
      <3>5. Cardinality(zset) <= limit
        BY DEF ComeBack
      <3> QED BY <2>1, <2>2, <3>3, <3>4, <3>5
    <2> QED BY <2>3, <2>4 DEF ComeBack
  <1> QED BY <1>1, <1>2, ComeBackKept, LimiterInvariant, PTL DEF LimiterSpec

\* Both modules count alike.
LEMMA SameCount == \A S : Promise!Cardinality(S) = Cardinality(S)
  BY Zenon DEF Cardinality, Promise!Cardinality

\* The Lua script with its ZSET, expiry and eviction implements the sliding
\* window of SlidingWindow.tla.
THEOREM LimiterImplementsWindow == LimiterSpec => ImplementsWindow
  <1>1. LimiterInit => Promise!Init
    BY LimiterAssumption DEF LimiterInit, Promise!Init
  <1>2. LimiterInv /\ [LimiterNext]_limiterVars => [Promise!Next]_Promise!wvars
    <2> SUFFICES ASSUME LimiterInv, [LimiterNext]_limiterVars
                 PROVE  [Promise!Next]_Promise!wvars
      OBVIOUS
    <2>1. CASE allow
      <3>1. Promise!Recent(passed, now) = InWindow(now)
        BY DEF Promise!Recent, InWindow
      <3>2. Cardinality(Promise!Recent(passed, now)) < limit
        <4>1. Cardinality(Live) < limit /\ limit \in Nat
          BY <2>1 DEF allow, AddRequest, LimiterInv, LimiterTypeOK
        <4> QED BY <3>1, <4>1, PassedIsLive
      <3>3. requests + 1 \in Request
        BY <2>1, LimiterAssumption
           DEF allow, AddRequest, LimiterInv, LimiterTypeOK, Request
      <3>4. Promise!Admit(requests + 1)
        BY <2>1, <3>2, SameCount DEF allow, Promise!Admit
      <3> QED BY <3>3, <3>4 DEF Promise!Next
    <2>2. CASE refuse
      BY <2>2 DEF refuse, Promise!wvars
    <2>3. CASE checkFails
      <3>1. CASE failOpen
        BY <2>3, <3>1 DEF checkFails, Promise!Next, Promise!Leak
      <3>2. CASE ~failOpen
        <4>1. leaked' = leaked
          BY <2>3, <3>2 DEF checkFails, LimiterInv, LimiterTypeOK
        <4> QED BY <2>3, <4>1 DEF checkFails, Promise!wvars
      <3> QED BY <3>1, <3>2
    <2>4. CASE evictCounter
      BY <2>4 DEF evictCounter, Promise!Next, Promise!Forget
    <2>5. CASE LimiterTick
      BY <2>5 DEF LimiterTick, Later, Promise!Next, Promise!Advance
    <2>6. CASE UNCHANGED limiterVars
      BY <2>6 DEF limiterVars, Promise!wvars
    <2> QED BY <2>1, <2>2, <2>3, <2>4, <2>5, <2>6 DEF LimiterNext
  <1> QED BY <1>1, <1>2, LimiterInvariant, PTL
          DEF LimiterSpec, ImplementsWindow, Promise!Spec

-----------------------------------------------------------------------------
(* Sessions in Redis *)

\* What SETEX writes is a session.
LEMMA EntryIsASession ==
  ASSUME SessionInv, NEW v \in 0..MaxVisits
  PROVE  /\ Entry(v) \in [visits : 0..MaxVisits, expires : Nat] /\ Entry(v) # None
         /\ Entry(v).visits = v /\ Entry(v).expires = now + Ttl
  BY SessionAssumption DEF SessionInv, Entry

\* Nobody has a session.
LEMMA SessionInitInv == SessionInit => SessionInv
  BY SessionAssumption
  DEF SessionInit, SessionInv, SessionTypeOK, Sid, ActiveStays, VisitsCounted, HolderKnows,
      Unknown, Holders

\* A request takes hold of a session that is there: it has read all the visits that were
\* saved, unless somebody else holds the session too.
LEMMA HoldKeeps ==
  ASSUME SessionInv, NEW q \in Visit, NEW s \in Sid, NEW v \in 0..MaxVisits,
         NEW new \in BOOLEAN, NEW n \in 0..MaxSid, sids <= n, s <= n, n <= sids \/ n = s,
         spc[q] # "save", Hold(q, s, v, new), session' = [session EXCEPT ![s] = Entry(v)],
         sids' = n, UNCHANGED <<now, cookie, ended, late, saves>>,
         v <= saves[s], s \notin overlapped => v = saves[s],
         s \notin ended \ late
  PROVE  SessionInv'
  <1>1. /\ spc' = [spc EXCEPT ![q] = "save"]
        /\ sreq' = [sreq EXCEPT ![q] = [sid |-> s, visits |-> v, isNew |-> new]]
        /\ lastUse' = [lastUse EXCEPT ![s] = now]
        /\ overlapped' = IF Holders(s) = {} THEN overlapped ELSE overlapped \cup {s}
    BY DEF Hold
  <1> DEFINE r == [sid |-> s, visits |-> v, isNew |-> new]
  <1>2. /\ r \in [sid : Sid, visits : 0..MaxVisits, isNew : BOOLEAN]
        /\ r.sid = s /\ r.visits = v
    OBVIOUS
  <1> HIDE DEF r
  <1>3. /\ Entry(v) \in [visits : 0..MaxVisits, expires : Nat] /\ Entry(v) # None
        /\ Entry(v).visits = v /\ Entry(v).expires = now + Ttl
    BY EntryIsASession
  <1>4. /\ spc'[q] = "save" /\ sreq'[q] = r
        /\ \A p \in Visit \ {q} : spc'[p] = spc[p] /\ sreq'[p] = sreq[p]
    BY <1>1 DEF SessionInv, SessionTypeOK, r
  <1>5. /\ session'[s] = Entry(v) /\ lastUse'[s] = now
        /\ \A z \in Sid \ {s} : session'[z] = session[z] /\ lastUse'[z] = lastUse[z]
    BY <1>1 DEF SessionInv, SessionTypeOK
  <1>6. SessionTypeOK'
    BY <1>1, <1>2, <1>3 DEF SessionInv, SessionTypeOK, r
  <1>7. lastUse' \in [Sid -> Nat \cup {None}]
    BY <1>1 DEF SessionInv
  <1>8. /\ Holders(s)' = Holders(s) \cup {q}
        /\ \A z \in Sid \ {s} : Holders(z)' = Holders(z)
    BY <1>2, <1>4 DEF Holders
  <1>9. \A z \in Sid : session'[z] # None =>
          lastUse'[z] # None /\ session'[z].expires = lastUse'[z] + Ttl
    BY <1>3, <1>5, ClockAssumption DEF SessionInv
  <1>10. ActiveStays'
    BY <1>3, <1>5 DEF SessionInv, ActiveStays
  <1>11. \A z \in (ended \ late)' : session'[z] = None /\ Holders(z)' = {}
    BY <1>5, <1>8 DEF SessionInv, SessionTypeOK, Holders
  <1>12. VisitsCounted'
    BY <1>1, <1>3, <1>5 DEF SessionInv, VisitsCounted
  <1>13. ASSUME NEW p \in Visit PROVE HolderKnows(p)'
    <2>1. CASE p = q
      BY <1>1, <1>2, <1>4, <1>8, <2>1 DEF HolderKnows, Holders
    <2>2. CASE p # q
      <3>1. HolderKnows(p) /\ spc'[p] = spc[p] /\ sreq'[p] = sreq[p]
        BY <1>4, <2>2 DEF SessionInv
      <3>2. spc[p] = "save" /\ sreq[p].sid = s => p \in Holders(s) /\ s \in overlapped'
        BY <1>1 DEF Holders
      <3> QED BY <1>1, <1>8, <3>1, <3>2 DEF HolderKnows, Holders
    <2> QED BY <2>1, <2>2
  <1>14. ASSUME NEW z \in Sid, z > n PROVE Unknown(z)'
    <2>1. z # s /\ z > sids
      BY <1>14, SessionAssumption DEF SessionInv, SessionTypeOK, Sid
    <2>2. Unknown(z)
      BY <2>1 DEF SessionInv
    <2> QED BY <1>1, <1>5, <1>8, <2>1, <2>2 DEF Unknown, Holders
  <1> QED BY <1>6, <1>7, <1>9, <1>10, <1>11, <1>12, <1>13, <1>14 DEF SessionInv

\* GETEX of the cookie's session, or nothing to find.
LEMMA TouchKeeps ==
  ASSUME SessionInv, NEW q \in Visit, touch(q)
  PROVE  SessionInv'
  <1>1. CASE cookie # None /\ session[cookie] # None
    <2>1. PICK s \in Sid : s = cookie
      BY <1>1 DEF SessionInv, SessionTypeOK
    <2>2. /\ session[s] \in [visits : 0..MaxVisits, expires : Nat] /\ session[s] # None
      BY <1>1, <2>1 DEF SessionInv, SessionTypeOK
    <2>3. PICK v \in 0..MaxVisits : v = session[s].visits
      BY <2>2
    <2>4. /\ Hold(q, s, v, FALSE) /\ session' = [session EXCEPT ![s] = Entry(v)]
          /\ spc[q] = "idle" /\ UNCHANGED <<now, sids, cookie, ended, late, saves>>
      BY <1>1, <2>1, <2>3 DEF touch, SessionInv, SessionTypeOK
    <2>5. s <= sids
      BY <2>2, SessionAssumption DEF SessionInv, SessionTypeOK, Sid, Unknown
    <2>6. v <= saves[s] /\ (s \notin overlapped => v = saves[s]) /\ s \notin ended \ late
      BY <2>2, <2>3 DEF SessionInv, VisitsCounted
    <2>7. sids \in 0..MaxSid /\ sids <= sids
      BY SessionAssumption DEF SessionInv, SessionTypeOK
    <2> QED BY <2>4, <2>5, <2>6, <2>7, HoldKeeps
  <1>2. CASE ~ (cookie # None /\ session[cookie] # None)
    <2>1. /\ spc' = [spc EXCEPT ![q] = "create"] /\ spc[q] = "idle"
          /\ UNCHANGED <<session, sreq, lastUse, overlapped, now, sids, cookie, ended, late, saves>>
      BY <1>2 DEF touch
    <2>2. \A p \in Visit : spc'[p] = "save" <=> spc[p] = "save"
      BY <2>1 DEF SessionInv, SessionTypeOK
    <2>3. SessionTypeOK'
      BY <2>1 DEF SessionInv, SessionTypeOK
    <2>4. \A s \in Sid : Holders(s)' = Holders(s)
      BY <2>1, <2>2 DEF Holders
    <2> QED
      BY <2>1, <2>2, <2>3, <2>4
      DEF SessionInv, ActiveStays, VisitsCounted, HolderKnows, Unknown, Holders
  <1> QED BY <1>1, <1>2

\* A new id has left no trace yet.
LEMMA CreateKeeps ==
  ASSUME SessionInv, NEW q \in Visit, create(q)
  PROVE  SessionInv'
  <1>1. /\ spc[q] = "create" /\ sids < MaxSid /\ sids' = sids + 1
        /\ Hold(q, sids + 1, 0, TRUE) /\ session' = [session EXCEPT ![sids + 1] = Entry(0)]
        /\ UNCHANGED <<now, cookie, ended, late, saves>>
    BY DEF create
  <1>2. PICK s \in Sid : s = sids + 1 /\ s > sids /\ s \in 0..MaxSid /\ sids <= s /\ s <= s
    BY <1>1, SessionAssumption DEF SessionInv, SessionTypeOK, Sid
  <1>3. Unknown(s)
    BY <1>2 DEF SessionInv
  <1>4. 0 \in 0..MaxVisits /\ 0 <= saves[s] /\ 0 = saves[s] /\ s \notin ended \ late
    BY <1>3, SessionAssumption DEF Unknown
  <1> QED BY <1>1, <1>2, <1>4, HoldKeeps

\* A request that lets go of its session, saved or not.
LEMMA LetGoFacts ==
  ASSUME SessionInv, NEW q \in Visit, spc' = [spc EXCEPT ![q] = "idle"],
         sreq' = [sreq EXCEPT ![q] = None]
  PROVE  /\ spc' \in [Visit -> {"idle", "create", "save"}]
         /\ sreq' \in [Visit -> [sid : Sid, visits : 0..MaxVisits, isNew : BOOLEAN] \cup {None}]
         /\ \A p \in Visit : spc'[p] = "save" => p # q /\ spc[p] = "save" /\ sreq'[p] = sreq[p]
         /\ \A p \in Visit \ {q} : spc'[p] = spc[p] /\ sreq'[p] = sreq[p]
         /\ \A s \in Sid : Holders(s)' = Holders(s) \ {q}
  <1>1. /\ spc' \in [Visit -> {"idle", "create", "save"}]
        /\ sreq' \in [Visit -> [sid : Sid, visits : 0..MaxVisits, isNew : BOOLEAN] \cup {None}]
    BY DEF SessionInv, SessionTypeOK
  <1>2. spc'[q] = "idle" /\ \A p \in Visit \ {q} : spc'[p] = spc[p] /\ sreq'[p] = sreq[p]
    BY DEF SessionInv, SessionTypeOK
  <1>3. \A p \in Visit : spc'[p] = "save" => p # q /\ spc[p] = "save" /\ sreq'[p] = sreq[p]
    BY <1>2
  <1>4. \A s \in Sid : Holders(s)' = Holders(s) \ {q}
    BY <1>2 DEF Holders
  <1> QED BY <1>1, <1>2, <1>3, <1>4

\* save(): one visit more than was read; the only holder has read them all.
LEMMA SaveKeeps ==
  ASSUME SessionInv, NEW q \in Visit, save(q)
  PROVE  SessionInv'
  <1>1. /\ spc[q] = "save" /\ HolderKnows(q)
    BY DEF save, SessionInv
  <1>2. PICK s \in Sid : s = sreq[q].sid
    BY <1>1 DEF HolderKnows
  <1>3. PICK v \in 0..MaxVisits : v = sreq[q].visits
    BY <1>1 DEF HolderKnows
  <1>4. /\ session' = [session EXCEPT ![s] = Entry(v + 1)] /\ v < MaxVisits
        /\ saves' = [saves EXCEPT ![s] = @ + 1] /\ lastUse' = [lastUse EXCEPT ![s] = now]
        /\ cookie' \in {s, cookie}
        /\ spc' = [spc EXCEPT ![q] = "idle"] /\ sreq' = [sreq EXCEPT ![q] = None]
        /\ UNCHANGED <<now, sids, ended, late, overlapped>>
    BY <1>2, <1>3 DEF save
  <1>5. v + 1 \in 0..MaxVisits
    BY <1>4, SessionAssumption
  <1>6. /\ Entry(v + 1) \in [visits : 0..MaxVisits, expires : Nat] /\ Entry(v + 1) # None
        /\ Entry(v + 1).visits = v + 1 /\ Entry(v + 1).expires = now + Ttl
    BY <1>5, EntryIsASession
  <1>7. /\ session'[s] = Entry(v + 1) /\ lastUse'[s] = now /\ saves'[s] = saves[s] + 1
        /\ \A z \in Sid \ {s} : /\ session'[z] = session[z] /\ lastUse'[z] = lastUse[z]
                                /\ saves'[z] = saves[z]
        /\ saves[s] \in Nat
    BY <1>4 DEF SessionInv, SessionTypeOK
  <1>8. /\ q \in Holders(s) /\ v <= saves[s]
        /\ s \notin overlapped => v = saves[s] /\ Holders(s) = {q}
    BY <1>1, <1>2, <1>3 DEF HolderKnows, Holders
  <1>9. /\ spc' \in [Visit -> {"idle", "create", "save"}]
        /\ sreq' \in [Visit -> [sid : Sid, visits : 0..MaxVisits, isNew : BOOLEAN] \cup {None}]
        /\ \A p \in Visit : spc'[p] = "save" => p # q /\ spc[p] = "save" /\ sreq'[p] = sreq[p]
        /\ \A z \in Sid : Holders(z)' = Holders(z) \ {q}
    BY <1>4, LetGoFacts
  <1>10. SessionTypeOK'
    BY <1>4, <1>6, <1>9 DEF SessionInv, SessionTypeOK
  <1>11. lastUse' \in [Sid -> Nat \cup {None}] /\ saves' \in [Sid -> Nat] /\ now' \in Nat
    BY <1>4 DEF SessionInv
  <1>12. \A z \in Sid : session'[z] # None =>
           lastUse'[z] # None /\ session'[z].expires = lastUse'[z] + Ttl
    BY <1>6, <1>7, ClockAssumption DEF SessionInv
  <1>13. ActiveStays'
    BY <1>4, <1>6, <1>7 DEF SessionInv, ActiveStays
  <1>14. \A z \in (ended \ late)' : session'[z] = None /\ Holders(z)' = {}
    <2>1. s \notin ended \ late
      BY <1>8 DEF SessionInv
    <2>2. ASSUME NEW z \in ended \ late PROVE session'[z] = None /\ Holders(z)' = {}
      <3>1. session[z] = None /\ Holders(z) = {} /\ z # s
        BY <2>1 DEF SessionInv
      <3>2. Holders(z)' = {}
        BY <1>9, <3>1 DEF Holders
      <3>3. session'[z] = None
        BY <1>4, <3>1 DEF SessionInv, SessionTypeOK
      <3> QED BY <3>2, <3>3
    <2> QED BY <1>4, <2>2 DEF Holders
  <1>15. VisitsCounted'
    BY <1>4, <1>6, <1>7, <1>8 DEF SessionInv, VisitsCounted
  <1>16. ASSUME NEW p \in Visit PROVE HolderKnows(p)'
    <2>1. SUFFICES ASSUME spc'[p] = "save" PROVE HolderKnows(p)'
      BY DEF HolderKnows
    <2>2. p # q /\ spc[p] = "save" /\ sreq'[p] = sreq[p] /\ HolderKnows(p)
      BY <1>9, <2>1 DEF SessionInv
    <2>3. PICK z \in Sid : z = sreq[p].sid
      BY <2>2 DEF HolderKnows
    <2>4. CASE z = s
      <3>1. p \in Holders(s)
        BY <2>2, <2>3, <2>4 DEF Holders
      <3>2. s \in overlapped
        BY <1>8, <2>2, <3>1
      <3>3. sreq[p].visits \in Nat /\ sreq[p].visits <= saves'[s]
        BY <1>7, <2>2, <2>3, <2>4, SessionAssumption DEF HolderKnows
      <3>4. /\ sreq'[p] \in [sid : Sid, visits : 0..MaxVisits, isNew : BOOLEAN]
            /\ sreq'[p].sid = s /\ s \in overlapped' /\ sreq'[p].visits <= saves'[s]
        BY <1>4, <2>2, <2>3, <2>4, <3>2, <3>3 DEF HolderKnows
      <3> QED BY <3>4 DEF HolderKnows
    <2>5. CASE z # s
      <3>1. z \notin overlapped => Holders(z)' = {p}
        BY <1>9, <2>2, <2>3 DEF HolderKnows, Holders
      <3> QED BY <1>4, <1>7, <2>2, <2>3, <2>5, <3>1 DEF HolderKnows, Holders
    <2> QED BY <2>4, <2>5
  <1>17. ASSUME NEW z \in Sid, z > sids' PROVE Unknown(z)'
    <2>1. Unknown(z)
      BY <1>4, <1>17 DEF SessionInv
    <2>2. z # s
      BY <1>8, <2>1 DEF Unknown
    <2> QED BY <1>4, <1>7, <1>9, <2>1, <2>2 DEF Unknown, Holders
  <1> QED
    BY <1>10, <1>11, <1>12, <1>13, <1>14, <1>15, <1>16, <1>17 DEF SessionInv

\* A request that fails leaves its session as it is.
LEMMA RequestFailsKeeps ==
  ASSUME SessionInv, NEW q \in Visit, RequestFails(q)
  PROVE  SessionInv'
  <1>1. /\ spc' = [spc EXCEPT ![q] = "idle"] /\ sreq' = [sreq EXCEPT ![q] = None]
        /\ UNCHANGED <<now, session, sids, cookie, lastUse, ended, late, saves, overlapped>>
    BY DEF RequestFails
  <1>2. /\ spc' \in [Visit -> {"idle", "create", "save"}]
        /\ sreq' \in [Visit -> [sid : Sid, visits : 0..MaxVisits, isNew : BOOLEAN] \cup {None}]
        /\ \A p \in Visit : spc'[p] = "save" => p # q /\ spc[p] = "save" /\ sreq'[p] = sreq[p]
        /\ \A z \in Sid : Holders(z)' = Holders(z) \ {q}
    BY <1>1, LetGoFacts
  <1>3. SessionTypeOK'
    BY <1>1, <1>2 DEF SessionInv, SessionTypeOK
  <1>4. ASSUME NEW p \in Visit PROVE HolderKnows(p)'
    <2>1. SUFFICES ASSUME spc'[p] = "save" PROVE HolderKnows(p)'
      BY DEF HolderKnows
    <2>2. p # q /\ spc[p] = "save" /\ sreq'[p] = sreq[p] /\ HolderKnows(p)
      BY <1>2, <2>1 DEF SessionInv
    <2>3. PICK z \in Sid : z = sreq[p].sid
      BY <2>2 DEF HolderKnows
    <2>4. z \notin overlapped => Holders(z)' = {p}
      BY <1>2, <2>2, <2>3 DEF HolderKnows, Holders
    <2> QED BY <1>1, <2>2, <2>3, <2>4 DEF HolderKnows, Holders
  <1>5. \A z \in ended \ late : session'[z] = None /\ Holders(z)' = {}
    BY <1>1, <1>2 DEF SessionInv, SessionTypeOK, Holders
  <1>6. \A z \in Sid : z > sids => Unknown(z)'
    BY <1>1, <1>2 DEF SessionInv, Unknown, Holders
  <1> QED
    BY <1>1, <1>3, <1>4, <1>5, <1>6 DEF SessionInv, ActiveStays, VisitsCounted, Holders, Unknown

\* Sessions that end, by DEL or by their TTL; what a request still holds is late.
LEMMA EndKeeps ==
  ASSUME SessionInv, (\E s \in Sid : destroy(s)) \/ SessionTick
  PROVE  SessionInv'
  <1>1. PICK gone \in SUBSET Sid :
          /\ session' = [s \in Sid |-> IF s \in gone THEN None ELSE session[s]]
          /\ \A s \in gone : session[s] # None
          /\ End(gone) /\ UNCHANGED <<sids, cookie, spc, sreq, saves, overlapped>>
          /\ now' \in Nat /\ now <= now' /\ lastUse' \in [Sid -> Nat \cup {None}]
          /\ \A s \in Sid : lastUse'[s] = lastUse[s] \/ (s \in gone /\ lastUse'[s] = None)
          /\ \A s \in Sid \ gone : lastUse'[s] = lastUse[s]
          /\ \A s \in gone : lastUse'[s] # None => now' >= lastUse'[s] + Ttl
    <2>1. ASSUME NEW s \in Sid, destroy(s)
          PROVE  \E gone \in SUBSET Sid :
                   /\ session' = [z \in Sid |-> IF z \in gone THEN None ELSE session[z]]
                   /\ \A z \in gone : session[z] # None
                   /\ End(gone) /\ UNCHANGED <<sids, cookie, spc, sreq, saves, overlapped>>
                   /\ now' \in Nat /\ now <= now' /\ lastUse' \in [Sid -> Nat \cup {None}]
                   /\ \A z \in Sid : lastUse'[z] = lastUse[z] \/ (z \in gone /\ lastUse'[z] = None)
                   /\ \A z \in Sid \ gone : lastUse'[z] = lastUse[z]
                   /\ \A z \in gone : lastUse'[z] # None => now' >= lastUse'[z] + Ttl
      <3>1. /\ session[s] # None /\ session' = [session EXCEPT ![s] = None]
            /\ End({s}) /\ lastUse' = [lastUse EXCEPT ![s] = None]
            /\ UNCHANGED <<now, sids, cookie, spc, sreq, saves, overlapped>>
        BY <2>1 DEF destroy
      <3>2. session' = [z \in Sid |-> IF z \in {s} THEN None ELSE session[z]]
        BY <3>1 DEF SessionInv, SessionTypeOK
      <3>3. /\ lastUse' \in [Sid -> Nat \cup {None}] /\ lastUse'[s] = None
            /\ \A z \in Sid \ {s} : lastUse'[z] = lastUse[z]
        BY <3>1 DEF SessionInv
      <3>4. now' \in Nat /\ now <= now'
        BY <3>1 DEF SessionInv
      <3> WITNESS {s} \in SUBSET Sid
      <3> QED BY <3>1, <3>2, <3>3, <3>4
    <2>2. CASE SessionTick
      <3> DEFINE out == {s \in Sid : session[s] # None /\ session[s].expires <= now'}
      <3>1. /\ session' = [s \in Sid |-> IF s \in out THEN None ELSE session[s]]
            /\ End(out) /\ now' = now + 1
            /\ UNCHANGED <<sids, cookie, spc, sreq, lastUse, saves, overlapped>>
        BY <2>2 DEF SessionTick, Later
      <3>2. now' \in Nat /\ now <= now' /\ lastUse' \in [Sid -> Nat \cup {None}]
        BY <3>1 DEF SessionInv
      <3>3. \A s \in out : session[s] # None /\ (lastUse[s] # None => now' >= lastUse[s] + Ttl)
        <4> TAKE s \in out
        <4>1. lastUse[s] # None /\ session[s].expires = lastUse[s] + Ttl /\ lastUse[s] \in Nat
          BY DEF SessionInv
        <4> QED BY <3>2, <4>1, SessionAssumption
      <3>4. out \in SUBSET Sid
        OBVIOUS
      <3> HIDE DEF out
      <3> QED BY <3>1, <3>2, <3>3, <3>4
    <2> QED BY <2>1, <2>2
  <1>2. /\ ended' = ended \cup gone
        /\ late' = late \cup {s \in gone : Holders(s) # {}}
    BY <1>1 DEF End
  <1>3. \A s \in Sid : Holders(s)' = Holders(s)
    BY <1>1 DEF Holders
  <1>4. \A s \in Sid : session'[s] # None => s \notin gone /\ session'[s] = session[s]
    BY <1>1
  <1>5. SessionTypeOK'
    BY <1>1, <1>2 DEF SessionInv, SessionTypeOK
  <1>6. \A s \in Sid : session'[s] # None =>
          lastUse'[s] # None /\ session'[s].expires = lastUse'[s] + Ttl
    BY <1>1, <1>4 DEF SessionInv
  <1>7. ActiveStays'
    <2>1. SUFFICES ASSUME NEW s \in Sid, lastUse'[s] # None, now' < lastUse'[s] + Ttl
                   PROVE  session'[s] # None
      BY DEF ActiveStays
    <2>2. s \notin gone /\ lastUse'[s] = lastUse[s] /\ lastUse[s] \in Nat
      BY <1>1, <2>1, SessionAssumption DEF SessionInv
    <2>3. now < lastUse[s] + Ttl
      BY <1>1, <2>1, <2>2, SessionAssumption DEF SessionInv
    <2> QED BY <1>1, <2>1, <2>2, <2>3 DEF SessionInv, ActiveStays
  <1>8. \A s \in ended' \ late' : session'[s] = None /\ Holders(s)' = {}
    <2> TAKE s \in ended' \ late'
    <2>1. CASE s \in gone
      BY <1>1, <1>2, <1>3, <2>1 DEF Holders
    <2>2. CASE s \notin gone
      <3>1. session[s] = None /\ Holders(s) = {}
        BY <1>2, <2>2 DEF SessionInv
      <3>2. Holders(s)' = {}
        BY <1>1, <3>1 DEF Holders
      <3>3. session'[s] = None
        BY <1>1, <1>2, <2>2, <3>1 DEF SessionInv, SessionTypeOK
      <3> QED BY <3>2, <3>3
    <2> QED BY <2>1, <2>2
  <1>9. VisitsCounted'
    BY <1>1, <1>4 DEF SessionInv, VisitsCounted
  <1>10. \A q \in Visit : HolderKnows(q)'
    BY <1>1 DEF SessionInv, HolderKnows, Holders
  <1>11. ASSUME NEW s \in Sid, s > sids' PROVE Unknown(s)'
    <2>1. Unknown(s) /\ s \notin gone
      BY <1>1, <1>11 DEF SessionInv, Unknown
    <2> QED BY <1>1, <1>2, <1>3, <2>1 DEF Unknown, Holders
  <1>12. saves' \in [Sid -> Nat]
    BY <1>1 DEF SessionInv
  <1> QED
    BY <1>1, <1>5, <1>6, <1>7, <1>8, <1>9, <1>10, <1>11, <1>12 DEF SessionInv, Holders

\* Overlapping requests, failures, logouts and expiries keep the invariant.
THEOREM SessionInvariant == SessionSpec => []SessionInv
  <1>1. SessionInv /\ [SessionNext]_sessionVars => SessionInv'
    <2>1. SUFFICES ASSUME SessionInv, [SessionNext]_sessionVars PROVE SessionInv'
      OBVIOUS
    <2>2. CASE UNCHANGED sessionVars
      BY <2>1, <2>2
      DEF sessionVars, SessionInv, SessionTypeOK, ActiveStays, VisitsCounted, HolderKnows,
          Unknown, Holders
    <2> QED
      BY <2>1, <2>2, TouchKeeps, CreateKeeps, SaveKeeps, RequestFailsKeeps, EndKeeps
      DEF SessionNext
  <1> QED BY <1>1, SessionInitInv, PTL DEF SessionSpec

\* session.ts and demo-session.ts: a session in use is there for a TTL after its last use,
\* one that ended with nobody holding it does not come back, and its visits are counted.
THEOREM SessionSessionLives == SessionSpec => []SessionLives
  <1>1. SessionInv => SessionLives
    BY DEF SessionInv, SessionLives, EndedStaysEnded
  <1> QED BY <1>1, SessionInvariant, PTL

-----------------------------------------------------------------------------
(* The edge cache *)

\* The parts of EdgeInv.
GoneInv == \A n \in Put : goneAt[n] # None => goneAt[n] <= now /\ n <= puts
BucketInv ==
  \A k \in Key : bucket[k] # 0 =>
    /\ bucket[k] <= puts /\ goneAt[bucket[k]] = None
    /\ \A j \in Key : bucket[j] = bucket[k] => j = k
HandlerInv(q) ==
  /\ epc[q] # "idle" => ekey[q] \in Key /\ began[q] <= now
  /\ epc[q] = "body" =>
       /\ object[q] \in 1..puts
       /\ goneAt[object[q]] # None => began[q] <= goneAt[object[q]]
EntryInv(k) ==
  edge[k] # None =>
    LET n == edge[k].put IN
    /\ n <= puts /\ maxAge[n] > 0 /\ edge[k].expires <= now + maxAge[n]
    /\ goneAt[n] # None => edge[k].expires <= goneAt[n] + slowest + maxAge[n]

LEMMA EdgeInvParts ==
  EdgeInv <=> /\ EdgeTypeOK /\ now \in Nat /\ GoneInv /\ BucketInv
              /\ (\A q \in Hit : HandlerInv(q))
              /\ answered <= puts /\ AnswersInTime
              /\ \A k \in Key : EntryInv(k)
  BY DEF EdgeInv, GoneInv, BucketInv, HandlerInv, EntryInv

\* Nothing is deployed and nothing cached.
LEMMA EdgeInitInv == EdgeInit => EdgeInv
  BY EdgeAssumption, ClockAssumption
  DEF EdgeInit, EdgeInv, EdgeTypeOK, Put, AnswersInTime

\* What is under k goes now: requests that have it in hand asked before, and what the
\* edge has cached of it expires in time, since it was cached before.
LEMMA ReplaceKeeps ==
  ASSUME EdgeInv, NEW k \in Key, NEW n \in 0..MaxPuts, Replace(k, n),
         UNCHANGED <<now, edge, handlers, served>>,
         \/ n = 0 /\ UNCHANGED <<puts, maxAge>>
         \/ /\ puts < MaxPuts /\ puts' = puts + 1 /\ n = puts'
            /\ \E age \in Nat : maxAge' = [maxAge EXCEPT ![n] = age]
  PROVE  EdgeInv'
  <1> USE EdgeAssumption, ClockAssumption
  <1>0. /\ EdgeTypeOK /\ now \in Nat /\ GoneInv /\ BucketInv
        /\ (\A q \in Hit : HandlerInv(q)) /\ answered <= puts /\ AnswersInTime
        /\ \A j \in Key : EntryInv(j)
    BY EdgeInvParts
  <1>1. /\ bucket' = [bucket EXCEPT ![k] = n]
        /\ goneAt' = IF bucket[k] = 0 THEN goneAt ELSE [goneAt EXCEPT ![bucket[k]] = now]
        /\ UNCHANGED <<now, edge, epc, ekey, began, object, answered, outdated, slowest>>
    BY DEF Replace, handlers, served
  <1>2. /\ puts' \in 0..MaxPuts /\ puts <= puts' /\ maxAge' \in [Put -> Nat]
        /\ \A m \in Put : m <= puts => maxAge'[m] = maxAge[m]
        /\ n # 0 => n = puts' /\ n > puts
    <2>0. puts \in 0..MaxPuts /\ maxAge \in [Put -> Nat]
      BY <1>0 DEF EdgeTypeOK
    <2>1. CASE n = 0 /\ UNCHANGED <<puts, maxAge>>
      BY <2>0, <2>1 DEF Put
    <2>2. CASE /\ puts < MaxPuts /\ puts' = puts + 1 /\ n = puts'
               /\ \E age \in Nat : maxAge' = [maxAge EXCEPT ![n] = age]
      <3>1. PICK age \in Nat : maxAge' = [maxAge EXCEPT ![n] = age]
        BY <2>2
      <3> QED BY <2>0, <2>2, <3>1 DEF Put
    <2> QED BY <2>1, <2>2
  <1>3. /\ bucket' \in [Key -> 0..MaxPuts] /\ goneAt' \in [Put -> Nat \cup {None}]
        /\ \A m \in Put : goneAt'[m] # goneAt[m] => goneAt[m] = None /\ goneAt'[m] = now /\ m <= puts
    BY <1>0, <1>1 DEF EdgeTypeOK, BucketInv, Put
  <1>4. EdgeTypeOK' /\ now' \in Nat
    BY <1>0, <1>1, <1>2, <1>3 DEF EdgeTypeOK
  <1>5. GoneInv'
    BY <1>0, <1>1, <1>2, <1>3 DEF GoneInv, EdgeTypeOK, Put
  <1>6. BucketInv'
    <2> SUFFICES ASSUME NEW j \in Key, bucket'[j] # 0
                 PROVE  /\ bucket'[j] <= puts' /\ goneAt'[bucket'[j]] = None
                        /\ \A i \in Key : bucket'[i] = bucket'[j] => i = j
      BY DEF BucketInv
    <2>1. \A i \in Key : i # k => bucket'[i] = bucket[i] /\ bucket[i] <= puts
      BY <1>0, <1>1 DEF EdgeTypeOK, BucketInv
    <2>2. CASE j = k
      <3>1. bucket'[j] = n /\ n = puts' /\ n > puts
        BY <1>0, <1>1, <1>2, <2>2 DEF EdgeTypeOK
      <3>2. n \in Put /\ goneAt[n] = None
        BY <1>0, <1>2, <3>1 DEF GoneInv, EdgeTypeOK, Put
      <3>3. goneAt'[n] = None
        BY <1>0, <1>2, <1>3, <3>1, <3>2 DEF EdgeTypeOK
      <3> QED BY <1>0, <1>2, <2>1, <2>2, <3>1, <3>3 DEF EdgeTypeOK
    <2>3. CASE j # k
      <3>1. bucket'[j] = bucket[j] /\ bucket[j] \in Put /\ bucket[j] <= puts
        BY <1>0, <2>1, <2>3 DEF EdgeTypeOK, Put
      <3>2. goneAt'[bucket[j]] = None
        BY <1>0, <1>1, <2>3, <3>1 DEF BucketInv, EdgeTypeOK
      <3>3. bucket'[k] = n
        BY <1>0, <1>1 DEF EdgeTypeOK
      <3> QED BY <1>0, <1>2, <2>1, <2>3, <3>1, <3>2, <3>3 DEF BucketInv, EdgeTypeOK
    <2> QED BY <2>2, <2>3
  <1>7. ASSUME NEW q \in Hit PROVE HandlerInv(q)'
    BY <1>0, <1>1, <1>2, <1>3 DEF HandlerInv, EdgeTypeOK, Put
  <1>8. answered' <= puts' /\ AnswersInTime'
    BY <1>0, <1>1, <1>2 DEF AnswersInTime, InTime, EdgeTypeOK, Put
  <1>9. ASSUME NEW j \in Key PROVE EntryInv(j)'
    <2> SUFFICES ASSUME edge'[j] # None
                 PROVE  /\ edge'[j].put <= puts' /\ maxAge'[edge'[j].put] > 0
                        /\ edge'[j].expires <= now' + maxAge'[edge'[j].put]
                        /\ goneAt'[edge'[j].put] # None =>
                             edge'[j].expires <= goneAt'[edge'[j].put] + slowest' + maxAge'[edge'[j].put]
      BY DEF EntryInv
    <2>1. PICK m \in Put, e \in Nat :
            /\ edge[j].put = m /\ edge[j].expires = e
            /\ m <= puts /\ maxAge[m] > 0 /\ e <= now + maxAge[m]
            /\ goneAt[m] # None => e <= goneAt[m] + slowest + maxAge[m]
      BY <1>0, <1>1 DEF EntryInv, EdgeTypeOK
    <2>2. maxAge'[m] = maxAge[m] /\ maxAge[m] \in Nat /\ slowest \in Nat
      BY <1>0, <1>2, <2>1 DEF EdgeTypeOK
    <2>3. goneAt'[m] = goneAt[m] \/ goneAt'[m] = now
      BY <1>3
    <2>4. puts \in Nat /\ puts' \in Nat /\ (goneAt[m] # None => goneAt[m] \in Nat)
      BY <1>0, <1>2, <2>1 DEF EdgeTypeOK
    <2>5. edge'[j].put = m /\ edge'[j].expires = e /\ now' = now /\ slowest' = slowest
      BY <1>1, <2>1
    <2>6. m <= puts' /\ maxAge[m] > 0 /\ e <= now + maxAge[m]
      BY <1>2, <2>1, <2>4 DEF Put
    <2>7. goneAt'[m] # None => e <= goneAt'[m] + slowest + maxAge[m]
      <3>1. CASE goneAt'[m] = goneAt[m]
        BY <2>1, <3>1
      <3>2. CASE goneAt'[m] = now
        BY <1>0, <2>1, <2>2, <3>2
      <3> QED BY <2>3, <3>1, <3>2
    <2> QED BY <2>2, <2>5, <2>6, <2>7
  <1> QED BY <1>4, <1>5, <1>6, <1>7, <1>8, <1>9 DEF EdgeInv, GoneInv, BucketInv, HandlerInv, EntryInv

\* A deploy, a put by hand, a deletion.
LEMMA BucketKeeps ==
  ASSUME EdgeInv,
         \/ \E c \in Content : publishAsset(c)
         \/ \E k \in Key : putByHand(k) \/ wipe(k)
  PROVE  EdgeInv'
  <1> USE EdgeAssumption
  <1>0. puts \in 0..MaxPuts
    BY DEF EdgeInv, EdgeTypeOK
  <1>1. ASSUME NEW k \in Key, NEW age \in Nat, PutObject(k, age) PROVE EdgeInv'
    <2>1. /\ puts < MaxPuts /\ puts' = puts + 1 /\ Replace(k, puts')
          /\ maxAge' = [maxAge EXCEPT ![puts'] = age]
          /\ UNCHANGED <<now, edge, handlers, served>>
      BY <1>1 DEF PutObject
    <2>2. puts' \in 0..MaxPuts
      BY <1>0, <2>1
    <2> QED BY <2>1, <2>2, ReplaceKeeps
  <1>2. ASSUME NEW k \in Key, wipe(k) PROVE EdgeInv'
    BY <1>2, ReplaceKeeps DEF wipe
  <1> QED BY <1>1, <1>2 DEF publishAsset, putByHand, hashedKey

\* An answer from the Map: it expires after now, so that what it is has not been gone
\* for longer than it allows.
LEMMA HitKeeps ==
  ASSUME EdgeInv, NEW k \in Key, hit(k)
  PROVE  EdgeInv'
  <1> USE ClockAssumption
  <1>1. PICK n \in Put, e \in Nat :
          /\ edge[k].put = n /\ edge[k].expires = e /\ e > now
          /\ n <= puts /\ (goneAt[n] # None => e <= goneAt[n] + slowest + maxAge[n])
    BY DEF hit, Fresh, EdgeInv, EdgeTypeOK
  <1>2. /\ answered' = n /\ outdated' = IF goneAt[n] = None THEN 0 ELSE now - goneAt[n]
        /\ UNCHANGED <<now, bucket, puts, maxAge, goneAt, edge, epc, ekey, began, object, slowest>>
    BY <1>1 DEF hit, Answer, stored, handlers
  <1>3. /\ now \in Nat /\ maxAge[n] \in Nat /\ slowest \in Nat
        /\ goneAt[n] # None => goneAt[n] \in Nat /\ goneAt[n] <= now
    BY <1>1 DEF EdgeInv, EdgeTypeOK
  <1>4. outdated' \in Nat /\ InTime(n, outdated')
    BY <1>1, <1>2, <1>3 DEF InTime
  <1>5. n \in 0..MaxPuts /\ AnswersInTime'
    BY <1>1, <1>2, <1>4 DEF AnswersInTime, InTime, Put
  <1> QED BY <1>1, <1>2, <1>4, <1>5 DEF EdgeInv, EdgeTypeOK

\* The steps of a request up to the body: it asks now, and reads what is not gone.
LEMMA AskKeeps ==
  ASSUME EdgeInv, NEW q \in Hit, (\E k \in Key : miss(q, k)) \/ readObject(q) \/ fetchFails(q)
  PROVE  EdgeInv'
  <1> USE EdgeAssumption, ClockAssumption
  <1>0. /\ EdgeTypeOK /\ now \in Nat /\ GoneInv /\ BucketInv
        /\ (\A p \in Hit : HandlerInv(p)) /\ answered <= puts /\ AnswersInTime
        /\ \A j \in Key : EntryInv(j)
    BY EdgeInvParts
  <1>1. UNCHANGED <<now, bucket, puts, maxAge, goneAt, answered, outdated, slowest>>
    BY DEF miss, readObject, fetchFails, stored, served
  <1>2. \A j \in Key : edge'[j] # None => edge'[j] = edge[j]
    BY <1>0 DEF EdgeTypeOK, miss, readObject, fetchFails
  <1>3. EdgeTypeOK'
    <2>1. CASE \E k \in Key : miss(q, k)
      BY <1>0, <1>1, <2>1 DEF EdgeTypeOK, miss
    <2>2. CASE readObject(q)
      <3>1. ekey[q] \in Key
        BY <1>0, <2>2 DEF readObject, HandlerInv
      <3> QED BY <1>0, <1>1, <2>2, <3>1 DEF EdgeTypeOK, readObject
    <2>3. CASE fetchFails(q)
      BY <1>0, <1>1, <2>3 DEF EdgeTypeOK, fetchFails, Return
    <2> QED BY <2>1, <2>2, <2>3
  <1>4. ASSUME NEW p \in Hit PROVE HandlerInv(p)'
    <2>1. CASE p # q
      <3>1. UNCHANGED <<epc[p], ekey[p], began[p], object[p]>>
        BY <1>0, <2>1 DEF EdgeTypeOK, miss, readObject, fetchFails, Return
      <3> QED BY <1>0, <1>1, <3>1 DEF HandlerInv
    <2>2. CASE p = q
      <3>1. CASE \E k \in Key : miss(q, k)
        BY <1>0, <1>1, <2>2, <3>1 DEF HandlerInv, EdgeTypeOK, miss
      <3>2. CASE readObject(q)
        <4>1. /\ epc[q] = "origin" /\ ekey[q] \in Key /\ began[q] <= now
              /\ bucket[ekey[q]] \in 1..puts /\ goneAt[bucket[ekey[q]]] = None
          BY <1>0, <3>2 DEF readObject, HandlerInv, BucketInv, EdgeTypeOK
        <4>2. /\ epc'[q] = "body" /\ object'[q] = bucket[ekey[q]]
              /\ UNCHANGED <<ekey, began>>
          BY <1>0, <3>2 DEF readObject, EdgeTypeOK
        <4> QED BY <1>1, <2>2, <4>1, <4>2 DEF HandlerInv
      <3>3. CASE fetchFails(q)
        BY <1>0, <2>2, <3>3 DEF HandlerInv, EdgeTypeOK, fetchFails, Return
      <3> QED BY <3>1, <3>2, <3>3
    <2> QED BY <2>1, <2>2
  <1>5. GoneInv' /\ BucketInv' /\ answered' <= puts' /\ AnswersInTime' /\ now' \in Nat
    BY <1>0, <1>1 DEF GoneInv, BucketInv, AnswersInTime, InTime
  <1>6. ASSUME NEW j \in Key PROVE EntryInv(j)'
    BY <1>0, <1>1, <1>2 DEF EntryInv
  <1> QED BY <1>3, <1>4, <1>5, <1>6 DEF EdgeInv, GoneInv, BucketInv, HandlerInv, EntryInv

\* The answer from the bucket: what it is went after the request had asked, which is no
\* longer ago than the slowest wait; cached, it expires its max-age from now.
LEMMA FetchedKeeps ==
  ASSUME EdgeInv, NEW q \in Hit, fetched(q)
  PROVE  EdgeInv'
  <1> USE EdgeAssumption, ClockAssumption
  <1>0. /\ EdgeTypeOK /\ now \in Nat /\ GoneInv /\ BucketInv
        /\ (\A p \in Hit : HandlerInv(p)) /\ answered <= puts /\ AnswersInTime
        /\ \A j \in Key : EntryInv(j)
    BY EdgeInvParts
  <1>1. PICK n \in Put, k \in Key, b \in Nat, age \in Nat :
          /\ object[q] = n /\ ekey[q] = k /\ began[q] = b /\ maxAge[n] = age
          /\ n <= puts /\ b <= now /\ (goneAt[n] # None => b <= goneAt[n])
    BY <1>0 DEF fetched, HandlerInv, EdgeTypeOK, Put
  <1>2. /\ answered' = n /\ outdated' = IF goneAt[n] = None THEN 0 ELSE now - goneAt[n]
        /\ edge' = IF age = 0 THEN edge
                   ELSE [edge EXCEPT ![k] = [put |-> n, expires |-> now + age]]
        /\ slowest' = IF now - b > slowest THEN now - b ELSE slowest
        /\ UNCHANGED <<now, bucket, puts, maxAge, goneAt>>
    BY <1>1 DEF fetched, Answer, ttlSec, stored
  <1>3. /\ epc' = [epc EXCEPT ![q] = "idle"] /\ ekey' = [ekey EXCEPT ![q] = None]
        /\ began' = [began EXCEPT ![q] = 0] /\ object' = [object EXCEPT ![q] = 0]
    BY DEF fetched, Return
  <1>4. /\ slowest \in Nat /\ slowest' \in Nat /\ slowest <= slowest' /\ now - b <= slowest'
        /\ goneAt[n] # None => goneAt[n] \in Nat /\ goneAt[n] <= now
    BY <1>0, <1>1, <1>2 DEF EdgeTypeOK, GoneInv
  <1>5. outdated' \in Nat /\ outdated' <= slowest'
    BY <1>0, <1>1, <1>2, <1>4
  <1>6. EdgeTypeOK'
    <2>1. edge' \in [Key -> [put : Put, expires : Nat] \cup {None}]
      <3>1. [put |-> n, expires |-> now + age] \in [put : Put, expires : Nat]
        BY <1>0
      <3> QED BY <1>0, <1>2, <3>1 DEF EdgeTypeOK
    <2> QED BY <1>0, <1>2, <1>3, <1>4, <1>5, <2>1 DEF EdgeTypeOK, Put
  <1>7. ASSUME NEW p \in Hit PROVE HandlerInv(p)'
    <2>1. CASE p # q
      <3>1. UNCHANGED <<epc[p], ekey[p], began[p], object[p]>>
        BY <1>0, <1>3, <2>1 DEF EdgeTypeOK
      <3> QED BY <1>0, <1>2, <3>1 DEF HandlerInv
    <2>2. CASE p = q
      BY <1>0, <1>3, <2>2 DEF HandlerInv, EdgeTypeOK
    <2> QED BY <2>1, <2>2
  <1>8. answered' <= puts' /\ AnswersInTime'
    BY <1>1, <1>2, <1>4, <1>5 DEF AnswersInTime, InTime
  <1>9. ASSUME NEW j \in Key PROVE EntryInv(j)'
    <2>1. CASE age # 0 /\ j = k
      <3>1. edge'[j].put = n /\ edge'[j].expires = now + age
        BY <1>0, <1>2, <2>1 DEF EdgeTypeOK
      <3> QED BY <1>0, <1>1, <1>2, <1>4, <2>1, <3>1 DEF EntryInv
    <2>2. CASE age = 0 \/ j # k
      <3>1. edge'[j] = edge[j]
        BY <1>0, <1>2, <2>2 DEF EdgeTypeOK
      <3>2. CASE edge[j] = None
        BY <3>1, <3>2 DEF EntryInv
      <3>3. CASE edge[j] # None
        <4>1. PICK m \in Put, e \in Nat :
                /\ edge[j].put = m /\ edge[j].expires = e
                /\ m <= puts /\ maxAge[m] > 0 /\ e <= now + maxAge[m]
                /\ goneAt[m] # None => goneAt[m] \in Nat /\ e <= goneAt[m] + slowest + maxAge[m]
          BY <1>0, <3>3 DEF EntryInv, EdgeTypeOK
        <4>2. maxAge[m] \in Nat
          BY <1>0 DEF EdgeTypeOK
        <4> QED BY <1>0, <1>2, <1>4, <3>1, <4>1, <4>2 DEF EntryInv
      <3> QED BY <3>2, <3>3
    <2> QED BY <2>1, <2>2
  <1>10. GoneInv' /\ BucketInv' /\ now' \in Nat
    BY <1>0, <1>2 DEF GoneInv, BucketInv
  <1> QED BY <1>6, <1>7, <1>8, <1>9, <1>10
          DEF EdgeInv, GoneInv, BucketInv, HandlerInv, EntryInv

\* edge.ts and assets.ts: what the bucket, the requests under way and the edge have of a
\* put agrees with when it went, in every reachable state.
THEOREM EdgeInvariant == EdgeSpec => []EdgeInv
  <1>1. EdgeInv /\ [EdgeNext]_edgeVars => EdgeInv'
    <2>1. SUFFICES ASSUME EdgeInv, [EdgeNext]_edgeVars PROVE EdgeInv'
      OBVIOUS
    <2>2. CASE EdgeTick \/ UNCHANGED edgeVars
      <3>1. /\ UNCHANGED <<bucket, puts, maxAge, goneAt, edge, epc, ekey, began, object,
                          answered, outdated, slowest>>
            /\ now \in Nat /\ now' \in Nat /\ now <= now'
        BY <2>1, <2>2
           DEF EdgeTick, Later, edgeVars, edgeOnly, stored, handlers, served, EdgeInv
      <3>2. EdgeTypeOK' /\ answered' <= puts' /\ AnswersInTime' /\ BucketInv'
        BY <2>1, <3>1, EdgeInvParts DEF EdgeTypeOK, AnswersInTime, InTime, BucketInv
      <3>3. GoneInv' /\ \A q \in Hit : HandlerInv(q)'
        BY <2>1, <3>1, EdgeInvParts, ClockAssumption
           DEF EdgeTypeOK, GoneInv, HandlerInv
      <3>4. ASSUME NEW k \in Key PROVE EntryInv(k)'
        <4>1. edge[k] # None => edge[k].expires \in Nat /\ maxAge[edge[k].put] \in Nat
          BY <2>1 DEF EdgeInv, EdgeTypeOK
        <4> QED BY <2>1, <3>1, <4>1, EdgeInvParts DEF EntryInv
      <3> QED BY <3>1, <3>2, <3>3, <3>4
              DEF EdgeInv, GoneInv, BucketInv, HandlerInv, EntryInv
    <2> QED BY <2>1, <2>2, BucketKeeps, HitKeeps, AskKeeps, FetchedKeeps DEF EdgeNext
  <1> QED BY <1>1, EdgeInitInv, PTL DEF EdgeSpec

\* edge.ts: for every number of keys, contents, hashes, requests and puts, an answer is
\* out of date by less than the max-age of what it is and the slowest fetch, and by no
\* more than a fetch if it has none, a slow fetch cached over a newer one included.
THEOREM EdgeAnswersInTime == EdgeSpec => []AnswersInTime
  <1>1. EdgeInv => AnswersInTime
    BY DEF EdgeInv
  <1> QED BY <1>1, EdgeInvariant, PTL

-----------------------------------------------------------------------------
(* Rotation of the signing key *)

\* A configuration the operator writes holds what it was written with.
LEMMA ConfigFacts ==
  ASSUME NEW k \in Pair, NEW p \in Pair \cup {None}
  PROVE  /\ Config(k, p) \in Env
         /\ Config(k, p).kid = k /\ Config(k, p).priv = k /\ Config(k, p).pub = k
         /\ Config(k, p).prevKid = p /\ Config(k, p).prevPub = p
  BY DEF Config, Env

\* The numbers of the key pairs.
LEMMA PairFacts ==
  ASSUME RotationInv
  PROVE  /\ env.kid \in Pair /\ Pair \subseteq Nat /\ None \notin Pair
         /\ env.kid > 0 => env.kid - 1 \in Pair /\ env.kid - 1 # env.kid
         /\ env.kid < MaxKey => env.kid + 1 \in Pair /\ env.kid + 1 > 0
  BY RotationAssumption, ClockAssumption DEF RotationInv, RotationTypeOK, Env, Pair

\* The first pair is everywhere and there are no tokens.
LEMMA RotationInitInv == RotationInit => RotationInv
  <1> SUFFICES ASSUME RotationInit PROVE RotationInv
    OBVIOUS
  <1>1. 0 \in Pair
    BY RotationAssumption DEF Pair
  <1>2. env = Config(0, None) /\ env \in Env /\ env.kid = 0
    BY <1>1, ConfigFacts DEF RotationInit
  <1>3. RotationTypeOK
    BY <1>2 DEF RotationInit, RotationTypeOK
  <1>4. SteadyInv
    BY <1>2 DEF RotationInit, SteadyInv, Up
  <1> QED BY <1>3, <1>4 DEF RotationInit, RotationInv

\* A restart gives an instance what the environment holds now, or nothing; when that
\* is another pair, the tokens signed so far run out a lifetime from now.
LEMMA RestartKeeps ==
  ASSUME RotationInv, NEW i \in Instance, restart(i)
  PROVE  RotationInv'
  <1>1. /\ UNCHANGED <<now, env, tokens, stage>>
        /\ conf' = [conf EXCEPT ![i] = IF validate(env) /\ selfCheck(env) THEN env ELSE None]
        /\ switchedAt' = IF conf'[i] # conf[i] THEN now ELSE switchedAt
    BY DEF restart
  <1>2. /\ conf'[i] \in {env, None} /\ (conf'[i] = env \/ conf'[i] = None)
        /\ stage = "mistake" => conf'[i] = None
        /\ \A j \in Instance : j # i => conf'[j] = conf[j]
    BY <1>1 DEF RotationInv, RotationTypeOK, OverlapInv
  <1>3. RotationTypeOK'
    BY <1>1, <1>2 DEF RotationInv, RotationTypeOK
  <1>4. CASE stage = "steady"
    BY <1>1, <1>2, <1>3, <1>4 DEF RotationInv, SteadyInv, Up
  <1>5. CASE stage # "steady"
    <2>1. OverlapInv
      BY <1>5 DEF RotationInv
    <2>2. \A j \in Up' : conf'[j] \in {Config(env.kid - 1, None), Config(env.kid, env.kid - 1)}
      BY <1>2, <2>1, <1>5 DEF OverlapInv, Up, RotationInv, RotationTypeOK
    <2>3. ASSUME \A j \in Instance : conf'[j] # Config(env.kid - 1, None), NEW t \in tokens,
                 t.key = env.kid - 1
          PROVE  t.exp <= switchedAt' + TokenTtl
      <3>1. CASE conf'[i] # conf[i]
        BY <1>1, <3>1 DEF RotationInv
      <3>2. CASE conf'[i] = conf[i]
        BY <1>1, <1>2, <2>1, <2>3, <3>2 DEF OverlapInv
      <3> QED BY <3>1, <3>2
    <2>4. OverlapInv'
      BY <1>1, <2>1, <2>2, <2>3 DEF OverlapInv, validate, selfCheck, verifyKey, Config
    <2> QED BY <1>1, <1>3, <1>5, <2>4 DEF RotationInv
  <1> QED BY <1>4, <1>5

\* A token carries the key of its instance, and with it the kid of that key.
LEMMA SignKeeps ==
  ASSUME RotationInv, NEW i \in Instance, sign(i)
  PROVE  RotationInv'
  <1> DEFINE new == [kid |-> conf[i].kid, key |-> conf[i].priv, exp |-> now + TokenTtl]
  <1>1. /\ UNCHANGED <<now, env, conf, switchedAt, stage>> /\ i \in Up
        /\ tokens' = tokens \cup {new}
    BY DEF sign, Up
  <1>2. PICK k \in Pair : /\ conf[i].kid = k /\ conf[i].priv = k
                          /\ stage = "steady" => k = env.kid
                          /\ stage # "steady" => k \in {env.kid - 1, env.kid}
                          /\ stage # "steady" /\ k # env.kid => conf[i] = Config(env.kid - 1, None)
    <2>1. CASE stage = "steady"
      <3>1. conf[i] = Config(env.kid, None) \/ conf[i] = Config(env.kid, env.kid - 1)
        BY <1>1, <2>1 DEF RotationInv, SteadyInv
      <3> QED BY <2>1, <3>1, PairFacts DEF Config
    <2>2. CASE stage # "steady"
      <3>1. /\ env.kid > 0
            /\ conf[i] = Config(env.kid - 1, None) \/ conf[i] = Config(env.kid, env.kid - 1)
        BY <1>1, <2>2 DEF RotationInv, OverlapInv
      <3> QED BY <2>2, <3>1, PairFacts DEF Config
    <2> QED BY <2>1, <2>2
  <1>3. /\ new.kid = k /\ new.key = k /\ new.exp = now + TokenTtl
        /\ new \in [kid : Pair, key : Pair, exp : Nat]
    BY <1>2, RotationAssumption DEF RotationInv
  <1> HIDE DEF new
  <1>4. RotationTypeOK'
    BY <1>1, <1>3 DEF RotationInv, RotationTypeOK
  <1>5. \A t \in tokens' : t.kid = t.key /\ now < t.exp /\ t.exp <= now + TokenTtl
    BY <1>1, <1>3, RotationAssumption DEF RotationInv
  <1>6. CASE stage = "steady"
    <2>1. SteadyInv'
      BY <1>1, <1>2, <1>3, <1>6 DEF RotationInv, SteadyInv, Up, Config
    <2> QED BY <1>1, <1>4, <1>5, <1>6, <2>1 DEF RotationInv
  <1>7. CASE stage # "steady"
    <2>1. OverlapInv
      BY <1>7 DEF RotationInv
    <2>2. \A t \in tokens' : t.key \in {env.kid - 1, env.kid}
      BY <1>1, <1>2, <1>3, <1>7, <2>1 DEF OverlapInv
    <2>3. ASSUME \A j \in Instance : conf[j] # Config(env.kid - 1, None), NEW t \in tokens',
                 t.key = env.kid - 1
          PROVE  t.exp <= switchedAt + TokenTtl
      <3>1. t # new
        BY <1>2, <1>3, <1>7, <2>1, <2>3, PairFacts DEF OverlapInv
      <3> QED BY <1>1, <2>1, <2>3, <3>1 DEF OverlapInv
    <2>4. OverlapInv'
      BY <1>1, <2>1, <2>2, <2>3 DEF OverlapInv, Up, validate, selfCheck, verifyKey, Config
    <2> QED BY <1>1, <1>4, <1>5, <1>7, <2>4 DEF RotationInv
  <1> QED BY <1>6, <1>7

\* The steps of the operator. An overlap begins when every instance has the old pair
\* and ends when no token of it is left.
LEMMA OperatorKeeps ==
  ASSUME RotationInv, beginOverlap \/ endOverlap \/ slip \/ correct
  PROVE  RotationInv'
  <1> USE PairFacts
  <1>0. UNCHANGED <<now, conf, tokens, switchedAt>>
    BY DEF beginOverlap, endOverlap, slip, correct
  <1>1. CASE beginOverlap
    <2>1. /\ stage = "steady" /\ stage' = "overlap" /\ env.kid < MaxKey
          /\ env' = Config(env.kid + 1, env.kid) /\ \A i \in Instance : conf[i] = env
      BY <1>1 DEF beginOverlap, Everywhere
    <2>2. SteadyInv
      BY <2>1 DEF RotationInv
    <2>3. env' \in Env /\ env'.kid = env.kid + 1 /\ env'.kid - 1 = env.kid
      BY <2>1, ConfigFacts
    <2>4. \A i \in Instance : conf'[i] = Config(env'.kid - 1, None)
      BY <1>0, <2>1, <2>2, <2>3 DEF SteadyInv
    <2>5. \A t \in tokens' : t.key = env'.kid - 1
      BY <1>0, <2>2, <2>3 DEF SteadyInv
    <2>6. OverlapInv'
      BY <2>1, <2>3, <2>4, <2>5, RotationAssumption DEF OverlapInv, Up, Config
    <2>7. RotationTypeOK'
      BY <1>0, <2>1, <2>3 DEF RotationInv, RotationTypeOK
    <2> QED BY <1>0, <2>1, <2>6, <2>7 DEF RotationInv
  <1>2. CASE endOverlap
    <2>1. /\ stage = "overlap" /\ stage' = "steady" /\ now >= switchedAt + TokenTtl
          /\ env' = Config(env.kid, None) /\ \A i \in Instance : conf[i] = env
      BY <1>2 DEF endOverlap, Everywhere
    <2>2. OverlapInv /\ env = Config(env.kid, env.kid - 1)
      BY <2>1 DEF RotationInv, OverlapInv
    <2>3. env' \in Env /\ env'.kid = env.kid
      BY <2>1, ConfigFacts
    <2>4. \A i \in Instance : conf[i] # Config(env.kid - 1, None)
      BY <2>1, <2>2, ConfigFacts DEF OverlapInv
    <2>5. \A t \in tokens : t.key = env.kid
      <3>1. SUFFICES ASSUME NEW t \in tokens, t.key # env.kid PROVE FALSE
        OBVIOUS
      <3>2. t.exp <= switchedAt + TokenTtl /\ now < t.exp
        BY <2>2, <2>4, <3>1 DEF OverlapInv, RotationInv
      <3>3. t.exp \in Nat /\ now \in Nat /\ switchedAt + TokenTtl \in Nat
        BY RotationAssumption DEF RotationInv, RotationTypeOK
      <3> QED BY <2>1, <3>2, <3>3
    <2>6. SteadyInv'
      BY <1>0, <2>1, <2>2, <2>3, <2>5 DEF SteadyInv, Up
    <2>7. RotationTypeOK'
      BY <1>0, <2>1, <2>3 DEF RotationInv, RotationTypeOK
    <2> QED BY <1>0, <2>1, <2>6, <2>7 DEF RotationInv
  <1>3. CASE slip
    <2>1. stage = "overlap" /\ stage' = "mistake" /\ OverlapInv /\ env = Config(env.kid, env.kid - 1)
      BY <1>3 DEF slip, RotationInv, OverlapInv
    <2>2. /\ env' \in Env /\ env'.kid = env.kid /\ ~ (validate(env') /\ selfCheck(env'))
      <3>1. /\ env.kid > 0 /\ env.pub = env.kid /\ env.priv = env.kid
            /\ env.prevKid = env.kid - 1 /\ env.prevPub = env.kid - 1 /\ env \in Env
        BY <2>1, ConfigFacts DEF OverlapInv
      <3>2. CASE env' = [env EXCEPT !.pub = env.prevPub]
        BY <3>1, <3>2 DEF Env, validate, selfCheck, verifyKey
      <3>3. CASE env' = [env EXCEPT !.prevKid = env.kid]
        BY <3>1, <3>3 DEF Env, validate
      <3>4. CASE env' = [env EXCEPT !.prevPub = None]
        BY <3>1, <3>4 DEF Env, validate
      <3> QED BY <1>3, <3>2, <3>3, <3>4 DEF slip
    <2>3. OverlapInv'
      BY <1>0, <2>1, <2>2 DEF OverlapInv, Up, validate, selfCheck, verifyKey, Config
    <2>4. RotationTypeOK'
      BY <1>0, <2>1, <2>2 DEF RotationInv, RotationTypeOK
    <2> QED BY <1>0, <2>1, <2>3, <2>4 DEF RotationInv
  <1>4. CASE correct
    <2>1. /\ stage = "mistake" /\ stage' = "overlap" /\ OverlapInv
          /\ env' = Config(env.kid, env.kid - 1)
      BY <1>4 DEF correct, RotationInv
    <2>2. env' \in Env /\ env'.kid = env.kid
      BY <2>1, ConfigFacts DEF OverlapInv
    <2>3. OverlapInv'
      BY <1>0, <2>1, <2>2 DEF OverlapInv, Up, Config
    <2>4. RotationTypeOK'
      BY <1>0, <2>1, <2>2 DEF RotationInv, RotationTypeOK
    <2> QED BY <1>0, <2>1, <2>3, <2>4 DEF RotationInv
  <1> QED BY <1>1, <1>2, <1>3, <1>4

\* Time only takes tokens away.
LEMMA RotationTickKeeps ==
  ASSUME RotationInv, RotationTick
  PROVE  RotationInv'
  <1>1. /\ UNCHANGED <<env, conf, switchedAt, stage>> /\ now' = now + 1
        /\ tokens' = {t \in tokens : now' < t.exp} /\ now \in Nat
    BY DEF RotationTick, Later, RotationInv
  <1>2. \A t \in tokens : t.exp \in Nat
    BY DEF RotationInv, RotationTypeOK
  <1>3. \A t \in tokens' : t.kid = t.key /\ now' < t.exp /\ t.exp <= now' + TokenTtl
    BY <1>1, <1>2, RotationAssumption DEF RotationInv
  <1>4. RotationTypeOK'
    BY <1>1 DEF RotationInv, RotationTypeOK
  <1>5. CASE stage = "steady"
    BY <1>1, <1>3, <1>4, <1>5 DEF RotationInv, SteadyInv, Up, Config
  <1>6. CASE stage # "steady"
    <2>1. OverlapInv'
      BY <1>1, <1>6 DEF RotationInv, OverlapInv, Up, validate, selfCheck, verifyKey, Config
    <2> QED BY <1>1, <1>3, <1>4, <1>6, <2>1 DEF RotationInv
  <1> QED BY <1>5, <1>6

\* token.service.ts and the README's rotation: with any number of instances that restart
\* at any moment, also in the middle of a slip, the invariant is kept.
THEOREM RotationInvariant == RotationSpec => []RotationInv
  <1>1. RotationInv /\ [RotationNext]_rotationVars => RotationInv'
    <2>1. SUFFICES ASSUME RotationInv, [RotationNext]_rotationVars PROVE RotationInv'
      OBVIOUS
    <2>2. CASE UNCHANGED rotationVars
      BY <2>1, <2>2
      DEF rotationVars, RotationInv, RotationTypeOK, SteadyInv, OverlapInv, Up, validate,
          selfCheck, verifyKey, Config
    <2> QED
      BY <2>1, <2>2, RestartKeeps, SignKeeps, OperatorKeeps, RotationTickKeeps DEF RotationNext
  <1> QED BY <1>1, RotationInitInv, PTL DEF RotationSpec

\* A rotation logs nobody out: every instance accepts every living token of a key it has
\* been given.
THEOREM RotationTokensSurvive == RotationSpec => []TokensSurvive
  <1>1. RotationInv => TokensSurvive
    <2>1. SUFFICES ASSUME RotationInv, NEW i \in Up, NEW t \in tokens, t.key <= conf[i].kid
                   PROVE  verifyKey(conf[i], t.kid) = t.key /\ now < t.exp
      BY DEF TokensSurvive, verify
    <2>2. t.kid = t.key /\ now < t.exp
      BY <2>1 DEF RotationInv
    <2>3. CASE stage = "steady"
      <3>1. /\ t.key = env.kid
            /\ conf[i] = Config(env.kid, None) \/ conf[i] = Config(env.kid, env.kid - 1)
        BY <2>1, <2>3 DEF RotationInv, SteadyInv
      <3> QED BY <2>1, <2>2, <3>1, PairFacts DEF Config, verifyKey
    <2>4. CASE stage # "steady"
      <3>1. /\ t.key \in {env.kid - 1, env.kid} /\ env.kid > 0
            /\ conf[i] = Config(env.kid - 1, None) \/ conf[i] = Config(env.kid, env.kid - 1)
        BY <2>1, <2>4 DEF RotationInv, OverlapInv
      <3>2. CASE conf[i] = Config(env.kid - 1, None)
        BY <2>1, <2>2, <3>1, <3>2, PairFacts DEF Config, verifyKey
      <3>3. CASE conf[i] = Config(env.kid, env.kid - 1)
        BY <2>1, <2>2, <3>1, <3>3, PairFacts DEF Config, verifyKey
      <3> QED BY <3>1, <3>2, <3>3
    <2> QED BY <2>2, <2>3, <2>4
  <1> QED BY <1>1, RotationInvariant, PTL

-----------------------------------------------------------------------------
(* Backups and the restore drill *)

\* A set of numbers that is not empty has a least one.
LEMMA LeastOf ==
  ASSUME NEW S, S \subseteq Nat, S # {}
  PROVE  \E x \in S : \A y \in S : x <= y
  <1> DEFINE R == OpToRel(<, Nat)
  <1>1. IsWellFoundedOn(R, Nat)
    BY NatLessThanWellFounded, Zenon
  <1>2. \A x, y \in Nat : y < x => <<y, x>> \in R
    BY DEF OpToRel
  <1> HIDE DEF R
  <1>3. PICK x \in S : \A y \in S : ~ (<<y, x>> \in R)
    BY <1>1, WFMin
  <1>4. \A y \in S : ~ (y < x)
    BY <1>2, <1>3
  <1> QED BY <1>4

\* ls -1t | head -1 names one of the dumps.
LEMMA NewestIsADump ==
  ASSUME dumps \subseteq File, dumps # {}
  PROVE  Newest \in dumps
  <1> DEFINE S == {MaxRuns - d.stamp : d \in dumps}
  <1>1. \A d \in dumps : d.stamp \in 1..MaxRuns
    BY DEF File
  <1>2. S \subseteq Nat /\ S # {}
    BY <1>1, BackupAssumption
  <1>3. PICK x \in S : \A y \in S : x <= y
    BY <1>2, LeastOf
  <1>4. PICK d \in dumps : x = MaxRuns - d.stamp
    OBVIOUS
  <1>5. \A e \in dumps : e.stamp <= d.stamp
    <2> TAKE e \in dumps
    <2>1. x <= MaxRuns - e.stamp
      BY <1>3
    <2> QED BY <1>1, <1>4, <2>1, BackupAssumption
  <1> QED BY <1>5 DEF Newest

\* The directory and the drill are empty.
LEMMA BackupInitInv == BackupInit => BackupInv
  BY BackupAssumption
  DEF BackupInit, BackupInv, BackupTypeOK, AlwaysABackup, MismatchExplained, NoFile

\* What shows the database as it is, or is known to be stale, stays so.
LEMMA CurrentStays ==
  ASSUME BackupInv, NEW d \in File, Current(d), writeDb \/ UNCHANGED <<db, staleRuns>>,
         runs' \in 0..MaxRuns, runs <= runs'
  PROVE  d.stamp <= runs' /\ (d.of = db' \/ d.stamp <= staleRuns')
  BY BackupAssumption DEF Current, File, writeDb, BackupInv, BackupTypeOK, backupState

\* The database changes, or the day: what is in the directory becomes older by that.
LEMMA WorldKeeps ==
  ASSUME BackupInv, writeDb \/ nextDay
  PROVE  BackupInv'
  <1>1. /\ UNCHANGED <<runs, bpc, partial, dumps, dpc, DUMP, BEFORE, verdict, newestThen>>
        /\ day' \in 0..MaxDay /\ db' \in 0..MaxDb /\ staleRuns' \in 0..MaxRuns
        /\ staleRuns <= staleRuns' /\ staleRuns' <= runs
        /\ writeDb \/ UNCHANGED <<db, staleRuns>>
        /\ bpc \in {"off", "dump"} \/ UNCHANGED day
    BY BackupAssumption
    DEF writeDb, nextDay, backupState, drillState, BackupInv, BackupTypeOK
  <1>2. BackupTypeOK'
    BY <1>1 DEF BackupInv, BackupTypeOK
  <1>3. runs \in 0..MaxRuns /\ runs' = runs /\ runs <= runs'
    BY <1>1, BackupAssumption DEF BackupInv, BackupTypeOK
  <1>4. \A d \in File : Current(d) => Current(d)'
    <2> TAKE d \in File
    <2> QED BY <1>1, <1>3, CurrentStays DEF Current
  <1>5. \A d \in dumps' : d.whole /\ Current(d)'
    BY <1>1, <1>4 DEF BackupInv, BackupTypeOK
  <1>6. /\ bpc' \in {"dump", "check"} => partial' \in File /\ Current(partial)'
        /\ bpc' = "check" => partial'.whole /\ partial'.day = day'
        /\ bpc' = "rotate" => \E d \in dumps' : d.day = day'
    BY <1>1, <1>4 DEF BackupInv, Current
  <1>7. /\ dpc' # "off" => /\ DUMP' \in File /\ Current(DUMP)'
                           /\ newestThen' = DUMP'.stamp /\ verdict' = "none"
        /\ dpc' \in {"container", "restore"} => DUMP'.of = BEFORE' \/ DUMP'.stamp <= staleRuns'
    <2>1. dpc # "off" => Current(DUMP)'
      BY <1>1, <1>4 DEF BackupInv, Current
    <2>2. dpc # "off" => DUMP.stamp \in Nat
      BY DEF BackupInv, File
    <2>3. staleRuns \in Nat /\ staleRuns' \in Nat
      BY <1>1, BackupAssumption DEF BackupInv, BackupTypeOK
    <2> QED BY <1>1, <2>1, <2>2, <2>3 DEF BackupInv, BackupTypeOK
  <1>8. AlwaysABackup' /\ MismatchExplained'
    BY <1>1, BackupAssumption
    DEF BackupInv, BackupTypeOK, AlwaysABackup, MismatchExplained
  <1> QED BY <1>1, <1>2, <1>5, <1>6, <1>7, <1>8 DEF BackupInv

\* The lines of backup.sh. The dump that is moved was written whole and today, so the
\* rotation that follows leaves at least that one.
LEMMA BackupKeeps ==
  ASSUME BackupInv, startDump \/ dumpWritten \/ dumpFails \/ moveDump \/ rotate
  PROVE  BackupInv'
  <1> USE BackupAssumption
  <1>1. UNCHANGED <<day, db, staleRuns, dpc, DUMP, BEFORE, verdict, newestThen>>
    BY DEF startDump, dumpWritten, dumpFails, moveDump, rotate, drillState
  <1>2. /\ runs \in 0..MaxRuns /\ runs' \in 0..MaxRuns /\ runs <= runs'
        /\ staleRuns \in Nat /\ staleRuns <= runs' /\ day \in 0..MaxDay /\ db \in 0..MaxDb
    BY DEF startDump, dumpWritten, dumpFails, moveDump, rotate, BackupInv, BackupTypeOK
  <1>3. \A d \in File : Current(d) => Current(d)'
    <2> TAKE d \in File
    <2> QED BY <1>1, <1>2, CurrentStays DEF Current
  <1>4. /\ dpc' # "off" => /\ DUMP' \in File /\ Current(DUMP)'
                           /\ newestThen' = DUMP'.stamp /\ verdict' = "none"
        /\ dpc' \in {"container", "restore"} => DUMP'.of = BEFORE' \/ DUMP'.stamp <= staleRuns'
    <2>1. dpc # "off" => Current(DUMP)'
      BY <1>1, <1>3 DEF BackupInv, Current
    <2> QED BY <1>1, <2>1 DEF BackupInv
  <1>5. MismatchExplained'
    BY <1>1 DEF BackupInv, MismatchExplained
  <1>6. \A d \in dumps : d \in File /\ d.whole /\ Current(d)'
    BY <1>3 DEF BackupInv, BackupTypeOK
  <1>7. CASE startDump
    <2>1. /\ bpc' = "dump" /\ UNCHANGED dumps /\ runs' = runs + 1
          /\ partial' = [stamp |-> runs', day |-> day, of |-> db, whole |-> FALSE]
      BY <1>7 DEF startDump
    <2>2. partial' \in File /\ Current(partial)'
      BY <1>1, <1>2, <2>1 DEF File, Current
    <2>3. BackupTypeOK'
      BY <1>1, <1>2, <2>1, <2>2 DEF BackupInv, BackupTypeOK
    <2> QED BY <1>1, <1>2, <1>4, <1>5, <1>6, <2>1, <2>2, <2>3 DEF BackupInv, AlwaysABackup
  <1>8. CASE dumpWritten
    <2>1. /\ bpc = "dump" /\ bpc' = "check" /\ UNCHANGED <<dumps, runs>>
          /\ partial' = [partial EXCEPT !.whole = TRUE, !.day = day]
          /\ partial \in File /\ Current(partial)
      BY <1>8 DEF dumpWritten, BackupInv
    <2>2. /\ partial' \in File /\ partial'.whole /\ partial'.day = day
          /\ partial'.stamp = partial.stamp /\ partial'.of = partial.of
      BY <1>2, <2>1 DEF File
    <2>3. Current(partial)'
      BY <1>1, <2>1, <2>2 DEF Current
    <2>4. BackupTypeOK'
      BY <1>1, <1>2, <2>1, <2>2 DEF BackupInv, BackupTypeOK
    <2> QED
      BY <1>1, <1>2, <1>4, <1>5, <1>6, <2>1, <2>2, <2>3, <2>4 DEF BackupInv, AlwaysABackup
  <1>9. CASE dumpFails
    <2>1. bpc' = "off" /\ partial' = NoFile /\ UNCHANGED <<dumps, runs>>
      BY <1>9 DEF dumpFails
    <2>2. BackupTypeOK'
      BY <1>1, <1>2, <2>1 DEF BackupInv, BackupTypeOK
    <2> QED BY <1>1, <1>2, <1>4, <1>5, <1>6, <2>1, <2>2 DEF BackupInv, AlwaysABackup
  <1>10. CASE moveDump
    <2>1. /\ bpc' = "rotate" /\ partial' = NoFile /\ UNCHANGED runs
          /\ dumps' = dumps \cup {partial} /\ partial \in File /\ Current(partial)
          /\ partial.whole /\ partial.day = day
      BY <1>10 DEF moveDump, BackupInv
    <2>2. BackupTypeOK'
      BY <1>1, <1>2, <2>1 DEF BackupInv, BackupTypeOK
    <2>3. \A d \in dumps' : d.whole /\ Current(d)'
      BY <1>3, <1>6, <2>1
    <2> QED
      BY <1>1, <1>2, <1>4, <1>5, <2>1, <2>2, <2>3 DEF BackupInv, AlwaysABackup
  <1>11. CASE rotate
    <2>1. /\ bpc = "rotate" /\ bpc' = "off" /\ UNCHANGED <<runs, partial>>
          /\ dumps' = dumps \ Old
      BY <1>11 DEF rotate
    <2>2. PICK d \in dumps : d.day = day
      BY <2>1 DEF BackupInv
    <2>3. d \in dumps'
      BY <1>2, <2>1, <2>2 DEF Old
    <2>4. BackupTypeOK'
      BY <1>1, <1>2, <2>1 DEF BackupInv, BackupTypeOK
    <2> QED
      BY <1>1, <1>2, <1>4, <1>5, <1>6, <2>1, <2>3, <2>4 DEF BackupInv, AlwaysABackup
  <1> QED BY <1>7, <1>8, <1>9, <1>10, <1>11

\* The lines of restore-drill.sh: the dump it picked is either what the database was when
\* it looked, or older than a change.
LEMMA DrillKeeps ==
  ASSUME BackupInv, pickDump \/ controlLive \/ cleanContainer \/ restoreAndCompare \/ drillFails
  PROVE  BackupInv'
  <1> USE BackupAssumption
  <1>1. UNCHANGED <<day, db, staleRuns, runs, bpc, partial, dumps>>
    BY DEF pickDump, controlLive, cleanContainer, restoreAndCompare, drillFails, backupState
  <1>2. \A d \in File : Current(d)' <=> Current(d)
    BY <1>1 DEF Current
  <1>3. /\ \A d \in dumps' : d.whole /\ Current(d)'
        /\ bpc' \in {"dump", "check"} => partial' \in File /\ Current(partial)'
        /\ bpc' = "check" => partial'.whole /\ partial'.day = day'
        /\ bpc' = "rotate" => \E d \in dumps' : d.day = day'
    BY <1>1 DEF BackupInv, Current
  <1>4. CASE pickDump
    <2>1. /\ dumps # {} /\ dpc' = "control" /\ DUMP' = Newest /\ newestThen' = Newest.stamp
          /\ verdict' = "none" /\ UNCHANGED BEFORE
      BY <1>4 DEF pickDump
    <2>2. Newest \in dumps /\ Newest \in File /\ Current(Newest)
      BY <2>1, NewestIsADump DEF BackupInv, BackupTypeOK
    <2>3. /\ DUMP' \in File /\ DUMP' \in dumps /\ newestThen' \in 0..MaxRuns
          /\ newestThen' = DUMP'.stamp
      BY <2>1, <2>2 DEF File
    <2>4. Current(DUMP)'
      BY <1>1, <2>1, <2>2 DEF Current
    <2>5. BackupTypeOK'
      BY <1>1, <2>1, <2>3 DEF BackupInv, BackupTypeOK
    <2> QED
      BY <1>1, <1>3, <2>1, <2>3, <2>4, <2>5 DEF BackupInv, AlwaysABackup, MismatchExplained
  <1>5. CASE controlLive
    <2>1. /\ dpc = "control" /\ dpc' = "container" /\ BEFORE' = db
          /\ UNCHANGED <<DUMP, verdict, newestThen>>
      BY <1>5 DEF controlLive
    <2>2. BackupTypeOK'
      BY <1>1, <2>1 DEF BackupInv, BackupTypeOK
    <2> QED
      BY <1>1, <1>3, <2>1, <2>2
      DEF BackupInv, AlwaysABackup, MismatchExplained, Current
  <1>6. CASE cleanContainer \/ drillFails
    <2>1. /\ dpc # "off" /\ dpc' \in {"off", "restore"}
          /\ dpc' = "restore" => dpc = "container"
          /\ UNCHANGED <<DUMP, BEFORE, verdict, newestThen>>
      BY <1>6 DEF cleanContainer, drillFails
    <2>2. BackupTypeOK'
      BY <1>1, <2>1 DEF BackupInv, BackupTypeOK
    <2> QED
      BY <1>1, <1>3, <2>1, <2>2
      DEF BackupInv, AlwaysABackup, MismatchExplained, Current
  <1>7. CASE restoreAndCompare
    <2>1. /\ dpc = "restore" /\ dpc' = "off"
          /\ verdict' = IF DUMP.of = BEFORE THEN "MATCH" ELSE "MISMATCH"
          /\ UNCHANGED <<DUMP, BEFORE, newestThen>>
      BY <1>7 DEF restoreAndCompare
    <2>2. BackupTypeOK'
      BY <1>1, <2>1 DEF BackupInv, BackupTypeOK
    <2>3. MismatchExplained'
      BY <1>1, <2>1 DEF BackupInv, MismatchExplained
    <2> QED BY <1>1, <1>3, <2>1, <2>2, <2>3 DEF BackupInv, AlwaysABackup
  <1> QED BY <1>4, <1>5, <1>6, <1>7

\* Backups and drills that run at any time, fail at any line and overlap keep the invariant.
THEOREM BackupInvariant == BackupSpec => []BackupInv
  <1>1. BackupInv /\ [BackupNext]_backupVars => BackupInv'
    <2>1. SUFFICES ASSUME BackupInv, [BackupNext]_backupVars PROVE BackupInv'
      OBVIOUS
    <2>2. CASE UNCHANGED backupVars
      BY <2>1, <2>2
      DEF backupVars, backupState, drillState, BackupInv, BackupTypeOK, Current,
          AlwaysABackup, MismatchExplained
    <2> QED BY <2>1, <2>2, WorldKeeps, BackupKeeps, DrillKeeps DEF BackupNext
  <1> QED BY <1>1, BackupInitInv, PTL DEF BackupSpec

\* backup.sh leaves only whole dumps, its rotation never deletes the last one, and a
\* MISMATCH of restore-drill.sh is always due to a change after the dump.
THEOREM BackupBackupsStand == BackupSpec => []BackupsStand
  <1>1. BackupInv => BackupsStand
    BY DEF BackupInv, BackupsStand, DumpsAreWhole
  <1> QED BY <1>1, BackupInvariant, PTL
=============================================================================
