---------------------------- MODULE RateLimiter -----------------------------
(***************************************************************************)
(* The limit of one client (src/redis/rate-limit.ts): a ZSET of the times  *)
(* of its requests, which all pods change with one Lua script, that is, in *)
(* one step. A call may fail before or after the script has run. The ZSET  *)
(* lives on the cache instance (src/redis/config.ts), whose allkeys-lru    *)
(* may drop it.                                                            *)
(***************************************************************************)
EXTENDS Clock, FiniteSets

CONSTANTS
  Window,           \* windowMs
  Second,           \* instants of a second
  Limits,           \* limits to choose from
  MaxRequests       \* bound: requests that are not refused

Request == 1..MaxRequests

ASSUME LimiterAssumption ==
  /\ Window \in Nat \ {0} /\ Second \in Nat \ {0} /\ MaxRequests \in Nat
  /\ Limits \subseteq Nat

VARIABLES
  limit, failOpen,  \* the options
  zset,             \* <<score, member>> under rl:<client>
  keyExpires,       \* what PEXPIRE set
  retryAt,          \* when the client that was refused last may come back
  requests,         \* requests that were not refused
  passed,           \* history: <<time, request>> the script let in since the
                    \* ZSET was dropped last
  leaked            \* history: a request passed because the call failed

limiterVars ==
  <<now, limit, failOpen, zset, keyExpires, retryAt, requests, passed, leaked>>

LimiterTypeOK ==
  /\ now \in Nat /\ limit \in Nat /\ failOpen \in BOOLEAN /\ leaked \in BOOLEAN
  /\ zset \subseteq Nat \X Request /\ passed \subseteq Nat \X Request
  /\ keyExpires \in Nat /\ retryAt \in Nat \cup {None} /\ requests \in 0..MaxRequests

LimiterInit ==
  /\ now = 0 /\ limit \in Limits /\ failOpen \in BOOLEAN
  /\ zset = {} /\ keyExpires = 0 /\ retryAt = None /\ requests = 0
  /\ passed = {} /\ leaked = FALSE

\* Mutant: an entry is dropped one instant too early.
LiveShort == {e \in zset : e[1] > now - Window + 1}
\* ZREMRANGEBYSCORE 0 .. now - win.
Live == {e \in zset : e[1] > now - Window}

\* ZADD and PEXPIRE.
AddRequest ==
  /\ Cardinality(Live) < limit
  /\ requests < MaxRequests /\ requests' = requests + 1
  /\ zset' = Live \cup {<<now, requests + 1>>}
  /\ keyExpires' = now + Window

\* check(): allowed, and the middleware calls next().
allow ==
  /\ AddRequest
  /\ passed' = passed \cup {<<now, requests + 1>>} /\ retryAt' = None
  /\ UNCHANGED <<now, limit, failOpen, leaked>>

\* Mutant: Math.floor.
retryAfterSecDown(ms) == LET s == ms \div Second IN IF s < 1 THEN 1 ELSE s
\* Math.max(1, Math.ceil(retryMs / 1000)).
retryAfterSec(ms) == LET s == (ms + Second - 1) \div Second IN IF s < 1 THEN 1 ELSE s

\* check(): refused with 429 and Retry-After.
refuse ==
  /\ Cardinality(Live) >= limit
  /\ \E oldest \in Live :
       /\ \A e \in Live : oldest[1] <= e[1]
       /\ retryAt' = now + Second * retryAfterSec(oldest[1] + Window - now)
  /\ zset' = Live
  /\ UNCHANGED <<now, limit, failOpen, keyExpires, requests, passed, leaked>>

\* The call fails: no Redis, a lost answer, or (limit 0) a script that looks for
\* the oldest entry of an empty ZSET. fail-open lets the request pass; otherwise
\* it ends with an error.
checkFails ==
  /\ \/ AddRequest
     \/ /\ requests < MaxRequests /\ requests' = requests + 1
        /\ UNCHANGED <<zset, keyExpires>>
  /\ leaked' = (leaked \/ failOpen) /\ retryAt' = None
  /\ UNCHANGED <<now, limit, failOpen, passed>>

\* allkeys-lru drops the counter.
evictCounter ==
  /\ zset # {} /\ zset' = {} /\ passed' = {} /\ retryAt' = None
  /\ UNCHANGED <<now, limit, failOpen, keyExpires, requests, leaked>>

\* Time passes; the key goes when PEXPIRE says.
LimiterTick ==
  /\ Later
  /\ zset' = IF keyExpires <= now' THEN {} ELSE zset
  /\ UNCHANGED <<limit, failOpen, keyExpires, retryAt, requests, passed, leaked>>

LimiterNext == allow \/ refuse \/ checkFails \/ evictCounter \/ LimiterTick

LimiterSpec == LimiterInit /\ [][LimiterNext]_limiterVars

-----------------------------------------------------------------------------
InWindow(t) == {p \in passed : t - Window < p[1] /\ p[1] <= t}

\* No window of any position, not only the aligned ones, lets in more than limit
\* requests while the counter is there; only a fail-open limiter lets others
\* pass. A limit of 0 that fails closed lets nobody through.
WindowLimit ==
  /\ \A t \in 0..now : Cardinality(InWindow(t)) <= limit
  /\ leaked => failOpen

\* A client that comes back when Retry-After says is let in, if nothing of it
\* passed meanwhile: the seconds are rounded up and the oldest entry has left.
RetryAfterHonest ==
  retryAt # None /\ now >= retryAt => Cardinality(Live) < limit

\* The limiter implements the sliding window.
Promise ==
  INSTANCE SlidingWindow WITH time <- now, admitted <- passed

\* Every step of the limiter is a step of the sliding window, or none.
ImplementsWindow == Promise!Spec

\* The inductive invariant: what passed and is still in the window is in the
\* ZSET, whose key outlives its entries.
LimiterInv ==
  /\ LimiterTypeOK
  /\ IsFiniteSet(zset) /\ IsFiniteSet(passed)
  /\ \A e \in zset : e[1] <= now /\ e[1] + Window <= keyExpires /\ e[2] <= requests
  /\ \A p \in passed : p[1] <= now /\ p[2] <= requests
  /\ \A p \in passed : p[1] > now - Window => p \in zset
  /\ WindowLimit

\* What RetryAfterHonest needs besides: the ZSET never holds more than limit
\* entries, and one of them has left by the time the client was told.
ComeBack ==
  /\ Cardinality(zset) <= limit
  /\ retryAt # None =>
       /\ limit > 0
       /\ Cardinality(zset) < limit \/ \E e \in zset : e[1] + Window <= retryAt
=============================================================================
