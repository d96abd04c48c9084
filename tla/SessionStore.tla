---------------------------- MODULE SessionStore ----------------------------
(***************************************************************************)
(* Sessions in Redis with a rolling TTL (src/redis/session.ts) and the     *)
(* request handler that counts visits in one (src/demo-session.ts). Each   *)
(* Redis command is a step; requests of one browser overlap. The process   *)
(* keeps nothing between requests, so its restart only drops requests.     *)
(***************************************************************************)
EXTENDS Clock, FiniteSets

CONSTANTS
  Ttl,              \* ttlSec
  Visit,            \* requests, each of them again and again
  MaxSid,           \* bound: sessions that are created
  MaxVisits         \* bound: visits that are counted

Sid == 1..MaxSid

ASSUME SessionAssumption ==
  /\ Ttl \in Nat \ {0} /\ MaxSid \in Nat /\ MaxVisits \in Nat
  /\ None \notin [visits : 0..MaxVisits, expires : Nat]

VARIABLES
  session,          \* session[s]: visits and expiry under sess:<s>, or None
  sids,             \* session ids handed out
  cookie,           \* the browser's sid
  spc, sreq,        \* where a request is, and its req.session
  lastUse,          \* history: when s was created, touched or saved last
  ended,            \* history: sessions that were destroyed or ran out
  late,             \* history: those a request was holding at that moment
  saves,            \* history: saves of s
  overlapped        \* history: sessions two requests held at once

sessionVars ==
  <<now, session, sids, cookie, spc, sreq, lastUse, ended, late, saves, overlapped>>

Holders(s) == {q \in Visit : spc[q] = "save" /\ sreq[q].sid = s}

SessionTypeOK ==
  /\ session \in [Sid -> [visits : 0..MaxVisits, expires : Nat] \cup {None}]
  /\ sids \in 0..MaxSid /\ cookie \in Sid \cup {None}
  /\ ended \subseteq Sid /\ late \subseteq ended
  /\ spc \in [Visit -> {"idle", "create", "save"}]
  /\ sreq \in [Visit -> [sid : Sid, visits : 0..MaxVisits, isNew : BOOLEAN] \cup {None}]

SessionInit ==
  /\ now = 0 /\ session = [s \in Sid |-> None] /\ sids = 0 /\ cookie = None
  /\ spc = [q \in Visit |-> "idle"] /\ sreq = [q \in Visit |-> None]
  /\ lastUse = [s \in Sid |-> None] /\ ended = {} /\ late = {}
  /\ saves = [s \in Sid |-> 0] /\ overlapped = {}

Entry(visits) == [visits |-> visits, expires |-> now + Ttl]

Hold(q, s, visits, new) ==
  /\ spc' = [spc EXCEPT ![q] = "save"]
  /\ sreq' = [sreq EXCEPT ![q] = [sid |-> s, visits |-> visits, isNew |-> new]]
  /\ lastUse' = [lastUse EXCEPT ![s] = now]
  /\ overlapped' = IF Holders(s) = {} THEN overlapped ELSE overlapped \cup {s}

-----------------------------------------------------------------------------
\* Mutant: GET instead of GETEX.
touchGet(q) ==
  /\ spc[q] = "idle"
  /\ IF cookie # None /\ session[cookie] # None
     THEN Hold(q, cookie, session[cookie].visits, FALSE) /\ UNCHANGED session
     ELSE /\ spc' = [spc EXCEPT ![q] = "create"]
          /\ UNCHANGED <<session, sreq, lastUse, overlapped>>
  /\ UNCHANGED <<now, sids, cookie, ended, late, saves>>

\* The middleware looks for the cookie's session: GETEX reads it and renews it.
touch(q) ==
  /\ spc[q] = "idle"
  /\ IF cookie # None /\ session[cookie] # None
     THEN /\ Hold(q, cookie, session[cookie].visits, FALSE)
          /\ session' = [session EXCEPT ![cookie] = Entry(@.visits)]
     ELSE /\ spc' = [spc EXCEPT ![q] = "create"]
          /\ UNCHANGED <<session, sreq, lastUse, overlapped>>
  /\ UNCHANGED <<now, sids, cookie, ended, late, saves>>

\* create(): a new random id.
create(q) ==
  /\ spc[q] = "create" /\ sids < MaxSid /\ sids' = sids + 1
  /\ Hold(q, sids + 1, 0, TRUE)
  /\ session' = [session EXCEPT ![sids + 1] = Entry(0)]
  /\ UNCHANGED <<now, cookie, ended, late, saves>>

\* The handler: save() of what was read plus one visit, then the response, which
\* brings a new session's cookie to the browser.
save(q) ==
  /\ spc[q] = "save" /\ sreq[q].visits < MaxVisits
  /\ LET s == sreq[q].sid IN
       /\ session' = [session EXCEPT ![s] = Entry(sreq[q].visits + 1)]
       /\ saves' = [saves EXCEPT ![s] = @ + 1]
       /\ lastUse' = [lastUse EXCEPT ![s] = now]
       /\ cookie' = IF sreq[q].isNew THEN s ELSE cookie
  /\ spc' = [spc EXCEPT ![q] = "idle"] /\ sreq' = [sreq EXCEPT ![q] = None]
  /\ UNCHANGED <<now, sids, ended, late, overlapped>>

\* A Redis error (next(e), 500) or a restart of the process ends the request.
RequestFails(q) ==
  /\ spc[q] # "idle"
  /\ spc' = [spc EXCEPT ![q] = "idle"] /\ sreq' = [sreq EXCEPT ![q] = None]
  /\ UNCHANGED <<now, session, sids, cookie, lastUse, ended, late, saves, overlapped>>

\* What ends sessions: requests that hold one of them may still save it.
End(gone) ==
  /\ ended' = ended \cup gone
  /\ late' = late \cup {s \in gone : Holders(s) # {}}

destroy(s) ==
  /\ session[s] # None /\ session' = [session EXCEPT ![s] = None]
  /\ End({s}) /\ lastUse' = [lastUse EXCEPT ![s] = None]
  /\ UNCHANGED <<now, sids, cookie, spc, sreq, saves, overlapped>>

SessionTick ==
  /\ Later
  /\ LET out == {s \in Sid : session[s] # None /\ session[s].expires <= now'} IN
       /\ session' = [s \in Sid |-> IF s \in out THEN None ELSE session[s]]
       /\ End(out)
  /\ UNCHANGED <<sids, cookie, spc, sreq, lastUse, saves, overlapped>>

SessionNext ==
  \/ \E q \in Visit : touch(q) \/ create(q) \/ save(q) \/ RequestFails(q)
  \/ \E s \in Sid : destroy(s)
  \/ SessionTick

SessionSpec == SessionInit /\ [][SessionNext]_sessionVars

-----------------------------------------------------------------------------
\* "Активного користувача не викине": a session that was used less than a TTL
\* ago, and not destroyed since, is there, whichever request used it.
ActiveStays ==
  \A s \in Sid : lastUse[s] # None /\ now < lastUse[s] + Ttl => session[s] # None

\* A session that ended does not come back, neither after logout nor after its
\* TTL, unless a request was holding it at that moment: save() does not look.
EndedStaysEnded == \A s \in ended \ late : session[s] = None

\* Requests one after another count every visit; only overlapping ones, which
\* read the same number, may lose some, and none counts too many.
VisitsCounted ==
  \A s \in Sid : session[s] # None =>
    /\ session[s].visits <= saves[s]
    /\ s \notin overlapped => session[s].visits = saves[s]

\* session.ts and demo-session.ts: a session that is in use lives, one that
\* ended stays so, and it counts what was done in it, up to overlapping requests.
SessionLives == ActiveStays /\ EndedStaysEnded /\ VisitsCounted

\* A session that nobody has created has left no trace.
Unknown(s) ==
  /\ session[s] = None /\ lastUse[s] = None /\ saves[s] = 0 /\ s \notin ended
  /\ Holders(s) = {} /\ s \notin overlapped

\* What a request that holds a session has read of it: no visit that was not saved,
\* and all of them unless another request overlaps.
HolderKnows(q) ==
  spc[q] = "save" =>
    /\ sreq[q] \in [sid : Sid, visits : 0..MaxVisits, isNew : BOOLEAN]
    /\ sreq[q].visits <= saves[sreq[q].sid]
    /\ sreq[q].sid \notin overlapped =>
         sreq[q].visits = saves[sreq[q].sid] /\ Holders(sreq[q].sid) = {q}

\* The inductive invariant. The expiry of a session is a TTL after its last use,
\* and what ended unseen has nobody left to save it.
SessionInv ==
  /\ SessionTypeOK /\ now \in Nat
  /\ lastUse \in [Sid -> Nat \cup {None}] /\ saves \in [Sid -> Nat]
  /\ \A s \in Sid : session[s] # None =>
       lastUse[s] # None /\ session[s].expires = lastUse[s] + Ttl
  /\ ActiveStays
  /\ \A s \in ended \ late : session[s] = None /\ Holders(s) = {}
  /\ VisitsCounted
  /\ \A q \in Visit : HolderKnows(q)
  /\ \A s \in Sid : s > sids => Unknown(s)
=============================================================================
