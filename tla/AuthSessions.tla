---------------------------- MODULE AuthSessions ----------------------------
(***************************************************************************)
(* Sessions of the Nest application (src/auth/auth.service.ts): login opens*)
(* a family of refresh tokens, refresh spends one token and issues the     *)
(* next, logout revokes the family and puts the jti of the access token on *)
(* the denylist, authenticate checks an access token.                      *)
(*                                                                         *)
(* A token pair has one id: t is the row of refresh_tokens and the jti of  *)
(* the access token issued with it. The steps are the SQL statements of    *)
(* concurrent requests under READ COMMITTED: a request sees committed rows *)
(* only, row locks are held to the end of the transaction, and the family  *)
(* UPDATE works on the rows its snapshot saw. What a transaction wrote and *)
(* did not commit is kept beside the tables, in fresh, todo and lock.      *)
(***************************************************************************)
EXTENDS Integers, FiniteSets

CONSTANTS
  Token,            \* ids of token pairs
  Req,              \* requests in flight at a time
  None,
  AccessTtl,        \* ACCESS_TOKEN_TTL_SEC, in ticks of the clock
  RefreshTtl,       \* REFRESH_TOKEN_TTL_SEC
  MaxClock,         \* bound: ticks of the clock
  MaxFaults         \* bound: statements that fail

ASSUME AuthAssumption ==
  /\ Token \subseteq Nat
  /\ None \notin Nat \cup Req
  /\ AccessTtl \in Nat \ {0} /\ RefreshTtl \in Nat \ {0}
  /\ MaxClock \in Nat /\ MaxFaults \in Nat

VARIABLES
  clock,
  issued,           \* issued[t]: when t was issued (committed), None before
  family,           \* family[t]: the login t descends from (family_id)
  parent,           \* history: the token t was exchanged for
  used,             \* used_at IS NOT NULL
  revoked,          \* revoked_at IS NOT NULL
  denylist,         \* access_denylist
  loggedOut,        \* history: tokens whose logout was committed
  lock,             \* lock[t]: the transaction that has row t locked
  pc,               \* pc[r]: the next statement of request r
  tok,              \* tok[r]: the token r presents
  fresh,            \* fresh[r]: the row r inserted and did not commit
  todo,             \* todo[r]: rows the family UPDATE of r has not visited
  faults

rowVars == <<issued, family, parent, used, revoked>>
vars == <<clock, rowVars, denylist, loggedOut, lock, pc, tok, fresh, todo, faults>>

Issued == {t \in Token : issued[t] # None}

TypeOK ==
  /\ clock \in 0..MaxClock
  /\ issued \in [Token -> 0..MaxClock \cup {None}]
  /\ family \in [Token -> Token \cup {None}]
  /\ parent \in [Token -> Token \cup {None}]
  /\ used \subseteq Issued
  /\ revoked \subseteq Issued
  /\ denylist \subseteq loggedOut
  /\ loggedOut \subseteq Issued
  /\ lock \in [Token -> Req \cup {None}]
  /\ pc \in [Req -> {"idle", "select", "decide", "rotated", "revoke",
                     "check", "checkOut", "revokeOut", "denied"}]
  /\ tok \in [Req -> Token \cup {None}]
  /\ fresh \in [Req -> Token \cup {None}]
  /\ todo \in [Req -> SUBSET Token]
  /\ faults \in 0..MaxFaults

Init ==
  /\ clock = 0
  /\ issued = [t \in Token |-> None]
  /\ family = [t \in Token |-> None]
  /\ parent = [t \in Token |-> None]
  /\ used = {} /\ revoked = {} /\ denylist = {} /\ loggedOut = {}
  /\ lock = [t \in Token |-> None]
  /\ pc = [r \in Req |-> "idle"]
  /\ tok = [r \in Req |-> None]
  /\ fresh = [r \in Req |-> None]
  /\ todo = [r \in Req |-> {}]
  /\ faults = 0

-----------------------------------------------------------------------------
Goto(r, where) == pc' = [pc EXCEPT ![r] = where]

\* COMMIT, ROLLBACK or a lost connection: the locks of r are released and
\* the request is answered. A client that never got the answer to its COMMIT
\* is one that goes on presenting the old token.
End(r) ==
  /\ pc' = [pc EXCEPT ![r] = "idle"]
  /\ tok' = [tok EXCEPT ![r] = None]
  /\ fresh' = [fresh EXCEPT ![r] = None]
  /\ todo' = [todo EXCEPT ![r] = {}]
  /\ lock' = [t \in Token |-> IF lock[t] = r THEN None ELSE lock[t]]

\* A pair nobody has: random bytes and a random jti, named by the smallest
\* free id.
Unissued(t) == issued[t] = None /\ \A r \in Req : fresh[r] # t
NewPair(t) == Unissued(t) /\ \A u \in Token : Unissued(u) => t <= u

\* Bound: Token is finite in TLC's instances. A request starts only while a
\* pair is left for it and for every refresh that may still insert one.
PairLeft ==
  Cardinality({r \in Req : pc[r] \in {"select", "decide"}})
    < Cardinality({t \in Token : Unissued(t)})

\* The last moment of the refresh row; the access token is dead AT its exp.
RefreshExpires(t) == issued[t] + RefreshTtl
AccessExpires(t) == issued[t] + AccessTtl

\* login: a new family, in a statement of its own.
Login(t) ==
  /\ NewPair(t) /\ PairLeft
  /\ issued' = [issued EXCEPT ![t] = clock]
  /\ family' = [family EXCEPT ![t] = t]
  /\ UNCHANGED <<clock, parent, used, revoked, denylist, loggedOut, lock, pc,
                 tok, fresh, todo, faults>>

\* refresh is called; an unknown token (None) finds no row and is refused.
StartRefresh(r, t) ==
  /\ pc[r] = "idle" /\ PairLeft
  /\ t \in Issued \cup {None}
  /\ tok' = [tok EXCEPT ![r] = t]
  /\ Goto(r, "select")
  /\ UNCHANGED <<clock, rowVars, denylist, loggedOut, lock, fresh, todo, faults>>

RefreshUnknown(r) ==
  /\ pc[r] = "select" /\ tok[r] = None
  /\ End(r)
  /\ UNCHANGED <<clock, rowVars, denylist, loggedOut, faults>>

\* Mutant: the row is read without FOR UPDATE.
SelectUnlocked(r) ==
  /\ pc[r] = "select" /\ tok[r] # None
  /\ Goto(r, "decide")
  /\ UNCHANGED <<clock, rowVars, denylist, loggedOut, lock, tok, fresh, todo, faults>>

\* SELECT ... FOR UPDATE waits for the holder and then sees what it committed.
SelectForUpdate(r) ==
  /\ pc[r] = "select" /\ tok[r] # None
  /\ lock[tok[r]] = None
  /\ lock' = [lock EXCEPT ![tok[r]] = r]
  /\ Goto(r, "decide")
  /\ UNCHANGED <<clock, rowVars, denylist, loggedOut, tok, fresh, todo, faults>>

\* Mutant: the early return forgets its COMMIT, the pooled connection keeps
\* the row locked.
RefuseOpen(r) ==
  /\ pc[r] = "decide"
  /\ \/ tok[r] \in revoked
     \/ tok[r] \notin used /\ RefreshExpires(tok[r]) <= clock
  /\ Goto(r, "idle")
  /\ UNCHANGED <<clock, rowVars, denylist, loggedOut, lock, tok, fresh, todo, faults>>

\* A revoked row, or an unused one past expires_at: COMMIT and 401. (The
\* branch for a missing user cannot be reached: the foreign key deletes the
\* rows with the user, and this row is locked.)
RefuseRefresh(r) ==
  /\ pc[r] = "decide"
  /\ \/ tok[r] \in revoked
     \/ tok[r] \notin used /\ RefreshExpires(tok[r]) <= clock
  /\ End(r)
  /\ UNCHANGED <<clock, rowVars, denylist, loggedOut, faults>>

\* The rows UPDATE ... WHERE family_id = f AND revoked_at IS NULL finds in
\* the snapshot it starts with.
LiveRows(f) == {t \in Issued : family[t] = f /\ t \notin revoked}

\* A spent token came again: the family UPDATE starts.
BeginReuse(r) ==
  /\ pc[r] = "decide"
  /\ tok[r] \in used \ revoked
  /\ todo' = [todo EXCEPT ![r] = LiveRows(family[tok[r]])]
  /\ Goto(r, "revoke")
  /\ UNCHANGED <<clock, rowVars, denylist, loggedOut, lock, tok, fresh, faults>>

\* UPDATE used_at; INSERT the next token of the family.
Rotate(r) ==
  /\ pc[r] = "decide"
  /\ tok[r] \notin used \cup revoked
  /\ clock < RefreshExpires(tok[r])
  /\ \E t \in Token :
       /\ NewPair(t)
       /\ fresh' = [fresh EXCEPT ![r] = t]
  /\ Goto(r, "rotated")
  /\ UNCHANGED <<clock, rowVars, denylist, loggedOut, lock, tok, todo, faults>>

CommitRotate(r) ==
  /\ pc[r] = "rotated"
  /\ used' = used \cup {tok[r]}
  /\ issued' = [issued EXCEPT ![fresh[r]] = clock]
  /\ family' = [family EXCEPT ![fresh[r]] = family[tok[r]]]
  /\ parent' = [parent EXCEPT ![fresh[r]] = tok[r]]
  /\ End(r)
  /\ UNCHANGED <<clock, revoked, denylist, loggedOut, faults>>

\* The family UPDATE visits a row: it waits for the row's lock, then tests
\* revoked_at again on the newest version and locks the row it changes.
RevokeRow(r) ==
  /\ pc[r] \in {"revoke", "revokeOut"}
  /\ \E t \in todo[r] :
       /\ lock[t] \in {None, r}
       /\ lock' = IF t \in revoked THEN lock ELSE [lock EXCEPT ![t] = r]
       /\ todo' = [todo EXCEPT ![r] = @ \ {t}]
  /\ UNCHANGED <<clock, rowVars, denylist, loggedOut, pc, tok, fresh, faults>>

\* The rows the family UPDATE of r changed.
Changed(r) == {t \in Issued : lock[t] = r}

CommitReuse(r) ==
  /\ pc[r] = "revoke" /\ todo[r] = {}
  /\ revoked' = revoked \cup Changed(r)
  /\ End(r)
  /\ UNCHANGED <<clock, issued, family, parent, used, denylist, loggedOut, faults>>

-----------------------------------------------------------------------------
\* authenticate: tokens.verify checks exp against the clock of the process;
\* the denylist is read later. r goes on to its handler ("check") or to
\* logout ("checkOut").
Verify(r, t) ==
  /\ pc[r] = "idle"
  /\ t \in Issued /\ clock < AccessExpires(t)
  /\ tok' = [tok EXCEPT ![r] = t]
  /\ \E where \in {"check", "checkOut"} : Goto(r, where)
  /\ UNCHANGED <<clock, rowVars, denylist, loggedOut, lock, fresh, todo, faults>>

DenyAccess(r) ==
  /\ pc[r] \in {"check", "checkOut"}
  /\ tok[r] \in denylist
  /\ End(r)
  /\ UNCHANGED <<clock, rowVars, denylist, loggedOut, faults>>

\* The guard lets the request through.
Accept(r) ==
  /\ pc[r] = "check"
  /\ tok[r] \notin denylist
  /\ End(r)
  /\ UNCHANGED <<clock, rowVars, denylist, loggedOut, faults>>

\* logout: BEGIN, and the family UPDATE starts.
BeginLogout(r) ==
  /\ pc[r] = "checkOut"
  /\ tok[r] \notin denylist
  /\ todo' = [todo EXCEPT ![r] = LiveRows(family[tok[r]])]
  /\ Goto(r, "revokeOut")
  /\ UNCHANGED <<clock, rowVars, denylist, loggedOut, lock, tok, fresh, faults>>

\* INSERT INTO access_denylist ... ON CONFLICT DO NOTHING waits for another
\* transaction that inserted the same jti.
InsertDenied(r) ==
  /\ pc[r] = "revokeOut" /\ todo[r] = {}
  /\ \A s \in Req : ~(pc[s] = "denied" /\ tok[s] = tok[r])
  /\ Goto(r, "denied")
  /\ UNCHANGED <<clock, rowVars, denylist, loggedOut, lock, tok, fresh, todo, faults>>

CommitLogout(r) ==
  /\ pc[r] = "denied"
  /\ revoked' = revoked \cup Changed(r)
  /\ denylist' = denylist \cup {tok[r]}
  /\ loggedOut' = loggedOut \cup {tok[r]}
  /\ End(r)
  /\ UNCHANGED <<clock, issued, family, parent, used, faults>>

-----------------------------------------------------------------------------
\* The requests r waits for: holders of the rows it has to lock.
WaitsFor(r) ==
  LET rows == IF pc[r] = "select" THEN {tok[r]} \ {None} ELSE todo[r]
  IN  {lock[t] : t \in rows} \ {None, r}

\* PostgreSQL ends a transaction of a cycle with 40P01.
Deadlocked(r) ==
  \E s \in WaitsFor(r) : \/ r \in WaitsFor(s)
                         \/ \E q \in WaitsFor(s) : r \in WaitsFor(q)

\* A statement fails, or the connection is lost: ROLLBACK, the error goes to
\* the client. Nothing the transaction wrote remains.
Throw(r) ==
  /\ pc[r] # "idle"
  /\ \/ Deadlocked(r) /\ UNCHANGED faults
     \/ faults < MaxFaults /\ faults' = faults + 1
  /\ End(r)
  /\ UNCHANGED <<clock, rowVars, denylist, loggedOut>>

\* Mutant: the purge keeps nothing that expires this very second.
purgeDenylistAtExp == {t \in denylist : AccessExpires(t) <= clock}

\* purgeDenylist: DELETE ... WHERE expires_at < now().
purgeDenylist == {t \in denylist : AccessExpires(t) < clock}

\* onModuleInit: the timer runs it now and then, and survives its failure.
Purge ==
  /\ purgeDenylist # {}
  /\ denylist' = denylist \ purgeDenylist
  /\ UNCHANGED <<clock, rowVars, loggedOut, lock, pc, tok, fresh, todo, faults>>

Tick ==
  /\ clock < MaxClock
  /\ clock' = clock + 1
  /\ UNCHANGED <<rowVars, denylist, loggedOut, lock, pc, tok, fresh, todo, faults>>

RefreshStep(r) ==
  \/ RefreshUnknown(r) \/ SelectForUpdate(r) \/ RefuseRefresh(r)
  \/ BeginReuse(r) \/ Rotate(r) \/ CommitRotate(r)
  \/ RevokeRow(r) \/ CommitReuse(r)

AccessStep(r) ==
  \/ DenyAccess(r) \/ Accept(r)
  \/ BeginLogout(r) \/ InsertDenied(r) \/ CommitLogout(r)

Next ==
  \/ \E t \in Token : Login(t)
  \/ \E r \in Req, t \in Token \cup {None} : StartRefresh(r, t)
  \/ \E r \in Req, t \in Token : Verify(r, t)
  \/ \E r \in Req : RefreshStep(r) \/ AccessStep(r) \/ Throw(r)
  \/ Purge
  \/ Tick

Spec == Init /\ [][Next]_vars

\* Statements are answered, locks are granted in order of arrival (strong
\* fairness of the waiting statements) and deadlocks are detected.
FairSpec ==
  /\ Spec
  /\ \A r \in Req :
       /\ WF_vars(RefreshStep(r) \/ AccessStep(r))
       /\ SF_vars(SelectForUpdate(r))
       /\ SF_vars(RevokeRow(r))
       /\ SF_vars(InsertDenied(r))
       /\ WF_vars(Deadlocked(r) /\ Throw(r))

-----------------------------------------------------------------------------
\* A family is a chain: a token is spent exactly when it has a successor, no
\* token has two successors, and a successor belongs to the family of the
\* token it replaced. Two refreshes of one token never both get a pair.
FamilyIsChain ==
  /\ \A t \in Issued : t \in used <=> \E u \in Issued : parent[u] = t
  /\ \A t, u \in Issued :
       parent[t] # None /\ parent[t] = parent[u] => t = u
  /\ \A t \in Issued :
       parent[t] # None => /\ parent[t] \in Issued
                           /\ family[parent[t]] = family[t]

\* A token whose logout was committed is let through only by a check that
\* ends after the token's own exp: however the denylist read interleaves with
\* logout and purge, no second of the token's life is given back.
LogoutHolds ==
  [][\A r \in Req :
       (Accept(r) /\ tok[r] \in loggedOut) => clock > AccessExpires(tok[r])]_vars

\* Rotation never takes a dead token: one that was spent, or whose revocation
\* was committed, gets no successor however long the transaction has waited.
OnlyLiveTokensRotate ==
  [][\A t \in Token :
       t \in used' \ used => t \notin revoked /\ t \notin revoked']_vars

\* Every request is answered: waiting transactions form no cycle that lasts,
\* and no finished request leaves a row locked.
RequestsEnd == \A r \in Req : pc[r] # "idle" ~> pc[r] = "idle"

\* README.md, "Логаут -- це дві дії": revoked_at is set on the whole family,
\* "Після цього refresh-after-logout=401". A refresh of the same session that
\* is in flight inserts its row outside the snapshot of the UPDATE.
LogoutEndsFamily ==
  \A t \in loggedOut : LiveRows(family[t]) = {}

\* What a request knows: it presents an issued token, and past its SELECT it
\* has that row locked.
Presents(r) ==
  /\ tok[r] # None => tok[r] \in Issued
  /\ pc[r] \notin {"idle", "select"} => tok[r] # None
  /\ pc[r] \in {"decide", "rotated", "revoke"} => lock[tok[r]] = r

\* The token a rotation will spend is live, and its successor is new.
Spends(r) ==
  /\ pc[r] = "rotated" => /\ tok[r] \notin used \cup revoked
                          /\ fresh[r] # None
  /\ fresh[r] # None => pc[r] = "rotated" /\ issued[fresh[r]] = None

\* The inductive invariant. A logged-out token is off the denylist only when
\* it has expired.
IInv ==
  /\ TypeOK
  /\ FamilyIsChain
  /\ \A r \in Req : Presents(r) /\ Spends(r)
  /\ \A r, s \in Req : fresh[r] # None /\ fresh[r] = fresh[s] => r = s
  /\ \A t \in Token : issued[t] = None => parent[t] = None
  /\ \A t \in loggedOut \ denylist : AccessExpires(t) < clock
=============================================================================
