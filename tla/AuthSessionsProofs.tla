------------------------- MODULE AuthSessionsProofs -------------------------
(***************************************************************************)
(* Proofs about AuthSessions, for every number of tokens, requests, ticks  *)
(* and faults: rotation builds chains, only live tokens rotate, and a      *)
(* logged-out token is not let through before its exp.                     *)
(***************************************************************************)
EXTENDS AuthSessions, TLAPS

\* The starting state satisfies the inductive invariant.
LEMMA InitIInv == Init => IInv
  BY AuthAssumption
  DEF Init, IInv, TypeOK, FamilyIsChain, Presents, Spends, Issued, AccessExpires

\* The end of a transaction keeps what the other requests know, and leaves
\* nothing of its own behind.
LEMMA EndKeeps ==
  ASSUME IInv, NEW r \in Req, End(r), UNCHANGED <<rowVars, loggedOut>>
  PROVE  /\ pc' \in [Req -> {"idle", "select", "decide", "rotated", "revoke",
                             "check", "checkOut", "revokeOut", "denied"}]
         /\ lock' \in [Token -> Req \cup {None}]
         /\ tok' \in [Req -> Token \cup {None}]
         /\ fresh' \in [Req -> Token \cup {None}]
         /\ todo' \in [Req -> SUBSET Token]
         /\ \A s \in Req : Presents(s)' /\ Spends(s)'
         /\ \A q, s \in Req : fresh'[q] # None /\ fresh'[q] = fresh'[s] => q = s
  BY AuthAssumption
  DEF IInv, TypeOK, End, Presents, Spends, Issued, rowVars

\* Steps that end a request and write no row.
LEMMA EndPreserves ==
  ASSUME IInv, NEW r \in Req, End(r),
         UNCHANGED <<clock, rowVars, denylist, loggedOut>>,
         faults' \in 0..MaxFaults
  PROVE  IInv'
  <1>1. TypeOK'
    BY EndKeeps DEF IInv, TypeOK, Issued, rowVars
  <1>2. FamilyIsChain'
    BY DEF IInv, FamilyIsChain, Issued, rowVars
  <1>3. \A t \in loggedOut' \ denylist' : AccessExpires(t)' < clock'
    BY DEF IInv, AccessExpires, rowVars
  <1>4. \A t \in Token : issued'[t] = None => parent'[t] = None
    BY DEF IInv, rowVars
  <1> QED BY <1>1, <1>2, <1>3, <1>4, EndKeeps DEF IInv

\* Steps of one request that write no row and end no transaction.
LEMMA QuietPreserves ==
  ASSUME IInv, NEW r \in Req,
         \/ \E t \in Token \cup {None} : StartRefresh(r, t)
         \/ \E t \in Token : Verify(r, t)
         \/ SelectForUpdate(r) \/ BeginReuse(r) \/ Rotate(r)
         \/ RevokeRow(r) \/ BeginLogout(r) \/ InsertDenied(r)
  PROVE  IInv'
  <1>1. UNCHANGED <<clock, rowVars, denylist, loggedOut, faults>>
    BY DEF StartRefresh, Verify, SelectForUpdate, BeginReuse, Rotate,
           RevokeRow, BeginLogout, InsertDenied
  <1>2. FamilyIsChain'
    BY <1>1 DEF IInv, FamilyIsChain, Issued, rowVars
  <1>3. \A t \in loggedOut' \ denylist' : AccessExpires(t)' < clock'
    BY <1>1 DEF IInv, AccessExpires, rowVars
  <1>4. \A t \in Token : issued'[t] = None => parent'[t] = None
    BY <1>1 DEF IInv, rowVars
  <1>5. ASSUME /\ TypeOK'
               /\ \A s \in Req : Presents(s)' /\ Spends(s)'
               /\ \A q, s \in Req :
                    fresh'[q] # None /\ fresh'[q] = fresh'[s] => q = s
        PROVE  IInv'
    BY <1>2, <1>3, <1>4, <1>5 DEF IInv
  <1>6. CASE \E t \in Token \cup {None} : StartRefresh(r, t)
    BY <1>1, <1>5, <1>6, AuthAssumption
    DEF IInv, TypeOK, Presents, Spends, Issued, rowVars, StartRefresh, Goto
  <1>7. CASE \E t \in Token : Verify(r, t)
    BY <1>1, <1>5, <1>7, AuthAssumption
    DEF IInv, TypeOK, Presents, Spends, Issued, rowVars, Verify, Goto
  <1>8. CASE SelectForUpdate(r)
    BY <1>1, <1>5, <1>8, AuthAssumption
    DEF IInv, TypeOK, Presents, Spends, Issued, rowVars, SelectForUpdate, Goto
  <1>9. CASE BeginReuse(r) \/ BeginLogout(r)
    BY <1>1, <1>5, <1>9
    DEF IInv, TypeOK, Presents, Spends, Issued, rowVars, BeginReuse, BeginLogout,
        LiveRows, Goto
  <1>10. CASE Rotate(r)
    BY <1>1, <1>5, <1>10, AuthAssumption
    DEF IInv, TypeOK, Presents, Spends, Issued, rowVars, Rotate, NewPair,
        Unissued, Goto
  <1>11. CASE RevokeRow(r)
    BY <1>1, <1>5, <1>11, AuthAssumption
    DEF IInv, TypeOK, Presents, Spends, Issued, rowVars, RevokeRow
  <1>12. CASE InsertDenied(r)
    BY <1>1, <1>5, <1>12
    DEF IInv, TypeOK, Presents, Spends, Issued, rowVars, InsertDenied, Goto
  <1> QED BY <1>6, <1>7, <1>8, <1>9, <1>10, <1>11, <1>12

\* A login starts a chain of one token.
LEMMA LoginPreserves ==
  ASSUME IInv, NEW t \in Token, Login(t)
  PROVE  IInv'
  <1>1. t \notin Issued /\ parent[t] = None /\ \A r \in Req : fresh[r] # t
    BY DEF IInv, Login, NewPair, Unissued, Issued
  <1>2. Issued' = Issued \cup {t}
    BY AuthAssumption DEF IInv, TypeOK, Login, Issued
  <1>3. TypeOK'
    BY <1>2 DEF IInv, TypeOK, Login
  <1>4. FamilyIsChain'
    <2>1. \A u \in Issued : parent[u] # t
      BY <1>1, AuthAssumption DEF IInv, FamilyIsChain
    <2>2. /\ UNCHANGED <<used, parent>> /\ t \notin used
          /\ family' = [family EXCEPT ![t] = t]
      BY <1>1 DEF IInv, TypeOK, Login
    <2>3. \A x \in Issued : family'[x] = family[x]
      BY <1>1, <2>2 DEF IInv, TypeOK, Issued
    <2>4. \A x \in Issued' : x \in used' <=> \E u \in Issued' : parent'[u] = x
      <3>1. None \notin Issued /\ None # t
        BY AuthAssumption DEF Issued
      <3> QED BY <1>1, <1>2, <2>1, <2>2, <3>1 DEF IInv, FamilyIsChain
    <2>5. \A x, u \in Issued' : parent'[x] # None /\ parent'[x] = parent'[u] => x = u
      BY <1>1, <1>2, <2>2 DEF IInv, FamilyIsChain
    <2>6. \A x \in Issued' : parent'[x] # None =>
            parent'[x] \in Issued' /\ family'[parent'[x]] = family'[x]
      BY <1>1, <1>2, <2>2, <2>3 DEF IInv, FamilyIsChain
    <2> QED BY <2>4, <2>5, <2>6 DEF FamilyIsChain
  <1>5. \A r \in Req : Presents(r)' /\ Spends(r)'
    BY <1>1, <1>2 DEF IInv, TypeOK, Presents, Spends, Login
  <1>6. \A u \in loggedOut' \ denylist' : AccessExpires(u)' < clock'
    BY <1>1 DEF IInv, TypeOK, AccessExpires, Login
  <1>7. \A u \in Token : issued'[u] = None => parent'[u] = None
    BY AuthAssumption DEF IInv, TypeOK, Login
  <1> QED
    BY <1>3, <1>4, <1>5, <1>6, <1>7 DEF IInv, Login

\* A rotation appends one token to the chain: the lock kept the spent token
\* without a successor until now.
LEMMA CommitRotatePreserves ==
  ASSUME IInv, NEW r \in Req, CommitRotate(r)
  PROVE  IInv'
  <1> DEFINE x == tok[r]  y == fresh[r]
  <1>1. /\ x \in Issued /\ x \notin used \cup revoked /\ lock[x] = r
        /\ y \in Token /\ y \notin Issued /\ parent[y] = None
    BY DEF IInv, TypeOK, CommitRotate, Presents, Spends, Issued
  <1>2. Issued' = Issued \cup {y}
    BY <1>1, AuthAssumption DEF IInv, TypeOK, CommitRotate, Issued
  <1>3. \A s \in Req : s # r => /\ pc'[s] = pc[s] /\ tok'[s] = tok[s]
                               /\ fresh'[s] = fresh[s]
    BY DEF IInv, TypeOK, CommitRotate, End
  <1>4. pc'[r] = "idle" /\ tok'[r] = None /\ fresh'[r] = None
    BY DEF IInv, TypeOK, CommitRotate, End
  <1>5. TypeOK'
    BY <1>1, <1>2 DEF IInv, TypeOK, CommitRotate, End, Issued
  <1>6. FamilyIsChain'
    <2>1. parent' = [parent EXCEPT ![y] = x] /\ used' = used \cup {x}
      BY DEF CommitRotate
    <2>2. family' = [family EXCEPT ![y] = family[x]]
      BY DEF CommitRotate
    <2>3. \A u \in Issued : parent[u] # x
      BY <1>1 DEF IInv, FamilyIsChain
    <2>4. \A u \in Issued : parent[u] # y
      BY <1>1, AuthAssumption DEF IInv, FamilyIsChain
    <2> QED
      BY <1>1, <1>2, <2>1, <2>2, <2>3, <2>4, AuthAssumption
      DEF IInv, TypeOK, FamilyIsChain
  <1>7. \A s \in Req : Presents(s)'
    BY <1>1, <1>2, <1>3, <1>4
    DEF IInv, TypeOK, Presents, CommitRotate, End, Issued
  <1>8. \A s \in Req : Spends(s)'
    <2>1. \A s \in Req : s # r /\ pc[s] = "rotated" => tok[s] # x
      BY <1>1 DEF IInv, Presents
    <2>2. \A s \in Req : s # r /\ fresh[s] # None => fresh[s] # y
      BY <1>1 DEF IInv
    <2> QED
      BY <1>1, <1>3, <1>4, <2>1, <2>2 DEF IInv, TypeOK, Spends, CommitRotate
  <1>9. \A q, s \in Req : fresh'[q] # None /\ fresh'[q] = fresh'[s] => q = s
    BY <1>3, <1>4 DEF IInv
  <1>10. \A u \in loggedOut' \ denylist' : AccessExpires(u)' < clock'
    BY <1>1 DEF IInv, TypeOK, AccessExpires, CommitRotate
  <1>11. \A u \in Token : issued'[u] = None => parent'[u] = None
    BY <1>1, AuthAssumption DEF IInv, TypeOK, CommitRotate
  <1> QED
    BY <1>5, <1>6, <1>7, <1>8, <1>9, <1>10, <1>11 DEF IInv

\* The commit of a family UPDATE revokes rows no rotation has locked.
LEMMA CommitRevocationPreserves ==
  ASSUME IInv, NEW r \in Req, CommitReuse(r) \/ CommitLogout(r)
  PROVE  IInv'
  <1>1. /\ UNCHANGED <<clock, issued, family, parent, used, faults>>
        /\ revoked' = revoked \cup Changed(r) /\ End(r)
    BY DEF CommitReuse, CommitLogout
  <1>2. \A s \in Req : s # r => /\ pc'[s] = pc[s] /\ tok'[s] = tok[s]
                               /\ fresh'[s] = fresh[s]
    BY <1>1 DEF IInv, TypeOK, End
  <1>3. pc'[r] = "idle" /\ tok'[r] = None /\ fresh'[r] = None
    BY <1>1 DEF IInv, TypeOK, End
  <1>4. /\ denylist' \subseteq loggedOut' /\ loggedOut' \subseteq Issued
        /\ loggedOut' \ denylist' \subseteq loggedOut \ denylist
    BY DEF IInv, TypeOK, Presents, CommitReuse, CommitLogout
  <1>5. TypeOK'
    BY <1>1, <1>4 DEF IInv, TypeOK, End, Issued, Changed
  <1>6. FamilyIsChain'
    BY <1>1 DEF IInv, FamilyIsChain, Issued
  <1>7. \A s \in Req : Presents(s)'
    BY <1>1, <1>2, <1>3 DEF IInv, TypeOK, Presents, End, Issued
  <1>8. \A s \in Req : Spends(s)'
    <2>1. \A s \in Req : s # r /\ pc[s] = "rotated" => tok[s] \notin Changed(r)
      BY DEF IInv, Presents, Changed
    <2> QED
      BY <1>1, <1>2, <1>3, <2>1 DEF IInv, Spends
  <1>9. \A q, s \in Req : fresh'[q] # None /\ fresh'[q] = fresh'[s] => q = s
    BY <1>2, <1>3 DEF IInv
  <1>10. \A u \in loggedOut' \ denylist' : AccessExpires(u)' < clock'
    BY <1>1, <1>4 DEF IInv, AccessExpires
  <1> QED
    BY <1>1, <1>5, <1>6, <1>7, <1>8, <1>9, <1>10 DEF IInv

\* The purge removes expired tokens only, and time only makes more of them.
LEMMA ClockPreserves ==
  ASSUME IInv, Purge \/ Tick
  PROVE  IInv'
  <1>1. UNCHANGED <<rowVars, loggedOut, lock, pc, tok, fresh, todo, faults>>
    BY DEF Purge, Tick
  <1>2. TypeOK'
    <2>1. Issued' = Issued
      BY <1>1 DEF Issued, rowVars
    <2>2. clock' \in 0..MaxClock /\ denylist' \subseteq denylist
      BY AuthAssumption DEF IInv, TypeOK, Purge, purgeDenylist, Tick
    <2> QED BY <1>1, <2>1, <2>2 DEF IInv, TypeOK, rowVars
  <1>5. ASSUME NEW u \in loggedOut', u \notin denylist'
        PROVE  AccessExpires(u)' < clock'
    <2>1. /\ u \in loggedOut /\ issued'[u] = issued[u] /\ issued[u] \in Int
          /\ clock \in Int /\ clock' \in Int /\ clock <= clock'
      BY <1>1, <1>5 DEF IInv, TypeOK, Issued, rowVars, Purge, purgeDenylist, Tick
    <2>2. AccessExpires(u) < clock
      BY <1>5, <2>1, AuthAssumption DEF IInv, AccessExpires, Purge, purgeDenylist, Tick
    <2> QED BY <2>1, <2>2, AuthAssumption DEF AccessExpires
  <1>3. FamilyIsChain'
    BY <1>1 DEF IInv, FamilyIsChain, Issued, rowVars
  <1>4. \A r \in Req : Presents(r)' /\ Spends(r)'
    BY <1>1 DEF IInv, Presents, Spends, Issued, rowVars
  <1> QED BY <1>1, <1>2, <1>3, <1>4, <1>5 DEF IInv, rowVars

\* Every step of the specification keeps the inductive invariant.
LEMMA NextIInv ==
  ASSUME IInv, [Next]_vars
  PROVE  IInv'
  <1>1. CASE \E t \in Token : Login(t)
    BY <1>1, LoginPreserves
  <1>2. CASE \E r \in Req, t \in Token \cup {None} : StartRefresh(r, t)
    BY <1>2, QuietPreserves
  <1>3. CASE \E r \in Req, t \in Token : Verify(r, t)
    BY <1>3, QuietPreserves
  <1>4. ASSUME NEW r \in Req, RefreshStep(r)
        PROVE  IInv'
    <2>1. CASE RefreshUnknown(r) \/ RefuseRefresh(r)
      <3>1. faults' \in 0..MaxFaults
        BY <2>1 DEF IInv, TypeOK, RefreshUnknown, RefuseRefresh
      <3> QED BY <2>1, <3>1, EndPreserves DEF RefreshUnknown, RefuseRefresh
    <2>2. CASE SelectForUpdate(r) \/ BeginReuse(r) \/ Rotate(r) \/ RevokeRow(r)
      BY <2>2, QuietPreserves
    <2>3. CASE CommitRotate(r)
      BY <2>3, CommitRotatePreserves
    <2>4. CASE CommitReuse(r)
      BY <2>4, CommitRevocationPreserves
    <2> QED BY <1>4, <2>1, <2>2, <2>3, <2>4 DEF RefreshStep
  <1>5. ASSUME NEW r \in Req, AccessStep(r)
        PROVE  IInv'
    <2>1. CASE DenyAccess(r) \/ Accept(r)
      <3>1. faults' \in 0..MaxFaults
        BY <2>1 DEF IInv, TypeOK, DenyAccess, Accept
      <3> QED BY <2>1, <3>1, EndPreserves DEF DenyAccess, Accept
    <2>2. CASE BeginLogout(r) \/ InsertDenied(r)
      BY <2>2, QuietPreserves
    <2>3. CASE CommitLogout(r)
      BY <2>3, CommitRevocationPreserves
    <2> QED BY <1>5, <2>1, <2>2, <2>3 DEF AccessStep
  <1>6. ASSUME NEW r \in Req, Throw(r)
        PROVE  IInv'
    <2>1. faults' \in 0..MaxFaults
      BY <1>6, AuthAssumption DEF IInv, TypeOK, Throw
    <2> QED BY <1>6, <2>1, EndPreserves DEF Throw
  <1>7. CASE Purge \/ Tick
    BY <1>7, ClockPreserves
  <1>8. CASE UNCHANGED vars
    BY <1>8
    DEF vars, rowVars, IInv, TypeOK, FamilyIsChain, Presents, Spends, Issued,
        AccessExpires
  <1> QED
    BY <1>1, <1>2, <1>3, <1>4, <1>5, <1>6, <1>7, <1>8 DEF Next

\* The inductive invariant holds in every reachable state.
THEOREM AuthInvariant == Spec => []IInv
  BY InitIInv, NextIInv, PTL DEF Spec

\* Rotation builds chains (refresh, auth.service.ts): no token ever has two
\* successors, whatever refreshes run at once.
THEOREM AuthFamilyIsChain == Spec => []FamilyIsChain
  <1>1. IInv => FamilyIsChain
    BY DEF IInv
  <1> QED BY <1>1, AuthInvariant, PTL

\* Only live tokens rotate: the row lock keeps the token unspent and
\* unrevoked from the SELECT to the COMMIT.
THEOREM AuthOnlyLiveTokensRotate == Spec => OnlyLiveTokensRotate
  <1> DEFINE A == \A t \in Token :
                    t \in used' \ used => t \notin revoked /\ t \notin revoked'
  <1>1. ASSUME IInv, [Next]_vars PROVE [A]_vars
    <2>1. CASE \E r \in Req : CommitRotate(r)
      BY <1>1, <2>1 DEF IInv, Spends, CommitRotate
    <2>2. CASE used' = used
      BY <2>2
    <2>3. (\E r \in Req : CommitRotate(r)) \/ used' = used
      BY <1>1
      DEF Next, vars, rowVars, Login, StartRefresh, Verify, RefreshStep, AccessStep,
          RefreshUnknown, SelectForUpdate, RefuseRefresh, BeginReuse, Rotate,
          RevokeRow, CommitReuse, DenyAccess, Accept, BeginLogout, InsertDenied,
          CommitLogout, Throw, Purge, Tick
    <2> QED BY <2>1, <2>2, <2>3
  <1> QED BY <1>1, AuthInvariant, PTL DEF Spec, OnlyLiveTokensRotate

\* A logged-out token passes the denylist check only after its exp
\* (authenticate against logout and purgeDenylist).
THEOREM AuthLogoutHolds == Spec => LogoutHolds
  <1> DEFINE A == \A r \in Req :
                    (Accept(r) /\ tok[r] \in loggedOut)
                      => clock > AccessExpires(tok[r])
  <1>1. ASSUME IInv PROVE A
    <2> SUFFICES ASSUME NEW r \in Req, Accept(r), tok[r] \in loggedOut
                 PROVE  clock > AccessExpires(tok[r])
      OBVIOUS
    <2>1. tok[r] \in loggedOut \ denylist
      BY DEF Accept
    <2>2. /\ issued[tok[r]] \in Int /\ clock \in Int
          /\ AccessExpires(tok[r]) < clock
      BY <1>1, <2>1 DEF IInv, TypeOK, Issued
    <2> QED BY <2>2, AuthAssumption DEF AccessExpires
  <1> QED BY <1>1, AuthInvariant, PTL DEF LogoutHolds
=============================================================================
