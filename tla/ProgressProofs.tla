--------------------------- MODULE ProgressProofs ---------------------------
(* What MCProgress checks of retried transactions, the job queue, the pool  *)
(* under a changing password, walks through pages and resumed uploads, for  *)
(* every value of the constants.                                            *)
EXTENDS TxRetry, JobQueue, PasswordRotation, Pages, Resume,
        FiniteSetTheorems, SequenceTheorems, NaturalsInduction, TLAPS

-----------------------------------------------------------------------------
(* Retry of serialization failures *)

\* What RetryInv says of one call.
CallInv(t) ==
  /\ tpc[t] \in {"select", "update", "commit", "gave_up"} => t \notin applied
  /\ tpc[t] = "select" => attempt[t] <= version + 1
  /\ tpc[t] \in {"update", "commit"} =>
       attempt[t] <= snapshot[t] + 1 /\ snapshot[t] <= version
  /\ (tpc[t] = "update" /\ snapshot[t] = version) => seen[t] = balance
  /\ tpc[t] = "commit" =>
       rowLock = t /\ snapshot[t] = version /\ seen[t] = balance

\* RetryInv, call by call.
LEMMA InvParts ==
  RetryInv <=> /\ RetryTypeOK /\ version = Cardinality(applied)
               /\ (\A t \in Tx : CallInv(t)) /\ NobodyGivesUp
  BY DEF RetryInv, CallInv

\* At first no call has begun.
LEMMA RetryInitInv == RetryInit => RetryInv
  <1> SUFFICES ASSUME RetryInit PROVE RetryInv
    OBVIOUS
  <1>1. RetryTypeOK
    BY RetryAssumption DEF RetryInit, RetryTypeOK
  <1>2. version = Cardinality(applied)
    BY FS_EmptySet DEF RetryInit
  <1>3. ASSUME NEW t \in Tx PROVE CallInv(t)
    BY RetryAssumption DEF RetryInit, CallInv
  <1>4. NobodyGivesUp
    BY DEF RetryInit, NobodyGivesUp
  <1> QED BY <1>1, <1>2, <1>3, <1>4, InvParts

\* A caller that runs out of attempts has met as many commits of others.
LEMMA AttemptsArePaid ==
  ASSUME RetryInv, NEW t \in Tx, giveUp(t)
  PROVE  maxAttempts < Cardinality(Tx)
  <1>1. t \notin applied /\ applied \subseteq Tx /\ version = Cardinality(applied)
    BY DEF RetryInv, RetryTypeOK, giveUp
  <1>2. maxAttempts <= version
    BY RetryAssumption DEF RetryInv, RetryTypeOK, giveUp
  <1>3. IsFiniteSet(applied) /\ IsFiniteSet(applied \cup {t})
    BY <1>1, RetryAssumption, FS_Subset, FS_AddElement
  <1>4. Cardinality(applied \cup {t}) = Cardinality(applied) + 1
    BY <1>1, <1>3, FS_AddElement
  <1>5. Cardinality(applied \cup {t}) <= Cardinality(Tx)
    BY <1>1, RetryAssumption, FS_Subset
  <1>6. Cardinality(Tx) \in Nat /\ Cardinality(applied) \in Nat
    BY <1>3, RetryAssumption, FS_CardinalityType
  <1> QED BY <1>1, <1>2, <1>4, <1>5, <1>6, RetryAssumption

\* The count of commits follows the set of callers that committed.
LEMMA CommitCounts ==
  ASSUME RetryInv, NEW t \in Tx, commit(t)
  PROVE  version' = Cardinality(applied')
  <1>1. t \notin applied /\ IsFiniteSet(applied) /\ version = Cardinality(applied)
    BY RetryAssumption, FS_Subset DEF RetryInv, RetryTypeOK, commit
  <1>2. Cardinality(applied \cup {t}) = Cardinality(applied) + 1
    BY <1>1, FS_AddElement
  <1> QED BY <1>1, <1>2 DEF commit

\* A step of a call, or its failure, keeps the types.
LEMMA StepKeepsTypes ==
  ASSUME RetryTypeOK, NEW t \in Tx, RetryStep(t) \/ fail(t)
  PROVE  RetryTypeOK'
  <1> USE RetryAssumption DEF RetryTypeOK
  <1>1. CASE selectBalance(t)
    BY <1>1 DEF selectBalance
  <1>2. CASE updateBalance(t)
    BY <1>2 DEF updateBalance
  <1>3. CASE retry(t)
    BY <1>3 DEF retry
  <1>4. CASE giveUp(t)
    BY <1>4 DEF giveUp
  <1>5. CASE commit(t)
    <2>1. tpc' \in [Tx -> {"select", "update", "commit", "done", "gave_up", "failed"}]
      BY <1>5 DEF commit
    <2>2. balance' \in Int /\ version' \in Nat /\ rowLock' = Nobody
          /\ applied' \subseteq Tx
      BY <1>5 DEF commit
    <2> QED BY <1>5, <2>1, <2>2 DEF commit
  <1>6. CASE fail(t)
    BY <1>6 DEF fail
  <1> QED BY <1>1, <1>2, <1>3, <1>4, <1>5, <1>6 DEF RetryStep

\* A step of t keeps what is known of every call u.
LEMMA StepKeepsCalls ==
  ASSUME RetryInv, NEW t \in Tx, NEW u \in Tx, RetryStep(t) \/ fail(t)
  PROVE  CallInv(u)'
  <1>1. RetryTypeOK /\ CallInv(t) /\ CallInv(u)
    BY InvParts
  <1> USE <1>1, RetryAssumption DEF RetryTypeOK, CallInv
  <1>2. CASE selectBalance(t)
    BY <1>2 DEF selectBalance
  <1>3. CASE updateBalance(t)
    BY <1>3 DEF updateBalance
  <1>4. CASE retry(t)
    BY <1>4 DEF retry
  <1>5. CASE giveUp(t)
    BY <1>5 DEF giveUp
  <1>6. CASE commit(t)
    <2>1. CASE u = t
      BY <1>6, <2>1 DEF commit
    <2>2. CASE u # t
      BY <1>6, <2>2 DEF commit
    <2> QED BY <2>1, <2>2
  <1>7. CASE fail(t)
    BY <1>7 DEF fail
  <1> QED BY <1>2, <1>3, <1>4, <1>5, <1>6, <1>7 DEF RetryStep

\* Nor does a step make a call give up that has attempts left.
LEMMA StepKeepsAttempts ==
  ASSUME RetryInv, NEW t \in Tx, RetryStep(t) \/ fail(t)
  PROVE  NobodyGivesUp'
  <1>1. RetryTypeOK /\ NobodyGivesUp
    BY DEF RetryInv
  <1>2. CASE giveUp(t)
    <2>1. maxAttempts < Cardinality(Tx)
      BY <1>2, AttemptsArePaid
    <2>2. Cardinality(Tx) \in Nat
      BY RetryAssumption, FS_CardinalityType
    <2> QED BY <2>1, <2>2, RetryAssumption DEF NobodyGivesUp
  <1>3. CASE ~giveUp(t)
    <2>1. \A u \in Tx : tpc'[u] = "gave_up" => tpc[u] = "gave_up"
      BY <1>1, <1>3 DEF RetryTypeOK, RetryStep, fail,
                        selectBalance, updateBalance, retry, commit
    <2> QED BY <1>1, <2>1 DEF NobodyGivesUp
  <1> QED BY <1>2, <1>3

\* So every step keeps RetryInv.
LEMMA RetryNextInv == RetryInv /\ [RetryNext]_retryVars => RetryInv'
  <1> SUFFICES ASSUME RetryInv, [RetryNext]_retryVars PROVE RetryInv'
    OBVIOUS
  <1>1. CASE UNCHANGED retryVars
    BY <1>1 DEF retryVars, RetryInv, RetryTypeOK, NobodyGivesUp
  <1>2. CASE RetryNext
    <2>1. PICK t \in Tx : RetryStep(t) \/ fail(t)
      BY <1>2 DEF RetryNext
    <2>2. version' = Cardinality(applied')
      <3>1. CASE commit(t)
        BY <3>1, CommitCounts
      <3>2. CASE ~commit(t)
        <4>1. UNCHANGED <<version, applied>>
          BY <2>1, <3>2 DEF RetryStep, fail, selectBalance, updateBalance, retry, giveUp
        <4> QED BY <4>1 DEF RetryInv
      <3> QED BY <3>1, <3>2
    <2>3. RetryTypeOK'
      BY <2>1, StepKeepsTypes DEF RetryInv
    <2>4. \A u \in Tx : CallInv(u)'
      BY <2>1, StepKeepsCalls
    <2>5. NobodyGivesUp'
      BY <2>1, StepKeepsAttempts
    <2> QED BY <2>2, <2>3, <2>4, <2>5 DEF RetryInv, CallInv
  <1> QED BY <1>1, <1>2

\* withRetry (concurrency/lib.ts): in every reachable state the invariant of
\* snapshots, locks and attempts holds.
THEOREM RetryInvariant == RetrySpec => []RetryInv
  BY RetryInitInv, RetryNextInv, PTL DEF RetrySpec

\* lib.ts, maxAttempts: with at most maxAttempts callers of withRetry on a row,
\* none of them exhausts its attempts, however their transactions conflict.
THEOREM RetryNobodyGivesUp == RetrySpec => []NobodyGivesUp
  <1>1. RetryInv => NobodyGivesUp
    BY DEF RetryInv
  <1> QED BY <1>1, RetryInvariant, PTL

\* No lost update: the retried read-modify-write transactions of demo-retry.ts
\* implement atomic adjustments, whatever fails and however often they retry.
THEOREM RetryImplementsAdjust == RetrySpec => ImplementsAdjust
  <1>1. RetryInit => Atomic!Init
    BY DEF RetryInit, Atomic!Init
  <1>2. ASSUME RetryInv, [RetryNext]_retryVars
        PROVE  [Atomic!Next]_<<balance, applied>>
    <2>1. CASE UNCHANGED retryVars
      BY <2>1 DEF retryVars
    <2>2. CASE RetryNext
      <3>1. PICK t \in Tx : RetryStep(t) \/ fail(t)
        BY <2>2 DEF RetryNext
      <3>2. CASE commit(t)
        <4>1. t \notin applied /\ seen[t] = balance
          BY <1>2, <3>2 DEF RetryInv, commit
        <4>2. Atomic!Adjust(t)
          BY <3>2, <4>1 DEF commit, Atomic!Adjust
        <4> QED BY <4>2 DEF Atomic!Next
      <3>3. CASE ~commit(t)
        BY <3>1, <3>3 DEF RetryStep, fail, selectBalance, updateBalance, retry, giveUp
      <3> QED BY <3>2, <3>3
    <2> QED BY <1>2, <2>1, <2>2
  <1> QED BY <1>1, <1>2, RetryInvariant, PTL
          DEF RetrySpec, ImplementsAdjust, Atomic!Spec

-----------------------------------------------------------------------------
(* Job queue workers *)

\* At first no worker holds a job.
LEMMA JobInitInv == JobInit => JobInv
BY JobQueueAssumption DEF JobInit, JobInv, JobTypeOK, ProcessedOnce

\* The row's lock goes with the transaction, whether it commits or dies.
LEMMA JobNextInv == JobInv /\ [JobNext]_jobVars => JobInv'
<1> SUFFICES ASSUME JobInv, [JobNext]_jobVars PROVE JobInv'
  OBVIOUS
<1> USE JobQueueAssumption DEF JobInv, JobTypeOK, ProcessedOnce
<1>1. ASSUME NEW j \in Job, Enqueue(j) PROVE JobInv'
  BY <1>1 DEF Enqueue
<1>2. ASSUME NEW w \in Worker, ClaimOne(w) PROVE JobInv'
  BY <1>2 DEF ClaimOne, New
<1>3. ASSUME NEW w \in Worker, ClaimEmpty(w) PROVE JobInv'
  BY <1>3 DEF ClaimEmpty
<1>4. ASSUME NEW w \in Worker, Finish(w) PROVE JobInv'
  <2>1. /\ job[w] \in Job /\ holder[job[w]] = w /\ status[job[w]] = "new"
        /\ processed[job[w]] = 0
    BY <1>4 DEF Finish
  <2>2. /\ holder' = [j \in Job |-> IF holder[j] = w THEN None ELSE holder[j]]
        /\ job' = [job EXCEPT ![w] = None]
        /\ wpc' \in {[wpc EXCEPT ![w] = "claim"], [wpc EXCEPT ![w] = "failed"]}
        /\ faults' \in 0..MaxFaults
    BY <1>4 DEF Finish, Release
  <2>3. JobTypeOK' /\ ProcessedOnce'
    BY <1>4, <2>1, <2>2 DEF Finish
  <2>4. QED
    BY <1>4, <2>1, <2>2, <2>3 DEF Finish
<1>5. ASSUME NEW w \in Worker, Count(w) PROVE JobInv'
  BY <1>5 DEF Count
<1>6. ASSUME NEW w \in Worker, WorkerFails(w) PROVE JobInv'
  BY <1>6 DEF WorkerFails, Release
<1>7. CASE UNCHANGED jobVars
  BY <1>7 DEF jobVars
<1>8. QED
  BY <1>1, <1>2, <1>3, <1>4, <1>5, <1>6, <1>7 DEF JobNext, WorkerStep

\* SKIP LOCKED with the lock kept until COMMIT: whatever workers do or die
\* of, a job is processed once and by one worker.
THEOREM JobProcessedOnce == JobSpec => []ProcessedOnce
<1>1. JobInv => ProcessedOnce
  BY DEF JobInv
<1>2. QED
  BY JobInitInv, JobNextInv, <1>1, PTL DEF JobSpec

-----------------------------------------------------------------------------
(* Password rotation, PgBouncer and the pool *)

\* The first connection of a new API is still to come.
LEMMA PasswordInitInv == PasswordInit => PasswordInv
  <1> SUFFICES ASSUME PasswordInit PROVE PasswordInv
    OBVIOUS
  <1>1. 1 \in Password
    BY PasswordAssumption DEF Password
  <1>2. PasswordTypeOK
    BY <1>1 DEF PasswordInit, PasswordTypeOK, Link, Gone
  <1>3. HandsCurrent /\ LentIsUsed
    BY DEF PasswordInit, HandsCurrent, LentIsUsed, Gone
  <1> QED BY <1>2, <1>3 DEF PasswordInv

\* A connection that moves on keeps its password and its history; one that ends
\* forgets both.
LEMMA LinkMoves ==
  ASSUME NEW X, NEW states, NEW pool \in [X -> Link(states)], NEW x \in X, NEW where \in states
  PROVE  /\ Moved(pool, x, where) \in [X -> Link(states)]
         /\ Moved(pool, x, where)[x].at = where
         /\ Moved(pool, x, where)[x].by = pool[x].by
         /\ Moved(pool, x, where)[x].spared = pool[x].spared
         /\ \A y \in X : y # x => Moved(pool, x, where)[y] = pool[y]
  BY DEF Moved, Link

LEMMA LinkEnds ==
  ASSUME NEW X, NEW states, NEW pool \in [X -> Link(states)], NEW x \in X, "none" \in states
  PROVE  /\ [pool EXCEPT ![x] = Gone] \in [X -> Link(states)]
         /\ [pool EXCEPT ![x] = Gone][x].at = "none"
         /\ \A y \in X : y # x => [pool EXCEPT ![x] = Gone][y] = pool[y]
  BY DEF Gone, Link

LEMMA LinkBegins ==
  ASSUME NEW X, NEW states, NEW pool \in [X -> Link(states)], NEW x \in X, "login" \in states,
         rolePassword \in Password
  PROVE  /\ [pool EXCEPT ![x] = Begun] \in [X -> Link(states)]
         /\ [pool EXCEPT ![x] = Begun][x].at = "login"
         /\ [pool EXCEPT ![x] = Begun][x].by = rolePassword
         /\ \A y \in X : y # x => [pool EXCEPT ![x] = Begun][y] = pool[y]
  BY DEF Begun, Link

\* The end of a rotation, good or bad: connections end or are marked.
Marked(X, pool, End, Spared) ==
  [x \in X |-> IF x \in End THEN Gone ELSE [pool[x] EXCEPT !.spared = (x \in Spared)]]

LEMMA LinkMarks ==
  ASSUME NEW X, NEW states, NEW pool \in [X -> Link(states)], "none" \in states,
         NEW End \in SUBSET X, NEW Spared \in SUBSET X
  PROVE  /\ Marked(X, pool, End, Spared) \in [X -> Link(states)]
         /\ \A x \in End : Marked(X, pool, End, Spared)[x].at = "none"
         /\ \A x \in X : x \notin End =>
              /\ Marked(X, pool, End, Spared)[x].at = pool[x].at
              /\ Marked(X, pool, End, Spared)[x].spared <=> x \in Spared
  <1> DEFINE new == Marked(X, pool, End, Spared)
  <1>1. ASSUME NEW x \in End PROVE new[x] \in Link(states) /\ new[x].at = "none"
    BY <1>1 DEF Gone, Link, Marked
  <1>2. ASSUME NEW x \in X, x \notin End
        PROVE  /\ new[x] \in Link(states) /\ new[x].at = pool[x].at
               /\ new[x].spared <=> x \in Spared
    <2> DEFINE yes == (x \in Spared)
    <2>1. new[x] = [pool[x] EXCEPT !.spared = yes]
      BY <1>2 DEF Marked
    <2>2. pool[x] \in Link(states)
      BY <1>2
    <2>3. yes \in BOOLEAN
      OBVIOUS
    <2> HIDE DEF yes, new
    <2>4. new[x] \in Link(states) /\ new[x].at = pool[x].at /\ new[x].spared = yes
      BY <2>1, <2>2, <2>3 DEF Link
    <2>5. new[x].spared <=> x \in Spared
      BY <2>4, Zenon DEF yes
    <2> QED BY <2>4, <2>5
  <1>3. DOMAIN new = X /\ new = [x \in X |-> new[x]]
    BY DEF Marked
  <1> HIDE DEF new
  <1>4. \A x \in X : new[x] \in Link(states)
    BY <1>1, <1>2
  <1>5. new \in [X -> Link(states)]
    BY <1>3, <1>4
  <1> QED BY <1>1, <1>2, <1>5 DEF new

\* What a transaction has stays its own when no client begins or ends one and the
\* backends lent out stay up.
LEMMA LentStays ==
  ASSUME PasswordInv, UNCHANGED lent,
         \A c \in Conn : conn'[c].at = "busy" <=> conn[c].at = "busy",
         \A s \in Server : backend[s].at = "up" /\ Lent(s) => backend'[s].at = "up"
  PROVE  LentIsUsed'
  <1>1. \A l \in lent : /\ l[1] \in Conn /\ l[2] \in Server
                        /\ <<l[1], l[2]>> \in lent
    BY DEF PasswordInv, PasswordTypeOK
  <1>2. \A l \in lent : Lent(l[2])
    BY <1>1 DEF Lent
  <1>3. \A l \in lent' : conn'[l[1]].at = "busy" /\ backend'[l[2]].at = "up"
    BY <1>1, <1>2 DEF PasswordInv, LentIsUsed
  <1> QED BY <1>3 DEF PasswordInv, LentIsUsed

\* A step of rotate.sh: the one that ends well closes what is up and marks what
\* authenticates, the one that is killed marks everything.
LEMMA ScriptKeepsPassword ==
  ASSUME PasswordInv, RotateStep
  PROVE  PasswordInv'
  <1> DEFINE CStates == {"none", "login", "proof", "wait", "busy", "open"}
             SStates == {"none", "login", "up"}
  <1>1. CASE terminateBackends
    <2> DEFINE Up == {s \in Server : backend[s].at = "up"}
               Login == {s \in Server : backend[s].at = "login"}
               Busy == {c \in Conn : conn[c].at = "busy"}
               Auth == {c \in Conn : conn[c].at \in {"login", "proof"}}
    <2>1. backend' = Marked(Server, backend, Up, Login)
      BY <1>1 DEF terminateBackends, Marked
    <2>2. conn' = Marked(Conn, conn, Busy, Auth)
      BY <1>1 DEF terminateBackends, Marked
    <2>3. backend \in [Server -> Link(SStates)] /\ conn \in [Conn -> Link(CStates)]
      BY DEF PasswordInv, PasswordTypeOK
    <2>4. /\ backend' \in [Server -> Link(SStates)]
          /\ \A s \in Up : backend'[s].at = "none"
          /\ \A s \in Server : s \notin Up =>
                                    /\ backend'[s].at = backend[s].at
                                    /\ backend'[s].spared <=> s \in Login
      <3>1. Up \in SUBSET Server /\ Login \in SUBSET Server /\ "none" \in SStates
        OBVIOUS
      <3> HIDE DEF Up, Login, SStates
      <3> QED BY <2>1, <2>3, <3>1, LinkMarks
    <2>5. /\ conn' \in [Conn -> Link(CStates)]
          /\ \A c \in Busy : conn'[c].at = "none"
          /\ \A c \in Conn : c \notin Busy => conn'[c].at = conn[c].at
      <3>1. Busy \in SUBSET Conn /\ Auth \in SUBSET Conn /\ "none" \in CStates
        OBVIOUS
      <3> HIDE DEF Busy, Auth, CStates
      <3>2. /\ Marked(Conn, conn, Busy, Auth) \in [Conn -> Link(CStates)]
            /\ \A c \in Busy : Marked(Conn, conn, Busy, Auth)[c].at = "none"
            /\ \A c \in Conn : c \notin Busy =>
                 Marked(Conn, conn, Busy, Auth)[c].at = conn[c].at
        BY <2>3, <3>1, LinkMarks
      <3> QED BY <2>2, <3>2
    <2>6. PasswordTypeOK'
      BY <1>1, <2>4, <2>5 DEF terminateBackends, PasswordInv, PasswordTypeOK
    <2>7. \A s \in Server : backend[s].at \in SStates
      BY <2>3 DEF Link
    <2>8. \A s \in Server : backend'[s].at # "none" => backend'[s].spared
      BY <2>4, <2>7
    <2>9. \A c \in Conn : conn'[c].at # "busy"
      BY <2>5
    <2> QED
      BY <1>1, <2>6, <2>8, <2>9 DEF terminateBackends, PasswordInv, HandsCurrent, LentIsUsed
  <1>2. CASE killScript
    <2> DEFINE Up == {s \in Server : backend[s].at # "none"}
               Open == {c \in Conn : conn[c].at # "none"}
    <2>1. backend' = Marked(Server, backend, {}, Up)
      BY <1>2 DEF killScript, Marked
    <2>2. conn' = Marked(Conn, conn, {}, Open)
      BY <1>2 DEF killScript, Marked
    <2>3. backend \in [Server -> Link(SStates)] /\ conn \in [Conn -> Link(CStates)]
      BY DEF PasswordInv, PasswordTypeOK
    <2>4. /\ backend' \in [Server -> Link(SStates)]
          /\ \A s \in Server : /\ backend'[s].at = backend[s].at
                               /\ backend'[s].spared <=> s \in Up
      <3> DEFINE Ended == {}
      <3>1. /\ Up \in SUBSET Server /\ Ended \in SUBSET Server /\ "none" \in SStates
            /\ backend' = Marked(Server, backend, Ended, Up)
            /\ \A s \in Server : s \notin Ended
        BY <2>1
      <3> HIDE DEF Up, SStates, Ended
      <3>2. /\ Marked(Server, backend, Ended, Up) \in [Server -> Link(SStates)]
            /\ \A s \in Server : s \notin Ended =>
                 /\ Marked(Server, backend, Ended, Up)[s].at = backend[s].at
                 /\ Marked(Server, backend, Ended, Up)[s].spared <=> s \in Up
        BY <2>3, <3>1, LinkMarks
      <3> QED BY <3>1, <3>2
    <2>5. /\ conn' \in [Conn -> Link(CStates)]
          /\ \A c \in Conn : conn'[c].at = conn[c].at
      <3> DEFINE Ended == {}
      <3>1. /\ Open \in SUBSET Conn /\ Ended \in SUBSET Conn /\ "none" \in CStates
            /\ conn' = Marked(Conn, conn, Ended, Open)
            /\ \A c \in Conn : c \notin Ended
            /\ conn \in [Conn -> Link(CStates)]
        BY <2>2, <2>3
      <3> HIDE DEF Open, CStates, Ended
      <3>2. /\ Marked(Conn, conn, Ended, Open) \in [Conn -> Link(CStates)]
            /\ \A c \in Conn : c \notin Ended =>
                 /\ Marked(Conn, conn, Ended, Open)[c].at = conn[c].at
                 /\ Marked(Conn, conn, Ended, Open)[c].spared <=> c \in Open
        BY <3>1, LinkMarks
      <3> QED BY <3>1, <3>2
    <2>6. PasswordTypeOK'
      BY <1>2, <2>4, <2>5 DEF killScript, PasswordInv, PasswordTypeOK
    <2>7. HandsCurrent'
      BY <2>4 DEF HandsCurrent
    <2>8. LentIsUsed'
      BY <1>2, <2>4, <2>5, LentStays DEF killScript
    <2> QED BY <2>6, <2>7, <2>8 DEF PasswordInv
  <1>3. CASE alterRole \/ truncateFile \/ writeFile
    <2>1. UNCHANGED <<conn, backend, lent, keys, loginFailed>> /\ step' # "none"
      BY <1>3 DEF alterRole, truncateFile, writeFile
    <2>2. LentIsUsed' /\ HandsCurrent'
      BY <2>1 DEF PasswordInv, LentIsUsed, HandsCurrent
    <2>3. /\ rolePassword' \in Password /\ passwordFile' \in Password \cup {Empty}
          /\ newPw' \in Password /\ step' \in {"altered", "truncated", "written"}
      BY <1>3, PasswordAssumption
      DEF PasswordInv, PasswordTypeOK, alterRole, truncateFile, writeFile, Password, Empty
    <2>4. PasswordTypeOK'
      BY <2>1, <2>3 DEF PasswordInv, PasswordTypeOK
    <2> QED BY <2>2, <2>4 DEF PasswordInv
  <1> QED BY <1>1, <1>2, <1>3 DEF RotateStep

\* A step of the API's pool: PgBouncer's connections stay as they are, at most one
\* is given back.
LEMMA PoolKeepsPassword ==
  ASSUME PasswordInv, NEW c \in Conn, PoolStep(c) \/ refuse(c) \/ closeIdle(c)
  PROVE  PasswordInv'
  <1> DEFINE CStates == {"none", "login", "proof", "wait", "busy", "open"}
  <1>1. /\ UNCHANGED <<script, backend, loginFailed>> /\ conn \in [Conn -> Link(CStates)]
        /\ rolePassword \in Password
    BY DEF PoolStep, connect, readPassword, authenticate, query, finishQuery, refuse, closeIdle,
           PasswordInv, PasswordTypeOK
  <1>2. HandsCurrent'
    BY <1>1 DEF script, PasswordInv, HandsCurrent
  <1>3. keys' \in Password \cup {Empty}
    BY <1>1
    DEF PoolStep, connect, readPassword, authenticate, query, finishQuery, refuse, closeIdle,
        PasswordInv, PasswordTypeOK, Link
  <1>4. /\ conn' \in [Conn -> Link(CStates)] /\ conn'[c].at # "busy"
        /\ \A d \in Conn : d # c => conn'[d] = conn[d]
    <2>1. CASE conn' = [conn EXCEPT ![c] = Begun]
      BY <1>1, <2>1, LinkBegins
    <2>2. CASE conn' = [conn EXCEPT ![c] = Gone]
      BY <1>1, <2>2, LinkEnds
    <2>3. ASSUME NEW where \in {"proof", "wait", "open"}, conn' = Moved(conn, c, where)
          PROVE  /\ conn' \in [Conn -> Link(CStates)] /\ conn'[c].at # "busy"
                 /\ \A d \in Conn : d # c => conn'[d] = conn[d]
      <3>1. where \in CStates /\ where # "busy"
        OBVIOUS
      <3> QED BY <1>1, <2>3, <3>1, LinkMoves
    <2>4. \/ conn' = [conn EXCEPT ![c] = Begun] \/ conn' = [conn EXCEPT ![c] = Gone]
          \/ \E where \in {"proof", "wait", "open"} : conn' = Moved(conn, c, where)
      BY DEF PoolStep, connect, readPassword, authenticate, query, finishQuery, refuse, closeIdle
    <2> QED BY <2>1, <2>2, <2>3, <2>4
  <1>5. lent' \in SUBSET lent
    BY DEF PoolStep, connect, readPassword, authenticate, query, finishQuery, refuse, closeIdle
  <1>6. PasswordTypeOK'
    BY <1>1, <1>3, <1>4, <1>5 DEF script, PasswordInv, PasswordTypeOK
  <1>7. LentIsUsed'
    <2>1. CASE finishQuery(c)
      <3>1. lent' = {l \in lent : l[1] # c}
        BY <2>1 DEF finishQuery
      <3>2. \A l \in lent' : l \in lent /\ l[1] \in Conn /\ conn'[l[1]] = conn[l[1]]
        BY <1>4, <3>1 DEF PasswordInv, PasswordTypeOK
      <3>3. \A l \in lent' : conn'[l[1]].at = "busy" /\ backend'[l[2]].at = "up"
        BY <1>1, <3>2 DEF PasswordInv, LentIsUsed
      <3>4. \A d \in Conn : conn'[d].at = "busy" => \E s \in Server : <<d, s>> \in lent'
        BY <1>4, <3>1 DEF PasswordInv, LentIsUsed
      <3> QED BY <3>2, <3>3, <3>4 DEF PasswordInv, LentIsUsed
    <2>2. CASE ~finishQuery(c)
      <3>1. UNCHANGED lent /\ conn[c].at # "busy"
        BY <2>2 DEF PoolStep, connect, readPassword, authenticate, query, refuse, closeIdle
      <3> QED BY <1>1, <1>4, <3>1, LentStays
    <2> QED BY <2>1, <2>2
  <1> QED BY <1>2, <1>6, <1>7 DEF PasswordInv

\* A step of PgBouncer: Postgres expects the role's password of a new connection,
\* and a connection that opens keeps what was expected of it.
LEMMA BouncerKeepsPassword ==
  ASSUME PasswordInv, NEW s \in Server, ServerStep(s) \/ closeServer(s)
  PROVE  PasswordInv'
  <1> DEFINE CStates == {"none", "login", "proof", "wait", "busy", "open"}
             SStates == {"none", "login", "up"}
  <1>0. /\ conn \in [Conn -> Link(CStates)] /\ backend \in [Server -> Link(SStates)]
        /\ rolePassword \in Password
    BY DEF PasswordInv, PasswordTypeOK
  <1>1. CASE \E c \in Conn : lend(c, s)
    <2>1. PICK c \in Conn : lend(c, s)
      BY <1>1
    <2>2. /\ UNCHANGED <<script, backend, keys, loginFailed>> /\ lent' = lent \cup {<<c, s>>}
          /\ backend[s].at = "up" /\ conn[c].at = "wait" /\ conn' = Moved(conn, c, "busy")
          /\ \A d \in Conn : <<d, s>> \notin lent
      BY <2>1 DEF lend, Lent
    <2>3. /\ conn' \in [Conn -> Link(CStates)] /\ conn'[c].at = "busy"
          /\ \A d \in Conn : d # c => conn'[d] = conn[d]
      BY <1>0, <2>2, LinkMoves
    <2>4. PasswordTypeOK'
      BY <2>2, <2>3 DEF PasswordInv, PasswordTypeOK, script
    <2>5. HandsCurrent'
      BY <2>2 DEF PasswordInv, HandsCurrent, script
    <2>6. \A l \in lent : /\ l[1] \in Conn /\ l[2] \in Server /\ l = <<l[1], l[2]>>
                          /\ l[1] # c /\ l[2] # s
      BY <2>2 DEF PasswordInv, PasswordTypeOK, LentIsUsed
    <2>7. \A l \in lent' : conn'[l[1]].at = "busy" /\ backend'[l[2]].at = "up"
      BY <2>2, <2>3, <2>6 DEF PasswordInv, LentIsUsed
    <2>8. \A l, m \in lent' : l[1] = m[1] \/ l[2] = m[2] => l = m
      BY <2>2, <2>6 DEF PasswordInv, LentIsUsed
    <2>9. \A d \in Conn : conn'[d].at = "busy" => \E t \in Server : <<d, t>> \in lent'
      BY <2>2, <2>3 DEF PasswordInv, LentIsUsed
    <2>10. LentIsUsed'
      BY <2>7, <2>8, <2>9 DEF LentIsUsed
    <2> QED BY <2>4, <2>5, <2>10 DEF PasswordInv
  <1>2. CASE openServer(s) \/ serverLogin(s) \/ closeServer(s)
    <2>1. /\ UNCHANGED <<script, conn, lent, keys>> /\ loginFailed' \in BOOLEAN
          /\ backend[s].at # "up" \/ ~Lent(s)
      BY <1>2 DEF openServer, serverLogin, closeServer, PasswordInv, PasswordTypeOK
    <2>2. /\ backend' \in [Server -> Link(SStates)]
          /\ \A t \in Server : t # s => backend'[t] = backend[t]
          /\ \/ backend'[s].at = "none" \/ backend'[s].by = rolePassword
             \/ /\ backend'[s].by = backend[s].by /\ backend'[s].spared = backend[s].spared
                /\ backend[s].at = "login"
      <3>1. CASE backend' = [backend EXCEPT ![s] = Begun]
        BY <1>0, <3>1, LinkBegins
      <3>2. CASE backend' = [backend EXCEPT ![s] = Gone]
        BY <1>0, <3>2, LinkEnds
      <3>3. CASE backend[s].at = "login" /\ backend' = Moved(backend, s, "up")
        BY <1>0, <3>3, LinkMoves
      <3> QED BY <1>2, <3>1, <3>2, <3>3 DEF openServer, serverLogin, closeServer
    <2>3. PasswordTypeOK'
      BY <2>1, <2>2 DEF PasswordInv, PasswordTypeOK, script
    <2>4. HandsCurrent'
      BY <2>1, <2>2 DEF PasswordInv, HandsCurrent, script
    <2>5. LentIsUsed'
      BY <2>1, <2>2, LentStays
    <2> QED BY <2>3, <2>4, <2>5 DEF PasswordInv
  <1> QED BY <1>1, <1>2 DEF ServerStep

\* rotate.sh, pgbouncer.ini and the pool of database.module.ts: in every reachable
\* state the variables have their types, a transaction has a backend of its own that
\* is up, and HandsCurrent holds, for pools of any size and any number of rotations,
\* finished or killed.
THEOREM PasswordInvariant == PasswordSpec => []PasswordInv
  <1>1. PasswordInv /\ [PasswordNext]_rotateVars => PasswordInv'
    <2> SUFFICES ASSUME PasswordInv, [PasswordNext]_rotateVars PROVE PasswordInv'
      OBVIOUS
    <2>1. CASE UNCHANGED rotateVars
      BY <2>1
      DEF rotateVars, script, PasswordInv, PasswordTypeOK, HandsCurrent, LentIsUsed
    <2> QED
      BY <2>1, ScriptKeepsPassword, PoolKeepsPassword, BouncerKeepsPassword DEF PasswordNext
  <1> QED BY <1>1, PasswordInitInv, PTL DEF PasswordSpec

\* rotate.sh, step 3: after a rotation no backend works on with the old password,
\* except those step 3 could not see or a killed run left alone.
THEOREM PasswordBackendsCurrent == PasswordSpec => []BackendsCurrent
  <1>1. PasswordInv => BackendsCurrent
    BY DEF PasswordInv, HandsCurrent, BackendsCurrent
  <1> QED BY <1>1, PasswordInvariant, PTL

-----------------------------------------------------------------------------
(* Walks through the pages of a list *)

\* A function from 1..n is a sequence of its values.
LEMMA FcnIsSeq ==
  ASSUME NEW n \in Nat, NEW S, NEW f \in [1..n -> S]
  PROVE  f \in Seq(S)
  BY SeqDef, Zenon

\* The numbers of the orders a caller may see are finitely many.
LEMMA MineIsFinite ==
  ASSUME ORDERS \in Seq(Customer \cup Staff), NEW who
  PROVE  /\ Mine(who) \subseteq 1..Len(ORDERS) /\ Len(ORDERS) \in Nat
         /\ IsFiniteSet(Mine(who)) /\ Cardinality(Mine(who)) \in Nat
  <1>1. Mine(who) \subseteq 1..Len(ORDERS) /\ Len(ORDERS) \in Nat
    BY LenProperties DEF Mine
  <1>2. IsFiniteSet(1..Len(ORDERS))
    BY <1>1, FS_Interval
  <1>3. IsFiniteSet(Mine(who))
    BY <1>1, <1>2, FS_Subset
  <1> QED BY <1>1, <1>3, FS_CardinalityType

\* What a list shows is a sequence, of whatever its elements are.
LEMMA VisibleIsSeq ==
  ASSUME ORDERS \in Seq(Customer \cup Staff), PRODUCTS \in Nat, NEW who, NEW what
  PROVE  \E S : Visible(who, what) \in Seq(S)
  <1>1. CASE what = "products"
    <2>1. Visible(who, what) = [i \in 1..PRODUCTS |-> i]
      BY <1>1 DEF Visible
    <2>2. [i \in 1..PRODUCTS |-> i] \in [1..PRODUCTS -> Nat]
      OBVIOUS
    <2> QED BY <2>1, <2>2, FcnIsSeq
  <1>2. CASE what # "products"
    <2> DEFINE c == Cardinality(Mine(who))
               S == {Nth(Mine(who), k) : k \in 1..c}
    <2>1. c \in Nat
      BY MineIsFinite
    <2>2. Visible(who, what) = [k \in 1..c |-> Nth(Mine(who), k)]
      BY <1>2 DEF Visible, InOrder
    <2>3. [k \in 1..c |-> Nth(Mine(who), k)] \in [1..c -> S]
      OBVIOUS
    <2> HIDE DEF c, S
    <2>4. Visible(who, what) \in Seq(S)
      <3>1. Visible(who, what) \in [1..c -> S]
        BY <2>2, <2>3
      <3> QED BY <2>1, <3>1, FcnIsSeq
    <2> QED BY <2>4
  <1> QED BY <1>1, <1>2

\* The k-th number of a set stays the k-th when a greater one comes.
LEMMA NthStays ==
  ASSUME NEW n \in Nat, NEW I \in SUBSET (1..n), NEW k \in 1..Cardinality(I)
  PROVE  Nth(I \cup {n + 1}, k) = Nth(I, k)
  <1> DEFINE J == I \cup {n + 1}
  <1>1. n + 1 \notin I /\ \A i \in I : i \in Nat /\ i <= n
    OBVIOUS
  <1>2. IsFiniteSet(I)
    <2>1. IsFiniteSet(1..n)
      BY FS_Interval
    <2> QED BY <2>1, FS_Subset
  <1>3. Cardinality(I) \in Nat /\ Cardinality(J) = Cardinality(I) + 1
    BY <1>1, <1>2, FS_CardinalityType, FS_AddElement
  <1>4. ASSUME NEW i \in I PROVE {j \in J : j <= i} = {j \in I : j <= i}
    <2>1. ~ (n + 1 <= i)
      BY <1>1
    <2> QED BY <2>1
  <1>5. {j \in J : j <= n + 1} = J
    <2>1. \A j \in J : j <= n + 1
      BY <1>1
    <2> QED BY <2>1
  <1>6. k # Cardinality(J)
    BY <1>3
  <1>7. ASSUME NEW i \in J, Cardinality({j \in J : j <= i}) = k PROVE i \in I
    BY <1>5, <1>6, <1>7
  <1>8. Ranked(J, k) = Ranked(I, k)
    BY <1>4, <1>7 DEF Ranked
  <1> QED BY <1>8 DEF Nth

\* t begins with s.
Extends(s, t) == Len(s) <= Len(t) /\ \A k \in 1..Len(s) : t[k] = s[k]

\* A list that grows at its end shows every caller what it showed, and perhaps
\* one row more.
LEMMA VisibleGrows ==
  ASSUME ORDERS \in Seq(Customer \cup Staff), PRODUCTS \in Nat, NEW who, NEW what,
         NEW u \in Customer \cup Staff, createOrder(u) \/ createProduct(u)
  PROVE  /\ \E T : Visible(who, what)' \in Seq(T)
         /\ Extends(Visible(who, what), Visible(who, what)')
  <1>1. CASE what = "products"
    <2>1. /\ Visible(who, what) = [i \in 1..PRODUCTS |-> i]
          /\ Visible(who, what)' = [i \in 1..PRODUCTS' |-> i]
      BY <1>1 DEF Visible
    <2>2. PRODUCTS' \in Nat /\ PRODUCTS <= PRODUCTS'
      BY DEF createOrder, createProduct
    <2>3. Visible(who, what)' \in Seq(Nat)
      BY <2>1, <2>2, FcnIsSeq
    <2>4. Extends(Visible(who, what), Visible(who, what)')
      BY <2>1, <2>2 DEF Extends
    <2> QED BY <2>3, <2>4
  <1>2. CASE what # "products"
    <2> DEFINE I == Mine(who)
               J == {i \in 1..Len(ORDERS') : who \in Staff \/ ORDERS'[i] = who}
    <2>1. /\ Visible(who, what) = [k \in 1..Cardinality(I) |-> Nth(I, k)]
          /\ Visible(who, what)' = [k \in 1..Cardinality(J) |-> Nth(J, k)]
      BY <1>2 DEF Visible, InOrder, Mine
    <2>2. /\ I \subseteq 1..Len(ORDERS) /\ Len(ORDERS) \in Nat
          /\ IsFiniteSet(I) /\ Cardinality(I) \in Nat
      BY MineIsFinite
    <2>3. J = I \/ J = I \cup {Len(ORDERS) + 1}
      <3>1. CASE ORDERS' = ORDERS
        BY <3>1 DEF Mine
      <3>2. CASE ORDERS' = Append(ORDERS, u)
        <4>1. /\ Len(ORDERS') = Len(ORDERS) + 1 /\ ORDERS'[Len(ORDERS) + 1] = u
              /\ \A i \in 1..Len(ORDERS) : ORDERS'[i] = ORDERS[i]
          BY <3>2, AppendProperties
        <4>2. 1..Len(ORDERS') = 1..Len(ORDERS) \cup {Len(ORDERS) + 1}
          BY <2>2, <4>1
        <4>3. \A i \in 1..Len(ORDERS) : i \in J <=> i \in I
          BY <4>1, <4>2 DEF Mine
        <4>4. J \subseteq 1..Len(ORDERS) \cup {Len(ORDERS) + 1}
          BY <4>2
        <4> HIDE DEF I, J
        <4>5. I \subseteq J
          BY <2>2, <4>3
        <4>6. J \subseteq I \cup {Len(ORDERS) + 1}
          BY <4>3, <4>4
        <4> QED BY <4>5, <4>6
      <3>3. ORDERS' = ORDERS \/ ORDERS' = Append(ORDERS, u)
        BY DEF createOrder, createProduct
      <3> QED BY <3>1, <3>2, <3>3
    <2> HIDE DEF I, J
    <2>4. /\ Cardinality(I) <= Cardinality(J)
          /\ \A k \in 1..Cardinality(I) : Nth(J, k) = Nth(I, k)
      <3>1. CASE J = I
        BY <2>2, <3>1
      <3>2. CASE J = I \cup {Len(ORDERS) + 1}
        <4>1. \A k \in 1..Cardinality(I) : Nth(J, k) = Nth(I, k)
          BY <2>2, <3>2, NthStays
        <4>2. Len(ORDERS) + 1 \notin I
          BY <2>2
        <4>3. Cardinality(J) = Cardinality(I) + 1
          BY <2>2, <3>2, <4>2, FS_AddElement
        <4> QED BY <2>2, <4>1, <4>3
      <3> QED BY <2>3, <3>1, <3>2
    <2>5. Cardinality(J) \in Nat
      <3>1. IsFiniteSet(J)
        BY <2>2, <2>3, FS_AddElement
      <3> QED BY <3>1, FS_CardinalityType
    <2>6. /\ Len(Visible(who, what)) = Cardinality(I)
          /\ Len(Visible(who, what)') = Cardinality(J)
      BY <2>1, <2>2, <2>5
    <2>7. \E T : Visible(who, what)' \in Seq(T)
      <3> DEFINE T == {Nth(J, k) : k \in 1..Cardinality(J)}
      <3>1. [k \in 1..Cardinality(J) |-> Nth(J, k)] \in [1..Cardinality(J) -> T]
        OBVIOUS
      <3> HIDE DEF T
      <3>2. Visible(who, what)' \in Seq(T)
        BY <2>1, <2>5, <3>1, FcnIsSeq
      <3> QED BY <3>2
    <2>8. Extends(Visible(who, what), Visible(who, what)')
      BY <2>1, <2>2, <2>4, <2>5, <2>6 DEF Extends
    <2> QED BY <2>7, <2>8
  <1> QED BY <1>1, <1>2

\* A page continues what the pages before it began.
LEMMA PageContinues ==
  ASSUME NEW S, NEW s \in Seq(S), NEW n \in 0..Len(s), NEW to \in n..Len(s)
  PROVE  /\ SubSeq(s, 1, n) \o SubSeq(s, n + 1, to) = SubSeq(s, 1, to)
         /\ Len(SubSeq(s, n + 1, to)) = to - n
  <1>1. Len(s) \in Nat /\ \A i \in 1..Len(s) : s[i] \in S
    BY LenProperties, ElementOfSeq
  <1> DEFINE a == SubSeq(s, 1, n)  b == SubSeq(s, n + 1, to)  c == SubSeq(s, 1, to)
  <1>2. /\ a \in Seq(S) /\ Len(a) = n /\ \A i \in 1..n : a[i] = s[i]
        /\ b \in Seq(S) /\ Len(b) = to - n /\ \A i \in 1..(to - n) : b[i] = s[n + i]
        /\ c \in Seq(S) /\ Len(c) = to /\ \A i \in 1..to : c[i] = s[i]
    <2>1. a \in Seq(S) /\ Len(a) = n /\ \A i \in 1..n : a[i] = s[i]
      BY <1>1, SubSeqProperties
    <2>2. b \in Seq(S) /\ Len(b) = to - n /\ \A i \in 1..(to - n) : b[i] = s[n + i]
      BY <1>1, SubSeqProperties
    <2>3. c \in Seq(S) /\ Len(c) = to /\ \A i \in 1..to : c[i] = s[i]
      BY <1>1, SubSeqProperties
    <2> QED BY <2>1, <2>2, <2>3
  <1> HIDE DEF a, b, c
  <1>3. /\ a \o b \in Seq(S) /\ Len(a \o b) = to
        /\ \A i \in 1..to : (a \o b)[i] = IF i <= n THEN a[i] ELSE b[i - n]
    <2>1. /\ a \o b \in Seq(S) /\ Len(a \o b) = Len(a) + Len(b)
          /\ \A i \in 1..Len(a) + Len(b) :
               (a \o b)[i] = IF i <= Len(a) THEN a[i] ELSE b[i - Len(a)]
      BY <1>2, ConcatProperties
    <2>2. Len(a) + Len(b) = to
      BY <1>1, <1>2
    <2> QED BY <1>2, <2>1, <2>2
  <1>4. ASSUME NEW i \in 1..to PROVE (a \o b)[i] = c[i]
    <2>1. CASE i <= n
      BY <1>1, <1>2, <1>3, <2>1
    <2>2. CASE ~ (i <= n)
      <3>1. i - n \in 1..(to - n) /\ n + (i - n) = i
        BY <1>1, <2>2
      <3>2. (a \o b)[i] = b[i - n]
        BY <1>1, <1>3, <2>2
      <3>3. b[i - n] = s[n + (i - n)]
        BY <1>2, <3>1
      <3>4. s[n + (i - n)] = s[i]
        BY <3>1
      <3>5. c[i] = s[i]
        BY <1>2
      <3> QED BY <3>2, <3>3, <3>4, <3>5
    <2> QED BY <2>1, <2>2
  <1>5. a \o b = c
    BY <1>2, <1>3, <1>4, SeqEqual
  <1> QED BY <1>2, <1>5 DEF a, b, c

\* What has been met stays a start of a list that has grown.
LEMMA StartStays ==
  ASSUME NEW S, NEW s \in Seq(S), NEW T, NEW t \in Seq(T), Extends(s, t),
         NEW n \in 0..Len(s)
  PROVE  SubSeq(t, 1, n) = SubSeq(s, 1, n)
  <1>1. Len(s) \in Nat /\ Len(t) \in Nat
    BY LenProperties
  <1>2. \A i \in 1..n : s[i] \in S /\ t[i] = s[i]
    BY <1>1, ElementOfSeq DEF Extends
  <1>3. /\ SubSeq(s, 1, n) \in Seq(S) /\ Len(SubSeq(s, 1, n)) = n
        /\ \A i \in 1..n : SubSeq(s, 1, n)[i] = s[i]
    BY <1>2, SubSeqProperties
  <1>4. /\ SubSeq(t, 1, n) \in Seq(S) /\ Len(SubSeq(t, 1, n)) = n
        /\ \A i \in 1..n : SubSeq(t, 1, n)[i] = t[i]
    BY <1>2, SubSeqProperties
  <1> QED BY <1>2, <1>3, <1>4, SeqEqual

\* What PagesInv says of one walk.
WalkInv(w) ==
  /\ walker[w] = <<>> => cursor[w] = First /\ collected[w] = <<>>
  /\ walker[w] # <<>> => \E n \in 0..Len(Seen(w)) : StandsAt(w, n)

\* The rows a walk goes through are a sequence.
LEMMA SeenIsSeq ==
  ASSUME PagesTypeOK, NEW w \in Walk
  PROVE  Len(Seen(w)) \in Nat /\ \E S : Seen(w) \in Seq(S)
  <1>1. \E S : Seen(w) \in Seq(S)
    BY VisibleIsSeq DEF PagesTypeOK, Seen
  <1> QED BY <1>1, LenProperties

\* At first nobody walks.
LEMMA PagesInitInv == PagesInit => PagesInv
  <1> SUFFICES ASSUME PagesInit PROVE PagesInv
    OBVIOUS
  <1>1. ORDERS \in Seq(Customer \cup Staff)
    BY PagesAssumption, SeqMonotonic DEF PagesInit
  <1>2. PagesTypeOK
    BY <1>1, PagesAssumption DEF PagesInit, PagesTypeOK
  <1> QED BY <1>2 DEF PagesInit, PagesInv

\* A step that leaves the lists and a walk alone.
LEMMA WalkStays ==
  ASSUME NEW w \in Walk, WalkInv(w), UNCHANGED <<ORDERS, PRODUCTS>>,
         walker'[w] = walker[w], cursor'[w] = cursor[w],
         collected'[w] = collected[w], atStart'[w] = atStart[w]
  PROVE  WalkInv(w)'
  BY DEF WalkInv, StandsAt, Seen, Visible, Mine

\* GET without a cursor is still to come: the walk has met nothing.
LEMMA BeginWalkKeeps ==
  ASSUME PagesInv, NEW w \in Walk, NEW who \in Customer \cup Staff,
         NEW what \in {"products", "orders"}, NEW limit \in PageLimits,
         beginWalk(w, who, what, limit)
  PROVE  PagesInv'
  <1>1. PagesTypeOK /\ \A x \in Walk : WalkInv(x)
    BY DEF PagesInv, WalkInv
  <1>2. Len(Visible(who, what)) \in Nat
    BY <1>1, VisibleIsSeq, LenProperties DEF PagesTypeOK
  <1>3. PagesTypeOK'
    BY <1>1, <1>2 DEF PagesTypeOK, beginWalk
  <1>4. /\ walker'[w] = <<who, what, limit>> /\ cursor'[w] = First
        /\ collected'[w] = <<>> /\ atStart'[w] = Len(Visible(who, what))
    BY <1>1 DEF beginWalk, PagesTypeOK, WalkInv
  <1>5. Seen(w)' = Visible(who, what)
    <2>1. Seen(w)' = Visible(who, what)'
      BY <1>4 DEF Seen
    <2>2. Mine(who)' = Mine(who) /\ PRODUCTS' = PRODUCTS
      BY DEF Mine, beginWalk
    <2>3. Visible(who, what)' = Visible(who, what)
      BY <2>2 DEF Visible, InOrder
    <2> QED BY <2>1, <2>3
  <1>6. SubSeq(Visible(who, what), 1, 0) = <<>>
    BY SubSeqEmpty
  <1>7. StandsAt(w, 0)'
    BY <1>2, <1>4, <1>5, <1>6 DEF StandsAt
  <1>8. WalkInv(w)'
    BY <1>2, <1>4, <1>5, <1>7 DEF WalkInv
  <1>9. ASSUME NEW x \in Walk, x # w PROVE WalkInv(x)'
    BY <1>1, <1>9, WalkStays DEF beginWalk, PagesTypeOK
  <1> QED BY <1>3, <1>8, <1>9 DEF PagesInv, WalkInv

\* paginate: from n on, at most limit rows, and a cursor exactly when rows are
\* left.
LEMMA PaginateIs ==
  ASSUME NEW S, NEW s \in Seq(S), NEW n \in 0..Len(s), NEW limit \in Nat \ {0},
         NEW to, to = IF n + limit < Len(s) THEN n + limit ELSE Len(s)
  PROVE  /\ to \in n..Len(s)
         /\ paginate(s, limit, n) =
              [items |-> SubSeq(s, n + 1, to),
               next |-> IF to < Len(s) THEN At(to) ELSE NoCursor]
  <1>1. Len(s) \in Nat
    BY LenProperties
  <1>2. to \in n..Len(s) /\ to \in Nat /\ n \in Nat
    BY <1>1
  <1>3. n + Len(SubSeq(s, n + 1, to)) = to
    BY <1>2, PageContinues
  <1> QED BY <1>2, <1>3 DEF paginate

\* One more page: the walk stands after it, and ends only at the end of the list.
LEMMA NextPageKeeps ==
  ASSUME PagesInv, NEW w \in Walk, nextPage(w)
  PROVE  PagesInv'
  <1>1. PagesTypeOK /\ \A x \in Walk : WalkInv(x)
    BY DEF PagesInv, WalkInv
  <1> DEFINE s == Seen(w)
             limit == walker[w][3]
  <1>2. PICK n \in 0..Len(s) : StandsAt(w, n)
    BY <1>1 DEF WalkInv, nextPage
  <1> PICK to : to = IF n + limit < Len(s) THEN n + limit ELSE Len(s)
    OBVIOUS
  <1> DEFINE next == IF to < Len(s) THEN At(to) ELSE NoCursor
  <1>3. limit \in Nat \ {0}
    BY <1>1, PagesAssumption DEF nextPage, PagesTypeOK
  <1>4. decodeCursor(cursor[w]) = n
    BY <1>2 DEF StandsAt, nextPage, decodeCursor, First, NoCursor, At
  <1>5. PICK S : s \in Seq(S) /\ Len(s) \in Nat
    BY <1>1, SeenIsSeq
  <1>6. /\ collected' = [collected EXCEPT ![w] = @ \o paginate(s, limit, n).items]
        /\ cursor' = [cursor EXCEPT ![w] = paginate(s, limit, n).next]
        /\ UNCHANGED <<ORDERS, PRODUCTS, walker, atStart>>
    BY <1>4 DEF nextPage, Seen
  <1>7. Seen(w)' = s
    BY <1>6 DEF Seen, Visible, Mine
  <1>8. collected[w] = SubSeq(s, 1, n) /\ atStart[w] <= Len(s)
    BY <1>2 DEF StandsAt
  <1> HIDE DEF s, limit
  <1>9. to \in n..Len(s)
        /\ paginate(s, limit, n) = [items |-> SubSeq(s, n + 1, to), next |-> next]
    BY <1>3, <1>5, PaginateIs
  <1>10. SubSeq(s, 1, n) \o SubSeq(s, n + 1, to) = SubSeq(s, 1, to)
    BY <1>5, <1>9, PageContinues
  <1>11. to \in Nat /\ to <= Len(s) /\ (~ (to < Len(s)) => to = Len(s))
    BY <1>5, <1>9
  <1>12. PagesTypeOK'
    <2>1. next \in {First, NoCursor} \cup [kind : {"cursor"}, offset : Nat]
      BY <1>11 DEF At
    <2>2. cursor' = [cursor EXCEPT ![w] = next]
      BY <1>6, <1>9
    <2>3. DOMAIN collected' = Walk
      BY <1>1, <1>6 DEF PagesTypeOK
    <2> HIDE DEF next
    <2> QED BY <1>1, <1>6, <2>1, <2>2, <2>3 DEF PagesTypeOK
  <1>13. collected'[w] = SubSeq(s, 1, to) /\ cursor'[w] = next
    <2>1. /\ paginate(s, limit, n).items = SubSeq(s, n + 1, to)
          /\ paginate(s, limit, n).next = next
      BY <1>9
    <2>2. collected'[w] = collected[w] \o paginate(s, limit, n).items
      BY <1>1, <1>6 DEF PagesTypeOK
    <2>3. cursor'[w] = paginate(s, limit, n).next
      BY <1>1, <1>6 DEF PagesTypeOK
    <2> QED BY <1>8, <1>10, <2>1, <2>2, <2>3
  <1>14. StandsAt(w, to)'
    BY <1>6, <1>7, <1>8, <1>11, <1>13 DEF StandsAt
  <1>15. to \in 0..Len(Seen(w)')
    BY <1>5, <1>7, <1>11
  <1>16. WalkInv(w)'
    BY <1>6, <1>14, <1>15 DEF WalkInv, nextPage
  <1>17. ASSUME NEW x \in Walk, x # w PROVE WalkInv(x)'
    <2>1. /\ walker'[x] = walker[x] /\ cursor'[x] = cursor[x]
          /\ collected'[x] = collected[x] /\ atStart'[x] = atStart[x]
      BY <1>1, <1>6, <1>17 DEF PagesTypeOK
    <2> QED BY <1>1, <1>6, <2>1, WalkStays
  <1> QED BY <1>12, <1>16, <1>17 DEF PagesInv, WalkInv

\* A row at the end of a list changes nothing of what a walk has met.
LEMMA CreateKeeps ==
  ASSUME PagesInv, NEW u \in Customer \cup Staff, createOrder(u) \/ createProduct(u)
  PROVE  PagesInv'
  <1>1. PagesTypeOK /\ \A w \in Walk : WalkInv(w)
    BY DEF PagesInv, WalkInv
  <1>2. UNCHANGED <<walker, cursor, collected, atStart>>
    BY DEF createOrder, createProduct
  <1>3. ORDERS' \in Seq(Customer \cup Staff) /\ PRODUCTS' \in Nat
    <2>1. ORDERS' = ORDERS \/ ORDERS' = Append(ORDERS, u)
      BY DEF createOrder, createProduct
    <2>2. PRODUCTS' \in Nat
      BY <1>1 DEF PagesTypeOK, createOrder, createProduct
    <2>3. ORDERS \in Seq(Customer \cup Staff)
      BY <1>1 DEF PagesTypeOK
    <2>4. Append(ORDERS, u) \in Seq(Customer \cup Staff)
      BY <2>3, AppendProperties
    <2> QED BY <2>1, <2>2, <2>3, <2>4
  <1>4. PagesTypeOK'
    BY <1>1, <1>2, <1>3 DEF PagesTypeOK
  <1>5. ASSUME NEW w \in Walk, walker[w] # <<>>
        PROVE  \E n \in 0..Len(Seen(w)') : StandsAt(w, n)'
    <2> PICK who, what : who = walker[w][1] /\ what = walker[w][2]
      OBVIOUS
    <2> DEFINE s == Seen(w)
               t == Seen(w)'
    <2>1. PICK n \in 0..Len(s) : StandsAt(w, n)
      BY <1>1, <1>5 DEF WalkInv
    <2>2. Extends(s, t)
      <3>1. s = Visible(who, what) /\ t = Visible(who, what)'
        BY <1>2 DEF Seen
      <3> QED BY <1>1, <3>1, VisibleGrows DEF PagesTypeOK
    <2>3. PICK S : s \in Seq(S) /\ Len(s) \in Nat
      BY <1>1, SeenIsSeq
    <2>4. PICK T : t \in Seq(T) /\ Len(t) \in Nat
      <3>1. \E T : t \in Seq(T)
        <4>1. t = Visible(who, what)'
          BY <1>2 DEF Seen
        <4> QED BY <1>1, <4>1, VisibleGrows DEF PagesTypeOK
      <3> QED BY <3>1, LenProperties
    <2> HIDE DEF s, t
    <2>5. SubSeq(t, 1, n) = SubSeq(s, 1, n)
      BY <2>2, <2>3, <2>4, StartStays
    <2>6. Len(s) <= Len(t) /\ n \in 0..Len(t)
      BY <2>2, <2>3, <2>4 DEF Extends
    <2>7. StandsAt(w, n)'
      BY <1>1, <1>2, <2>1, <2>3, <2>4, <2>5, <2>6 DEF StandsAt, s, t, PagesTypeOK
    <2> QED BY <2>6, <2>7 DEF t
  <1>6. \A w \in Walk : walker'[w] = <<>> => cursor'[w] = First /\ collected'[w] = <<>>
    BY <1>1, <1>2 DEF WalkInv
  <1> QED BY <1>2, <1>4, <1>5, <1>6 DEF PagesInv

\* cursor.ts: in every reachable state a walk stands after the rows it has met.
THEOREM PagesInvariant == PagesSpec => []PagesInv
  <1>1. PagesInv /\ [PagesNext]_pageVars => PagesInv'
    <2> SUFFICES ASSUME PagesInv, [PagesNext]_pageVars PROVE PagesInv'
      OBVIOUS
    <2>1. CASE UNCHANGED pageVars
      BY <2>1 DEF pageVars, PagesInv, PagesTypeOK, StandsAt, Seen, Visible, Mine
    <2> QED BY <2>1, BeginWalkKeeps, NextPageKeeps, CreateKeeps DEF PagesNext
  <1> QED BY <1>1, PagesInitInv, PTL DEF PagesSpec

\* cursor.ts, GET /products and GET /orders: a walk meets the rows in order, each
\* once, and all that were there when it began, for every limit and every number
\* of rows added between its pages.
THEOREM PagesWalkIsExact == PagesSpec => []WalkIsExact
  <1>1. PagesInv => WalkIsExact
    <2> SUFFICES ASSUME PagesInv, NEW w \in Walk, walker[w] # <<>>
                 PROVE  /\ IsPrefix(collected[w], Seen(w))
                        /\ cursor[w].kind = "cursor" =>
                             decodeCursor(cursor[w]) < Len(Seen(w))
                        /\ cursor[w] = NoCursor => Len(collected[w]) >= atStart[w]
      BY DEF WalkIsExact
    <2> DEFINE s == Seen(w)
    <2>1. PICK n \in 0..Len(s) : StandsAt(w, n)
      BY DEF PagesInv
    <2>2. PICK S : s \in Seq(S) /\ Len(s) \in Nat
      BY SeenIsSeq DEF PagesInv
    <2>3. /\ collected[w] = SubSeq(s, 1, n) /\ Len(collected[w]) = n
      BY <2>1, <2>2, SubSeqProperties, ElementOfSeq DEF StandsAt
    <2>4. IsPrefix(collected[w], s)
      <3>1. n <= Len(s) /\ n \in Nat
        BY <2>2
      <3>2. SubSeq(collected[w], 1, n) = collected[w]
        <4>1. collected[w] \in Seq(S)
          BY <2>1, <2>2, SubSeqProperties, ElementOfSeq DEF StandsAt
        <4> QED BY <2>3, <4>1, SubSeqFull
      <3> QED BY <2>3, <3>1, <3>2 DEF IsPrefix
    <2>5. cursor[w].kind = "cursor" => decodeCursor(cursor[w]) < Len(s)
      BY <2>1 DEF StandsAt, decodeCursor, First, NoCursor, At
    <2>6. cursor[w] = NoCursor => Len(collected[w]) >= atStart[w]
      BY <2>1, <2>2, <2>3 DEF StandsAt, First, NoCursor, At, PagesInv, PagesTypeOK
    <2> QED BY <2>4, <2>5, <2>6
  <1> QED BY <1>1, PagesInvariant, PTL

-----------------------------------------------------------------------------
(* Numbers *)

\* A set of numbers that is not empty has a least one.
LEMMA LeastOf ==
  ASSUME NEW S, S \subseteq Nat, S # {}
  PROVE  \E x \in S : \A y \in S : x <= y
  <1> DEFINE R == OpToRel(<, Nat)
  <1>1. IsWellFoundedOn(R, Nat)
    BY NatLessThanWellFounded, Zenon
  <1>2. \A x, y \in Nat : y < x => <<y, x>> \in R
    BY DEF OpToRel
  <1> HIDE DEF R
  <1>3. PICK x \in S : \A y \in S : ~ (<<y, x>> \in R)
    BY <1>1, WFMin
  <1>4. \A y \in S : ~ (y < x)
    BY <1>2, <1>3
  <1> QED BY <1>4

\* A bounded set of numbers has a greatest one: its least bound.
LEMMA MaxOf ==
  ASSUME NEW S, S \subseteq Nat, S # {}, NEW b \in Nat, \A y \in S : y <= b
  PROVE  Max(S) \in S /\ \A y \in S : y <= Max(S)
  <1> DEFINE U == {u \in Nat : \A y \in S : y <= u}
  <1>1. PICK u \in U : \A v \in U : u <= v
    <2>1. U \subseteq Nat /\ b \in U
      OBVIOUS
    <2> HIDE DEF U
    <2> QED BY <2>1, LeastOf
  <1>2. u \in S
    <2> SUFFICES ASSUME u \notin S PROVE FALSE
      OBVIOUS
    <2>1. \A y \in S : y <= u - 1
      BY <1>1
    <2>2. u - 1 \in Nat
      <3> PICK y \in S : TRUE
        OBVIOUS
      <3> QED BY <2>1, <1>1
    <2>3. u - 1 \in U
      BY <2>1, <2>2
    <2> QED BY <1>1, <2>3
  <1>3. \A y \in S : u >= y
    BY <1>1
  <1> QED BY <1>2, <1>3 DEF Max

\* Min of FiniteSetsExt is the least number.
LEMMA MinOf ==
  ASSUME NEW S, S \subseteq Nat, S # {}
  PROVE  Min(S) \in S /\ \A y \in S : Min(S) <= y
  <1>1. \E x \in S : \A y \in S : x <= y
    BY LeastOf
  <1> QED BY <1>1 DEF Min

-----------------------------------------------------------------------------
(* What ListParts answers *)

\* describe() numbers finitely many parts from 1.
LEMMA PartsAreNumbers ==
  /\ Part \subseteq Nat \ {0} /\ IsFiniteSet(Part)
  /\ \E b \in Nat : \A k \in Part : k <= b
  <1> DEFINE size == computePartSize(UploadSize)
  <1>1. ASSUME NEW a \in Nat, NEW b \in Nat \ {0} PROVE ceil(a, b) \in Nat
    BY DEF ceil
  <1>2. size \in Nat \ {0}
    <2>1. UploadSize \in Nat /\ MIB \in Nat \ {0} /\ MAX_PARTS \in Nat \ {0}
      BY ResumeAssumption, PartPlanAssumption
    <2>2. ceil(ceil(UploadSize, MAX_PARTS), MIB) \in Nat
      BY <2>1, <1>1
    <2>3. ceil(ceil(UploadSize, MAX_PARTS), MIB) * MIB \in Nat
      BY <2>1, <2>2
    <2> QED BY <2>1, <2>3 DEF computePartSize, MIN_PART
  <1>3. partCount(UploadSize, size) \in Nat
    BY <1>1, <1>2, ResumeAssumption, PartPlanAssumption DEF partCount
  <1>4. Part = 1..partCount(UploadSize, size)
    BY DEF Part, PartNumbers
  <1> HIDE DEF size
  <1>5. IsFiniteSet(Part)
    BY <1>3, <1>4, FS_Interval
  <1>6. \A k \in Part : k \in Nat \ {0} /\ k <= partCount(UploadSize, size)
    BY <1>3, <1>4
  <1> QED BY <1>3, <1>5, <1>6

\* What stands up to a part of a page is on the page.
LEMMA PageIsAStart ==
  ASSUME NEW n \in Nat, NEW m \in Page(n), NEW k \in Beyond(n), k <= m
  PROVE  k \in Page(n)
  <1> DEFINE UpTo(x) == {j \in Beyond(n) : j <= x}
  <1>1. Beyond(n) \subseteq Part /\ Part \subseteq Nat /\ IsFiniteSet(Part)
    BY PartsAreNumbers DEF Beyond
  <1>2. m \in Beyond(n) /\ Cardinality(UpTo(m)) <= PageSize
    BY DEF Page
  <1>3. UpTo(k) \subseteq UpTo(m)
    <2>1. \A j \in Beyond(n) : j \in Nat
      BY <1>1
    <2>2. \A j \in Beyond(n) : j <= k => j <= m
      BY <1>2, <2>1
    <2> QED BY <2>2
  <1>4. UpTo(m) \subseteq Part
    BY <1>1
  <1> HIDE DEF UpTo
  <1>5. IsFiniteSet(UpTo(m)) /\ IsFiniteSet(UpTo(k))
    BY <1>1, <1>3, <1>4, FS_Subset
  <1>6. Cardinality(UpTo(k)) <= Cardinality(UpTo(m))
    BY <1>3, <1>5, FS_Subset
  <1>7. Cardinality(UpTo(k)) \in Nat /\ Cardinality(UpTo(m)) \in Nat
    BY <1>5, FS_CardinalityType
  <1>8. Cardinality(UpTo(k)) <= PageSize
    BY <1>2, <1>6, <1>7, ResumeAssumption
  <1> QED BY <1>8 DEF Page, UpTo

\* A truncated page is not empty: the first part beyond the marker is on it. So
\* NextPartNumberMarker is the number of a part.
LEMMA PageHasMax ==
  ASSUME NEW n \in Nat, IsTruncated(n)
  PROVE  Max(Page(n)) \in Page(n) /\ \A k \in Page(n) : k <= Max(Page(n))
  <1>1. /\ Page(n) \subseteq Beyond(n) /\ Beyond(n) \subseteq Part
        /\ Part \subseteq Nat /\ Beyond(n) # {}
    BY PartsAreNumbers DEF Page, Beyond, IsTruncated
  <1>2. PICK x \in Beyond(n) : \A y \in Beyond(n) : x <= y
    BY <1>1, LeastOf
  <1>3. {j \in Beyond(n) : j <= x} = {x}
    <2>1. \A j \in Beyond(n) : j \in Nat
      BY <1>1
    <2>2. \A j \in Beyond(n) : j <= x <=> j = x
      BY <1>2, <2>1
    <2> QED BY <2>2
  <1>4. Cardinality({j \in Beyond(n) : j <= x}) = 1
    BY <1>3, FS_Singleton
  <1>5. x \in Page(n)
    BY <1>4, ResumeAssumption DEF Page
  <1>6. PICK b \in Nat : \A k \in Part : k <= b
    BY PartsAreNumbers
  <1> QED BY <1>1, <1>5, <1>6, MaxOf

-----------------------------------------------------------------------------
(* Resumed uploads *)

\* What ResumeInv says of one process.
ProcessInv(p) ==
  /\ ppc[p] \in {"parts", "commit"} => ListingExact(p)
  /\ ppc[p] = "off" => Blank(p)
  /\ ppc[p] \in {"sending", "put"} =>
       todo[p] \cap always[p] = {} /\ Part \ ever[p] \subseteq todo[p]
  /\ ppc[p] = "complete" => ever[p] = Part

\* The invariant, process by process.
LEMMA ResumeParts ==
  ResumeInv <=> ResumeTypeOK /\ \A p \in Process : ProcessInv(p)
  BY DEF ResumeInv, ProcessInv, ResumeIsExact

\* The same of the next state.
LEMMA ResumePartsNext ==
  ASSUME ResumeTypeOK', \A p \in Process : ProcessInv(p)'
  PROVE  ResumeInv'
  BY DEF ResumeInv, ProcessInv, ResumeIsExact

\* At first there is neither a file nor a process.
LEMMA ResumeInitInv == ResumeInit => ResumeInv
  <1> SUFFICES ASSUME ResumeInit PROVE ResumeInv
    OBVIOUS
  <1>1. ResumeTypeOK
    BY ResumeAssumption DEF ResumeInit, ResumeTypeOK
  <1>2. \A p \in Process : ProcessInv(p)
    BY DEF ResumeInit, ProcessInv, Blank
  <1> QED BY <1>1, <1>2, ResumeParts

\* A process whose variables a step leaves alone, with the storage, is as before.
LEMMA OthersStay ==
  ASSUME NEW q \in Process, ProcessInv(q), stored' = stored,
         ppc'[q] = ppc[q], marker'[q] = marker[q], listed'[q] = listed[q],
         todo'[q] = todo[q], always'[q] = always[q], ever'[q] = ever[q]
  PROVE  ProcessInv(q)'
  BY DEF ProcessInv, ListingExact, Blank, Good

\* A process that ends leaves the others and the storage as they are.
LEMMA EndsKeeps ==
  ASSUME ResumeInv, NEW p \in Process, Ends(p), stored' = stored,
         fileStatus' \in {"absent", "PENDING", "COMPLETED"},
         flying' \subseteq Process \X Part, deaths' \in 0..MaxDeaths
  PROVE  ResumeInv'
  <1>1. ResumeTypeOK /\ \A q \in Process : ProcessInv(q)
    BY ResumeParts
  <1>2. ResumeTypeOK'
    BY <1>1 DEF ResumeTypeOK, Ends, Moves
  <1>3. ProcessInv(p)'
    BY <1>1 DEF ResumeTypeOK, Ends, Moves, ProcessInv, Blank
  <1>4. ASSUME NEW q \in Process, q # p PROVE ProcessInv(q)'
    <2>1. /\ ppc'[q] = ppc[q] /\ marker'[q] = marker[q] /\ listed'[q] = listed[q]
          /\ todo'[q] = todo[q] /\ always'[q] = always[q] /\ ever'[q] = ever[q]
      BY <1>1, <1>4 DEF ResumeTypeOK, Ends, Moves
    <2> QED BY <1>1, <2>1, OthersStay
  <1> QED BY <1>2, <1>3, <1>4, ResumePartsNext

\* A part that arrives, good or short, is taken into account by what is known of
\* every listing under way: a short one is no longer good all the time, a good
\* one has been good at some time.
LEMMA StoreKeeps ==
  ASSUME ResumeInv, NEW n \in Part, NEW b \in {"good", "short"}, Store(n, b)
  PROVE  /\ stored' \in [Part -> {"none", "short", "good"}]
         /\ always' \in [Process -> SUBSET Part] /\ ever' \in [Process -> SUBSET Part]
         /\ \A q \in Process :
              /\ always'[q] \subseteq always[q] /\ ever[q] \subseteq ever'[q]
              /\ (b = "good" /\ ppc[q] # "off") => n \in ever'[q]
              /\ ppc[q] = "off" => always'[q] = {} /\ ever'[q] = {}
              /\ ListingExact(q) => always'[q] \subseteq Good'
              /\ (ListingExact(q) /\ ppc[q] # "off") => Good' \subseteq ever'[q]
  <1>1. ResumeTypeOK /\ \A q \in Process : ProcessInv(q)
    BY ResumeParts
  <1>2. /\ stored' \in [Part -> {"none", "short", "good"}]
        /\ always' \in [Process -> SUBSET Part] /\ ever' \in [Process -> SUBSET Part]
    BY <1>1 DEF ResumeTypeOK, Store
  <1>3. Good' = IF b = "good" THEN Good \cup {n} ELSE Good \ {n}
    BY <1>1 DEF Good, Store, ResumeTypeOK
  <1>4. ASSUME NEW q \in Process
        PROVE  /\ always'[q] = IF b = "good" THEN always[q] ELSE always[q] \ {n}
               /\ ever'[q] = IF b = "good" /\ ppc[q] # "off" THEN ever[q] \cup {n}
                             ELSE ever[q]
    BY DEF Store
  <1>5. ASSUME NEW q \in Process
        PROVE  /\ always'[q] \subseteq always[q] /\ ever[q] \subseteq ever'[q]
               /\ (b = "good" /\ ppc[q] # "off") => n \in ever'[q]
               /\ ppc[q] = "off" => always'[q] = {} /\ ever'[q] = {}
    BY <1>1, <1>4 DEF ProcessInv, Blank
  <1>6. ASSUME NEW q \in Process, ListingExact(q)
        PROVE  /\ always'[q] \subseteq Good'
               /\ ppc[q] # "off" => Good' \subseteq ever'[q]
    BY <1>3, <1>4, <1>6 DEF ListingExact
  <1> QED BY <1>2, <1>5, <1>6

\* So a process that is not the sender goes on as before.
LEMMA StoreKeepsOthers ==
  ASSUME ResumeInv, NEW n \in Part, NEW b \in {"good", "short"}, Store(n, b),
         NEW q \in Process, ppc'[q] = ppc[q], marker'[q] = marker[q],
         listed'[q] = listed[q], todo'[q] = todo[q]
  PROVE  ProcessInv(q)'
  <1>1. ProcessInv(q) /\ ResumeTypeOK
    BY ResumeParts
  <1>2. /\ always'[q] \subseteq always[q] /\ ever[q] \subseteq ever'[q]
        /\ ppc[q] = "off" => always'[q] = {} /\ ever'[q] = {}
        /\ ListingExact(q) => always'[q] \subseteq Good'
        /\ (ListingExact(q) /\ ppc[q] # "off") => Good' \subseteq ever'[q]
        /\ ever'[q] \subseteq Part
    BY StoreKeeps
  <1>3. CASE ppc[q] \in {"parts", "commit"}
    BY <1>1, <1>2, <1>3 DEF ProcessInv, ListingExact
  <1>4. CASE ppc[q] = "off"
    BY <1>1, <1>2, <1>4 DEF ProcessInv, Blank
  <1>5. CASE ppc[q] \in {"sending", "put"}
    BY <1>1, <1>2, <1>5 DEF ProcessInv
  <1>6. CASE ppc[q] = "complete"
    BY <1>1, <1>2, <1>6 DEF ProcessInv
  <1> QED BY <1>1, <1>3, <1>4, <1>5, <1>6 DEF ResumeTypeOK


\* A step of p that touches nothing but p's own variables, and not the storage.
LEMMA OwnStep ==
  ASSUME ResumeInv, NEW p \in Process, ResumeTypeOK', ProcessInv(p)', stored' = stored,
         \A q \in Process \ {p} :
           /\ ppc'[q] = ppc[q] /\ marker'[q] = marker[q] /\ listed'[q] = listed[q]
           /\ todo'[q] = todo[q] /\ always'[q] = always[q] /\ ever'[q] = ever[q]
  PROVE  ResumeInv'
  <1>1. \A q \in Process \ {p} : ProcessInv(q)'
    BY OthersStay, ResumeParts
  <1> QED BY <1>1, ResumePartsNext

\* start(): every part is to be sent, and none is known to be there. resume()
\* and commit(): the storage is as it is, and nothing is listed yet.
LEMMA BeginKeeps ==
  ASSUME ResumeInv, NEW p \in Process, start(p) \/ resume(p) \/ commitUpload(p)
  PROVE  ResumeInv'
  <1>1. ResumeTypeOK /\ ProcessInv(p) /\ ppc[p] = "off" /\ Blank(p)
    BY ResumeParts DEF start, resume, commitUpload, Ask, Idle, ProcessInv
  <1>2. CASE start(p)
    <2>1. ResumeTypeOK'
      BY <1>1, <1>2 DEF ResumeTypeOK, start, Moves
    <2>2. ProcessInv(p)'
      BY <1>1, <1>2 DEF ResumeTypeOK, start, Moves, ProcessInv, Blank
    <2> QED BY <1>1, <1>2, <2>1, <2>2, OwnStep DEF ResumeTypeOK, start, Moves
  <1>3. ASSUME NEW why \in {"parts", "commit"}, Ask(p, why)
        PROVE  ResumeInv'
    <2>1. ResumeTypeOK'
      BY <1>1, <1>3 DEF ResumeTypeOK, Ask, Moves, Good
    <2>2. /\ always'[p] = Good /\ ever'[p] = Good /\ Good' = Good
          /\ listed'[p] = {} /\ marker'[p] = 0 /\ ppc'[p] = why /\ Good \subseteq Part
      BY <1>1, <1>3 DEF ResumeTypeOK, Ask, Moves, Good, Blank
    <2>3. \A k \in Good : ~ (k <= 0)
      <3>1. \A k \in Part : k \in Nat \ {0}
        BY PartsAreNumbers
      <3> QED BY <2>2, <3>1
    <2>4. ListingExact(p)'
      BY <2>2, <2>3 DEF ListingExact
    <2>5. ProcessInv(p)'
      BY <2>2, <2>4 DEF ProcessInv
    <2> QED BY <1>1, <1>3, <2>1, <2>5, OwnStep DEF ResumeTypeOK, Ask, Moves
  <1> QED BY <1>2, <1>3 DEF resume, commitUpload

\* What the pages up to this one have found: all that was good all the time and
\* stands before the new marker, or at all when this page is the last.
LEMMA FoundIsExact ==
  ASSUME ResumeInv, NEW p \in Process, ppc[p] \in {"parts", "commit"},
         NEW found, found = listed[p] \cup (Page(marker[p]) \cap Good)
  PROVE  /\ found \subseteq ever[p] /\ found \subseteq Part
         /\ IsTruncated(marker[p]) =>
              /\ Max(Page(marker[p])) \in Part
              /\ \A k \in always[p] : k <= Max(Page(marker[p])) => k \in found
         /\ ~IsTruncated(marker[p]) => always[p] \subseteq found
  <1>1. ResumeTypeOK /\ ListingExact(p)
    BY ResumeParts DEF ProcessInv
  <1>2. /\ marker[p] \in Nat /\ listed[p] \subseteq Part /\ always[p] \subseteq Part
        /\ Page(marker[p]) \subseteq Part /\ \A k \in Part : k \in Nat
    <2>1. \A k \in Part : k \in Nat
      BY PartsAreNumbers
    <2>2. marker[p] \in {0} \cup Part
      BY <1>1 DEF ResumeTypeOK
    <2>3. listed[p] \subseteq Part /\ always[p] \subseteq Part
      BY <1>1 DEF ResumeTypeOK
    <2>4. Page(marker[p]) \subseteq Part
      BY DEF Page, Beyond
    <2> QED BY <2>1, <2>2, <2>3, <2>4
  <1>3. ASSUME NEW k \in always[p], k > marker[p]
        PROVE  k \in Beyond(marker[p]) /\ k \in Good
    BY <1>1, <1>2, <1>3 DEF ListingExact, Good, Beyond
  <1>4. found \subseteq ever[p] /\ found \subseteq Part
    BY <1>1, <1>2 DEF ListingExact
  <1>5. ASSUME IsTruncated(marker[p])
        PROVE  /\ Max(Page(marker[p])) \in Part
               /\ \A k \in always[p] : k <= Max(Page(marker[p])) => k \in found
    <2>1. Max(Page(marker[p])) \in Page(marker[p])
      BY <1>2, <1>5, PageHasMax
    <2>2. ASSUME NEW k \in always[p], k <= Max(Page(marker[p])), k > marker[p]
          PROVE  k \in found
      BY <1>2, <1>3, <2>1, <2>2, PageIsAStart
    <2>3. ASSUME NEW k \in always[p], k <= marker[p] PROVE k \in found
      BY <1>1, <2>3 DEF ListingExact
    <2>4. \A k \in always[p] : k > marker[p] \/ k <= marker[p]
      <3>1. \A k \in always[p] : k \in Nat
        BY <1>2
      <3> QED BY <1>2, <3>1
    <2> QED BY <1>2, <2>1, <2>2, <2>3, <2>4
  <1>6. ASSUME ~IsTruncated(marker[p]) PROVE always[p] \subseteq found
    <2>1. ASSUME NEW k \in always[p], k > marker[p] PROVE k \in found
      BY <1>3, <1>6, <2>1 DEF IsTruncated
    <2>2. ASSUME NEW k \in always[p], k <= marker[p] PROVE k \in found
      BY <1>1, <2>2 DEF ListingExact
    <2>3. \A k \in always[p] : k > marker[p] \/ k <= marker[p]
      <3>1. \A k \in always[p] : k \in Nat
        BY <1>2
      <3> QED BY <1>2, <3>1
    <2> QED BY <2>1, <2>2, <2>3
  <1> QED BY <1>4, <1>5, <1>6

\* One page of listAllParts, and what is done after the last one.
LEMMA ListKeeps ==
  ASSUME ResumeInv, NEW p \in Process, listAllParts(p)
  PROVE  ResumeInv'
  <1>1. ResumeTypeOK /\ ProcessInv(p) /\ ppc[p] \in {"parts", "commit"}
    BY ResumeParts DEF listAllParts
  <1> DEFINE page == Page(marker[p])
             found == listed[p] \cup (page \cap Good)
  <1>2. /\ found \subseteq ever[p] /\ found \subseteq Part
        /\ IsTruncated(marker[p]) =>
             Max(page) \in Part /\ \A k \in always[p] : k <= Max(page) => k \in found
        /\ ~IsTruncated(marker[p]) => always[p] \subseteq found
    BY <1>1, FoundIsExact
  <1>3. UNCHANGED <<fileStatus, stored, flying, deaths>>
    BY DEF listAllParts
  <1>4. CASE /\ IsTruncated(marker[p])
             /\ listed' = [listed EXCEPT ![p] = found]
             /\ marker' = [marker EXCEPT ![p] = Max(page)]
             /\ UNCHANGED <<ppc, todo, always, ever>>
    <2> HIDE DEF page, found
    <2>1. ResumeTypeOK'
      BY <1>1, <1>2, <1>3, <1>4 DEF ResumeTypeOK
    <2>2. Good' = Good
      BY <1>3 DEF Good
    <2>3. listed'[p] = found /\ marker'[p] = Max(page)
      BY <1>1, <1>4 DEF ResumeTypeOK
    <2>4. ListingExact(p)'
      BY <1>1, <1>2, <1>4, <2>2, <2>3 DEF ProcessInv, ListingExact
    <2>5. ProcessInv(p)'
      BY <1>1, <1>4, <2>4 DEF ProcessInv
    <2> QED BY <1>1, <1>3, <1>4, <2>1, <2>5, OwnStep DEF ResumeTypeOK
  <1>5. CASE ~IsTruncated(marker[p]) /\ Listed(p, found)
    <2> HIDE DEF found
    <2>1. CASE /\ ppc[p] = "parts" /\ Moves(p, "sending")
               /\ todo' = [todo EXCEPT ![p] = Part \ found]
               /\ listed' = [listed EXCEPT ![p] = found]
               /\ UNCHANGED <<marker, always, ever>>
      <3>1. ResumeTypeOK'
        BY <1>1, <1>2, <1>3, <2>1 DEF ResumeTypeOK, Moves
      <3>2. ppc'[p] = "sending" /\ todo'[p] = Part \ found
        BY <1>1, <2>1 DEF ResumeTypeOK, Moves
      <3>3. ProcessInv(p)'
        BY <1>2, <1>5, <2>1, <3>2 DEF ProcessInv
      <3> QED BY <1>1, <1>3, <2>1, <3>1, <3>3, OwnStep DEF ResumeTypeOK, Moves
    <2>2. CASE /\ ppc[p] = "commit" /\ found = Part /\ Moves(p, "complete")
               /\ listed' = [listed EXCEPT ![p] = found]
               /\ UNCHANGED <<marker, todo, always, ever>>
      <3>1. ResumeTypeOK'
        BY <1>1, <1>2, <1>3, <2>2 DEF ResumeTypeOK, Moves
      <3>2. ppc'[p] = "complete" /\ ever'[p] = Part
        BY <1>1, <1>2, <2>2 DEF ResumeTypeOK, Moves
      <3>3. ProcessInv(p)'
        BY <3>2 DEF ProcessInv
      <3> QED BY <1>1, <1>3, <2>2, <3>1, <3>3, OwnStep DEF ResumeTypeOK, Moves
    <2>3. CASE Ends(p)
      BY <1>1, <1>3, <2>3, EndsKeeps DEF ResumeTypeOK
    <2> QED BY <1>5, <2>1, <2>2, <2>3 DEF Listed
  <1>6. CASE Ends(p)
    BY <1>1, <1>3, <1>6, EndsKeeps DEF ResumeTypeOK
  <1> QED BY <1>4, <1>5, <1>6 DEF listAllParts

\* putPart: the part of the least number goes on its way.
LEMMA PutKeeps ==
  ASSUME ResumeInv, NEW p \in Process, putPart(p)
  PROVE  ResumeInv'
  <1>1. ResumeTypeOK /\ ProcessInv(p)
    BY ResumeParts
  <1>2. Min(todo[p]) \in Part
    <2>1. todo[p] \subseteq Part /\ todo[p] \subseteq Nat /\ todo[p] # {}
      BY <1>1, PartsAreNumbers DEF ResumeTypeOK, putPart
    <2> QED BY <2>1, MinOf
  <1>3. ResumeTypeOK'
    BY <1>1, <1>2 DEF ResumeTypeOK, putPart, Moves
  <1>4. ProcessInv(p)'
    BY <1>1 DEF ResumeTypeOK, putPart, Moves, ProcessInv
  <1> QED BY <1>1, <1>3, <1>4, OwnStep DEF ResumeTypeOK, putPart, Moves

\* A PUT arrives, of a living client or late: the sender has one part less to
\* send, which has been good since.
LEMMA LandKeeps ==
  ASSUME ResumeInv, NEW p \in Process, NEW n \in Part, land(p, n) \/ landLate(p, n)
  PROVE  ResumeInv'
  <1>1. ResumeTypeOK /\ \A q \in Process : ProcessInv(q)
    BY ResumeParts
  <1>2. flying' \subseteq Process \X Part /\ fileStatus' = fileStatus /\ deaths' = deaths
    BY <1>1 DEF ResumeTypeOK, land, landLate
  <1>3. CASE /\ ppc[p] = "put" /\ Store(n, "good") /\ Moves(p, "sending")
             /\ todo' = [todo EXCEPT ![p] = @ \ {n}] /\ UNCHANGED <<marker, listed>>
    <2>1. /\ stored' \in [Part -> {"none", "short", "good"}]
          /\ always' \in [Process -> SUBSET Part] /\ ever' \in [Process -> SUBSET Part]
          /\ always'[p] \subseteq always[p] /\ ever[p] \subseteq ever'[p]
          /\ n \in ever'[p]
      BY <1>3, StoreKeeps
    <2>2. ppc'[p] = "sending" /\ todo'[p] = todo[p] \ {n}
      BY <1>1, <1>3 DEF ResumeTypeOK, Moves
    <2>3. ResumeTypeOK'
      BY <1>1, <1>2, <1>3, <2>1 DEF ResumeTypeOK, Moves
    <2>4. ProcessInv(p)'
      BY <1>1, <1>3, <2>1, <2>2 DEF ProcessInv
    <2>5. ASSUME NEW q \in Process \ {p} PROVE ProcessInv(q)'
      <3>1. /\ ppc'[q] = ppc[q] /\ marker'[q] = marker[q]
            /\ listed'[q] = listed[q] /\ todo'[q] = todo[q]
        BY <1>1, <1>3 DEF ResumeTypeOK, Moves
      <3> QED BY <1>3, <3>1, StoreKeepsOthers
    <2> QED BY <2>3, <2>4, <2>5, ResumePartsNext
  <1>4. CASE Ends(p) /\ UNCHANGED stored
    BY <1>1, <1>2, <1>4, EndsKeeps DEF ResumeTypeOK
  <1>5. CASE /\ \E b \in {"good", "short"} : Store(n, b)
             /\ UNCHANGED <<ppc, marker, listed, todo>>
    <2>1. PICK b \in {"good", "short"} : Store(n, b)
      BY <1>5
    <2>2. /\ stored' \in [Part -> {"none", "short", "good"}]
          /\ always' \in [Process -> SUBSET Part] /\ ever' \in [Process -> SUBSET Part]
      BY <2>1, StoreKeeps
    <2>3. ResumeTypeOK'
      BY <1>1, <1>2, <1>5, <2>2 DEF ResumeTypeOK
    <2>4. \A q \in Process : ProcessInv(q)'
      BY <1>5, <2>1, StoreKeepsOthers
    <2> QED BY <2>3, <2>4, ResumePartsNext
  <1>6. CASE UNCHANGED <<stored, always, ever, ppc, marker, listed, todo>>
    <2>1. ResumeTypeOK'
      BY <1>1, <1>2, <1>6 DEF ResumeTypeOK
    <2>2. \A q \in Process : ProcessInv(q)'
      BY <1>1, <1>6, OthersStay
    <2> QED BY <2>1, <2>2, ResumePartsNext
  <1> QED BY <1>3, <1>4, <1>5, <1>6 DEF land, landLate

\* The steps with which a process ends.
LEMMA LastStepKeeps ==
  ASSUME ResumeInv, NEW p \in Process,
         finish(p) \/ complete(p) \/ urlExpires(p) \/ die(p)
  PROVE  ResumeInv'
  <1>1. ResumeTypeOK
    BY ResumeParts
  <1>2. Ends(p) /\ stored' = stored /\ flying' = flying
    BY DEF finish, complete, urlExpires, die
  <1>3. fileStatus' \in {"absent", "PENDING", "COMPLETED"}
    BY <1>1 DEF ResumeTypeOK, finish, complete, urlExpires, die
  <1>4. deaths' \in 0..MaxDeaths
    BY <1>1, ResumeAssumption DEF ResumeTypeOK, finish, complete, urlExpires, die
  <1> QED BY <1>1, <1>2, <1>3, <1>4, EndsKeeps DEF ResumeTypeOK

\* client-mpu.ts and listAllParts (files.service.ts): the invariant holds in
\* every reachable state, for every size of the upload and of a page, any number
\* of processes and of deaths.
THEOREM ResumeInvariant == ResumeSpec => []ResumeInv
  <1>1. ResumeInv /\ [ResumeNext]_uploadVars => ResumeInv'
    <2> SUFFICES ASSUME ResumeInv, [ResumeNext]_uploadVars PROVE ResumeInv'
      OBVIOUS
    <2>1. CASE UNCHANGED uploadVars
      <3>1. ResumeTypeOK'
        BY <2>1, ResumeParts DEF uploadVars, ResumeTypeOK
      <3>2. \A q \in Process : ProcessInv(q)'
        BY <2>1, ResumeParts, OthersStay DEF uploadVars
      <3> QED BY <3>1, <3>2, ResumePartsNext
    <2>2. CASE ResumeNext
      <3>1. PICK p \in Process :
              start(p) \/ resume(p) \/ commitUpload(p) \/ ProcessStep(p)
                \/ urlExpires(p) \/ die(p)
        BY <2>2 DEF ResumeNext
      <3> QED BY <3>1, BeginKeeps, ListKeeps, PutKeeps, LandKeeps, LastStepKeeps
              DEF ProcessStep
    <2> QED BY <2>1, <2>2
  <1> QED BY <1>1, ResumeInitInv, PTL DEF ResumeSpec

\* GET /uploads/:id/parts and commit: a resumed client sends the missing parts
\* and no other, and a commit that goes on has found every part, whatever
\* arrives while the server reads the pages.
THEOREM ResumeResumeIsExact == ResumeSpec => []ResumeIsExact
  <1>1. ResumeInv => ResumeIsExact
    BY DEF ResumeInv
  <1> QED BY <1>1, ResumeInvariant, PTL
=============================================================================
