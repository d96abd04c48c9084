------------------------------ MODULE TxRetry -------------------------------
(***************************************************************************)
(* withRetry (src/concurrency/lib.ts) around the read-modify-write of      *)
(* src/demo-retry.ts: SELECT balance, think, UPDATE balance, all under     *)
(* REPEATABLE READ. Postgres lets the first updater win: an UPDATE waits   *)
(* for the row's lock and fails with 40001 if the row was changed after    *)
(* the transaction's snapshot.                                             *)
(***************************************************************************)
EXTENDS Integers, FiniteSets

CONSTANTS
  Tx,               \* calls of withRetry on the same row
  Delta,            \* what each adds to the balance
  StartBalance,
  maxAttempts,
  Nobody

ASSUME RetryAssumption ==
  /\ IsFiniteSet(Tx) /\ Nobody \notin Tx
  /\ Delta \in [Tx -> Int] /\ StartBalance \in Int /\ maxAttempts \in Nat \ {0}

VARIABLES
  balance,          \* users.balance, committed
  version,          \* number of commits that changed the row
  rowLock,          \* the transaction whose UPDATE has the row locked
  tpc, attempt,     \* where a call is, and its attempt
  snapshot,         \* version its SELECT saw
  seen,             \* balance its SELECT saw
  applied           \* history: calls whose transaction committed

retryVars == <<balance, version, rowLock, tpc, attempt, snapshot, seen, applied>>

RetryTypeOK ==
  /\ balance \in Int /\ version \in Nat /\ rowLock \in Tx \cup {Nobody}
  /\ tpc \in [Tx -> {"select", "update", "commit", "done", "gave_up", "failed"}]
  /\ attempt \in [Tx -> 1..maxAttempts]
  /\ snapshot \in [Tx -> Nat] /\ seen \in [Tx -> Int] /\ applied \subseteq Tx

RetryInit ==
  /\ balance = StartBalance /\ version = 0 /\ rowLock = Nobody
  /\ tpc = [t \in Tx |-> "select"] /\ attempt = [t \in Tx |-> 1]
  /\ snapshot = [t \in Tx |-> 0] /\ seen = [t \in Tx |-> 0] /\ applied = {}

\* START TRANSACTION, SELECT: the snapshot is taken.
selectBalance(t) ==
  /\ tpc[t] = "select" /\ tpc' = [tpc EXCEPT ![t] = "update"]
  /\ snapshot' = [snapshot EXCEPT ![t] = version]
  /\ seen' = [seen EXCEPT ![t] = balance]
  /\ UNCHANGED <<balance, version, rowLock, attempt, applied>>

\* UPDATE: waits for the row, and locks it if it is the one of the snapshot.
updateBalance(t) ==
  /\ tpc[t] = "update" /\ rowLock = Nobody /\ version = snapshot[t]
  /\ rowLock' = t /\ tpc' = [tpc EXCEPT ![t] = "commit"]
  /\ UNCHANGED <<balance, version, attempt, snapshot, seen, applied>>

\* Mutant: only the UPDATE is repeated.
retryWriteOnly(t) ==
  /\ tpc[t] = "update" /\ rowLock = Nobody /\ version # snapshot[t]
  /\ attempt[t] < maxAttempts /\ attempt' = [attempt EXCEPT ![t] = @ + 1]
  /\ snapshot' = [snapshot EXCEPT ![t] = version]
  /\ UNCHANGED <<balance, version, rowLock, tpc, seen, applied>>

\* 40001: ROLLBACK, and the whole transaction again after a backoff.
retry(t) ==
  /\ tpc[t] = "update" /\ rowLock = Nobody /\ version # snapshot[t]
  /\ attempt[t] < maxAttempts /\ attempt' = [attempt EXCEPT ![t] = @ + 1]
  /\ tpc' = [tpc EXCEPT ![t] = "select"]
  /\ UNCHANGED <<balance, version, rowLock, snapshot, seen, applied>>

\* Mutant: the first call is not counted as an attempt of its own.
giveUpEarly(t) ==
  /\ tpc[t] = "update" /\ rowLock = Nobody /\ version # snapshot[t]
  /\ attempt[t] >= maxAttempts - 1
  /\ tpc' = [tpc EXCEPT ![t] = "gave_up"]
  /\ UNCHANGED <<balance, version, rowLock, attempt, snapshot, seen, applied>>

\* 40001 on the last attempt: the error is thrown.
giveUp(t) ==
  /\ tpc[t] = "update" /\ rowLock = Nobody /\ version # snapshot[t]
  /\ attempt[t] >= maxAttempts
  /\ tpc' = [tpc EXCEPT ![t] = "gave_up"]
  /\ UNCHANGED <<balance, version, rowLock, attempt, snapshot, seen, applied>>

\* COMMIT; the caller may lose the answer, which is no reason to repeat.
commit(t) ==
  /\ tpc[t] = "commit"
  /\ \E end \in {"done", "failed"} : tpc' = [tpc EXCEPT ![t] = end]
  /\ balance' = seen[t] + Delta[t] /\ version' = version + 1
  /\ rowLock' = Nobody /\ applied' = applied \cup {t}
  /\ UNCHANGED <<attempt, snapshot, seen>>

\* Any other error: ROLLBACK, thrown at once.
fail(t) ==
  /\ tpc[t] \in {"select", "update", "commit"}
  /\ tpc' = [tpc EXCEPT ![t] = "failed"]
  /\ rowLock' = IF rowLock = t THEN Nobody ELSE rowLock
  /\ UNCHANGED <<balance, version, attempt, snapshot, seen, applied>>

RetryStep(t) ==
  \/ selectBalance(t) \/ updateBalance(t) \/ retry(t) \/ giveUp(t) \/ commit(t)

RetryNext == \E t \in Tx : RetryStep(t) \/ fail(t)

RetrySpec == RetryInit /\ [][RetryNext]_retryVars

-----------------------------------------------------------------------------
\* No lost update: withRetry's transactions change the balance as atomic
\* adjustments do, each of them once.
Atomic == INSTANCE AtomicAdjust WITH balance <- balance, applied <- applied
ImplementsAdjust == Atomic!Spec

\* With no more callers than attempts nobody runs out of them: each 40001 is
\* due to a commit of another caller, and every caller commits once.
NobodyGivesUp ==
  Cardinality(Tx) <= maxAttempts => \A t \in Tx : tpc[t] # "gave_up"

\* The inductive invariant: an attempt is paid for by a commit, and the holder
\* of the row's lock has seen the balance that is there.
RetryInv ==
  /\ RetryTypeOK
  /\ version = Cardinality(applied)
  /\ \A t \in Tx :
       /\ tpc[t] \in {"select", "update", "commit", "gave_up"} => t \notin applied
       /\ tpc[t] = "select" => attempt[t] <= version + 1
       /\ tpc[t] \in {"update", "commit"} =>
            attempt[t] <= snapshot[t] + 1 /\ snapshot[t] <= version
       /\ (tpc[t] = "update" /\ snapshot[t] = version) => seen[t] = balance
       /\ tpc[t] = "commit" =>
            rowLock = t /\ snapshot[t] = version /\ seen[t] = balance
  /\ NobodyGivesUp
=============================================================================
