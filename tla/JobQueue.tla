------------------------------ MODULE JobQueue ------------------------------
(***************************************************************************)
(* The worker pool over job_queue (src/queue-worker.ts): each worker claims*)
(* one row with FOR UPDATE SKIP LOCKED, works while it holds the row's     *)
(* lock, and commits status = 'done' with the lock. A worker leaves the    *)
(* pool when a count finds no 'new' row, or when claimOne throws.          *)
(***************************************************************************)
EXTENDS Integers, FiniteSets

CONSTANTS
  Job,              \* jobs, by id (ORDER BY id)
  Worker,
  None,
  MaxFaults         \* workers that may throw or die

ASSUME JobQueueAssumption ==
  /\ Job \subseteq Nat
  /\ None \notin Worker \cup Job
  /\ MaxFaults \in Nat

VARIABLES
  status,           \* job_queue.status; "absent" before its checkout commits
  processed,        \* job_queue.processed
  doneBy,           \* job_queue.worker
  holder,           \* holder[j]: the transaction that has row j locked
  wpc,              \* wpc[w]: where runWorker is
  job,              \* job[w]: the row w claimed
  faults

jobVars == <<status, processed, doneBy, holder, wpc, job, faults>>

JobTypeOK ==
  /\ status \in [Job -> {"absent", "new", "done"}]
  /\ processed \in [Job -> Nat]
  /\ doneBy \in [Job -> Worker \cup {None}]
  /\ holder \in [Job -> Worker \cup {None}]
  /\ wpc \in [Worker -> {"claim", "update", "count", "returned", "failed"}]
  /\ job \in [Worker -> Job \cup {None}]
  /\ faults \in 0..MaxFaults

JobInit ==
  /\ status = [j \in Job |-> "absent"]
  /\ processed = [j \in Job |-> 0]
  /\ doneBy = [j \in Job |-> None]
  /\ holder = [j \in Job |-> None]
  /\ wpc = [w \in Worker |-> "claim"]
  /\ job = [w \in Worker |-> None]
  /\ faults = 0

\* A checkout commits its job row (Checkout.tla). Ids are handed out before
\* COMMIT, so rows may appear out of order.
Enqueue(j) ==
  /\ status[j] = "absent"
  /\ status' = [status EXCEPT ![j] = "new"]
  /\ UNCHANGED <<processed, doneBy, holder, wpc, job, faults>>

New == {j \in Job : status[j] = "new"}

\* Mutant: FOR UPDATE replaced by a plain SELECT.
ClaimUnlocked(w) ==
  /\ wpc[w] = "claim"
  /\ \E j \in New :
       /\ \A i \in New : j <= i
       /\ holder' = [holder EXCEPT ![j] = w]
       /\ job' = [job EXCEPT ![w] = j]
  /\ wpc' = [wpc EXCEPT ![w] = "update"]
  /\ UNCHANGED <<status, processed, doneBy, faults>>

\* BEGIN; SELECT the first 'new' row nobody has locked. The work itself runs
\* between this step and Finish, under the row lock.
ClaimOne(w) ==
  /\ wpc[w] = "claim"
  /\ LET free == {j \in New : holder[j] = None} IN
       \E j \in free :
         /\ \A i \in free : j <= i
         /\ holder' = [holder EXCEPT ![j] = w]
         /\ job' = [job EXCEPT ![w] = j]
  /\ wpc' = [wpc EXCEPT ![w] = "update"]
  /\ UNCHANGED <<status, processed, doneBy, faults>>

\* No free row now: claimOne returns 'empty'.
ClaimEmpty(w) ==
  /\ wpc[w] = "claim"
  /\ \A j \in New : holder[j] # None
  /\ wpc' = [wpc EXCEPT ![w] = "count"]
  /\ UNCHANGED <<status, processed, doneBy, holder, job, faults>>

Release(w) ==
  /\ holder' = [j \in Job |-> IF holder[j] = w THEN None ELSE holder[j]]
  /\ job' = [job EXCEPT ![w] = None]

\* UPDATE ... SET status = 'done', processed = processed + 1; COMMIT. If the
\* answer to COMMIT is lost, claimOne throws although the job is done.
Finish(w) ==
  /\ wpc[w] = "update"
  /\ status' = [status EXCEPT ![job[w]] = "done"]
  /\ processed' = [processed EXCEPT ![job[w]] = @ + 1]
  /\ doneBy' = [doneBy EXCEPT ![job[w]] = w]
  /\ Release(w)
  /\ \/ wpc' = [wpc EXCEPT ![w] = "claim"] /\ UNCHANGED faults
     \/ /\ faults < MaxFaults /\ faults' = faults + 1
        /\ wpc' = [wpc EXCEPT ![w] = "failed"]

\* Mutant: an empty SELECT is taken for an empty queue.
CountAlwaysZero(w) ==
  /\ wpc[w] = "count"
  /\ wpc' = [wpc EXCEPT ![w] = "returned"]
  /\ UNCHANGED <<status, processed, doneBy, holder, job, faults>>

\* SELECT count(*) of the 'new' rows, locked ones included.
Count(w) ==
  /\ wpc[w] = "count"
  /\ wpc' = [wpc EXCEPT ![w] = IF New = {} THEN "returned" ELSE "claim"]
  /\ UNCHANGED <<status, processed, doneBy, holder, job, faults>>

\* A statement throws or the worker dies: its transaction rolls back, the
\* row is free and still 'new'; runWorker rejects.
WorkerFails(w) ==
  /\ wpc[w] \in {"claim", "update", "count"}
  /\ faults < MaxFaults /\ faults' = faults + 1
  /\ Release(w)
  /\ wpc' = [wpc EXCEPT ![w] = "failed"]
  /\ UNCHANGED <<status, processed, doneBy>>

WorkerStep(w) == ClaimOne(w) \/ ClaimEmpty(w) \/ Finish(w) \/ Count(w)

JobNext ==
  \/ \E j \in Job : Enqueue(j)
  \/ \E w \in Worker : WorkerStep(w) \/ WorkerFails(w)

JobSpec == JobInit /\ [][JobNext]_jobVars

\* The loop of a running worker goes on; workMs and the 20 ms pause end.
JobFairSpec == JobSpec /\ \A w \in Worker : WF_jobVars(WorkerStep(w))

-----------------------------------------------------------------------------
\* job-queue.entity.ts: processed is exactly 1 for a processed job; more
\* would mean that two workers had the same row. A job is done by one worker
\* and is never counted before it is done.
ProcessedOnce ==
  \A j \in Job :
    /\ processed[j] = (IF status[j] = "done" THEN 1 ELSE 0)
    /\ status[j] = "done" <=> doneBy[j] # None

\* A job that is 'new' while the whole pool is still at work gets done, even
\* when the worker that had claimed it dies: nobody leaves the pool because
\* the rest of the queue was merely locked. Only a pool whose every worker
\* died leaves jobs behind.
NoJobAbandoned ==
  \A j \in Job :
    (status[j] = "new" /\ \A w \in Worker : wpc[w] # "returned")
      ~> (status[j] = "done" \/ \A w \in Worker : wpc[w] = "failed")

\* Inductive: a worker past its claim holds the row it works on, which is
\* still 'new'; nobody holds anything else.
JobInv ==
  /\ JobTypeOK
  /\ ProcessedOnce
  /\ \A w \in Worker :
       wpc[w] = "update" => /\ job[w] \in Job
                            /\ holder[job[w]] = w
                            /\ status[job[w]] = "new"
  /\ \A j \in Job :
       holder[j] # None => wpc[holder[j]] = "update" /\ job[holder[j]] = j
=============================================================================
