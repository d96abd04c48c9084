----------------------------- MODULE MCProgress -----------------------------
(***************************************************************************)
(* What must get on: reads through the card cache and the job behind it,   *)
(* retried transactions, walks through the pages of a list, the pool while *)
(* the password changes, the workers of the job queue, and uploads that are*)
(* resumed. They share no state, so a behaviour follows one of them, chosen*)
(* at the start; the fairness of each is stated for its own part.          *)
(***************************************************************************)
EXTENDS CardCache, TxRetry, Pages, PasswordRotation, JobQueue, Resume

CONSTANTS t1, t2, t3, u1
MCDelta == t1 :> 1 @@ t2 :> 2 @@ t3 :> 4
MCOrders == <<u1>>

\* InOrder and Kept are SelectSeq, here of every set of up to five positions.
ASSUME KeptIsSelectSeq ==
  \A I \in SUBSET (1..5) :
    LET selected == SelectSeq([i \in 1..5 |-> i], LAMBDA i : i \in I)
    IN  /\ InOrder(I) = selected
        /\ Kept([i \in 1..5 |-> 2 * i], I) = [k \in DOMAIN selected |-> 2 * selected[k]]

VARIABLE part

vars == <<part, cardVars, retryVars, pageVars, rotateVars, jobVars, uploadVars>>

Init ==
  /\ part \in {"cache", "retry", "pages", "password", "jobs", "resume"}
  /\ CardInit /\ RetryInit /\ PagesInit /\ PasswordInit /\ JobInit
  /\ ResumeInit

Next ==
  /\ UNCHANGED part
  /\ \/ /\ part = "cache" /\ CardNext
        /\ UNCHANGED <<retryVars, pageVars, rotateVars, jobVars, uploadVars>>
     \/ /\ part = "retry" /\ RetryNext
        /\ UNCHANGED <<cardVars, pageVars, rotateVars, jobVars, uploadVars>>
     \/ /\ part = "pages" /\ PagesNext
        /\ UNCHANGED <<cardVars, retryVars, rotateVars, jobVars, uploadVars>>
     \/ /\ part = "password" /\ PasswordNext
        /\ UNCHANGED <<cardVars, retryVars, pageVars, jobVars, uploadVars>>
     \/ /\ part = "jobs" /\ JobNext
        /\ UNCHANGED <<cardVars, retryVars, pageVars, rotateVars, uploadVars>>
     \/ /\ part = "resume" /\ ResumeNext
        /\ UNCHANGED <<cardVars, retryVars, pageVars, rotateVars, jobVars>>

\* A card has a TTL; a get() that has begun goes on (a new one need not come).
CacheFairness ==
  /\ WF_cardVars(part = "cache" /\ CardLeaves)
  /\ \A r \in Reader : WF_cardVars(part = "cache" /\ cpc[r] # "idle" /\ ReaderStep(r))

\* Queries come again and again, PgBouncer serves or refuses those that wait;
\* rotations need not come.
PoolFairness ==
  /\ \A c \in Conn :
       /\ WF_rotateVars(part = "password" /\ PoolStep(c))
       /\ WF_rotateVars(part = "password" /\ refuse(c))
  /\ \A s \in Server : WF_rotateVars(part = "password" /\ ServerStep(s))

\* As in JobFairSpec.
WorkerFairness == \A w \in Worker : WF_jobVars(part = "jobs" /\ WorkerStep(w))

\* A client process goes on and its requests arrive or are lost; who has not got
\* the file yet resumes the upload and asks for the commit again and again.
UploaderFairness ==
  /\ \A p \in Process : WF_uploadVars(part = "resume" /\ ProcessStep(p))
  /\ SF_uploadVars(part = "resume" /\ \E p \in Process : resume(p))
  /\ SF_uploadVars(part = "resume" /\ \E p \in Process : commitUpload(p))

Spec ==
  /\ Init /\ [][Next]_vars
  /\ CacheFairness /\ PoolFairness /\ WorkerFairness /\ UploaderFairness

\* PoolRecovers, of the behaviours that follow the pool.
PoolComesBack == part = "password" => PoolRecovers
=============================================================================
