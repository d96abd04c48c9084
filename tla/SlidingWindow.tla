--------------------------- MODULE SlidingWindow ----------------------------
(***************************************************************************)
(* What the limiter promises about one client, with no Redis in sight: a   *)
(* request is admitted only if fewer than limit were in the window that    *)
(* ends now; a fail-open limiter may also leak requests past the count.    *)
(* RateLimiter.tla implements it.                                          *)
(***************************************************************************)
EXTENDS Integers, FiniteSets

CONSTANTS Window, Request

VARIABLES
  time, limit, failOpen,
  admitted,         \* <<time, request>> of the requests that were admitted
  leaked            \* a request passed that was not counted

wvars == <<time, limit, failOpen, admitted, leaked>>

Recent(set, t) == {a \in set : t - Window < a[1] /\ a[1] <= t}

Init ==
  /\ time = 0 /\ limit \in Nat /\ failOpen \in BOOLEAN
  /\ admitted = {} /\ leaked = FALSE

Advance == time' = time + 1 /\ UNCHANGED <<limit, failOpen, admitted, leaked>>

Admit(q) ==
  /\ Cardinality(Recent(admitted, time)) < limit
  /\ admitted' = admitted \cup {<<time, q>>}
  /\ UNCHANGED <<time, limit, failOpen, leaked>>

Leak == failOpen /\ leaked' = TRUE /\ UNCHANGED <<time, limit, failOpen, admitted>>

\* The count is gone and starts anew.
Forget == admitted' = {} /\ UNCHANGED <<time, limit, failOpen, leaked>>

Next == Advance \/ Leak \/ Forget \/ \E q \in Request : Admit(q)

Spec == Init /\ [][Next]_wvars
=============================================================================
