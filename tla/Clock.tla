------------------------------- MODULE Clock --------------------------------
(* The time that expiries are compared with: Redis TIME, or Date.now(). *)
EXTENDS Integers

CONSTANTS
  MaxTime,          \* bound: the last instant
  None              \* nothing there

ASSUME ClockAssumption == MaxTime \in Nat /\ None \notin Nat

VARIABLE now

Later == now < MaxTime /\ now' = now + 1
=============================================================================
