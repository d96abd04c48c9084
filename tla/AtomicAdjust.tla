---------------------------- MODULE AtomicAdjust ----------------------------
(***************************************************************************)
(* What withRetry promises to a read-modify-write of a balance: each       *)
(* adjustment is applied once, at one moment, to the balance of that       *)
(* moment, or not at all. TxRetry.tla implements it.                       *)
(***************************************************************************)
EXTENDS Integers

CONSTANTS Tx, Delta, StartBalance

VARIABLES balance, applied

Init == balance = StartBalance /\ applied = {}

Adjust(t) ==
  /\ t \notin applied /\ applied' = applied \cup {t}
  /\ balance' = balance + Delta[t]

Next == \E t \in Tx : Adjust(t)

Spec == Init /\ [][Next]_<<balance, applied>>
=============================================================================
