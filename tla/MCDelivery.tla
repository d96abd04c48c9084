----------------------------- MODULE MCDelivery -----------------------------
(* Delivery on small instances. *)
EXTENDS Delivery, TLC

MCSymmetry == Permutations(Copy) \cup Permutations(Relay) \cup Permutations(Consumer)
=============================================================================
