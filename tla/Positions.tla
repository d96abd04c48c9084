----------------------------- MODULE Positions ------------------------------
(***************************************************************************)
(* Array.prototype.filter keeps the elements at some positions of an array,*)
(* in order. The positions kept are a set I of numbers, and InOrder(I) is  *)
(* what SelectSeq would make of them, without its recursion.               *)
(***************************************************************************)
EXTENDS Naturals, FiniteSets

\* The numbers of I that have k numbers of I up to them, themselves included.
Ranked(I, k) == {i \in I : Cardinality({j \in I : j <= i}) = k}

Nth(I, k) == CHOOSE i \in Ranked(I, k) : TRUE

\* The numbers of I, from the least on.
InOrder(I) == [k \in 1..Cardinality(I) |-> Nth(I, k)]

\* The elements of s at the positions I.
Kept(s, I) == [k \in 1..Cardinality(I) |-> s[Nth(I, k)]]
=============================================================================
