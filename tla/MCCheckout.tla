----------------------------- MODULE MCCheckout -----------------------------
(* Checkout on small shops. *)
EXTENDS Checkout, TLC

CONSTANTS a1, a2, a3, k1, k2, p1, p2, u1, u2

MCAttempt == {a1, a2, a3}

MCCall(k, b, p, q) == [key |-> k, buyer |-> b, product |-> p, quantity |-> q]

\* Three attempts choose among these: a key repeated with the same and with
\* another body, and two calls that share its buyer or its product. u1 can pay
\* for a single unit of p1 and for p2 but not for more, u2 cannot pay at all.
MCCalls ==
  { MCCall(k1, u1, p1, 1), MCCall(k1, u1, p1, 2), MCCall(k2, u1, p2, 1),
    MCCall(None, u2, p1, 2) }

MCPrice == p1 :> 2 @@ p2 :> 3
MCStock == p1 :> 2 @@ p2 :> 1
MCBalance == u1 :> 5 @@ u2 :> 3
=============================================================================
