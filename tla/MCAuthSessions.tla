--------------------------- MODULE MCAuthSessions ---------------------------
(* AuthSessions for TLC: which request gets which slot is immaterial. *)
EXTENDS AuthSessions, TLC

Symmetric == Permutations(Req)
=============================================================================
