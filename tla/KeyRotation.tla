---------------------------- MODULE KeyRotation -----------------------------
(***************************************************************************)
(* Rotation of the key that signs access tokens with an overlap, on several*)
(* instances of the API that restart one by one (src/auth/token.service.ts,*)
(* src/config/env.schema.ts). A key pair is a number, its kid the same     *)
(* number unless the operator mixes something up. The operator follows the *)
(* README: the old public key becomes JWT_PREVIOUS_*, and is removed a     *)
(* token lifetime after the last instance has the new pair.                *)
(***************************************************************************)
EXTENDS Clock

CONSTANTS
  Instance,
  TokenTtl,         \* ACCESS_TOKEN_TTL_SEC
  MaxKey            \* bound: key pairs after the first, which is 0

Pair == 0..MaxKey

ASSUME RotationAssumption ==
  TokenTtl \in Nat \ {0} /\ MaxKey \in Nat /\ Instance # {}

VARIABLES
  env,              \* the environment an instance starts with
  conf,             \* conf[i]: the environment i runs with, None while it is down
  tokens,           \* access tokens that were issued and have not expired
  switchedAt,       \* when an instance was last given a new pair
  stage             \* "steady", or "overlap" while JWT_PREVIOUS_* are set

rotationVars == <<now, env, conf, tokens, switchedAt, stage>>

Env == [kid : Pair, priv : Pair, pub : Pair, prevKid : Pair \cup {None}, prevPub : Pair \cup {None}]

Config(k, prev) == [kid |-> k, priv |-> k, pub |-> k, prevKid |-> prev, prevPub |-> prev]

RotationTypeOK ==
  /\ env \in Env /\ conf \in [Instance -> Env \cup {None}]
  /\ tokens \subseteq [kid : Pair, key : Pair, exp : Nat]
  /\ switchedAt \in Nat /\ stage \in {"steady", "overlap", "mistake"}

RotationInit ==
  /\ now = 0 /\ env = Config(0, None) /\ conf = [i \in Instance |-> env]
  /\ tokens = {} /\ switchedAt = 0 /\ stage = "steady"

\* superRefine: both or neither, and another kid.
validate(e) ==
  /\ (e.prevKid = None) = (e.prevPub = None)
  /\ e.prevKid # e.kid

\* Mutant: only the current key is put into verifyKeys.
verifyKeyCurrent(e, kid) == IF e.kid = kid THEN e.pub ELSE None

\* verifyKeys: the previous key is set after the current one.
verifyKey(e, kid) ==
  IF e.prevPub # None /\ e.prevKid = kid THEN e.prevPub
  ELSE IF e.kid = kid THEN e.pub ELSE None

\* The constructor verifies a token it has just signed.
selfCheck(e) == verifyKey(e, e.kid) = e.priv

-----------------------------------------------------------------------------
\* An instance restarts, for a deploy or after a crash, with what the
\* environment holds, or exits at once.
restart(i) ==
  /\ conf' = [conf EXCEPT ![i] = IF validate(env) /\ selfCheck(env) THEN env ELSE None]
  /\ switchedAt' = IF conf'[i] # conf[i] THEN now ELSE switchedAt
  /\ UNCHANGED <<now, env, tokens, stage>>

sign(i) ==
  /\ conf[i] # None
  /\ tokens' = tokens \cup
       {[kid |-> conf[i].kid, key |-> conf[i].priv, exp |-> now + TokenTtl]}
  /\ UNCHANGED <<now, env, conf, switchedAt, stage>>

\* verify(): jwt.verify refuses a token from its exp on.
verify(i, t) == verifyKey(conf[i], t.kid) = t.key /\ now < t.exp

Everywhere == \A i \in Instance : conf[i] = env

\* Step 1 of the rotation.
beginOverlap ==
  /\ stage = "steady" /\ Everywhere /\ env.kid < MaxKey
  /\ env' = Config(env.kid + 1, env.kid) /\ stage' = "overlap"
  /\ UNCHANGED <<now, conf, tokens, switchedAt>>

\* Step 3: a token lifetime after the last instance switched.
endOverlap ==
  /\ stage = "overlap" /\ Everywhere /\ now >= switchedAt + TokenTtl
  /\ env' = Config(env.kid, None) /\ stage' = "steady"
  /\ UNCHANGED <<now, conf, tokens, switchedAt>>

\* Step 1 with a slip: the old public key left in place, the old kid copied to
\* both, or half of JWT_PREVIOUS_*; and the correction.
slip ==
  /\ stage = "overlap" /\ stage' = "mistake"
  /\ env' \in { [env EXCEPT !.pub = env.prevPub], [env EXCEPT !.prevKid = env.kid],
                [env EXCEPT !.prevPub = None] }
  /\ UNCHANGED <<now, conf, tokens, switchedAt>>

correct ==
  /\ stage = "mistake" /\ stage' = "overlap"
  /\ env' = Config(env.kid, env.kid - 1)
  /\ UNCHANGED <<now, conf, tokens, switchedAt>>

RotationTick ==
  /\ Later /\ tokens' = {t \in tokens : now' < t.exp}
  /\ UNCHANGED <<env, conf, switchedAt, stage>>

RotationNext ==
  \/ \E i \in Instance : restart(i) \/ sign(i)
  \/ beginOverlap \/ endOverlap \/ slip \/ correct \/ RotationTick

RotationSpec == RotationInit /\ [][RotationNext]_rotationVars

-----------------------------------------------------------------------------
Up == {i \in Instance : conf[i] # None}

\* A rotation logs nobody out: a token that has not expired is accepted by every
\* instance, before, during and after the overlap, unless its key is one the
\* instance has not been given yet (a token of a restarted instance shown to
\* one that still waits for its restart). An instance accepts its own tokens,
\* whatever slip was made: one that would not has not come up.
TokensSurvive ==
  \A i \in Up : \A t \in tokens : t.key <= conf[i].kid => verify(i, t)

\* The inductive invariant. Outside a rotation every token is of the current key.
\* During one there are two keys; a token of the old one was signed before its
\* instance switched, so it runs out a lifetime after the last switch.
SteadyInv ==
  /\ env = Config(env.kid, None)
  /\ \A i \in Up : conf[i] \in {env, Config(env.kid, env.kid - 1)}
  /\ \A t \in tokens : t.key = env.kid

OverlapInv ==
  /\ env.kid > 0
  /\ stage = "overlap" => env = Config(env.kid, env.kid - 1)
  /\ stage = "mistake" => ~ (validate(env) /\ selfCheck(env))
  /\ \A i \in Up : conf[i] \in {Config(env.kid - 1, None), Config(env.kid, env.kid - 1)}
  /\ \A t \in tokens : t.key \in {env.kid - 1, env.kid}
  /\ (\A i \in Instance : conf[i] # Config(env.kid - 1, None)) =>
       \A t \in tokens : t.key = env.kid - 1 => t.exp <= switchedAt + TokenTtl

RotationInv ==
  /\ RotationTypeOK /\ now \in Nat
  /\ \A t \in tokens : t.kid = t.key /\ now < t.exp /\ t.exp <= now + TokenTtl
  /\ IF stage = "steady" THEN SteadyInv ELSE OverlapInv
=============================================================================
