------------------------------ MODULE MCExpiry ------------------------------
(***************************************************************************)
(* What runs out: the rate limiter, the Redis sessions, the edge cache, the*)
(* rotation of signing keys and of backups, and the buffers of the order   *)
(* feed. They share the clock and no other state, so a behaviour follows   *)
(* one of them, chosen at the start, while the others stay where they are. *)
(* The feed has one order from the start, one more may be created.         *)
(***************************************************************************)
EXTENDS RateLimiter, SessionStore, EdgeCache, KeyRotation, BackupDrill, OrdersFeed

CONSTANTS c1, c2, css, logo, u1, adm
MCBuyers == <<u1>>
\* Two contents with one hash.
MCDigest == [c \in {c1, c2} |-> css]

VARIABLE part

limiterOnly == <<limit, failOpen, zset, keyExpires, retryAt, requests, passed, leaked>>
sessionOnly ==
  <<session, sids, cookie, spc, sreq, lastUse, ended, late, saves, overlapped>>
rotationOnly == <<env, conf, tokens, switchedAt, stage>>

vars == <<part, now, limiterOnly, sessionOnly, edgeOnly, rotationOnly, backupVars,
          feedVars>>

Init ==
  /\ part \in {"limiter", "session", "edge", "keys", "backup", "feed"}
  /\ LimiterInit /\ SessionInit /\ EdgeInit /\ RotationInit /\ BackupInit
  /\ FeedInit
  /\ part # "limiter" => limit = 0 /\ failOpen

Next ==
  /\ UNCHANGED part
  /\ \/ /\ part = "limiter" /\ LimiterNext
        /\ UNCHANGED <<sessionOnly, edgeOnly, rotationOnly, backupVars, feedVars>>
     \/ /\ part = "session" /\ SessionNext
        /\ UNCHANGED <<limiterOnly, edgeOnly, rotationOnly, backupVars, feedVars>>
     \/ /\ part = "edge" /\ EdgeNext
        /\ UNCHANGED <<limiterOnly, sessionOnly, rotationOnly, backupVars, feedVars>>
     \/ /\ part = "keys" /\ RotationNext
        /\ UNCHANGED <<limiterOnly, sessionOnly, edgeOnly, backupVars, feedVars>>
     \/ /\ part = "backup" /\ BackupNext
        /\ UNCHANGED <<now, limiterOnly, sessionOnly, edgeOnly, rotationOnly, feedVars>>
     \/ /\ part = "feed" /\ FeedNext
        /\ UNCHANGED <<now, limiterOnly, sessionOnly, edgeOnly, rotationOnly, backupVars>>

Spec == Init /\ [][Next]_vars
=============================================================================
