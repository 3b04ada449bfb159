----------------------------- MODULE ReadPolicy -----------------------------
(***************************************************************************)
(* The decisions of the hook that depend on the log and on the clock only: *)
(* the adaptive TTL (util.go) and the verdict on an unchanged file         *)
(* (handleCacheHit, hook.go).                                              *)
(***************************************************************************)
EXTENDS CacheLog

CONSTANTS BaseTTL,     \* READ_ONCE_TTL, seconds
          Ramp,        \* session age that adds one more BaseTTL (600 s)
          Decay,       \* READ_ONCE_DECAY, seconds
          AutoAllow    \* READ_ONCE_AUTO_ALLOW, 0 for never

ASSUME PolicyAssumption ==
  /\ BaseTTL \in Nat
  /\ Ramp \in Nat \ {0}
  /\ Decay \in Nat
  /\ AutoAllow \in Nat

Lesser(a, b) == IF a <= b THEN a ELSE b

(***************************************************************************)
(* computeAdaptiveTTL: BaseTTL for a new session, growing linearly with    *)
(* the age of the session up to 3 * BaseTTL.  The floating-point product   *)
(* of the code, truncated, is the integer division here.                   *)
(***************************************************************************)
AdaptiveTTL(log, now) ==
  LET age == now - Earliest(log, now)
  IN  IF age <= 0
      THEN BaseTTL
      ELSE Lesser(BaseTTL + (BaseTTL * Lesser(age, 2 * Ramp)) \div Ramp,
                  3 * BaseTTL)

(***************************************************************************)
(* The verdict on an unchanged file.  An entry of age ttl or more has      *)
(* expired; otherwise the attempt is counted, consecutively with the last  *)
(* one when that was at most Decay seconds ago, and the AutoAllow-th       *)
(* consecutive attempt is let through.                                     *)
(***************************************************************************)
Age(e, now) == IF e.ts <= 0 THEN 0 ELSE now - e.ts

(* Faulty variant: off by one at the boundary.                             *)
ExpiredLate(e, now, ttl) == Age(e, now) > ttl

Expired(e, now, ttl) == Age(e, now) >= ttl

Attempts(e, now) ==
  IF now - e.lastAttempt <= Decay THEN e.attempts + 1 ELSE 1

(* Faulty variant: one attempt too many before the read is let through.    *)
LetThroughLate(e, now) == AutoAllow > 0 /\ Attempts(e, now) > AutoAllow

LetThrough(e, now) == AutoAllow > 0 /\ Attempts(e, now) >= AutoAllow

HitAnswer(e, now, ttl) ==
  IF Expired(e, now, ttl) THEN "expired"
  ELSE IF LetThrough(e, now) THEN "auto_allow" ELSE "hit"
=============================================================================
