-------------------------- MODULE ReadPolicyProofs --------------------------
(***************************************************************************)
(* Lemmas about the lookup in the log and about the adaptive TTL.          *)
(***************************************************************************)
EXTENDS ReadPolicy, NaturalSets

(* readLastCacheEntry finds nothing when the log has no entry of the key   *)
(* with a positive timestamp, and else the last of them.                   *)
LEMMA LastEntryIsLast ==
  ASSUME NEW log \in Seq(Entry), NEW k \in Key
  PROVE  \/ /\ LastEntry(log, k) = NoEntry
            /\ \A i \in DOMAIN log : ~Usable(log[i], k)
         \/ \E i \in DOMAIN log :
              /\ LastEntry(log, k) = log[i]
              /\ Usable(log[i], k)
              /\ \A j \in DOMAIN log : Usable(log[j], k) => j <= i
<1>1. CASE UsableAt(log, k) = {}
  BY <1>1 DEF LastEntry, UsableAt
<1>2. CASE UsableAt(log, k) # {}
  <2>1. Len(log) \in Nat /\ DOMAIN log = 1 .. Len(log)
    OBVIOUS
  <2>2. UsableAt(log, k) \in SUBSET (1 .. Len(log))
    BY <2>1 DEF UsableAt
  <2>3. \E i \in UsableAt(log, k) : \A j \in UsableAt(log, k) : j <= i
    BY <1>2, <2>1, <2>2, GreatestNatural
  <2>4. /\ LastIndex(log, k) \in UsableAt(log, k)
        /\ \A j \in UsableAt(log, k) : j <= LastIndex(log, k)
    BY <2>3 DEF LastIndex
  <2> QED  BY <1>2, <2>4 DEF LastEntry, UsableAt
<1> QED  BY <1>1, <1>2

(* The start of the session is never after now.                            *)
LEMMA EarliestBound ==
  ASSUME NEW log \in Seq(Entry), NEW now \in Nat
  PROVE  Earliest(log, now) \in Nat /\ Earliest(log, now) <= now
<1>1. Timestamps(log, now) \in SUBSET Nat
  <2>1. \A i \in DOMAIN log : log[i].ts \in Nat
    <3> SUFFICES ASSUME NEW i \in DOMAIN log PROVE log[i].ts \in Nat
      OBVIOUS
    <3>1. log[i] \in Entry  OBVIOUS
    <3> QED  BY <3>1 DEF Entry
  <2> QED  BY <2>1 DEF Timestamps
<1>2. now \in Timestamps(log, now)
  BY DEF Timestamps
<1>3. \E t \in Timestamps(log, now) :
        \A u \in Timestamps(log, now) : t <= u
  BY <1>1, <1>2, LeastNatural
<1>4. /\ Earliest(log, now) \in Timestamps(log, now)
      /\ \A u \in Timestamps(log, now) : Earliest(log, now) <= u
  BY <1>3 DEF Earliest
<1> QED  BY <1>1, <1>2, <1>4

(* The adaptive TTL is never below BaseTTL nor above three times BaseTTL.  *)
THEOREM AdaptiveTTLBounds ==
  ASSUME NEW log \in Seq(Entry), NEW now \in Nat
  PROVE  /\ AdaptiveTTL(log, now) \in Nat
         /\ BaseTTL <= AdaptiveTTL(log, now)
         /\ AdaptiveTTL(log, now) <= 3 * BaseTTL
<1> DEFINE age == now - Earliest(log, now)
           lesser == Lesser(age, 2 * Ramp)
<1>1. age \in Nat
  BY EarliestBound
<1>2. BaseTTL \in Nat /\ Ramp \in Nat /\ Ramp > 0
  BY PolicyAssumption
<1>3. lesser \in Nat
  BY <1>1, <1>2 DEF Lesser
<1>4. BaseTTL * lesser \in Nat
  <2> HIDE DEF lesser
  <2> QED  BY <1>2, <1>3
<1>5. (BaseTTL * lesser) \div Ramp \in Nat
  <2> DEFINE x == BaseTTL * lesser
  <2>1. x \in Nat  BY <1>4
  <2> HIDE DEF x
  <2>2. x \div Ramp \in Nat  BY <2>1, <1>2
  <2> QED  BY <2>2 DEF x
<1>6. AdaptiveTTL(log, now) \in
        {BaseTTL, Lesser(BaseTTL + (BaseTTL * lesser) \div Ramp, 3 * BaseTTL)}
  BY DEF AdaptiveTTL
<1> DEFINE y == (BaseTTL * lesser) \div Ramp
<1>7. y \in Nat /\ AdaptiveTTL(log, now) \in
        {BaseTTL, Lesser(BaseTTL + y, 3 * BaseTTL)}
  BY <1>5, <1>6
<1> HIDE DEF y
<1> QED  BY <1>2, <1>7 DEF Lesser

(* A verdict of "hit" means that the entry is younger than three times     *)
(* BaseTTL, the largest TTL there is.                                      *)
THEOREM HitIsFresh ==
  ASSUME NEW e \in Entry, NEW now \in Nat, NEW ttl \in Nat,
         ttl <= 3 * BaseTTL, e.ts > 0, HitAnswer(e, now, ttl) = "hit"
  PROVE  now - e.ts < 3 * BaseTTL
<1>1. ~Expired(e, now, ttl)
  BY DEF HitAnswer
<1>2. e.ts \in Nat /\ BaseTTL \in Nat
  BY PolicyAssumption DEF Entry
<1> QED  BY <1>1, <1>2 DEF Expired, Age

(* The verdict on an unchanged file is one of three.                       *)
LEMMA HitAnswers ==
  ASSUME NEW e, NEW now, NEW ttl
  PROVE  HitAnswer(e, now, ttl) \in {"expired", "auto_allow", "hit"}
  BY DEF HitAnswer
=============================================================================
