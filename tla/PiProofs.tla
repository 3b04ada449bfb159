------------------------------ MODULE PiProofs ------------------------------
(***************************************************************************)
(* Proofs about PiExtension, for any number of tool calls, keys, files and *)
(* contents, and any parameters of the policy.                             *)
(***************************************************************************)
EXTENDS PiExtension, TLAPS

(* The steps of checkFile.                                                 *)
Active == Steps \ {"idle", "tool"}

(* checkFile runs to its end: two calls are never both in it.              *)
AloneInv ==
  \A p, q \in Slot : pc[p] \in Active /\ pc[q] \in Active => p = q

NowInv == \A p \in Slot : call[p].now <= clock

(* What the cache has of a key that was last recorded at a time, has a     *)
(* streak s and was, or was not, cleared: that time, at least as many      *)
(* attempts as were refused in a row, and nothing when it was cleared.     *)
EntryOK(e, time, s, gone) ==
  e # NoEntry =>
    /\ e.ts = time
    /\ ~gone
    /\ s.n <= e.attempts
    /\ s.n > 0 => s.at = e.lastAttempt
    /\ ~HASH_MODE => e.hash = NoHash

CacheInv ==
  \A k \in Key : EntryOK(cache[k], seen[k], streak[k], cleared[k])

(* A call under way with local variables c, at a step, when the file is f  *)
(* and the cache has e of its key.                                         *)
CallOK(step, c, f, e) ==
  /\ step \in Active \ {"count"} => c.entry = e
  /\ step \in {"restat", "rehash", "validate", "count"} =>
       c.entry # NoEntry
  /\ step \in {"restat", "validate"} => c.now - c.entry.ts <= 3 * TTL
  /\ step = "validate" =>
       f.mtime >= c.now \/ (f.mtime = c.entry.mtime /\ f.content # Gone)
  /\ step = "count" =>
       /\ e # NoEntry
       /\ \/ f.mtime >= c.now
          \/ /\ f.mtime = c.entry.mtime
             /\ c.entry.hash \in {NoHash, f.content}

CallInv ==
  \A p \in Slot : CallOK(pc[p], call[p], FileOf(p), cache[call[p].key])

PiInv == TypeOK /\ AloneInv /\ NowInv /\ CacheInv /\ CallInv /\ StreakBounded

(* The content h of key k was shown, or will be by the tool of a call that *)
(* passed.                                                                 *)
Given(k, h) ==
  \/ h \in held[k]
  \/ \E o \in Slot : pc[o] = "tool" /\ call[o].key = k /\ call[o].hash = h

(* The version that the cache has of key k is not newer than that of the   *)
(* file, and when it is the same the agent was given it.                   *)
VersionOK(k, e, f) ==
  e # NoEntry =>
    /\ e.mtime <= f.mtime
    /\ e.mtime = f.mtime =>
         f.content # Gone /\ f.content = e.hash /\ Given(k, e.hash)

RecordOK(step, c, f, e) ==
  /\ step \in {"rehash", "hash"} =>
       c.mtime <= f.mtime /\ (c.mtime = f.mtime => f.content # Gone)
  /\ step = "count" =>
       c.hash = e.hash /\ (e.mtime = f.mtime \/ f.mtime >= c.now)

VersionInv ==
  /\ \A k \in Key : VersionOK(k, cache[k], file[PathOf[k]])
  /\ \A p \in Slot : RecordOK(pc[p], call[p], FileOf(p), cache[call[p].key])

-----------------------------------------------------------------------------
(* Typing of the parts.                                                    *)
LEMMA NoCallType ==
  ASSUME NEW k \in Key PROVE NoCall(k) \in Call
  BY DEF NoCall, Call, Answer

LEMMA FileType ==
  ASSUME TypeOK, NEW p \in Slot
  PROVE  /\ call[p] \in Call /\ call[p].key \in Key
         /\ PathOf[call[p].key] \in Path
         /\ FileOf(p).content \in Content \cup {Gone}
         /\ FileOf(p).mtime \in Nat
         /\ fileHash(p) \in Content \cup {NoHash}
<1>1. call[p] \in Call
  BY DEF TypeOK
<1>2. call[p].key \in Key
  BY <1>1 DEF Call
<1>3. PathOf[call[p].key] \in Path
  BY <1>2, PiAssumption
<1>4. file[PathOf[call[p].key]] \in [content : Content \cup {Gone}, mtime : Nat]
  BY <1>3 DEF TypeOK
<1> QED  BY <1>1, <1>2, <1>3, <1>4 DEF FileOf, fileHash

LEMMA SpendType ==
  ASSUME TypeOK, NEW what \in {"calls", "edits", "clears"}, Spend(what)
  PROVE  budget' \in [{"calls", "edits", "clears"} -> Nat]
<1>1. budget[what] \in Nat
  BY DEF TypeOK
<1> QED  BY <1>1 DEF Spend, TypeOK

(* The TTL never grows beyond three times its base.                        *)
LEMMA adaptiveTTLBound ==
  ASSUME NEW age \in Nat
  PROVE  adaptiveTTL(age) \in Nat /\ adaptiveTTL(age) <= 3 * TTL
<1>1. TTL \in Nat /\ Ramp \in Nat /\ Ramp > 0
  BY PiAssumption
<1> DEFINE x == TTL * age
<1>2. x \in Nat
  BY <1>1
<1> HIDE DEF x
<1> DEFINE g == TTL + x \div Ramp
<1>3. g \in Nat
  BY <1>1, <1>2
<1>4. adaptiveTTL(age) = IF g > 3 * TTL THEN 3 * TTL ELSE g
  BY DEF adaptiveTTL, x
<1> HIDE DEF g
<1> QED  BY <1>1, <1>3, <1>4

LEMMA AttemptsType ==
  ASSUME NEW e \in Entry, NEW now \in Nat
  PROVE  Attempts(e, now) \in Nat
<1>1. e.attempts \in Nat
  BY DEF Entry
<1> QED  BY <1>1 DEF Attempts

(* A call that is not in checkFile has nothing to keep.                    *)
LEMMA RestingOK ==
  ASSUME NEW step \in {"idle", "tool"}, NEW c, NEW f, NEW e
  PROVE  CallOK(step, c, f, e) /\ RecordOK(step, c, f, e)
  BY DEF CallOK, RecordOK, Active, Steps

(* While p is in checkFile, every other call rests.                        *)
LEMMA OthersRest ==
  ASSUME TypeOK, AloneInv, NEW p \in Slot, pc[p] \in Active,
         NEW q \in Slot, q # p
  PROVE  pc[q] \in {"idle", "tool"}
  BY DEF TypeOK, AloneInv, Active

LEMMA PiInit == Init => PiInv
<1> SUFFICES ASSUME Init PROVE PiInv
  OBVIOUS
<1>1. call \in [Slot -> Call]
  BY NoCallType DEF Init
<1>2. file \in [Path -> [content : Content \cup {Gone}, mtime : Nat]]
  <2>1. {[content |-> c, mtime |-> 0] : c \in Content}
          \subseteq [content : Content \cup {Gone}, mtime : Nat]
    OBVIOUS
  <2> QED  BY <2>1 DEF Init
<1>3. budget \in [{"calls", "edits", "clears"} -> Nat]
  BY PiAssumption DEF Init
<1>4. TypeOK
  BY <1>1, <1>2, <1>3 DEF Init, TypeOK, Steps
<1>5. \A p \in Slot : pc[p] = "idle" /\ call[p].now = 0
  <2> SUFFICES ASSUME NEW p \in Slot PROVE pc[p] = "idle" /\ call[p].now = 0
    OBVIOUS
  <2>1. PICK k \in Key : call[p] = NoCall(k)
    BY DEF Init
  <2> QED  BY <2>1 DEF Init, NoCall
<1>6. AloneInv /\ NowInv /\ CallInv
  BY <1>5, RestingOK DEF Init, AloneInv, NowInv, CallInv, Active
<1>7. CacheInv
  BY DEF Init, CacheInv, EntryOK
<1>8. StreakBounded
  BY PiAssumption DEF Init, StreakBounded
<1> QED  BY <1>4, <1>6, <1>7, <1>8 DEF PiInv
-----------------------------------------------------------------------------
(* A step of checkFile changes the local variables of one call.            *)
Others(p) == \A q \in Slot \ {p} : call'[q] = call[q] /\ pc'[q] = pc[q]

LEMMA CheckStep ==
  ASSUME PiInv, TypeOK', NEW p \in Slot, pc[p] \in Active, Others(p),
         UNCHANGED <<clock, file>>, call'[p].now <= clock,
         CacheInv', StreakBounded',
         CallOK(pc'[p], call'[p], FileOf(p)', cache'[call'[p].key])
  PROVE  PiInv'
<1>1. \A q \in Slot \ {p} : pc'[q] \in {"idle", "tool"}
  BY OthersRest DEF PiInv, Others
<1>2. AloneInv'
  BY <1>1 DEF AloneInv, Active
<1>3. NowInv'
  BY DEF PiInv, NowInv, Others
<1>4. CallInv'
  <2> SUFFICES ASSUME NEW q \in Slot, q # p
               PROVE  CallOK(pc'[q], call'[q], FileOf(q)', cache'[call'[q].key])
    BY DEF CallInv
  <2>1. pc'[q] \in {"idle", "tool"}
    BY <1>1
  <2> QED  BY <2>1, RestingOK
<1> QED  BY <1>2, <1>3, <1>4 DEF PiInv

(* The verdict is recorded: Record keeps the invariant when a refusal is   *)
(* of an entry that is the same as the file, and not one too many.         *)
LEMMA RecordType ==
  ASSUME TypeOK, NEW p \in Slot, NEW a \in Answer, NEW m \in Nat,
         NEW h \in Content \cup {NoHash},
         a = "hit" => call[p].entry # NoEntry,
         Record(p, a, m, h), UNCHANGED <<clock, file, budget, held>>
  PROVE  /\ TypeOK' /\ Others(p)
         /\ call'[p].now = call[p].now /\ call'[p].key = call[p].key
         /\ call'[p].entry = call[p].entry /\ call'[p].hash = h
         /\ pc'[p] = IF a = "hit" THEN "count" ELSE "tool"
         /\ cache'[call[p].key] \in Entry
         /\ cache'[call[p].key] =
              [mtime |-> m, ts |-> call[p].now, lastAttempt |-> call[p].now,
               hash |-> h,
               attempts |-> IF a = "hit"
                            THEN Attempts(call[p].entry, call[p].now) ELSE 0]
<1> DEFINE k == call[p].key
           now == call[p].now
           n == IF a = "hit" THEN Attempts(call[p].entry, now) ELSE 0
           e == [mtime |-> m, ts |-> now, lastAttempt |-> now, hash |-> h,
                 attempts |-> n]
           s == IF a # "hit" THEN [n |-> 0, at |-> 0]
                ELSE [n |-> IF now - streak[k].at <= DECAY
                            THEN streak[k].n + 1 ELSE 1,
                      at |-> now]
<1>1. call[p] \in Call /\ k \in Key /\ now \in Nat
  BY DEF TypeOK, Call
<1>2. n \in Nat
  <2>1. a = "hit" => call[p].entry \in Entry
    BY <1>1 DEF Call
  <2> QED  BY <1>1, <2>1, AttemptsType
<1>3. e \in Entry
  BY <1>1, <1>2 DEF Entry
<1>4. cache' = [cache EXCEPT ![k] = e]
  BY DEF Record
<1>5. s \in [n : Nat, at : Nat]
  <2>1. streak[k] \in [n : Nat, at : Nat]
    BY <1>1 DEF TypeOK
  <2>2. streak[k].n + 1 \in Nat
    BY <2>1
  <2> QED  BY <1>1, <2>1, <2>2
<1>6. streak' = [streak EXCEPT ![k] = s]
  BY DEF Record
<1>7. call' = [call EXCEPT ![p].answer = a, ![p].hash = h]
  BY DEF Record
<1>8. pc' = [pc EXCEPT ![p] = IF a = "hit" THEN "count" ELSE "tool"]
  BY DEF Record, Goto
<1> HIDE DEF e, s, n
<1>9. call' \in [Slot -> Call] /\ pc' \in [Slot -> Steps]
  <2>1. [[call[p] EXCEPT !.answer = a] EXCEPT !.hash = h] \in Call
    BY <1>1 DEF Call
  <2> QED  BY <2>1, <1>7, <1>8 DEF TypeOK, Steps
<1>10. stats' \in [Event -> Nat]
  <2>1. stats' = stats \/ stats' = [stats EXCEPT ![a] = stats[a] + 1]
    BY DEF Record
  <2>2. a \in Event => stats[a] + 1 \in Nat
    BY DEF TypeOK
  <2> QED  BY <2>1, <2>2 DEF TypeOK
<1>11. cleared' \in [Key -> BOOLEAN]
  BY DEF Record, TypeOK
<1>12. seen' \in [Key -> Nat]
  BY <1>1 DEF Record, TypeOK
<1>13. TypeOK'
  BY <1>1, <1>3, <1>4, <1>5, <1>6, <1>9, <1>10, <1>11, <1>12 DEF TypeOK
<1>14. Others(p)
  BY <1>7, <1>8 DEF TypeOK, Others
<1>15. /\ call'[p].now = call[p].now /\ call'[p].key = call[p].key
       /\ call'[p].entry = call[p].entry /\ call'[p].hash = h
       /\ pc'[p] = IF a = "hit" THEN "count" ELSE "tool"
  BY <1>1, <1>7, <1>8 DEF TypeOK, Call
<1>16. cache'[k] = e
  BY <1>1, <1>4 DEF TypeOK
<1> QED  BY <1>3, <1>13, <1>14, <1>15, <1>16 DEF e, n

LEMMA RecordInv ==
  ASSUME PiInv, NEW p \in Slot, pc[p] \in {"rehash", "validate", "hash"},
         NEW a \in Answer, NEW m \in Nat, NEW h \in Content \cup {NoHash},
         Record(p, a, m, h), UNCHANGED <<clock, file, budget, held>>,
         ~HASH_MODE => h = NoHash,
         a \in Passing \/ call[p].entry # NoEntry,
         a = "hit" =>
           /\ AUTO_ALLOW > 0 =>
                Attempts(call[p].entry, call[p].now) < AUTO_ALLOW
           /\ \/ FileOf(p).mtime >= call[p].now
              \/ /\ FileOf(p).mtime = call[p].entry.mtime
                 /\ call[p].entry.hash \in {NoHash, FileOf(p).content}
  PROVE  PiInv'
<1> DEFINE k == call[p].key
           now == call[p].now
<1>1. /\ a = "hit" => call[p].entry # NoEntry
      /\ TypeOK /\ pc[p] \in Active
  BY DEF Passing, PiInv, Active, Steps
<1>2. /\ TypeOK' /\ Others(p)
      /\ call'[p].now = now /\ call'[p].key = k
      /\ call'[p].entry = call[p].entry
      /\ pc'[p] = IF a = "hit" THEN "count" ELSE "tool"
      /\ cache'[k] \in Entry
      /\ cache'[k].ts = now /\ cache'[k].lastAttempt = now
      /\ cache'[k].hash = h
      /\ cache'[k].attempts =
           IF a = "hit" THEN Attempts(call[p].entry, now) ELSE 0
  <2>1. /\ TypeOK' /\ Others(p)
        /\ call'[p].now = now /\ call'[p].key = k
        /\ call'[p].entry = call[p].entry
        /\ pc'[p] = IF a = "hit" THEN "count" ELSE "tool"
        /\ cache'[k] \in Entry
        /\ cache'[k] =
             [mtime |-> m, ts |-> now, lastAttempt |-> now, hash |-> h,
              attempts |-> IF a = "hit"
                           THEN Attempts(call[p].entry, now) ELSE 0]
    BY <1>1, RecordType
  <2> QED  BY <2>1
<1>3. call[p] \in Call /\ k \in Key /\ now \in Nat
  BY <1>1 DEF TypeOK, Call
<1>4. /\ call[p].entry = cache[k]
      /\ EntryOK(cache[k], seen[k], streak[k], cleared[k])
  BY <1>3 DEF PiInv, CallInv, CallOK, CacheInv, Active, Steps
<1>5. streak'[k].n <= cache'[k].attempts
      /\ (streak'[k].n > 0 => streak'[k].at = now)
  <2>1. streak'[k] = IF a # "hit" THEN [n |-> 0, at |-> 0]
                     ELSE [n |-> IF now - streak[k].at <= DECAY
                                 THEN streak[k].n + 1 ELSE 1,
                           at |-> now]
    BY <1>1, <1>3 DEF Record, TypeOK
  <2>2. CASE a # "hit"
    BY <1>2, <2>1, <2>2
  <2>3. CASE a = "hit"
    <3>1. cache[k] \in Entry /\ cache[k].attempts \in Nat
          /\ cache[k].lastAttempt \in Nat
      BY <1>1, <1>3, <1>4, <2>3 DEF Call, Entry
    <3>2. streak[k].n \in Nat /\ streak[k].at \in Nat /\ DECAY \in Nat
      BY <1>1, <1>3, PiAssumption DEF TypeOK
    <3>3. streak[k].n <= cache[k].attempts
          /\ (streak[k].n > 0 => streak[k].at = cache[k].lastAttempt)
      BY <1>4, <3>1, NoEntryAssumption DEF EntryOK
    <3>4. cache'[k].attempts = IF now - cache[k].lastAttempt <= DECAY
                               THEN cache[k].attempts + 1 ELSE 1
      BY <1>2, <1>4, <2>3 DEF Attempts
    <3>5. streak'[k].n = (IF now - streak[k].at <= DECAY
                          THEN streak[k].n + 1 ELSE 1)
          /\ streak'[k].at = now
      BY <2>1, <2>3
    <3>6. CASE streak[k].n = 0
      <4>1. streak'[k].n = 1
        BY <3>2, <3>5, <3>6
      <4> QED  BY <3>1, <3>4, <3>5, <4>1
    <3>7. CASE streak[k].n > 0
      BY <1>3, <3>1, <3>2, <3>3, <3>4, <3>5, <3>7
    <3> QED  BY <3>2, <3>6, <3>7
  <2> QED  BY <2>2, <2>3
<1>6. CacheInv'
  <2> SUFFICES ASSUME NEW j \in Key
               PROVE  EntryOK(cache'[j], seen'[j], streak'[j], cleared'[j])
    BY DEF CacheInv
  <2>1. CASE j # k
    <3>1. cache'[j] = cache[j] /\ seen'[j] = seen[j] /\ streak'[j] = streak[j]
          /\ cleared'[j] = cleared[j]
      BY <1>1, <1>3, <2>1 DEF Record, TypeOK
    <3> QED  BY <3>1 DEF PiInv, CacheInv
  <2>2. CASE j = k
    <3>1. seen'[k] = now
      BY <1>1, <1>3 DEF Record, TypeOK
    <3>2. ~cleared'[k]
      <4>1. CASE a \in Passing
        BY <1>1, <1>3, <4>1 DEF Record, TypeOK
      <4>2. CASE a \notin Passing
        BY <1>4, <4>2 DEF Record, EntryOK
      <4> QED  BY <4>1, <4>2
    <3> QED  BY <1>2, <1>5, <2>2, <3>1, <3>2 DEF EntryOK
  <2> QED  BY <2>1, <2>2
<1>7. StreakBounded'
  <2> SUFFICES ASSUME AUTO_ALLOW > 0, NEW j \in Key
               PROVE  streak'[j].n < AUTO_ALLOW
    BY DEF StreakBounded
  <2>1. CASE j # k
    BY <1>1, <1>3, <2>1 DEF Record, TypeOK, PiInv, StreakBounded
  <2>2. CASE j = k
    <3>1. cache'[k].attempts \in Nat /\ cache'[k].attempts < AUTO_ALLOW
      BY <1>2, PiAssumption DEF Entry
    <3>2. streak'[k].n \in Nat
      BY <1>2, <1>3 DEF TypeOK
    <3> QED  BY <1>5, <2>2, <3>1, <3>2, PiAssumption
  <2> QED  BY <2>1, <2>2
<1>8. call'[p].now <= clock
  BY <1>2 DEF PiInv, NowInv
<1>9. FileOf(p)' = FileOf(p)
  BY <1>2 DEF FileOf
<1>10. CallOK(pc'[p], call'[p], FileOf(p)', cache'[call'[p].key])
  <2>1. CASE a # "hit"
    BY <1>2, <2>1, RestingOK
  <2>2. CASE a = "hit"
    <3>1. pc'[p] = "count" /\ cache'[k] # NoEntry /\ call'[p].entry # NoEntry
      BY <1>1, <1>2, <2>2, NoEntryAssumption
    <3>2. \/ FileOf(p).mtime >= call'[p].now
          \/ /\ FileOf(p).mtime = call'[p].entry.mtime
             /\ call'[p].entry.hash \in {NoHash, FileOf(p).content}
      BY <1>2, <2>2
    <3> QED  BY <1>2, <1>9, <3>1, <3>2 DEF CallOK, Active
  <2> QED  BY <2>1, <2>2
<1> QED  BY <1>1, <1>2, <1>6, <1>7, <1>8, <1>10, CheckStep

LEMMA HitAnswerOK ==
  ASSUME NEW e \in Entry, NEW now \in Nat
  PROVE  /\ HitAnswer(e, now) \in {"auto_allow", "allowed", "hit"}
         /\ HitAnswer(e, now) = "hit" =>
              (AUTO_ALLOW > 0 => Attempts(e, now) < AUTO_ALLOW)
<1>1. Attempts(e, now) \in Nat /\ AUTO_ALLOW \in Nat
  BY AttemptsType, PiAssumption
<1> QED  BY <1>1 DEF HitAnswer

LEMMA RehashInv ==
  ASSUME PiInv, NEW p \in Slot, Rehash(p)
  PROVE  PiInv'
<1>1. /\ TypeOK /\ call[p] \in Call /\ fileHash(p) \in Content \cup {NoHash}
      /\ call[p].mtime \in Nat /\ pc[p] = "rehash"
  BY FileType DEF PiInv, Rehash, Call
<1>2. ~HASH_MODE => fileHash(p) = NoHash
  BY DEF fileHash
<1>3. "changed" \in Answer /\ "changed" \in Passing
  BY DEF Answer, Event, Passing
<1> QED  BY <1>1, <1>2, <1>3, RecordInv DEF Rehash

LEMMA HashInv ==
  ASSUME PiInv, NEW p \in Slot, Hash(p)
  PROVE  PiInv'
<1> DEFINE a == IF call[p].entry = NoEntry THEN "miss" ELSE "expired"
<1>1. /\ TypeOK /\ call[p] \in Call /\ fileHash(p) \in Content \cup {NoHash}
      /\ call[p].mtime \in Nat /\ pc[p] = "hash"
  BY FileType DEF PiInv, Hash, Call
<1>2. ~HASH_MODE => fileHash(p) = NoHash
  BY DEF fileHash
<1>3. a \in Answer /\ a \in Passing /\ a # "hit"
  BY DEF Answer, Event, Passing
<1>4. Record(p, a, call[p].mtime, fileHash(p))
  BY DEF Hash
<1> HIDE DEF a
<1> QED  BY <1>1, <1>2, <1>3, <1>4, RecordInv DEF Hash

LEMMA ValidateInv ==
  ASSUME PiInv, NEW p \in Slot, Validate(p)
  PROVE  PiInv'
<1> DEFINE e == call[p].entry
           f == FileOf(p)
           hash == fileHash(p)
           changed == e.hash # NoHash /\ hash # NoHash /\ hash # e.hash
<1>1. /\ TypeOK /\ call[p] \in Call /\ hash \in Content \cup {NoHash}
      /\ pc[p] = "validate" /\ call[p].key \in Key /\ call[p].now \in Nat
  BY FileType DEF PiInv, Validate, Call
<1>2. /\ e # NoEntry /\ e = cache[call[p].key]
      /\ f.mtime >= call[p].now \/ (f.mtime = e.mtime /\ f.content # Gone)
  BY <1>1 DEF PiInv, CallInv, CallOK, Active, Steps
<1>3. e \in Entry
  BY <1>1, <1>2 DEF Call
<1>4. e.mtime \in Nat /\ e.hash \in Content \cup {NoHash}
  BY <1>3 DEF Entry
<1>5. ~HASH_MODE => hash = NoHash /\ e.hash = NoHash
  BY <1>1, <1>2 DEF fileHash, PiInv, CacheInv, EntryOK
<1>6. CASE changed /\ Record(p, "changed", e.mtime, hash)
  <2>1. "changed" \in Answer /\ "changed" \in Passing
    BY DEF Answer, Event, Passing
  <2> QED  BY <1>1, <1>4, <1>5, <1>6, <2>1, RecordInv DEF Validate
<1>7. CASE ~changed /\ Record(p, HitAnswer(e, call[p].now), e.mtime, e.hash)
  <2> DEFINE a == HitAnswer(e, call[p].now)
  <2>1. /\ a \in Answer
        /\ a = "hit" /\ AUTO_ALLOW > 0
             => Attempts(e, call[p].now) < AUTO_ALLOW
    BY <1>1, <1>3, HitAnswerOK DEF Answer, Event
  <2>2. \/ f.mtime >= call[p].now
        \/ f.mtime = e.mtime /\ e.hash \in {NoHash, f.content}
    <3>1. CASE f.content # Gone /\ HASH_MODE
      <4>1. hash = f.content
        BY <3>1 DEF fileHash
      <4>2. f.content \in Content
        BY <1>1, <3>1, FileType
      <4> QED  BY <1>2, <1>7, <4>1, <4>2, PiAssumption
    <3>2. CASE ~HASH_MODE
      BY <1>2, <1>5, <3>2
    <3> QED  BY <1>2, <3>1, <3>2
  <2> HIDE DEF a
  <2>3. Record(p, a, e.mtime, e.hash)
    BY <1>7 DEF a
  <2> QED  BY <1>1, <1>2, <1>4, <1>5, <2>1, <2>2, <2>3, RecordInv DEF Validate
<1> QED  BY <1>6, <1>7 DEF Validate

(* The steps before the verdict look at the file and change nothing else,  *)
(* but for the entry of a file that is gone.                               *)
LEMMA RestatInv ==
  ASSUME PiInv, NEW p \in Slot, Restat(p)
  PROVE  PiInv'
<1> DEFINE k == call[p].key
           f == FileOf(p)
           c == [call[p] EXCEPT !.mtime = f.mtime]
<1>1. /\ TypeOK /\ call[p] \in Call /\ k \in Key /\ f.mtime \in Nat
      /\ pc[p] = "restat" /\ pc[p] \in Active
  BY FileType DEF PiInv, Restat, Active, Steps
<1>2. CallOK("restat", call[p], f, cache[k])
  BY <1>1 DEF PiInv, CallInv
<1>3. /\ c \in Call /\ c.key = k /\ c.now = call[p].now
      /\ c.entry = call[p].entry
  BY <1>1 DEF Call
<1>4. cache' \in [Key -> Entry \cup {NoEntry}] /\ CacheInv'
  <2>1. cache' = cache \/ cache' = [cache EXCEPT ![k] = NoEntry]
    BY DEF Restat
  <2>2. cache' \in [Key -> Entry \cup {NoEntry}]
    BY <1>1, <2>1 DEF TypeOK
  <2>3. \A j \in Key : cache'[j] = cache[j] \/ cache'[j] = NoEntry
    BY <1>1, <2>1 DEF TypeOK
  <2> QED  BY <2>2, <2>3 DEF Restat, history, PiInv, CacheInv, EntryOK
<1> HIDE DEF c
<1>5. /\ pc' \in {[pc EXCEPT ![p] = s] : s \in {"tool", "rehash", "validate"}}
      /\ call' = call \/ call' = [call EXCEPT ![p] = c]
  BY DEF Restat, Goto, c
<1>6. TypeOK'
  BY <1>1, <1>3, <1>4, <1>5 DEF Restat, TypeOK, Steps, history
<1>7. Others(p) /\ call'[p].now <= clock /\ call'[p].key = k
  BY <1>1, <1>3, <1>5 DEF TypeOK, Others, PiInv, NowInv
<1>8. FileOf(p)' = f
  BY <1>7 DEF FileOf, Restat
<1>9. CallOK(pc'[p], call'[p], FileOf(p)', cache'[call'[p].key])
  <2>1. CASE pc' = [pc EXCEPT ![p] = "tool"]
    <3>1. pc'[p] = "tool"
      BY <1>1, <2>1 DEF TypeOK
    <3> QED  BY <3>1, RestingOK
  <2>2. CASE /\ pc' = [pc EXCEPT ![p] = "rehash"] /\ cache' = cache
             /\ call' = [call EXCEPT ![p] = c]
    <3>1. pc'[p] = "rehash" /\ call'[p] = c
      BY <1>1, <2>2 DEF TypeOK
    <3> QED
      BY <1>2, <1>3, <1>7, <2>2, <3>1 DEF CallOK, Active, Steps
  <2>3. CASE /\ pc' = [pc EXCEPT ![p] = "validate"] /\ cache' = cache
             /\ call' = call /\ f.content # Gone
             /\ f.mtime = call[p].entry.mtime
    <3>1. pc'[p] = "validate"
      BY <1>1, <2>3 DEF TypeOK
    <3> QED
      BY <1>2, <1>8, <2>3, <3>1 DEF CallOK, Active, Steps
  <2> QED  BY <2>1, <2>2, <2>3 DEF Restat, Goto, c
<1>10. StreakBounded'
  BY DEF PiInv, StreakBounded, Restat, history
<1> QED
  BY <1>1, <1>4, <1>6, <1>7, <1>9, <1>10, CheckStep DEF Restat

LEMMA StatInv ==
  ASSUME PiInv, NEW p \in Slot, Stat(p)
  PROVE  PiInv'
<1> DEFINE f == FileOf(p)
           c == [call[p] EXCEPT !.mtime = f.mtime]
<1>1. /\ TypeOK /\ call[p] \in Call /\ f.mtime \in Nat
      /\ pc[p] = "stat" /\ pc[p] \in Active
  BY FileType DEF PiInv, Stat, Active, Steps
<1>2. CallOK("stat", call[p], f, cache[call[p].key])
  BY <1>1 DEF PiInv, CallInv
<1>3. /\ c \in Call /\ c.key = call[p].key /\ c.now = call[p].now
      /\ c.entry = call[p].entry
  BY <1>1 DEF Call
<1> HIDE DEF c
<1>4. \/ pc' = [pc EXCEPT ![p] = "tool"] /\ call' = call
      \/ pc' = [pc EXCEPT ![p] = "hash"] /\ call' = [call EXCEPT ![p] = c]
  BY DEF Stat, Goto, c
<1>5. TypeOK'
  BY <1>1, <1>3, <1>4 DEF Stat, TypeOK, Steps, history
<1>6. Others(p) /\ call'[p].now <= clock /\ call'[p].key = call[p].key
      /\ call'[p].entry = call[p].entry /\ pc'[p] \in {"tool", "hash"}
  BY <1>1, <1>3, <1>4 DEF TypeOK, Others, PiInv, NowInv
<1>7. CallOK(pc'[p], call'[p], FileOf(p)', cache'[call'[p].key])
  BY <1>2, <1>6 DEF CallOK, Active, Steps, Stat
<1>8. CacheInv' /\ StreakBounded'
  BY DEF PiInv, CacheInv, StreakBounded, Stat, history
<1> QED  BY <1>1, <1>5, <1>6, <1>7, <1>8, CheckStep DEF Stat

(* The steps after which a call is over.                                   *)
LEMMA ExitType ==
  ASSUME TypeOK, NEW p \in Slot, Exit(p)
  PROVE  /\ call' \in [Slot -> Call] /\ pc' \in [Slot -> Steps]
         /\ pc'[p] = "idle" /\ call'[p] = NoCall(call[p].key)
         /\ call'[p].now = 0 /\ Others(p)
<1>1. NoCall(call[p].key) \in Call
  BY FileType, NoCallType
<1>2. call' = [call EXCEPT ![p] = NoCall(call[p].key)]
      /\ pc' = [pc EXCEPT ![p] = "idle"]
  BY DEF Exit, Goto
<1>3. NoCall(call[p].key).now = 0
  BY DEF NoCall
<1> QED  BY <1>1, <1>2, <1>3 DEF TypeOK, Steps, Others

LEMMA CountInv ==
  ASSUME PiInv, NEW p \in Slot, Count(p)
  PROVE  PiInv'
<1>1. TypeOK /\ pc[p] \in Active
  BY DEF PiInv, Count, Active, Steps
<1>2. /\ call' \in [Slot -> Call] /\ pc' \in [Slot -> Steps]
      /\ pc'[p] = "idle" /\ call'[p].now = 0 /\ Others(p)
  BY <1>1, ExitType DEF Count
<1>3. stats' \in [Event -> Nat]
  <2>1. stats["hit"] + 1 \in Nat
    BY <1>1 DEF TypeOK, Event
  <2> QED  BY <1>1, <2>1 DEF Count, TypeOK
<1>4. TypeOK'
  BY <1>1, <1>2, <1>3 DEF Count, TypeOK, history
<1>5. CacheInv' /\ StreakBounded'
  BY DEF PiInv, CacheInv, StreakBounded, Count, history
<1>6. call'[p].now <= clock
  BY <1>1, <1>2 DEF TypeOK
<1>7. CallOK(pc'[p], call'[p], FileOf(p)', cache'[call'[p].key])
  BY <1>2, RestingOK
<1> QED  BY <1>1, <1>2, <1>4, <1>5, <1>6, <1>7, CheckStep DEF Count

(* A step outside of checkFile, which may go on in another call.           *)
LEMMA OuterStep ==
  ASSUME PiInv, TypeOK', UNCHANGED <<clock, file, cache, history>>,
         NEW p \in Slot, Others(p), pc'[p] = "idle", call'[p].now = 0
  PROVE  PiInv'
<1>1. \A q \in Slot : pc'[q] \in Active => q # p /\ pc'[q] = pc[q]
  BY DEF Others, Active
<1>2. AloneInv'
  BY <1>1 DEF PiInv, AloneInv
<1>3. NowInv'
  BY DEF PiInv, NowInv, Others, TypeOK
<1>4. CacheInv' /\ StreakBounded'
  BY DEF PiInv, CacheInv, StreakBounded, history
<1>5. CallInv'
  <2> SUFFICES ASSUME NEW q \in Slot
               PROVE  CallOK(pc'[q], call'[q], FileOf(q)', cache'[call'[q].key])
    BY DEF CallInv
  <2>1. CASE q = p
    BY <2>1, RestingOK
  <2>2. CASE q # p
    <3>1. pc'[q] = pc[q] /\ call'[q] = call[q] /\ FileOf(q)' = FileOf(q)
      BY <2>2 DEF Others, FileOf
    <3> QED  BY <3>1 DEF PiInv, CallInv
  <2> QED  BY <2>1, <2>2
<1> QED  BY <1>2, <1>3, <1>4, <1>5 DEF PiInv

LEMMA RunToolInv ==
  ASSUME PiInv, NEW p \in Slot, RunTool(p)
  PROVE  PiInv'
<1>1. TypeOK
  BY DEF PiInv
<1>2. /\ call' \in [Slot -> Call] /\ pc' \in [Slot -> Steps]
      /\ pc'[p] = "idle" /\ call'[p].now = 0 /\ Others(p)
  BY <1>1, ExitType DEF RunTool
<1>3. held' \in [Key -> SUBSET Content]
  <2> DEFINE k == call[p].key
             c == FileOf(p).content
  <2>1. k \in Key /\ c \in Content \cup {Gone}
    BY <1>1, FileType
  <2>2. held' = [held EXCEPT ![k] = IF c = Gone THEN held[k]
                                    ELSE held[k] \cup {c}]
    BY DEF RunTool
  <2>3. held[k] \subseteq Content
    BY <1>1, <2>1 DEF TypeOK
  <2> HIDE DEF k, c
  <2> QED  BY <1>1, <2>1, <2>2, <2>3 DEF TypeOK
<1>4. TypeOK'
  BY <1>1, <1>2, <1>3 DEF RunTool, TypeOK, history
<1> QED  BY <1>2, <1>4, OuterStep DEF RunTool

LEMMA BeginInv ==
  ASSUME PiInv, NEW p \in Slot, NEW k \in Key, Begin(p, k)
  PROVE  PiInv'
<1> DEFINE e == cache[k]
           fresh == e # NoEntry /\ ~isExpired(e, clock)
           c == [NoCall(k) EXCEPT !.now = clock, !.entry = e]
           step == IF file[PathOf[k]].content = Gone THEN "tool"
                   ELSE IF fresh THEN "restat" ELSE "stat"
<1>1. TypeOK /\ clock \in Nat /\ e \in Entry \cup {NoEntry}
  BY DEF PiInv, TypeOK
<1>2. c \in Call /\ c.key = k /\ c.now = clock /\ c.entry = e
  <2>1. NoCall(k) \in Call
    BY NoCallType
  <2>2. c \in Call /\ c.now = clock /\ c.entry = e
    BY <1>1, <2>1 DEF Call
  <2>3. c.key = k
    BY DEF NoCall
  <2> QED  BY <2>2, <2>3
<1>3. call' = [call EXCEPT ![p] = c] /\ pc' = [pc EXCEPT ![p] = step]
  BY DEF Begin, Goto
<1>4. step \in {"tool", "restat", "stat"}
  OBVIOUS
<1>5. step = "restat" => e # NoEntry /\ clock - e.ts <= 3 * TTL
  <2> SUFFICES ASSUME e # NoEntry, ~isExpired(e, clock)
               PROVE  clock - e.ts <= 3 * TTL
    OBVIOUS
  <2>1. e.ts \in Nat /\ ~(clock - e.ts > adaptiveTTL(clock))
    BY <1>1 DEF Entry, isExpired
  <2> QED  BY <1>1, <2>1, adaptiveTTLBound, PiAssumption
<1> HIDE DEF c, step, e
<1>6. budget' \in [{"calls", "edits", "clears"} -> Nat]
  BY <1>1, SpendType DEF Begin
<1>7. TypeOK'
  BY <1>1, <1>2, <1>3, <1>4, <1>6 DEF Begin, TypeOK, Steps, history
<1>8. /\ pc'[p] = step /\ call'[p] = c
      /\ \A q \in Slot \ {p} : pc'[q] \in {"idle", "tool"} /\ call'[q] = call[q]
  BY <1>1, <1>3 DEF TypeOK, Begin, Quiet
<1>9. AloneInv'
  BY <1>8 DEF AloneInv, Active
<1>10. NowInv'
  BY <1>1, <1>2, <1>8 DEF PiInv, NowInv, Begin
<1>11. CacheInv' /\ StreakBounded'
  BY DEF PiInv, CacheInv, StreakBounded, Begin, history
<1>12. CallOK(step, c, FileOf(p)', e)
  BY <1>2, <1>4, <1>5 DEF CallOK, Active, Steps
<1>13. CallInv'
  <2> SUFFICES ASSUME NEW q \in Slot
               PROVE  CallOK(pc'[q], call'[q], FileOf(q)', cache'[call'[q].key])
    BY DEF CallInv
  <2>1. CASE q = p
    BY <1>2, <1>8, <1>12, <2>1 DEF Begin, e
  <2>2. CASE q # p
    BY <1>8, <2>2, RestingOK
  <2> QED  BY <2>1, <2>2
<1> QED  BY <1>7, <1>9, <1>10, <1>11, <1>13 DEF PiInv

-----------------------------------------------------------------------------
(* The steps of the user, the clock and the editor.                        *)
LEMMA ForgetInv ==
  ASSUME PiInv, NEW keys \in SUBSET Key, Forget(keys)
  PROVE  PiInv'
<1>1. TypeOK
  BY DEF PiInv
<1>2. budget' \in [{"calls", "edits", "clears"} -> Nat]
  BY <1>1, SpendType DEF Forget
<1>3. \A k \in Key : \/ cache'[k] = NoEntry
                     \/ cache'[k] = cache[k] /\ cleared'[k] = cleared[k]
  BY <1>1 DEF Forget, TypeOK
<1>4. cache' \in [Key -> Entry \cup {NoEntry}]
      /\ cleared' \in [Key -> BOOLEAN]
  BY <1>1 DEF Forget, TypeOK
<1>5. TypeOK'
  BY <1>1, <1>2, <1>4 DEF Forget, TypeOK
<1>6. CacheInv'
  BY <1>3 DEF PiInv, CacheInv, EntryOK, Forget
<1>7. AloneInv' /\ NowInv' /\ StreakBounded'
  BY DEF PiInv, AloneInv, NowInv, StreakBounded, Forget
<1>8. CallInv'
  BY RestingOK DEF Forget, Quiet, CallInv
<1> QED  BY <1>5, <1>6, <1>7, <1>8 DEF PiInv

LEMMA TickInv ==
  ASSUME PiInv, Tick
  PROVE  PiInv'
<1>1. clock \in Nat /\ clock' = clock + 1
  BY DEF PiInv, TypeOK, Tick
<1>2. TypeOK'
  BY <1>1 DEF PiInv, TypeOK, Tick, history
<1>3. NowInv'
  <2> SUFFICES ASSUME NEW p \in Slot PROVE call[p].now <= clock + 1
    BY <1>1 DEF NowInv, Tick
  <2>1. call[p].now \in Nat /\ call[p].now <= clock
    BY DEF PiInv, TypeOK, NowInv, Call
  <2> QED  BY <1>1, <2>1
<1>4. AloneInv' /\ CacheInv' /\ StreakBounded'
  BY DEF PiInv, AloneInv, CacheInv, StreakBounded, Tick, history
<1>5. CallInv'
  BY DEF PiInv, CallInv, FileOf, Tick
<1> QED  BY <1>2, <1>3, <1>4, <1>5 DEF PiInv

(* A file that changes has an mtime that no call under way can have.       *)
LEMMA EditInv ==
  ASSUME PiInv, NEW q \in Path, NEW c \in Content \cup {Gone}, Edit(q, c)
  PROVE  PiInv'
<1>1. TypeOK /\ clock \in Nat
  BY DEF PiInv, TypeOK
<1>2. file' = [file EXCEPT ![q] = [content |-> c, mtime |-> clock]]
  BY DEF Edit
<1>3. budget' \in [{"calls", "edits", "clears"} -> Nat]
  BY <1>1, SpendType DEF Edit
<1>4. TypeOK'
  BY <1>1, <1>2, <1>3 DEF Edit, TypeOK, history
<1>5. AloneInv' /\ NowInv' /\ CacheInv' /\ StreakBounded'
  BY DEF PiInv, AloneInv, NowInv, CacheInv, StreakBounded, Edit, history
<1>6. CallInv'
  <2> SUFFICES ASSUME NEW p \in Slot
               PROVE  CallOK(pc[p], call[p], FileOf(p)', cache[call[p].key])
    BY DEF CallInv, Edit
  <2>1. CallOK(pc[p], call[p], FileOf(p), cache[call[p].key])
    BY DEF PiInv, CallInv
  <2>2. PathOf[call[p].key] \in Path
    BY <1>1, FileType
  <2>3. \/ FileOf(p)' = FileOf(p)
        \/ FileOf(p)' = [content |-> c, mtime |-> clock]
    BY <1>1, <1>2, <2>2 DEF FileOf, TypeOK, Edit
  <2>4. call[p].now <= clock /\ call[p].now \in Nat
    BY <1>1, FileType DEF PiInv, NowInv, Call
  <2>5. CASE FileOf(p)' = FileOf(p)
    BY <2>1, <2>5
  <2>6. CASE FileOf(p)' = [content |-> c, mtime |-> clock]
    <3>1. FileOf(p)'.mtime >= call[p].now
      BY <1>1, <2>4, <2>6
    <3> QED  BY <2>1, <3>1 DEF CallOK
  <2> QED  BY <2>3, <2>5, <2>6
<1> QED  BY <1>4, <1>5, <1>6 DEF PiInv

LEMMA PiNext == PiInv /\ [Next]_vars => PiInv'
<1> SUFFICES ASSUME PiInv, [Next]_vars PROVE PiInv'
  OBVIOUS
<1>1. ASSUME NEW q \in Path, ClearFile(q) PROVE PiInv'
  <2>1. {k \in Key : PathOf[k] = q} \in SUBSET Key
    OBVIOUS
  <2> QED  BY <1>1, <2>1, ForgetInv DEF ClearFile
<1>2. ASSUME ClearAll PROVE PiInv'
  BY <1>2, ForgetInv DEF ClearAll
<1>3. ASSUME UNCHANGED vars PROVE PiInv'
  BY <1>3 DEF vars, history, PiInv, TypeOK, AloneInv, NowInv, CacheInv,
              CallInv, StreakBounded, FileOf
<1> QED
  BY <1>1, <1>2, <1>3, BeginInv, RestatInv, RehashInv, ValidateInv, CountInv,
     StatInv, HashInv, RunToolInv, TickInv, EditInv
  DEF Next

(* PiInv is inductive, whatever calls, edits and clears come between the   *)
(* steps of checkFile.                                                     *)
THEOREM PiInvariant == Spec => []PiInv
<1> QED  BY PiInit, PiNext, PTL DEF Spec

(* Type correctness: the extension only ever stores values that its types  *)
(* allow.                                                                  *)
THEOREM PiTypeCorrect == Spec => []TypeOK
<1>1. PiInv => TypeOK
  BY DEF PiInv
<1> QED  BY <1>1, PiInvariant, PTL

(* A refusal is of a file that is as it was recorded, unless it changed    *)
(* after checkFile started.                                                *)
THEOREM PiUnchangedIsTrue == Spec => []UnchangedIsTrue
<1>1. PiInv => UnchangedIsTrue
  BY DEF PiInv, CallInv, CallOK, UnchangedIsTrue, Refused
<1> QED  BY <1>1, PiInvariant, PTL

(* An agent that insists gets the file, with any number of parallel calls. *)
THEOREM PiStreakBounded == Spec => []StreakBounded
<1>1. PiInv => StreakBounded
  BY DEF PiInv
<1> QED  BY <1>1, PiInvariant, PTL

(* A key that no call has touched for longer than three times TTL is not   *)
(* on its way to a refusal.                                                *)
THEOREM PiNeverRefusedLong == Spec => []UntouchedNotRefused
<1>1. PiInv => UntouchedNotRefused
  <2> SUFFICES ASSUME PiInv, NEW p \in Slot, pc[p] \in {"restat", "validate"}
               PROVE  call[p].now - seen[call[p].key] <= 3 * TTL
    BY DEF UntouchedNotRefused
  <2>1. CallOK(pc[p], call[p], FileOf(p), cache[call[p].key])
        /\ call[p].key \in Key
    BY FileType DEF PiInv, CallInv
  <2>2. /\ call[p].entry # NoEntry /\ call[p].entry = cache[call[p].key]
        /\ call[p].now - call[p].entry.ts <= 3 * TTL
    BY <2>1 DEF CallOK, Active, Steps
  <2>3. call[p].entry.ts = seen[call[p].key]
    BY <2>1, <2>2 DEF PiInv, CacheInv, EntryOK
  <2> QED  BY <2>2, <2>3
<1> QED  BY <1>1, PiInvariant, PTL

(* A key that was cleared is not refused before it has passed.             *)
THEOREM PiClearedIsForgotten == Spec => []ClearedIsForgotten
<1>1. PiInv => ClearedIsForgotten
  BY FileType
  DEF PiInv, CallInv, CallOK, CacheInv, EntryOK, ClearedIsForgotten, Refused
<1> QED  BY <1>1, PiInvariant, PTL

-----------------------------------------------------------------------------
(***************************************************************************)
(* "Already in context".  With hashes, and mtimes that tell two versions   *)
(* of a file apart, what the cache has of a key is either older than the   *)
(* file or was given to the agent.                                         *)
(***************************************************************************)
Apart == HASH_MODE /\ ~SameTickEdits

(* What was given stays given when no tool is withdrawn.                   *)
LEMMA GivenStays ==
  ASSUME \A j \in Key : held[j] \subseteq held'[j],
         \A o \in Slot : pc[o] = "tool" =>
           /\ pc'[o] = "tool"
           /\ call'[o].key = call[o].key /\ call'[o].hash = call[o].hash,
         NEW k \in Key, NEW h, Given(k, h)
  PROVE  Given(k, h)'
  BY DEF Given

LEMMA VersionKept ==
  ASSUME TypeOK, VersionInv, file' = file,
         \A j \in Key : cache'[j] \in {cache[j], NoEntry},
         \A j \in Key : \A h : Given(j, h) => Given(j, h)',
         NEW k \in Key
  PROVE  VersionOK(k, cache[k], file[PathOf[k]])'
<1>1. CASE cache'[k] = NoEntry
  BY <1>1 DEF VersionOK
<1>2. CASE cache'[k] = cache[k] /\ cache[k] # NoEntry
  <2> DEFINE e == cache[k]
             f == file[PathOf[k]]
  <2>1. /\ e.mtime <= f.mtime
        /\ e.mtime = f.mtime =>
             f.content # Gone /\ f.content = e.hash /\ Given(k, e.hash)
    BY <1>2 DEF VersionInv, VersionOK
  <2>2. Given(k, e.hash) => Given(k, e.hash)'
    BY <1>2
  <2> QED  BY <1>2, <2>1, <2>2 DEF VersionOK
<1> QED  BY <1>1, <1>2

LEMMA VersionInit == Init => VersionInv
<1> SUFFICES ASSUME Init PROVE VersionInv
  OBVIOUS
<1>1. \A k \in Key : VersionOK(k, cache[k], file[PathOf[k]])
  BY DEF Init, VersionOK
<1>2. \A p \in Slot : RecordOK(pc[p], call[p], FileOf(p), cache[call[p].key])
  BY RestingOK DEF Init
<1> QED  BY <1>1, <1>2 DEF VersionInv

(* A step of checkFile of p, when every other call rests.                  *)
LEMMA VersionCheck ==
  ASSUME TypeOK, AloneInv, NEW p \in Slot, pc[p] \in Active, Others(p),
         \A k \in Key : VersionOK(k, cache[k], file[PathOf[k]])',
         RecordOK(pc[p], call[p], FileOf(p), cache[call[p].key])'
  PROVE  VersionInv'
<1>1. ASSUME NEW q \in Slot
      PROVE  RecordOK(pc[q], call[q], FileOf(q), cache[call[q].key])'
  <2>1. CASE q = p
    BY <2>1
  <2>2. CASE q # p
    <3>1. pc'[q] \in {"idle", "tool"}
      BY <2>2, OthersRest DEF Others
    <3> QED  BY <3>1, RestingOK
  <2> QED  BY <2>1, <2>2
<1> QED  BY <1>1 DEF VersionInv

LEMMA VersionRecord ==
  ASSUME PiInv, VersionInv,
         NEW p \in Slot, pc[p] \in {"rehash", "validate", "hash"},
         NEW a \in Answer, NEW m \in Nat, NEW h \in Content \cup {NoHash},
         Record(p, a, m, h), UNCHANGED <<clock, file, budget, held>>,
         a = "hit" => call[p].entry # NoEntry,
         m <= FileOf(p).mtime,
         m = FileOf(p).mtime =>
           /\ FileOf(p).content # Gone /\ FileOf(p).content = h
           /\ a = "hit" => Given(call[p].key, h),
         a = "hit" => m = FileOf(p).mtime \/ FileOf(p).mtime >= call[p].now
  PROVE  VersionInv'
<1> DEFINE f == FileOf(p)
<1>0. /\ TypeOK /\ AloneInv /\ pc[p] \in Active /\ pc[p] # "tool"
      /\ call[p].key \in Key
  BY FileType DEF PiInv, Active, Steps
<1>1. PICK k \in Key : k = call[p].key
  BY <1>0
<1>2. /\ Others(p)
      /\ call'[p].now = call[p].now /\ call'[p].key = k /\ call'[p].hash = h
      /\ pc'[p] = IF a = "hit" THEN "count" ELSE "tool"
      /\ cache'[k].mtime = m /\ cache'[k].hash = h
  <2>1. /\ Others(p)
        /\ call'[p].now = call[p].now /\ call'[p].key = k /\ call'[p].hash = h
        /\ pc'[p] = IF a = "hit" THEN "count" ELSE "tool"
        /\ cache'[k] =
             [mtime |-> m, ts |-> call[p].now, lastAttempt |-> call[p].now,
              hash |-> h,
              attempts |-> IF a = "hit"
                           THEN Attempts(call[p].entry, call[p].now) ELSE 0]
    BY <1>0, <1>1, RecordType
  <2> QED  BY <2>1
<1>3. FileOf(p)' = f /\ f = file[PathOf[k]]
  BY <1>1, <1>2 DEF FileOf
<1>4. ASSUME NEW j \in Key, NEW g, Given(j, g) PROVE Given(j, g)'
  BY <1>0, <1>2, <1>4, GivenStays DEF Others
<1>5. ASSUME NEW j \in Key
      PROVE  VersionOK(j, cache[j], file[PathOf[j]])'
  <2>1. CASE j # k
    <3>1. cache'[j] = cache[j]
      BY <1>0, <1>1, <2>1 DEF Record, TypeOK
    <3>2. VersionOK(j, cache[j], file[PathOf[j]])
      BY DEF VersionInv
    <3>3. Given(j, cache[j].hash) => Given(j, cache[j].hash)'
      <4>1. PICK g : g = cache[j].hash
        OBVIOUS
      <4>2. Given(j, g) => Given(j, g)'
        BY <1>4
      <4> QED  BY <3>1, <4>1, <4>2 DEF Given
    <3> QED  BY <3>1, <3>2, <3>3 DEF VersionOK
  <2>2. CASE j = k
    <3>1. m = f.mtime => Given(k, h)'
      <4>1. CASE a = "hit"
        <5>1. Given(k, h) => Given(k, h)'
          BY <1>4
        <5> QED  BY <1>1, <4>1, <5>1
      <4>2. CASE a # "hit"
        BY <1>1, <1>2, <4>2 DEF Given
      <4> QED  BY <4>1, <4>2
    <3>2. Given(k, h)' => Given(k, cache[k].hash)'
      BY <1>1, <1>2 DEF Given
    <3> QED  BY <1>1, <1>2, <1>3, <2>2, <3>1, <3>2 DEF VersionOK
  <2> QED  BY <2>1, <2>2
<1>6. RecordOK(pc[p], call[p], FileOf(p), cache[call[p].key])'
  BY <1>1, <1>2, <1>3 DEF RecordOK
<1> QED  BY <1>0, <1>2, <1>5, <1>6, VersionCheck

LEMMA VersionVerdict ==
  ASSUME PiInv, VersionInv, Apart, NEW p \in Slot,
         Rehash(p) \/ Hash(p) \/ Validate(p)
  PROVE  VersionInv'
<1> DEFINE f == FileOf(p)
           hash == fileHash(p)
           e == call[p].entry
<1>1. /\ TypeOK /\ call[p] \in Call /\ call[p].key \in Key
      /\ hash \in Content \cup {NoHash} /\ call[p].mtime \in Nat
      /\ f.content \in Content \cup {Gone} /\ f.mtime \in Nat
  BY FileType DEF PiInv, Call
<1>2. f.content # Gone => hash = f.content
  BY DEF Apart, fileHash
<1>3. RecordOK(pc[p], call[p], f, cache[call[p].key])
  BY DEF VersionInv
<1>4. ASSUME Rehash(p) \/ Hash(p) PROVE VersionInv'
  <2>1. PICK a \in {"changed", "miss", "expired"} :
          Record(p, a, call[p].mtime, hash)
    BY <1>4 DEF Rehash, Hash
  <2>2. a \in Answer /\ a # "hit"
    BY DEF Answer, Event
  <2>3. /\ pc[p] \in {"rehash", "hash"}
        /\ UNCHANGED <<clock, file, budget, held>>
    BY <1>4 DEF Rehash, Hash
  <2>4. /\ call[p].mtime <= f.mtime
        /\ call[p].mtime = f.mtime => f.content # Gone
    BY <1>3, <2>3 DEF RecordOK
  <2> QED  BY <1>1, <1>2, <2>1, <2>2, <2>3, <2>4, VersionRecord
<1>5. ASSUME Validate(p) PROVE VersionInv'
  <2>1. /\ pc[p] = "validate" /\ UNCHANGED <<clock, file, budget, held>>
        /\ e # NoEntry /\ e = cache[call[p].key]
        /\ f.mtime >= call[p].now \/ (f.mtime = e.mtime /\ f.content # Gone)
    BY <1>5 DEF PiInv, CallInv, CallOK, Active, Steps, Validate
  <2>2. /\ e \in Entry /\ e.mtime \in Nat
        /\ e.hash \in Content \cup {NoHash} /\ call[p].now \in Nat
    BY <1>1, <2>1 DEF Call, Entry
  <2>3. /\ e.mtime <= f.mtime
        /\ e.mtime = f.mtime =>
             /\ f.content # Gone /\ f.content = e.hash
             /\ Given(call[p].key, e.hash)
    <3>1. VersionOK(call[p].key, e, file[PathOf[call[p].key]])
      BY <1>1, <2>1 DEF VersionInv
    <3> QED  BY <2>1, <3>1 DEF VersionOK, FileOf
  <2>4. CASE /\ e.hash # NoHash /\ hash # NoHash /\ hash # e.hash
             /\ Record(p, "changed", e.mtime, hash)
    <3>1. e.mtime # f.mtime
      BY <1>2, <2>3, <2>4
    <3>2. "changed" \in Answer
      BY DEF Answer, Event
    <3> QED  BY <1>1, <2>1, <2>2, <2>3, <2>4, <3>1, <3>2, VersionRecord
  <2>5. CASE Record(p, HitAnswer(e, call[p].now), e.mtime, e.hash)
    <3> DEFINE a == HitAnswer(e, call[p].now)
    <3>1. a \in Answer
      BY <2>2, HitAnswerOK DEF Answer, Event
    <3> HIDE DEF a
    <3>2. Record(p, a, e.mtime, e.hash)
      BY <2>5 DEF a
    <3> QED  BY <2>1, <2>2, <2>3, <3>1, <3>2, VersionRecord
  <2> QED  BY <1>5, <2>4, <2>5 DEF Validate
<1> QED  BY <1>4, <1>5

LEMMA VersionLook ==
  ASSUME PiInv, VersionInv, NEW p \in Slot, Restat(p) \/ Stat(p) \/ Count(p)
  PROVE  VersionInv'
<1> DEFINE k == call[p].key
           f == FileOf(p)
<1>1. /\ TypeOK /\ AloneInv /\ pc[p] \in Active /\ pc[p] # "tool"
      /\ call[p] \in Call /\ k \in Key /\ f.mtime \in Nat
  BY FileType DEF PiInv, Restat, Stat, Count, Active, Steps
<1>2. Others(p) /\ call'[p].key = k
  <2>1. CASE Restat(p) \/ Stat(p)
    <3>1. \/ call' = call
          \/ call' = [call EXCEPT ![p].mtime = f.mtime]
      BY <2>1 DEF Restat, Stat
    <3> QED  BY <1>1, <2>1, <3>1 DEF Restat, Stat, Goto, TypeOK, Others, Call
  <2>2. CASE Count(p)
    <3>1. Others(p) /\ call'[p] = NoCall(k)
      BY <1>1, <2>2, ExitType DEF Count
    <3> QED  BY <3>1 DEF NoCall
  <2> QED  BY <2>1, <2>2
<1>3. /\ UNCHANGED <<file, held>>
      /\ \A j \in Key : cache'[j] \in {cache[j], NoEntry}
  BY <1>1 DEF Restat, Stat, Count, TypeOK
<1>4. ASSUME NEW j \in Key, NEW g, Given(j, g) PROVE Given(j, g)'
  BY <1>1, <1>2, <1>3, <1>4, GivenStays DEF Others
<1>5. \A j \in Key : VersionOK(j, cache[j], file[PathOf[j]])'
  BY <1>1, <1>3, <1>4, VersionKept
<1>6. FileOf(p)' = f
  BY <1>2, <1>3 DEF FileOf
<1>7. RecordOK(pc[p], call[p], FileOf(p), cache[call[p].key])'
  <2>1. CASE pc'[p] \in {"rehash", "hash"}
    <3>1. f.content # Gone /\ call' = [call EXCEPT ![p].mtime = f.mtime]
      BY <1>1, <2>1 DEF Restat, Stat, Count, Goto, Exit, TypeOK
    <3>2. call'[p].mtime = f.mtime
      BY <1>1, <3>1 DEF TypeOK, Call
    <3> QED  BY <1>1, <1>6, <2>1, <3>1, <3>2 DEF RecordOK
  <2>2. CASE pc'[p] \in {"tool", "validate", "idle"}
    BY <2>2 DEF RecordOK
  <2>3. pc'[p] \in {"rehash", "hash", "tool", "validate", "idle"}
    BY <1>1 DEF Restat, Stat, Count, Goto, Exit, TypeOK
  <2> QED  BY <2>1, <2>2, <2>3
<1> QED  BY <1>1, <1>2, <1>5, <1>7, VersionCheck

(* The tool that runs gives what it promised, or something newer.          *)
LEMMA VersionTool ==
  ASSUME PiInv, VersionInv, NEW p \in Slot, RunTool(p)
  PROVE  VersionInv'
<1> DEFINE k == call[p].key
           c == FileOf(p).content
<1>1. TypeOK /\ k \in Key /\ c \in Content \cup {Gone}
  BY FileType DEF PiInv
<1>2. Others(p) /\ pc'[p] = "idle"
  BY <1>1, ExitType DEF RunTool
<1>3. /\ UNCHANGED <<file, cache>>
      /\ held' = [held EXCEPT ![k] = IF c = Gone THEN held[k]
                                     ELSE held[k] \cup {c}]
  BY DEF RunTool
<1>4. /\ \A j \in Key : held[j] \subseteq held'[j]
      /\ c # Gone => c \in held'[k]
  BY <1>1, <1>3 DEF TypeOK
<1>5. ASSUME NEW j \in Key, NEW g, Given(j, g),
             j = k => c # Gone /\ c = g
      PROVE  Given(j, g)'
  <2>1. CASE g \in held[j]
    BY <1>4, <2>1 DEF Given
  <2>2. CASE g \notin held[j]
    <3>1. PICK o \in Slot :
            pc[o] = "tool" /\ call[o].key = j /\ call[o].hash = g
      BY <1>5, <2>2 DEF Given
    <3>2. CASE o = p
      BY <1>4, <1>5, <3>1, <3>2 DEF Given
    <3>3. CASE o # p
      BY <1>2, <3>1, <3>3 DEF Given, Others
    <3> QED  BY <3>2, <3>3
  <2> QED  BY <2>1, <2>2
<1>6. ASSUME NEW j \in Key
      PROVE  VersionOK(j, cache[j], file[PathOf[j]])'
  <2> DEFINE e == cache[j]
             f == file[PathOf[j]]
  <2>1. VersionOK(j, e, f)
    BY DEF VersionInv
  <2>2. CASE e # NoEntry /\ e.mtime = f.mtime
    <3>1. /\ f.content # Gone /\ f.content = e.hash /\ Given(j, e.hash)
      BY <2>1, <2>2 DEF VersionOK
    <3>2. j = k => c # Gone /\ c = e.hash
      BY <3>1 DEF FileOf
    <3>3. Given(j, e.hash)'
      <4>1. PICK g : g = e.hash
        OBVIOUS
      <4>2. Given(j, g)'
        BY <1>5, <3>1, <3>2, <4>1
      <4> QED  BY <1>3, <4>1, <4>2 DEF Given
    <3> QED  BY <1>3, <2>1, <2>2, <3>3 DEF VersionOK
  <2>3. CASE e = NoEntry \/ e.mtime # f.mtime
    BY <1>3, <2>1, <2>3 DEF VersionOK
  <2> QED  BY <2>2, <2>3
<1>7. ASSUME NEW q \in Slot
      PROVE  RecordOK(pc[q], call[q], FileOf(q), cache[call[q].key])'
  <2>1. CASE q = p
    BY <1>2, <2>1, RestingOK
  <2>2. CASE q # p
    <3>1. pc'[q] = pc[q] /\ call'[q] = call[q] /\ FileOf(q)' = FileOf(q)
      BY <1>2, <1>3, <2>2 DEF Others, FileOf
    <3> QED  BY <1>3, <3>1 DEF VersionInv
  <2> QED  BY <2>1, <2>2
<1> QED  BY <1>6, <1>7 DEF VersionInv

LEMMA VersionBegin ==
  ASSUME PiInv, VersionInv, NEW p \in Slot, NEW k \in Key, Begin(p, k)
  PROVE  VersionInv'
<1>1. /\ TypeOK /\ UNCHANGED <<file, cache, held>>
      /\ \A q \in Slot : pc[q] \in {"idle", "tool"}
      /\ pc[p] = "idle" /\ Others(p)
      /\ pc'[p] \in {"tool", "restat", "stat"}
  BY DEF PiInv, Begin, Quiet, Goto, TypeOK, Others
<1>2. ASSUME NEW j \in Key, NEW g, Given(j, g) PROVE Given(j, g)'
  BY <1>1, <1>2, GivenStays DEF Others
<1>3. \A j \in Key : VersionOK(j, cache[j], file[PathOf[j]])'
  BY <1>1, <1>2, VersionKept
<1>4. \A q \in Slot : pc'[q] \in {"idle", "tool", "restat", "stat"}
  BY <1>1 DEF Others
<1>5. \A q \in Slot : RecordOK(pc[q], call[q], FileOf(q), cache[call[q].key])'
  BY <1>4 DEF RecordOK
<1> QED  BY <1>3, <1>5 DEF VersionInv

LEMMA VersionForget ==
  ASSUME PiInv, VersionInv, NEW keys \in SUBSET Key, Forget(keys)
  PROVE  VersionInv'
<1>1. /\ TypeOK /\ UNCHANGED <<file, held, pc, call>>
      /\ \A q \in Slot : pc'[q] \in {"idle", "tool"}
      /\ \A j \in Key : cache'[j] \in {cache[j], NoEntry}
  BY DEF PiInv, Forget, Quiet
<1>2. ASSUME NEW j \in Key, NEW g, Given(j, g) PROVE Given(j, g)'
  BY <1>1, <1>2, GivenStays
<1>3. \A j \in Key : VersionOK(j, cache[j], file[PathOf[j]])'
  BY <1>1, <1>2, VersionKept
<1>4. \A q \in Slot : RecordOK(pc[q], call[q], FileOf(q), cache[call[q].key])'
  BY <1>1, RestingOK
<1> QED  BY <1>3, <1>4 DEF VersionInv

(* A step that only moves the clock, or none.                              *)
LEMMA VersionSame ==
  ASSUME VersionInv, UNCHANGED <<file, cache, pc, call, held>>
  PROVE  VersionInv'
  BY DEF VersionInv, VersionOK, RecordOK, Given, FileOf

(* A file that changes gets a greater mtime than any it had.               *)
LEMMA VersionEdit ==
  ASSUME PiInv, VersionInv, Apart,
         NEW q \in Path, NEW c \in Content \cup {Gone}, Edit(q, c)
  PROVE  VersionInv'
<1>1. /\ TypeOK /\ clock \in Nat /\ UNCHANGED <<cache, pc, call, held>>
      /\ file[q].mtime < clock /\ file[q].mtime \in Nat
      /\ file' = [file EXCEPT ![q] = [content |-> c, mtime |-> clock]]
  BY DEF PiInv, TypeOK, Edit, Apart
<1>2. ASSUME NEW j \in Key
      PROVE  VersionOK(j, cache[j], file[PathOf[j]])'
  <2> DEFINE e == cache[j]
             f == file[PathOf[j]]
  <2>1. VersionOK(j, e, f) /\ PathOf[j] \in Path
    BY PiAssumption DEF VersionInv
  <2>2. CASE PathOf[j] # q \/ e = NoEntry
    <3>1. file'[PathOf[j]] = f \/ e = NoEntry
      BY <1>1, <2>1, <2>2 DEF TypeOK
    <3>2. Given(j, e.hash) => Given(j, cache[j].hash)'
      BY <1>1 DEF Given
    <3> QED  BY <1>1, <2>1, <3>1, <3>2 DEF VersionOK
  <2>3. CASE PathOf[j] = q /\ e # NoEntry
    <3>1. file'[PathOf[j]].mtime = clock
      BY <1>1, <2>1, <2>3 DEF TypeOK
    <3>2. e \in Entry /\ e.mtime \in Nat
      BY <1>1, <2>3 DEF TypeOK, Entry
    <3>3. e.mtime < clock
      BY <1>1, <2>1, <2>3, <3>2 DEF VersionOK
    <3> QED  BY <1>1, <3>1, <3>2, <3>3 DEF VersionOK
  <2> QED  BY <2>2, <2>3
<1>3. ASSUME NEW p \in Slot
      PROVE  RecordOK(pc[p], call[p], FileOf(p), cache[call[p].key])'
  <2>1. /\ RecordOK(pc[p], call[p], FileOf(p), cache[call[p].key])
        /\ call[p] \in Call /\ PathOf[call[p].key] \in Path
        /\ call[p].mtime \in Nat /\ call[p].now \in Nat
        /\ call[p].now <= clock
    BY <1>1, FileType DEF VersionInv, PiInv, NowInv, Call
  <2>2. \/ FileOf(p)' = FileOf(p)
        \/ FileOf(p)'.mtime = clock /\ FileOf(p).mtime < clock
             /\ FileOf(p).mtime \in Nat
    BY <1>1, <2>1 DEF FileOf, TypeOK
  <2>3. CASE FileOf(p)' = FileOf(p)
    BY <1>1, <2>1, <2>3
  <2>4. CASE /\ FileOf(p)'.mtime = clock /\ FileOf(p).mtime < clock
             /\ FileOf(p).mtime \in Nat
    BY <1>1, <2>1, <2>4 DEF RecordOK
  <2> QED  BY <2>2, <2>3, <2>4
<1> QED  BY <1>2, <1>3 DEF VersionInv

LEMMA VersionNext ==
  ASSUME Apart PROVE PiInv /\ VersionInv /\ [Next]_vars => VersionInv'
<1> SUFFICES ASSUME PiInv, VersionInv, [Next]_vars PROVE VersionInv'
  OBVIOUS
<1>1. ASSUME NEW q \in Path, ClearFile(q) PROVE VersionInv'
  <2>1. {k \in Key : PathOf[k] = q} \in SUBSET Key
    OBVIOUS
  <2> QED  BY <1>1, <2>1, VersionForget DEF ClearFile
<1>2. ASSUME ClearAll PROVE VersionInv'
  BY <1>2, VersionForget DEF ClearAll
<1>3. ASSUME Tick \/ UNCHANGED vars PROVE VersionInv'
  BY <1>3, VersionSame DEF Tick, vars
<1> QED
  BY <1>1, <1>2, <1>3, VersionVerdict, VersionLook, VersionTool, VersionBegin,
     VersionEdit
  DEF Next

(* "Already in context" is true: with hashes, and mtimes that tell two     *)
(* versions of a file apart, a file that did not change after checkFile    *)
(* started is refused only if the agent was shown its content, or is about *)
(* to be by a call whose tool has not run yet.                             *)
THEOREM PiRefusedIsHeld ==
  ASSUME ~SameTickEdits PROVE Spec => []RefusedIsHeld
<1>1. CASE ~HASH_MODE
  <2>1. RefusedIsHeld
    BY <1>1 DEF RefusedIsHeld
  <2> QED  BY <2>1, PTL
<1>2. CASE HASH_MODE
  <2>1. Apart
    BY <1>2 DEF Apart
  <2>2. PiInv /\ VersionInv => RefusedIsHeld
    <3> SUFFICES ASSUME PiInv, VersionInv, NEW p \in Slot, Refused(p)
                 PROVE  \/ Given(call[p].key, call[p].hash)
                        \/ FileOf(p).mtime >= call[p].now
      BY DEF RefusedIsHeld, Given
    <3> DEFINE k == call[p].key
               e == cache[k]
    <3>1. /\ pc[p] = "count" /\ k \in Key /\ e # NoEntry
          /\ call[p].hash = e.hash
          /\ e.mtime = FileOf(p).mtime \/ FileOf(p).mtime >= call[p].now
      BY FileType
      DEF PiInv, VersionInv, CallInv, CallOK, RecordOK, Refused
    <3>2. VersionOK(k, e, FileOf(p))
      BY <3>1 DEF VersionInv, FileOf
    <3> QED  BY <3>1, <3>2 DEF VersionOK
  <2>3. Init => VersionInv
    BY VersionInit
  <2>4. PiInv /\ VersionInv /\ [Next]_vars => VersionInv'
    BY <2>1, VersionNext
  <2> QED  BY <2>2, <2>3, <2>4, PiInvariant, PTL DEF Spec
<1> QED  BY <1>1, <1>2
=============================================================================
