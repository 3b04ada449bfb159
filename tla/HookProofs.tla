----------------------------- MODULE HookProofs -----------------------------
(***************************************************************************)
(* Proofs about HookProcess, for any number of processes, keys, files and  *)
(* contents, and any values of the policy's parameters.                    *)
(***************************************************************************)
EXTENDS HookProcess, ReadPolicyProofs, FiniteSetTheorems,
        FunctionTheorems, SequenceTheorems

(* The words given so far: verdicts that passed, and refusals.             *)
Words == released \cup refused

(* The word on a version of key k, given at time t.                        *)
WordOn(k, m, h, t) == [key |-> k, mtime |-> m, hash |-> h, at |-> t]

(* An entry is the record of a word, no later than S has it.               *)
Known(W, S, e) ==
  WordOn(e.key, e.mtime, e.hash, e.ts) \in W /\ e.ts <= S[e.key]

(* What a process with local variables c found in the log, and what it     *)
(* settled on.                                                             *)
FoundOK(W, S, c) ==
  /\ c.ttl <= 3 * BaseTTL
  /\ c.last # NoEntry =>
       c.last.key = c.key /\ c.last.ts > 0 /\ Known(W, S, c.last)

SettledOK(W, c) ==
  /\ c.answer # "blocked" => WordOn(c.key, c.mtime, c.hash, c.now) \in W
  /\ c.answer = "hit" =>
       c.last # NoEntry /\ c.now - c.last.ts < 3 * BaseTTL

SettledSteps == {"append", "copy", "copy_write", "stats", "emit"}

CallOK(W, S, step, c) ==
  /\ FoundOK(W, S, c)
  /\ step \in SettledSteps =>
       SettledOK(W, c) /\ (c.answer = "blocked" => step = "emit")

(* The inductive invariant: the log, and what the processes hold of it,    *)
(* only name versions that a word was given on.                            *)
LogInv == \A i \in DOMAIN log : log[i].ts > 0 => Known(Words, seen, log[i])

CallInv == \A p \in Proc : CallOK(Words, seen, pc[p], call[p])

HookInv == TypeOK /\ LogInv /\ CallInv

-----------------------------------------------------------------------------
(* What is known, found or settled stays so when W and S grow.             *)
LEMMA KnownStays ==
  ASSUME NEW W, NEW W2, W \subseteq W2,
         NEW S \in [Key -> Nat], NEW S2 \in [Key -> Nat],
         \A k \in Key : S[k] <= S2[k],
         NEW e \in Entry, Known(W, S, e)
  PROVE  Known(W2, S2, e)
<1>1. e.key \in Key /\ e.ts \in Nat
  BY DEF Entry
<1>2. WordOn(e.key, e.mtime, e.hash, e.ts) \in W2
  BY DEF Known
<1>3. S[e.key] \in Nat /\ S2[e.key] \in Nat /\ S[e.key] <= S2[e.key]
  BY <1>1
<1> QED  BY <1>1, <1>2, <1>3 DEF Known

LEMMA CallOKStays ==
  ASSUME NEW W, NEW W2, W \subseteq W2,
         NEW S \in [Key -> Nat], NEW S2 \in [Key -> Nat],
         \A k \in Key : S[k] <= S2[k],
         NEW step, NEW c \in Call, CallOK(W, S, step, c)
  PROVE  CallOK(W2, S2, step, c)
<1>1. FoundOK(W2, S2, c)
  <2>1. c.last \in Entry \cup {NoEntry}
    BY DEF Call
  <2>2. CASE c.last = NoEntry
    BY <2>2 DEF FoundOK, CallOK
  <2>3. CASE c.last # NoEntry
    BY <2>1, <2>3, KnownStays DEF FoundOK, CallOK
  <2> QED  BY <2>2, <2>3
<1>2. step \in SettledSteps => SettledOK(W2, c)
  BY DEF CallOK, SettledOK
<1> QED  BY <1>1, <1>2 DEF CallOK

LEMMA NoCallType == ASSUME NEW k \in Key PROVE NoCall(k) \in Call
  BY DEF NoCall, Call, Answer, Stored, Hash, Mtime

LEMMA HookInit == Init => HookInv
<1> SUFFICES ASSUME Init PROVE HookInv
  OBVIOUS
<1>1. TypeOK
  <2>1. call \in [Proc -> Call]
    BY NoCallType DEF Init
  <2>2. file \in [Path -> File]
    <3>1. {[content |-> c, mtime |-> 0] : c \in Content} \subseteq File
      BY DEF File
    <3> QED  BY <3>1 DEF Init
  <2>3. clock \in Nat /\ budget \in [{"calls", "edits", "faults", "clears"} -> Nat]
    BY HookAssumption DEF Init
  <2>4. log \in Seq(Entry)
    BY DEF Init
  <2> QED  BY <2>1, <2>2, <2>3, <2>4 DEF Init, TypeOK, Steps, Stored
<1>2. LogInv
  BY DEF Init, LogInv
<1>3. CallInv
  <2> SUFFICES ASSUME NEW p \in Proc
               PROVE  /\ pc[p] = "idle"
                      /\ call[p].ttl = 0 /\ call[p].last = NoEntry
    BY PolicyAssumption DEF CallInv, CallOK, FoundOK, SettledSteps
  <2>1. call[p] \in {NoCall(k) : k \in Key}
    BY DEF Init
  <2>2. pc[p] = "idle"
    BY DEF Init
  <2> QED  BY <2>1, <2>2 DEF NoCall
<1> QED  BY <1>1, <1>2, <1>3 DEF HookInv

-----------------------------------------------------------------------------
(* The words and seen only grow.                                           *)
Grows == Words \subseteq Words' /\ \A k \in Key : seen[k] <= seen'[k]

Others(p) == \A q \in Proc \ {p} : call'[q] = call[q] /\ pc'[q] = pc[q]

(* The log keeps its entries known, and the other processes what they have *)
(* found, through a step of p.                                             *)
LEMMA LogStays ==
  ASSUME HookInv, TypeOK', Grows, log' = log
  PROVE  LogInv'
<1> SUFFICES ASSUME NEW i \in DOMAIN log, log[i].ts > 0
             PROVE  Known(Words', seen', log[i])
  BY DEF LogInv
<1>1. log[i] \in Entry /\ seen \in [Key -> Nat] /\ seen' \in [Key -> Nat]
  BY DEF HookInv, TypeOK
<1>2. Known(Words, seen, log[i])
  BY DEF HookInv, LogInv
<1> QED  BY <1>1, <1>2, KnownStays DEF Grows

LEMMA CallsStay ==
  ASSUME HookInv, TypeOK', Grows, NEW p \in Proc, Others(p),
         CallOK(Words', seen', pc'[p], call'[p])
  PROVE  CallInv'
<1> SUFFICES ASSUME NEW q \in Proc, q # p
             PROVE  CallOK(Words', seen', pc'[q], call'[q])
  BY DEF CallInv
<1>1. call[q] \in Call /\ seen \in [Key -> Nat] /\ seen' \in [Key -> Nat]
  BY DEF HookInv, TypeOK
<1>2. CallOK(Words, seen, pc[q], call[q])
  BY DEF HookInv, CallInv
<1>3. CallOK(Words', seen', pc[q], call[q])
  BY <1>1, <1>2, CallOKStays DEF Grows
<1> QED  BY <1>3 DEF Others

(* A step of p that gives no verdict, and one that no process takes.       *)
LEMMA QuietStep ==
  ASSUME HookInv, TypeOK', UNCHANGED <<released, refused, seen>>,
         log' = log \/ LogInv',
         NEW p \in Proc, Others(p),
         CallOK(Words, seen, pc'[p], call'[p])
  PROVE  HookInv'
<1>1. Grows
  BY DEF HookInv, TypeOK, Grows, Words
<1>2. LogInv'
  BY <1>1, LogStays
<1>3. CallInv'
  <2>1. Words' = Words
    BY DEF Words
  <2> QED  BY <1>1, <2>1, CallsStay
<1> QED  BY <1>2, <1>3 DEF HookInv

LEMMA WorldStep ==
  ASSUME HookInv, TypeOK', UNCHANGED <<released, refused, seen, pc, call>>,
         log' = log \/ LogInv'
  PROVE  HookInv'
<1>1. Grows
  BY DEF HookInv, TypeOK, Grows, Words
<1>2. LogInv'
  BY <1>1, LogStays
<1> QED  BY <1>2 DEF HookInv, CallInv, Words

LEMMA SpendType ==
  ASSUME TypeOK, NEW what \in {"calls", "edits", "faults", "clears"},
         Spend(what)
  PROVE  budget' \in [{"calls", "edits", "faults", "clears"} -> Nat]
<1>1. budget[what] \in Nat
  BY DEF TypeOK
<1> QED  BY <1>1 DEF Spend, TypeOK

(* A process that settles keeps the invariant, if it says "unchanged" from *)
(* an entry that has not expired.                                          *)
LEMMA ConcludeType ==
  ASSUME TypeOK, NEW p \in Proc, NEW c \in Call, NEW a \in Answer,
         Conclude(p, c, a), UNCHANGED <<env, cache, budget, held>>
  PROVE  TypeOK' /\ Grows
<1> USE DEF TypeOK
<1>1. c.key \in Key /\ c.now \in Nat /\ c.mtime \in Mtime /\ c.hash \in Hash
  BY DEF Call
<1>2. call' \in [Proc -> Call]
  <2>1. [c EXCEPT !.answer = a] \in Call
    BY DEF Call
  <2> QED  BY <2>1 DEF Conclude
<1>3. pc' \in [Proc -> Steps]
  BY DEF Conclude, Goto, Steps
<1>4. released' \subseteq Release /\ refused' \subseteq Release
  <2>1. [key |-> c.key, mtime |-> c.mtime, hash |-> c.hash, at |-> c.now]
          \in Release
    BY <1>1 DEF Release
  <2> QED  BY <2>1 DEF Conclude
<1>5. seen' = seen
  BY DEF Conclude
<1>6. streak' \in [Key -> [n : Nat, at : Nat]]
  <2>1. streak[c.key] \in [n : Nat, at : Nat]
    BY <1>1
  <2>2. Streak(c.key, c, a) \in [n : Nat, at : Nat]
    <3>1. streak[c.key].n + 1 \in Nat
      BY <2>1
    <3> QED  BY <1>1, <2>1, <3>1 DEF Streak
  <2> QED  BY <1>1, <2>2 DEF Conclude
<1>7. forgotten' \in [Key -> Nat]
  BY <1>1 DEF Conclude
<1>8. Grows
  <2>1. Words \subseteq Words'
    BY DEF Conclude, Words
  <2>2. ASSUME NEW k \in Key PROVE seen[k] <= seen'[k]
    BY <1>5
  <2> QED  BY <2>1, <2>2 DEF Grows
<1> QED
  BY <1>2, <1>3, <1>4, <1>5, <1>6, <1>7, <1>8 DEF env, cache

LEMMA ConcludeInv ==
  ASSUME HookInv, NEW p \in Proc, NEW c \in Call, NEW a \in Answer,
         Conclude(p, c, a), UNCHANGED <<env, cache, budget, held>>,
         a \in Passing \cup {"hit", "blocked"},
         FoundOK(Words, seen, c),
         a = "hit" => c.last # NoEntry /\ c.now - c.last.ts < 3 * BaseTTL
  PROVE  HookInv'
<1>1. TypeOK' /\ Grows
  BY ConcludeType DEF HookInv
<1>2. LogInv'
  BY <1>1, LogStays DEF cache
<1>3. CallOK(Words', seen', pc'[p], call'[p])
  <2>1. /\ pc'[p] = IF a = "blocked" THEN "emit" ELSE "append"
        /\ call'[p] = [c EXCEPT !.answer = a]
    BY DEF Conclude, Goto, HookInv, TypeOK
  <2>2. /\ c.key \in Key /\ c.now \in Nat
        /\ call'[p].answer = a /\ call'[p].key = c.key
        /\ call'[p].now = c.now /\ call'[p].mtime = c.mtime
        /\ call'[p].hash = c.hash /\ call'[p].last = c.last
        /\ call'[p].ttl = c.ttl
    BY <2>1 DEF Call
  <2>3. FoundOK(Words', seen', call'[p])
    <3>1. CallOK(Words, seen, "idle", c)
      BY DEF CallOK, SettledSteps
    <3>2. CallOK(Words', seen', "idle", c)
      BY <1>1, <3>1, CallOKStays DEF HookInv, TypeOK, Grows
    <3> QED  BY <2>2, <3>2 DEF CallOK, FoundOK
  <2>4. a # "blocked" => WordOn(c.key, c.mtime, c.hash, c.now) \in Words'
    BY DEF Conclude, Words, WordOn
  <2>5. SettledOK(Words', call'[p])
    BY <2>2, <2>4 DEF SettledOK
  <2> QED  BY <2>1, <2>2, <2>3, <2>5 DEF CallOK
<1>4. Others(p)
  BY DEF Conclude, Goto, HookInv, TypeOK, Others
<1>5. CallInv'
  BY <1>1, <1>3, <1>4, CallsStay
<1> QED  BY <1>1, <1>2, <1>5 DEF HookInv

-----------------------------------------------------------------------------
(* One lemma for each step of a process.                                   *)
LEMMA BeginInv ==
  ASSUME HookInv, NEW p \in Proc, NEW k \in Key, Begin(p, k)
  PROVE  HookInv'
<1> DEFINE stale == CleanupDue(clock) /\ log # <<>> /\ Old(touched)
           c == [NoCall(k) EXCEPT !.now = clock, !.stale = stale]
<1>1. c \in Call
  <2>1. stale \in BOOLEAN /\ NoCall(k) \in Call /\ clock \in Nat
    BY NoCallType DEF HookInv, TypeOK, CleanupDue, Old
  <2> HIDE DEF stale
  <2> QED  BY <2>1 DEF Call
<1>2. call' = [call EXCEPT ![p] = c]
  BY DEF Begin
<1>3. TypeOK'
  <2>1. call' \in [Proc -> Call]
    BY <1>1, <1>2 DEF HookInv, TypeOK
  <2>2. budget' \in [{"calls", "edits", "faults", "clears"} -> Nat]
    BY SpendType DEF Begin, HookInv
  <2> QED
    BY <2>1, <2>2 DEF HookInv, TypeOK, Begin, Goto, Steps, env, cache, verdicts
<1>4. CallOK(Words, seen, pc'[p], call'[p])
  <2>1. c.ttl = 0 /\ c.last = NoEntry
    BY DEF NoCall
  <2>2. call'[p] = c /\ pc'[p] \in {"cleanup", "ttl"}
    BY <1>2 DEF HookInv, TypeOK, Begin, Goto
  <2> QED
    BY <2>1, <2>2, PolicyAssumption DEF CallOK, FoundOK, SettledSteps
<1> QED
  BY <1>3, <1>4, QuietStep
  DEF Begin, Goto, HookInv, TypeOK, env, cache, verdicts, Others

LEMMA CleanUpInv ==
  ASSUME HookInv, NEW p \in Proc, CleanUp(p)
  PROVE  HookInv'
<1>1. TypeOK'
  <2>1. snap' \in [Key -> [content : Stored, time : Nat]]
    BY DEF HookInv, TypeOK, CleanUp, Stored
  <2>2. cleaned' \in Nat
    BY DEF HookInv, TypeOK, CleanUp, Call
  <2>3. log' \in Seq(Entry)
    BY DEF HookInv, TypeOK, CleanUp
  <2> QED
    BY <2>1, <2>2, <2>3 DEF HookInv, TypeOK, CleanUp, Goto, Steps, env, verdicts
<1>2. log' = log \/ LogInv'
  BY DEF CleanUp, LogInv
<1>3. CallOK(Words, seen, pc'[p], call'[p])
  BY DEF HookInv, TypeOK, CallInv, CleanUp, Goto, CallOK, SettledSteps
<1> QED
  BY <1>1, <1>2, <1>3, QuietStep
  DEF CleanUp, Goto, HookInv, TypeOK, env, verdicts, Others

LEMMA ReadTTLInv ==
  ASSUME HookInv, NEW p \in Proc, ReadTTL(p)
  PROVE  HookInv'
<1> DEFINE ttl == AdaptiveTTL(log, call[p].now)
           c == [call[p] EXCEPT !.ttl = ttl]
<1>1. call[p] \in Call /\ ttl \in Nat /\ ttl <= 3 * BaseTTL
  BY AdaptiveTTLBounds DEF HookInv, TypeOK, Call
<1>2. c \in Call /\ c.ttl = ttl /\ c.last = call[p].last /\ c.key = call[p].key
  BY <1>1 DEF Call
<1>3. call' = [call EXCEPT ![p] = c]
  BY DEF ReadTTL
<1> HIDE DEF c, ttl
<1>4. TypeOK'
  BY <1>2, <1>3 DEF HookInv, TypeOK, ReadTTL, Goto, Steps, env, cache, verdicts
<1>5. CallOK(Words, seen, pc'[p], call'[p])
  <2>1. call'[p] = c /\ pc'[p] = "lookup"
    BY <1>3 DEF HookInv, TypeOK, ReadTTL, Goto
  <2>2. FoundOK(Words, seen, call[p])
    BY DEF HookInv, CallInv, CallOK
  <2> QED
    BY <1>1, <1>2, <2>1, <2>2 DEF CallOK, FoundOK, SettledSteps
<1> QED
  BY <1>3, <1>4, <1>5, QuietStep
  DEF ReadTTL, Goto, HookInv, TypeOK, env, cache, verdicts, Others

(* What readLastCacheEntry returns is known.                               *)
LEMMA FoundInLog ==
  ASSUME HookInv, NEW c \in Call, FoundOK(Words, seen, c)
  PROVE  LET d == [c EXCEPT !.last = LastEntry(log, c.key)]
         IN  d \in Call /\ FoundOK(Words, seen, d)
<1> DEFINE e == LastEntry(log, c.key)
           d == [c EXCEPT !.last = e]
<1>1. log \in Seq(Entry) /\ c.key \in Key
  BY DEF HookInv, TypeOK, Call
<1>2. e = NoEntry \/ \E i \in DOMAIN log : e = log[i] /\ Usable(log[i], c.key)
  BY <1>1, LastEntryIsLast
<1> HIDE DEF e
<1>3. /\ e \in Entry \cup {NoEntry}
      /\ e # NoEntry => e.key = c.key /\ e.ts > 0 /\ Known(Words, seen, e)
  <2>1. CASE e = NoEntry
    BY <2>1
  <2>2. CASE e # NoEntry
    <3>1. PICK i \in DOMAIN log : e = log[i] /\ Usable(log[i], c.key)
      BY <1>2, <2>2
    <3>2. log[i] \in Entry
      BY <1>1
    <3>3. Known(Words, seen, log[i])
      BY <3>1 DEF HookInv, LogInv, Usable
    <3> QED  BY <3>1, <3>2, <3>3 DEF Usable
  <2> QED  BY <2>1, <2>2
<1>4. d \in Call /\ d.last = e /\ d.key = c.key /\ d.ttl = c.ttl
  BY <1>3 DEF Call
<1>5. FoundOK(Words, seen, d)
  BY <1>3, <1>4 DEF FoundOK
<1> QED  BY <1>4, <1>5 DEF e

LEMMA LookupInv ==
  ASSUME HookInv, NEW p \in Proc, Lookup(p)
  PROVE  HookInv'
<1> DEFINE e == LastEntry(log, call[p].key)
           c == [call[p] EXCEPT !.last = e]
           d == [c EXCEPT !.mtime = e.mtime]
<1>1. call[p] \in Call /\ FoundOK(Words, seen, call[p])
  BY DEF HookInv, TypeOK, CallInv, CallOK
<1>2. c \in Call /\ FoundOK(Words, seen, c)
  BY <1>1, FoundInLog
<1>3. c.last = e /\ c.key = call[p].key
  BY <1>1 DEF Call
<1> HIDE DEF e, c
<1>4. ASSUME e # NoEntry, ~HashMode, UNCHANGED <<env, cache, budget, held>>,
             Conclude(p, d, HitAnswer(e, c.now, c.ttl))
      PROVE  HookInv'
  <2>1. /\ e \in Entry /\ e.mtime \in Mtime /\ e.ts > 0 /\ c.now \in Nat
        /\ c.ttl \in Nat /\ c.ttl <= 3 * BaseTTL
        /\ e.key = c.key /\ Known(Words, seen, e)
    BY <1>2, <1>3, <1>4 DEF Call, Entry, FoundOK
  <2>2. /\ d \in Call /\ d.last = e /\ d.now = c.now /\ d.key = c.key
        /\ d.mtime = e.mtime /\ d.ttl = c.ttl
    BY <1>2, <1>3, <2>1 DEF Call
  <2> HIDE DEF d
  <2>3. FoundOK(Words, seen, d)
    BY <1>2, <1>3, <2>2 DEF FoundOK
  <2>4. HitAnswer(e, c.now, c.ttl) \in {"expired", "auto_allow", "hit"}
    BY HitAnswers
  <2>5. HitAnswer(e, c.now, c.ttl) = "hit" => d.now - d.last.ts < 3 * BaseTTL
    BY <2>1, <2>2, HitIsFresh
  <2>6. HitAnswer(e, c.now, c.ttl) \in Answer \cap (Passing \cup {"hit"})
    BY <2>4 DEF Answer, Event, Passing
  <2> QED
    BY <1>4, <2>1, <2>2, <2>3, <2>5, <2>6, ConcludeInv
<1>5. ASSUME call' = [call EXCEPT ![p] = c], Goto(p, "stat"),
             UNCHANGED <<env, cache, budget, held, verdicts>>
      PROVE  HookInv'
  <2>1. TypeOK'
    BY <1>2, <1>5 DEF HookInv, TypeOK, Goto, Steps, env, cache, verdicts
  <2>2. call'[p] = c /\ pc'[p] = "stat"
    BY <1>5 DEF HookInv, TypeOK, Goto
  <2>3. CallOK(Words, seen, pc'[p], call'[p])
    BY <1>2, <2>2 DEF CallOK, SettledSteps
  <2> QED
    BY <1>5, <2>1, <2>3, QuietStep
    DEF Goto, HookInv, TypeOK, env, cache, verdicts, Others
<1> QED  BY <1>4, <1>5 DEF Lookup, c, e, verdicts

LEMMA StatInv ==
  ASSUME HookInv, NEW p \in Proc, Stat(p)
  PROVE  HookInv'
<1> DEFINE f == file[PathOf[call[p].key]]
           c == [call[p] EXCEPT !.mtime = f.mtime]
<1>1. call[p] \in Call /\ FoundOK(Words, seen, call[p])
  BY DEF HookInv, TypeOK, CallInv, CallOK
<1>2. f.mtime \in Mtime
  BY <1>1, HookAssumption DEF HookInv, TypeOK, Call, File, Mtime
<1>3. /\ c \in Call /\ c.ttl = call[p].ttl /\ c.last = call[p].last
      /\ c.key = call[p].key
  BY <1>1, <1>2 DEF Call
<1>4. FoundOK(Words, seen, c)
  BY <1>1, <1>3 DEF FoundOK
<1>5. /\ call' = call \/ call' = [call EXCEPT ![p] = c]
      /\ pc' = [pc EXCEPT ![p] = "tool"] \/ pc' = [pc EXCEPT ![p] = "hash"]
  BY DEF Stat, Goto
<1> HIDE DEF c, f
<1>6. TypeOK'
  BY <1>3, <1>5 DEF HookInv, TypeOK, Stat, Steps, env, cache, verdicts
<1>7. CallOK(Words, seen, pc'[p], call'[p])
  <2>1. call'[p] \in {call[p], c} /\ pc'[p] \in {"tool", "hash"}
    BY <1>5 DEF HookInv, TypeOK
  <2> QED  BY <1>1, <1>4, <2>1 DEF CallOK, SettledSteps
<1> QED
  BY <1>5, <1>6, <1>7, QuietStep
  DEF Stat, HookInv, TypeOK, env, cache, verdicts, Others

(* The end of runHookMode.                                                 *)
LEMMA PassOrBlockInv ==
  ASSUME HookInv, NEW p \in Proc, NEW c \in Call, PassOrBlock(p, c),
         UNCHANGED <<env, cache, budget, held>>,
         FoundOK(Words, seen, c)
  PROVE  HookInv'
<1>1. PICK a \in {"miss", "blocked", "changed"} : Conclude(p, c, a)
  BY DEF PassOrBlock
<1>2. a \in Answer /\ a \in Passing \cup {"hit", "blocked"} /\ a # "hit"
  BY DEF Answer, Event, Passing
<1> QED  BY <1>1, <1>2, ConcludeInv

LEMMA HashFileInv ==
  ASSUME HookInv, NEW p \in Proc, HashFile(p)
  PROVE  HookInv'
<1> DEFINE now  == file[PathOf[call[p].key]].content
           hash == IF HashMode /\ now # Gone THEN now ELSE NoHash
           c    == [call[p] EXCEPT !.hash = hash]
           diff == /\ ~Unchanged(c) /\ c.last # NoEntry
                   /\ Diffing(c.key) /\ snap[c.key].content # NoSnap
           hit  == HitAnswer(c.last, c.now, c.ttl)
<1>1. call[p] \in Call /\ FoundOK(Words, seen, call[p])
  BY DEF HookInv, TypeOK, CallInv, CallOK
<1>2. PathOf[call[p].key] \in Path
  BY <1>1, HookAssumption DEF Call
<1>3. now \in Content \cup {Gone}
  BY <1>2 DEF HookInv, TypeOK, File
<1>4. hash \in Hash
  BY <1>3 DEF Hash
<1> HIDE DEF hash
<1>5. /\ c \in Call /\ c.hash = hash /\ c.ttl = call[p].ttl
      /\ c.last = call[p].last /\ c.key = call[p].key
  BY <1>1, <1>4 DEF Call
<1>6. FoundOK(Words, seen, c)
  BY <1>1, <1>5 DEF FoundOK
<1>7. UNCHANGED <<env, cache, budget, held>>
  BY DEF HashFile
<1>8. \/ Unchanged(c) /\ Conclude(p, c, hit)
      \/ call' = [call EXCEPT ![p] = c] /\ Goto(p, "diff") /\ UNCHANGED verdicts
      \/ PassOrBlock(p, c)
  BY DEF HashFile, hash
<1> HIDE DEF c
<1>9. ASSUME Unchanged(c), Conclude(p, c, hit) PROVE HookInv'
  <2>1. c.last \in Entry /\ c.last # NoEntry /\ c.last.ts > 0 /\ c.now \in Nat
        /\ c.ttl \in Nat /\ c.ttl <= 3 * BaseTTL
    BY <1>5, <1>6, <1>9 DEF Unchanged, FoundOK, Call
  <2>2. hit \in Answer /\ hit \in Passing \cup {"hit", "blocked"}
    BY HitAnswers DEF Answer, Event, Passing
  <2>3. hit = "hit" => c.now - c.last.ts < 3 * BaseTTL
    BY <2>1, HitIsFresh
  <2> HIDE DEF hit
  <2> QED
    BY <1>5, <1>6, <1>7, <1>9, <2>1, <2>2, <2>3, ConcludeInv
<1>10. ASSUME call' = [call EXCEPT ![p] = c], Goto(p, "diff"),
              UNCHANGED verdicts
       PROVE  HookInv'
  <2>1. TypeOK'
    BY <1>5, <1>7, <1>10 DEF HookInv, TypeOK, Goto, Steps, env, cache, verdicts
  <2>2. call'[p] = c /\ pc'[p] = "diff"
    BY <1>10 DEF HookInv, TypeOK, Goto
  <2>3. CallOK(Words, seen, pc'[p], call'[p])
    BY <1>5, <1>6, <2>2 DEF CallOK, SettledSteps
  <2> QED
    BY <1>7, <1>10, <2>1, <2>3, QuietStep
    DEF Goto, HookInv, TypeOK, env, cache, verdicts, Others
<1>11. ASSUME PassOrBlock(p, c) PROVE HookInv'
  BY <1>5, <1>6, <1>7, <1>11, PassOrBlockInv
<1> QED  BY <1>8, <1>9, <1>10, <1>11

(* The two steps of diff mode that settle.                                 *)
LEMMA ComparedOK ==
  ASSUME HookInv, NEW p \in Proc
  PROVE  Compared(p) \in Call /\ FoundOK(Words, seen, Compared(p))
<1> DEFINE base   == snap[call[p].key].content
           target == file[PathOf[call[p].key]].content
<1>1. call[p] \in Call /\ FoundOK(Words, seen, call[p])
  BY DEF HookInv, TypeOK, CallInv, CallOK
<1>2. PathOf[call[p].key] \in Path /\ call[p].key \in Key
  BY <1>1, HookAssumption DEF Call
<1>3. base \in Stored /\ target \in Content \cup {Gone, Empty}
  BY <1>2 DEF HookInv, TypeOK, File
<1> HIDE DEF base, target
<1>4. Compared(p) = [call[p] EXCEPT !.base = base, !.target = target]
  BY DEF Compared, base, target
<1>5. /\ Compared(p) \in Call /\ Compared(p).key = call[p].key
      /\ Compared(p).ttl = call[p].ttl /\ Compared(p).last = call[p].last
  BY <1>1, <1>3, <1>4 DEF Call
<1> QED  BY <1>1, <1>5 DEF FoundOK

LEMMA DiffInv ==
  ASSUME HookInv, NEW p \in Proc, DiffShort(p) \/ Summarize(p)
  PROVE  HookInv'
<1> DEFINE c == Compared(p)
<1>1. c \in Call /\ FoundOK(Words, seen, c)
  BY ComparedOK
<1>2. UNCHANGED <<env, cache, budget, held>>
  BY DEF DiffShort, Summarize
<1>3. \/ Conclude(p, c, "diff") \/ Conclude(p, c, "summary")
      \/ PassOrBlock(p, c)
  BY DEF DiffShort, Summarize
<1>4. {"diff", "summary"} \subseteq Answer \cap Passing
  BY DEF Answer, Event, Passing
<1> HIDE DEF c
<1> QED  BY <1>1, <1>2, <1>3, <1>4, ConcludeInv, PassOrBlockInv

LEMMA DiffUnusableInv ==
  ASSUME HookInv, NEW p \in Proc, DiffUnusable(p)
  PROVE  HookInv'
<1>1. TypeOK'
  BY DEF DiffUnusable, HookInv, TypeOK, Goto, Steps, env, cache, verdicts
<1>2. CallOK(Words, seen, pc'[p], call'[p])
  <2>1. pc[p] = "diff" /\ pc'[p] = "summary" /\ call'[p] = call[p]
    BY DEF DiffUnusable, HookInv, TypeOK, Goto
  <2>2. CallOK(Words, seen, pc[p], call[p])
    BY DEF HookInv, CallInv
  <2> QED  BY <2>1, <2>2 DEF CallOK, SettledSteps
<1> QED
  BY <1>1, <1>2, QuietStep
  DEF DiffUnusable, Goto, HookInv, TypeOK, env, cache, verdicts, Others

-----------------------------------------------------------------------------
(* The entry a process records is known.                                   *)
LEMMA NewEntryIsWord ==
  ASSUME HookInv, NEW p \in Proc, pc[p] = "append"
  PROVE  LET e == NewEntry(call[p])
         IN  /\ e \in Entry
             /\ WordOn(e.key, e.mtime, e.hash, e.ts) \in Words
             /\ e.key = call[p].key /\ e.ts = call[p].now
<1> DEFINE c == call[p]
<1>1. /\ c \in Call
      /\ SettledOK(Words, c) /\ c.answer # "blocked"
  BY DEF HookInv, TypeOK, CallInv, CallOK, SettledSteps
<1> HIDE DEF c
<1>2. c.answer = "hit" => Attempts(c.last, c.now) \in Nat
  <2>1. ASSUME c.answer = "hit" PROVE c.last \in Entry /\ c.now \in Nat
    BY <1>1, <2>1 DEF SettledOK, Call
  <2>2. ASSUME c.last \in Entry, c.now \in Nat
        PROVE  Attempts(c.last, c.now) \in Nat
    <3>1. c.last.attempts \in Nat
      BY <2>2 DEF Entry
    <3> QED  BY <3>1 DEF Attempts
  <2> QED  BY <2>1, <2>2
<1>3. NewEntry(c) \in Entry
  BY <1>1, <1>2 DEF NewEntry, Entry, Call
<1>4. /\ NewEntry(c).key = c.key /\ NewEntry(c).mtime = c.mtime
      /\ NewEntry(c).hash = c.hash /\ NewEntry(c).ts = c.now
  BY DEF NewEntry
<1> QED  BY <1>1, <1>3, <1>4 DEF c, SettledOK

LEMMA AppendEntryInv ==
  ASSUME HookInv, NEW p \in Proc, AppendEntry(p)
  PROVE  HookInv'
<1> DEFINE e == NewEntry(call[p])
<1>1. /\ e \in Entry /\ WordOn(e.key, e.mtime, e.hash, e.ts) \in Words
      /\ e.key = call[p].key /\ e.ts = call[p].now
  BY NewEntryIsWord DEF AppendEntry
<1>2. log \in Seq(Entry) /\ seen \in [Key -> Nat]
  BY DEF HookInv, TypeOK
<1>3. log' = log \/ log' = Append(log, e)
  BY DEF AppendEntry
<1>4. e.key \in Key /\ e.ts \in Nat
  BY <1>1 DEF Entry
<1>5. seen' = IF e.ts <= seen[e.key] THEN seen
              ELSE [seen EXCEPT ![e.key] = e.ts]
  BY <1>1 DEF AppendEntry
<1>6. Words' = Words
  BY DEF AppendEntry, Words
<1> HIDE DEF e
<1>7. log' \in Seq(Entry)
  BY <1>1, <1>2, <1>3
<1>8. seen' \in [Key -> Nat] /\ e.ts <= seen'[e.key]
  BY <1>2, <1>4, <1>5
<1>9. Grows
  <2>1. ASSUME NEW k \in Key PROVE seen[k] <= seen'[k]
    <3>1. seen[k] \in Nat /\ seen[e.key] \in Nat
      BY <1>2, <1>4
    <3>2. CASE seen' = seen
      BY <3>1, <3>2
    <3>3. CASE ~(e.ts <= seen[e.key]) /\ seen' = [seen EXCEPT ![e.key] = e.ts]
      BY <1>2, <1>4, <3>1, <3>3
    <3> QED  BY <1>5, <3>2, <3>3
  <2> QED  BY <1>6, <2>1 DEF Grows
<1>10. TypeOK'
  <2>1. budget' \in [{"calls", "edits", "faults", "clears"} -> Nat]
    BY SpendType DEF AppendEntry, HookInv, TypeOK
  <2>2. touched' \in Nat
    BY DEF AppendEntry, HookInv, TypeOK, env
  <2>3. pc' \in [Proc -> Steps]
    BY DEF AppendEntry, HookInv, TypeOK, Goto, AfterAppend, Steps
  <2> QED
    BY <1>7, <1>8, <2>1, <2>2, <2>3 DEF AppendEntry, HookInv, TypeOK, env
<1>11. LogInv'
  <2> SUFFICES ASSUME NEW i \in DOMAIN log', log'[i].ts > 0
               PROVE  Known(Words', seen', log'[i])
    BY DEF LogInv
  <2>1. CASE i \in DOMAIN log /\ log'[i] = log[i]
    <3>1. log[i] \in Entry /\ Known(Words, seen, log[i])
      BY <1>2, <2>1 DEF HookInv, LogInv
    <3> QED  BY <1>2, <1>8, <1>9, <2>1, <3>1, KnownStays DEF Grows
  <2>2. CASE log'[i] = e
    BY <1>1, <1>6, <1>8, <2>2 DEF Known
  <2>3. (i \in DOMAIN log /\ log'[i] = log[i]) \/ log'[i] = e
    BY <1>1, <1>2, <1>3
  <2> QED  BY <2>1, <2>2, <2>3
<1>12. CallOK(Words', seen', pc'[p], call'[p])
  <2>1. /\ pc[p] = "append" /\ pc'[p] \in {"stats", "copy"}
        /\ call'[p] = call[p]
    BY DEF AppendEntry, HookInv, TypeOK, Goto, AfterAppend
  <2>2. CallOK(Words, seen, pc[p], call[p]) /\ call[p] \in Call
    BY DEF HookInv, CallInv, TypeOK
  <2>3. CallOK(Words', seen', pc[p], call[p])
    BY <1>2, <1>8, <1>9, <2>2, CallOKStays DEF Grows
  <2> QED  BY <2>1, <2>3 DEF CallOK, SettledSteps
<1>13. Others(p)
  BY DEF AppendEntry, Goto, HookInv, TypeOK, Others
<1>14. CallInv'
  BY <1>9, <1>10, <1>12, <1>13, CallsStay
<1> QED  BY <1>10, <1>11, <1>14 DEF HookInv

LEMMA CopyReadInv ==
  ASSUME HookInv, NEW p \in Proc, CopyRead(p)
  PROVE  HookInv'
<1> DEFINE f == file[PathOf[call[p].key]].content
           c == [call[p] EXCEPT !.copied = f]
<1>1. call[p] \in Call /\ CallOK(Words, seen, "copy", call[p])
  BY DEF HookInv, TypeOK, CallInv, CopyRead
<1>2. f \in Content \cup {Gone}
  BY <1>1, HookAssumption DEF HookInv, TypeOK, Call, File
<1>3. \/ call' = call
      \/ call' = [call EXCEPT ![p] = c] /\ f # Gone
  BY DEF CopyRead
<1>4. pc' \in {[pc EXCEPT ![p] = s] : s \in {"emit", "stats", "copy_write"}}
  BY DEF CopyRead, Goto, AfterCopy
<1>5. snap' \in [Key -> [content : Stored, time : Nat]]
  <2>1. [content |-> Empty, time |-> clock] \in [content : Stored, time : Nat]
    BY DEF HookInv, TypeOK, Stored
  <2>2. \/ snap' = snap
        \/ snap' = [snap EXCEPT ![call[p].key] =
                                 [content |-> Empty, time |-> clock]]
    BY DEF CopyRead
  <2> QED  BY <2>1, <2>2 DEF HookInv, TypeOK
<1>6. f # Gone =>
        /\ c \in Call /\ c.key = call[p].key /\ c.last = call[p].last
        /\ c.ttl = call[p].ttl /\ c.now = call[p].now /\ c.hash = call[p].hash
        /\ c.mtime = call[p].mtime /\ c.answer = call[p].answer
  BY <1>1, <1>2 DEF Call
<1> HIDE DEF f, c
<1>7. TypeOK'
  <2>1. call' \in [Proc -> Call] /\ pc' \in [Proc -> Steps]
    BY <1>3, <1>4, <1>6 DEF HookInv, TypeOK, Steps
  <2>2. UNCHANGED <<env, log, touched, stats, cleaned, budget, held, verdicts>>
    BY DEF CopyRead
  <2> QED
    BY <1>5, <2>1, <2>2 DEF HookInv, TypeOK, env, verdicts
<1>8. CallOK(Words, seen, pc'[p], call'[p])
  <2>1. /\ pc'[p] \in {"emit", "stats", "copy_write"}
        /\ call'[p] = call[p] \/ (call'[p] = c /\ f # Gone)
    BY <1>3, <1>4 DEF HookInv, TypeOK
  <2> QED
    BY <1>1, <1>6, <2>1 DEF CallOK, FoundOK, SettledOK, SettledSteps
<1> QED
  BY <1>3, <1>4, <1>7, <1>8, QuietStep
  DEF CopyRead, HookInv, TypeOK, env, verdicts, Others

LEMMA CopyWriteInv ==
  ASSUME HookInv, NEW p \in Proc, CopyWrite(p)
  PROVE  HookInv'
<1>1. call[p] \in Call /\ CallOK(Words, seen, "copy_write", call[p])
  BY DEF HookInv, TypeOK, CallInv, CopyWrite
<1>2. snap' \in [Key -> [content : Stored, time : Nat]]
  BY <1>1 DEF CopyWrite, HookInv, TypeOK, Stored, Call
<1>3. pc' \in {[pc EXCEPT ![p] = s] : s \in {"emit", "stats"}}
  BY DEF CopyWrite, Goto, AfterCopy
<1>4. TypeOK'
  BY <1>2, <1>3 DEF CopyWrite, HookInv, TypeOK, Steps, env, verdicts
<1>5. CallOK(Words, seen, pc'[p], call'[p])
  <2>1. pc'[p] \in {"emit", "stats"} /\ call'[p] = call[p]
    BY <1>3 DEF CopyWrite, HookInv, TypeOK
  <2> QED  BY <1>1, <2>1 DEF CallOK, SettledSteps
<1> QED
  BY <1>3, <1>4, <1>5, QuietStep
  DEF CopyWrite, HookInv, TypeOK, env, verdicts, Others

LEMMA WriteStatsInv ==
  ASSUME HookInv, NEW p \in Proc, WriteStats(p)
  PROVE  HookInv'
<1>1. CallOK(Words, seen, "stats", call[p])
  BY DEF HookInv, CallInv, WriteStats
<1>2. stats' \in [Event -> Nat]
  <2> DEFINE ev == EventOf(call[p].answer)
  <2>1. stats' = stats \/ stats' = [stats EXCEPT ![ev] = stats[ev] + 1]
    BY DEF WriteStats
  <2> HIDE DEF ev
  <2>2. ev \in Event => stats[ev] + 1 \in Nat
    BY DEF HookInv, TypeOK
  <2> QED  BY <2>1, <2>2 DEF HookInv, TypeOK
<1>3. budget' \in [{"calls", "edits", "faults", "clears"} -> Nat]
  BY SpendType DEF WriteStats, HookInv, TypeOK
<1>4. pc' \in {[pc EXCEPT ![p] = s] : s \in {"copy", "emit"}}
  BY DEF WriteStats, Goto, AfterStats
<1>5. TypeOK'
  BY <1>2, <1>3, <1>4 DEF WriteStats, HookInv, TypeOK, Steps, env, verdicts
<1>6. CallOK(Words, seen, pc'[p], call'[p])
  <2>1. pc'[p] \in {"copy", "emit"} /\ call'[p] = call[p]
    BY <1>4 DEF WriteStats, HookInv, TypeOK
  <2> QED  BY <1>1, <2>1 DEF CallOK, SettledSteps
<1> QED
  BY <1>4, <1>5, <1>6, QuietStep
  DEF WriteStats, HookInv, TypeOK, env, verdicts, Others

(* The steps that end a process, or hand over to the client.               *)
LEMMA ExitOK ==
  ASSUME TypeOK, NEW p \in Proc
  PROVE  /\ NoCall(call[p].key) \in Call
         /\ CallOK(Words, seen, "idle", NoCall(call[p].key))
<1>1. call[p].key \in Key
  BY DEF TypeOK, Call
<1>2. NoCall(call[p].key).ttl = 0 /\ NoCall(call[p].key).last = NoEntry
  BY DEF NoCall
<1> QED
  BY <1>1, <1>2, NoCallType, PolicyAssumption DEF CallOK, FoundOK, SettledSteps

LEMMA EndInv ==
  ASSUME HookInv, NEW p \in Proc,
         Emit(p) \/ RunTool(p) \/ RejectTool(p) \/ Crash(p)
  PROVE  HookInv'
<1>1. UNCHANGED <<env, cache, verdicts>>
  BY DEF Emit, RunTool, RejectTool, Crash
<1>2. Exit(p) \/ (Goto(p, "tool") /\ UNCHANGED call)
  BY DEF Emit, RunTool, RejectTool, Crash
<1>3. budget' \in [{"calls", "edits", "faults", "clears"} -> Nat]
  BY SpendType DEF Emit, RunTool, RejectTool, Crash, HookInv, TypeOK
<1>4. held' \in [Key -> SUBSET Content]
  <2> DEFINE k == call[p].key
             f == file[PathOf[k]].content
  <2>1. k \in Key /\ f \in Content \cup {Gone}
    BY HookAssumption DEF HookInv, TypeOK, Call, File
  <2>2. Learned(call[p]) \subseteq Content
    BY DEF Learned
  <2>3. \/ held' = held
        \/ held' = [held EXCEPT ![k] = held[k] \cup Learned(call[p])]
        \/ held' = [held EXCEPT ![k] = IF f = Gone THEN held[k]
                                                  ELSE held[k] \cup {f}]
    BY DEF Emit, RunTool, RejectTool, Crash
  <2>4. held[k] \subseteq Content
    BY <2>1 DEF HookInv, TypeOK
  <2> HIDE DEF k, f
  <2> QED  BY <2>1, <2>2, <2>3, <2>4 DEF HookInv, TypeOK
<1>5. TypeOK'
  <2>1. pc' \in [Proc -> Steps]
    BY <1>2 DEF Exit, Goto, Steps, HookInv, TypeOK
  <2>2. call' \in [Proc -> Call]
    BY <1>2, ExitOK DEF Exit, HookInv, TypeOK
  <2> QED
    BY <1>1, <1>3, <1>4, <2>1, <2>2 DEF HookInv, TypeOK, env, cache, verdicts
<1>6. CallOK(Words, seen, pc'[p], call'[p])
  <2>1. CASE Exit(p)
    <3>1. pc'[p] = "idle" /\ call'[p] = NoCall(call[p].key)
      BY <2>1 DEF Exit, Goto, HookInv, TypeOK
    <3> QED  BY <3>1, ExitOK DEF HookInv
  <2>2. CASE Goto(p, "tool") /\ UNCHANGED call
    <3>1. pc'[p] = "tool" /\ call'[p] = call[p]
      BY <2>2 DEF Goto, HookInv, TypeOK
    <3>2. CallOK(Words, seen, pc[p], call[p])
      BY DEF HookInv, CallInv
    <3> QED  BY <3>1, <3>2 DEF CallOK, SettledSteps
  <2> QED  BY <1>2, <2>1, <2>2
<1>7. Others(p)
  BY <1>2 DEF Exit, Goto, HookInv, TypeOK, Others
<1> QED
  BY <1>1, <1>5, <1>6, <1>7, QuietStep DEF env, cache, verdicts

-----------------------------------------------------------------------------
(* The steps of the user, the clock and the editor.                        *)
LEMMA TombstonesAreEntries ==
  ASSUME TypeOK, NEW q \in Path, NEW s \in Tombstones(q)
  PROVE  s \in Seq(Entry) /\ \A i \in DOMAIN s : s[i].ts = 0
<1> DEFINE keys == {k \in KeysOf(log) : PathOf[k] = q}
           n == Cardinality(keys)
<1>1. log \in Seq(Entry) /\ Len(log) \in Nat /\ DOMAIN log = 1 .. Len(log)
  BY DEF TypeOK
<1>2. IsFiniteSet(KeysOf(log))
  <2>1. IsFiniteSet(DOMAIN log)
    BY <1>1, FS_Interval
  <2> DEFINE f == [i \in DOMAIN log |-> log[i].key]
  <2>2. f \in [DOMAIN log -> KeysOf(log)]
    BY DEF KeysOf
  <2>3. \A k \in KeysOf(log) : \E i \in DOMAIN log : f[i] = k
    BY DEF KeysOf
  <2> HIDE DEF f
  <2>4. f \in Surjection(DOMAIN log, KeysOf(log))
    BY <2>2, <2>3, Fun_IsSurj
  <2> QED  BY <2>1, <2>4, FS_Surjection
<1>3. n \in Nat
  <2>1. keys \subseteq KeysOf(log)
    OBVIOUS
  <2> QED  BY <1>2, <2>1, FS_Subset, FS_CardinalityType
<1>4. keys \subseteq Key
  <2>1. \A i \in DOMAIN log : log[i] \in Entry
    BY <1>1
  <2> QED  BY <2>1 DEF KeysOf, Entry
<1>5. \A k \in keys : Tombstone(k) \in Entry /\ Tombstone(k).ts = 0
  BY <1>4 DEF Tombstone, Entry, Mtime, Hash
<1>6. s \in [1 .. n -> {Tombstone(k) : k \in keys}]
  BY DEF Tombstones
<1> HIDE DEF keys, n
<1>7. \A i \in 1 .. n : s[i] \in Entry /\ s[i].ts = 0
  BY <1>5, <1>6
<1>8. s \in [1 .. n -> Entry]
  BY <1>6, <1>7
<1> QED  BY <1>3, <1>7, <1>8, SeqDef

LEMMA ClearFileInv ==
  ASSUME HookInv, NEW q \in Path, ClearFile(q)
  PROVE  HookInv'
<1>1. PICK s \in Tombstones(q) : log' = log \o s
  BY DEF ClearFile
<1>2. s \in Seq(Entry) /\ \A i \in DOMAIN s : s[i].ts = 0
  BY TombstonesAreEntries DEF HookInv
<1>3. UNCHANGED <<env, snap, stats, cleaned, pc, call, held, released,
                  refused, seen, streak>>
  BY DEF ClearFile
<1>4. log' \in Seq(Entry)
  BY <1>1, <1>2 DEF HookInv, TypeOK
<1>5. TypeOK'
  <2>1. budget' \in [{"calls", "edits", "faults", "clears"} -> Nat]
    BY SpendType DEF ClearFile, HookInv
  <2>2. touched' \in Nat /\ forgotten' \in [Key -> Nat]
    BY DEF ClearFile, HookInv, TypeOK
  <2> QED  BY <1>3, <1>4, <2>1, <2>2 DEF HookInv, TypeOK, env
<1>6. LogInv'
  <2> SUFFICES ASSUME NEW i \in DOMAIN log', log'[i].ts > 0
               PROVE  Known(Words, seen, log'[i])
    BY <1>3 DEF LogInv, Words
  <2>1. \/ i \in DOMAIN log /\ log'[i] = log[i]
        \/ \E j \in DOMAIN s : log'[i] = s[j]
    BY <1>1, <1>2 DEF HookInv, TypeOK
  <2>2. CASE i \in DOMAIN log /\ log'[i] = log[i]
    BY <2>2 DEF HookInv, LogInv
  <2>3. CASE \E j \in DOMAIN s : log'[i] = s[j]
    BY <1>2, <2>3
  <2> QED  BY <2>1, <2>2, <2>3
<1> QED  BY <1>3, <1>5, <1>6, WorldStep

LEMMA ClearSessionsInv ==
  ASSUME HookInv, ClearSessions
  PROVE  HookInv'
<1>1. budget' \in [{"calls", "edits", "faults", "clears"} -> Nat]
  BY SpendType DEF ClearSessions, HookInv
<1>2. TypeOK'
  BY <1>1 DEF ClearSessions, HookInv, TypeOK, env, verdicts
<1>3. LogInv'
  BY DEF ClearSessions, LogInv
<1> QED  BY <1>2, <1>3, WorldStep DEF ClearSessions, verdicts

LEMMA TickInv ==
  ASSUME HookInv, Tick
  PROVE  HookInv'
<1>1. TypeOK'
  BY DEF Tick, HookInv, TypeOK, cache, verdicts
<1> QED  BY <1>1, WorldStep DEF Tick, cache, verdicts

LEMMA EditInv ==
  ASSUME HookInv, NEW q \in Path, NEW c \in Content \cup {Gone}, Edit(q, c)
  PROVE  HookInv'
<1> DEFINE f == [content |-> c, mtime |-> clock]
<1>1. f \in File /\ file' = [file EXCEPT ![q] = f]
  BY DEF Edit, HookInv, TypeOK, File
<1> HIDE DEF f
<1>2. budget' \in [{"calls", "edits", "faults", "clears"} -> Nat]
  BY SpendType DEF Edit, HookInv
<1>3. TypeOK'
  BY <1>1, <1>2 DEF Edit, HookInv, TypeOK, cache, verdicts
<1> QED  BY <1>3, WorldStep DEF Edit, cache, verdicts

-----------------------------------------------------------------------------
LEMMA HookNext == HookInv /\ [Next]_vars => HookInv'
<1> SUFFICES ASSUME HookInv, [Next]_vars PROVE HookInv'
  OBVIOUS
<1>1. ASSUME NEW p \in Proc, HookStep(p) PROVE HookInv'
  BY <1>1, CleanUpInv, ReadTTLInv, LookupInv, StatInv, HashFileInv, DiffInv,
     DiffUnusableInv, AppendEntryInv, CopyReadInv, CopyWriteInv, WriteStatsInv,
     EndInv
  DEF HookStep
<1>2. ASSUME UNCHANGED vars PROVE HookInv'
  <2>1. TypeOK'
    BY <1>2 DEF HookInv, TypeOK, vars, env, cache, verdicts
  <2> QED
    BY <1>2, <2>1, WorldStep DEF vars, cache, verdicts
<1> QED
  BY <1>1, <1>2, BeginInv, EndInv, ClearFileInv, ClearSessionsInv, TickInv,
     EditInv
  DEF Next

(* HookInv is inductive, whatever the processes, the editor, the clock,    *)
(* the faults and the clears do.                                           *)
THEOREM HookInvariant == Spec => []HookInv
<1>1. Init => HookInv
  BY HookInit
<1>2. HookInv /\ [Next]_vars => HookInv'
  BY HookNext
<1> QED  BY <1>1, <1>2, PTL DEF Spec

(* Type correctness: runHookMode and handleCacheHit only ever store values *)
(* that their types and the cache format allow.                            *)
THEOREM HookTypeCorrect == Spec => []TypeOK
<1>1. HookInv => TypeOK
  BY DEF HookInv
<1> QED  BY <1>1, HookInvariant, PTL

(* A key no call touched for three times BaseTTL is not refused: the TTL   *)
(* adapts to the session without ever outgrowing that bound.               *)
THEOREM NeverRefusedLong == Spec => []UntouchedNotRefused
<1>1. HookInv => UntouchedNotRefused
  <2> SUFFICES ASSUME HookInv, NEW p \in Proc, pc[p] = "append",
                      call[p].answer = "hit"
               PROVE  call[p].now - seen[call[p].key] < 3 * BaseTTL
    BY DEF UntouchedNotRefused
  <2>1. /\ FoundOK(Words, seen, call[p])
        /\ SettledOK(Words, call[p])
        /\ call[p].answer = "hit" /\ call[p] \in Call
        /\ seen \in [Key -> Nat]
    BY DEF HookInv, TypeOK, CallInv, CallOK, SettledSteps
  <2>2. /\ call[p].last \in Entry /\ call[p].now - call[p].last.ts < 3 * BaseTTL
        /\ call[p].last.ts <= seen[call[p].key]
    BY <2>1 DEF SettledOK, FoundOK, Known, Call
  <2>3. call[p].last.ts \in Nat /\ call[p].now \in Nat /\ call[p].key \in Key
    BY <2>1, <2>2 DEF Call, Entry
  <2> QED  BY <2>1, <2>2, <2>3, PolicyAssumption
<1> QED  BY <1>1, HookInvariant, PTL
=============================================================================
