---------------------------- MODULE VerdictProofs ----------------------------
(***************************************************************************)
(* Proofs about what the verdicts of HookProcess say: that "unchanged" is  *)
(* true, that what is refused is in context, that an agent that insists    *)
(* gets the file, that the counts of the report are those of the log, and  *)
(* that together they keep the promise of ReadOnce.                        *)
(***************************************************************************)
EXTENDS HookProofs

(***************************************************************************)
(* What the steps of a process do to its own place and local variables.    *)
(* Same(d, c): d and c agree on what the verdict is made from.             *)
(***************************************************************************)
Same(d, c) ==
  /\ d.key = c.key /\ d.now = c.now /\ d.stale = c.stale
  /\ d.last = c.last /\ d.mtime = c.mtime /\ d.hash = c.hash

Early ==
  {"idle", "cleanup", "ttl", "lookup", "stat", "hash", "diff", "summary"}

Recording == {"append", "copy", "copy_write", "stats"}

LEMMA BeginShape ==
  ASSUME TypeOK, NEW p \in Proc, NEW k \in Key, Begin(p, k)
  PROVE  /\ Others(p) /\ UNCHANGED <<env, cache, held, verdicts>>
         /\ pc[p] = "idle" /\ pc'[p] \in {"cleanup", "ttl"}
         /\ call'[p].key = k /\ call'[p].now = clock
         /\ call'[p].answer = "none" /\ call'[p].hash = NoHash
         /\ call'[p].stale = (CleanupDue(clock) /\ log # <<>> /\ Old(touched))
<1> DEFINE stale == CleanupDue(clock) /\ log # <<>> /\ Old(touched)
           c == [NoCall(k) EXCEPT !.now = clock, !.stale = stale]
<1>1. call'[p] = c /\ Others(p)
  BY DEF Begin, Goto, TypeOK, Others
<1>2. /\ c.key = k /\ c.now = clock /\ c.answer = "none" /\ c.hash = NoHash
      /\ c.stale = stale
  <2> HIDE DEF stale
  <2> QED  BY DEF NoCall
<1> HIDE DEF c
<1> QED  BY <1>1, <1>2 DEF Begin, Goto, TypeOK

LEMMA EarlyShape ==
  ASSUME TypeOK, NEW p \in Proc,
         CleanUp(p) \/ ReadTTL(p) \/ DiffUnusable(p)
  PROVE  /\ Others(p) /\ Same(call'[p], call[p])
         /\ call'[p].answer = call[p].answer
         /\ UNCHANGED <<env, touched, stats, budget, held, verdicts>>
         /\ log' = IF CleanUp(p) /\ call[p].stale THEN <<>> ELSE log
         /\ \/ pc[p] = "cleanup" /\ pc'[p] = "ttl"
            \/ pc[p] = "ttl" /\ pc'[p] = "lookup"
            \/ pc[p] = "diff" /\ pc'[p] = "summary"
<1>1. \E s : pc' = [pc EXCEPT ![p] = s]
  BY DEF CleanUp, ReadTTL, DiffUnusable, Goto
<1>2. \/ call' = call
      \/ call' = [call EXCEPT ![p].ttl = AdaptiveTTL(log, call[p].now)]
  BY DEF CleanUp, ReadTTL, DiffUnusable
<1>3. Others(p)
  BY <1>1, <1>2 DEF TypeOK, Others
<1>4. Same(call'[p], call[p]) /\ call'[p].answer = call[p].answer
  BY <1>2 DEF TypeOK, Call, Same
<1> QED
  BY <1>3, <1>4 DEF CleanUp, ReadTTL, DiffUnusable, Goto, TypeOK, cache

LEMMA StatShape ==
  ASSUME TypeOK, NEW p \in Proc, Stat(p)
  PROVE  /\ Others(p) /\ pc[p] = "stat"
         /\ UNCHANGED <<env, cache, budget, held, verdicts>>
         /\ \/ pc'[p] = "tool" /\ call'[p] = call[p]
               /\ file[PathOf[call[p].key]].content = Gone
            \/ /\ pc'[p] = "hash"
               /\ file[PathOf[call[p].key]].content # Gone
               /\ call'[p].key = call[p].key /\ call'[p].now = call[p].now
               /\ call'[p].stale = call[p].stale
               /\ call'[p].last = call[p].last
               /\ call'[p].answer = call[p].answer
               /\ call'[p].mtime = file[PathOf[call[p].key]].mtime
<1> DEFINE m == file[PathOf[call[p].key]].mtime
<1>1. call[p] \in Call /\ m \in Mtime
  BY HookAssumption DEF TypeOK, Call, File, Mtime
<1>2. call' = call \/ call' = [call EXCEPT ![p] = [call[p] EXCEPT !.mtime = m]]
  BY DEF Stat
<1>3. Others(p)
  BY <1>2 DEF Stat, Goto, TypeOK, Others
<1>4. ASSUME call' = [call EXCEPT ![p] = [call[p] EXCEPT !.mtime = m]]
      PROVE  /\ call'[p].key = call[p].key /\ call'[p].now = call[p].now
             /\ call'[p].stale = call[p].stale
             /\ call'[p].last = call[p].last
             /\ call'[p].answer = call[p].answer /\ call'[p].mtime = m
  <2> HIDE DEF m
  <2>1. call'[p] = [call[p] EXCEPT !.mtime = m]
    BY <1>4 DEF TypeOK
  <2> QED  BY <1>1, <2>1 DEF Call, Same
<1> QED  BY <1>3, <1>4 DEF Stat, Goto, TypeOK

LEMMA RecordShape ==
  ASSUME TypeOK, NEW p \in Proc,
         AppendEntry(p) \/ CopyRead(p) \/ CopyWrite(p) \/ WriteStats(p)
  PROVE  /\ Others(p) /\ Same(call'[p], call[p])
         /\ call'[p].answer = call[p].answer
         /\ UNCHANGED <<env, held, released, refused, streak, forgotten>>
         /\ pc[p] \in Recording
         /\ pc'[p] \in {"copy", "copy_write", "stats", "emit"}
<1>1. PICK s \in {"copy", "copy_write", "stats", "emit"} :
        pc' = [pc EXCEPT ![p] = s]
  BY DEF AppendEntry, CopyRead, CopyWrite, WriteStats, Goto, AfterAppend,
         AfterCopy, AfterStats
<1>2. \/ call' = call
      \/ call' = [call EXCEPT ![p].copied = file[PathOf[call[p].key]].content]
  BY DEF AppendEntry, CopyRead, CopyWrite, WriteStats
<1>3. Others(p)
  BY <1>1, <1>2 DEF TypeOK, Others
<1>4. Same(call'[p], call[p]) /\ call'[p].answer = call[p].answer
  BY <1>2 DEF TypeOK, Call, Same
<1> QED
  BY <1>1, <1>3, <1>4
  DEF AppendEntry, CopyRead, CopyWrite, WriteStats, TypeOK, verdicts, Recording

LEMMA EndShape ==
  ASSUME TypeOK, NEW p \in Proc,
         Emit(p) \/ RunTool(p) \/ RejectTool(p) \/ Crash(p)
  PROVE  /\ Others(p) /\ UNCHANGED <<env, cache, verdicts>>
         /\ \/ pc'[p] = "tool" /\ call'[p] = call[p]
            \/ pc'[p] = "idle" /\ call'[p] = NoCall(call[p].key)
<1>1. Exit(p) \/ (Goto(p, "tool") /\ call' = call)
  BY DEF Emit, RunTool, RejectTool, Crash
<1>2. Others(p)
  BY <1>1 DEF Exit, Goto, TypeOK, Others
<1> QED
  BY <1>1, <1>2
  DEF Exit, Goto, TypeOK, Emit, RunTool, RejectTool, Crash

LEMMA ConcludeShape ==
  ASSUME TypeOK, NEW p \in Proc, NEW c \in Call, NEW a, Conclude(p, c, a)
  PROVE  /\ Others(p)
         /\ pc'[p] = IF a = "blocked" THEN "emit" ELSE "append"
         /\ call'[p].answer = a /\ Same(call'[p], c)
<1>1. call'[p] = [c EXCEPT !.answer = a] /\ Others(p)
  BY DEF Conclude, Goto, TypeOK, Others
<1>2. Same([c EXCEPT !.answer = a], c) /\ [c EXCEPT !.answer = a].answer = a
  BY DEF Call, Same
<1> QED  BY <1>1, <1>2 DEF Conclude, Goto, TypeOK

(* The verdict on the file: what HashFile and the steps of a diff settle.  *)
Hashed(p) ==
  LET now == file[PathOf[call[p].key]].content
  IN  [call[p] EXCEPT !.hash = IF HashMode /\ now # Gone THEN now ELSE NoHash]

LEMMA HashFileShape ==
  ASSUME HookInv, NEW p \in Proc, HashFile(p)
  PROVE  LET c == Hashed(p)
             f == file[PathOf[call[p].key]]
         IN  /\ pc[p] = "hash" /\ UNCHANGED <<env, cache, budget, held>>
             /\ c \in Call /\ FoundOK(Words, seen, c)
             /\ c.key = call[p].key /\ c.now = call[p].now
             /\ c.stale = call[p].stale
             /\ c.last = call[p].last /\ c.mtime = call[p].mtime
             /\ c.answer = call[p].answer
             /\ c.hash = IF HashMode /\ f.content # Gone THEN f.content
                         ELSE NoHash
             /\ \/ Unchanged(c) /\ Conclude(p, c, HitAnswer(c.last, c.now, c.ttl))
                \/ /\ Diffing(c.key) /\ call' = [call EXCEPT ![p] = c]
                   /\ Goto(p, "diff") /\ UNCHANGED verdicts
                \/ c.last = NoEntry /\ Conclude(p, c, "miss")
                \/ \E a \in {"blocked", "changed"} : Conclude(p, c, a)
<1> DEFINE f == file[PathOf[call[p].key]]
           hash == IF HashMode /\ f.content # Gone THEN f.content ELSE NoHash
           c == Hashed(p)
<1>1. call[p] \in Call /\ FoundOK(Words, seen, call[p])
  BY DEF HookInv, TypeOK, CallInv, CallOK
<1>2. hash \in Hash
  BY <1>1, HookAssumption DEF HookInv, TypeOK, Call, File, Hash
<1>3. c = [call[p] EXCEPT !.hash = hash]
  BY DEF Hashed
<1> HIDE DEF hash, c
<1>4. /\ c \in Call /\ c.hash = hash
      /\ c.key = call[p].key /\ c.now = call[p].now /\ c.stale = call[p].stale
      /\ c.last = call[p].last /\ c.mtime = call[p].mtime
      /\ c.answer = call[p].answer /\ c.ttl = call[p].ttl
  BY <1>1, <1>2, <1>3 DEF Call
<1>5. FoundOK(Words, seen, c)
  BY <1>1, <1>4 DEF FoundOK
<1>6. \/ Unchanged(c) /\ Conclude(p, c, HitAnswer(c.last, c.now, c.ttl))
      \/ /\ Diffing(c.key) /\ call' = [call EXCEPT ![p] = c]
         /\ Goto(p, "diff") /\ UNCHANGED verdicts
      \/ PassOrBlock(p, c)
  BY DEF HashFile, Hashed, c
<1> QED
  BY <1>4, <1>5, <1>6 DEF HashFile, PassOrBlock, hash, c

LEMMA DiffShape ==
  ASSUME HookInv, NEW p \in Proc, DiffShort(p) \/ Summarize(p)
  PROVE  LET c == Compared(p)
         IN  /\ pc[p] \in {"diff", "summary"}
             /\ UNCHANGED <<env, cache, budget, held>>
             /\ c \in Call /\ FoundOK(Words, seen, c)
             /\ Same(c, call[p]) /\ c.answer = call[p].answer
             /\ \/ c.last = NoEntry /\ Conclude(p, c, "miss")
                \/ \E a \in {"diff", "summary", "blocked", "changed"} :
                     Conclude(p, c, a)
<1> DEFINE base   == snap[call[p].key].content
           target == file[PathOf[call[p].key]].content
<1>1. call[p] \in Call
  BY DEF HookInv, TypeOK
<1>2. Compared(p) = [call[p] EXCEPT !.base = base, !.target = target]
  BY DEF Compared
<1> HIDE DEF base, target
<1>3. Same(Compared(p), call[p]) /\ Compared(p).answer = call[p].answer
  BY <1>1, <1>2 DEF Same, Call
<1> QED
  BY <1>3, ComparedOK DEF DiffShort, Summarize, PassOrBlock

LEMMA LookupShape ==
  ASSUME HookInv, NEW p \in Proc, Lookup(p)
  PROVE  LET e == LastEntry(log, call[p].key)
             c == [call[p] EXCEPT !.last = e]
             d == [c EXCEPT !.mtime = e.mtime]
         IN  /\ pc[p] = "lookup" /\ UNCHANGED <<env, cache, budget, held>>
             /\ c \in Call /\ FoundOK(Words, seen, c)
             /\ c.key = call[p].key /\ c.now = call[p].now
             /\ c.stale = call[p].stale /\ c.answer = call[p].answer
             /\ c.last = e
             /\ \/ /\ e # NoEntry /\ ~HashMode
                   /\ d \in Call /\ d.key = c.key /\ d.now = c.now
                   /\ d.stale = c.stale /\ d.last = e
                   /\ Conclude(p, d, HitAnswer(e, d.now, d.ttl))
                \/ /\ call' = [call EXCEPT ![p] = c]
                   /\ Goto(p, "stat") /\ UNCHANGED verdicts
<1> DEFINE e == LastEntry(log, call[p].key)
           c == [call[p] EXCEPT !.last = e]
           d == [c EXCEPT !.mtime = e.mtime]
<1>1. call[p] \in Call /\ FoundOK(Words, seen, call[p])
  BY DEF HookInv, TypeOK, CallInv, CallOK
<1>2. c \in Call /\ FoundOK(Words, seen, c)
  BY <1>1, FoundInLog
<1> HIDE DEF e
<1>3. /\ c.last = e /\ c.key = call[p].key /\ c.now = call[p].now
      /\ c.stale = call[p].stale /\ c.answer = call[p].answer
      /\ c.ttl = call[p].ttl
  BY <1>1 DEF Call
<1> HIDE DEF c
<1>4. ASSUME e # NoEntry
      PROVE  /\ d \in Call /\ d.key = c.key /\ d.now = c.now /\ d.last = e
             /\ d.stale = c.stale /\ d.ttl = c.ttl
  <2>1. c.last \in Entry
    BY <1>2, <1>3, <1>4 DEF Call
  <2>2. e.mtime \in Mtime
    BY <1>3, <2>1 DEF Entry
  <2> QED  BY <1>2, <1>3, <2>2 DEF Call
<1>5. \/ /\ e # NoEntry /\ ~HashMode
         /\ Conclude(p, d, HitAnswer(e, c.now, c.ttl))
      \/ /\ call' = [call EXCEPT ![p] = c]
         /\ Goto(p, "stat") /\ UNCHANGED verdicts
  BY DEF Lookup, e, c
<1> HIDE DEF d
<1>6. pc[p] = "lookup" /\ UNCHANGED <<env, cache, budget, held>>
  BY DEF Lookup
<1> QED  BY <1>2, <1>3, <1>4, <1>5, <1>6 DEF c, d, e

-----------------------------------------------------------------------------
(***************************************************************************)
(* "Unchanged" is only said of a version that passed.  A hook that finds   *)
(* the file missing when it is to hash it gives its word without a hash.   *)
(* Unless a file may change twice in a second, its mtime is a later one    *)
(* from then on, and that word is never taken for one on the new version.  *)
(***************************************************************************)
Dated == HashMode /\ Vanishing => ~SameSecondEdits

(* Without a hash, the version with mtime m is older than the file f.      *)
OldIfUnread(f, m, h) == h = NoHash => Vanishing /\ m < f.mtime

ReadOK(F, step, c) ==
  LET f == F[PathOf[c.key]] IN
  /\ step \in {"idle", "cleanup", "ttl", "lookup"} => c.hash = NoHash
  /\ HashMode =>
       /\ step = "hash" =>
            /\ Vanishing => c.mtime <= f.mtime
            /\ f.content = Gone => Vanishing /\ c.mtime < f.mtime
            /\ c.last # NoEntry => OldIfUnread(c, c.last.mtime, c.last.hash)
       /\ step \in {"diff", "summary"} => OldIfUnread(f, c.mtime, c.hash)

FilesRead == ~Vanishing => \A q \in Path : file[q].content # Gone

WordsRead ==
  HashMode =>
    \A w \in Words : OldIfUnread(file[PathOf[w.key]], w.mtime, w.hash)

(* A verdict that passed was about this version of the key.                *)
Backed(k, m, h) ==
  \E r \in released : r.key = k /\ r.mtime = m /\ SameHash(r.hash, h)

RefusedBacked == \A w \in refused : Backed(w.key, w.mtime, w.hash)

CallsRead == \A p \in Proc : ReadOK(file, pc[p], call[p])

ReadInv == FilesRead /\ WordsRead /\ RefusedBacked /\ CallsRead

LEMMA WordIsBacked ==
  ASSUME RefusedBacked, NEW k, NEW m, NEW h, NEW t, WordOn(k, m, h, t) \in Words
  PROVE  Backed(k, m, h)
<1> DEFINE w == WordOn(k, m, h, t)
<1>1. w.key = k /\ w.mtime = m /\ w.hash = h
  BY DEF WordOn
<1>2. CASE w \in released
  BY <1>1, <1>2 DEF Backed, SameHash
<1>3. CASE w \in refused
  BY <1>1, <1>3 DEF RefusedBacked
<1> QED  BY <1>2, <1>3 DEF Words

LEMMA CallsReadStay ==
  ASSUME CallsRead, UNCHANGED env, NEW p \in Proc, Others(p),
         ReadOK(file, pc'[p], call'[p])
  PROVE  CallsRead'
<1> SUFFICES ASSUME NEW q \in Proc, q # p
             PROVE  ReadOK(file, pc'[q], call'[q])
  BY DEF CallsRead, env, ReadOK
<1> QED  BY DEF CallsRead, Others

(* A step of p that gives no word.                                         *)
LEMMA ReadStays ==
  ASSUME ReadInv, UNCHANGED <<env, released, refused>>,
         NEW p \in Proc, Others(p), ReadOK(file, pc'[p], call'[p])
  PROVE  ReadInv'
<1>1. CallsRead'
  BY CallsReadStay DEF ReadInv
<1> QED
  BY <1>1
  DEF ReadInv, FilesRead, WordsRead, RefusedBacked, Backed, Words, env

LEMMA ConcludeRead ==
  ASSUME TypeOK, ReadInv, UNCHANGED env,
         NEW p \in Proc, NEW c \in Call, NEW a, Conclude(p, c, a),
         HashMode => OldIfUnread(file[PathOf[c.key]], c.mtime, c.hash),
         a = "hit" => Backed(c.key, c.mtime, c.hash)
  PROVE  ReadInv'
<1> DEFINE w == WordOn(c.key, c.mtime, c.hash, c.now)
<1>1. w.key = c.key /\ w.mtime = c.mtime /\ w.hash = c.hash
  BY DEF WordOn
<1>2. /\ Others(p) /\ pc'[p] \in {"emit", "append"}
      /\ released' \in {released, released \cup {w}}
      /\ refused' = IF a = "hit" THEN refused \cup {w} ELSE refused
  BY ConcludeShape DEF Conclude, WordOn
<1> HIDE DEF w
<1>3. CallsRead'
  BY <1>2, CallsReadStay DEF ReadInv, ReadOK
<1>4. WordsRead'
  <2>1. \A v \in Words' : v \in Words \/ v = w
    BY <1>2 DEF Words
  <2> QED  BY <1>1, <2>1 DEF ReadInv, WordsRead, env
<1>5. RefusedBacked'
  <2> SUFFICES ASSUME NEW v \in refused' PROVE Backed(v.key, v.mtime, v.hash)'
    BY DEF RefusedBacked
  <2>1. Backed(v.key, v.mtime, v.hash)
    BY <1>1, <1>2 DEF ReadInv, RefusedBacked
  <2> QED  BY <1>2, <2>1 DEF Backed
<1>6. FilesRead'
  BY DEF ReadInv, FilesRead, env
<1> QED  BY <1>3, <1>4, <1>5, <1>6 DEF ReadInv

LEMMA LookupRead ==
  ASSUME HookInv, ReadInv, NEW p \in Proc, Lookup(p)
  PROVE  ReadInv'
<1> DEFINE e == LastEntry(log, call[p].key)
           c == [call[p] EXCEPT !.last = e]
           d == [c EXCEPT !.mtime = e.mtime]
<1>1. /\ pc[p] = "lookup" /\ UNCHANGED env
      /\ c \in Call /\ FoundOK(Words, seen, c) /\ c.last = e
      /\ \/ /\ e # NoEntry /\ ~HashMode
            /\ d \in Call /\ d.key = c.key /\ d.last = e
            /\ Conclude(p, d, HitAnswer(e, d.now, d.ttl))
         \/ /\ call' = [call EXCEPT ![p] = c]
            /\ Goto(p, "stat") /\ UNCHANGED verdicts
  BY LookupShape
<1>2. c.hash = NoHash /\ d.hash = c.hash /\ d.mtime = e.mtime
  <2>1. call[p].hash = NoHash /\ call[p] \in Call
    BY <1>1 DEF ReadInv, CallsRead, ReadOK, HookInv, TypeOK
  <2>2. c.hash = NoHash
    BY <2>1 DEF Call
  <2>3. d.hash = c.hash /\ d.mtime = e.mtime
    BY <1>1 DEF Call
  <2> QED  BY <2>2, <2>3
<1> HIDE DEF c, d, e
<1>3. CASE /\ e # NoEntry /\ ~HashMode
           /\ d \in Call /\ d.key = c.key /\ d.last = e
           /\ Conclude(p, d, HitAnswer(e, d.now, d.ttl))
  <2>1. Backed(e.key, e.mtime, e.hash) /\ e.key = c.key
    BY <1>1, <1>3, WordIsBacked DEF FoundOK, Known, ReadInv
  <2>2. Backed(d.key, d.mtime, d.hash)
    BY <1>2, <1>3, <2>1 DEF Backed, SameHash
  <2> QED  BY <1>1, <1>3, <2>2, ConcludeRead DEF HookInv
<1>4. CASE /\ call' = [call EXCEPT ![p] = c]
           /\ Goto(p, "stat") /\ UNCHANGED verdicts
  <2>1. Others(p) /\ pc'[p] = "stat"
    BY <1>4 DEF HookInv, TypeOK, Goto, Others
  <2> QED  BY <1>1, <1>4, <2>1, ReadStays DEF ReadOK, verdicts
<1> QED  BY <1>1, <1>3, <1>4

LEMMA StatRead ==
  ASSUME HookInv, ReadInv, NEW p \in Proc, Stat(p)
  PROVE  ReadInv'
<1> DEFINE f == file[PathOf[call[p].key]]
           d == call'[p]
<1>1. /\ Others(p) /\ UNCHANGED <<env, released, refused>>
      /\ \/ pc'[p] = "tool"
         \/ /\ pc'[p] = "hash" /\ f.content # Gone
            /\ d.key = call[p].key /\ d.last = call[p].last
            /\ d.mtime = f.mtime
  BY StatShape DEF HookInv, verdicts
<1> HIDE DEF d
<1>2. f.mtime \in Nat
  BY HookAssumption DEF HookInv, TypeOK, Call, File
<1>3. HashMode /\ call[p].last # NoEntry =>
        OldIfUnread(f, call[p].last.mtime, call[p].last.hash)
  <2> SUFFICES ASSUME HashMode, call[p].last # NoEntry
               PROVE  OldIfUnread(f, call[p].last.mtime, call[p].last.hash)
    OBVIOUS
  <2> DEFINE e == call[p].last
             w == WordOn(e.key, e.mtime, e.hash, e.ts)
  <2>1. w \in Words /\ e.key = call[p].key
    BY DEF HookInv, CallInv, CallOK, FoundOK, Known
  <2>2. w.key = e.key /\ w.mtime = e.mtime /\ w.hash = e.hash
    BY DEF WordOn
  <2> HIDE DEF w
  <2>3. OldIfUnread(file[PathOf[w.key]], w.mtime, w.hash)
    BY <2>1 DEF ReadInv, WordsRead
  <2> QED  BY <2>1, <2>2, <2>3
<1>4. ReadOK(file, pc'[p], d)
  BY <1>1, <1>2, <1>3 DEF ReadOK, OldIfUnread
<1> QED  BY <1>1, <1>4, ReadStays DEF d

LEMMA HashFileRead ==
  ASSUME HookInv, ReadInv, NEW p \in Proc, HashFile(p)
  PROVE  ReadInv'
<1> DEFINE c == Hashed(p)
           f == file[PathOf[call[p].key]]
<1>1. /\ pc[p] = "hash" /\ UNCHANGED env
      /\ c \in Call /\ FoundOK(Words, seen, c)
      /\ c.key = call[p].key
      /\ c.last = call[p].last /\ c.mtime = call[p].mtime
      /\ c.hash = IF HashMode /\ f.content # Gone THEN f.content ELSE NoHash
      /\ \/ Unchanged(c) /\ Conclude(p, c, HitAnswer(c.last, c.now, c.ttl))
         \/ /\ call' = [call EXCEPT ![p] = c]
            /\ Goto(p, "diff") /\ UNCHANGED verdicts
         \/ \E a \in {"miss", "blocked", "changed"} : Conclude(p, c, a)
  BY HashFileShape
<1>2. ReadOK(file, "hash", call[p])
  BY <1>1 DEF ReadInv, CallsRead
<1>3. f.content \in Content \cup {Gone}
  BY HookAssumption DEF HookInv, TypeOK, Call, File
<1> HIDE DEF c
<1>4. HashMode => OldIfUnread(f, c.mtime, c.hash)
  BY <1>1, <1>2, <1>3, NoHashAssumption DEF ReadOK, OldIfUnread
<1>5. CASE Unchanged(c) /\ Conclude(p, c, HitAnswer(c.last, c.now, c.ttl))
  <2>1. /\ c.last # NoEntry /\ c.last.mtime = c.mtime
        /\ HashMode => SameHash(c.last.hash, c.hash)
    BY <1>5 DEF Unchanged
  <2>2. PICK r \in released : /\ r.key = c.key /\ r.mtime = c.mtime
                              /\ SameHash(r.hash, c.last.hash)
    BY <1>1, <2>1, WordIsBacked DEF FoundOK, Known, ReadInv, Backed
  <2>3. c.mtime \in Int
    BY <1>1 DEF Call, Mtime, Cleared
  <2>4. HashMode => c.last.hash # NoHash
    BY <1>1, <1>2, <2>1, <2>3 DEF ReadOK, OldIfUnread
  <2>5. ~HashMode => c.hash = NoHash
    BY <1>1
  <2>6. SameHash(r.hash, c.hash)
    BY <2>1, <2>2, <2>4, <2>5 DEF SameHash
  <2>7. Backed(c.key, c.mtime, c.hash)
    BY <2>2, <2>6 DEF Backed
  <2> QED  BY <1>1, <1>4, <1>5, <2>7, ConcludeRead DEF HookInv
<1>6. CASE /\ call' = [call EXCEPT ![p] = c]
           /\ Goto(p, "diff") /\ UNCHANGED verdicts
  <2>1. Others(p) /\ pc'[p] = "diff" /\ call'[p] = c
    BY <1>6 DEF HookInv, TypeOK, Goto, Others
  <2> QED  BY <1>1, <1>4, <1>6, <2>1, ReadStays DEF ReadOK, verdicts
<1>7. CASE \E a \in {"miss", "blocked", "changed"} : Conclude(p, c, a)
  BY <1>1, <1>4, <1>7, ConcludeRead DEF HookInv
<1> QED  BY <1>1, <1>5, <1>6, <1>7

LEMMA DiffRead ==
  ASSUME HookInv, ReadInv, NEW p \in Proc, DiffShort(p) \/ Summarize(p)
  PROVE  ReadInv'
<1> DEFINE c == Compared(p)
<1>1. /\ pc[p] \in {"diff", "summary"} /\ UNCHANGED env
      /\ c \in Call /\ Same(c, call[p])
      /\ \E a : a # "hit" /\ Conclude(p, c, a)
  BY DiffShape
<1> HIDE DEF c
<1>2. HashMode => OldIfUnread(file[PathOf[c.key]], c.mtime, c.hash)
  BY <1>1 DEF ReadInv, CallsRead, ReadOK, Same
<1> QED  BY <1>1, <1>2, ConcludeRead DEF HookInv

(* The steps that neither look at the file nor give a word.                *)
LEMMA QuietRead ==
  ASSUME HookInv, ReadInv, NEW p \in Proc,
         \/ CleanUp(p) \/ ReadTTL(p) \/ DiffUnusable(p)
         \/ AppendEntry(p) \/ CopyRead(p) \/ CopyWrite(p) \/ WriteStats(p)
         \/ Emit(p) \/ RunTool(p) \/ RejectTool(p) \/ Crash(p)
         \/ \E k \in Key : Begin(p, k)
  PROVE  ReadInv'
<1>1. TypeOK /\ ReadOK(file, pc[p], call[p])
  BY DEF HookInv, ReadInv, CallsRead
<1>2. UNCHANGED <<env, released, refused>> /\ Others(p)
  BY <1>1, EarlyShape, RecordShape, EndShape, BeginShape DEF verdicts
<1>3. ReadOK(file, pc'[p], call'[p])
  <2>1. CASE CleanUp(p) \/ ReadTTL(p) \/ DiffUnusable(p)
    BY <1>1, <2>1, EarlyShape DEF ReadOK, Same
  <2>2. CASE AppendEntry(p) \/ CopyRead(p) \/ CopyWrite(p) \/ WriteStats(p)
    BY <1>1, <2>2, RecordShape DEF ReadOK
  <2>3. CASE Emit(p) \/ RunTool(p) \/ RejectTool(p) \/ Crash(p)
    <3>1. NoCall(call[p].key).hash = NoHash
      BY DEF NoCall
    <3> QED  BY <1>1, <2>3, <3>1, EndShape DEF ReadOK
  <2>4. CASE \E k \in Key : Begin(p, k)
    BY <1>1, <2>4, BeginShape DEF ReadOK
  <2> QED  BY <2>1, <2>2, <2>3, <2>4
<1> QED  BY <1>2, <1>3, ReadStays

(* A change of a file gives it a later mtime, if it may ever be missing.   *)
LEMMA EditRead ==
  ASSUME Dated, HookInv, ReadInv,
         NEW q \in Path, NEW c \in Content \cup {Gone}, Edit(q, c)
  PROVE  ReadInv'
<1>1. /\ file' = [file EXCEPT ![q] = [content |-> c, mtime |-> clock]]
      /\ c = Gone => Vanishing
      /\ HashMode /\ Vanishing => file[q].mtime < clock
      /\ UNCHANGED <<pc, call, released, refused>>
  BY DEF Edit, Dated, verdicts
<1>2. TypeOK /\ clock \in Nat
  BY DEF HookInv, TypeOK
<1>3. \A x \in Path :
        /\ file[x].mtime \in Nat /\ file'[x].mtime \in Nat
        /\ HashMode /\ Vanishing /\ file'[x] # file[x] =>
             file[x].mtime < file'[x].mtime
        /\ ~Vanishing /\ file[x].content # Gone => file'[x].content # Gone
  BY <1>1, <1>2 DEF TypeOK, File
<1>4. FilesRead'
  BY <1>3 DEF ReadInv, FilesRead
<1>5. WordsRead'
  <2> SUFFICES ASSUME HashMode, NEW w \in Words
               PROVE  OldIfUnread(file'[PathOf[w.key]], w.mtime, w.hash)
    BY <1>1 DEF WordsRead, Words
  <2>1. PathOf[w.key] \in Path /\ w.mtime \in Int
    <3>1. w \in Release
      BY <1>2 DEF TypeOK, Words
    <3>2. w.key \in Key /\ w.mtime \in Mtime
      BY <3>1 DEF Release
    <3>3. w.mtime \in Int
      BY <3>2 DEF Mtime, Cleared
    <3> QED  BY <3>2, <3>3, HookAssumption
  <2>2. OldIfUnread(file[PathOf[w.key]], w.mtime, w.hash)
    BY DEF ReadInv, WordsRead
  <2> DEFINE x == file[PathOf[w.key]]
             y == file'[PathOf[w.key]]
  <2>3. /\ x.mtime \in Int /\ y.mtime \in Int
        /\ Vanishing => x.mtime <= y.mtime
    <3>1. y # x /\ Vanishing => x.mtime < y.mtime
      BY <1>3, <2>1
    <3>2. x.mtime \in Nat /\ y.mtime \in Nat
      BY <1>3, <2>1
    <3> HIDE DEF x, y
    <3> QED  BY <3>1, <3>2
  <2> HIDE DEF x, y
  <2> QED  BY <2>1, <2>2, <2>3 DEF OldIfUnread, x, y
<1>6. CallsRead'
  <2> SUFFICES ASSUME NEW p \in Proc PROVE ReadOK(file', pc[p], call[p])
    BY <1>1 DEF CallsRead
  <2>1. PathOf[call[p].key] \in Path /\ call[p].mtime \in Int
    <3>1. call[p] \in Call
      BY <1>2 DEF TypeOK
    <3>2. call[p].key \in Key /\ call[p].mtime \in Mtime
      BY <3>1 DEF Call
    <3>3. call[p].mtime \in Int
      BY <3>2 DEF Mtime, Cleared
    <3> QED  BY <3>2, <3>3, HookAssumption
  <2>2. ReadOK(file, pc[p], call[p])
    BY DEF ReadInv, CallsRead
  <2>3. file[PathOf[call[p].key]].content = Gone => Vanishing
    BY <2>1 DEF ReadInv, FilesRead
  <2>4. CASE file'[PathOf[call[p].key]] = file[PathOf[call[p].key]]
    BY <2>2, <2>4 DEF ReadOK
  <2>5. CASE file'[PathOf[call[p].key]] # file[PathOf[call[p].key]]
    BY <1>3, <1>4, <2>1, <2>2, <2>5 DEF ReadOK, OldIfUnread, FilesRead
  <2> QED  BY <2>4, <2>5
<1>7. RefusedBacked'
  BY <1>1 DEF ReadInv, RefusedBacked, Backed
<1> QED  BY <1>4, <1>5, <1>6, <1>7 DEF ReadInv

LEMMA ReadNext ==
  ASSUME Dated, HookInv, ReadInv, [Next]_vars
  PROVE  ReadInv'
<1>1. CASE \/ UNCHANGED vars \/ ClearSessions \/ Tick
           \/ \E q \in Path : ClearFile(q)
  <2>1. UNCHANGED <<pc, call, released, refused, file>>
    BY <1>1 DEF vars, ClearSessions, Tick, ClearFile, env, verdicts
  <2> QED
    BY <2>1
    DEF ReadInv, FilesRead, WordsRead, RefusedBacked, Backed, CallsRead, Words
<1>2. CASE \E q \in Path, c \in Content \cup {Gone} : Edit(q, c)
  BY <1>2, EditRead
<1>3. CASE \E p \in Proc : HookStep(p)
  BY <1>3, LookupRead, StatRead, HashFileRead, DiffRead, QuietRead DEF HookStep
<1>4. CASE \/ \E p \in Proc : RunTool(p) \/ RejectTool(p) \/ Crash(p)
           \/ \E p \in Proc, k \in Key : Begin(p, k)
  BY <1>4, QuietRead
<1> QED  BY <1>1, <1>2, <1>3, <1>4 DEF Next

LEMMA ReadInit == Init => ReadInv
<1> SUFFICES ASSUME Init PROVE ReadInv
  OBVIOUS
<1>1. ASSUME NEW p \in Proc PROVE ReadOK(file, pc[p], call[p])
  <2>1. call[p].hash = NoHash /\ pc[p] = "idle"
    BY DEF Init, NoCall
  <2> QED  BY <2>1 DEF ReadOK
<1>2. FilesRead
  BY HookAssumption DEF Init, FilesRead
<1> QED
  BY <1>1, <1>2 DEF Init, ReadInv, WordsRead, RefusedBacked, CallsRead, Words

(* "Unchanged" is only said of a version that an earlier call let pass,    *)
(* unless a file that cannot always be hashed may change twice within the  *)
(* second of its mtime.                                                    *)
THEOREM UnchangedIsReleased ==
  ASSUME Dated
  PROVE  Spec => []UnchangedWasReleased
<1>1. HookInv /\ ReadInv /\ [Next]_vars => ReadInv'
  BY ReadNext
<1>2. HookInv /\ ReadInv => UnchangedWasReleased
  <2> SUFFICES ASSUME HookInv, ReadInv, NEW p \in Proc, Answers(p, "hit")
               PROVE  Backed(call[p].key, call[p].mtime, call[p].hash)
    BY DEF UnchangedWasReleased, Backed
  <2>1. SettledOK(Words, call[p]) /\ call[p].answer = "hit"
    BY DEF HookInv, CallInv, CallOK, SettledSteps, Answers, Settled
  <2> QED  BY <2>1, WordIsBacked DEF SettledOK, ReadInv
<1> QED  BY <1>1, <1>2, ReadInit, HookInvariant, PTL DEF Spec

-----------------------------------------------------------------------------
(***************************************************************************)
(* "Unchanged" is true.  With hash validation the mtime that Stat found is *)
(* the one of the file until somebody changes the file, which gives it the *)
(* time of that change, after the process took its own time.               *)
(***************************************************************************)
FreshOK(t, F, step, c) ==
  LET f == F[PathOf[c.key]] IN
  /\ c.now <= t
  /\ step = "hash" =>
       (f.mtime = c.mtime /\ f.content # Gone) \/ f.mtime >= c.now
  /\ step \in SettledSteps /\ c.answer = "hit" =>
       /\ c.mtime = c.last.mtime
       /\ \/ f.mtime = c.last.mtime /\ SameHash(f.content, c.last.hash)
          \/ f.mtime >= c.now

FreshInv == \A p \in Proc : FreshOK(clock, file, pc[p], call[p])

LEMMA FreshStays ==
  ASSUME FreshInv, UNCHANGED env, NEW p \in Proc, Others(p),
         FreshOK(clock, file, pc'[p], call'[p])
  PROVE  FreshInv'
<1> SUFFICES ASSUME NEW q \in Proc, q # p
             PROVE  FreshOK(clock, file, pc'[q], call'[q])
  BY DEF FreshInv, env, FreshOK
<1> QED  BY DEF FreshInv, Others

(* A step that leaves the read as it is, and does not settle it.           *)
LEMMA FreshSame ==
  ASSUME NEW t, NEW F, NEW step, NEW c, FreshOK(t, F, step, c),
         NEW next, NEW d, Same(d, c), d.answer = c.answer,
         next # "hash", next \in SettledSteps => step \in SettledSteps
  PROVE  FreshOK(t, F, next, d)
  BY DEF FreshOK, Same

LEMMA ConcludeFresh ==
  ASSUME HookInv, FreshInv, UNCHANGED env,
         NEW p \in Proc, NEW c \in Call, NEW a, Conclude(p, c, a),
         c.now = call[p].now,
         a = "hit" =>
           LET f == file[PathOf[c.key]] IN
           /\ c.mtime = c.last.mtime
           /\ \/ f.mtime = c.last.mtime /\ SameHash(f.content, c.last.hash)
              \/ f.mtime >= c.now
  PROVE  FreshInv'
<1>1. /\ Others(p) /\ Same(call'[p], c) /\ call'[p].answer = a
      /\ pc'[p] # "hash"
  BY ConcludeShape DEF HookInv
<1>2. call[p].now <= clock
  BY DEF FreshInv, FreshOK
<1>3. FreshOK(clock, file, pc'[p], call'[p])
  BY <1>1, <1>2 DEF FreshOK, Same
<1> QED  BY <1>1, <1>3, FreshStays

LEMMA HashFileFresh ==
  ASSUME HashMode, HookInv, FreshInv, NEW p \in Proc, HashFile(p)
  PROVE  FreshInv'
<1> DEFINE c == Hashed(p)
           f == file[PathOf[call[p].key]]
<1>1. /\ pc[p] = "hash" /\ UNCHANGED env
      /\ c \in Call /\ FoundOK(Words, seen, c)
      /\ c.key = call[p].key /\ c.now = call[p].now
      /\ c.last = call[p].last /\ c.mtime = call[p].mtime
      /\ c.answer = call[p].answer
      /\ c.hash = IF HashMode /\ f.content # Gone THEN f.content ELSE NoHash
      /\ \/ Unchanged(c) /\ Conclude(p, c, HitAnswer(c.last, c.now, c.ttl))
         \/ /\ Diffing(c.key) /\ call' = [call EXCEPT ![p] = c]
            /\ Goto(p, "diff") /\ UNCHANGED verdicts
         \/ c.last = NoEntry /\ Conclude(p, c, "miss")
         \/ \E a \in {"blocked", "changed"} : Conclude(p, c, a)
  BY HashFileShape
<1>2. FreshOK(clock, file, "hash", call[p])
  BY <1>1 DEF FreshInv
<1> HIDE DEF c
<1>3. CASE Unchanged(c) /\ Conclude(p, c, HitAnswer(c.last, c.now, c.ttl))
  <2>1. c.mtime = c.last.mtime /\ SameHash(c.last.hash, c.hash)
    BY <1>3 DEF Unchanged
  <2>2. f.content # Gone => SameHash(f.content, c.last.hash)
    BY <1>1, <2>1 DEF SameHash
  <2> QED
    BY <1>1, <1>2, <1>3, <2>1, <2>2, ConcludeFresh DEF FreshOK
<1>4. CASE /\ Diffing(c.key) /\ call' = [call EXCEPT ![p] = c]
           /\ Goto(p, "diff") /\ UNCHANGED verdicts
  <2>1. Others(p) /\ pc'[p] = "diff" /\ call'[p] = c
    BY <1>4 DEF HookInv, TypeOK, Goto, Others
  <2>2. FreshOK(clock, file, "diff", c)
    BY <1>1, <1>2 DEF FreshOK, SettledSteps
  <2> QED  BY <1>1, <2>1, <2>2, FreshStays
<1>5. CASE \E a \in {"miss", "blocked", "changed"} : Conclude(p, c, a)
  BY <1>1, <1>5, ConcludeFresh
<1> QED  BY <1>1, <1>3, <1>4, <1>5

LEMMA LookupFresh ==
  ASSUME HashMode, HookInv, FreshInv, NEW p \in Proc, Lookup(p)
  PROVE  FreshInv'
<1> DEFINE c == [call[p] EXCEPT !.last = LastEntry(log, call[p].key)]
<1>1. /\ UNCHANGED env /\ c.now = call[p].now
      /\ call' = [call EXCEPT ![p] = c] /\ Goto(p, "stat")
  BY LookupShape
<1> HIDE DEF c
<1>2. Others(p) /\ pc'[p] = "stat" /\ call'[p] = c
  BY <1>1 DEF HookInv, TypeOK, Goto, Others
<1>3. FreshOK(clock, file, "stat", c)
  BY <1>1 DEF FreshInv, FreshOK, SettledSteps
<1> QED  BY <1>1, <1>2, <1>3, FreshStays

LEMMA StepFresh ==
  ASSUME HashMode, HookInv, FreshInv, NEW p \in Proc,
         HookStep(p) \/ RunTool(p) \/ RejectTool(p) \/ Crash(p)
  PROVE  FreshInv'
<1>1. TypeOK /\ FreshOK(clock, file, pc[p], call[p])
  BY DEF HookInv, FreshInv
<1>2. CASE CleanUp(p) \/ ReadTTL(p) \/ DiffUnusable(p)
  BY <1>1, <1>2, EarlyShape, FreshSame, FreshStays DEF SettledSteps
<1>3. CASE Lookup(p)
  BY <1>3, LookupFresh
<1>4. CASE Stat(p)
  <2>1. Others(p) /\ UNCHANGED env
    BY <1>1, <1>4, StatShape
  <2>2. FreshOK(clock, file, pc'[p], call'[p])
    BY <1>1, <1>4, StatShape DEF FreshOK, SettledSteps
  <2> QED  BY <2>1, <2>2, FreshStays
<1>5. CASE HashFile(p)
  BY <1>5, HashFileFresh
<1>6. CASE DiffShort(p) \/ Summarize(p)
  BY <1>6, DiffShape, ConcludeFresh DEF Same
<1>7. CASE AppendEntry(p) \/ CopyRead(p) \/ CopyWrite(p) \/ WriteStats(p)
  BY <1>1, <1>7, RecordShape, FreshSame, FreshStays DEF SettledSteps, Recording
<1>8. CASE Emit(p) \/ RunTool(p) \/ RejectTool(p) \/ Crash(p)
  <2>1. Others(p) /\ UNCHANGED env
    BY <1>1, <1>8, EndShape
  <2>2. NoCall(call[p].key).now = 0 /\ clock \in Nat
    BY <1>1 DEF NoCall, TypeOK
  <2>3. FreshOK(clock, file, pc'[p], call'[p])
    BY <1>1, <1>8, <2>2, EndShape DEF FreshOK, SettledSteps
  <2> QED  BY <2>1, <2>3, FreshStays
<1> QED
  BY <1>2, <1>3, <1>4, <1>5, <1>6, <1>7, <1>8 DEF HookStep

LEMMA BeginFresh ==
  ASSUME HookInv, FreshInv, NEW p \in Proc, NEW k \in Key, Begin(p, k)
  PROVE  FreshInv'
<1>1. /\ Others(p) /\ UNCHANGED env /\ clock \in Nat
      /\ pc'[p] \in {"cleanup", "ttl"} /\ call'[p].now = clock
  BY BeginShape DEF HookInv, TypeOK
<1>2. FreshOK(clock, file, pc'[p], call'[p])
  BY <1>1 DEF FreshOK, SettledSteps
<1> QED  BY <1>1, <1>2, FreshStays

(* Time passes, and a file that is changed gets the time of the change.    *)
LEMMA WorldFresh ==
  ASSUME HookInv, FreshInv, UNCHANGED <<pc, call>>,
         \/ UNCHANGED env
         \/ Tick
         \/ \E q \in Path, c \in Content \cup {Gone} : Edit(q, c)
  PROVE  FreshInv'
<1> SUFFICES ASSUME NEW p \in Proc
             PROVE  FreshOK(clock', file', pc[p], call[p])
  BY DEF FreshInv
<1>1. /\ FreshOK(clock, file, pc[p], call[p])
      /\ call[p] \in Call /\ clock \in Nat
  BY DEF FreshInv, HookInv, TypeOK
<1>2. PathOf[call[p].key] \in Path /\ call[p].now \in Nat
  BY <1>1, HookAssumption DEF Call
<1>3. CASE UNCHANGED env
  BY <1>1, <1>3 DEF env, FreshOK
<1>4. CASE Tick
  <2>1. clock' = clock + 1 /\ file' = file
    BY <1>4 DEF Tick
  <2> QED  BY <1>1, <1>2, <2>1 DEF FreshOK
<1>5. ASSUME NEW q \in Path, NEW c \in Content \cup {Gone}, Edit(q, c)
      PROVE  FreshOK(clock', file', pc[p], call[p])
  <2>1. /\ file' = [file EXCEPT ![q] = [content |-> c, mtime |-> clock]]
        /\ clock' = clock
    BY <1>5 DEF Edit
  <2>2. CASE q # PathOf[call[p].key]
    <3>1. file'[PathOf[call[p].key]] = file[PathOf[call[p].key]]
      BY <1>2, <2>1, <2>2 DEF HookInv, TypeOK
    <3> QED  BY <1>1, <2>1, <3>1 DEF FreshOK
  <2>3. CASE q = PathOf[call[p].key]
    <3>1. file'[PathOf[call[p].key]].mtime = clock
      BY <1>2, <2>1, <2>3 DEF HookInv, TypeOK
    <3>2. call[p].now <= clock
      BY <1>1 DEF FreshOK
    <3> QED  BY <1>1, <1>2, <2>1, <3>1, <3>2 DEF FreshOK
  <2> QED  BY <2>2, <2>3
<1> QED  BY <1>3, <1>4, <1>5

LEMMA FreshNext ==
  ASSUME HashMode, HookInv, FreshInv, [Next]_vars
  PROVE  FreshInv'
<1>1. CASE \/ UNCHANGED vars \/ ClearSessions \/ Tick
           \/ \E q \in Path : ClearFile(q)
           \/ \E q \in Path, c \in Content \cup {Gone} : Edit(q, c)
  <2>1. UNCHANGED <<pc, call>>
    BY <1>1 DEF vars, ClearSessions, Tick, ClearFile, Edit
  <2>2. \/ UNCHANGED env \/ Tick
        \/ \E q \in Path, c \in Content \cup {Gone} : Edit(q, c)
    BY <1>1 DEF vars, ClearSessions, ClearFile
  <2> QED  BY <2>1, <2>2, WorldFresh
<1>2. CASE \E p \in Proc : HookStep(p) \/ RunTool(p) \/ RejectTool(p) \/ Crash(p)
  BY <1>2, StepFresh
<1>3. CASE \E p \in Proc, k \in Key : Begin(p, k)
  BY <1>3, BeginFresh
<1> QED  BY <1>1, <1>2, <1>3 DEF Next

LEMMA FreshInit == Init => FreshInv
<1> SUFFICES ASSUME Init, NEW p \in Proc
             PROVE  FreshOK(clock, file, pc[p], call[p])
  BY DEF FreshInv
<1>1. call[p].now = 0 /\ pc[p] = "idle" /\ clock \in Nat
  BY HookAssumption DEF Init, NoCall
<1> QED  BY <1>1 DEF FreshOK, SettledSteps

(* With hash validation "unchanged" is true: the file has the mtime and    *)
(* the content of the entry the answer is taken from, or it was changed    *)
(* after the process started.                                              *)
THEOREM HookUnchangedIsTrue ==
  ASSUME HashMode
  PROVE  Spec => []UnchangedIsTrue
<1>1. HookInv /\ FreshInv /\ [Next]_vars => FreshInv'
  BY FreshNext
<1>2. FreshInv => UnchangedIsTrue
  BY DEF FreshInv, FreshOK, UnchangedIsTrue, Answers, Settled, SettledSteps
<1> QED  BY <1>1, <1>2, FreshInit, HookInvariant, PTL DEF Spec

-----------------------------------------------------------------------------
(***************************************************************************)
(* What is refused is in context.  When a file never changes twice within  *)
(* the second of its mtime, the mtime names the version, and every version *)
(* that a verdict let pass, as long as the file has it, was shown or is    *)
(* about to be: no tool call is rejected, and no diff takes the place of   *)
(* the file.  Without a hash the fast path does not look at the file.      *)
(***************************************************************************)
Strict ==
  /\ HashMode /\ ~SameSecondEdits /\ ~Rejecting
  /\ DiffMode /\ ChangedMode = "deny" => Client = "opencode"

(* The version v is older than the file, or is what the file has.          *)
StatOK(f, v) ==
  v.mtime <= f.mtime /\ (v.mtime = f.mtime => f.content # Gone)

VersionOK(f, v) ==
  StatOK(f, v) /\ (v.mtime = f.mtime => v.hash = f.content)

(* The steps of a process that has hashed the file.                        *)
Hashing == {"diff", "summary"} \cup SettledSteps

(* What a process knows of the file it looks at, or has looked at.         *)
FoundVersion(F, step, c) ==
  LET f == F[PathOf[c.key]] IN
  /\ step \in Early => c.answer = "none"
  /\ step \in {"diff", "summary"} \/ c.answer \in {"diff", "summary"} => DiffMode
  /\ step = "hash" => StatOK(f, c)
  /\ step \in Hashing => VersionOK(f, c)

VersionInv == \A p \in Proc : FoundVersion(file, pc[p], call[p])

(* Some call showed content h of key k to the agent, or is about to.       *)
Provided(k, h) ==
  \/ h \in held[k]
  \/ \E o \in Proc : /\ call[o].answer \in Passing
                     /\ call[o].key = k /\ call[o].hash = h

ProvidedInv ==
  \A r \in released :
    LET f == file[PathOf[r.key]] IN
    /\ VersionOK(f, r)
    /\ r.mtime = f.mtime => Provided(r.key, r.hash)

ShownInv == VersionInv /\ ProvidedInv

LEMMA VersionStays ==
  ASSUME VersionInv, UNCHANGED env, NEW p \in Proc, Others(p),
         FoundVersion(file, pc'[p], call'[p])
  PROVE  VersionInv'
<1> SUFFICES ASSUME NEW q \in Proc, q # p
             PROVE  FoundVersion(file, pc'[q], call'[q])
  BY DEF VersionInv, env, FoundVersion
<1> QED  BY DEF VersionInv, Others

(* What is provided stays so, when the process that provides it goes on,   *)
(* or shows it.                                                            *)
LEMMA ProvidedStays ==
  ASSUME NEW p \in Proc, Others(p), \A k \in Key : held[k] \subseteq held'[k],
         NEW k \in Key, NEW h, Provided(k, h),
         call[p].answer \in Passing /\ call[p].key = k /\ call[p].hash = h =>
           \/ h \in held'[k]
           \/ call'[p].answer \in Passing /\ Same(call'[p], call[p])
  PROVE  Provided(k, h)'
  BY DEF Provided, Others, Same

(* A step that gives no verdict and ends none.                             *)
LEMMA ShownStays ==
  ASSUME TypeOK, ShownInv, UNCHANGED <<env, released>>,
         NEW p \in Proc, Others(p), \A k \in Key : held[k] \subseteq held'[k],
         FoundVersion(file, pc'[p], call'[p]),
         call[p].answer \in Passing =>
           call'[p].answer \in Passing /\ Same(call'[p], call[p])
  PROVE  ShownInv'
<1>1. VersionInv'
  BY VersionStays DEF ShownInv
<1>2. ASSUME NEW r \in released
      PROVE  LET f == file[PathOf[r.key]] IN
             /\ VersionOK(f, r)
             /\ r.mtime = f.mtime => Provided(r.key, r.hash)'
  <2>1. r.key \in Key
    BY DEF TypeOK, Release
  <2> QED  BY <2>1, ProvidedStays DEF ShownInv, ProvidedInv
<1> QED  BY <1>1, <1>2 DEF ShownInv, ProvidedInv, env

LEMMA ConcludeShown ==
  ASSUME HookInv, ShownInv, UNCHANGED <<env, held>>,
         NEW p \in Proc, NEW c \in Call, NEW a, Conclude(p, c, a),
         pc[p] \in Early, c.key = call[p].key,
         a \in {"diff", "summary"} => DiffMode,
         VersionOK(file[PathOf[c.key]], c)
  PROVE  ShownInv'
<1>1. /\ Others(p) /\ Same(call'[p], c) /\ call'[p].answer = a
      /\ pc'[p] \in {"append", "emit"} /\ TypeOK
  BY ConcludeShape DEF HookInv
<1>2. FoundVersion(file, pc'[p], call'[p])
  BY <1>1
  DEF FoundVersion, Early, Hashing, SettledSteps, Same, VersionOK, StatOK
<1>3. VersionInv'
  BY <1>1, <1>2, VersionStays DEF ShownInv
<1>4. call[p].answer \notin Passing
  BY DEF ShownInv, VersionInv, FoundVersion, Passing
<1>5. ASSUME NEW r \in released
      PROVE  LET f == file[PathOf[r.key]] IN
             /\ VersionOK(f, r)
             /\ r.mtime = f.mtime => Provided(r.key, r.hash)'
  <2>1. r.key \in Key
    BY <1>1 DEF TypeOK, Release
  <2> QED  BY <1>1, <1>4, <2>1, ProvidedStays DEF ShownInv, ProvidedInv
<1>6. ASSUME a \in Passing, NEW r, r.key = c.key, r.mtime = c.mtime, r.hash = c.hash
      PROVE  LET f == file[PathOf[r.key]] IN
             /\ VersionOK(f, r)
             /\ r.mtime = f.mtime => Provided(r.key, r.hash)'
  <2>1. Provided(c.key, c.hash)'
    BY <1>1, <1>6 DEF Provided, Same
  <2> QED  BY <1>6, <2>1 DEF VersionOK, StatOK
<1>7. \A r \in released' :
        r \in released \/ (/\ a \in Passing /\ r.key = c.key
                           /\ r.mtime = c.mtime /\ r.hash = c.hash)
  BY DEF Conclude
<1>8. ProvidedInv'
  BY <1>5, <1>6, <1>7 DEF ProvidedInv, env
<1> QED  BY <1>3, <1>8 DEF ShownInv

LEMMA HashFileShown ==
  ASSUME Strict, HookInv, ShownInv, NEW p \in Proc, HashFile(p)
  PROVE  ShownInv'
<1> DEFINE c == Hashed(p)
           f == file[PathOf[call[p].key]]
<1>1. /\ pc[p] = "hash" /\ UNCHANGED <<env, held>>
      /\ c \in Call /\ c.key = call[p].key
      /\ c.last = call[p].last /\ c.mtime = call[p].mtime
      /\ c.answer = call[p].answer
      /\ c.hash = IF HashMode /\ f.content # Gone THEN f.content ELSE NoHash
      /\ \/ Conclude(p, c, HitAnswer(c.last, c.now, c.ttl))
         \/ /\ Diffing(c.key) /\ call' = [call EXCEPT ![p] = c]
            /\ Goto(p, "diff") /\ UNCHANGED verdicts
         \/ \E a \in {"miss", "blocked", "changed"} : Conclude(p, c, a)
  BY HashFileShape
<1>2. FoundVersion(file, "hash", call[p])
  BY <1>1 DEF ShownInv, VersionInv
<1>3. VersionOK(f, c)
  BY <1>1, <1>2 DEF Strict, FoundVersion, VersionOK, StatOK
<1>4. pc[p] \in Early
  BY <1>1 DEF Early
<1>5. HitAnswer(c.last, c.now, c.ttl) \notin {"diff", "summary"}
  BY HitAnswers
<1> HIDE DEF c
<1>6. CASE \/ Conclude(p, c, HitAnswer(c.last, c.now, c.ttl))
           \/ \E a \in {"miss", "blocked", "changed"} : Conclude(p, c, a)
  BY <1>1, <1>3, <1>4, <1>5, <1>6, ConcludeShown
<1>7. CASE /\ Diffing(c.key) /\ call' = [call EXCEPT ![p] = c]
           /\ Goto(p, "diff") /\ UNCHANGED verdicts
  <2>1. /\ Others(p) /\ pc'[p] = "diff" /\ call'[p] = c /\ released' = released
        /\ TypeOK
    BY <1>7 DEF HookInv, TypeOK, Goto, Others, verdicts
  <2>2. c.answer = "none" /\ c.answer \notin Passing /\ DiffMode
    BY <1>1, <1>2, <1>7 DEF FoundVersion, Early, Passing, Diffing
  <2>3. FoundVersion(file, "diff", c)
    BY <1>1, <1>3, <2>2 DEF FoundVersion, Early
  <2>4. \A k \in Key : held[k] \subseteq held'[k]
    BY <1>1
  <2> QED  BY <1>1, <2>1, <2>2, <2>3, <2>4, ShownStays
<1> QED  BY <1>1, <1>6, <1>7

LEMMA DiffShown ==
  ASSUME HookInv, ShownInv, NEW p \in Proc, DiffShort(p) \/ Summarize(p)
  PROVE  ShownInv'
<1> DEFINE c == Compared(p)
<1>1. /\ pc[p] \in {"diff", "summary"} /\ UNCHANGED <<env, held>>
      /\ c \in Call /\ Same(c, call[p]) /\ c.answer = call[p].answer
      /\ \E a : Conclude(p, c, a)
  BY DiffShape
<1>2. FoundVersion(file, pc[p], call[p])
  BY DEF ShownInv, VersionInv
<1> HIDE DEF c
<1> QED
  BY <1>1, <1>2, ConcludeShown
  DEF FoundVersion, Same, Early, Hashing, VersionOK, StatOK

LEMMA LookupShown ==
  ASSUME Strict, HookInv, ShownInv, NEW p \in Proc, Lookup(p)
  PROVE  ShownInv'
<1> DEFINE c == [call[p] EXCEPT !.last = LastEntry(log, call[p].key)]
<1>1. /\ UNCHANGED <<env, held>> /\ pc[p] = "lookup"
      /\ c.answer = call[p].answer
      /\ call' = [call EXCEPT ![p] = c] /\ Goto(p, "stat")
      /\ UNCHANGED verdicts
  BY LookupShape DEF Strict
<1> HIDE DEF c
<1>2. /\ Others(p) /\ pc'[p] = "stat" /\ call'[p] = c /\ released' = released
      /\ TypeOK
  BY <1>1 DEF HookInv, TypeOK, Goto, Others, verdicts
<1>3. c.answer = "none" /\ "none" \notin Passing
  BY <1>1 DEF ShownInv, VersionInv, FoundVersion, Early, Passing
<1>4. FoundVersion(file, "stat", c) /\ \A k \in Key : held[k] \subseteq held'[k]
  BY <1>1, <1>3 DEF FoundVersion, Hashing, SettledSteps
<1> QED  BY <1>1, <1>2, <1>3, <1>4, ShownStays

LEMMA QuietShown ==
  ASSUME HookInv, ShownInv, NEW p \in Proc,
         \/ CleanUp(p) \/ ReadTTL(p) \/ DiffUnusable(p) \/ Stat(p)
         \/ AppendEntry(p) \/ CopyRead(p) \/ CopyWrite(p) \/ WriteStats(p)
         \/ \E k \in Key : Begin(p, k)
  PROVE  ShownInv'
<1>1. TypeOK /\ FoundVersion(file, pc[p], call[p])
  BY DEF HookInv, ShownInv, VersionInv
<1>2. UNCHANGED <<env, released, held>> /\ Others(p)
  BY <1>1, EarlyShape, StatShape, RecordShape, BeginShape DEF verdicts
<1>3. \A k \in Key : held[k] \subseteq held'[k]
  BY <1>2
<1>4. "none" \notin Passing
  BY DEF Passing
<1>5. CASE CleanUp(p) \/ ReadTTL(p) \/ DiffUnusable(p)
  <2>1. FoundVersion(file, pc'[p], call'[p])
    BY <1>1, <1>5, EarlyShape
    DEF FoundVersion, Same, Early, Hashing, SettledSteps, VersionOK, StatOK
  <2>2. call[p].answer \notin Passing
    BY <1>1, <1>4, <1>5, EarlyShape DEF FoundVersion, Early
  <2> QED  BY <1>1, <1>2, <1>3, <2>1, <2>2, ShownStays
<1>6. CASE Stat(p)
  <2>1. call[p].answer = "none"
    BY <1>1, <1>6, StatShape DEF FoundVersion, Early
  <2>2. PathOf[call[p].key] \in Path
    BY <1>1, HookAssumption DEF TypeOK, Call
  <2>3. file[PathOf[call[p].key]].mtime \in Nat
    BY <1>1, <2>2 DEF TypeOK, File
  <2>4. FoundVersion(file, pc'[p], call'[p])
    BY <1>1, <1>6, <2>1, <2>3, StatShape
    DEF FoundVersion, Early, Hashing, SettledSteps, StatOK
  <2> QED  BY <1>1, <1>2, <1>3, <1>4, <2>1, <2>4, ShownStays
<1>7. CASE AppendEntry(p) \/ CopyRead(p) \/ CopyWrite(p) \/ WriteStats(p)
  <2>1. FoundVersion(file, pc'[p], call'[p])
    BY <1>1, <1>7, RecordShape
    DEF FoundVersion, Same, Early, Hashing, SettledSteps, Recording, VersionOK,
        StatOK
  <2>2. Same(call'[p], call[p]) /\ call'[p].answer = call[p].answer
    BY <1>1, <1>7, RecordShape
  <2> QED  BY <1>1, <1>2, <1>3, <2>1, <2>2, ShownStays
<1>8. CASE \E k \in Key : Begin(p, k)
  <2>1. call[p].answer = "none"
    BY <1>1, <1>8, BeginShape DEF FoundVersion, Early
  <2>2. FoundVersion(file, pc'[p], call'[p])
    BY <1>1, <1>8, BeginShape DEF FoundVersion, Hashing, SettledSteps
  <2> QED  BY <1>1, <1>2, <1>3, <1>4, <2>1, <2>2, ShownStays
<1> QED  BY <1>5, <1>6, <1>7, <1>8

(* The hook refuses no call whose verdict let it pass, and what a killed   *)
(* hook found stands until its tool has run.                               *)
LEMMA EmitShown ==
  ASSUME Strict, HookInv, ShownInv, NEW p \in Proc, Emit(p) \/ Crash(p)
  PROVE  ShownInv'
<1>1. TypeOK /\ FoundVersion(file, pc[p], call[p]) /\ call[p] \in Call
  BY DEF HookInv, TypeOK, ShownInv, VersionInv
<1>2. /\ Others(p) /\ UNCHANGED <<env, released>>
      /\ \/ pc'[p] = "tool" /\ call'[p] = call[p]
         \/ pc'[p] = "idle" /\ call'[p] = NoCall(call[p].key)
  BY <1>1, EndShape DEF verdicts
<1>3. \A k \in Key : held[k] \subseteq held'[k]
  <2>1. PICK k \in Key : k = call[p].key
    BY <1>1 DEF Call
  <2>2. held' = held \/ held' = [held EXCEPT ![k] = @ \cup Learned(call[p])]
    BY <2>1 DEF Emit, Crash
  <2>3. held \in [Key -> SUBSET Content]
    BY <1>1 DEF TypeOK
  <2> QED  BY <2>2, <2>3
<1>4. FoundVersion(file, pc'[p], call'[p])
  <2>1. NoCall(call[p].key).answer = "none"
    BY DEF NoCall
  <2> QED  BY <1>1, <1>2, <2>1 DEF FoundVersion, Early, Hashing, SettledSteps
<1>5. call[p].answer \in Passing => call'[p] = call[p]
  <2> SUFFICES ASSUME call[p].answer \in Passing PROVE ~Blocked(call[p]) \/ Crash(p)
    BY <1>1 DEF Emit, Crash
  <2>1. call[p].answer \in {"diff", "summary"} => DiffMode
    BY <1>1 DEF FoundVersion
  <2>2. Blocked(call[p]) =>
          call[p].answer \in {"diff", "summary"} /\ ChangedMode = "deny"
            /\ Client # "opencode"
    BY DEF Passing, Blocked, Refused, ModeOf
  <2> QED  BY <2>1, <2>2 DEF Strict
<1>6. Same(call[p], call[p])
  BY DEF Same
<1> QED  BY <1>1, <1>2, <1>3, <1>4, <1>5, <1>6, ShownStays

(* The tool shows the file as it is: if that is still the version that the *)
(* verdict let pass, this version is held from now on.                     *)
LEMMA ToolShown ==
  ASSUME Strict, HookInv, ShownInv, NEW p \in Proc, RunTool(p)
  PROVE  ShownInv'
<1> DEFINE f == file[PathOf[call[p].key]].content
<1>1. /\ TypeOK /\ call[p] \in Call /\ call[p].key \in Key
      /\ Others(p) /\ UNCHANGED <<env, released>>
      /\ pc'[p] \in {"tool", "idle"}
      /\ \/ pc'[p] = "tool" /\ call'[p] = call[p]
         \/ call'[p] = NoCall(call[p].key)
  BY EndShape DEF HookInv, TypeOK, Call, verdicts
<1>3. held' = [held EXCEPT ![call[p].key] = IF f = Gone THEN @ ELSE @ \cup {f}]
  BY DEF RunTool
<1>4. /\ \A k \in Key : held[k] \subseteq held'[k]
      /\ f # Gone => f \in held'[call[p].key]
  BY <1>1, <1>3 DEF TypeOK
<1>5. FoundVersion(file, pc'[p], call'[p])
  <2>1. NoCall(call[p].key).answer = "none"
    BY DEF NoCall
  <2>2. FoundVersion(file, pc[p], call[p])
    BY DEF ShownInv, VersionInv
  <2> QED  BY <1>1, <2>1, <2>2 DEF FoundVersion, Early, Hashing, SettledSteps
<1>6. VersionInv'
  BY <1>1, <1>5, VersionStays DEF ShownInv
<1>7. ASSUME NEW r \in released
      PROVE  LET g == file[PathOf[r.key]] IN
             /\ VersionOK(g, r)
             /\ r.mtime = g.mtime => Provided(r.key, r.hash)'
  <2> DEFINE g == file[PathOf[r.key]]
  <2>1. r.key \in Key
    BY <1>1 DEF TypeOK, Release
  <2>2. /\ VersionOK(g, r)
        /\ r.mtime = g.mtime => Provided(r.key, r.hash)
    BY DEF ShownInv, ProvidedInv
  <2>3. ASSUME r.mtime = g.mtime PROVE Provided(r.key, r.hash)'
    <3>1. call[p].key = r.key => r.hash \in held'[r.key]
      BY <1>4, <2>2, <2>3 DEF VersionOK, StatOK
    <3> QED  BY <1>1, <1>4, <2>1, <2>2, <2>3, <3>1, ProvidedStays
  <2> QED  BY <2>2, <2>3
<1> QED  BY <1>1, <1>6, <1>7 DEF ShownInv, ProvidedInv, env

(* A change of a file makes its mtime greater than that of every version   *)
(* that was found or given before.                                         *)
LEMMA EditShown ==
  ASSUME Strict, HookInv, ShownInv,
         NEW q \in Path, NEW c \in Content \cup {Gone}, Edit(q, c)
  PROVE  ShownInv'
<1>1. /\ file' = [file EXCEPT ![q] = [content |-> c, mtime |-> clock]]
      /\ file[q].mtime < clock
      /\ UNCHANGED <<pc, call, held, released>>
  BY DEF Edit, Strict, verdicts
<1>2. TypeOK /\ clock \in Nat
  BY DEF HookInv, TypeOK
<1>3. \A x \in Path :
        /\ file[x].mtime \in Nat /\ file'[x].mtime \in Nat
        /\ file'[x] # file[x] => file[x].mtime < file'[x].mtime
  BY <1>1, <1>2 DEF TypeOK, File
<1>4. ASSUME NEW p \in Proc PROVE FoundVersion(file', pc[p], call[p])
  <2>1. FoundVersion(file, pc[p], call[p])
    BY DEF ShownInv, VersionInv
  <2>2. PathOf[call[p].key] \in Path /\ call[p].mtime \in Mtime
    BY <1>2, HookAssumption DEF TypeOK, Call
  <2> QED
    BY <1>3, <2>1, <2>2 DEF FoundVersion, VersionOK, StatOK, Mtime, Cleared
<1>5. ASSUME NEW r \in released
      PROVE  LET f == file'[PathOf[r.key]] IN
             /\ VersionOK(f, r)
             /\ r.mtime = f.mtime => Provided(r.key, r.hash)
  <2>1. PathOf[r.key] \in Path /\ r.mtime \in Mtime
    BY <1>2, HookAssumption DEF TypeOK, Release
  <2>2. LET f == file[PathOf[r.key]] IN
        /\ VersionOK(f, r)
        /\ r.mtime = f.mtime => Provided(r.key, r.hash)
    BY DEF ShownInv, ProvidedInv
  <2>3. CASE file'[PathOf[r.key]] = file[PathOf[r.key]]
    BY <2>2, <2>3
  <2>4. CASE file'[PathOf[r.key]] # file[PathOf[r.key]]
    BY <1>3, <2>1, <2>2, <2>4 DEF VersionOK, StatOK, Mtime, Cleared
  <2> QED  BY <2>3, <2>4
<1> QED  BY <1>1, <1>4, <1>5 DEF ShownInv, VersionInv, ProvidedInv, Provided

LEMMA ShownNext ==
  ASSUME Strict, HookInv, ShownInv, [Next]_vars
  PROVE  ShownInv'
<1>1. CASE \/ UNCHANGED vars \/ ClearSessions \/ Tick
           \/ \E q \in Path : ClearFile(q)
  <2>1. UNCHANGED <<pc, call, held, released, file>>
    BY <1>1
    DEF vars, ClearSessions, Tick, ClearFile, env, verdicts
  <2> QED  BY <2>1 DEF ShownInv, VersionInv, ProvidedInv, Provided
<1>2. CASE \E q \in Path, c \in Content \cup {Gone} : Edit(q, c)
  BY <1>2, EditShown
<1>3. CASE \E p \in Proc : HookStep(p)
  BY <1>3, QuietShown, LookupShown, HashFileShown, DiffShown, EmitShown
  DEF HookStep
<1>4. CASE \E p \in Proc : RunTool(p) \/ RejectTool(p) \/ Crash(p)
  BY <1>4, ToolShown, EmitShown DEF Strict, RejectTool
<1>5. CASE \E p \in Proc, k \in Key : Begin(p, k)
  BY <1>5, QuietShown
<1> QED  BY <1>1, <1>2, <1>3, <1>4, <1>5 DEF Next

LEMMA ShownInit == Init => ShownInv
<1> SUFFICES ASSUME Init PROVE VersionInv /\ ProvidedInv
  BY DEF ShownInv
<1>1. ASSUME NEW p \in Proc PROVE FoundVersion(file, pc[p], call[p])
  <2>1. call[p].answer = "none" /\ pc[p] = "idle"
    BY DEF Init, NoCall
  <2> QED  BY <2>1 DEF FoundVersion, Hashing, SettledSteps
<1>2. ProvidedInv
  BY DEF Init, ProvidedInv
<1> QED  BY <1>1, <1>2 DEF VersionInv

(* A refusal says "already in context", and it is true: the agent was      *)
(* shown the content, or is about to be by a call whose tool has not run   *)
(* yet, or the file was changed after the process started.                 *)
THEOREM HookRefusedIsHeld ==
  ASSUME Strict
  PROVE  Spec => []RefusedIsHeld
<1>1. HookInv /\ FreshInv /\ [Next]_vars => FreshInv'
  BY FreshNext DEF Strict
<1>2. HookInv /\ ShownInv /\ [Next]_vars => ShownInv'
  BY ShownNext
<1>3. HookInv /\ ReadInv /\ FreshInv /\ ShownInv => RefusedIsHeld
  <2> SUFFICES ASSUME HookInv, ReadInv, FreshInv, ShownInv, NEW p \in Proc,
                      pc[p] = "emit", call[p].answer = "hit"
               PROVE  LET f == file[PathOf[call[p].key]] IN
                      \/ Provided(call[p].key, call[p].hash)
                      \/ f.mtime >= call[p].now
    BY DEF RefusedIsHeld, Answers, Provided
  <2>1. SettledOK(Words, call[p]) /\ FreshOK(clock, file, "emit", call[p])
    BY DEF HookInv, CallInv, CallOK, FreshInv, SettledSteps
  <2>2. PICK r \in released : r.key = call[p].key /\ r.mtime = call[p].mtime
    BY <2>1, WordIsBacked DEF SettledOK, ReadInv, Backed
  <2>3. LET f == file[PathOf[r.key]] IN
        r.mtime = f.mtime => r.hash = f.content /\ Provided(r.key, r.hash)
    BY DEF ShownInv, ProvidedInv, VersionOK
  <2>4. VersionOK(file[PathOf[call[p].key]], call[p])
    BY DEF ShownInv, VersionInv, FoundVersion, Hashing, SettledSteps
  <2> QED  BY <2>1, <2>2, <2>3, <2>4 DEF FreshOK, SettledSteps, VersionOK
<1>4. HookInv /\ ReadInv /\ [Next]_vars => ReadInv'
  BY ReadNext DEF Strict, Dated
<1> QED
  BY <1>1, <1>2, <1>3, <1>4, ReadInit, FreshInit, ShownInit, HookInvariant, PTL
  DEF Spec

-----------------------------------------------------------------------------
(* The clock stays within its bounds, and so do the times of the calls.    *)
ClockInv ==
  /\ StartClock <= clock /\ clock <= MaxClock
  /\ \A p \in Proc : pc[p] # "idle" => StartClock <= call[p].now

LEMMA ClockStays ==
  ASSUME ClockInv, UNCHANGED clock, NEW p \in Proc, Others(p),
         pc'[p] # "idle" => StartClock <= call'[p].now
  PROVE  ClockInv'
<1>1. \A q \in Proc : pc'[q] # "idle" => StartClock <= call'[q].now
  BY DEF ClockInv, Others
<1> QED  BY <1>1 DEF ClockInv

LEMMA ClockNext ==
  ASSUME HookInv, ClockInv, [Next]_vars
  PROVE  ClockInv'
<1>1. TypeOK /\ StartClock <= clock
  BY DEF HookInv, ClockInv
<1>2. CASE \/ UNCHANGED vars \/ ClearSessions
           \/ \E q \in Path : ClearFile(q)
           \/ \E q \in Path, c \in Content \cup {Gone} : Edit(q, c)
  BY <1>2 DEF ClockInv, vars, env, verdicts, ClearSessions, ClearFile, Edit
<1>3. CASE Tick
  <2>1. clock' = clock + 1 /\ clock < MaxClock /\ UNCHANGED <<pc, call>>
    BY <1>3 DEF Tick
  <2>2. {clock, StartClock, MaxClock} \subseteq Nat
    BY <1>1, HookAssumption DEF TypeOK
  <2> QED  BY <2>1, <2>2 DEF ClockInv
<1>4. ASSUME NEW p \in Proc, HookStep(p) \/ RunTool(p) \/ RejectTool(p) \/ Crash(p)
      PROVE  ClockInv'
  <2>1. pc[p] # "idle"
    BY <1>4
    DEF HookStep, CleanUp, ReadTTL, Lookup, Stat, HashFile, DiffShort,
        DiffUnusable, Summarize, AppendEntry, CopyRead, CopyWrite, WriteStats,
        Emit, RunTool, RejectTool, Crash
  <2>2. StartClock <= call[p].now
    BY <2>1 DEF ClockInv
  <2>3. ASSUME NEW c \in Call, NEW a, Conclude(p, c, a), UNCHANGED env,
               c.now = call[p].now
        PROVE  ClockInv'
    <3>1. Others(p) /\ Same(call'[p], c)
      BY <1>1, <2>3, ConcludeShape
    <3> QED  BY <2>2, <2>3, <3>1, ClockStays DEF Same, env
  <2>4. ASSUME NEW c, call' = [call EXCEPT ![p] = c], UNCHANGED env,
               NEW s, Goto(p, s), c.now = call[p].now
        PROVE  ClockInv'
    <3>1. Others(p) /\ call'[p] = c
      BY <1>1, <2>4 DEF TypeOK, Goto, Others
    <3> QED  BY <2>2, <2>4, <3>1, ClockStays DEF env
  <2>5. CASE CleanUp(p) \/ ReadTTL(p) \/ DiffUnusable(p)
    BY <1>1, <2>2, <2>5, EarlyShape, ClockStays DEF Same, env
  <2>6. CASE Lookup(p)
    <3> DEFINE e == LastEntry(log, call[p].key)
               c == [call[p] EXCEPT !.last = e]
               d == [c EXCEPT !.mtime = e.mtime]
    <3>1. /\ UNCHANGED env /\ c.now = call[p].now
          /\ \/ /\ d \in Call /\ d.now = c.now
                /\ Conclude(p, d, HitAnswer(e, d.now, d.ttl))
             \/ call' = [call EXCEPT ![p] = c] /\ Goto(p, "stat")
      BY <2>6, LookupShape
    <3> HIDE DEF e, c, d
    <3> QED  BY <2>3, <2>4, <3>1
  <2>7. CASE Stat(p)
    BY <1>1, <2>2, <2>7, StatShape, ClockStays DEF env
  <2>8. CASE HashFile(p)
    BY <2>3, <2>4, <2>8, HashFileShape
  <2>9. CASE DiffShort(p) \/ Summarize(p)
    BY <2>3, <2>9, DiffShape DEF Same
  <2>10. CASE AppendEntry(p) \/ CopyRead(p) \/ CopyWrite(p) \/ WriteStats(p)
    BY <1>1, <2>2, <2>10, RecordShape, ClockStays DEF Same, env
  <2>11. CASE Emit(p) \/ RunTool(p) \/ RejectTool(p) \/ Crash(p)
    BY <1>1, <2>2, <2>11, EndShape, ClockStays DEF env
  <2> QED
    BY <1>4, <2>5, <2>6, <2>7, <2>8, <2>9, <2>10, <2>11 DEF HookStep
<1>5. ASSUME NEW p \in Proc, NEW k \in Key, Begin(p, k) PROVE ClockInv'
  BY <1>1, <1>5, BeginShape, ClockStays DEF env
<1> QED  BY <1>2, <1>3, <1>4, <1>5 DEF Next

LEMMA ClockInit == Init => ClockInv
  BY HookAssumption DEF Init, ClockInv

(* What is left of the faults and of the clears never becomes more.        *)
BudgetInv ==
  budget["faults"] <= MaxFaults /\ budget["clears"] <= MaxClears

LEMMA SpendLess ==
  ASSUME TypeOK, NEW what \in {"calls", "edits", "faults", "clears"}, Spend(what)
  PROVE  /\ budget'["faults"] <= budget["faults"]
         /\ budget'["clears"] <= budget["clears"]
         /\ budget'[what] < budget[what]
<1>1. \A w \in {"calls", "edits", "faults", "clears"} : budget[w] \in Nat
  BY DEF TypeOK
<1>2. budget' = [budget EXCEPT ![what] = budget[what] - 1]
  BY DEF Spend
<1> QED  BY <1>1, <1>2 DEF TypeOK

LEMMA BudgetShrinks ==
  ASSUME TypeOK, [Next]_vars
  PROVE  /\ budget'["faults"] <= budget["faults"]
         /\ budget'["clears"] <= budget["clears"]
<1>1. budget["faults"] \in Nat /\ budget["clears"] \in Nat
  BY DEF TypeOK
<1>2. \/ budget' = budget
      \/ \E what \in {"calls", "edits", "faults", "clears"} : Spend(what)
  BY DEF vars, Next, HookStep, CleanUp, ReadTTL, Lookup, Stat, HashFile,
         DiffShort, DiffUnusable, Summarize, AppendEntry, CopyRead, CopyWrite,
         WriteStats, Emit, RunTool, RejectTool, Crash, Begin, ClearSessions,
         Tick, ClearFile, Edit
<1> QED  BY <1>1, <1>2, SpendLess

LEMMA BudgetNext ==
  ASSUME TypeOK, TypeOK', BudgetInv, [Next]_vars
  PROVE  BudgetInv'
<1>1. /\ budget["faults"] \in Nat /\ budget["clears"] \in Nat
      /\ budget'["faults"] \in Nat /\ budget'["clears"] \in Nat
      /\ MaxFaults \in Nat /\ MaxClears \in Nat
  BY HookAssumption DEF TypeOK
<1> QED  BY <1>1, BudgetShrinks DEF BudgetInv

LEMMA BudgetInit == Init => BudgetInv
  BY HookAssumption DEF Init, BudgetInv

-----------------------------------------------------------------------------
(* What readLastCacheEntry finds after an append, and after tombstones.    *)
LEMMA LastEntrySame ==
  ASSUME NEW l, NEW m, NEW k, UsableAt(m, k) = UsableAt(l, k),
         \A i \in UsableAt(l, k) : m[i] = l[i],
         UsableAt(l, k) # {} => LastIndex(l, k) \in UsableAt(l, k)
  PROVE  LastEntry(m, k) = LastEntry(l, k)
<1>1. LastIndex(m, k) = LastIndex(l, k)
  BY DEF LastIndex
<1> QED  BY <1>1 DEF LastEntry

LEMMA LastIndexUsable ==
  ASSUME NEW l \in Seq(Entry), NEW k \in Key, UsableAt(l, k) # {}
  PROVE  /\ LastIndex(l, k) \in UsableAt(l, k)
         /\ \A j \in UsableAt(l, k) : j <= LastIndex(l, k)
<1>1. Len(l) \in Nat /\ UsableAt(l, k) \in SUBSET (1 .. Len(l))
  BY DEF UsableAt
<1>2. \E i \in UsableAt(l, k) : \A j \in UsableAt(l, k) : j <= i
  BY <1>1, GreatestNatural
<1> QED  BY <1>2 DEF LastIndex

LEMMA LastEntryAppended ==
  ASSUME NEW l \in Seq(Entry), NEW e \in Entry, e.ts > 0, NEW k \in Key
  PROVE  LastEntry(Append(l, e), k) = IF e.key = k THEN e ELSE LastEntry(l, k)
<1> DEFINE m == Append(l, e)
<1>1. /\ m \in Seq(Entry) /\ Len(l) \in Nat /\ Len(m) = Len(l) + 1
      /\ DOMAIN l = 1 .. Len(l) /\ DOMAIN m = 1 .. Len(l) + 1
      /\ m[Len(l) + 1] = e /\ \A i \in DOMAIN l : m[i] = l[i]
  OBVIOUS
<1> HIDE DEF m
<1>2. CASE e.key = k
  <2>1. Len(l) + 1 \in UsableAt(m, k)
    BY <1>1, <1>2 DEF UsableAt, Usable
  <2>2. /\ LastIndex(m, k) \in UsableAt(m, k)
        /\ Len(l) + 1 <= LastIndex(m, k)
    BY <1>1, <2>1, LastIndexUsable
  <2>3. LastIndex(m, k) \in 1 .. Len(l) + 1
    BY <1>1, <2>2 DEF UsableAt
  <2>4. LastIndex(m, k) = Len(l) + 1
    BY <1>1, <2>2, <2>3
  <2> QED  BY <1>1, <1>2, <2>1, <2>4 DEF LastEntry, m
<1>3. CASE e.key # k
  <2>1. UsableAt(m, k) = UsableAt(l, k) /\ \A i \in UsableAt(l, k) : m[i] = l[i]
    BY <1>1, <1>3 DEF UsableAt, Usable
  <2>2. LastEntry(m, k) = LastEntry(l, k)
    BY <2>1, LastEntrySame, LastIndexUsable
  <2> QED  BY <1>3, <2>2 DEF m
<1> QED  BY <1>2, <1>3

LEMMA LastEntryCleared ==
  ASSUME NEW l \in Seq(Entry), NEW s \in Seq(Entry),
         \A i \in DOMAIN s : s[i].ts = 0, NEW k \in Key
  PROVE  LastEntry(l \o s, k) = LastEntry(l, k)
<1> DEFINE m == l \o s
<1>1. /\ m \in Seq(Entry) /\ Len(l) \in Nat /\ Len(s) \in Nat
      /\ DOMAIN l = 1 .. Len(l) /\ DOMAIN s = 1 .. Len(s)
      /\ DOMAIN m = 1 .. Len(l) + Len(s)
      /\ \A i \in DOMAIN l : m[i] = l[i]
      /\ \A i \in DOMAIN m : i \notin DOMAIN l => m[i] = s[i - Len(l)]
  OBVIOUS
<1> HIDE DEF m
<1>2. \A i \in DOMAIN m : i \notin DOMAIN l => m[i].ts = 0
  <2> SUFFICES ASSUME NEW i \in DOMAIN m, i \notin DOMAIN l PROVE m[i].ts = 0
    OBVIOUS
  <2>1. i - Len(l) \in DOMAIN s /\ m[i] = s[i - Len(l)]
    BY <1>1
  <2> QED  BY <2>1
<1>3. UsableAt(m, k) = UsableAt(l, k) /\ \A i \in UsableAt(l, k) : m[i] = l[i]
  BY <1>1, <1>2 DEF UsableAt, Usable
<1>4. LastEntry(m, k) = LastEntry(l, k)
  BY <1>3, LastEntrySame, LastIndexUsable
<1> QED  BY <1>4 DEF m

-----------------------------------------------------------------------------
(***************************************************************************)
(* An agent that insists gets the file.  With one call after the other,    *)
(* the entry that the next call will find counts the refusals that follow  *)
(* each other, if it is at least as recent as the last of them.  A refusal *)
(* whose entry was lost sets this count back, and lets the agent be        *)
(* refused AutoAllow - 1 times more: that is what Spare allows for.        *)
(***************************************************************************)
Alone == \A p, q \in Proc : p = q

Spare == (AutoAllow - 1) * Faults

StreakOK(x, s, e) ==
  s.n > 0 /\ e # NoEntry =>
    s.n <= x + (IF s.at <= e.lastAttempt THEN e.attempts ELSE 0)

Bounded == \A k \in Key : streak[k].n <= Spare + (AutoAllow - 1)

LogStreak ==
  \A k \in Key :
    (\A p \in Proc : ~(pc[p] = "append" /\ call[p].key = k))
      => StreakOK(Spare, streak[k], LastEntry(log, k))

Looking == {"stat", "hash", "diff", "summary"}

CallStreak ==
  \A p \in Proc :
    LET s == streak[call[p].key] IN
    /\ pc[p] = "append" => StreakOK(Spare, s, NewEntry(call[p]))
    /\ pc[p] \in Looking => StreakOK(Spare, s, call[p].last)

StreakInv == Bounded /\ LogStreak /\ CallStreak

(* What Spare is, and what a step may do to it.                            *)
SpareGrows == Spare \in Nat /\ Spare' \in Nat /\ Spare <= Spare'

SpareKept == Spare \in Nat /\ Spare' = Spare

LEMMA SpareType ==
  ASSUME TypeOK, BudgetInv, AutoAllow > 0
  PROVE  Faults \in Nat /\ Spare \in Nat /\ AutoAllow - 1 \in Nat
<1>1. Faults \in Nat
  BY HookAssumption DEF TypeOK, BudgetInv, Faults
<1>2. AutoAllow - 1 \in Nat
  BY PolicyAssumption
<1>3. \A a, f \in Nat : a * f \in Nat
  OBVIOUS
<1> HIDE DEF Faults
<1> QED  BY <1>1, <1>2, <1>3 DEF Spare

LEMMA SpareStep ==
  ASSUME TypeOK, TypeOK', BudgetInv, BudgetInv', AutoAllow > 0, [Next]_vars
  PROVE  /\ SpareGrows
         /\ budget'["faults"] = budget["faults"] => SpareKept
         /\ Spend("faults") => Spare' = Spare + (AutoAllow - 1)
<1>1. /\ Faults \in Nat /\ Spare \in Nat /\ AutoAllow - 1 \in Nat
      /\ Faults' \in Nat /\ Spare' \in Nat
  <2>1. Faults' \in Nat /\ Spare' \in Nat
    <3>1. Faults' \in Nat
      <4>1. budget'["faults"] \in Nat /\ budget'["faults"] <= MaxFaults
        BY DEF TypeOK, BudgetInv
      <4>2. MaxFaults \in Nat
        BY HookAssumption
      <4> QED  BY <4>1, <4>2 DEF Faults
    <3>2. AutoAllow - 1 \in Nat
      BY PolicyAssumption
    <3>3. \A a, f \in Nat : a * f \in Nat
      OBVIOUS
    <3>4. Spare' = (AutoAllow - 1) * Faults'
      BY DEF Spare
    <3> HIDE DEF Faults
    <3> QED  BY <3>1, <3>2, <3>3, <3>4
  <2> QED  BY <2>1, SpareType
<1>2. /\ budget["faults"] \in Nat /\ budget'["faults"] \in Nat
      /\ MaxFaults \in Nat
  BY HookAssumption DEF TypeOK
<1>3. Faults <= Faults' /\ (budget'["faults"] = budget["faults"] => Faults' = Faults)
  BY <1>2, BudgetShrinks DEF Faults
<1>4. Spend("faults") => Faults' = Faults + 1
  BY <1>2 DEF Spend, Faults, TypeOK
<1>5. Spare = (AutoAllow - 1) * Faults /\ Spare' = (AutoAllow - 1) * Faults'
  BY DEF Spare
<1>6. \A a, f, g \in Nat : f <= g => a * f <= a * g
  OBVIOUS
<1>7. \A a, f \in Nat : a * (f + 1) = a * f + a
  OBVIOUS
<1> HIDE DEF Faults, Spare
<1>8. Spare <= Spare'
  BY <1>1, <1>3, <1>5, <1>6
<1>9. Spend("faults") => Spare' = Spare + (AutoAllow - 1)
  BY <1>1, <1>4, <1>5, <1>7
<1>10. budget'["faults"] = budget["faults"] => Spare' = Spare
  BY <1>3, <1>5
<1> QED  BY <1>1, <1>8, <1>9, <1>10 DEF SpareGrows, SpareKept

LEMMA StreakOKStays ==
  ASSUME NEW x \in Nat, NEW y \in Nat, x <= y,
         NEW s \in [n : Nat, at : Nat], NEW e \in Entry \cup {NoEntry},
         StreakOK(x, s, e)
  PROVE  StreakOK(y, s, e)
<1>1. s.n \in Nat /\ (e # NoEntry => e.attempts \in Nat)
  BY DEF Entry
<1> QED  BY <1>1 DEF StreakOK

(* The refusal counts for one more attempt than those before it.           *)
LEMMA HitStreak ==
  ASSUME TypeOK, NEW x \in Nat, AutoAllow > 0,
         NEW k \in Key, NEW c \in Call, c.last # NoEntry,
         StreakOK(x, streak[k], c.last), HitAnswer(c.last, c.now, c.ttl) = "hit"
  PROVE  LET s == Streak(k, c, "hit") IN
         /\ s.n <= x + Attempts(c.last, c.now) /\ s.at = c.now
         /\ s.n <= x + (AutoAllow - 1)
<1> DEFINE e == c.last
           n == streak[k].n
           at == streak[k].at
<1>1. n \in Nat /\ at \in Nat
  BY DEF TypeOK
<1>2. e.lastAttempt \in Nat /\ e.attempts \in Nat /\ c.now \in Nat
  BY DEF Call, Entry
<1>3. n > 0 => n <= x + (IF at <= e.lastAttempt THEN e.attempts ELSE 0)
  BY DEF StreakOK
<1>4. ~LetThrough(e, c.now)
  BY DEF HitAnswer
<1>5. /\ Streak(k, c, "hit").n = IF c.now - at <= Decay THEN n + 1 ELSE 1
      /\ Streak(k, c, "hit").at = c.now
  BY DEF Streak
<1>6. Attempts(e, c.now) =
        IF c.now - e.lastAttempt <= Decay THEN e.attempts + 1 ELSE 1
  BY DEF Attempts
<1> HIDE DEF e, n, at
<1>7. Streak(k, c, "hit").n <= x + Attempts(e, c.now)
  BY <1>1, <1>2, <1>3, <1>5, <1>6, PolicyAssumption
<1>8. Streak(k, c, "hit").n \in Nat /\ Attempts(e, c.now) \in Nat
  BY <1>1, <1>2, <1>5, <1>6
<1> QED
  BY <1>4, <1>5, <1>7, <1>8, PolicyAssumption DEF LetThrough, e

LEMMA ConcludeStreak ==
  ASSUME Alone, AutoAllow > 0, TypeOK, StreakInv, SpareKept,
         NEW p \in Proc, NEW c \in Call, NEW a,
         Conclude(p, c, a), UNCHANGED cache, pc[p] # "append",
         StreakOK(Spare, streak[c.key], c.last),
         \/ c.last # NoEntry /\ a = HitAnswer(c.last, c.now, c.ttl)
         \/ a \in Passing \cup {"blocked"}
  PROVE  StreakInv'
<1> DEFINE k == c.key
           s == Streak(k, c, a)
           x == Spare
<1>1. /\ Same(call'[p], c) /\ call'[p].answer = a
      /\ pc'[p] = IF a = "blocked" THEN "emit" ELSE "append"
  BY ConcludeShape
<1>2. k \in Key /\ streak' = [streak EXCEPT ![k] = s]
  BY DEF Conclude, Call
<1>3. /\ streak'[k] = s /\ \A j \in Key \ {k} : streak'[j] = streak[j]
      /\ x \in Nat /\ Spare' = x
  BY <1>2 DEF TypeOK, SpareKept
<1>4. a = "hit" => c.last # NoEntry /\ HitAnswer(c.last, c.now, c.ttl) = "hit"
  BY DEF Passing
<1>5. a # "hit" => s = [n |-> 0, at |-> 0] \/ (a = "blocked" /\ s = streak[k])
  <2>1. HitAnswer(c.last, c.now, c.ttl) \in Passing \cup {"hit"}
    BY HitAnswers DEF Passing
  <2> QED  BY <2>1 DEF Streak, Passing
<1>6. a = "hit" =>
        /\ s.n <= x + Attempts(c.last, c.now) /\ s.at = c.now
        /\ s.n <= x + (AutoAllow - 1)
  BY <1>2, <1>3, <1>4, HitStreak
<1>7. \A j \in Key : streak[j].n <= x + (AutoAllow - 1)
  BY DEF StreakInv, Bounded
<1>8. \A j \in Key : StreakOK(x, streak[j], LastEntry(log, j))
  BY DEF Alone, StreakInv, LogStreak
<1> HIDE DEF k, s, x
<1>9. Bounded'
  <2>1. s.n <= x + (AutoAllow - 1)
    BY <1>2, <1>3, <1>5, <1>6, <1>7, PolicyAssumption
  <2> QED  BY <1>3, <1>7, <2>1 DEF Bounded
<1>10. LogStreak'
  <2> SUFFICES ASSUME NEW j \in Key, ~(pc'[p] = "append" /\ call'[p].key = j)
               PROVE  StreakOK(x, streak'[j], LastEntry(log, j))
    BY <1>3 DEF LogStreak, cache
  <2>1. CASE j # k
    BY <1>3, <1>8, <2>1
  <2>2. CASE j = k
    BY <1>1, <1>3, <1>5, <1>8, <2>2 DEF Same, StreakOK, k
  <2> QED  BY <2>1, <2>2
<1>11. CallStreak'
  <2> SUFFICES ASSUME a # "blocked"
               PROVE  StreakOK(x, streak'[k], NewEntry(call'[p]))
    BY <1>1, <1>3 DEF Alone, CallStreak, Looking, Same, k
  <2>1. CASE a = "hit"
    <3>1. /\ NewEntry(call'[p]).attempts = Attempts(c.last, c.now)
          /\ NewEntry(call'[p]).lastAttempt = c.now
      BY <1>1, <2>1 DEF NewEntry, Same
    <3>2. c.now \in Nat
      BY DEF Call
    <3> QED  BY <1>3, <1>6, <2>1, <3>1, <3>2 DEF StreakOK
  <2>2. CASE a # "hit"
    BY <1>3, <1>5, <2>2 DEF StreakOK
  <2> QED  BY <2>1, <2>2
<1> QED  BY <1>9, <1>10, <1>11 DEF StreakInv

(* Steps that give no verdict and record none: the log only loses entries. *)
LogKept ==
  \A k \in Key : LastEntry(log', k) \in {LastEntry(log, k), NoEntry}

LEMMA EntryFound ==
  ASSUME TypeOK, NEW k \in Key
  PROVE  LastEntry(log, k) \in Entry \cup {NoEntry}
<1>1. log \in Seq(Entry)
  BY DEF TypeOK
<1> QED  BY <1>1, LastEntryIsLast

LEMMA BoundedStays ==
  ASSUME TypeOK, AutoAllow > 0, Bounded, SpareGrows, streak' = streak
  PROVE  Bounded'
<1> SUFFICES ASSUME NEW k \in Key
             PROVE  streak[k].n <= Spare' + (AutoAllow - 1)
  BY DEF Bounded
<1>1. streak[k].n <= Spare + (AutoAllow - 1) /\ streak[k].n \in Nat
  BY DEF Bounded, TypeOK
<1> QED  BY <1>1, PolicyAssumption DEF SpareGrows

(* The log stays in step with the streaks: of the key of an entry that is  *)
(* lost while it is recorded, Bounded tells enough.                        *)
LEMMA LogStreakStays ==
  ASSUME TypeOK, AutoAllow > 0, StreakInv, SpareGrows, LogKept,
         streak' = streak,
         \A k \in Key :
           \/ \A p \in Proc : ~(pc[p] = "append" /\ call[p].key = k)
           \/ \E p \in Proc : pc'[p] = "append" /\ call'[p].key = k
           \/ Spare' = Spare + (AutoAllow - 1)
  PROVE  LogStreak'
<1> SUFFICES ASSUME NEW k \in Key,
                    \A p \in Proc : ~(pc'[p] = "append" /\ call'[p].key = k)
             PROVE  StreakOK(Spare', streak[k], LastEntry(log', k))
  BY DEF LogStreak
<1> DEFINE e == LastEntry(log, k)
<1>1. /\ e \in Entry \cup {NoEntry} /\ LastEntry(log', k) \in {e, NoEntry}
      /\ streak[k] \in [n : Nat, at : Nat]
      /\ Spare \in Nat /\ Spare' \in Nat /\ Spare <= Spare'
  BY EntryFound DEF LogKept, TypeOK, SpareGrows
<1>2. CASE LastEntry(log', k) = NoEntry
  BY <1>2 DEF StreakOK
<1>3. CASE /\ LastEntry(log', k) = e
           /\ \A p \in Proc : ~(pc[p] = "append" /\ call[p].key = k)
  <2>1. StreakOK(Spare, streak[k], e)
    BY <1>3 DEF StreakInv, LogStreak
  <2> QED  BY <1>1, <1>3, <2>1, StreakOKStays
<1>4. CASE LastEntry(log', k) = e /\ Spare' = Spare + (AutoAllow - 1)
  <2>1. streak[k].n <= Spare'
    BY <1>4 DEF StreakInv, Bounded
  <2>2. e # NoEntry => e.attempts \in Nat
    BY <1>1 DEF Entry
  <2> HIDE DEF e
  <2> QED  BY <1>1, <1>4, <2>1, <2>2 DEF StreakOK
<1> QED  BY <1>1, <1>2, <1>3, <1>4

LEMMA StreakStays ==
  ASSUME Alone, AutoAllow > 0, TypeOK, StreakInv, SpareGrows, LogKept,
         streak' = streak, NEW p \in Proc,
         pc[p] # "append" \/ Spare' = Spare + (AutoAllow - 1),
         pc'[p] # "append",
         pc'[p] \in Looking =>
           /\ call'[p] \in Call
           /\ StreakOK(Spare, streak[call'[p].key], call'[p].last)
  PROVE  StreakInv'
<1>1. Bounded' /\ LogStreak'
  BY BoundedStays, LogStreakStays DEF StreakInv, Alone
<1>2. ASSUME pc'[p] \in Looking
      PROVE  StreakOK(Spare', streak[call'[p].key], call'[p].last)
  <2>1. /\ streak[call'[p].key] \in [n : Nat, at : Nat]
        /\ call'[p].last \in Entry \cup {NoEntry}
    BY <1>2 DEF TypeOK, Call
  <2> QED  BY <1>2, <2>1, StreakOKStays DEF SpareGrows
<1>3. CallStreak'
  BY <1>2 DEF Alone, CallStreak
<1> QED  BY <1>1, <1>3 DEF StreakInv

LEMMA StreakWorld ==
  ASSUME TypeOK, AutoAllow > 0, StreakInv, SpareKept, LogKept,
         UNCHANGED <<streak, pc, call>>
  PROVE  StreakInv'
<1>1. SpareGrows
  BY DEF SpareKept, SpareGrows
<1>2. Bounded' /\ LogStreak'
  BY <1>1, BoundedStays, LogStreakStays DEF StreakInv
<1> QED  BY <1>2 DEF StreakInv, CallStreak, SpareKept

LEMMA EmptyLogFinds ==
  ASSUME NEW k PROVE LastEntry(<<>>, k) = NoEntry
<1>1. UsableAt(<<>>, k) = {}
  BY DEF UsableAt
<1> QED  BY <1>1 DEF LastEntry

LEMMA AppendStreak ==
  ASSUME Alone, AutoAllow > 0, HookInv, ClockInv, StreakInv, SpareGrows,
         Spend("faults") => Spare' = Spare + (AutoAllow - 1),
         budget' = budget => SpareKept,
         NEW p \in Proc, AppendEntry(p)
  PROVE  StreakInv'
<1> DEFINE c == call[p]
           e == NewEntry(c)
<1>1. /\ pc[p] = "append" /\ pc'[p] \in {"stats", "copy"}
      /\ call' = call /\ streak' = streak
  BY DEF AppendEntry, Goto, AfterAppend, HookInv, TypeOK
<1>2. CASE Spend("faults") /\ log' = log
  <2>1. LogKept
    BY <1>2 DEF LogKept
  <2> QED  BY <1>1, <1>2, <2>1, StreakStays DEF Looking, HookInv
<1>3. CASE log' = Append(log, e) /\ budget' = budget
  <2>1. e \in Entry /\ e.key = c.key /\ e.ts > 0
    <3>1. e \in Entry /\ e.key = c.key /\ e.ts = c.now
      BY <1>1, NewEntryIsWord
    <3>2. StartClock <= c.now /\ c.now \in Nat
      BY <1>1 DEF ClockInv, HookInv, TypeOK, Call
    <3> QED  BY <3>1, <3>2, HookAssumption, PolicyAssumption
  <2>2. log \in Seq(Entry) /\ Spare' = Spare
    BY <1>3 DEF HookInv, TypeOK, SpareKept
  <2>3. StreakOK(Spare, streak[c.key], e)
    BY <1>1 DEF StreakInv, CallStreak
  <2>4. \A k \in Key \ {c.key} : StreakOK(Spare, streak[k], LastEntry(log, k))
    BY DEF Alone, StreakInv, LogStreak
  <2> HIDE DEF c, e
  <2>5. \A k \in Key : StreakOK(Spare, streak[k], LastEntry(log', k))
    BY <1>3, <2>1, <2>2, <2>3, <2>4, LastEntryAppended
  <2>6. LogStreak'
    BY <1>1, <2>2, <2>5 DEF LogStreak
  <2>7. CallStreak'
    BY <1>1 DEF Alone, CallStreak, Looking
  <2>8. Bounded'
    BY <1>1, <2>2 DEF StreakInv, Bounded
  <2> QED  BY <2>6, <2>7, <2>8 DEF StreakInv
<1> QED  BY <1>2, <1>3 DEF AppendEntry

LEMMA VerdictStreak ==
  ASSUME Alone, AutoAllow > 0, HookInv, StreakInv, SpareKept, NEW p \in Proc,
         Lookup(p) \/ HashFile(p) \/ DiffShort(p) \/ Summarize(p)
  PROVE  StreakInv'
<1>1. TypeOK /\ call[p] \in Call /\ call[p].key \in Key
  BY DEF HookInv, TypeOK, Call
<1>2. UNCHANGED cache /\ pc[p] # "append"
  BY DEF Lookup, HashFile, DiffShort, Summarize
<1>3. LogKept
  BY <1>2 DEF LogKept, cache
<1>4. ASSUME NEW c \in Call, c.key = call[p].key,
             call' = [call EXCEPT ![p] = c], UNCHANGED verdicts,
             NEW s \in Looking, Goto(p, s),
             StreakOK(Spare, streak[c.key], c.last)
      PROVE  StreakInv'
  <2>1. pc'[p] = s /\ call'[p] = c /\ s # "append" /\ streak' = streak
    BY <1>1, <1>4 DEF TypeOK, Goto, Looking, verdicts
  <2>2. SpareGrows
    BY DEF SpareKept, SpareGrows
  <2> QED  BY <1>1, <1>2, <1>3, <1>4, <2>1, <2>2, StreakStays
<1>5. CASE Lookup(p)
  <2> DEFINE e == LastEntry(log, call[p].key)
             c == [call[p] EXCEPT !.last = e]
             d == [c EXCEPT !.mtime = e.mtime]
  <2>1. /\ pc[p] = "lookup" /\ c \in Call /\ c.key = call[p].key /\ c.last = e
        /\ \/ /\ e # NoEntry /\ d \in Call /\ d.key = c.key /\ d.last = e
              /\ Conclude(p, d, HitAnswer(e, d.now, d.ttl))
           \/ /\ call' = [call EXCEPT ![p] = c]
              /\ Goto(p, "stat") /\ UNCHANGED verdicts
    BY <1>5, LookupShape
  <2>2. StreakOK(Spare, streak[call[p].key], e)
    BY <1>1, <2>1 DEF Alone, StreakInv, LogStreak
  <2> HIDE DEF e, c, d
  <2>3. CASE /\ e # NoEntry /\ d \in Call /\ d.key = c.key /\ d.last = e
             /\ Conclude(p, d, HitAnswer(e, d.now, d.ttl))
    BY <1>1, <1>2, <2>1, <2>2, <2>3, ConcludeStreak
  <2>4. CASE /\ call' = [call EXCEPT ![p] = c]
             /\ Goto(p, "stat") /\ UNCHANGED verdicts
    BY <1>4, <2>1, <2>2, <2>4 DEF Looking
  <2> QED  BY <2>1, <2>3, <2>4
<1>6. CASE HashFile(p)
  <2> DEFINE c == Hashed(p)
  <2>1. /\ pc[p] = "hash" /\ c \in Call
        /\ c.key = call[p].key /\ c.last = call[p].last
        /\ \/ Unchanged(c) /\ Conclude(p, c, HitAnswer(c.last, c.now, c.ttl))
           \/ /\ Diffing(c.key) /\ call' = [call EXCEPT ![p] = c]
              /\ Goto(p, "diff") /\ UNCHANGED verdicts
           \/ \E a \in {"miss", "blocked", "changed"} : Conclude(p, c, a)
    BY <1>6, HashFileShape
  <2>2. StreakOK(Spare, streak[c.key], c.last)
    BY <2>1 DEF StreakInv, CallStreak, Looking
  <2> HIDE DEF c
  <2>3. CASE Unchanged(c) /\ Conclude(p, c, HitAnswer(c.last, c.now, c.ttl))
    BY <1>1, <1>2, <2>1, <2>2, <2>3, ConcludeStreak DEF Unchanged
  <2>4. CASE /\ Diffing(c.key) /\ call' = [call EXCEPT ![p] = c]
             /\ Goto(p, "diff") /\ UNCHANGED verdicts
    BY <1>4, <2>1, <2>2, <2>4 DEF Looking
  <2>5. CASE \E a \in {"miss", "blocked", "changed"} : Conclude(p, c, a)
    BY <1>1, <1>2, <2>1, <2>2, <2>5, ConcludeStreak DEF Passing
  <2> QED  BY <2>1, <2>3, <2>4, <2>5
<1>7. CASE DiffShort(p) \/ Summarize(p)
  <2> DEFINE c == Compared(p)
  <2>1. /\ pc[p] \in {"diff", "summary"} /\ c \in Call /\ Same(c, call[p])
        /\ \E a \in {"diff", "summary", "miss", "blocked", "changed"} :
             Conclude(p, c, a)
    BY <1>7, DiffShape
  <2>2. StreakOK(Spare, streak[c.key], c.last)
    BY <2>1 DEF StreakInv, CallStreak, Looking, Same
  <2> HIDE DEF c
  <2> QED  BY <1>1, <1>2, <2>1, <2>2, ConcludeStreak DEF Passing
<1> QED  BY <1>5, <1>6, <1>7

LEMMA StepStreak ==
  ASSUME Alone, AutoAllow > 0, HookInv, ClockInv, StreakInv, SpareGrows,
         Spend("faults") => Spare' = Spare + (AutoAllow - 1),
         budget'["faults"] = budget["faults"] => SpareKept,
         TypeOK', NEW p \in Proc,
         \/ HookStep(p) \/ RunTool(p) \/ RejectTool(p) \/ Crash(p)
         \/ \E k \in Key : Begin(p, k)
  PROVE  StreakInv'
<1>1. TypeOK /\ call'[p] \in Call
  BY DEF HookInv, TypeOK
<1>2. ASSUME log' = log PROVE LogKept
  BY <1>2 DEF LogKept
<1>3. CASE CleanUp(p) \/ ReadTTL(p) \/ DiffUnusable(p)
  <2>1. LogKept /\ streak' = streak
    BY <1>1, <1>3, EarlyShape, EmptyLogFinds DEF LogKept, verdicts
  <2>2. /\ pc[p] # "append" /\ pc'[p] # "append"
        /\ Same(call'[p], call[p])
        /\ pc'[p] \in Looking => pc[p] \in Looking
    BY <1>1, <1>3, EarlyShape DEF Looking
  <2>3. pc[p] \in Looking => StreakOK(Spare, streak[call[p].key], call[p].last)
    BY DEF StreakInv, CallStreak
  <2> QED  BY <1>1, <2>1, <2>2, <2>3, StreakStays DEF Same
<1>4. CASE Stat(p)
  <2>1. /\ pc[p] = "stat" /\ pc'[p] # "append"
        /\ streak' = streak /\ log' = log
        /\ call'[p].key = call[p].key /\ call'[p].last = call[p].last
    BY <1>1, <1>4, StatShape DEF verdicts, cache
  <2>2. StreakOK(Spare, streak[call[p].key], call[p].last)
    BY <2>1 DEF StreakInv, CallStreak, Looking
  <2> QED  BY <1>1, <1>2, <2>1, <2>2, StreakStays
<1>5. CASE AppendEntry(p)
  BY <1>5, AppendStreak
<1>6. CASE CopyRead(p) \/ CopyWrite(p) \/ WriteStats(p)
  <2>1. /\ pc[p] # "append" /\ pc'[p] \notin Looking \cup {"append"}
        /\ streak' = streak
    BY <1>1, <1>6, RecordShape DEF Looking, CopyRead, CopyWrite, WriteStats
  <2>2. log' = log
    BY <1>6 DEF CopyRead, CopyWrite, WriteStats
  <2> QED  BY <1>1, <1>2, <2>1, <2>2, StreakStays
<1>7. CASE Emit(p) \/ RunTool(p) \/ RejectTool(p) \/ Crash(p)
  <2>1. /\ pc[p] # "append" \/ Spend("faults")
        /\ pc'[p] \notin Looking \cup {"append"}
        /\ streak' = streak /\ log' = log
    BY <1>1, <1>7, EndShape
    DEF Looking, Emit, RunTool, RejectTool, Crash, cache, verdicts
  <2> QED  BY <1>1, <1>2, <2>1, StreakStays
<1>8. CASE \E k \in Key : Begin(p, k)
  <2>1. /\ pc[p] # "append" /\ pc'[p] \notin Looking \cup {"append"}
        /\ streak' = streak /\ log' = log
    BY <1>1, <1>8, BeginShape DEF Looking, cache, verdicts
  <2> QED  BY <1>1, <1>2, <2>1, StreakStays
<1>9. CASE Lookup(p) \/ HashFile(p) \/ DiffShort(p) \/ Summarize(p)
  <2>1. budget' = budget
    BY <1>9 DEF Lookup, HashFile, DiffShort, Summarize
  <2> QED  BY <1>9, <2>1, VerdictStreak
<1> QED
  BY <1>3, <1>4, <1>5, <1>6, <1>7, <1>8, <1>9 DEF HookStep

LEMMA StreakNext ==
  ASSUME Alone, AutoAllow > 0, HookInv, TypeOK', ClockInv, BudgetInv,
         BudgetInv', StreakInv, [Next]_vars
  PROVE  StreakInv'
<1>1. /\ SpareGrows
      /\ budget'["faults"] = budget["faults"] => SpareKept
      /\ Spend("faults") => Spare' = Spare + (AutoAllow - 1)
  BY SpareStep DEF HookInv
<1>2. CASE \/ UNCHANGED vars \/ ClearSessions \/ Tick
           \/ \E q \in Path : ClearFile(q)
           \/ \E q \in Path, c \in Content \cup {Gone} : Edit(q, c)
  <2>1. UNCHANGED <<streak, pc, call>>
    BY <1>2 DEF vars, verdicts, ClearSessions, Tick, ClearFile, Edit
  <2>2. budget'["faults"] = budget["faults"] /\ TypeOK
    BY <1>2
    DEF HookInv, TypeOK, vars, ClearSessions, Tick, ClearFile, Edit, Spend
  <2>3. CASE log' = log \/ log' = <<>>
    BY <1>1, <2>1, <2>2, <2>3, EmptyLogFinds, StreakWorld DEF LogKept
  <2>4. ASSUME NEW q \in Path, ClearFile(q) PROVE StreakInv'
    <3>1. PICK s \in Tombstones(q) : log' = log \o s
      BY <2>4 DEF ClearFile
    <3>2. s \in Seq(Entry) /\ \A i \in DOMAIN s : s[i].ts = 0
      BY TombstonesAreEntries DEF HookInv
    <3>3. LogKept
      BY <3>1, <3>2, LastEntryCleared DEF LogKept, HookInv, TypeOK
    <3> QED  BY <1>1, <2>1, <2>2, <3>3, StreakWorld
  <2> QED
    BY <1>2, <2>3, <2>4 DEF vars, cache, ClearSessions, Tick, Edit
<1>3. CASE \E p \in Proc : \/ HookStep(p) \/ RunTool(p) \/ RejectTool(p)
                           \/ Crash(p) \/ \E k \in Key : Begin(p, k)
  BY <1>1, <1>3, StepStreak
<1> QED  BY <1>2, <1>3 DEF Next

LEMMA StreakInit == Init /\ AutoAllow > 0 => StreakInv
<1> SUFFICES ASSUME Init, AutoAllow > 0 PROVE StreakInv
  OBVIOUS
<1>1. \A k \in Key : streak[k].n = 0
  BY DEF Init
<1>2. \A k \in Key : \A e : StreakOK(Spare, streak[k], e)
  BY <1>1 DEF StreakOK
<1>3. \A p \in Proc : pc[p] = "idle"
  BY DEF Init
<1>4. Spare \in Nat /\ AutoAllow - 1 \in Nat
  BY HookInit, BudgetInit, SpareType DEF HookInv
<1>5. Bounded
  <2> SUFFICES ASSUME NEW k \in Key
               PROVE  streak[k].n <= Spare + (AutoAllow - 1)
    BY DEF Bounded
  <2>1. streak[k].n = 0
    BY <1>1
  <2>2. \A m, n \in Nat : 0 <= m + n
    OBVIOUS
  <2> QED  BY <1>4, <2>1, <2>2
<1> QED
  BY <1>2, <1>3, <1>5 DEF StreakInv, LogStreak, CallStreak, Looking

(* An agent that insists gets the file: with calls one after the other, a  *)
(* key is refused fewer than AutoAllow times in a row at most Decay        *)
(* seconds apart, and AutoAllow - 1 times more for each hook that was      *)
(* killed or that a lock kept from writing.                                *)
THEOREM HookStreakBounded ==
  ASSUME Alone
  PROVE  Spec => []StreakBounded
<1> DEFINE Inv == BudgetInv /\ ClockInv /\ (AutoAllow > 0 => StreakInv)
<1>1. Init => Inv
  BY BudgetInit, ClockInit, StreakInit
<1>2. HookInv /\ HookInv' /\ Inv /\ [Next]_vars => Inv'
  BY BudgetNext, ClockNext, StreakNext DEF HookInv
<1>3. HookInv /\ Inv => StreakBounded
  <2> SUFFICES ASSUME HookInv, Inv, AutoAllow > 0, NEW k \in Key
               PROVE  streak[k].n <= (AutoAllow - 1) * (Faults + 1)
    BY DEF StreakBounded
  <2>1. Faults \in Nat /\ AutoAllow - 1 \in Nat
    BY SpareType DEF HookInv
  <2>2. \A a, f \in Nat : a * (f + 1) = a * f + a
    OBVIOUS
  <2>3. streak[k].n <= (AutoAllow - 1) * Faults + (AutoAllow - 1)
    BY DEF StreakInv, Bounded, Spare
  <2> HIDE DEF Faults
  <2> QED  BY <2>1, <2>2, <2>3
<1> QED  BY <1>1, <1>2, <1>3, HookInvariant, PTL DEF Spec

-----------------------------------------------------------------------------
(***************************************************************************)
(* The report and the log tell the same story, but for one line for each   *)
(* hook that was killed or that a lock kept from writing, as long as       *)
(* nothing is cleared and the session is not older than what cleanup       *)
(* removes.                                                                *)
(***************************************************************************)
NoClears == budget["clears"] = MaxClears

(* A process whose entry is in the log and not yet in the stats.           *)
Pending(step, c) ==
  \/ step = "stats"
  \/ step \in {"copy", "copy_write"} /\ ~StatsFirst(c.answer)

Waiting(hit) ==
  {p \in Proc : (call[p].answer = "hit") = hit /\ Pending(pc[p], call[p])}

(* The log is never found old, and only what was let through or refused as *)
(* unchanged is recorded.                                                  *)
RecordOK(step, c) ==
  /\ ~c.stale
  /\ step \in Recording => c.answer \in Passing \cup {"hit"}

KeptInv ==
  /\ log # <<>> => StartClock <= touched
  /\ \A p \in Proc : RecordOK(pc[p], call[p])

(* The lines of the report about refusals, and about the other reads; how  *)
(* far they and the verdicts not yet counted are ahead of the log.         *)
Counted(hit) ==
  IF hit THEN showStats.hits
  ELSE showStats.total - showStats.hits + stats["auto_allow"]

Gap(hit) == Counted(hit) + Uncounted(hit) - Logged(hit)

Within(x, y, f) == x \in (-f)..f /\ y \in (-f)..f /\ x + y \in (-f)..f

CountInv ==
  /\ \A hit \in BOOLEAN : IsFiniteSet(Waiting(hit))
  /\ Within(Gap(TRUE), Gap(FALSE), Faults)

LEMMA ConcludeKept ==
  ASSUME TypeOK, KeptInv, NEW p \in Proc, NEW c \in Call, NEW a,
         Conclude(p, c, a), pc[p] \in Early, c.stale = call[p].stale,
         a \in Passing \cup {"hit", "blocked"}
  PROVE  /\ Others(p) /\ RecordOK(pc'[p], call'[p])
         /\ ~Pending(pc[p], call[p]) /\ ~Pending(pc'[p], call'[p])
<1>1. /\ Others(p) /\ Same(call'[p], c) /\ call'[p].answer = a
      /\ pc'[p] = IF a = "blocked" THEN "emit" ELSE "append"
  BY ConcludeShape
<1> QED
  BY <1>1 DEF KeptInv, RecordOK, Same, Pending, Early, Recording

(* A step that neither records an entry nor counts one.                    *)
LEMMA QuietCount ==
  ASSUME HookInv, ClockInv, KeptInv, MaxClock - StartClock <= MaxAge,
         NEW p \in Proc,
         \/ HookStep(p) /\ ~AppendEntry(p) /\ ~WriteStats(p)
         \/ RunTool(p) \/ RejectTool(p) \/ \E k \in Key : Begin(p, k)
  PROVE  /\ Others(p) /\ UNCHANGED <<log, touched, stats>>
         /\ RecordOK(pc'[p], call'[p])
         /\ Pending(pc'[p], call'[p]) <=> Pending(pc[p], call[p])
         /\ Pending(pc[p], call[p]) => call'[p].answer = call[p].answer
<1>1. TypeOK /\ RecordOK(pc[p], call[p]) /\ call[p] \in Call
  BY DEF HookInv, TypeOK, KeptInv
<1>2. ASSUME NEW c \in Call, NEW a, Conclude(p, c, a), pc[p] \in Early,
             c.stale = call[p].stale, UNCHANGED cache,
             a \in Passing \cup {"hit", "blocked"}
      PROVE  /\ Others(p) /\ UNCHANGED <<log, touched, stats>>
             /\ RecordOK(pc'[p], call'[p])
             /\ ~Pending(pc[p], call[p]) /\ ~Pending(pc'[p], call'[p])
  BY <1>1, <1>2, ConcludeKept DEF cache
<1>3. ASSUME NEW c \in Call, call' = [call EXCEPT ![p] = c],
             NEW s \in {"stat", "diff"}, Goto(p, s),
             c.stale = call[p].stale, pc[p] \in Early, UNCHANGED cache
      PROVE  /\ Others(p) /\ UNCHANGED <<log, touched, stats>>
             /\ RecordOK(pc'[p], call'[p])
             /\ ~Pending(pc[p], call[p]) /\ ~Pending(pc'[p], call'[p])
  <2>1. Others(p) /\ call'[p] = c /\ pc'[p] = s
    BY <1>1, <1>3 DEF TypeOK, Goto, Others
  <2> QED
    BY <1>1, <1>3, <2>1 DEF RecordOK, Pending, Recording, Early, cache
<1>4. CASE CleanUp(p) \/ ReadTTL(p) \/ DiffUnusable(p)
  BY <1>1, <1>4, EarlyShape DEF RecordOK, Pending, Recording, Same
<1>5. CASE Lookup(p)
  <2> DEFINE e == LastEntry(log, call[p].key)
             c == [call[p] EXCEPT !.last = e]
             d == [c EXCEPT !.mtime = e.mtime]
  <2>1. /\ UNCHANGED cache /\ pc[p] = "lookup" /\ c \in Call
        /\ c.stale = call[p].stale
        /\ \/ /\ d \in Call /\ d.stale = c.stale
              /\ Conclude(p, d, HitAnswer(e, d.now, d.ttl))
           \/ call' = [call EXCEPT ![p] = c] /\ Goto(p, "stat")
    BY <1>5, LookupShape
  <2>2. HitAnswer(e, d.now, d.ttl) \in Passing \cup {"hit"}
    BY HitAnswers DEF Passing
  <2> HIDE DEF e, c, d
  <2> QED  BY <1>2, <1>3, <2>1, <2>2 DEF Early
<1>6. CASE Stat(p)
  BY <1>1, <1>6, StatShape DEF RecordOK, Pending, Recording, cache
<1>7. CASE HashFile(p)
  <2>1. HitAnswer(Hashed(p).last, Hashed(p).now, Hashed(p).ttl)
          \in Passing \cup {"hit"}
    BY HitAnswers DEF Passing
  <2> QED
    BY <1>2, <1>3, <1>7, <2>1, HashFileShape DEF Early, Passing
<1>8. CASE DiffShort(p) \/ Summarize(p)
  BY <1>2, <1>8, DiffShape DEF Early, Passing, Same
<1>9. CASE CopyRead(p) \/ CopyWrite(p)
  <2>1. /\ Others(p) /\ Same(call'[p], call[p])
        /\ call'[p].answer = call[p].answer
        /\ pc[p] \in {"copy", "copy_write"}
    BY <1>1, <1>9, RecordShape DEF CopyRead, CopyWrite
  <2>2. pc'[p] \in {"copy_write", AfterCopy(call[p])}
    BY <1>1, <1>9 DEF CopyRead, CopyWrite, Goto, TypeOK
  <2> QED
    BY <1>1, <1>9, <2>1, <2>2
    DEF CopyRead, CopyWrite, RecordOK, Pending, Recording, AfterCopy, Same
<1>10. CASE Emit(p) \/ RunTool(p) \/ RejectTool(p)
  <2>1. pc[p] \in {"emit", "tool"}
    BY <1>10 DEF Emit, RunTool, RejectTool
  <2>2. /\ NoCall(call[p].key).stale = FALSE
        /\ NoCall(call[p].key).answer = "none"
    BY DEF NoCall
  <2> QED
    BY <1>1, <1>10, <2>1, <2>2, EndShape
    DEF RecordOK, Pending, Recording, cache
<1>11. ASSUME NEW k \in Key, Begin(p, k)
       PROVE  /\ Others(p) /\ UNCHANGED <<log, touched, stats>>
              /\ RecordOK(pc'[p], call'[p])
              /\ ~Pending(pc[p], call[p]) /\ ~Pending(pc'[p], call'[p])
  <2>1. /\ Others(p) /\ UNCHANGED cache
        /\ pc[p] = "idle" /\ pc'[p] \in {"cleanup", "ttl"}
        /\ call'[p].stale = (CleanupDue(clock) /\ log # <<>> /\ Old(touched))
    BY <1>1, <1>11, BeginShape
  <2>2. log # <<>> => ~Old(touched)
    <3>1. clock \in Nat /\ touched \in Nat /\ clock <= MaxClock
      BY <1>1 DEF TypeOK, ClockInv
    <3>2. MaxClock \in Nat /\ StartClock \in Nat /\ MaxAge \in Nat
      BY HookAssumption
    <3> QED  BY <3>1, <3>2 DEF KeptInv, Old
  <2> QED  BY <2>1, <2>2 DEF RecordOK, Pending, Recording, cache
<1> QED
  BY <1>4, <1>5, <1>6, <1>7, <1>8, <1>9, <1>10, <1>11 DEF HookStep

LEMMA KeptStays ==
  ASSUME KeptInv, NEW p \in Proc, Others(p), RecordOK(pc'[p], call'[p]),
         log' # <<>> => StartClock <= touched'
  PROVE  KeptInv'
<1>1. \A q \in Proc : RecordOK(pc'[q], call'[q])
  BY DEF KeptInv, Others
<1> QED  BY <1>1 DEF KeptInv, RecordOK

LEMMA KeptNext ==
  ASSUME HookInv, ClockInv, KeptInv, MaxClock - StartClock <= MaxAge,
         [Next]_vars
  PROVE  KeptInv'
<1>1. TypeOK
  BY DEF HookInv
<1>2. CASE \/ UNCHANGED vars \/ ClearSessions \/ Tick
           \/ \E q \in Path : ClearFile(q)
           \/ \E q \in Path, c \in Content \cup {Gone} : Edit(q, c)
  <2>1. UNCHANGED <<pc, call>>
    BY <1>2 DEF vars, ClearSessions, Tick, ClearFile, Edit
  <2>2. log' # <<>> => StartClock <= touched'
    <3>1. CASE UNCHANGED <<log, touched>> \/ log' = <<>>
      BY <3>1 DEF KeptInv
    <3>2. ASSUME NEW q \in Path, ClearFile(q)
          PROVE  log' # <<>> => StartClock <= touched'
      <4>1. PICK s \in Tombstones(q) :
              /\ log' = log \o s
              /\ touched' = IF s = <<>> THEN touched ELSE clock
        BY <3>2 DEF ClearFile
      <4>2. CASE s = <<>>
        BY <1>1, <4>1, <4>2 DEF KeptInv, TypeOK
      <4>3. CASE s # <<>>
        BY <4>1, <4>3 DEF ClockInv
      <4> QED  BY <4>2, <4>3
    <3> QED  BY <1>2, <3>1, <3>2 DEF vars, cache, ClearSessions, Tick, Edit
  <2> QED  BY <2>1, <2>2 DEF KeptInv, RecordOK
<1>3. ASSUME NEW p \in Proc,
             \/ HookStep(p) \/ RunTool(p) \/ RejectTool(p) \/ Crash(p)
             \/ \E k \in Key : Begin(p, k)
      PROVE  KeptInv'
  <2>1. RecordOK(pc[p], call[p])
    BY DEF KeptInv
  <2>2. CASE AppendEntry(p) \/ WriteStats(p)
    <3>1. /\ Others(p) /\ Same(call'[p], call[p])
          /\ call'[p].answer = call[p].answer /\ pc[p] \in Recording
      BY <1>1, <2>2, RecordShape
    <3>2. log' # <<>> => StartClock <= touched'
      BY <2>2 DEF AppendEntry, WriteStats, KeptInv, ClockInv
    <3> QED  BY <2>1, <3>1, <3>2, KeptStays DEF RecordOK, Same
  <2>3. CASE Crash(p)
    <3>1. Others(p) /\ pc'[p] = "tool" /\ call'[p] = call[p] /\ UNCHANGED cache
      BY <1>1, <2>3 DEF Crash, Goto, TypeOK, Others
    <3> QED
      BY <2>1, <3>1, KeptStays DEF KeptInv, RecordOK, Recording, cache
  <2> QED
    BY <1>3, <2>2, <2>3, QuietCount, KeptStays DEF KeptInv
<1> QED  BY <1>2, <1>3 DEF Next

(* A fault adds or loses one line, of one of the two kinds.                *)
LEMMA WithinStays ==
  ASSUME NEW x \in Int, NEW y \in Int, NEW f \in Nat, NEW g \in Nat,
         Within(x, y, f), f <= g
  PROVE  Within(x, y, g)
  BY DEF Within

LEMMA WithinFault ==
  ASSUME NEW x \in Int, NEW y \in Int, NEW z \in Int, NEW f \in Nat
  PROVE  /\ Within(x, y, f) /\ z \in x - 1 .. x + 1 => Within(z, y, f + 1)
         /\ Within(x, y, f) /\ z \in y - 1 .. y + 1 => Within(x, z, f + 1)
  BY DEF Within

LEMMA FaultsStep ==
  ASSUME TypeOK, TypeOK', BudgetInv, BudgetInv', [Next]_vars
  PROVE  /\ Faults \in Nat /\ Faults' \in Nat /\ Faults <= Faults'
         /\ Spend("faults") => Faults' = Faults + 1
<1>1. /\ Faults = MaxFaults - budget["faults"]
      /\ Faults' = MaxFaults - budget'["faults"]
      /\ MaxFaults \in Nat /\ budget["faults"] \in Nat
      /\ budget'["faults"] \in Nat /\ budget["faults"] <= MaxFaults
      /\ budget'["faults"] <= MaxFaults
      /\ budget'["faults"] <= budget["faults"]
  BY BudgetShrinks, HookAssumption DEF TypeOK, BudgetInv, Faults
<1>2. Spend("faults") => budget'["faults"] = budget["faults"] - 1
  BY DEF Spend, TypeOK
<1> QED  BY <1>1, <1>2

LEMMA LoggedType ==
  ASSUME NEW l \in Seq(Entry), NEW hit \in BOOLEAN
  PROVE  Cardinality({i \in DOMAIN l : (l[i].attempts > 0) = hit}) \in Nat
<1> DEFINE S == {i \in DOMAIN l : (l[i].attempts > 0) = hit}
<1>1. S \in SUBSET (1 .. Len(l)) /\ IsFiniteSet(1 .. Len(l))
  BY FS_Interval
<1>2. IsFiniteSet(S)
  BY <1>1, FS_Subset
<1> HIDE DEF S
<1>3. Cardinality(S) \in Nat
  BY <1>2, FS_CardinalityType
<1> QED  BY <1>3 DEF S

LEMMA WaitingCount ==
  ASSUME NEW hit \in BOOLEAN
  PROVE  Uncounted(hit) = Cardinality(Waiting(hit))
  BY DEF Uncounted, Waiting, Pending

LEMMA CountedType ==
  ASSUME TypeOK
  PROVE  \A hit \in BOOLEAN : Counted(hit) \in Int
<1>1. \A e \in Event : stats[e] \in Nat
  BY DEF TypeOK
<1>2. /\ showStats.hits \in Nat /\ showStats.total \in Nat
      /\ stats["auto_allow"] \in Nat
  BY <1>1 DEF showStats, Event
<1>3. showStats.total - showStats.hits + stats["auto_allow"] \in Int
  BY <1>2
<1> QED  BY <1>2, <1>3 DEF Counted

LEMMA GapTypes ==
  ASSUME TypeOK, CountInv, NEW hit \in BOOLEAN
  PROVE  /\ Counted(hit) \in Int /\ Uncounted(hit) \in Nat
         /\ Logged(hit) \in Nat /\ Gap(hit) \in Int
<1>1. Uncounted(hit) \in Nat
  BY WaitingCount, FS_CardinalityType DEF CountInv
<1>2. Logged(hit) \in Nat
  BY LoggedType DEF TypeOK, Logged
<1>3. Counted(hit) \in Int
  BY CountedType
<1> QED  BY <1>1, <1>2, <1>3 DEF Gap

(* Every process waits as before, and nothing was counted.                 *)
LEMMA CountSame ==
  ASSUME TypeOK, CountInv, UNCHANGED <<log, stats>>,
         Faults \in Nat, Faults' \in Nat, Faults <= Faults',
         \A p \in Proc :
           /\ Pending(pc'[p], call'[p]) <=> Pending(pc[p], call[p])
           /\ Pending(pc[p], call[p]) => call'[p].answer = call[p].answer
  PROVE  CountInv'
<1>1. ASSUME NEW hit \in BOOLEAN PROVE Waiting(hit)' = Waiting(hit)
  BY DEF Waiting, Pending
<1>2. ASSUME NEW hit \in BOOLEAN PROVE Uncounted(hit)' = Uncounted(hit)
  BY <1>1 DEF Uncounted, Waiting, Pending
<1>3. ASSUME NEW hit \in BOOLEAN PROVE Logged(hit)' = Logged(hit)
  BY DEF Logged
<1>4. ASSUME NEW hit \in BOOLEAN PROVE Counted(hit)' = Counted(hit)
  BY DEF Counted, showStats
<1>5. Gap(TRUE)' = Gap(TRUE) /\ Gap(FALSE)' = Gap(FALSE)
  BY <1>2, <1>3, <1>4 DEF Gap
<1>6. Gap(TRUE) \in Int /\ Gap(FALSE) \in Int
  BY GapTypes
<1>7. Within(Gap(TRUE), Gap(FALSE), Faults')
  BY <1>6, WithinStays DEF CountInv
<1> QED  BY <1>1, <1>5, <1>7 DEF CountInv

(* One more process waits, or one less.                                    *)
LEMMA WaitsMore ==
  ASSUME CountInv, NEW p \in Proc, NEW new \in BOOLEAN,
         (call'[p].answer = "hit") = new, Others(p),
         ~Pending(pc[p], call[p]), Pending(pc'[p], call'[p]),
         NEW hit \in BOOLEAN
  PROVE  /\ IsFiniteSet(Waiting(hit)')
         /\ Uncounted(hit)' = IF hit = new THEN Uncounted(hit) + 1
                              ELSE Uncounted(hit)
<1>1. /\ Waiting(hit)' = IF hit = new THEN Waiting(hit) \cup {p}
                         ELSE Waiting(hit)
      /\ p \notin Waiting(hit)
  BY DEF Waiting, Others
<1>2. IsFiniteSet(Waiting(hit))
  BY DEF CountInv
<1>3. /\ Uncounted(hit) = Cardinality(Waiting(hit))
      /\ Uncounted(hit)' = Cardinality(Waiting(hit)')
  BY DEF Uncounted, Waiting, Pending
<1> HIDE DEF Waiting, Uncounted
<1>4. CASE hit = new
  <2>1. Waiting(hit)' = Waiting(hit) \cup {p}
    BY <1>1, <1>4
  <2> QED  BY <1>1, <1>2, <1>3, <1>4, <2>1, FS_AddElement
<1>5. CASE hit # new
  BY <1>1, <1>2, <1>3, <1>5
<1> QED  BY <1>4, <1>5

LEMMA WaitsLess ==
  ASSUME CountInv, NEW p \in Proc, NEW new \in BOOLEAN,
         (call[p].answer = "hit") = new, Others(p),
         Pending(pc[p], call[p]), ~Pending(pc'[p], call'[p]),
         NEW hit \in BOOLEAN
  PROVE  /\ IsFiniteSet(Waiting(hit)')
         /\ Uncounted(hit)' = IF hit = new THEN Uncounted(hit) - 1
                              ELSE Uncounted(hit)
<1>1. /\ Waiting(hit)' = IF hit = new THEN Waiting(hit) \ {p} ELSE Waiting(hit)
      /\ hit = new => p \in Waiting(hit)
  BY DEF Waiting, Others
<1>2. IsFiniteSet(Waiting(hit))
  BY DEF CountInv
<1>3. /\ Uncounted(hit) = Cardinality(Waiting(hit))
      /\ Uncounted(hit)' = Cardinality(Waiting(hit)')
  BY DEF Uncounted, Waiting, Pending
<1> QED  BY <1>1, <1>2, <1>3, FS_RemoveElement

(* A step that moves the gap of one kind, for a fault, or none.            *)
LEMMA GapMoves ==
  ASSUME TypeOK, CountInv, Faults \in Nat, Faults' \in Nat,
         NEW new \in BOOLEAN,
         \A hit \in BOOLEAN : IsFiniteSet(Waiting(hit)'),
         \A hit \in BOOLEAN \ {new} : Gap(hit)' = Gap(hit),
         \/ Gap(new)' = Gap(new) /\ Faults <= Faults'
         \/ /\ Gap(new)' \in Int
            /\ Gap(new)' \in Gap(new) - 1 .. Gap(new) + 1
            /\ Faults' = Faults + 1
  PROVE  CountInv'
<1>1. Gap(TRUE) \in Int /\ Gap(FALSE) \in Int
  BY GapTypes
<1>2. Within(Gap(TRUE), Gap(FALSE), Faults)
  BY DEF CountInv
<1> HIDE DEF Gap, Faults
<1>3. Within(Gap(TRUE)', Gap(FALSE)', Faults')
  <2>1. CASE Gap(new)' = Gap(new) /\ Faults <= Faults'
    <3>1. Gap(TRUE)' = Gap(TRUE) /\ Gap(FALSE)' = Gap(FALSE)
      BY <2>1, Zenon
    <3> QED  BY <1>1, <1>2, <2>1, <3>1, WithinStays
  <2>2. CASE /\ Gap(new)' \in Int
             /\ Gap(new)' \in Gap(new) - 1 .. Gap(new) + 1
             /\ Faults' = Faults + 1
    <3>1. CASE new = TRUE
      <4>1. Gap(FALSE)' = Gap(FALSE) /\ Gap(TRUE)' \in Int
            /\ Gap(TRUE)' \in Gap(TRUE) - 1 .. Gap(TRUE) + 1
        BY <2>2, <3>1, Zenon
      <4> QED  BY <1>1, <1>2, <2>2, <4>1, WithinFault
    <3>2. CASE new = FALSE
      <4>1. Gap(TRUE)' = Gap(TRUE) /\ Gap(FALSE)' \in Int
            /\ Gap(FALSE)' \in Gap(FALSE) - 1 .. Gap(FALSE) + 1
        BY <2>2, <3>2, Zenon
      <4> QED  BY <1>1, <1>2, <2>2, <4>1, WithinFault
    <3> QED  BY <3>1, <3>2
  <2> QED  BY <2>1, <2>2
<1> QED  BY <1>3 DEF CountInv

(* An entry that records a refusal as unchanged counts its attempt.        *)
LEMMA NewEntryAttempts ==
  ASSUME HookInv, NEW p \in Proc, pc[p] = "append"
  PROVE  (NewEntry(call[p]).attempts > 0) = (call[p].answer = "hit")
<1> DEFINE c == call[p]
<1>1. c \in Call /\ (c.answer = "hit" => c.last # NoEntry)
  BY DEF HookInv, TypeOK, CallInv, CallOK, SettledOK, SettledSteps
<1>2. NewEntry(c).attempts =
        IF c.answer = "hit" THEN Attempts(c.last, c.now) ELSE 0
  BY DEF NewEntry
<1>3. CASE c.answer = "hit"
  <2>1. c.last.attempts \in Nat
    BY <1>1, <1>3 DEF Call, Entry
  <2>2. Attempts(c.last, c.now) > 0
    BY <2>1 DEF Attempts
  <2> QED  BY <1>2, <1>3, <2>2
<1>4. CASE c.answer # "hit"
  BY <1>2, <1>4
<1> QED  BY <1>3, <1>4

(* An append counts one more entry, of its kind.                           *)
LEMMA LoggedAppended ==
  ASSUME TypeOK, NEW e \in Entry, NEW new \in BOOLEAN,
         (e.attempts > 0) = new, log' = Append(log, e), NEW hit \in BOOLEAN
  PROVE  Logged(hit)' = IF hit = new THEN Logged(hit) + 1 ELSE Logged(hit)
<1> DEFINE S == {i \in DOMAIN log : (log[i].attempts > 0) = hit}
           T == {i \in DOMAIN log' : (log'[i].attempts > 0) = hit}
           n == Len(log) + 1
<1>1. /\ Len(log) \in Nat /\ DOMAIN log = 1 .. Len(log)
      /\ DOMAIN log' = 1 .. n /\ log'[n] = e
      /\ \A i \in DOMAIN log : log'[i] = log[i]
  BY DEF TypeOK
<1>2. S \in SUBSET (1 .. Len(log)) /\ IsFiniteSet(1 .. Len(log))
  BY <1>1, FS_Interval
<1>3. IsFiniteSet(S)
  BY <1>2, FS_Subset
<1>4. n \notin S
  BY <1>1
<1>5. T = IF hit = new THEN S \cup {n} ELSE S
  <2>1. DOMAIN log' = DOMAIN log \cup {n}
    BY <1>1
  <2>2. (log'[n].attempts > 0) = new
    BY <1>1
  <2>3. \A i : i \in T <=> i \in S \/ (hit = new /\ i = n)
    BY <1>1, <1>4, <2>1, <2>2
  <2> HIDE DEF S, T, n
  <2> QED  BY <2>3
<1>6. Logged(hit) = Cardinality(S) /\ Logged(hit)' = Cardinality(T)
  BY DEF Logged
<1> HIDE DEF S, T, n
<1> QED  BY <1>3, <1>4, <1>5, <1>6, FS_AddElement

(* The entry recorded waits to be counted; if it is lost, the verdict      *)
(* waits all the same.                                                     *)
LEMMA AppendCount ==
  ASSUME HookInv, CountInv, NEW p \in Proc, AppendEntry(p),
         Faults \in Nat, Faults' \in Nat, Faults <= Faults',
         Spend("faults") => Faults' = Faults + 1
  PROVE  CountInv'
<1> DEFINE c == call[p]
           e == NewEntry(c)
<1>1. /\ pc[p] = "append" /\ pc' = [pc EXCEPT ![p] = AfterAppend(c)]
      /\ call' = call /\ stats' = stats
      /\ log' = Append(log, e) \/ (Spend("faults") /\ log' = log)
  BY DEF AppendEntry, Goto
<1>2. PICK new \in BOOLEAN : new = (c.answer = "hit")
  OBVIOUS
<1>3. (e.attempts > 0) = new /\ e \in Entry
  BY <1>1, <1>2, NewEntryAttempts, NewEntryIsWord
<1>4. TypeOK
  BY DEF HookInv
<1>5. Others(p) /\ ~Pending(pc[p], c) /\ Pending(pc'[p], call'[p])
  BY <1>1, <1>4 DEF TypeOK, Others, Pending, AfterAppend
<1>6. ASSUME NEW hit \in BOOLEAN
      PROVE  /\ IsFiniteSet(Waiting(hit)')
             /\ Uncounted(hit)' = IF hit = new THEN Uncounted(hit) + 1
                                  ELSE Uncounted(hit)
  BY <1>1, <1>2, <1>5, WaitsMore
<1>7. \A hit \in BOOLEAN : Counted(hit)' = Counted(hit)
  BY <1>1 DEF Counted, showStats
<1> HIDE DEF c, e
<1>8. CASE log' = Append(log, e)
  <2>1. \A hit \in BOOLEAN :
          Logged(hit)' = IF hit = new THEN Logged(hit) + 1 ELSE Logged(hit)
    BY <1>3, <1>4, <1>8, LoggedAppended
  <2>2. ASSUME NEW hit \in BOOLEAN PROVE Gap(hit)' = Gap(hit)
    <3>1. CASE hit = new
      BY <1>4, <1>6, <1>7, <2>1, <3>1, GapTypes DEF Gap
    <3>2. CASE hit # new
      BY <1>4, <1>6, <1>7, <2>1, <3>2, GapTypes DEF Gap
    <3> QED  BY <3>1, <3>2
  <2> QED  BY <1>4, <1>6, <2>2, GapMoves
<1>9. CASE Spend("faults") /\ log' = log
  <2>1. \A hit \in BOOLEAN : Logged(hit)' = Logged(hit)
    BY <1>9 DEF Logged
  <2>2. ASSUME NEW hit \in BOOLEAN
        PROVE  Gap(hit)' = IF hit = new THEN Gap(hit) + 1 ELSE Gap(hit)
    <3>1. CASE hit = new
      BY <1>4, <1>6, <1>7, <2>1, <3>1, GapTypes DEF Gap
    <3>2. CASE hit # new
      BY <1>4, <1>6, <1>7, <2>1, <3>2, GapTypes DEF Gap
    <3> QED  BY <3>1, <3>2
  <2>3. Gap(new) \in Int
    BY <1>4, GapTypes
  <2>4. Gap(new)' \in Int /\ Gap(new)' \in Gap(new) - 1 .. Gap(new) + 1
    <3>1. Gap(new)' = Gap(new) + 1
      BY <2>2
    <3> HIDE DEF Gap
    <3> QED  BY <2>3, <3>1
  <2>5. \A hit \in BOOLEAN \ {new} : Gap(hit)' = Gap(hit)
    BY <2>2
  <2> QED  BY <1>4, <1>6, <1>9, <2>4, <2>5, GapMoves
<1> QED  BY <1>1, <1>8, <1>9

(* The verdict of a process is counted once, in its line of the report.    *)
LEMMA CountedOnce ==
  ASSUME TypeOK, NEW a \in Passing \cup {"hit"},
         stats' = [stats EXCEPT ![EventOf(a)] = @ + 1],
         NEW new \in BOOLEAN, new = (a = "hit"), NEW hit \in BOOLEAN
  PROVE  Counted(hit)' = IF hit = new THEN Counted(hit) + 1 ELSE Counted(hit)
<1>1. EventOf(a) \in Event /\ (EventOf(a) = "hit") = new
  BY DEF EventOf, Event, Passing
<1>2. \A e \in Event :
        /\ stats[e] \in Nat
        /\ stats'[e] = stats[e] + (IF e = EventOf(a) THEN 1 ELSE 0)
  BY <1>1 DEF TypeOK
<1>3. /\ showStats.hits = stats["hit"] /\ (showStats.hits)' = stats'["hit"]
      /\ showStats.total = stats["hit"] + stats["diff"] + stats["miss"]
                             + stats["changed"] + stats["expired"]
      /\ (showStats.total)' = stats'["hit"] + stats'["diff"] + stats'["miss"]
                                + stats'["changed"] + stats'["expired"]
  BY DEF showStats
<1>4. CASE hit
  <2>1. Counted(hit) = stats["hit"] /\ Counted(hit)' = stats'["hit"]
    BY <1>3, <1>4 DEF Counted
  <2>2. "hit" \in Event
    BY DEF Event
  <2>3. CASE new
    BY <1>1, <1>2, <1>4, <2>1, <2>2, <2>3
  <2>4. CASE ~new
    <3>1. hit # new /\ EventOf(a) # "hit"
      BY <1>1, <1>4, <2>4
    <3> QED  BY <1>2, <2>1, <2>2, <3>1
  <2> QED  BY <2>3, <2>4
<1>5. CASE ~hit
  <2>1. /\ Counted(hit) = showStats.total - showStats.hits + stats["auto_allow"]
        /\ Counted(hit)' =
             (showStats.total)' - (showStats.hits)' + stats'["auto_allow"]
    BY <1>5 DEF Counted
  <2> HIDE DEF showStats
  <2> QED  BY <1>1, <1>2, <1>3, <1>5, <2>1 DEF Event
<1> QED  BY <1>4, <1>5

(* A verdict that will not be counted, for a fault.                        *)
LEMMA LostCount ==
  ASSUME TypeOK, CountInv, Faults \in Nat, Faults' \in Nat,
         Faults' = Faults + 1, NEW new \in BOOLEAN,
         \A hit \in BOOLEAN :
           /\ Counted(hit)' = Counted(hit) /\ Logged(hit)' = Logged(hit)
           /\ IsFiniteSet(Waiting(hit)')
           /\ Uncounted(hit)' = IF hit = new THEN Uncounted(hit) - 1
                                ELSE Uncounted(hit)
  PROVE  CountInv'
<1>1. ASSUME NEW hit \in BOOLEAN
      PROVE  Gap(hit)' = IF hit = new THEN Gap(hit) - 1 ELSE Gap(hit)
  <2>1. CASE hit = new
    BY <2>1, GapTypes DEF Gap
  <2>2. CASE hit # new
    BY <2>2, GapTypes DEF Gap
  <2> QED  BY <2>1, <2>2
<1>2. Gap(new) \in Int
  BY GapTypes
<1>3. Gap(new)' \in Int /\ Gap(new)' \in Gap(new) - 1 .. Gap(new) + 1
  <2>1. Gap(new)' = Gap(new) - 1
    BY <1>1
  <2> HIDE DEF Gap
  <2> QED  BY <1>2, <2>1
<1>4. \A hit \in BOOLEAN \ {new} : Gap(hit)' = Gap(hit)
  BY <1>1
<1> QED  BY <1>3, <1>4, GapMoves

LEMMA WriteCount ==
  ASSUME HookInv, KeptInv, CountInv, NEW p \in Proc, WriteStats(p),
         Faults \in Nat, Faults' \in Nat, Faults <= Faults',
         Spend("faults") => Faults' = Faults + 1
  PROVE  CountInv'
<1> DEFINE c == call[p]
<1>1. /\ pc[p] = "stats" /\ pc' = [pc EXCEPT ![p] = AfterStats(c)]
      /\ call' = call /\ log' = log
      /\ \/ stats' = [stats EXCEPT ![EventOf(c.answer)] = @ + 1]
         \/ Spend("faults") /\ stats' = stats
  BY DEF WriteStats, Goto
<1>2. PICK new \in BOOLEAN : new = (c.answer = "hit")
  OBVIOUS
<1>3. c.answer \in Passing \cup {"hit"}
  BY <1>1 DEF KeptInv, RecordOK, Recording
<1>4. TypeOK
  BY DEF HookInv
<1>5. Others(p) /\ Pending(pc[p], c) /\ ~Pending(pc'[p], call'[p])
  BY <1>1, <1>4 DEF TypeOK, Others, Pending, AfterStats, StatsFirst
<1>6. ASSUME NEW hit \in BOOLEAN
      PROVE  /\ IsFiniteSet(Waiting(hit)')
             /\ Uncounted(hit)' = IF hit = new THEN Uncounted(hit) - 1
                                  ELSE Uncounted(hit)
  BY <1>2, <1>5, WaitsLess
<1>7. \A hit \in BOOLEAN : Logged(hit)' = Logged(hit)
  BY <1>1 DEF Logged
<1> HIDE DEF c
<1>8. CASE stats' = [stats EXCEPT ![EventOf(c.answer)] = @ + 1]
  <2>1. ASSUME NEW hit \in BOOLEAN
        PROVE  Counted(hit)' = IF hit = new THEN Counted(hit) + 1
                               ELSE Counted(hit)
    BY <1>2, <1>3, <1>4, <1>8, CountedOnce
  <2>2. ASSUME NEW hit \in BOOLEAN PROVE Gap(hit)' = Gap(hit)
    <3>1. CASE hit = new
      BY <1>4, <1>6, <1>7, <2>1, <3>1, GapTypes DEF Gap
    <3>2. CASE hit # new
      BY <1>4, <1>6, <1>7, <2>1, <3>2, GapTypes DEF Gap
    <3> QED  BY <3>1, <3>2
  <2> QED  BY <1>4, <1>6, <2>2, GapMoves
<1>9. CASE Spend("faults") /\ stats' = stats
  <2>1. \A hit \in BOOLEAN : Counted(hit)' = Counted(hit)
    BY <1>9 DEF Counted, showStats
  <2> QED  BY <1>4, <1>6, <1>7, <1>9, <2>1, LostCount
<1> QED  BY <1>1, <1>8, <1>9

(* A hook killed before it has counted its verdict never counts it.        *)
LEMMA CrashCount ==
  ASSUME HookInv, CountInv, NEW p \in Proc, Crash(p),
         Faults \in Nat, Faults' \in Nat, Faults' = Faults + 1
  PROVE  CountInv'
<1>1. TypeOK
  BY DEF HookInv
<1>2. /\ Others(p) /\ pc'[p] = "tool" /\ call' = call
      /\ log' = log /\ stats' = stats
  BY <1>1 DEF Crash, Goto, TypeOK, Others, cache
<1>3. ~Pending(pc'[p], call'[p])
  BY <1>2 DEF Pending
<1>4. CASE Pending(pc[p], call[p])
  <2>1. PICK new \in BOOLEAN : new = (call[p].answer = "hit")
    OBVIOUS
  <2>2. ASSUME NEW hit \in BOOLEAN
        PROVE  /\ IsFiniteSet(Waiting(hit)')
               /\ Uncounted(hit)' = IF hit = new THEN Uncounted(hit) - 1
                                    ELSE Uncounted(hit)
    BY <1>2, <1>3, <1>4, <2>1, WaitsLess
  <2>3. /\ \A hit \in BOOLEAN : Counted(hit)' = Counted(hit)
        /\ \A hit \in BOOLEAN : Logged(hit)' = Logged(hit)
    BY <1>2 DEF Counted, showStats, Logged
  <2> QED  BY <1>1, <2>2, <2>3, LostCount
<1>5. CASE ~Pending(pc[p], call[p])
  <2>1. \A q \in Proc :
          /\ Pending(pc'[q], call'[q]) <=> Pending(pc[q], call[q])
          /\ call'[q].answer = call[q].answer
    BY <1>2, <1>3, <1>5 DEF Others
  <2> QED  BY <1>1, <1>2, <2>1, CountSame
<1> QED  BY <1>4, <1>5

LEMMA CountNext ==
  ASSUME HookInv, TypeOK', ClockInv, KeptInv, BudgetInv, BudgetInv', NoClears',
         [Next]_vars, MaxClock - StartClock <= MaxAge, NoClears => CountInv
  PROVE  NoClears /\ CountInv'
<1>1. /\ budget["clears"] \in Nat /\ budget'["clears"] \in Nat
      /\ MaxClears \in Nat /\ TypeOK
  BY HookAssumption DEF HookInv, TypeOK
<1>2. NoClears
  BY <1>1, BudgetShrinks DEF BudgetInv, NoClears
<1>3. ~Spend("clears")
  BY <1>1, SpendLess DEF BudgetInv, NoClears
<1>4. /\ Faults \in Nat /\ Faults' \in Nat /\ Faults <= Faults'
      /\ Spend("faults") => Faults' = Faults + 1
  BY <1>1, FaultsStep
<1>5. CASE \/ UNCHANGED vars \/ Tick
           \/ \E q \in Path, c \in Content \cup {Gone} : Edit(q, c)
  <2>1. UNCHANGED <<pc, call, log, stats>>
    BY <1>5 DEF vars, cache, Tick, Edit
  <2> QED  BY <1>1, <1>2, <1>4, <2>1, CountSame
<1>6. ASSUME NEW p \in Proc,
             \/ HookStep(p) /\ ~AppendEntry(p) /\ ~WriteStats(p)
             \/ RunTool(p) \/ RejectTool(p) \/ \E k \in Key : Begin(p, k)
      PROVE  CountInv'
  <2>1. /\ Others(p) /\ UNCHANGED <<log, stats>>
        /\ Pending(pc'[p], call'[p]) <=> Pending(pc[p], call[p])
        /\ Pending(pc[p], call[p]) => call'[p].answer = call[p].answer
    BY <1>6, QuietCount
  <2> QED  BY <1>1, <1>2, <1>4, <2>1, CountSame DEF Others
<1>7. ASSUME NEW p \in Proc, AppendEntry(p) \/ WriteStats(p)
      PROVE  CountInv'
  BY <1>2, <1>4, <1>7, AppendCount, WriteCount
<1>8. ASSUME NEW p \in Proc, Crash(p)
      PROVE  CountInv'
  BY <1>2, <1>4, <1>8, CrashCount DEF Crash
<1> QED
  BY <1>2, <1>3, <1>5, <1>6, <1>7, <1>8 DEF Next, ClearFile, ClearSessions

LEMMA CountInit == Init => KeptInv /\ CountInv
<1> SUFFICES ASSUME Init PROVE KeptInv /\ CountInv
  OBVIOUS
<1>1. \A p \in Proc : pc[p] = "idle" /\ ~call[p].stale
  BY DEF Init, NoCall
<1>2. KeptInv
  BY <1>1 DEF Init, KeptInv, RecordOK, Recording
<1>3. \A hit \in BOOLEAN : Waiting(hit) = {} /\ IsFiniteSet(Waiting(hit))
  BY <1>1, FS_EmptySet DEF Waiting, Pending
<1>4. ASSUME NEW hit \in BOOLEAN PROVE Gap(hit) = 0
  <2>1. Uncounted(hit) = 0
    BY <1>3, WaitingCount, FS_EmptySet
  <2>2. {i \in DOMAIN log : (log[i].attempts > 0) = hit} = {}
    BY DEF Init
  <2>3. Logged(hit) = 0
    BY <2>2, FS_EmptySet DEF Logged
  <2>4. \A e \in Event : stats[e] = 0
    BY DEF Init
  <2>5. showStats.hits = 0 /\ showStats.total = 0 /\ stats["auto_allow"] = 0
    BY <2>4 DEF showStats, Event
  <2>6. Counted(hit) = 0
    BY <2>5 DEF Counted
  <2> QED  BY <2>1, <2>3, <2>6 DEF Gap
<1>5. Faults = 0
  BY HookAssumption DEF Init, Faults
<1>6. Within(0, 0, 0)
  BY DEF Within
<1>7. Within(Gap(TRUE), Gap(FALSE), Faults)
  BY <1>4, <1>5, <1>6, Zenon
<1> QED  BY <1>2, <1>3, <1>7 DEF CountInv

(* Every entry of the log is of one of the two kinds.                      *)
LEMMA LoggedAll ==
  ASSUME TypeOK
  PROVE  Logged(TRUE) + Logged(FALSE) = Len(log)
<1> DEFINE S == {i \in DOMAIN log : (log[i].attempts > 0) = TRUE}
           T == {i \in DOMAIN log : (log[i].attempts > 0) = FALSE}
<1>1. /\ Len(log) \in Nat /\ DOMAIN log = 1 .. Len(log)
      /\ IsFiniteSet(1 .. Len(log)) /\ Cardinality(1 .. Len(log)) = Len(log)
  <2>1. Len(log) \in Nat /\ DOMAIN log = 1 .. Len(log)
    BY DEF TypeOK
  <2>2. /\ IsFiniteSet(1 .. Len(log))
        /\ Cardinality(1 .. Len(log)) =
             IF 1 > Len(log) THEN 0 ELSE Len(log) - 1 + 1
    BY <2>1, FS_Interval
  <2> QED  BY <2>1, <2>2
<1>2. /\ S \in SUBSET (1 .. Len(log)) /\ T \in SUBSET (1 .. Len(log))
      /\ S \cap T = {} /\ S \cup T = 1 .. Len(log)
  BY <1>1
<1>3. Logged(TRUE) = Cardinality(S) /\ Logged(FALSE) = Cardinality(T)
  BY DEF Logged
<1> HIDE DEF S, T
<1>4. IsFiniteSet(S) /\ IsFiniteSet(T)
  BY <1>1, <1>2, FS_Subset
<1>5. /\ Cardinality(S) \in Nat /\ Cardinality(T) \in Nat
      /\ Cardinality(S \cap T) = 0
  BY <1>2, <1>4, FS_CardinalityType, FS_EmptySet
<1>6. Cardinality(S \cup T) =
        Cardinality(S) + Cardinality(T) - Cardinality(S \cap T)
  BY <1>4, FS_Union
<1>7. Cardinality(S \cup T) = Len(log)
  BY <1>1, <1>2
<1>8. \A m, n \in Nat : m + n - 0 = m + n
  OBVIOUS
<1> QED  BY <1>3, <1>5, <1>6, <1>7, <1>8

LEMMA CountMatches ==
  ASSUME TypeOK, CountInv, Faults \in Nat
  PROVE  StatsMatchLog
<1> DEFINE h == Counted(TRUE)
           r == Counted(FALSE)
<1>1. /\ h = showStats.hits
      /\ r = showStats.total - showStats.hits + stats["auto_allow"]
  BY DEF Counted
<1>2. /\ h \in Int /\ Uncounted(TRUE) \in Nat /\ Logged(TRUE) \in Nat
      /\ r \in Int /\ Uncounted(FALSE) \in Nat /\ Logged(FALSE) \in Nat
  BY GapTypes
<1>3. /\ Gap(TRUE) = h + Uncounted(TRUE) - Logged(TRUE)
      /\ Gap(FALSE) = r + Uncounted(FALSE) - Logged(FALSE)
  BY DEF Gap
<1>4. Logged(TRUE) + Logged(FALSE) = Len(log)
  BY LoggedAll
<1>5. Within(Gap(TRUE), Gap(FALSE), Faults)
  BY DEF CountInv
<1> HIDE DEF h, r
<1>6. ASSUME NEW x \in Int, NEW u \in Nat, NEW l \in Nat,
             NEW y \in Int, NEW v \in Nat, NEW m \in Nat, NEW f \in Nat,
             Within(x + u - l, y + v - m, f)
      PROVE  /\ (x + u) - l \in (-f)..f /\ (y + v) - m \in (-f)..f
             /\ (x + y + u + v) - (l + m) \in (-f)..f
  BY <1>6 DEF Within
<1>7. /\ (h + Uncounted(TRUE)) - Logged(TRUE) \in (-Faults)..Faults
      /\ (r + Uncounted(FALSE)) - Logged(FALSE) \in (-Faults)..Faults
      /\ (h + r + Uncounted(TRUE) + Uncounted(FALSE)) - Len(log)
           \in (-Faults)..Faults
  <2>1. Within(h + Uncounted(TRUE) - Logged(TRUE),
               r + Uncounted(FALSE) - Logged(FALSE), Faults)
    BY <1>3, <1>5, Zenon
  <2> QED  BY <1>2, <1>4, <1>6, <2>1, Zenon
<1>8. /\ ~Apart(h + Uncounted(TRUE), Logged(TRUE))
      /\ ~Apart(r + Uncounted(FALSE), Logged(FALSE))
      /\ ~Apart(h + r + Uncounted(TRUE) + Uncounted(FALSE), Len(log))
  BY <1>7, Zenon DEF Apart
<1> QED  BY <1>1, <1>8, Zenon DEF StatsMatchLog

(* The counts that the report prints are those of the log, but for the     *)
(* verdicts that their process has not counted yet and for one line for    *)
(* each hook that was killed or that a lock kept from writing, as long as  *)
(* nothing is cleared, in a session that is never older than what cleanup  *)
(* removes.                                                                *)
THEOREM HookStatsMatchLog ==
  ASSUME MaxClock - StartClock <= MaxAge
  PROVE  Spec => [](NoClears => StatsMatchLog)
<1> DEFINE Inv == BudgetInv /\ ClockInv /\ KeptInv /\ (NoClears => CountInv)
<1>1. Init => Inv
  BY BudgetInit, ClockInit, CountInit
<1>2. HookInv /\ HookInv' /\ Inv /\ [Next]_vars => Inv'
  BY BudgetNext, ClockNext, KeptNext, CountNext DEF HookInv
<1>3. HookInv /\ Inv => (NoClears => StatsMatchLog)
  <2>1. TypeOK /\ BudgetInv => Faults \in Nat
    BY HookAssumption DEF TypeOK, BudgetInv, Faults
  <2> QED  BY <2>1, CountMatches DEF HookInv
<1> QED  BY <1>1, <1>2, <1>3, HookInvariant, PTL DEF Spec

-----------------------------------------------------------------------------
(***************************************************************************)
(* HookProcess implements ReadOnce, for any number of processes, keys,     *)
(* files and contents.  To the invariant of HookProofs this adds that the  *)
(* times and mtimes the hook handles are within the bound of the clock, as *)
(* ReadOnce needs a set of versions, and that a process that has not read  *)
(* the file yet has no hash of it.                                         *)
(***************************************************************************)
Times == 0 .. MaxClock

LocalOK(step, c) ==
  /\ c.mtime \in Times /\ c.now \in Times
  /\ step \in {"idle", "cleanup", "ttl", "lookup"} => c.hash = NoHash

TimeInv ==
  /\ clock \in Times
  /\ \A q \in Path : file[q].mtime \in Times
  /\ \A w \in Words : w.mtime \in Times
  /\ \A p \in Proc : LocalOK(pc[p], call[p])

-----------------------------------------------------------------------------
(* Most steps leave the clock and the files alone, and change the local    *)
(* variables of one process.                                               *)
LEMMA TimesStay ==
  ASSUME TimeInv, UNCHANGED env,
         NEW p \in Proc, Others(p), LocalOK(pc'[p], call'[p]),
         \A w \in Words' : w \in Words \/ w.mtime = call'[p].mtime
  PROVE  TimeInv'
<1>1. \A w \in Words' : w.mtime \in Times
  BY DEF TimeInv, LocalOK
<1>2. \A q \in Proc : LocalOK(pc'[q], call'[q])
  BY DEF TimeInv, Others
<1> QED  BY <1>1, <1>2 DEF TimeInv, env, Times, LocalOK

LEMMA WordsStay ==
  ASSUME TimeInv, UNCHANGED <<env, released, refused>>,
         NEW p \in Proc, Others(p), LocalOK(pc'[p], call'[p])
  PROVE  TimeInv'
<1>1. Words' = Words
  BY DEF Words
<1> QED  BY <1>1, TimesStay

LEMMA ConcludeTimes ==
  ASSUME TypeOK, TimeInv, UNCHANGED env,
         NEW p \in Proc, NEW c \in Call, NEW a,
         Conclude(p, c, a), c.mtime \in Times, c.now \in Times
  PROVE  TimeInv'
<1>1. /\ Others(p) /\ Same(call'[p], c) /\ pc'[p] \in {"emit", "append"}
  BY ConcludeShape
<1>2. \A w \in Words' : w \in Words \/ w.mtime = c.mtime
  BY DEF Conclude, Words
<1> QED  BY <1>1, <1>2, TimesStay DEF Same, LocalOK

(* The entry that Lookup finds has an mtime that a word was given on.      *)
LEMMA LookupTimes ==
  ASSUME HookInv, TimeInv, NEW p \in Proc, Lookup(p)
  PROVE  TimeInv'
<1> DEFINE e == LastEntry(log, call[p].key)
           c == [call[p] EXCEPT !.last = e]
           d == [c EXCEPT !.mtime = e.mtime]
<1>1. /\ TypeOK /\ call[p] \in Call /\ LocalOK(pc[p], call[p])
  BY DEF HookInv, TypeOK, TimeInv
<1>2. /\ UNCHANGED env /\ c \in Call /\ FoundOK(Words, seen, c)
      /\ c.now = call[p].now /\ c.last = e
      /\ \/ /\ e # NoEntry /\ d \in Call /\ d.now = c.now
            /\ Conclude(p, d, HitAnswer(e, d.now, d.ttl))
         \/ /\ call' = [call EXCEPT ![p] = c]
            /\ Goto(p, "stat") /\ UNCHANGED verdicts
  BY LookupShape
<1>3. c.mtime = call[p].mtime
  BY <1>1 DEF Call
<1>4. d.mtime = e.mtime
  BY <1>2 DEF Call
<1> HIDE DEF e, c, d
<1>5. CASE /\ e # NoEntry /\ d \in Call /\ d.now = c.now
           /\ Conclude(p, d, HitAnswer(e, d.now, d.ttl))
  <2>1. Known(Words, seen, e)
    BY <1>2, <1>5 DEF FoundOK
  <2>2. e.mtime \in Times
    BY <2>1 DEF Known, WordOn, TimeInv
  <2> QED  BY <1>1, <1>2, <1>4, <1>5, <2>2, ConcludeTimes DEF LocalOK
<1>6. CASE /\ call' = [call EXCEPT ![p] = c]
           /\ Goto(p, "stat") /\ UNCHANGED verdicts
  <2>1. Others(p) /\ pc'[p] = "stat" /\ call'[p] = c
    BY <1>1, <1>6 DEF Goto, TypeOK, Others
  <2>2. LocalOK(pc'[p], call'[p])
    BY <1>1, <1>2, <1>3, <2>1 DEF LocalOK
  <2> QED  BY <1>2, <1>6, <2>1, <2>2, WordsStay DEF verdicts
<1> QED  BY <1>2, <1>5, <1>6

LEMMA StatTimes ==
  ASSUME TypeOK, TimeInv, NEW p \in Proc, Stat(p)
  PROVE  TimeInv'
<1>1. LocalOK(pc[p], call[p]) /\ PathOf[call[p].key] \in Path
  BY HookAssumption DEF TypeOK, Call, TimeInv
<1>2. file[PathOf[call[p].key]].mtime \in Times
  BY <1>1 DEF TimeInv
<1>3. LocalOK(pc'[p], call'[p])
  BY <1>1, <1>2, StatShape DEF LocalOK
<1> QED  BY <1>3, StatShape, WordsStay DEF verdicts

(* HashFile and the steps of a diff may conclude, with the mtime of the    *)
(* process as it was.                                                      *)
LEMMA VerdictTimes ==
  ASSUME HookInv, TimeInv, NEW p \in Proc,
         HashFile(p) \/ DiffShort(p) \/ Summarize(p)
  PROVE  TimeInv'
<1>1. TypeOK /\ LocalOK(pc[p], call[p])
  BY DEF HookInv, TimeInv
<1>2. CASE HashFile(p)
  <2> DEFINE c == Hashed(p)
  <2>1. /\ UNCHANGED env /\ c \in Call
        /\ c.now = call[p].now /\ c.mtime = call[p].mtime
        /\ \/ \E a : Conclude(p, c, a)
           \/ /\ call' = [call EXCEPT ![p] = c]
              /\ Goto(p, "diff") /\ UNCHANGED verdicts
    BY <1>2, HashFileShape
  <2> HIDE DEF c
  <2>2. CASE \E a : Conclude(p, c, a)
    BY <1>1, <2>1, <2>2, ConcludeTimes DEF LocalOK
  <2>3. CASE /\ call' = [call EXCEPT ![p] = c]
             /\ Goto(p, "diff") /\ UNCHANGED verdicts
    <3>1. Others(p) /\ pc'[p] = "diff" /\ call'[p] = c
      BY <1>1, <2>3 DEF Goto, TypeOK, Others
    <3> QED
      BY <1>1, <2>1, <2>3, <3>1, WordsStay DEF LocalOK, verdicts
  <2> QED  BY <2>1, <2>2, <2>3
<1>3. CASE DiffShort(p) \/ Summarize(p)
  <2>1. /\ UNCHANGED env /\ Compared(p) \in Call
        /\ Same(Compared(p), call[p])
        /\ \E a : Conclude(p, Compared(p), a)
    BY <1>3, DiffShape
  <2> QED  BY <1>1, <2>1, ConcludeTimes DEF Same, LocalOK
<1> QED  BY <1>2, <1>3

(* The steps after the verdict, and those of the client, give no verdict   *)
(* and no mtime.                                                           *)
LEMMA OtherTimes ==
  ASSUME TypeOK, TimeInv, NEW p \in Proc,
         \/ CleanUp(p) \/ ReadTTL(p) \/ DiffUnusable(p)
         \/ AppendEntry(p) \/ CopyRead(p) \/ CopyWrite(p) \/ WriteStats(p)
         \/ Emit(p) \/ RunTool(p) \/ RejectTool(p) \/ Crash(p)
         \/ \E k \in Key : Begin(p, k)
  PROVE  TimeInv'
<1>1. LocalOK(pc[p], call[p]) /\ clock \in Times /\ call[p] \in Call
  BY DEF TimeInv, TypeOK
<1>2. CASE CleanUp(p) \/ ReadTTL(p) \/ DiffUnusable(p)
  <2>1. /\ Others(p) /\ Same(call'[p], call[p])
        /\ UNCHANGED <<env, released, refused>>
        /\ \/ pc[p] = "cleanup" /\ pc'[p] = "ttl"
           \/ pc[p] = "ttl" /\ pc'[p] = "lookup"
           \/ pc[p] = "diff" /\ pc'[p] = "summary"
    BY <1>2, EarlyShape DEF verdicts
  <2>2. LocalOK(pc'[p], call'[p])
    BY <1>1, <2>1 DEF LocalOK, Same
  <2> QED  BY <2>1, <2>2, WordsStay
<1>3. CASE AppendEntry(p) \/ CopyRead(p) \/ CopyWrite(p) \/ WriteStats(p)
  <2>1. /\ Others(p) /\ Same(call'[p], call[p])
        /\ UNCHANGED <<env, released, refused>>
        /\ pc'[p] \in {"copy", "copy_write", "stats", "emit"}
    BY <1>3, RecordShape
  <2>2. LocalOK(pc'[p], call'[p])
    BY <1>1, <2>1 DEF LocalOK, Same
  <2> QED  BY <2>1, <2>2, WordsStay
<1>4. CASE Emit(p) \/ RunTool(p) \/ RejectTool(p) \/ Crash(p)
  <2>1. /\ Others(p) /\ UNCHANGED <<env, released, refused>>
        /\ \/ pc'[p] = "tool" /\ call'[p] = call[p]
           \/ pc'[p] = "idle" /\ call'[p] = NoCall(call[p].key)
    BY <1>4, EndShape DEF verdicts
  <2>2. 0 \in Times
    BY HookAssumption DEF Times
  <2>3. \A k : LocalOK("idle", NoCall(k))
    BY <2>2 DEF LocalOK, NoCall
  <2>4. LocalOK(pc'[p], call'[p])
    BY <1>1, <2>1, <2>3 DEF LocalOK
  <2> QED  BY <2>1, <2>4, WordsStay
<1>5. ASSUME NEW k \in Key, Begin(p, k) PROVE TimeInv'
  <2>1. /\ Others(p) /\ UNCHANGED <<env, released, refused>>
        /\ call'[p].now = clock /\ call'[p].hash = NoHash
    BY <1>5, BeginShape DEF verdicts
  <2>2. call'[p].mtime = 0
    BY <1>5 DEF Begin, NoCall, TypeOK
  <2>3. 0 \in Times
    BY HookAssumption DEF Times
  <2>4. LocalOK(pc'[p], call'[p])
    BY <1>1, <2>1, <2>2, <2>3 DEF LocalOK
  <2> QED  BY <2>1, <2>4, WordsStay
<1> QED  BY <1>2, <1>3, <1>4, <1>5

LEMMA WorldTimes ==
  ASSUME TypeOK, TimeInv,
         \/ \E q \in Path : ClearFile(q)
         \/ ClearSessions \/ Tick
         \/ \E q \in Path, c \in Content \cup {Gone} : Edit(q, c)
  PROVE  TimeInv'
<1>1. Words' = Words /\ call' = call /\ pc' = pc
  BY DEF ClearFile, ClearSessions, Tick, Edit, verdicts, Words
<1>2. clock' \in Times
  BY HookAssumption
  DEF ClearFile, ClearSessions, Tick, Edit, TimeInv, Times, env
<1>3. \A q \in Path : file'[q].mtime \in Times
  BY DEF ClearFile, ClearSessions, Tick, Edit, TimeInv, TypeOK, env
<1> QED  BY <1>1, <1>2, <1>3 DEF TimeInv, Times, LocalOK

LEMMA TimesNext == HookInv /\ TimeInv /\ [Next]_vars => TimeInv'
<1> SUFFICES ASSUME HookInv, TimeInv, [Next]_vars PROVE TimeInv'
  OBVIOUS
<1>1. TypeOK
  BY DEF HookInv
<1>2. CASE UNCHANGED vars
  BY <1>2 DEF TimeInv, Times, LocalOK, Words, vars, env, verdicts
<1>3. CASE Next
  BY <1>1, <1>3, LookupTimes, StatTimes, VerdictTimes, OtherTimes, WorldTimes
  DEF Next, HookStep
<1> QED  BY <1>2, <1>3

LEMMA TimesInit == Init => TimeInv
<1> SUFFICES ASSUME Init PROVE TimeInv
  OBVIOUS
<1>1. 0 \in Times /\ StartClock \in Times
  BY HookAssumption DEF Times
<1>2. ASSUME NEW p \in Proc PROVE LocalOK(pc[p], call[p])
  <2>1. PICK k \in Key : call[p] = NoCall(k)
    BY DEF Init
  <2> QED  BY <1>1, <2>1 DEF LocalOK, NoCall
<1>3. \A q \in Path : file[q].mtime = 0
  BY DEF Init
<1> QED  BY <1>1, <1>2, <1>3 DEF Init, TimeInv, Words

-----------------------------------------------------------------------------
(* The mapping of HookProcess to ReadOnce: the words told so far, and what *)
(* a process asks for or was told.                                         *)
ToldBy(r) == [key |-> r.key, version |-> VersionOf(r), at |-> r.at]

Told == {ToldBy(r) : r \in Words}

ReadOf(p) ==
  IF pc[p] \in {"idle", "tool"} THEN [word |-> "none"]
  ELSE IF Settled(p) /\ call[p].answer \in Passing \cup {"hit"}
  THEN [word |-> IF call[p].answer = "hit" THEN "refused" ELSE "passed",
        key |-> call[p].key, version |-> VersionOf(call[p])]
  ELSE [word |-> "asked", key |-> call[p].key]

Reads == [p \in Proc |-> ReadOf(p)]

Versions == [mtime : 0 .. MaxClock, hash : Content \cup {NoHash}]

LEMMA PromiseSame ==
  ASSUME Told' = Told, Reads' = Reads
  PROVE  UNCHANGED Promise!vars
  BY DEF Promise!vars, Told, ToldBy, Words, Reads, ReadOf

LEMMA PromiseEnd ==
  ASSUME NEW p \in Proc, Reads[p] # Promise!NoRead,
         Reads' = [Reads EXCEPT ![p] = Promise!NoRead], Told' = Told
  PROVE  Promise!Next
<1>1. Promise!End(p)
  BY DEF Promise!End, Told, ToldBy, Words, Reads, ReadOf
<1> QED  BY <1>1 DEF Promise!Next

LEMMA PromiseAsk ==
  ASSUME NEW p \in Proc, NEW k \in Key, Reads[p] = Promise!NoRead,
         Reads' = [Reads EXCEPT ![p] = Promise!Asked(k)], Told' = Told
  PROVE  Promise!Next
<1>1. Promise!Ask(p)
  BY DEF Promise!Ask, Told, ToldBy, Words, Reads, ReadOf
<1> QED  BY <1>1 DEF Promise!Next

Recent(k, v, t) ==
  \E w \in Told : w.key = k /\ SameVersion(w.version, v) /\ t - w.at < 3 * BaseTTL

LEMMA PromiseJudge ==
  ASSUME NEW p \in Proc, NEW k \in Key, NEW v \in Versions, NEW t \in Times,
         Reads[p] = Promise!Asked(k),
         Told' = Told \cup {[key |-> k, version |-> v, at |-> t]},
         \/ Reads' = [Reads EXCEPT ![p] = Promise!Judged("passed", k, v)]
         \/ /\ Recent(k, v, t)
            /\ Reads' = [Reads EXCEPT ![p] = Promise!Judged("refused", k, v)]
  PROVE  Promise!Next
<1>1. Recent(k, v, t) => Promise!Refusable(k, v, t)
  BY DEF Recent, Promise!Refusable, Told, ToldBy, Words
<1>2. Promise!Judge(p)
  BY <1>1
  DEF Promise!Judge, Told, ToldBy, Words, Reads, ReadOf, Versions, Times
<1> QED  BY <1>2 DEF Promise!Next

-----------------------------------------------------------------------------
(* The words told stay when no verdict is given, and what a process was    *)
(* told is a matter of where it is and of its local variables.             *)
LEMMA ToldStays ==
  ASSUME UNCHANGED <<released, refused>>
  PROVE  Told' = Told
  BY DEF Told, Words

LEMMA ReadStaysPut ==
  ASSUME NEW q \in Proc, call'[q] = call[q], pc'[q] = pc[q]
  PROVE  ReadOf(q)' = ReadOf(q)
  BY DEF ReadOf, VersionOf, Settled

LEMMA ReadsChange ==
  ASSUME NEW p \in Proc, Others(p)
  PROVE  Reads' = [Reads EXCEPT ![p] = ReadOf(p)']
<1>1. \A q \in Proc \ {p} : ReadOf(q)' = ReadOf(q)
  BY ReadStaysPut DEF Others
<1> QED  BY <1>1 DEF Reads

(* A step that gives no verdict: what p was told stays, or its read ends.  *)
LEMMA QuietRefines ==
  ASSUME NEW p \in Proc, Others(p), UNCHANGED <<released, refused>>,
         ReadOf(p)' \in {ReadOf(p), Promise!NoRead}
  PROVE  [Promise!Next]_(Promise!vars)
<1>1. Told' = Told /\ Reads' = [Reads EXCEPT ![p] = ReadOf(p)']
  BY ToldStays, ReadsChange
<1>2. Reads[p] = ReadOf(p)
  BY DEF Reads
<1>3. CASE ReadOf(p)' = ReadOf(p)
  <2>1. Reads' = Reads
    BY <1>1, <1>2, <1>3 DEF Reads
  <2> QED  BY <1>1, <2>1, PromiseSame
<1>4. CASE ReadOf(p)' # ReadOf(p)
  BY <1>1, <1>2, <1>4, PromiseEnd
<1> QED  BY <1>3, <1>4

(* A verdict: a version passes, or one that a recent word was given on is  *)
(* refused, or the read is blocked and none is given.                      *)
LEMMA ConcludeRefines ==
  ASSUME TypeOK, NEW p \in Proc, NEW c \in Call,
         NEW a \in Passing \cup {"hit", "blocked"}, Conclude(p, c, a),
         pc[p] \in Early \ {"idle"}, c.key = call[p].key,
         c.mtime \in Times, c.now \in Times,
         a = "hit" => Recent(c.key, VersionOf(c), c.now)
  PROVE  [Promise!Next]_(Promise!vars)
<1> DEFINE v == VersionOf(c)
<1>1. /\ Others(p) /\ Same(call'[p], c) /\ call'[p].answer = a
      /\ pc'[p] = IF a = "blocked" THEN "emit" ELSE "append"
  BY ConcludeShape
<1>2. ReadOf(p) = Promise!Asked(c.key)
  BY DEF ReadOf, Settled, Early, Promise!Asked
<1>3. CASE a = "blocked"
  <2>1. UNCHANGED <<released, refused>>
    BY <1>3 DEF Conclude, Passing
  <2>2. ReadOf(p)' = ReadOf(p)
    BY <1>1, <1>2, <1>3 DEF ReadOf, Settled, Passing, Same, Promise!Asked
  <2> QED  BY <1>1, <2>1, <2>2, QuietRefines
<1>4. CASE a # "blocked"
  <2>1. /\ c.key \in Key /\ v \in Versions
    BY DEF VersionOf, Versions, Call, Hash, Times
  <2>2. ReadOf(p)' =
          Promise!Judged(IF a = "hit" THEN "refused" ELSE "passed", c.key, v)
    <3>1. VersionOf(call'[p]) = v
      BY <1>1 DEF VersionOf, Same
    <3> QED
      BY <1>1, <1>4, <3>1 DEF ReadOf, Settled, Same, Promise!Judged, VersionOf
  <2>3. Told' = Told \cup {[key |-> c.key, version |-> v, at |-> c.now]}
    <3> DEFINE r == [key |-> c.key, mtime |-> c.mtime, hash |-> c.hash,
                     at |-> c.now]
    <3>1. Words' = Words \cup {r}
      BY <1>4 DEF Conclude, Words, Passing
    <3>2. ToldBy(r) = [key |-> c.key, version |-> v, at |-> c.now]
      BY DEF ToldBy, VersionOf
    <3> HIDE DEF r
    <3> QED  BY <3>1, <3>2 DEF Told
  <2>4. Reads' = [Reads EXCEPT ![p] = ReadOf(p)']
    BY <1>1, ReadsChange
  <2>5. Reads[p] = Promise!Asked(c.key)
    BY <1>2 DEF Reads
  <2> HIDE DEF v
  <2>6. CASE a = "hit"
    BY <2>1, <2>2, <2>3, <2>4, <2>5, <2>6, PromiseJudge DEF v
  <2>7. CASE a # "hit"
    BY <2>1, <2>2, <2>3, <2>4, <2>5, <2>7, PromiseJudge
  <2> QED  BY <2>6, <2>7
<1> QED  BY <1>3, <1>4

(* An entry that was found is the record of a recent word, as long as it   *)
(* has not expired.                                                        *)
LEMMA FoundIsRecent ==
  ASSUME NEW c \in Call, FoundOK(Words, seen, c), c.last # NoEntry,
         HitAnswer(c.last, c.now, c.ttl) = "hit",
         c.mtime = c.last.mtime, SameHash(c.last.hash, c.hash)
  PROVE  Recent(c.key, VersionOf(c), c.now)
<1> DEFINE e == c.last
           w == WordOn(e.key, e.mtime, e.hash, e.ts)
<1>1. e \in Entry /\ e.key = c.key /\ w \in Words
  BY DEF Call, FoundOK, Known
<1>2. /\ w.key = e.key /\ w.mtime = e.mtime /\ w.hash = e.hash
      /\ w.at = e.ts
  BY DEF WordOn
<1>3. c.now - e.ts < 3 * BaseTTL
  BY <1>1, HitIsFresh DEF FoundOK, Call
<1> HIDE DEF w, e
<1>4. ToldBy(w) \in Told
  BY <1>1 DEF Told
<1>5. /\ ToldBy(w).key = c.key /\ ToldBy(w).at = e.ts
      /\ SameVersion(ToldBy(w).version, VersionOf(c))
  BY <1>1, <1>2 DEF ToldBy, SameVersion, VersionOf, e
<1> QED  BY <1>3, <1>4, <1>5 DEF Recent

-----------------------------------------------------------------------------
LEMMA VerdictRefines ==
  ASSUME HookInv, TimeInv, NEW p \in Proc,
         Lookup(p) \/ HashFile(p) \/ DiffShort(p) \/ Summarize(p)
  PROVE  [Promise!Next]_(Promise!vars)
<1>1. TypeOK /\ call[p] \in Call /\ LocalOK(pc[p], call[p])
  BY DEF HookInv, TypeOK, TimeInv
<1>2. \A e, t, u : HitAnswer(e, t, u) \in Passing \cup {"hit", "blocked"}
  BY HitAnswers DEF Passing
<1>3. ASSUME NEW c, call' = [call EXCEPT ![p] = c], NEW s \in {"stat", "diff"},
             Goto(p, s), UNCHANGED verdicts, c.key = call[p].key,
             pc[p] \in Early \ {"idle"}
      PROVE  [Promise!Next]_(Promise!vars)
  <2>1. Others(p) /\ pc'[p] = s /\ call'[p] = c
    BY <1>1, <1>3 DEF Goto, TypeOK, Others
  <2>2. ReadOf(p)' = ReadOf(p)
    BY <1>3, <2>1 DEF ReadOf, Settled, Early
  <2> QED  BY <1>3, <2>1, <2>2, QuietRefines DEF verdicts
<1>4. CASE Lookup(p)
  <2> DEFINE e == LastEntry(log, call[p].key)
             c == [call[p] EXCEPT !.last = e]
             d == [c EXCEPT !.mtime = e.mtime]
  <2>1. /\ pc[p] = "lookup" /\ c \in Call /\ FoundOK(Words, seen, c)
        /\ c.key = call[p].key /\ c.now = call[p].now /\ c.last = e
        /\ \/ /\ e # NoEntry /\ d \in Call /\ d.key = c.key /\ d.now = c.now
              /\ d.last = e /\ Conclude(p, d, HitAnswer(e, d.now, d.ttl))
           \/ /\ call' = [call EXCEPT ![p] = c]
              /\ Goto(p, "stat") /\ UNCHANGED verdicts
    BY <1>4, LookupShape
  <2>2. /\ c.hash = NoHash /\ d.hash = c.hash /\ d.mtime = e.mtime
        /\ d.ttl = c.ttl
    <3>1. call[p].hash = NoHash
      BY <1>1, <2>1 DEF LocalOK
    <3>2. c.hash = NoHash
      BY <1>1, <3>1 DEF Call
    <3>3. d.hash = c.hash /\ d.mtime = e.mtime /\ d.ttl = c.ttl
      BY <2>1 DEF Call
    <3> QED  BY <3>2, <3>3
  <2> HIDE DEF c, d, e
  <2>3. CASE /\ e # NoEntry /\ d \in Call /\ d.key = c.key /\ d.now = c.now
             /\ d.last = e /\ Conclude(p, d, HitAnswer(e, d.now, d.ttl))
    <3>1. FoundOK(Words, seen, d)
      BY <2>1, <2>2, <2>3 DEF FoundOK
    <3>2. e.mtime \in Times
      <4>1. Known(Words, seen, e)
        BY <2>3, <3>1 DEF FoundOK
      <4> QED  BY <4>1 DEF Known, WordOn, TimeInv
    <3>3. HitAnswer(e, d.now, d.ttl) = "hit" =>
            Recent(d.key, VersionOf(d), d.now)
      BY <2>2, <2>3, <3>1, FoundIsRecent DEF SameHash
    <3> QED
      BY <1>1, <1>2, <2>1, <2>2, <2>3, <3>2, <3>3, ConcludeRefines
      DEF Early, LocalOK
  <2>4. CASE call' = [call EXCEPT ![p] = c] /\ Goto(p, "stat")
               /\ UNCHANGED verdicts
    BY <1>3, <2>1, <2>4 DEF Early
  <2> QED  BY <2>1, <2>3, <2>4
<1>5. CASE HashFile(p)
  <2> DEFINE c == Hashed(p)
  <2>1. /\ pc[p] = "hash" /\ c \in Call /\ FoundOK(Words, seen, c)
        /\ c.key = call[p].key /\ c.now = call[p].now
        /\ c.last = call[p].last /\ c.mtime = call[p].mtime
        /\ c.hash # NoHash => HashMode
        /\ \/ Unchanged(c) /\ Conclude(p, c, HitAnswer(c.last, c.now, c.ttl))
           \/ /\ call' = [call EXCEPT ![p] = c]
              /\ Goto(p, "diff") /\ UNCHANGED verdicts
           \/ \E a \in {"miss", "blocked", "changed"} : Conclude(p, c, a)
    BY <1>5, HashFileShape
  <2> HIDE DEF c
  <2>2. CASE /\ Unchanged(c)
             /\ Conclude(p, c, HitAnswer(c.last, c.now, c.ttl))
    <3>1. c.last # NoEntry /\ c.mtime = c.last.mtime
          /\ SameHash(c.last.hash, c.hash)
      BY <2>1, <2>2 DEF Unchanged, SameHash
    <3>2. HitAnswer(c.last, c.now, c.ttl) = "hit" =>
            Recent(c.key, VersionOf(c), c.now)
      BY <2>1, <3>1, FoundIsRecent
    <3> QED
      BY <1>1, <1>2, <2>1, <2>2, <3>2, ConcludeRefines DEF Early, LocalOK
  <2>3. CASE \E a \in {"miss", "blocked", "changed"} : Conclude(p, c, a)
    BY <1>1, <2>1, <2>3, ConcludeRefines DEF Early, LocalOK, Passing
  <2>4. CASE call' = [call EXCEPT ![p] = c] /\ Goto(p, "diff")
               /\ UNCHANGED verdicts
    BY <1>3, <2>1, <2>4 DEF Early
  <2> QED  BY <2>1, <2>2, <2>3, <2>4
<1>6. CASE DiffShort(p) \/ Summarize(p)
  <2>1. /\ pc[p] \in {"diff", "summary"}
        /\ Compared(p) \in Call /\ Same(Compared(p), call[p])
        /\ \E a \in {"miss", "diff", "summary", "blocked", "changed"} :
             Conclude(p, Compared(p), a)
    BY <1>6, DiffShape
  <2> QED
    BY <1>1, <2>1, ConcludeRefines DEF Early, LocalOK, Same, Passing
<1> QED  BY <1>4, <1>5, <1>6

(* Before the verdict the read is asked for, the verdict stands while it   *)
(* is recorded, and after the hook nothing is left of it.                  *)
LEMMA StepRefines ==
  ASSUME TypeOK, NEW p \in Proc,
         \/ CleanUp(p) \/ ReadTTL(p) \/ Stat(p) \/ DiffUnusable(p)
         \/ AppendEntry(p) \/ CopyRead(p) \/ CopyWrite(p) \/ WriteStats(p)
         \/ Emit(p) \/ RunTool(p) \/ RejectTool(p) \/ Crash(p)
         \/ \E k \in Key : Begin(p, k)
  PROVE  [Promise!Next]_(Promise!vars)
<1>1. CASE CleanUp(p) \/ ReadTTL(p) \/ DiffUnusable(p)
  <2>1. /\ Others(p) /\ UNCHANGED <<released, refused>>
        /\ call'[p].key = call[p].key
        /\ pc[p] \in Early \ {"idle"} /\ pc'[p] \in Early \ {"idle"}
    BY <1>1, EarlyShape DEF Same, Early, verdicts
  <2>2. ReadOf(p)' = ReadOf(p)
    BY <2>1 DEF ReadOf, Settled, Early
  <2> QED  BY <2>1, <2>2, QuietRefines
<1>2. CASE Stat(p)
  <2>1. /\ Others(p) /\ UNCHANGED <<released, refused>>
        /\ call'[p].key = call[p].key
        /\ pc[p] = "stat" /\ pc'[p] \in {"tool", "hash"}
    BY <1>2, StatShape DEF verdicts
  <2>2. ReadOf(p)' \in {ReadOf(p), Promise!NoRead}
    BY <2>1 DEF ReadOf, Settled, Promise!NoRead
  <2> QED  BY <2>1, <2>2, QuietRefines
<1>3. CASE AppendEntry(p) \/ CopyRead(p) \/ CopyWrite(p) \/ WriteStats(p)
  <2>1. /\ Others(p) /\ UNCHANGED <<released, refused>>
        /\ Same(call'[p], call[p]) /\ call'[p].answer = call[p].answer
        /\ pc[p] \in Recording
        /\ pc'[p] \in {"copy", "copy_write", "stats", "emit"}
    BY <1>3, RecordShape
  <2>2. ReadOf(p)' = ReadOf(p)
    BY <2>1 DEF ReadOf, Settled, VersionOf, Same, Recording
  <2> QED  BY <2>1, <2>2, QuietRefines
<1>4. CASE Emit(p) \/ RunTool(p) \/ RejectTool(p) \/ Crash(p)
  <2>1. /\ Others(p) /\ UNCHANGED <<released, refused>>
        /\ pc'[p] \in {"tool", "idle"}
    BY <1>4, EndShape DEF verdicts
  <2>2. ReadOf(p)' = Promise!NoRead
    BY <2>1 DEF ReadOf, Promise!NoRead
  <2> QED  BY <2>1, <2>2, QuietRefines
<1>5. ASSUME NEW k \in Key, Begin(p, k)
      PROVE  [Promise!Next]_(Promise!vars)
  <2>1. /\ Others(p) /\ UNCHANGED <<released, refused>>
        /\ pc[p] = "idle" /\ pc'[p] \in {"cleanup", "ttl"}
        /\ call'[p].key = k
    BY <1>5, BeginShape DEF verdicts
  <2>2. ReadOf(p) = Promise!NoRead /\ ReadOf(p)' = Promise!Asked(k)
    BY <2>1 DEF ReadOf, Settled, Promise!NoRead, Promise!Asked
  <2>3. Told' = Told /\ Reads' = [Reads EXCEPT ![p] = Promise!Asked(k)]
    BY <2>1, <2>2, ToldStays, ReadsChange
  <2>4. Reads[p] = Promise!NoRead
    BY <2>2 DEF Reads
  <2> QED  BY <2>3, <2>4, PromiseAsk
<1> QED  BY <1>1, <1>2, <1>3, <1>4, <1>5

LEMMA WorldRefines ==
  ASSUME UNCHANGED <<pc, call, released, refused>>
  PROVE  [Promise!Next]_(Promise!vars)
<1>1. \A q \in Proc : ReadOf(q)' = ReadOf(q)
  BY ReadStaysPut
<1>2. Reads' = Reads
  BY <1>1 DEF Reads
<1> QED  BY <1>2, ToldStays, PromiseSame

LEMMA PromiseStep ==
  HookInv /\ TimeInv /\ [Next]_vars => [Promise!Next]_(Promise!vars)
<1> SUFFICES ASSUME HookInv, TimeInv, [Next]_vars
             PROVE  [Promise!Next]_(Promise!vars)
  OBVIOUS
<1>1. TypeOK
  BY DEF HookInv
<1>2. CASE \/ UNCHANGED vars \/ ClearSessions \/ Tick
           \/ \E q \in Path : ClearFile(q)
           \/ \E q \in Path, c \in Content \cup {Gone} : Edit(q, c)
  BY <1>2, WorldRefines
  DEF vars, verdicts, ClearSessions, Tick, ClearFile, Edit
<1>3. CASE \E p \in Proc : \/ HookStep(p) \/ RunTool(p) \/ RejectTool(p)
                           \/ Crash(p) \/ \E k \in Key : Begin(p, k)
  BY <1>1, <1>3, VerdictRefines, StepRefines DEF HookStep
<1> QED  BY <1>2, <1>3 DEF Next

LEMMA PromiseInit == Init => Promise!Init
<1> SUFFICES ASSUME Init PROVE Promise!Init
  OBVIOUS
<1>1. Told = {}
  BY DEF Init, Told, Words
<1>2. Reads = [p \in Proc |-> Promise!NoRead]
  BY DEF Init, Reads, ReadOf, Promise!NoRead
<1> QED
  BY <1>1, <1>2 DEF Promise!Init, Told, ToldBy, Words, Reads, ReadOf

(* The hook implements ReadOnce: whatever processes, editors, cleanups,    *)
(* clears and faults do at any point of its run, a read is judged once,    *)
(* and refused only a version that a word of less than 3 * BaseTTL ago was *)
(* given on.                                                               *)
THEOREM HookKeepsPromise == Spec => KeepsPromise
<1>1. HookInv /\ TimeInv /\ [Next]_vars => TimeInv'
  BY TimesNext
<1>2. Spec => []TimeInv
  BY <1>1, TimesInit, HookInvariant, PTL DEF Spec
<1> QED
  BY <1>2, PromiseInit, PromiseStep, HookInvariant, PTL
  DEF Spec, KeepsPromise, Promise!Spec
=============================================================================
