---------------------------- MODULE HookProcess ----------------------------
(***************************************************************************)
(* The hook processes of one session (runHookMode and handleCacheHit,      *)
(* hook.go).  The client starts one short-lived process per Read call, in  *)
(* parallel when the agent reads in parallel.  A process shares nothing    *)
(* with the others but files: the session log, the snapshots, the stats    *)
(* and the cleanup marker.  Each of its system calls on them is a step of  *)
(* its own here, so that the steps of two processes, of an editor and of   *)
(* the user's own commands interleave as they can on a real machine.       *)
(*                                                                         *)
(* An append to the log or to the stats is one step that happens or is     *)
(* skipped, which is what FileLock shows of acquireFileLock and            *)
(* appendJSONLine.                                                         *)
(***************************************************************************)
EXTENDS ReadPolicy, FiniteSets

CONSTANTS Proc,            \* hook processes that may run at the same time
          Path,            \* files
          PathOf,          \* the file a cache key is about
          Ranged,          \* the keys that carry a line range
          Gone,            \* the content of a missing file
          Empty,           \* a snapshot truncated and not yet written
          NoSnap,          \* no snapshot file
          Client,          \* READ_ONCE_CLIENT: claude, codex or opencode
          HashMode,        \* READ_ONCE_HASH=1
          DiffMode,        \* READ_ONCE_DIFF=1
          UnchangedMode,   \* READ_ONCE_MODE_UNCHANGED
          ChangedMode,     \* READ_ONCE_MODE_CHANGED
          CleanupEvery,    \* seconds between two cleanups (3600)
          MaxAge           \* age at which cleanup removes a file (24 h)

CONSTANTS StartClock,      \* the time of the first call
          MaxClock,        \* bound: the time of the last call
          MaxCalls,        \* bound: Read calls of the agent
          MaxEdits,        \* bound: changes of files
          MaxFaults,       \* bound: killed processes and lock timeouts
          MaxClears,       \* bound: clear and clear-file commands
          SameSecondEdits, \* a file may change twice within its mtime's second
          Vanishing,       \* a file may become missing
          Rejecting        \* an allowed Read may be rejected by the user

Modes == {"deny", "warn", "allow"}

Stored == Content \cup {Empty, NoSnap}

ASSUME HookAssumption ==
  /\ PathOf \in [Key -> Path]
  /\ Ranged \subseteq Key
  /\ Gone \notin Content /\ Empty \notin Content /\ NoSnap \notin Content
  /\ Client \in {"claude", "codex", "opencode"}
  /\ HashMode \in BOOLEAN /\ DiffMode \in BOOLEAN
  /\ UnchangedMode \in Modes /\ ChangedMode \in Modes
  /\ CleanupEvery \in Nat /\ MaxAge \in Nat
  /\ StartClock \in Nat /\ Decay < StartClock /\ StartClock <= MaxClock
  /\ {MaxClock, MaxCalls, MaxEdits, MaxFaults, MaxClears} \subseteq Nat
  /\ {SameSecondEdits, Vanishing, Rejecting} \subseteq BOOLEAN

VARIABLES
  clock,     \* wall clock, in seconds
  file,      \* the files of the project: content and mtime in seconds
  log,       \* the session log session-<hash>.jsonl; empty when missing
  touched,   \* mtime of the session log
  snap,      \* the snapshot of each key: content and mtime
  stats,     \* number of stats.jsonl lines of each event
  cleaned,   \* time in the marker .last-cleanup, 0 when missing
  pc,        \* next step of each hook process
  call,      \* local variables of each hook process
  budget,    \* what is left of the bounds
  held,      \* history: contents the agent was shown for each key
  released,  \* history: the verdicts other than "hit" and "blocked"
  refused,   \* history: the "hit" verdicts
  seen,      \* history: latest time of a call that recorded each key
  streak,    \* history: consecutive "hit" verdicts of each key
  forgotten  \* history: time of a clear-file of the key, not released since

env     == <<clock, file>>
cache   == <<log, touched, snap, stats, cleaned>>
verdicts == <<released, refused, seen, streak, forgotten>>
vars    == <<env, cache, pc, call, budget, held, verdicts>>

-----------------------------------------------------------------------------
Event == {"miss", "changed", "expired", "auto_allow", "hit", "diff"}

(* The ways handleCacheHit and runHookMode can end; "none" before they do. *)
Answer == Event \cup {"summary", "blocked", "none"}

(* The verdicts after which the agent gets the file or its changes.        *)
Passing == {"miss", "changed", "expired", "auto_allow", "diff", "summary"}

Steps == {"idle", "cleanup", "ttl", "lookup", "stat", "hash", "diff",
          "summary", "append", "copy", "copy_write", "stats", "emit", "tool"}

File == [content : Content \cup {Gone}, mtime : Nat]

Call == [key : Key, now : Nat, ttl : Nat, stale : BOOLEAN,
         last : Entry \cup {NoEntry}, mtime : Mtime, hash : Hash,
         answer : Answer, base : Stored, target : Content \cup {Gone, Empty},
         copied : Content \cup {Empty}]

Release == [key : Key, mtime : Mtime, hash : Hash, at : Nat]

NoCall(k) == [key |-> k, now |-> 0, ttl |-> 0, stale |-> FALSE,
              last |-> NoEntry, mtime |-> 0, hash |-> NoHash,
              answer |-> "none", base |-> NoSnap, target |-> Empty,
              copied |-> Empty]

Init ==
  /\ clock = StartClock
  /\ file \in [Path -> {[content |-> c, mtime |-> 0] : c \in Content}]
  /\ log = <<>> /\ touched = 0
  /\ snap = [k \in Key |-> [content |-> NoSnap, time |-> 0]]
  /\ stats = [e \in Event |-> 0]
  /\ cleaned = 0
  /\ pc = [p \in Proc |-> "idle"]
  /\ call \in [Proc -> {NoCall(k) : k \in Key}]
  /\ budget = [calls |-> MaxCalls, edits |-> MaxEdits,
               faults |-> MaxFaults, clears |-> MaxClears]
  /\ held = [k \in Key |-> {}]
  /\ released = {} /\ refused = {}
  /\ seen = [k \in Key |-> 0]
  /\ streak = [k \in Key |-> [n |-> 0, at |-> 0]]
  /\ forgotten = [k \in Key |-> 0]

(* An unknown hash is equal to any.                                        *)
SameHash(a, b) == a = b \/ NoHash \in {a, b}

Goto(p, step) == pc' = [pc EXCEPT ![p] = step]

(* The local variables are lost with the process.                          *)
Exit(p) ==
  /\ Goto(p, "idle")
  /\ call' = [call EXCEPT ![p] = NoCall(call[p].key)]

Spend(what) ==
  /\ budget[what] > 0
  /\ budget' = [budget EXCEPT ![what] = @ - 1]

-----------------------------------------------------------------------------
(***************************************************************************)
(* The start of a process: the time is taken once, and when the last       *)
(* cleanup is old enough the files are examined for removal.               *)
(***************************************************************************)
CleanupDue(now) == now - cleaned > CleanupEvery

Old(time) == time < clock - MaxAge

Begin(p, k) ==
  /\ pc[p] = "idle"
  /\ Spend("calls")
  /\ call' = [call EXCEPT ![p] = [NoCall(k) EXCEPT
                !.now = clock,
                !.stale = CleanupDue(clock) /\ log # <<>> /\ Old(touched)]]
  /\ Goto(p, IF CleanupDue(clock) THEN "cleanup" ELSE "ttl")
  /\ UNCHANGED <<env, cache, held, verdicts>>

(* runCleanup: the session log found old is removed, and so are the old    *)
(* snapshots, and the marker takes the time of the process.                *)
CleanUp(p) ==
  /\ pc[p] = "cleanup"
  /\ log' = IF call[p].stale THEN <<>> ELSE log
  /\ snap' = [k \in Key |-> IF snap[k].content # NoSnap /\ Old(snap[k].time)
                            THEN [content |-> NoSnap, time |-> 0]
                            ELSE snap[k]]
  /\ cleaned' = call[p].now
  /\ Goto(p, "ttl")
  /\ UNCHANGED <<env, touched, stats, call, budget, held, verdicts>>

(* computeAdaptiveTTL: a first scan of the log.                            *)
ReadTTL(p) ==
  /\ pc[p] = "ttl"
  /\ call' = [call EXCEPT ![p].ttl = AdaptiveTTL(log, call[p].now)]
  /\ Goto(p, "lookup")
  /\ UNCHANGED <<env, cache, budget, held, verdicts>>

-----------------------------------------------------------------------------
(***************************************************************************)
(* The verdict.  Conclude(p, c, a): process p, with local variables c,     *)
(* settles on answer a; every answer but "blocked" is then recorded.       *)
(***************************************************************************)
Streak(k, c, a) ==
  IF a = "hit"
  THEN [n |-> IF c.now - streak[k].at <= Decay THEN streak[k].n + 1 ELSE 1,
        at |-> c.now]
  ELSE IF a \in Passing THEN [n |-> 0, at |-> 0] ELSE streak[k]

Conclude(p, c, a) ==
  LET k    == c.key
      this == {[key |-> k, mtime |-> c.mtime, hash |-> c.hash, at |-> c.now]}
  IN
  /\ call' = [call EXCEPT ![p] = [c EXCEPT !.answer = a]]
  /\ Goto(p, IF a = "blocked" THEN "emit" ELSE "append")
  /\ released' = IF a \in Passing THEN released \cup this ELSE released
  /\ refused' = IF a = "hit" THEN refused \cup this ELSE refused
  /\ streak' = [streak EXCEPT ![k] = Streak(k, c, a)]
  /\ forgotten' = IF a \in Passing THEN [forgotten EXCEPT ![k] = 0]
                                   ELSE forgotten
  /\ UNCHANGED seen

(* Faulty variant: the fast path is taken with hash validation as well.    *)
LookupTrusting(p) ==
  LET e == LastEntry(log, call[p].key)
      c == [call[p] EXCEPT !.last = e]
  IN  /\ pc[p] = "lookup"
      /\ \/ /\ e # NoEntry
            /\ Conclude(p, [c EXCEPT !.mtime = e.mtime],
                        HitAnswer(e, c.now, c.ttl))
         \/ /\ e = NoEntry
            /\ call' = [call EXCEPT ![p] = c]
            /\ Goto(p, "stat")
            /\ UNCHANGED verdicts
      /\ UNCHANGED <<env, cache, budget, held>>

(* readLastCacheEntry.  Without hash validation a usable entry is answered *)
(* at once, with the mtime of the entry, and the file is not looked at.    *)
Lookup(p) ==
  LET e == LastEntry(log, call[p].key)
      c == [call[p] EXCEPT !.last = e]
  IN  /\ pc[p] = "lookup"
      /\ \/ /\ e # NoEntry /\ ~HashMode
            /\ Conclude(p, [c EXCEPT !.mtime = e.mtime],
                        HitAnswer(e, c.now, c.ttl))
         \/ /\ e = NoEntry \/ HashMode
            /\ call' = [call EXCEPT ![p] = c]
            /\ Goto(p, "stat")
            /\ UNCHANGED verdicts
      /\ UNCHANGED <<env, cache, budget, held>>

(* A missing file is left to the client without a trace.  So are           *)
(* directories, large files and binary ones, which are not among Path.     *)
Stat(p) ==
  LET f == file[PathOf[call[p].key]]
  IN  /\ pc[p] = "stat"
      /\ \/ /\ f.content = Gone
            /\ Goto(p, "tool")
            /\ UNCHANGED call
         \/ /\ f.content # Gone
            /\ call' = [call EXCEPT ![p].mtime = f.mtime]
            /\ Goto(p, "hash")
      /\ UNCHANGED <<env, cache, budget, held, verdicts>>

Diffing(k) == DiffMode /\ k \notin Ranged

(* Faulty variants: the hash, or the mtime, is not compared.               *)
UnchangedNoHash(c) == c.last # NoEntry /\ c.last.mtime = c.mtime

UnchangedNoMtime(c) ==
  c.last # NoEntry /\ (HashMode => SameHash(c.last.hash, c.hash))

UnchangedIfKnown(c) == c.last # NoEntry

Unchanged(c) ==
  /\ c.last # NoEntry
  /\ c.last.mtime = c.mtime
  /\ HashMode => SameHash(c.last.hash, c.hash)

(* The end of runHookMode: changedMode deny blocks a changed file and      *)
(* records nothing; else the read passes as a miss or as changed.          *)
PassOrBlock(p, c) ==
  \/ c.last = NoEntry /\ Conclude(p, c, "miss")
  \/ c.last # NoEntry /\ ChangedMode = "deny" /\ Conclude(p, c, "blocked")
  \/ c.last # NoEntry /\ ChangedMode # "deny" /\ Conclude(p, c, "changed")

(* fileContentHash, and the branches that follow it.                       *)
HashFile(p) ==
  LET now  == file[PathOf[call[p].key]].content
      hash == IF HashMode /\ now # Gone THEN now ELSE NoHash
      c    == [call[p] EXCEPT !.hash = hash]
      diff == /\ ~Unchanged(c) /\ c.last # NoEntry
              /\ Diffing(c.key) /\ snap[c.key].content # NoSnap
  IN  /\ pc[p] = "hash"
      /\ \/ Unchanged(c) /\ Conclude(p, c, HitAnswer(c.last, c.now, c.ttl))
         \/ /\ diff
            /\ call' = [call EXCEPT ![p] = c]
            /\ Goto(p, "diff")
            /\ UNCHANGED verdicts
         \/ ~Unchanged(c) /\ ~diff /\ PassOrBlock(p, c)
      /\ UNCHANGED <<env, cache, budget, held>>

(***************************************************************************)
(* unifiedDiff runs diff(1) on the snapshot and the file as they are now.  *)
(* A missing one of the two makes diff print an error, which is taken for  *)
(* a difference.  An output that is empty or has too many lines leads to   *)
(* summarizeDiff, which runs diff(1) again.                                *)
(***************************************************************************)
Compared(p) ==
  [call[p] EXCEPT !.base = snap[call[p].key].content,
                  !.target = file[PathOf[call[p].key]].content]

DiffShort(p) ==
  LET c == Compared(p)
  IN  /\ pc[p] = "diff"
      /\ c.base # c.target
      /\ Conclude(p, c, "diff")
      /\ UNCHANGED <<env, cache, budget, held>>

DiffUnusable(p) ==
  /\ pc[p] = "diff"
  /\ Goto(p, "summary")
  /\ UNCHANGED <<env, cache, call, budget, held, verdicts>>

Summarize(p) ==
  LET c    == Compared(p)
      some == c.base \notin {NoSnap, c.target} /\ c.target # Gone
  IN  /\ pc[p] = "summary"
      /\ \/ some /\ Conclude(p, c, "summary")
         \/ ~some /\ PassOrBlock(p, c)
      /\ UNCHANGED <<env, cache, budget, held>>

-----------------------------------------------------------------------------
(***************************************************************************)
(* Recording the verdict: the cache entry, the snapshot and the stats, in  *)
(* an order that depends on the verdict.                                   *)
(***************************************************************************)
NewEntry(c) ==
  [key |-> c.key, mtime |-> c.mtime, ts |-> c.now, hash |-> c.hash,
   lastAttempt |-> IF c.answer = "hit" THEN c.now ELSE 0,
   attempts |-> IF c.answer = "hit" THEN Attempts(c.last, c.now) ELSE 0]

StatsFirst(a) == a \in {"expired", "auto_allow", "hit"}

AfterAppend(c) ==
  IF StatsFirst(c.answer) \/ ~Diffing(c.key) THEN "stats" ELSE "copy"

(* Faulty variant: the return after the summary of a diff is left out, and *)
(* the read is judged once more.                                           *)
AfterStatsOnward(c) ==
  IF c.answer \in {"expired", "auto_allow"} /\ Diffing(c.key)
  THEN "copy" ELSE IF c.answer = "summary" THEN "summary" ELSE "emit"

AfterStats(c) ==
  IF c.answer \in {"expired", "auto_allow"} /\ Diffing(c.key)
  THEN "copy" ELSE "emit"

AfterCopy(c) == IF StatsFirst(c.answer) THEN "emit" ELSE "stats"

(* appendJSONLine on the session log, or the lock timed out.               *)
AppendEntry(p) ==
  LET c == call[p]
  IN  /\ pc[p] = "append"
      /\ \/ /\ log' = Append(log, NewEntry(c))
            /\ touched' = clock
            /\ UNCHANGED budget
         \/ /\ Spend("faults")
            /\ UNCHANGED <<log, touched>>
      /\ seen' = IF c.now <= seen[c.key] THEN seen
                 ELSE [seen EXCEPT ![c.key] = c.now]
      /\ Goto(p, AfterAppend(c))
      /\ UNCHANGED <<env, snap, stats, cleaned, call, held, released, refused,
                     streak, forgotten>>

(* Faulty variant: the error of reading the file is not looked at.         *)
CopyReadUnchecked(p) ==
  LET c == call[p]
      f == file[PathOf[c.key]].content
  IN  /\ pc[p] = "copy"
      /\ snap' = [snap EXCEPT ![c.key] = [content |-> Empty, time |-> clock]]
      /\ call' = [call EXCEPT ![p].copied = f]
      /\ Goto(p, "copy_write")
      /\ UNCHANGED <<env, log, touched, stats, cleaned, budget, held, verdicts>>

(* copyFile reads the file, truncates the snapshot, then writes it; a file *)
(* that cannot be read leaves the snapshot as it was.                      *)
CopyRead(p) ==
  LET c == call[p]
      f == file[PathOf[c.key]].content
  IN  /\ pc[p] = "copy"
      /\ \/ /\ f = Gone
            /\ Goto(p, AfterCopy(c))
            /\ UNCHANGED <<snap, call>>
         \/ /\ f # Gone
            /\ snap' = [snap EXCEPT ![c.key] =
                          [content |-> Empty, time |-> clock]]
            /\ call' = [call EXCEPT ![p].copied = f]
            /\ Goto(p, "copy_write")
      /\ UNCHANGED <<env, log, touched, stats, cleaned, budget, held, verdicts>>

CopyWrite(p) ==
  LET c == call[p]
  IN  /\ pc[p] = "copy_write"
      /\ snap' = [snap EXCEPT ![c.key] =
                    [content |-> c.copied, time |-> clock]]
      /\ Goto(p, AfterCopy(c))
      /\ UNCHANGED <<env, log, touched, stats, cleaned, call, budget, held,
                     verdicts>>

(* Faulty variant: a read that was let through is counted as a hit.        *)
EventOfAttempt(a) ==
  IF a = "summary" THEN "diff" ELSE IF a = "auto_allow" THEN "hit" ELSE a

EventOf(a) == IF a = "summary" THEN "diff" ELSE a

WriteStats(p) ==
  /\ pc[p] = "stats"
  /\ \/ /\ stats' = [stats EXCEPT ![EventOf(call[p].answer)] = @ + 1]
        /\ UNCHANGED budget
     \/ /\ Spend("faults")
        /\ UNCHANGED stats
  /\ Goto(p, AfterStats(call[p]))
  /\ UNCHANGED <<env, log, touched, snap, cleaned, call, held, verdicts>>

-----------------------------------------------------------------------------
(***************************************************************************)
(* emitHookDecision.  In deny mode the reason goes to stderr and the exit  *)
(* status is 2; in warn mode the reason goes to stdout as JSON, unless the *)
(* client is Codex.  Claude Code and Codex take exit status 2 as a refusal *)
(* and show the reason to the agent.  The OpenCode plugin looks at stdout  *)
(* only, for a decision "deny", and shows nothing.                         *)
(***************************************************************************)
ModeOf(a) == CASE a = "hit"                           -> UnchangedMode
               [] a \in {"diff", "summary", "blocked"} -> ChangedMode
               [] OTHER                                -> "allow"

Refused(c) == ModeOf(c.answer) = "deny"

Blocked(c) == Refused(c) /\ Client # "opencode"

Shown(c) ==
  \/ Blocked(c)
  \/ ModeOf(c.answer) = "warn" /\ Client = "claude"

(* A diff gives the agent the new content if it has the old one.           *)
Learned(c) ==
  IF /\ c.answer = "diff" /\ Shown(c)
     /\ c.base \in held[c.key] /\ c.target \in Content
  THEN {c.target} ELSE {}

Emit(p) ==
  LET c == call[p]
  IN  /\ pc[p] = "emit"
      /\ held' = [held EXCEPT ![c.key] = @ \cup Learned(c)]
      /\ IF Blocked(c)
         THEN Exit(p)
         ELSE Goto(p, "tool") /\ UNCHANGED call
      /\ UNCHANGED <<env, cache, budget, verdicts>>

(* The client runs the tool that the hook let pass.                        *)
RunTool(p) ==
  LET k == call[p].key
      f == file[PathOf[k]].content
  IN  /\ pc[p] = "tool"
      /\ held' = [held EXCEPT ![k] = IF f = Gone THEN @ ELSE @ \cup {f}]
      /\ Exit(p)
      /\ UNCHANGED <<env, cache, budget, verdicts>>

(* The user rejects the tool call, or it fails.                            *)
RejectTool(p) ==
  /\ Rejecting
  /\ pc[p] = "tool"
  /\ Exit(p)
  /\ UNCHANGED <<env, cache, budget, held, verdicts>>

(* A hook killed by the client (its time is limited) or by the system: the *)
(* tool runs, as after any failure with a status other than 2.             *)
Crash(p) ==
  /\ pc[p] \notin {"idle", "tool"}
  /\ Spend("faults")
  /\ Goto(p, "tool")
  /\ UNCHANGED <<env, cache, call, held, verdicts>>

-----------------------------------------------------------------------------
(***************************************************************************)
(* clear-file and the MCP tool readOnceClearCache: a tombstone for every   *)
(* key of the path that the log knows.                                     *)
(***************************************************************************)
Tombstones(q) ==
  LET keys == {k \in KeysOf(log) : PathOf[k] = q}
  IN  {s \in [1 .. Cardinality(keys) -> {Tombstone(k) : k \in keys}] :
         \A k \in keys : \E i \in DOMAIN s : s[i] = Tombstone(k)}

ClearFile(q) ==
  /\ Spend("clears")
  /\ \E s \in Tombstones(q) :
       /\ log' = log \o s
       /\ touched' = IF s = <<>> THEN touched ELSE clock
  /\ forgotten' = [k \in Key |-> IF PathOf[k] = q THEN clock ELSE forgotten[k]]
  /\ UNCHANGED <<env, snap, stats, cleaned, pc, call, held, released, refused,
                 seen, streak>>

(* clear: the session logs are removed; stats and snapshots stay.          *)
ClearSessions ==
  /\ Spend("clears")
  /\ log' = <<>>
  /\ UNCHANGED <<env, touched, snap, stats, cleaned, pc, call, held, verdicts>>

(***************************************************************************)
(* The world around the hook: time passes and files change.                *)
(***************************************************************************)
Tick ==
  /\ clock < MaxClock
  /\ clock' = clock + 1
  /\ UNCHANGED <<file, cache, pc, call, budget, held, verdicts>>

Edit(q, c) ==
  /\ c # file[q].content
  /\ c = Gone => Vanishing
  /\ SameSecondEdits \/ file[q].mtime < clock
  /\ Spend("edits")
  /\ file' = [file EXCEPT ![q] = [content |-> c, mtime |-> clock]]
  /\ UNCHANGED <<clock, cache, pc, call, held, verdicts>>

HookStep(p) ==
  \/ CleanUp(p) \/ ReadTTL(p) \/ Lookup(p) \/ Stat(p) \/ HashFile(p)
  \/ DiffShort(p) \/ DiffUnusable(p) \/ Summarize(p)
  \/ AppendEntry(p) \/ CopyRead(p) \/ CopyWrite(p) \/ WriteStats(p) \/ Emit(p)

Next ==
  \/ \E p \in Proc : HookStep(p)
  \/ \E p \in Proc, k \in Key : Begin(p, k)
  \/ \E p \in Proc : RunTool(p) \/ RejectTool(p) \/ Crash(p)
  \/ \E q \in Path : ClearFile(q)
  \/ ClearSessions
  \/ Tick
  \/ \E q \in Path, c \in Content \cup {Gone} : Edit(q, c)

Spec == Init /\ [][Next]_vars

-----------------------------------------------------------------------------
(***************************************************************************)
(* Properties.  A process has settled on an answer until it emits it.      *)
(***************************************************************************)
Settled(p) == pc[p] \in {"append", "copy", "copy_write", "stats", "emit"}

Answers(p, a) == Settled(p) /\ call[p].answer = a

(* Every variable has the values the code can give it.                     *)
TypeOK ==
  /\ clock \in Nat
  /\ file \in [Path -> File]
  /\ log \in Seq(Entry)
  /\ touched \in Nat
  /\ snap \in [Key -> [content : Stored, time : Nat]]
  /\ stats \in [Event -> Nat]
  /\ cleaned \in Nat
  /\ pc \in [Proc -> Steps]
  /\ call \in [Proc -> Call]
  /\ budget \in [{"calls", "edits", "faults", "clears"} -> Nat]
  /\ held \in [Key -> SUBSET Content]
  /\ released \subseteq Release /\ refused \subseteq Release
  /\ seen \in [Key -> Nat]
  /\ streak \in [Key -> [n : Nat, at : Nat]]
  /\ forgotten \in [Key -> Nat]

(* "Unchanged" is only said of a version of the file that an earlier call  *)
(* of the same key let the agent have: the mtime, and with hash validation *)
(* the content as well as far as it could be read, were recorded by a      *)
(* verdict that passed.  It holds whatever other processes, cleanups and   *)
(* clears do between the scan of the log and the verdict, through any      *)
(* chain of "hit" entries.                                                 *)
UnchangedWasReleased ==
  \A p \in Proc : Answers(p, "hit") =>
    \E r \in released :
      /\ r.key = call[p].key /\ r.mtime = call[p].mtime
      /\ SameHash(r.hash, call[p].hash)

(* "Unchanged" is true: the file still has the mtime, and with hash        *)
(* validation the content, of the entry the answer is taken from, unless   *)
(* it changed after the process started.                                   *)
UnchangedIsTrue ==
  \A p \in Proc : Answers(p, "hit") =>
    LET f == file[PathOf[call[p].key]]
    IN  \/ /\ f.mtime = call[p].last.mtime
           /\ SameHash(f.content, call[p].last.hash)
        \/ f.mtime >= call[p].now

(* Compaction safety: whatever the growth of the adaptive TTL, a key that  *)
(* no other call has touched for three times BaseTTL is not refused as     *)
(* unchanged.  It is stated where the verdict has just been found, before  *)
(* the call itself is recorded.                                            *)
UntouchedNotRefused ==
  \A p \in Proc : pc[p] = "append" /\ call[p].answer = "hit" =>
    call[p].now - seen[call[p].key] < 3 * BaseTTL

(* Killed processes and lock timeouts so far.                              *)
Faults == MaxFaults - budget.faults

(* An agent that insists gets the file: with calls one after the other,    *)
(* never AutoAllow "hit" verdicts of a key follow each other at most Decay *)
(* seconds apart.  A hook whose entry is lost sets the count back, once.   *)
StreakBounded ==
  AutoAllow > 0 =>
    \A k \in Key : streak[k].n <= (AutoAllow - 1) * (Faults + 1)

(* What the refusal says, "already in context": when a call is refused as  *)
(* unchanged, and the file has not changed since the call started, the     *)
(* agent was shown the content the hook found, or is about to be, by a     *)
(* call whose tool has not run yet.                                        *)
RefusedIsHeld ==
  \A p \in Proc : pc[p] = "emit" /\ Answers(p, "hit") =>
    \/ call[p].hash \in held[call[p].key]
    \/ \E o \in Proc : /\ call[o].answer \in Passing
                       /\ call[o].key = call[p].key
                       /\ call[o].hash = call[p].hash
    \/ file[PathOf[call[p].key]].mtime >= call[p].now

(* The counts that the report of "stats" prints.  It has no case for       *)
(* auto_allow: a read that was let through is neither a hit nor a read.    *)
showStats ==
  [hits  |-> stats["hit"],
   total |-> stats["hit"] + stats["diff"] + stats["miss"] + stats["changed"]
               + stats["expired"]]

(* The report and the log tell the same story, but for one line of either  *)
(* of them for each hook that was killed or that the lock kept from        *)
(* writing: every entry of the log is counted once, and as a hit if it is  *)
(* one, as soon as its process has written its stats.  The total of the    *)
(* report leaves out the reads that were let through (showStats,           *)
(* appendJSONLine).                                                        *)
Logged(hit) == Cardinality({i \in DOMAIN log : (log[i].attempts > 0) = hit})

Uncounted(hit) ==
  Cardinality({p \in Proc :
    /\ (call[p].answer = "hit") = hit
    /\ \/ pc[p] = "stats"
       \/ pc[p] \in {"copy", "copy_write"} /\ ~StatsFirst(call[p].answer)})

Apart(m, n) == m - n \notin (-Faults)..Faults

StatsMatchLog ==
  LET reads == showStats.total - showStats.hits + stats["auto_allow"]
  IN  /\ ~Apart(showStats.hits + Uncounted(TRUE), Logged(TRUE))
      /\ ~Apart(reads + Uncounted(FALSE), Logged(FALSE))
      /\ ~Apart(showStats.hits + reads + Uncounted(TRUE) + Uncounted(FALSE),
               Len(log))

(* A diff is shown as the changes since a version the agent already has.   *)
DiffBaseHeld ==
  \A p \in Proc : pc[p] = "emit" /\ Answers(p, "diff") =>
    call[p].base \in held[call[p].key]

(* After expiry, re-reads are allowed: a call that found an entry as old   *)
(* as its TTL is not refused.                                              *)
AllowedAfterExpiry ==
  \A p \in Proc : pc[p] = "emit" /\ Refused(call[p]) =>
    ~Expired(call[p].last, call[p].now, call[p].ttl)

(* Mode deny blocks: the tool of a call the hook refused does not run,     *)
(* unless the hook was killed.                                             *)
DenyBlocks ==
  MaxFaults = 0 => \A p \in Proc : pc[p] = "tool" => ~Refused(call[p])

(* After clear-file succeeded, a call that starts later is not answered    *)
(* from the entries that were there before.                                *)
ClearedIsForgotten ==
  \A p \in Proc : Answers(p, "hit") =>
    LET at == forgotten[call[p].key] IN ~(0 < at /\ at < call[p].now)

-----------------------------------------------------------------------------
(***************************************************************************)
(* The mapping to ReadOnce.  A version of a file is its mtime, and with    *)
(* hash validation its content, as far as it could be read.  A hook that   *)
(* has been killed, or whose tool is to run, has no more to say.           *)
(***************************************************************************)
VersionOf(r) == [mtime |-> r.mtime, hash |-> r.hash]

SameVersion(v, w) == v.mtime = w.mtime /\ SameHash(v.hash, w.hash)

Promise == INSTANCE ReadOnce WITH
  Reader <- Proc,
  Version <- [mtime : 0..MaxClock, hash : Content \cup {NoHash}],
  Same <- SameVersion,
  Time <- 0..MaxClock,
  Limit <- 3 * BaseTTL,
  told <- {[key |-> r.key, version |-> VersionOf(r), at |-> r.at] :
             r \in released \cup refused},
  read <- [p \in Proc |->
    IF pc[p] \in {"idle", "tool"} THEN [word |-> "none"]
    ELSE IF Settled(p) /\ call[p].answer \in Passing \cup {"hit"}
    THEN [word |-> IF call[p].answer = "hit" THEN "refused" ELSE "passed",
          key |-> call[p].key, version |-> VersionOf(call[p])]
    ELSE [word |-> "asked", key |-> call[p].key]]

(* The hook keeps the promise of ReadOnce: with other hooks, cleanups and  *)
(* clears at any point of its run, each of its steps is one of a reader    *)
(* that is judged once, and refused only what it was told of a short time  *)
(* ago, or none.                                                           *)
KeepsPromise == Promise!Spec
=============================================================================
