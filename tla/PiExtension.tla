----------------------------- MODULE PiExtension -----------------------------
(***************************************************************************)
(* The extension for Pi (templates/pi-extension.ts): the same policy as    *)
(* the hook, written a second time, with the cache in the memory of one    *)
(* process.  checkFile runs to its end before anything else of the         *)
(* extension does, but it asks the file system up to four times, and the   *)
(* file may change between two of these; the tools of calls that passed    *)
(* run later, in any order.                                                *)
(***************************************************************************)
EXTENDS Integers, FiniteSets

CONSTANTS Slot,       \* tool calls that may be under way at the same time
          Key,        \* cache keys: a path, or a path with an offset
          Path,       \* files
          PathOf,     \* the file a cache key is about
          Content,    \* the contents a file may have
          Gone,       \* the content of a missing file
          NoHash,     \* no hash: HASH_MODE is off, or the file is missing
          NoEntry,    \* the key is not in the cache
          MODE,       \* READ_ONCE_MODE: warn, deny or allow
          HASH_MODE,  \* READ_ONCE_HASH
          TTL,        \* READ_ONCE_TTL
          Ramp,       \* session age that adds one more TTL (600 s)
          DECAY,      \* READ_ONCE_DECAY
          AUTO_ALLOW  \* READ_ONCE_AUTO_ALLOW, 0 for never

CONSTANTS MaxClock,       \* bound: the time of the last call
          MaxCalls,       \* bound: tool calls
          MaxEdits,       \* bound: changes of files
          MaxClears,      \* bound: calls of readOnceClearCache
          SameTickEdits,  \* a file may change twice within a unit of mtime
          Vanishing       \* a file may become missing

ASSUME PiAssumption ==
  /\ PathOf \in [Key -> Path]
  /\ Gone \notin Content /\ NoHash \notin Content
  /\ MODE \in {"warn", "deny", "allow"}
  /\ {HASH_MODE, SameTickEdits, Vanishing} \subseteq BOOLEAN
  /\ {TTL, DECAY, AUTO_ALLOW} \subseteq Nat /\ Ramp \in Nat \ {0}
  /\ {MaxClock, MaxCalls, MaxEdits, MaxClears} \subseteq Nat

VARIABLES
  clock,    \* time since the session started
  file,     \* the files: content and mtime
  cache,    \* the Map of the extension: an entry or NoEntry for each key
  stats,    \* number of stats entries of each event
  pc,       \* where each tool call is
  call,     \* local variables of checkFile, for each tool call
  budget,   \* what is left of the bounds
  held,     \* history: contents the agent was shown for each key
  seen,     \* history: time of the last verdict recorded for each key
  streak,   \* history: consecutive refusals of each key
  cleared   \* history: the key was cleared and has not passed since

history == <<seen, streak, cleared>>
vars    == <<clock, file, cache, stats, pc, call, budget, held, history>>

-----------------------------------------------------------------------------
Entry == [mtime : Nat, ts : Nat, attempts : Nat, lastAttempt : Nat,
          hash : Content \cup {NoHash}]

ASSUME NoEntryAssumption == NoEntry \notin Entry

Event == {"miss", "changed", "expired", "auto_allow", "hit"}

(* "allowed" is a hit in mode allow, which is let pass without a trace in  *)
(* the stats; "none" before the verdict and for a missing file.            *)
Answer == Event \cup {"allowed", "none"}

(* The verdicts after which the agent gets a version not recorded before.  *)
Passing == {"miss", "changed", "expired", "auto_allow"}

Steps == {"idle", "restat", "rehash", "validate", "count", "stat", "hash",
          "tool"}

Call == [key : Key, now : Nat, entry : Entry \cup {NoEntry}, mtime : Nat,
         hash : Content \cup {NoHash}, answer : Answer]

NoCall(k) == [key |-> k, now |-> 0, entry |-> NoEntry, mtime |-> 0,
              hash |-> NoHash, answer |-> "none"]

Init ==
  /\ clock = 0
  /\ file \in [Path -> {[content |-> c, mtime |-> 0] : c \in Content}]
  /\ cache = [k \in Key |-> NoEntry]
  /\ stats = [e \in Event |-> 0]
  /\ pc = [p \in Slot |-> "idle"]
  /\ call \in [Slot -> {NoCall(k) : k \in Key}]
  /\ budget = [calls |-> MaxCalls, edits |-> MaxEdits, clears |-> MaxClears]
  /\ held = [k \in Key |-> {}]
  /\ seen = [k \in Key |-> 0]
  /\ streak = [k \in Key |-> [n |-> 0, at |-> 0]]
  /\ cleared = [k \in Key |-> FALSE]

Goto(p, step) == pc' = [pc EXCEPT ![p] = step]

Exit(p) ==
  /\ Goto(p, "idle")
  /\ call' = [call EXCEPT ![p] = NoCall(call[p].key)]

Spend(what) ==
  /\ budget[what] > 0
  /\ budget' = [budget EXCEPT ![what] = @ - 1]

(* One thread: nothing of the extension runs in the middle of checkFile.   *)
Quiet == \A p \in Slot : pc[p] \in {"idle", "tool"}

FileOf(p) == file[PathOf[call[p].key]]

fileHash(p) == IF HASH_MODE /\ FileOf(p).content # Gone
               THEN FileOf(p).content ELSE NoHash

-----------------------------------------------------------------------------
(* Faulty variant: the growth of the TTL is not capped.                    *)
UncappedTTL(age) == TTL + (TTL * age) \div Ramp

(* TTL for a new session, growing linearly up to three times TTL.          *)
adaptiveTTL(age) ==
  LET grown == TTL + (TTL * age) \div Ramp
  IN  IF grown > 3 * TTL THEN 3 * TTL ELSE grown

isExpired(e, now) == now - e.ts > adaptiveTTL(now)

(* Faulty variant: an attempt that opens a streak is not counted.          *)
LateAttempts(e, now) ==
  IF now - e.lastAttempt <= DECAY THEN e.attempts + 1 ELSE 0

Attempts(e, now) ==
  IF now - e.lastAttempt <= DECAY THEN e.attempts + 1 ELSE 1

-----------------------------------------------------------------------------
(***************************************************************************)
(* checkFile settles on answer a and records the version m, h of the file. *)
(***************************************************************************)
Record(p, a, m, h) ==
  LET k   == call[p].key
      now == call[p].now
  IN  /\ cache' = [cache EXCEPT ![k] =
           [mtime |-> m, ts |-> now, lastAttempt |-> now, hash |-> h,
            attempts |-> IF a = "hit" THEN Attempts(call[p].entry, now)
                         ELSE 0]]
      /\ stats' = IF a \in {"hit", "allowed"}
                  THEN stats ELSE [stats EXCEPT ![a] = @ + 1]
      /\ call' = [call EXCEPT ![p].answer = a, ![p].hash = h]
      /\ Goto(p, IF a = "hit" THEN "count" ELSE "tool")
      /\ seen' = [seen EXCEPT ![k] = now]
      /\ streak' = [streak EXCEPT ![k] =
           IF a # "hit" THEN [n |-> 0, at |-> 0]
           ELSE [n |-> IF now - @.at <= DECAY THEN @.n + 1 ELSE 1,
                 at |-> now]]
      /\ cleared' = IF a \in Passing THEN [cleared EXCEPT ![k] = FALSE]
                    ELSE cleared

(* The start of checkFile, up to the test for an entry that has not        *)
(* expired.  A missing file is left to the tool.                           *)
Begin(p, k) ==
  LET e     == cache[k]
      fresh == e # NoEntry /\ ~isExpired(e, clock)
  IN  /\ pc[p] = "idle" /\ Quiet
      /\ Spend("calls")
      /\ call' = [call EXCEPT ![p] =
                    [NoCall(k) EXCEPT !.now = clock, !.entry = e]]
      /\ Goto(p, IF file[PathOf[k]].content = Gone THEN "tool"
                 ELSE IF fresh THEN "restat" ELSE "stat")
      /\ UNCHANGED <<clock, file, cache, stats, held, history>>

(* Faulty variant: the mtime is not compared.                              *)
RestatBlind(p) ==
  /\ pc[p] = "restat"
  /\ Goto(p, "validate")
  /\ UNCHANGED <<clock, file, cache, stats, call, budget, held, history>>

(* The file is looked at again: the entry of a missing one is deleted.     *)
Restat(p) ==
  LET f == FileOf(p)
      e == call[p].entry
  IN  /\ pc[p] = "restat"
      /\ \/ /\ f.content = Gone
            /\ cache' = [cache EXCEPT ![call[p].key] = NoEntry]
            /\ Goto(p, "tool")
            /\ UNCHANGED call
         \/ /\ f.content # Gone /\ f.mtime # e.mtime
            /\ call' = [call EXCEPT ![p].mtime = f.mtime]
            /\ Goto(p, "rehash")
            /\ UNCHANGED cache
         \/ /\ f.content # Gone /\ f.mtime = e.mtime
            /\ Goto(p, "validate")
            /\ UNCHANGED <<cache, call>>
      /\ UNCHANGED <<clock, file, stats, budget, held, history>>

Rehash(p) ==
  /\ pc[p] = "rehash"
  /\ Record(p, "changed", call[p].mtime, fileHash(p))
  /\ UNCHANGED <<clock, file, budget, held>>

HitAnswer(e, now) ==
  IF AUTO_ALLOW > 0 /\ Attempts(e, now) >= AUTO_ALLOW THEN "auto_allow"
  ELSE IF MODE = "allow" THEN "allowed" ELSE "hit"

(* The mtime is that of the entry: the hash decides, when there are two to *)
(* compare.  Every mode but allow refuses a hit.                           *)
Validate(p) ==
  LET e       == call[p].entry
      hash    == fileHash(p)
      changed == e.hash # NoHash /\ hash # NoHash /\ hash # e.hash
  IN  /\ pc[p] = "validate"
      /\ \/ changed /\ Record(p, "changed", e.mtime, hash)
         \/ /\ ~changed
            /\ Record(p, HitAnswer(e, call[p].now), e.mtime, e.hash)
      /\ UNCHANGED <<clock, file, budget, held>>

(* A refusal is counted with the size of the file, if it is still there.   *)
Count(p) ==
  /\ pc[p] = "count"
  /\ stats' = IF FileOf(p).content = Gone THEN stats
              ELSE [stats EXCEPT !["hit"] = @ + 1]
  /\ Exit(p)
  /\ UNCHANGED <<clock, file, cache, budget, held, history>>

(* Not in the cache, or expired: the file is looked at, hashed, recorded.  *)
Stat(p) ==
  LET f == FileOf(p)
  IN  /\ pc[p] = "stat"
      /\ \/ /\ f.content = Gone
            /\ Goto(p, "tool")
            /\ UNCHANGED call
         \/ /\ f.content # Gone
            /\ call' = [call EXCEPT ![p].mtime = f.mtime]
            /\ Goto(p, "hash")
      /\ UNCHANGED <<clock, file, cache, stats, budget, held, history>>

(* Faulty variant: a hash that cannot be computed is recorded as it is.    *)
HashUnchecked(p) ==
  /\ pc[p] = "hash"
  /\ Record(p, IF call[p].entry = NoEntry THEN "miss" ELSE "expired",
            call[p].mtime, FileOf(p).content)
  /\ UNCHANGED <<clock, file, budget, held>>

Hash(p) ==
  /\ pc[p] = "hash"
  /\ Record(p, IF call[p].entry = NoEntry THEN "miss" ELSE "expired",
            call[p].mtime, fileHash(p))
  /\ UNCHANGED <<clock, file, budget, held>>

(* The tool of a call that was not refused.                                *)
RunTool(p) ==
  LET k == call[p].key
      c == FileOf(p).content
  IN  /\ pc[p] = "tool"
      /\ held' = [held EXCEPT ![k] = IF c = Gone THEN @ ELSE @ \cup {c}]
      /\ Exit(p)
      /\ UNCHANGED <<clock, file, cache, stats, budget, history>>

-----------------------------------------------------------------------------
(* readOnceClearCache deletes the given keys and nothing else.             *)
Forget(keys) ==
  /\ Quiet
  /\ Spend("clears")
  /\ cache' = [k \in Key |-> IF k \in keys THEN NoEntry ELSE cache[k]]
  /\ cleared' = [k \in Key |-> cleared[k] \/ k \in keys]
  /\ UNCHANGED <<clock, file, stats, pc, call, held, seen, streak>>

(* Faulty variant: the ranges of the path stay in the cache.               *)
ClearWholeOnly(q) ==
  LET keys == {k \in Key : PathOf[k] = q}
      one  == CHOOSE k \in keys : TRUE
  IN  /\ Quiet
      /\ Spend("clears")
      /\ cache' = [cache EXCEPT ![one] = NoEntry]
      /\ cleared' = [k \in Key |-> cleared[k] \/ k \in keys]
      /\ UNCHANGED <<clock, file, stats, pc, call, held, seen, streak>>

(* The key of the path and those of its ranges.                            *)
ClearFile(q) == Forget({k \in Key : PathOf[k] = q})

ClearAll == Forget(Key)

Tick ==
  /\ clock < MaxClock
  /\ clock' = clock + 1
  /\ UNCHANGED <<file, cache, stats, pc, call, budget, held, history>>

Edit(q, c) ==
  /\ c # file[q].content
  /\ c = Gone => Vanishing
  /\ SameTickEdits \/ file[q].mtime < clock
  /\ Spend("edits")
  /\ file' = [file EXCEPT ![q] = [content |-> c, mtime |-> clock]]
  /\ UNCHANGED <<clock, cache, stats, pc, call, held, history>>

Next ==
  \/ \E p \in Slot, k \in Key : Begin(p, k)
  \/ \E p \in Slot : \/ Restat(p) \/ Rehash(p) \/ Validate(p) \/ Count(p)
                     \/ Stat(p) \/ Hash(p) \/ RunTool(p)
  \/ \E q \in Path : ClearFile(q)
  \/ ClearAll
  \/ Tick
  \/ \E q \in Path, c \in Content \cup {Gone} : Edit(q, c)

Spec == Init /\ [][Next]_vars

-----------------------------------------------------------------------------
(* Every variable has the values the code can give it.                     *)
TypeOK ==
  /\ clock \in Nat
  /\ file \in [Path -> [content : Content \cup {Gone}, mtime : Nat]]
  /\ cache \in [Key -> Entry \cup {NoEntry}]
  /\ stats \in [Event -> Nat]
  /\ pc \in [Slot -> Steps]
  /\ call \in [Slot -> Call]
  /\ budget \in [{"calls", "edits", "clears"} -> Nat]
  /\ held \in [Key -> SUBSET Content]
  /\ seen \in [Key -> Nat]
  /\ streak \in [Key -> [n : Nat, at : Nat]]
  /\ cleared \in [Key -> BOOLEAN]

Refused(p) == pc[p] = "count"

(* What the refusal says, "unchanged": the file has the mtime, and with    *)
(* HASH_MODE the content, that were recorded, unless it changed after      *)
(* checkFile started.  Each is the result of a file system call of its     *)
(* own, and so is each half of the record.                                 *)
UnchangedIsTrue ==
  \A p \in Slot : Refused(p) =>
    \/ /\ FileOf(p).mtime = call[p].entry.mtime
       /\ call[p].entry.hash \in {NoHash, FileOf(p).content}
    \/ FileOf(p).mtime >= call[p].now

(* What it says, "already in context": the agent was shown the content     *)
(* that was recorded, or is about to be by a tool that has not run yet,    *)
(* unless the file changed after checkFile started.                        *)
RefusedIsHeld ==
  HASH_MODE => \A p \in Slot : Refused(p) =>
    \/ call[p].hash \in held[call[p].key]
    \/ \E o \in Slot : /\ pc[o] = "tool"
                       /\ call[o].key = call[p].key
                       /\ call[o].hash = call[p].hash
    \/ FileOf(p).mtime >= call[p].now

(* An agent that insists gets the file, also with parallel calls: never    *)
(* AUTO_ALLOW refusals of a key follow each other at most DECAY apart.     *)
StreakBounded ==
  AUTO_ALLOW > 0 => \A k \in Key : streak[k].n < AUTO_ALLOW

(* Compaction safety: whatever the growth of the TTL, a key that no call   *)
(* has touched for longer than three times TTL is not on its way to a      *)
(* refusal.                                                                *)
UntouchedNotRefused ==
  \A p \in Slot : pc[p] \in {"restat", "validate"} =>
    call[p].now - seen[call[p].key] <= 3 * TTL

(* "Next read will fetch fresh content": a key that was cleared is not     *)
(* refused before it has passed, whichever calls were under way.           *)
ClearedIsForgotten ==
  \A p \in Slot : Refused(p) => ~cleared[call[p].key]
=============================================================================
