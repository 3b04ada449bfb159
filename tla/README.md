# read-once-hook in TLA+

`read-once` answers the pre-tool hook of a coding agent: when the agent reads a
file again that has not changed, the hook warns or refuses, so that the content is
not put into the context a second time. These modules model the hook, the files
its processes share, the commands that clear them, the extension for Pi, and the
commands that put the hook into a client's settings; TLC checks them on small
instances and TLAPS proves the central facts for every instance.

## The system

| Part | State it keeps | Operations | What makes it correct |
|---|---|---|---|
| Session log (`cache.go`) | `session-<hash>.jsonl`, one line per recorded verdict or tombstone | scan for the last usable entry of a key, scan for the earliest timestamp, append, remove | the entry found is the last one of that key |
| Lock (`cache.go`) | `<file>.lock` and its `flock` | poll until the deadline, write, release | one writer at a time; nobody waits for ever; a line is whole or missing |
| Policy (`hook.go`, `util.go`) | none: a function of the log and the clock | adaptive TTL, expiry, counting of attempts, auto-allow | TTL between 1x and 3x; an agent that insists is let through |
| Hook process (`hook.go`) | local variables of `runHookMode` | time, cleanup, two scans, stat, hash, diff, append, copy, stats, answer | "unchanged" and "already in context" are true when they are said |
| Snapshots and diffs (`diff.go`, `util.go`) | `snapshots/<session>-<key>` | copy (truncate, write), `diff(1)` twice | the base of a diff is what the agent has |
| Cleanup (`cache.go`) | `.last-cleanup` | once an hour, remove what is older than 24 h | a session in use loses nothing that matters |
| Clear commands, MCP tool (`commands.go`, `mcp.go`) | none | `clear`, `clear-file`, `readOnceClearCache` | a cleared file can be read again |
| OpenCode plugin (`clients.go`, `templates/`) | none | start the hook, throw on a refusal | a refusal stops the tool |
| Pi extension (`templates/pi-extension.ts`) | a `Map` in memory, a list of stats | `checkFile`, `readOnceClearCache`, `readOnceStats` | as the hook's, with its own code |
| Tool input (`bash.go`, `filter.go`, `parseToolInput`) | none | command line to path, path to yes or no, call to key | one read has one key, two reads have two |
| Settings (`commands.go`, `clients.go`, `util.go`) | the client's settings file, the installed program, plugin and tool | install, upgrade, optimize, uninstall | what others have there survives; the hook is registered once, after its program is there |
| Reports (`commands.go`) | none | stats, status, verify, dry run | print only |
| Command line (`main.go`) | none | dispatch, choice of the client, defaults from the environment | the hook works for the client it was installed for |

The parts meet in files. Every Read of the agent starts one short-lived hook
process, and an agent that reads in parallel starts several; they share the log,
the snapshots, the stats and the marker, and only appends are locked. Editors
change the files meanwhile, and the user clears. The tool runs after the hook has
recorded its verdict, or does not run at all. The settings file is shared with the
client and its user, and nothing locks it.

What is hard: a verdict rests on three looks at the file (stat, hash, diff) and
two at the log, and is recorded after it is found; the agent gets the file later
still. A hook can be killed at any point and an append skipped when the lock times
out. Times are whole seconds. The settings commands read the file, copy a program
and write the file back, each with a window for others. `PROJECT.json` lists these
hazards at their lines, with the properties that watch them.

## Modules

| Module | Models |
|---|---|
| `CacheLog` | entries, tombstones and the two scans of the log |
| `ReadPolicy` | `computeAdaptiveTTL` and the decision of `handleCacheHit` |
| `HookProcess` | the hook processes of one session, the clear commands, the world around |
| `AppendOrSkip` | what `appendJSONLine` promises: a whole line, or nothing |
| `FileLock` | `acquireFileLock` and `appendJSONLine` on the level of inodes, `flock` and `write` |
| `PiExtension` | `checkFile` and the clear tool of the Pi extension |
| `ReadOnce` | what the hook promises the agent: refused only what was given |
| `Settings` | install, upgrade, optimize, uninstall |
| `ToolInput` | `extractBashReadPath`, the key of a call, the order of the filters |
| `CommandLine` | the choice of the client, and the composition of the two above |
| `MCHook`, `MCLock`, `MCPi`, `MCCommandLine` | instances for TLC |
| `NaturalSets`, `ReadPolicyProofs` | lemmas on least and greatest naturals; theorems of the policy |
| `HookProofs`, `VerdictProofs` | theorems of the hook: its inductive invariant; what its verdicts say, and the refinement to `ReadOnce` |
| `LockProofs`, `PiProofs`, `SettingsProofs`, `CommandLineProofs` | theorems of the modules they are named for |

### HookProcess

`pc[p]` names the next system call of process `p`, `call[p]` its local variables
(`hookContext`). The actions follow `runHookMode` from top to bottom:

| Action | Code |
|---|---|
| `Begin` | input parsed, `now` taken, marker read, and if a cleanup is due, the stat of the log |
| `CleanUp` | `removeOlderThan` and the new marker |
| `ReadTTL`, `Lookup` | the scans of `computeAdaptiveTTL` and `readLastCacheEntry`; without `READ_ONCE_HASH` the answer follows at once |
| `Stat`, `HashFile` | `os.Stat`, `fileContentHash`, and the branches after them |
| `DiffShort`, `DiffUnusable`, `Summarize` | `unifiedDiff` with an output that is shown, or is empty or too long; `summarizeDiff` |
| `AppendEntry`, `CopyRead`, `CopyWrite`, `WriteStats` | the recording, in the order of the branch taken |
| `Emit` | `emitHookDecision`, and what the client makes of it |
| `RunTool`, `RejectTool`, `Crash` | the client runs the tool or the user rejects it; the hook is killed |
| `ClearFile`, `ClearSessions` | `clear-file` and the MCP tool; `clear` |
| `Tick`, `Edit` | the clock and the editors |

`Conclude` is the moment at which an answer is settled (the calls of
`handleCacheHit` and the returns of `runHookMode`). History variables record what
the properties are about: `held`, the contents the agent was shown; `released`,
the versions whose read a verdict let pass; `seen`, `streak`, `forgotten`.

`showStats` is the sum that `read-once stats` prints. `StatsMatchLog` compares it
with the log, and allows a line of difference for each hook that was killed or
that timed out at the lock (`Faults`); `StreakBounded` allows such a hook to set
the count of attempts back once.

`KeepsPromise` is the refinement to `ReadOnce`, where each read is judged once,
and refused only a version of which the agent was told less than `3 * BaseTTL`
before: `told` is what was `released` or `refused`, each version (mtime and hash)
with its key and time, and `read` is what each process looks at, and its answer
once it has settled on one, until its read is over. Two versions are the same when
their mtimes are, and their hashes as far as both could be taken. What a process
does besides, the cleanup, the clears and the editors are stutters.

What is abstracted:

- A hash is the content itself (no collisions); a time is a number of seconds;
  tokens and the text of reasons are dropped. The floating-point product of the
  TTL is an integer division.
- `parseToolInput` and the filters are in `ToolInput`; here, they and the checks
  for directories, large and binary files only decide whether a call is tracked. A
  call that is not changes nothing, so it is no action; a file does not change
  from one kind to the other, except that it may become missing (`Gone`).
- An append happens at once or is skipped: this is what `FileLock` shows of it. A
  write cut short by a kill is in `FileLock` only.
- `clear-file` appends its tombstones in one step. Nothing reads a tombstone
  (their timestamp is 0), so what comes between two of them makes no difference;
  it succeeds as a whole.
- A scan of the log is one step: the log only grows by whole lines or is removed,
  and a removed file stays readable to who has opened it.
- `diff(1)` reads both files in one step.
- The client runs the tool when the hook is killed, as after any exit status other
  than 2.

### FileLock

The lock file has an inode, `dir` is where its path leads, `fd[p]` the inode a
process has open, and `holder` the flock of each inode. `Timeout` may happen at
any poll: the deadline is real time, which is not modelled. A record is written at
once (`WriteAll`) or in two parts (`WriteSome`, `WriteRest`); `WriteFails` and
`Kill` can leave the first part behind. `ClearLocks` is the loop over `*.lock` in
`clearSessions`.

The refinement to `AppendOrSkip` maps `line`, the unfinished records at the end of
the file, to the number `spoiled` that a writer in progress does not count among,
and a clear given to the end of the promise.

### PiExtension

One process and one thread: `checkFile` is not interrupted by other calls
(`Quiet`), but the file may change between its file system calls, each of which is
a step. Calls that passed stay in step `tool` until the tool runs, so that the
next calls are checked before it. The cache is a function from keys to entries.
The unit of time is abstract; the code counts milliseconds.

`ReadOnce` is not stated of the extension: it would need a history of versions as
large as the rest of its state, and `RefusedIsHeld` and `ClearedIsForgotten`
already say of `pi` what the abstraction would, and more.

### Settings

A command is a process; each of its calls that others can see is a step.

| Action | Code |
|---|---|
| `Start` | `main` |
| `ProbeSettings`, `CreateSettings`, `FillSettings` | `installHook`: `os.Stat`, then `os.WriteFile`, which truncates and writes |
| `ReadSettings` | `os.ReadFile`, `parseJSONMap`, and the early ends of each command (`AfterRead`) |
| `CheckBinary` | the look at the installed program in `installHook` and `upgradeHook` |
| `CopyOpen`, `CopyWrite` | `copyFile`: `os.WriteFile` in place |
| `Replace` | the change of the document read before (`Changed`) and `writeFileAtomic` |
| `CheckPlugin`, `SetPlugin`, `SetTool` | OpenCode's plugin and tool: written, or removed by uninstall |
| `Stop` | the command is killed, or its next call fails |
| `ClientWrite`, `DeleteBinary` | external: the client or the user changes the settings, or deletes the program |

A document has what stands at `hooks.PreToolUse` (nothing, a list, or something
else there or at `hooks`, which install replaces by a list), a matcher for each
item of the list, a hook command at each place, and the rest. An item is kept as
the matcher of its slot, so items that uninstall drops leave their slot empty; the
order of the others stays, which is all a client sees. `holds` says that the file
a command has open is still the one at the path, as another command may have
renamed a new one over it. History variables: `theirs`, what others last had in
the file; `stale`, commands that looked before that; `lost`, one of them has
written; `bare`, the user deleted the program, a copy was cut off, or optimize
went without one, and none was copied since; `disturbed`, the commands since whose
start others changed something.

`Init` has the files a user may have: no document without its program, and our
command for a tool once at most, as an earlier install left it.

### ToolInput and CommandLine

`BashFile` is `extractBashReadPath` on tokens: any number of `cd`s, a number of
shells around what follows, `cd`s in there, the pipeline, redirections, flags,
`git show REV:NAME`, and the last word that names a file. The code takes off one
shell, if it is at the front, and then one `cd` (`ShellLeft`, `Cds`, `Segments`,
`CommandDir`). `Key` is the cache key, a name with `:offset:limit` written after
it when the client gives one of the two (`Ranged`, which in the instance writes
strings, as the code does); `HookKey` is the key of a call that the filters let
through. Directories, names and flags are model values or strings; a pattern is
the set of the files it matches.

`ShellReads`, in `CommandLine`, is the reference, and is written from what a shell
does: each `cd` leads on from the one before, a reader reads its operands or else
its input, `tee` (`Writer`) writes its operands, a target of a redirection is no
operand. `BashFileIsRead` compares the two for command lines that are `Plain`: one
`cd` at most; no `2>`, `<f` or `&&` inside a segment, which the code takes for
words (`Joined`); input from `<` only for a command without operands; and no `tee`
with one. The comment at `PlainSegment` names what the code tracks beyond these.
That a file is tracked whenever one is read holds with no shell, or one at the
front: after `cd sub && bash -lc 'cat a'` the code tracks nothing. Of `grep`,
`sed` and `awk` the first operand is a pattern or a program, and some flags take a
word: the code counts these as operands, and as every operand of a `Reader` is a
file in the reference, a command that has a file of that name is not told apart.

`SameReadSameKey` says that a key stands for the same lines of the same file. The
reference `Asked` takes a given 0 for none, in the offset and in the limit. It
leaves out names that end in a range (`EndsInRange`): see below.

`CommandLine` also has the choice of the client and of its directory, with
`READ_ONCE_HOME` (`CacheDir`): a command is run with it, and a hook is started
once, with any of the calls, in one state of the files, since it reads none of
what the commands change (`Hook`). `HookFindsClient` is said of a working
directory outside those of the clients, and of an environment that is as install
had it, or that never had `READ_ONCE_HOME`.

## Runs

| Run | Instance | Shows |
|---|---|---|
| `policy` | one process at a time, 4 calls, 2 keys, 1 edit, 1 kill or skipped append, TTL 1 growing to 3 over 3 seconds | verdicts, refusals, streaks and stats are right in sequence |
| `races` | 2 processes, 3 calls, diffs on, cleanup removes the log, 1 edit or loss of the file | no interleaving makes a refusal untrue; types |
| `faults` | 1 kill or skipped append, 1 clear, 2 edits within one second, rejected reads | "unchanged" stays true of mtime and content; every step is one of `ReadOnce` |
| `lock` | 3 processes, 4 inodes, 1 fault, 1 clear, short writes | whole lines, one more writer per clear, every append ends |
| `pi` | 2 calls under way, 3 calls, 2 edits, 1 clear, TTL 1 growing to its cap | the same promises for the extension |
| `commands` | 3 commands, 2 at once, 1 change by others, 1 kill, 6 kinds of settings files, 3 clients; 3,205 tool calls | others keep their settings, hooks have their program, commands tell the truth; keys and Bash paths are right |
| `clear_file`, `no_hash`, `changed_deny`, `diff_base`, `opencode`, `lock_clear` | one process, or two for the lock | what a comment, a document or a message says does not hold (below) |

Why the bounds are enough. Two contents tell "same" from "other". Two keys of one
file show what keys share and what they do not; keys of different files share only
the timestamps of the log, as these two do. A streak needs a miss and `AutoAllow`
more calls: 3 with `AutoAllow` = 2, and `policy` has 4, one more for the call
whose entry is lost. With `Ramp` = `BaseTTL` = 1 the TTL reaches its cap after 2
seconds, and 3 seconds let an entry expire under each value it can have. In
`faults` the clock has two values and a file two edits, so that both may fall into
the second of an mtime that is recorded, and the content alone tells the versions
apart. In `races` a first call leaves an entry and the other two overlap in every
way; `MaxAge` = 1 and `CleanupEvery` = 2 let a cleanup find the log old while a
call is on its way. In `lock`, with 3 processes one can hold the old inode while
two compete for the new one, and `MCLock` assumes an inode to spare. In
`commands`, two commands at once and a third after them make every pair of
commands meet at every step, and follow each of them by another, as install after
a cut-off install; `MaxItems` = 4 holds the two items a file starts with, one of
the client and one of ours, and `MaxHooks` = 2 an item that is shared. Of the tool
calls 216 are reads, and the others command lines, but for one of another tool. Of
one command up to three words are tried, so that a redirection, its target and an
argument come in every order; of two, in a pipeline, up to one, with up to two
`cd`s and two shells. The deadlock check is off for the hook and for Pi, where the
agent may have made its last call, and for the commands, which end.

Fairness is stated for the lock only: `FairSpec` has weak fairness of `Work(p)`,
the steps a process takes by itself, for each process. The operating system runs
every process, and no single step is forced: in particular an attempt to lock need
never succeed. `EveryAppendEnds` holds because `Timeout` stays enabled at every
poll.

`UnchangedIsTrue` and `RefusedIsHeld` excuse a file that changed after the call
started: no hook can do better, as the file may change after its last look.
`RefusedIsHeld` is checked without rejected reads, which the hook cannot learn of;
it also counts a tool that is about to run.

`OthersKept` excuses one write: that of a command which read before others wrote
(`lost`). The code has no lock and no second look, and their change is lost.
`HookHasBinary` excuses what the user did, a copy that was cut off, and optimize
on a hook of an earlier version whose program was never installed (`bare`). What
is no list where the list should be is nothing of theirs: install replaces it.
`SaidIsTrue` speaks of commands that nobody disturbed.

`RefusedIsHeld`, `StreakBounded` and `StatsMatchLog` leave hazards open that
`PROJECT.json` lists without a property: a refusal of a read that the user
rejected, parallel calls that lose attempts, a summary in place of a file. The
code promises nothing there that could be checked, and each has its reason in the
list.

### Where code and documents disagree

- `clear_file`: `readLastCacheEntry` skips tombstones instead of stopping at them,
  so `clear-file` and the MCP tool change no later verdict.
- `no_hash`: with `READ_ONCE_HASH=0` the fast path reports "unchanged" without a
  look at the file.
- `changed_deny`: mode deny for changed files refuses them at any age.
- `diff_base`: a snapshot may hold a version the agent was never shown. One edit
  between the copy and the tool is enough.
- `opencode`: the binary refuses by exit status 2, the plugin waits for JSON.
- `lock_clear`: `clear` removes lock files under running hooks.

## Proofs

All for any number of processes, files, keys and contents, any parameters of the
policy and any number of faults, edits and clears, from the named assumptions on
the constants, and a theorem's own hypothesis where it has one.

- `ReadPolicyProofs`. `AdaptiveTTLBounds`: the TTL is between `BaseTTL` and `3 *
  BaseTTL`. `HitIsFresh`: a hit is younger than that. They rest on two facts:
  nonempty sets of naturals have a least element, and bounded ones a greatest
  (`NaturalSets`).
- `LockProofs`. `LockInv` says that a process inside the lock holds the flock of
  the inode it has open, that only such processes hold one, and that until a clear
  every open file is the inode the path leads to. It gives `LockTypeCorrect` and
  `LockExcludes` (mutual exclusion until the first clear). With `UnlinkedInv`,
  that there are never more inodes open which the path does not lead to than there
  were clears, it gives `LockOneMorePerClear`: the processes inside the lock have
  different inodes open, so they are an injection into these and the one at the
  path. With `LineInv`, which ties `line` to the process that is in the middle of
  its record, it gives the refinement `LockImplements`: `Spec => Abstract!Spec`.
- `HookProofs`. `UnchangedWasReleased` is not inductive: the verdict comes from an
  entry, which may itself have been written by a hit, from an entry before it.
  `HookInv` therefore says that every entry of the log with a timestamp, every
  entry a process has found, and every answer it has settled on carries a version
  in `released`, and that an entry is no newer than `seen` of its key. Nothing is
  ever taken out of `released`, so the removal of the log, clears, kills and
  skipped appends cannot disturb it. From it: `HookTypeCorrect` and, with
  `AdaptiveTTLBounds`, `NeverRefusedLong`.
- `VerdictProofs` adds one invariant for each thing a verdict says, each inductive
  together with `HookInv`:
  - `UnchangedIsReleased`, from `ReadInv`, which carries the hash beside the
    mtime: a version without one was taken of a file that was missing when it was
    to be read. A file that can be missing and change twice in a second could then
    come back with the recorded mtime and another content, which `Dated` excludes.
  - `HookUnchangedIsTrue`, with `HashMode`, from `FreshInv`: until somebody
    changes the file, which gives it the time of that change, its mtime is the one
    that `Stat` found and its content the one that `HashFile` read. Without hashes
    the fast path does not look at the file (run `no_hash`).
  - `HookRefusedIsHeld`, under `Strict`, from `ShownInv`: a version that a verdict
    let pass is older than the file, or it is what the file has and some call
    showed it or is about to. Kills, lost entries, cleanups, clears and missing
    files do not disturb this. What does is in `Strict`, and TLC has a
    counterexample without any one of its parts: the fast path without hashes; a
    tool call that is rejected; a diff that is refused and yet recorded; a file
    that changes three times within the second of its mtime, so that the hook
    hashes the second version, the tool shows the third, and the second comes
    back.
  - `HookStreakBounded`, with one call after the other (`Alone`), from
    `StreakInv`: the entry the next call will find, or has found, counts at least
    the refusals in a row and is as recent as the last of them, but for what each
    lost entry adds (`Spare`). Calls that overlap both count from the same entry;
    TLC shows that to break the bound.
  - `HookStatsMatchLog`, until the first clear (`NoClears`), in a session that is
    never older than what cleanup removes (`KeptInv`), from `CountInv`: every step
    that appends an entry makes its process wait for its stats, every step that
    writes stats ends one wait, and a kill or a timeout at the lock opens a gap of
    one line at most. TLC shows that a clear, or a cleanup of the session's own
    log, lets log and report differ by more.
  - `HookKeepsPromise`: `Spec => KeepsPromise`, with no hypothesis. `Begin` maps
    to `Ask`, a step that settles an answer to `Judge`, one after which the
    process is idle or waits for its tool to `End`, any other to a stutter. That a
    refusal is of a version told, at the time of the word, is `HookInv`; `TimeInv`
    adds that mtimes and times are within the bound of the clock.
- `PiProofs`. `PiInv` has the types, that one call at most is between the steps of
  `checkFile` (`AloneInv`), what the cache has of each key (`CacheInv`: the time
  it was last recorded, at least as many attempts as refusals in a row, and
  nothing of a key cleared since) and what the call under way has found of the
  file (`CallInv`). As calls do not overlap, `PiStreakBounded` needs no more,
  unlike for the hook. From it: `PiTypeCorrect`, `PiUnchangedIsTrue`,
  `PiNeverRefusedLong` and `PiClearedIsForgotten`. `PiRefusedIsHeld` adds
  `VersionInv`, as for the hook, and assumes that a file does not change twice
  within a unit of its mtime; TLC has a counterexample when it may.
- `SettingsProofs`. `BaseInv` (types, which command is at which step, what it has
  read by then) carries four arguments: `SettingsKeepOthers`, as `KeptInv` has of
  every command that was not overtaken that the document it will write back has
  what others last had, and of the three changes that they touch nothing of it
  (`TheirsChanged`); `SettingsHookHasBinary`, as the program is missing without an
  excuse only before the first copy, when no command can be past it (`Unused`);
  `SettingsRegisterOnce`, as every document about, in the file and in the
  commands, has one of ours at most (`DocsInv`); and `SettingsSayTheTruth`, as a
  command that nobody disturbed knows the files (`KnowsOf`).
- `CommandLineProofs` is about the one call a hook is started for, and so about
  operators. `HookTracksWhatIsRead`, for commands of any length: `collectArgs`
  skips a token by looking back, which is a recursive function (`Target`); in a
  command that is `Plain` two output redirections never follow each other, so one
  unfolding tells what it skips. What is left are the shell's operands, or its
  input when there is none, and the last that names a file is one of them
  (`BestFound`). `HookKeysTellReads`: a range is written so that it can be read
  back (`ToolInputAssumption`), so two keys that are equal have the same range, or
  one of the files is itself named like a range. `HookWorksForClient` goes through
  the clients. A lemma says that a step of the program is one of `Settings` or
  leaves it alone, so what `SettingsProofs` has holds of `CLSpec`. Assumed of the
  constants: `git` and redirections are no readers, and of the calls, that numbers
  are natural or missing and commands sequences of words.

Only model-checked: `EveryAppendEnds`, since liveness is out of the prover's
reach, and the counterexamples of the six runs that have one. Every invariant of a
passing run is a theorem, some under the hypotheses above, which the run's
instance meets; so are the two refinements.

## Not modelled

- Splitting a command line into tokens, with quotes and escapes (`splitBy`); how a
  pattern matches a path, and the built-in lists of the filters: string handling.
- The reports: token estimates, the list of files, the report of one session,
  `status`, the printed configuration. They change nothing.
- `verify` and the dry run, which change nothing: what verify takes for ready is
  the conjunction of its checks.
- The overrides of the settings file and of the hook command from the environment.
- The templates' text, and how the OpenCode plugin names tool arguments.
- The numeric defaults from the environment, which are the CONSTANTS.

Seen in the code, and stated by no property:

- A hit moves the timestamp of its entry (`hook.go:105`), so an agent that retries
  more than `READ_ONCE_DECAY` but less than the TTL apart is refused for ever; and
  the "read %dm ago" of the reason (`hook.go:122`) counts from the last attempt.
- The Pi extension refuses in mode `warn` as in mode `deny`.
- install killed between creating the settings file and writing `{}` to it leaves
  an empty file, on which install, optimize and uninstall fail from then on.
- install over a program that a cut-off copy left half written says "already
  installed": it looks whether the file is there. upgrade mends it.
- `GEMINI.md:63` has the executable's path before the working directory in the
  choice of the client; `detectDefaultClient` (`main.go:160`) looks at the working
  directory first.
- Without a settings file verify only warns, and still says ready.
- uninstall takes out every hook whose command contains `read-once`, others' too;
  it also drops items that had no hooks before, and writes `null` for an empty
  list.
- `tee` is among the readers of `bash.go`, though it writes its argument: `date |
  tee b` is recorded as a read of `b` if there is one. So are `err` in `cat a 2>
  err` and `b` in `cat a < b`, which `cat` does not read.
- After `cd sub && cd empty &&` the first command of a pipeline is not looked at,
  and the words of the others are looked for in `sub`.
- The key of lines of `a` is that of a file named `a:1:2`, read whole
  (`hook.go:232`).
- A hook that was installed with `READ_ONCE_HOME`, and is started without it,
  looks for its cache elsewhere; that of Codex then works for Claude
  (`main.go:140-176`).
- install replaces a `hooks` that is no object, or a `PreToolUse` that is no list.
- `head`, `sed -n`, `grep` and `git show` of an old revision print a part or
  another version of a file, and are recorded as a read of the whole.

## Plan

Done: log, policy, hook, lock, clear commands, Pi extension, `ReadOnce` and its
refinement, settings commands, tool input, command line, and the invariants of all
of them as theorems. Left, in this order:

1. `HookStreakBounded` for several processes whose calls do not overlap, in place
   of a single one.
2. That a command of `Settings` never leaves a document it did not read or make,
   as an action property, with its run and its theorem.
3. `PiExtension` as an implementation of `ReadOnce`, with the history of versions
   that this needs.
