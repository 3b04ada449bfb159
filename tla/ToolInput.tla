----------------------------- MODULE ToolInput -----------------------------
(***************************************************************************)
(* What the hook makes of a tool call: the file that it is about, if any,  *)
(* and the key of the read (parseToolInput in hook.go, bash.go), and       *)
(* whether reads of that file are tracked at all (filter.go).  A command   *)
(* line is a sequence of tokens; splitting it into them (util.go splitBy)  *)
(* is left out.                                                            *)
(***************************************************************************)
EXTENDS Integers, Sequences, FiniteSetsExt

CONSTANTS Dir,            \* directories, absolute
          NoDir,          \* no directory given
          HookDir,        \* the directory the hook was started in
          Enter(_, _),    \* the directory that cd leads to from a directory
          Name,           \* words that name a file in a directory
          Absolute,       \* absolute paths, each with its file
          Exists,         \* the files: pairs of a directory and a name
          RevWord,        \* words REV:NAME for git
          NameIn,         \* the name in such a word
          Flag,           \* words that start with "-"
          Inline,         \* words that start with ">", a redirection and file
          Reader,         \* commands that are taken to print their operands
          GitReader,      \* subcommands of git that do
          NoFile

CONSTANTS Numbers,        \* offsets and limits that a client asks for
          NoNumber,       \* null, or not given
          Ranged(_, _, _) \* a name with :offset:limit written after it

(* The numbers that a key may show.                                        *)
Shown == Numbers \cup {0}

ASSUME ToolInputAssumption ==
  /\ NoDir \notin Dir /\ HookDir \in Dir
  /\ Exists \subseteq Dir \X Name
  /\ Absolute \in [DOMAIN Absolute -> Dir \X Name]
  /\ NameIn \in [RevWord -> Name]
  /\ NoFile \notin (Dir \cup {NoDir}) \X Name
  /\ Numbers \subseteq Nat /\ NoNumber \notin Shown
  /\ \A x, y \in Name : \A j, k, m, n \in Shown :
       Ranged(x, j, k) = Ranged(y, m, n) => x = y /\ j = m /\ k = n
  /\ Reader \cap {"git", "bash", "cd"} = {}
  /\ (Reader \cup GitReader) \cap {">", ">>", "<"} = {}

-----------------------------------------------------------------------------
(* collectArgs: a token that follows an output redirection is skipped, and *)
(* is no redirection itself.                                               *)
Target(args) ==
  LET skip[i \in 0..Len(args)] ==
        i > 1 /\ args[i - 1] \in {">", ">>"} /\ ~skip[i - 1]
  IN  {i \in DOMAIN args : skip[i]}

(* Faulty variant: the targets of redirections are arguments too.          *)
ArgsWithTargets(args) ==
  {i \in DOMAIN args : args[i] \notin {">", ">>", "<"} \cup Inline \cup Flag}

Args(args) ==
  {i \in DOMAIN args \ Target(args) :
     args[i] \notin {">", ">>", "<"} \cup Inline \cup Flag}

(* The path of a word: filepath.IsAbs, filepath.Join, filepath.Clean.      *)
In(dir, word) == IF word \in DOMAIN Absolute THEN Absolute[word]
                 ELSE <<dir, word>>

(* resolveBestCandidate: the last of the words that names a file.          *)
Best(words, dir) ==
  LET found == {i \in DOMAIN words : In(dir, words[i]) \in Exists}
  IN  IF found = {} THEN NoFile ELSE In(dir, words[Max(found)])

Kept(args) == [i \in Args(args) |-> args[i]]

(* extractGitFileArg: the names in REV:NAME words come after all others.   *)
GitBest(args, dir) ==
  LET revs  == {i \in Args(args) : args[i] \in RevWord}
      tails == Best([i \in revs |-> NameIn[args[i]]], dir)
  IN  IF tails # NoFile THEN tails ELSE Best(Kept(args), dir)

(* extractReadPathFromSegment                                              *)
SegmentFile(seg, dir) ==
  IF Len(seg) < 2 THEN NoFile
  ELSE IF seg[1] = "git"
  THEN IF Len(seg) > 2 /\ seg[2] \in GitReader
       THEN GitBest(SubSeq(seg, 3, Len(seg)), dir) ELSE NoFile
  ELSE IF seg[1] \in Reader THEN Best(Kept(Tail(seg)), dir) ELSE NoFile

(* A command line: the cds in front of it (cd d && ...), the shells that   *)
(* are wrapped around what follows (bash -lc '...'), the cds in front of   *)
(* that, and the segments of its pipeline.                                 *)
(* unwrapShellWrapper takes off one shell, that no cd stands before.       *)
ShellLeft(cmd) == cmd.shells > (IF cmd.outer = <<>> THEN 1 ELSE 0)

(* The cds that are seen when that is done.                                *)
Cds(cmd) == IF ShellLeft(cmd) THEN cmd.outer ELSE cmd.outer \o cmd.inner

(* extractCdPrefix takes off one of them; another one, or a shell, is the  *)
(* command of the first segment then.                                      *)
Segments(cmd) ==
  IF ShellLeft(cmd) THEN <<<<"bash", "-lc", "...">>>>
  ELSE [i \in DOMAIN cmd.pipe |->
          IF i = 1 /\ Len(Cds(cmd)) > 1 THEN <<"cd", "...">> ELSE cmd.pipe[i]]

(* extractCdPrefix and the directory that words are resolved in.           *)
CommandDir(cmd, cwd) ==
  LET base == IF cwd = NoDir THEN HookDir ELSE cwd
  IN  IF Len(Cds(cmd)) = 0 THEN base ELSE Enter(base, Cds(cmd)[1])

(* extractBashReadPath: the first segment that has a file decides.         *)
BashFile(cmd, cwd) ==
  LET file(i) == SegmentFile(Segments(cmd)[i], CommandDir(cmd, cwd))
      found   == {i \in DOMAIN Segments(cmd) : file(i) # NoFile}
  IN  IF found = {} THEN NoFile ELSE file(Min(found))

-----------------------------------------------------------------------------
(* hasKey and asInt: what is not given counts as 0.                        *)
AsInt(n) == IF n = NoNumber THEN 0 ELSE n

(* Faulty variant: the key has the offset only.                            *)
KeyNoLimit(in, file) ==
  IF in.offset = NoNumber THEN file
  ELSE <<file[1], Ranged(file[2], AsInt(in.offset), 0)>>

(* cacheKey of a read: the path, with the range after it when one is given. *)
Key(in, file) ==
  IF in.offset = NoNumber /\ in.limit = NoNumber THEN file
  ELSE <<file[1], Ranged(file[2], AsInt(in.offset), AsInt(in.limit))>>

(* parseToolInput: the file of a call, or NoFile.  Codex calls Bash shell. *)
ToolFile(in) ==
  CASE in.tool = "Read"              -> In(in.cwd, in.word)
    [] in.tool \in {"Bash", "shell"} -> BashFile(in.command, in.cwd)
    [] OTHER                         -> NoFile

(* Its key; ranges are those of Read.                                      *)
ToolKey(in) ==
  IF in.tool = "Read" THEN Key(in, ToolFile(in)) ELSE ToolFile(in)

-----------------------------------------------------------------------------
(* matchesAnyPattern, a pattern being the set of the files it matches.     *)
MatchesAny(patterns, file) == \E p \in patterns : file \in p

(* shouldTrackByPolicy: an include list that is not empty must match; one  *)
(* of patterns that do not compile matches nothing.                        *)
TrackedByPolicy(filter, file) ==
  /\ filter.include # {} => MatchesAny(filter.include, file)
  /\ ~MatchesAny(filter.exclude, file)

(* runHookMode up to the filters: the key of a call that is looked at.     *)
(* shouldBypassPath comes first and no list overrides it.                  *)
HookKey(in, filter) ==
  LET file == ToolFile(in)
  IN  IF /\ file # NoFile /\ in.session
         /\ file \notin filter.bypass
         /\ TrackedByPolicy(filter, file)
      THEN ToolKey(in) ELSE NoFile
=============================================================================
