---------------------------- MODULE CommandLine ----------------------------
(***************************************************************************)
(* The read-once program as it is started: for which client it works       *)
(* (main.go), and which of its commands it runs.  A hook makes a key of    *)
(* the tool call on its standard input (ToolInput); the other commands     *)
(* change the settings (Settings).  The two share nothing but the client.  *)
(***************************************************************************)
EXTENDS Settings, ToolInput

CONSTANTS ToolCalls,   \* tool calls that the hook is given
          NoCall,
          Filters,     \* what READ_ONCE_INCLUDE, READ_ONCE_EXCLUDE select
          Writer,      \* commands of Reader that write their operands (tee)
          Joined,      \* words that a shell would not take for one: 2>, <f, &&
          Homes        \* values of READ_ONCE_HOME

ASSUME CommandLineAssumption ==
  /\ Writer \subseteq Reader
  /\ \A in \in ToolCalls :
       /\ in.cwd \in Dir \cup {NoDir}
       /\ in.word \in Name \cup DOMAIN Absolute
       /\ {in.offset, in.limit} \subseteq Numbers \cup {NoNumber}
       /\ in.command.shells \in Nat
       /\ {in.command.outer, in.command.inner} \subseteq Seq(STRING)
       /\ in.command.pipe \in Seq(Seq(STRING))

VARIABLE call          \* the call that the hook was started for

allvars == <<vars, call>>

-----------------------------------------------------------------------------
(* Faulty variant: only the working directory is looked at.                *)
DetectByDir(cwd, exe) ==
  IF cwd = ".codex" THEN "codex"
  ELSE IF cwd = ".config/opencode" THEN "opencode"
  ELSE "claude"

(* detectDefaultClient: the directory of a client that the working         *)
(* directory is in, or else the one that the program is in.                *)
DetectClient(cwd, exe) ==
  IF cwd = ".codex" THEN "codex"
  ELSE IF cwd = ".config/opencode" THEN "opencode"
  ELSE IF exe = ".codex" THEN "codex"
  ELSE IF exe = ".config/opencode" THEN "opencode"
  ELSE "claude"

(* loadAppConfig: READ_ONCE_CLIENT when it is the name of a client.        *)
AppClient(env, cwd, exe) ==
  IF env \in {"claude", "codex", "opencode"} THEN env
  ELSE DetectClient(cwd, exe)

(* The directory of the program and its cache: READ_ONCE_HOME when it is   *)
(* set, "" when not.                                                       *)
CacheDir(home, c) == CASE home # ""      -> home
                       [] c = "claude"   -> ".claude"
                       [] c = "codex"    -> ".codex"
                       [] c = "opencode" -> ".config/opencode"

CLInit == Init /\ call = NoCall

(* Bound: a hook is started once, before any other command and for one     *)
(* client and one state of the files, as it depends on none of them.       *)
Hook ==
  /\ call = NoCall
  /\ client = "codex" /\ settings = Absent /\ binary = "old"
  /\ budget.commands = MaxCommands /\ budget.edits = MaxEdits
  /\ call' \in ToolCalls
  /\ UNCHANGED vars

CLNext ==
  \/ call = NoCall /\ Next /\ UNCHANGED call
  \/ Hook

CLSpec == CLInit /\ [][CLNext]_allvars

-----------------------------------------------------------------------------
(* The reference for BashFile: the files that the shell has a command of   *)
(* the line read.  cd leads from one directory to the next.                *)
ShellDir(cmd, cwd) ==
  LET cds == cmd.outer \o cmd.inner
      dir[n \in 0..Len(cds)] ==
        IF n = 0 THEN (IF cwd = NoDir THEN HookDir ELSE cwd)
        ELSE Enter(dir[n - 1], cds[n])
  IN  dir[Len(cds)]

IsWord(seg, i) == seg[i] \notin {">", ">>", "<"} \cup Inline \cup Flag

(* The words from the n-th on that are the input, or operands.             *)
InputsFrom(seg, n) ==
  {seg[i] : i \in {j \in n..Len(seg) : IsWord(seg, j) /\ seg[j - 1] = "<"}}

OperandsFrom(seg, n) ==
  {seg[i] : i \in {j \in n..Len(seg) : /\ IsWord(seg, j)
                                      /\ seg[j - 1] \notin {">", ">>", "<"}}}

Operands(seg) == OperandsFrom(seg, IF seg[1] = "git" THEN 3 ELSE 2)

(* A reader reads its operands or, without one, its input; a writer reads  *)
(* its input and writes its operands; git is given names, of a revision as *)
(* well (REV:NAME).                                                        *)
SegmentReads(seg, dir) ==
  LET given == Operands(seg)
      words == IF seg[1] = "git"
               THEN given \cup {NameIn[w] : w \in given \cap RevWord}
               ELSE IF seg[1] \in Writer \/ given = {}
               THEN InputsFrom(seg, 2) ELSE given
  IN  IF \/ seg[1] \in Reader
         \/ seg[1] = "git" /\ Len(seg) > 2 /\ seg[2] \in GitReader
      THEN {In(dir, w) : w \in words} \cap Exists
      ELSE {}

ShellReads(cmd, cwd) ==
  UNION {SegmentReads(cmd.pipe[i], ShellDir(cmd, cwd)) : i \in DOMAIN cmd.pipe}

(* What the code is made for.  Beyond it the file that is tracked may be   *)
(* none that is read: err in cat a 2> err, b in cat a && rm b, in cat a <  *)
(* b and in tee b; and after a second cd the wrong directory's a.          *)
PlainSegment(seg) ==
  /\ \A i \in DOMAIN seg :
       /\ seg[i] \notin Joined
       /\ seg[i] \in {">", ">>", "<"} =>
            i > 1 /\ i < Len(seg) /\ IsWord(seg, i + 1)
  /\ \A i, j \in DOMAIN seg :
       seg[i] = "<" => /\ seg[1] # "git" /\ Operands(seg) = {}
                       /\ seg[j] = "<" => i = j
  /\ Len(seg) > 0 /\ seg[1] \in Writer => Operands(seg) = {}

Plain(cmd) ==
  /\ Len(cmd.outer \o cmd.inner) <= 1
  /\ \A n \in DOMAIN cmd.pipe : PlainSegment(cmd.pipe[n])

(* No shell, or one and nothing in front of it.                            *)
ShellInFront(cmd) == cmd.shells = 0 \/ (cmd.shells = 1 /\ cmd.outer = <<>>)

-----------------------------------------------------------------------------
(* The file that is tracked for a command line is one that the shell reads *)
(* for it, in the directory it reads it from and never one it writes; and  *)
(* when the shell reads one at all, one is tracked, except inside a shell  *)
(* that is not at the front (extractBashReadPath).                         *)
BashFileIsRead ==
  call # NoCall /\ call.tool = "Bash" /\ Plain(call.command) =>
    LET reads == ShellReads(call.command, call.cwd)
        file  == BashFile(call.command, call.cwd)
    IN  /\ file # NoFile => file \in reads
        /\ reads # {} /\ ShellInFront(call.command) => file # NoFile

(* The lines that a call asks for: the first one, and how many at most, {} *)
(* without a limit.  The client is taken to treat 0 as not given.          *)
Asked(in) ==
  IF in.tool = "Read"
  THEN <<ToolFile(in), IF in.offset \in {NoNumber, 0} THEN 1 ELSE in.offset,
         {in.limit} \ {NoNumber, 0}>>
  ELSE <<ToolFile(in), 1, {}>>

Given(in) == IF in.tool = "Read" THEN <<in.offset, in.limit>>
             ELSE <<NoNumber, NoNumber>>

(* A file whose name looks like that of another file with a range.         *)
EndsInRange(file) ==
  \E x \in Name : \E m, n \in Shown : file[2] = Ranged(x, m, n)

(* Two calls have one key only if they ask for the same lines of the same  *)
(* file, unless a file is named like a range of another one; and whenever  *)
(* they give the same range of the same file, however it is named and      *)
(* whichever tool reads it: cat has the key of the whole file.  Without a  *)
(* directory from the client, Read and Bash resolve a name differently     *)
(* (parseToolInput).                                                       *)
SameReadSameKey ==
  call # NoCall /\ call.tool = "Read" /\ call.session /\ call.cwd # NoDir =>
    \A filter \in Filters : \A in \in ToolCalls :
      in.session /\ in.cwd # NoDir =>
        LET mine  == HookKey(call, filter)
            other == HookKey(in, filter)
        IN  /\ mine # NoFile /\ mine = other =>
                 \/ Asked(call) = Asked(in)
                 \/ EndsInRange(ToolFile(call)) \/ EndsInRange(ToolFile(in))
            /\ ToolFile(call) = ToolFile(in) /\ Given(call) = Given(in) =>
                 mine = other

(* The client of the hook that install registers, started in a project     *)
(* outside the directories of the clients: with READ_ONCE_CLIENT and       *)
(* READ_ONCE_HOME kept as install had them, or with neither, but for what  *)
(* the OpenCode plugin sets.                                               *)
HookClient(kept, home) ==
  AppClient(IF kept \/ client = "opencode" THEN client ELSE "", "project",
            CacheDir(home, client))

(* The hook works for the client it was installed for, in the directory it *)
(* was installed to, when READ_ONCE_HOME was not set for install or is     *)
(* kept.  Else it looks for its cache elsewhere and, of codex, works for   *)
(* claude (loadAppConfig, detectDefaultClient).                            *)
HookFindsClient ==
  \A home \in Homes : \A kept \in BOOLEAN :
    home = "" \/ kept =>
      /\ HookClient(kept, home) = client
      /\ CacheDir(IF kept THEN home ELSE "", HookClient(kept, home)) =
           CacheDir(home, client)
=============================================================================
