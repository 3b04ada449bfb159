------------------------------ MODULE Settings ------------------------------
(***************************************************************************)
(* The commands that put the hook into a client's configuration and take   *)
(* it out again: install, upgrade, optimize and uninstall (commands.go,    *)
(* clients.go), each a process of its own, one step per file system call   *)
(* that others can see.  The settings file is shared with the client and   *)
(* its user, who write it as well; nothing is locked.                      *)
(***************************************************************************)
EXTENDS Integers, FiniteSets

CONSTANTS Proc,        \* commands that may run at the same time
          Clients,     \* the values of READ_ONCE_CLIENT
          Tools,       \* the tools a matcher can cover
          Other,       \* hook commands of other programs
          None,        \* no hook
          Rest,        \* settings besides the PreToolUse hooks
          Blank,       \* no settings besides them
          Absent,      \* no settings file
          Broken,      \* an empty file, which is not valid JSON
          StartFiles   \* the settings files the first command may find

CONSTANTS MaxItems,    \* bound: items of the PreToolUse list
          MaxHooks,    \* bound: hooks of an item
          MaxCommands, \* bound: commands
          MaxEdits,    \* bound: changes by the client or the user
          MaxFaults    \* bound: killed commands and failed calls

(* "read-once" is part of these commands: the one install writes, the one  *)
(* optimize writes, and hook.sh of earlier versions.                       *)
Ours == {"plain", "optimal", "legacy"}

(* The places of the items in the list, and of the hooks in the items.     *)
Slot  == 1..MaxItems
Place == Slot \X (1..MaxHooks)

(* A settings file: what stands at hooks.PreToolUse, the matcher of each   *)
(* item, the hook at each place, and the rest.  "other" is null, or an     *)
(* entry of another type there or at hooks.  An item without a hook is no  *)
(* item.                                                                   *)
Doc == [list : {"none", "other", "list"}, matcher : [Slot -> SUBSET Tools],
        hook : [Place -> Ours \cup Other \cup {None}], rest : Rest]

ASSUME SettingsAssumption ==
  /\ Clients \subseteq {"claude", "codex", "opencode"}
  /\ {"Read", "Bash"} \subseteq Tools
  /\ None \notin Ours \cup Other /\ Other \cap Ours = {}
  /\ Blank \in Rest
  /\ Absent \notin Doc /\ Broken \notin Doc /\ Absent # Broken
  /\ StartFiles \subseteq Doc \cup {Absent}
  /\ \A f \in StartFiles \ {Absent} :
       f.list = "list" \/ \A q \in Place : f.hook[q] = None
  /\ {MaxItems, MaxHooks} \subseteq Nat \ {0}
  /\ {MaxCommands, MaxEdits, MaxFaults} \subseteq Nat

VARIABLES
  client,    \* the client all commands are for
  settings,  \* the settings file
  binary,    \* the installed program
  script,    \* hook.sh of an earlier version is there
  plugin,    \* the OpenCode plugin exists
  tool,      \* the OpenCode tool exists
  pc,        \* next step of each command
  job,       \* local variables of each command
  holds,     \* the file at the path is the one the command has open
  budget,    \* what is left of the bounds
  theirs,    \* history: what others last had in the settings
  stale,     \* history: commands that looked before others last wrote
  lost,      \* history: such a command has written
  bare,      \* history: the user deleted the program, a copy of it was cut
             \*   off, or optimize was run without one; none was copied since
  disturbed  \* history: commands since whose start others changed something

files   == <<settings, binary, script, plugin, tool>>
history == <<theirs, stale, lost, bare, disturbed>>
vars    == <<client, files, pc, job, holds, budget, history>>

-----------------------------------------------------------------------------
Command == {"install", "upgrade", "optimize", "uninstall"}

Steps == {"idle", "start", "create", "fill", "read", "check", "copy",
          "write", "replace", "plugin", "tool", "done"}

(* What a command says at its end; "" before, and when there was nothing   *)
(* for it to do.                                                           *)
Word == {"installed", "upgraded", "optimized", "removed", "failed", ""}

Job == [command : Command, doc : Doc \cup {Absent}, said : Word]

NoJob(c) == [command |-> c, doc |-> Absent, said |-> ""]

IsDoc(f) == f \notin {Absent, Broken}

(* "{}"                                                                    *)
EmptyDoc == [list |-> "none", matcher |-> [s \in Slot |-> {}],
             hook |-> [q \in Place |-> None], rest |-> Blank]

(* clientMatcher                                                           *)
Tool == IF client = "claude" THEN "Read" ELSE "Bash"

(* The places of our commands that are run for the tool.                   *)
Registered(doc) ==
  {q \in Place : Tool \in doc.matcher[q[1]] /\ doc.hook[q] \in Ours}

(* A hook of the document is one of these commands.                        *)
Calls(doc, commands) == \E q \in Place : doc.hook[q] \in commands

(* What a file has of others: their hooks, each with its matcher and its   *)
(* place, and the rest.                                                    *)
Theirs(f) ==
  IF IsDoc(f)
  THEN [hooks |-> {<<q, f.matcher[q[1]], f.hook[q]>> :
                     q \in {r \in Place : f.hook[r] \in Other}},
        rest |-> f.rest]
  ELSE [hooks |-> {}, rest |-> Blank]

Init ==
  /\ client \in Clients
  /\ settings \in StartFiles
  /\ binary \in {"missing", "old"}
  /\ script \in BOOLEAN /\ plugin \in BOOLEAN /\ tool = plugin
  /\ plugin => client = "opencode" /\ binary # "missing"
  /\ script => client = "claude"
  /\ IsDoc(settings) => /\ Calls(settings, {"plain", "optimal"})
                           => binary # "missing"
                        /\ Calls(settings, {"legacy"}) => script
                        /\ Cardinality(Registered(settings)) <= 1
  /\ pc = [p \in Proc |-> "idle"]
  /\ job = [p \in Proc |-> NoJob("install")]
  /\ holds = [p \in Proc |-> FALSE]
  /\ budget = [commands |-> MaxCommands, edits |-> MaxEdits,
               faults |-> MaxFaults]
  /\ theirs = Theirs(settings)
  /\ stale = {} /\ lost = FALSE /\ bare = FALSE
  /\ disturbed = {}

Goto(p, step) == pc' = [pc EXCEPT ![p] = step]

Spend(what) ==
  /\ budget[what] > 0
  /\ budget' = [budget EXCEPT ![what] = @ - 1]

(* The command ends, with a word to the user.                              *)
Say(p, word) ==
  /\ Goto(p, "done")
  /\ job' = [job EXCEPT ![p].said = word]

(* A change by p, which the commands that are under way do not know of.    *)
Disturb(p) == disturbed' = disturbed \cup (Proc \ {p})

-----------------------------------------------------------------------------
Start(p, c) ==
  /\ pc[p] \in {"idle", "done"}
  /\ Spend("commands")
  /\ Goto(p, "start")
  /\ job' = [job EXCEPT ![p] = NoJob(c)]
  /\ stale' = stale \ {p} /\ disturbed' = disturbed \ {p}
  /\ UNCHANGED <<client, files, holds, theirs, lost, bare>>

(***************************************************************************)
(* install: a missing settings file is created with os.WriteFile, which    *)
(* truncates what is at the path by then and writes "{}" after that.       *)
(* OpenCode keeps no hooks there, and the file is not read.                *)
(***************************************************************************)
AfterProbe == IF client = "opencode" THEN "copy" ELSE "read"

ProbeSettings(p) ==
  /\ pc[p] = "start" /\ job[p].command = "install"
  /\ Goto(p, IF settings = Absent THEN "create" ELSE AfterProbe)
  /\ stale' = stale \ {p}
  /\ UNCHANGED <<client, files, job, holds, budget, theirs, lost, bare,
                 disturbed>>

CreateSettings(p) ==
  /\ pc[p] = "create"
  /\ settings' = Broken
  /\ holds' = [holds EXCEPT ![p] = TRUE]
  /\ lost' = (lost \/ p \in stale)
  /\ Goto(p, "fill")
  /\ Disturb(p)
  /\ UNCHANGED <<client, binary, script, plugin, tool, job, budget, theirs,
                 stale, bare>>

FillSettings(p) ==
  /\ pc[p] = "fill"
  /\ settings' = IF holds[p] THEN EmptyDoc
                 ELSE settings
  /\ holds' = [holds EXCEPT ![p] = FALSE]
  /\ Goto(p, AfterProbe)
  /\ Disturb(p)
  /\ UNCHANGED <<client, binary, script, plugin, tool, job, budget, theirs,
                 stale, lost, bare>>

-----------------------------------------------------------------------------
(***************************************************************************)
(* The document that a command writes back: the one it read, changed.      *)
(* install appends an item, to an empty list when there is no list or      *)
(* something else in its place; optimize rewrites our commands that are    *)
(* run for the tool; uninstall takes all of ours out, and the items that   *)
(* have no hook left.  An empty list is written as null.                   *)
(***************************************************************************)
(* The place after the last item.                                          *)
IsEnd(doc, s) ==
  /\ \A q \in Place : doc.hook[q] # None => q[1] < s
  /\ s > 1 => \E q \in Place : q[1] = s - 1 /\ doc.hook[q] # None

Appended(doc, s, command) ==
  [doc EXCEPT !.list = "list", !.matcher[s] = {Tool},
              !.hook[<<s, 1>>] = command]

Optimized(doc) ==
  [doc EXCEPT !.hook = [q \in Place |-> IF q \in Registered(doc) THEN "optimal"
                                        ELSE doc.hook[q]]]

(* Faulty variant: an item goes when one of its hooks is ours.             *)
UninstalledWhole(doc) ==
  [doc EXCEPT !.hook = [q \in Place |->
     IF \E r \in Place : r[1] = q[1] /\ doc.hook[r] \in Ours THEN None
     ELSE doc.hook[q]]]

(* Faulty variant: a lone hook is taken out, one among others is not.      *)
UninstalledAlone(doc) ==
  [doc EXCEPT !.hook = [q \in Place |->
     IF \A r \in Place : r[1] = q[1] => doc.hook[r] \notin Other THEN None
     ELSE doc.hook[q]]]

(* Faulty variant: the empty list is not a list any more.                  *)
UninstalledNull(doc) ==
  [doc EXCEPT !.list = IF Calls(doc, Other) THEN "list" ELSE None,
              !.hook = [q \in Place |-> IF doc.hook[q] \in Ours THEN None
                                        ELSE doc.hook[q]]]

Uninstalled(doc) ==
  [doc EXCEPT !.list = IF Calls(doc, Other) THEN "list" ELSE "other",
              !.hook = [q \in Place |-> IF doc.hook[q] \in Ours THEN None
                                        ELSE doc.hook[q]]]

(* What the command may write.                                             *)
Changed(c, doc) ==
  CASE c = "install"   -> {Appended(doc, s, "plain") :
                             s \in {t \in Slot : IsEnd(doc, t)}}
    [] c = "optimize"  -> {Optimized(doc)}
    [] c = "uninstall" -> {Uninstalled(doc)}

(* Faulty variant: only the matcher that install writes is recognised.     *)
HasHookExact(doc) ==
  \E q \in Registered(doc) : doc.matcher[q[1]] = {Tool}

(* hasReadOnceHookForTool                                                  *)
HasHook(doc) == Registered(doc) # {}

(* Faulty variant: the hook is registered before the program is there.     *)
AfterReadEarly(c, doc) ==
  CASE c = "install"   -> IF HasHook(doc) THEN "check" ELSE "replace"
    [] c = "optimize"  -> IF HasHook(doc) THEN "replace" ELSE "failed"
    [] c = "uninstall" -> IF doc.list # "list" THEN "removed" ELSE "replace"

(* What follows the reading: a next step, or the word the command ends on. *)
AfterRead(c, doc) ==
  CASE c = "install"   -> IF HasHook(doc) THEN "check" ELSE "copy"
    [] c = "optimize"  -> IF HasHook(doc) THEN "replace" ELSE "failed"
    [] c = "uninstall" -> IF doc.list # "list" THEN "removed" ELSE "replace"

(* os.ReadFile and parseJSONMap.                                           *)
ReadSettings(p) ==
  LET c == job[p].command IN
  /\ client # "opencode"
  /\ \/ pc[p] = "read"
     \/ pc[p] = "start" /\ c \in {"optimize", "uninstall"}
  /\ \/ /\ IsDoc(settings) /\ AfterRead(c, settings) \in Steps
        /\ job' = [job EXCEPT ![p].doc = settings]
        /\ Goto(p, AfterRead(c, settings))
     \/ /\ IsDoc(settings) /\ AfterRead(c, settings) \in Word
        /\ Say(p, AfterRead(c, settings))
     \/ /\ ~IsDoc(settings)
        /\ Say(p, IF c = "uninstall" /\ settings = Absent THEN ""
                  ELSE "failed")
  /\ stale' = stale \ {p}
  /\ UNCHANGED <<client, files, holds, budget, theirs, lost, bare, disturbed>>

(* The hook is registered: install only brings back a missing program, and *)
(* upgrade only replaces one that is there.                                *)
CheckBinary(p) ==
  /\ \/ pc[p] = "check"
     \/ pc[p] = "start" /\ job[p].command = "upgrade"
  /\ \/ /\ (binary = "missing") = (job[p].command = "install")
        /\ Goto(p, "copy")
        /\ UNCHANGED job
     \/ /\ (binary = "missing") # (job[p].command = "install")
        /\ Say(p, IF job[p].command = "install" THEN "installed" ELSE "")
  /\ UNCHANGED <<client, files, holds, budget, history>>

-----------------------------------------------------------------------------
(***************************************************************************)
(* copyFile: os.WriteFile truncates the installed program and then writes  *)
(* it, in place.                                                           *)
(***************************************************************************)
CopyOpen(p) ==
  /\ pc[p] = "copy"
  /\ binary' = "partial"
  /\ holds' = [holds EXCEPT ![p] = TRUE]
  /\ Goto(p, "write")
  /\ Disturb(p)
  /\ UNCHANGED <<client, settings, script, plugin, tool, job, budget, theirs,
                 stale, lost, bare>>

(* Whether a copy of install is a repair, after which nothing is changed.  *)
Repair(p) == job[p].doc # Absent /\ HasHook(job[p].doc)

CopyWrite(p) ==
  LET c == job[p].command IN
  /\ pc[p] = "write"
  /\ binary' = IF holds[p] THEN "new" ELSE binary
  /\ bare' = (bare /\ ~holds[p])
  /\ \/ c = "upgrade" /\ Say(p, "upgraded")
     \/ c = "install" /\ Repair(p) /\ Say(p, "installed")
     \/ /\ c = "install" /\ ~Repair(p)
        /\ Goto(p, IF client = "opencode" THEN "plugin" ELSE "replace")
        /\ UNCHANGED job
  /\ holds' = [holds EXCEPT ![p] = FALSE]
  /\ Disturb(p)
  /\ UNCHANGED <<client, settings, script, plugin, tool, budget, theirs, stale,
                 lost>>

(* A file open for writing is no longer the one at the path.               *)
Detach(step) == holds' = [p \in Proc |-> holds[p] /\ pc[p] # step]

(* writeFileAtomic on the settings: the renaming.                          *)
Replace(p) ==
  LET c == job[p].command IN
  /\ pc[p] = "replace"
  /\ settings' \in Changed(c, job[p].doc)
  /\ lost' = (lost \/ p \in stale)
  /\ bare' = (bare \/ (c = "optimize" /\ binary = "missing"))
  /\ Say(p, CASE c = "install"   -> "installed"
              [] c = "optimize"  -> "optimized"
              [] c = "uninstall" -> "removed")
  /\ Detach("fill")
  /\ Disturb(p)
  /\ UNCHANGED <<client, binary, script, plugin, tool, budget, theirs, stale>>

-----------------------------------------------------------------------------
(***************************************************************************)
(* OpenCode: a plugin and a tool in files of their own, written by install *)
(* and optimize and removed by uninstall.                                  *)
(***************************************************************************)
CheckPlugin(p) ==
  /\ client = "opencode" /\ pc[p] = "start" /\ job[p].command = "optimize"
  /\ \/ plugin /\ binary # "missing" /\ Goto(p, "plugin") /\ UNCHANGED job
     \/ ~(plugin /\ binary # "missing") /\ Say(p, "failed")
  /\ UNCHANGED <<client, files, holds, budget, history>>

SetPlugin(p) ==
  LET c == job[p].command IN
  /\ client = "opencode"
  /\ pc[p] = "plugin" \/ (pc[p] = "start" /\ c = "uninstall")
  /\ plugin' = (c # "uninstall")
  /\ Goto(p, "tool")
  /\ Disturb(p)
  /\ UNCHANGED <<client, settings, binary, script, tool, job, holds, budget,
                 theirs, stale, lost, bare>>

SetTool(p) ==
  LET c == job[p].command IN
  /\ pc[p] = "tool"
  /\ tool' = (c # "uninstall")
  /\ Say(p, CASE c = "install"   -> "installed"
              [] c = "optimize"  -> "optimized"
              [] c = "uninstall" -> "removed")
  /\ Disturb(p)
  /\ UNCHANGED <<client, settings, binary, script, plugin, holds, budget,
                 theirs, stale, lost, bare>>

-----------------------------------------------------------------------------
(* A command is killed, or the next call fails before it changes anything: *)
(* the disk is full, the program to be replaced is being run.              *)
Stop(p) ==
  /\ pc[p] \notin {"idle", "done"}
  /\ Spend("faults")
  /\ Say(p, "failed")
  /\ holds' = [holds EXCEPT ![p] = FALSE]
  /\ bare' = (bare \/ (pc[p] = "write" /\ holds[p]))
  /\ UNCHANGED <<client, files, theirs, stale, lost, disturbed>>

(* External: the client or its user adds a hook to the settings or changes *)
(* something else in them, and renames the new file over the old one.      *)
ClientWrite ==
  /\ settings # Broken
  /\ Spend("edits")
  /\ LET doc == IF settings = Absent THEN EmptyDoc ELSE settings
     IN  \/ \E o \in Other, s \in Slot :
              IsEnd(doc, s) /\ settings' = Appended(doc, s, o)
         \/ \E r \in Rest \ {doc.rest} : settings' = [doc EXCEPT !.rest = r]
  /\ theirs' = Theirs(settings')
  /\ stale' = {p \in Proc : pc[p] \notin {"idle", "done"}}
  /\ disturbed' = Proc
  /\ Detach("fill")
  /\ UNCHANGED <<client, binary, script, plugin, tool, pc, job, lost, bare>>

(* External: the user deletes the installed program.                       *)
DeleteBinary ==
  /\ binary # "missing"
  /\ Spend("edits")
  /\ binary' = "missing"
  /\ bare' = TRUE
  /\ disturbed' = Proc
  /\ Detach("write")
  /\ UNCHANGED <<client, settings, script, plugin, tool, pc, job, theirs,
                 stale, lost>>

Next ==
  \/ \E p \in Proc :
       \/ \E c \in Command : Start(p, c)
       \/ ProbeSettings(p) \/ CreateSettings(p) \/ FillSettings(p)
       \/ ReadSettings(p) \/ CheckBinary(p)
       \/ CopyOpen(p) \/ CopyWrite(p) \/ Replace(p)
       \/ CheckPlugin(p) \/ SetPlugin(p) \/ SetTool(p)
       \/ Stop(p)
  \/ ClientWrite \/ DeleteBinary

Spec == Init /\ [][Next]_vars

-----------------------------------------------------------------------------
TypeOK ==
  /\ client \in Clients
  /\ settings \in Doc \cup {Absent, Broken}
  /\ binary \in {"missing", "partial", "old", "new"}
  /\ {script, plugin, tool, lost, bare} \subseteq BOOLEAN
  /\ pc \in [Proc -> Steps]
  /\ job \in [Proc -> Job]
  /\ holds \in [Proc -> BOOLEAN]
  /\ DOMAIN budget = {"commands", "edits", "faults"}
  /\ \A what \in DOMAIN budget : budget[what] \in Nat
  /\ stale \subseteq Proc /\ disturbed \subseteq Proc

(* The hooks of other programs, their order and all other settings stay as *)
(* others last left them, whatever commands run, are killed or fail, as    *)
(* long as nobody writes between the reading and the writing of a command; *)
(* in particular the file is never torn (installHook, optimizeSetup,       *)
(* uninstall, writeFileAtomic).  What is no list where the list should be  *)
(* counts as nothing of theirs: install replaces it.                       *)
OthersKept == ~lost => Theirs(settings) = theirs

(* However often and wherever install is run, a tool call starts the hook  *)
(* once: the second process would refuse the first read of every file      *)
(* (hasReadOnceHookForTool and matcherMatchesTool in installHook).         *)
RegisteredOnce == IsDoc(settings) => Cardinality(Registered(settings)) <= 1

(* A hook or plugin that runs the installed program finds a whole one but  *)
(* during a copy, unless the user deleted it, a copy was cut off or        *)
(* optimize was run without it (installHook copies the program before it   *)
(* registers it; uninstall leaves the program).                            *)
HookHasBinary ==
  \/ /\ IsDoc(settings) => ~Calls(settings, {"plain", "optimal"})
     /\ ~plugin
  \/ bare
  \/ binary = "partial" /\ \E p \in Proc : pc[p] = "write"
  \/ binary \in {"old", "new"}

(* What a command says at its end is so, as long as nobody else has        *)
(* changed anything since it started.                                      *)
SaidIsTrue ==
  \A p \in Proc \ disturbed :
    /\ job[p].said = "installed" =>
         /\ binary # "missing"
         /\ IF client = "opencode" THEN plugin /\ tool
            ELSE IsDoc(settings) /\ HasHook(settings)
    /\ job[p].said = "upgraded" => binary = "new"
    /\ job[p].said = "optimized" =>
         IF client = "opencode" THEN plugin /\ tool
         ELSE /\ HasHook(settings)
              /\ \A q \in Registered(settings) :
                   settings.hook[q] = "optimal"
    /\ job[p].said = "removed" =>
         IF client = "opencode" THEN ~plugin /\ ~tool
         ELSE ~Calls(settings, Ours)
=============================================================================
