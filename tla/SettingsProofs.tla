--------------------------- MODULE SettingsProofs ---------------------------
(***************************************************************************)
(* Proofs about Settings, for any number of commands, clients, hooks and   *)
(* faults: what is in the settings file, and what is at its other end.     *)
(***************************************************************************)
EXTENDS Settings, FiniteSetTheorems, NaturalSets

-----------------------------------------------------------------------------
(***************************************************************************)
(* The three changes of a settings file.                                   *)
(***************************************************************************)
LEMMA PlaceOf == Place = {<<s, h>> : s \in Slot, h \in 1..MaxHooks}
  BY DEF Place

LEMMA EmptyIsDoc == EmptyDoc \in Doc
  BY SettingsAssumption DEF EmptyDoc, Doc

LEMMA DocIsDoc ==
  ASSUME NEW doc \in Doc
  PROVE  IsDoc(doc)
  BY SettingsAssumption DEF IsDoc

LEMMA FileIsDoc ==
  ASSUME NEW f \in Doc \cup {Absent, Broken}
  PROVE  IsDoc(f) <=> f \in Doc
  BY SettingsAssumption DEF IsDoc

LEMMA AppendedIsDoc ==
  ASSUME NEW doc \in Doc, NEW s \in Slot, NEW c \in Ours \cup Other,
         client \in Clients
  PROVE  Appended(doc, s, c) \in Doc
<1>1. Tool \in Tools
  BY SettingsAssumption DEF Tool
<1>2. <<s, 1>> \in Place
  BY SettingsAssumption DEF Place
<1> QED  BY <1>1, <1>2 DEF Appended, Doc

LEMMA OptimizedIsDoc ==
  ASSUME NEW doc \in Doc
  PROVE  Optimized(doc) \in Doc
<1>1. [q \in Place |-> IF q \in Registered(doc) THEN "optimal"
                       ELSE doc.hook[q]]
        \in [Place -> Ours \cup Other \cup {None}]
  BY DEF Doc, Ours
<1> QED  BY <1>1 DEF Optimized, Doc

LEMMA UninstalledIsDoc ==
  ASSUME NEW doc \in Doc
  PROVE  Uninstalled(doc) \in Doc
<1>1. [q \in Place |-> IF doc.hook[q] \in Ours THEN None ELSE doc.hook[q]]
        \in [Place -> Ours \cup Other \cup {None}]
  BY DEF Doc, Ours
<1>2. Calls(doc, Other) \in BOOLEAN
  BY DEF Calls
<1> QED  BY <1>1, <1>2 DEF Uninstalled, Doc

LEMMA ChangedIsDoc ==
  ASSUME NEW doc \in Doc, NEW c \in {"install", "optimize", "uninstall"},
         client \in Clients, NEW new \in Changed(c, doc)
  PROVE  new \in Doc
<1>1. CASE c = "install"
  <2>1. PICK s \in Slot : new = Appended(doc, s, "plain")
    BY <1>1 DEF Changed
  <2> QED  BY <2>1, AppendedIsDoc DEF Ours
<1>2. CASE c = "optimize"
  BY <1>2, OptimizedIsDoc DEF Changed
<1>3. CASE c = "uninstall"
  BY <1>3, UninstalledIsDoc DEF Changed
<1> QED  BY <1>1, <1>2, <1>3

-----------------------------------------------------------------------------
(***************************************************************************)
(* Which command is at which step, and what it has read by then.           *)
(***************************************************************************)
StepOf(p) ==
  LET c == job[p].command IN
  /\ pc[p] \in {"create", "fill", "read", "check"} => c = "install"
  /\ pc[p] \in {"copy", "write"} => c \in {"install", "upgrade"}
  /\ pc[p] \in {"replace", "plugin", "tool"} => c # "upgrade"
  /\ pc[p] = "plugin" => c # "uninstall"
  /\ pc[p] \in {"read", "check", "replace"} => client # "opencode"
  /\ pc[p] \in {"plugin", "tool"} => client = "opencode"

DocOf(p) ==
  LET c == job[p].command IN
  /\ pc[p] = "start" => job[p].doc = Absent
  /\ c = "upgrade" \/ client = "opencode" => job[p].doc = Absent
  /\ pc[p] \in {"check", "replace"} => job[p].doc \in Doc
  /\ pc[p] \in {"copy", "write"} /\ c = "install" /\ client # "opencode" =>
       job[p].doc \in Doc
  /\ pc[p] = "check" => HasHook(job[p].doc)
  /\ pc[p] = "replace" =>
       c = "uninstall" \/ (HasHook(job[p].doc) <=> c = "optimize")

ClientInv == (script => client = "claude") /\ (plugin => client = "opencode")

StepInv == \A p \in Proc : StepOf(p) /\ DocOf(p)

BaseInv == TypeOK /\ StepInv /\ ClientInv

LEMMA BaseInit == Init => BaseInv
<1> SUFFICES ASSUME Init PROVE BaseInv
  OBVIOUS
<1>1. \A p \in Proc : pc[p] = "idle" /\ job[p] = NoJob("install")
  BY DEF Init
<1>2. StepInv
  <2> SUFFICES ASSUME NEW p \in Proc PROVE StepOf(p) /\ DocOf(p)
    BY DEF StepInv
  <2>1. /\ pc[p] = "idle" /\ job[p].command = "install"
        /\ job[p].doc = Absent
    <3>1. /\ NoJob("install").command = "install"
          /\ NoJob("install").doc = Absent
      BY DEF NoJob
    <3> QED  BY <1>1, <3>1
  <2> QED  BY <2>1 DEF StepOf, DocOf
<1>3. TypeOK
  <2>1. NoJob("install") \in Job
    BY DEF NoJob, Job, Word, Command
  <2>2. pc \in [Proc -> Steps] /\ job \in [Proc -> Job]
    BY <2>1 DEF Init, Steps
  <2>3. /\ DOMAIN budget = {"commands", "edits", "faults"}
        /\ \A what \in DOMAIN budget : budget[what] \in Nat
    BY SettingsAssumption DEF Init
  <2>4. client \in Clients /\ settings \in Doc \cup {Absent, Broken}
    BY SettingsAssumption DEF Init
  <2>5. {script, plugin, tool, lost, bare} \subseteq BOOLEAN
    BY DEF Init
  <2> QED  BY <2>2, <2>3, <2>4, <2>5 DEF Init, TypeOK
<1> QED  BY <1>2, <1>3 DEF BaseInv, ClientInv, Init

(* An action of p leaves the other commands where they are.                *)
Alone(p) ==
  \A q \in Proc \ {p} : pc'[q] = pc[q] /\ job'[q] = job[q]

(* What is left of the bounds.                                             *)
LEMMA SpendTyped ==
  ASSUME TypeOK, NEW what \in {"commands", "edits", "faults"}, Spend(what)
  PROVE  /\ DOMAIN budget' = {"commands", "edits", "faults"}
         /\ \A w \in DOMAIN budget' : budget'[w] \in Nat
  BY DEF TypeOK, Spend

USE DEF Goto, Disturb, Detach

(* The last step of a command leaves nothing to be true of its record.     *)
LEMMA SayEnds ==
  ASSUME TypeOK, StepInv, NEW p \in Proc, NEW word \in Word, Say(p, word)
  PROVE  /\ pc' \in [Proc -> Steps] /\ job' \in [Proc -> Job]
         /\ Alone(p) /\ pc'[p] = "done"
         /\ job'[p].said = word
         /\ client' = client => StepOf(p)' /\ DocOf(p)'
<1>1. /\ pc' = [pc EXCEPT ![p] = "done"]
      /\ job' = [job EXCEPT ![p].said = word]
  BY DEF Say
<1>2. pc' \in [Proc -> Steps] /\ pc'[p] = "done" /\ Alone(p)
  BY <1>1 DEF TypeOK, Steps, Alone
<1>3. job[p] \in Job
  BY DEF TypeOK
<1>4. job'[p] = [job[p] EXCEPT !.said = word]
  BY <1>1 DEF TypeOK
<1>5. [job[p] EXCEPT !.said = word] \in Job
  BY <1>3 DEF Job
<1>6. job' \in [Proc -> Job]
  BY <1>1, <1>4, <1>5 DEF TypeOK
<1>7. /\ job'[p].command = job[p].command /\ job'[p].doc = job[p].doc
      /\ job'[p].said = word
  BY <1>3, <1>4 DEF Job
<1>8. client' = client => StepOf(p)' /\ DocOf(p)'
  BY <1>2, <1>7 DEF StepInv, StepOf, DocOf
<1> QED  BY <1>2, <1>6, <1>7, <1>8

LEMMA BaseStep == BaseInv /\ [Next]_vars => BaseInv'
<1> SUFFICES ASSUME BaseInv, [Next]_vars PROVE BaseInv'
  OBVIOUS
<1>a. TypeOK /\ StepInv /\ ClientInv
  BY DEF BaseInv
<1>b. ASSUME NEW p \in Proc, Alone(p), UNCHANGED client, StepOf(p)', DocOf(p)'
      PROVE  StepInv'
  BY <1>a, <1>b DEF StepInv, StepOf, DocOf, Alone, HasHook, Registered, Tool
<1>1. ASSUME NEW p \in Proc, NEW c \in Command, Start(p, c) PROVE BaseInv'
  <2>1. TypeOK'
    BY <1>a, <1>1, SpendTyped, SettingsAssumption
    DEF TypeOK, Start, files, Steps, Job, NoJob, Word
  <2>2. Alone(p) /\ StepOf(p)' /\ DocOf(p)'
    BY <1>a, <1>1 DEF TypeOK, Start, NoJob, StepOf, DocOf, Alone
  <2> QED  BY <1>a, <1>b, <1>1, <2>1, <2>2 DEF BaseInv, ClientInv, Start, files
<1>2. ASSUME NEW p \in Proc, ProbeSettings(p) PROVE BaseInv'
  <2>1. TypeOK'
    BY <1>a, <1>2 DEF TypeOK, ProbeSettings, files, Steps, AfterProbe
  <2>2. Alone(p) /\ StepOf(p)' /\ DocOf(p)'
    BY <1>a, <1>2
    DEF TypeOK, StepInv, ProbeSettings, AfterProbe, StepOf, DocOf, Alone
  <2> QED
    BY <1>a, <1>b, <1>2, <2>1, <2>2
    DEF BaseInv, ClientInv, ProbeSettings, files
<1>3. ASSUME NEW p \in Proc, CreateSettings(p) PROVE BaseInv'
  <2>1. TypeOK'
    BY <1>a, <1>3 DEF TypeOK, CreateSettings, Steps
  <2>2. Alone(p) /\ StepOf(p)' /\ DocOf(p)'
    BY <1>a, <1>3 DEF TypeOK, StepInv, CreateSettings, StepOf, DocOf, Alone
  <2> QED
    BY <1>a, <1>b, <1>3, <2>1, <2>2 DEF BaseInv, ClientInv, CreateSettings
<1>4. ASSUME NEW p \in Proc, FillSettings(p) PROVE BaseInv'
  <2>1. TypeOK'
    BY <1>a, <1>4, EmptyIsDoc DEF TypeOK, FillSettings, Steps, AfterProbe
  <2>2. Alone(p) /\ StepOf(p)' /\ DocOf(p)'
    BY <1>a, <1>4
    DEF TypeOK, StepInv, FillSettings, AfterProbe, StepOf, DocOf, Alone
  <2> QED  BY <1>a, <1>b, <1>4, <2>1, <2>2 DEF BaseInv, ClientInv, FillSettings
<1>5. ASSUME NEW p \in Proc, ReadSettings(p) PROVE BaseInv'
  <2> DEFINE c == job[p].command
  <2>1. /\ client # "opencode" /\ job[p] \in Job
        /\ c \in {"install", "optimize", "uninstall"}
    BY <1>a, <1>5 DEF TypeOK, StepInv, StepOf, ReadSettings
  <2>2. CASE /\ IsDoc(settings) /\ AfterRead(c, settings) \in Steps
             /\ job' = [job EXCEPT ![p].doc = settings]
             /\ pc' = [pc EXCEPT ![p] = AfterRead(c, settings)]
    <3>1. settings \in Doc
      BY <1>a, <2>2, FileIsDoc DEF TypeOK
    <3>2. job'[p] = [job[p] EXCEPT !.doc = settings]
      BY <1>a, <2>2 DEF TypeOK
    <3>3. /\ job'[p] \in Job /\ job'[p].doc = settings
          /\ job'[p].command = c
      BY <2>1, <3>1, <3>2 DEF Job
    <3>4. job' \in [Proc -> Job] /\ pc' \in [Proc -> Steps] /\ Alone(p)
      BY <1>a, <2>2, <3>3 DEF TypeOK, Alone
    <3>5. pc'[p] = AfterRead(c, settings) /\ client' = client
      BY <1>a, <1>5, <2>2 DEF TypeOK, ReadSettings
    <3>6. HasHook(settings)' <=> HasHook(settings)
      BY <1>5 DEF HasHook, Registered, Tool, ReadSettings, files
    <3>7. (StepOf(p) /\ DocOf(p))'
      <4>1. CASE c = "install"
        BY <2>1, <3>1, <3>3, <3>5, <3>6, <4>1, <1>5
        DEF AfterRead, StepOf, DocOf, ReadSettings, files
      <4>2. CASE c = "optimize"
        BY <2>1, <2>2, <3>1, <3>3, <3>5, <3>6, <4>2, <1>5
        DEF AfterRead, StepOf, DocOf, ReadSettings, files, Steps
      <4>3. CASE c = "uninstall"
        BY <2>1, <2>2, <3>1, <3>3, <3>5, <3>6, <4>3, <1>5
        DEF AfterRead, StepOf, DocOf, ReadSettings, files, Steps
      <4> QED  BY <2>1, <4>1, <4>2, <4>3
    <3>8. TypeOK'
      BY <1>a, <1>5, <3>4 DEF TypeOK, ReadSettings, files
    <3> QED
      BY <1>a, <1>b, <1>5, <3>4, <3>7, <3>8
      DEF BaseInv, ClientInv, ReadSettings, files
  <2>3. ASSUME NEW word \in Word, Say(p, word) PROVE BaseInv'
    BY <1>a, <1>b, <1>5, <2>3, SayEnds
    DEF BaseInv, ClientInv, ReadSettings, files, TypeOK
  <2>4. (IF c = "uninstall" /\ settings = Absent THEN "" ELSE "failed")
          \in Word
    BY DEF Word
  <2> QED  BY <1>5, <2>2, <2>3, <2>4 DEF ReadSettings
<1>6. ASSUME NEW p \in Proc, CheckBinary(p) PROVE BaseInv'
  <2>1. ASSUME pc' = [pc EXCEPT ![p] = "copy"], UNCHANGED job,
               \/ pc[p] = "check"
               \/ pc[p] = "start" /\ job[p].command = "upgrade"
        PROVE  BaseInv'
    <3>1. TypeOK'
      BY <1>a, <1>6, <2>1
      DEF TypeOK, CheckBinary, files, history, Steps
    <3>2. Alone(p) /\ StepOf(p)' /\ DocOf(p)'
      BY <1>a, <1>6, <2>1
      DEF TypeOK, StepInv, CheckBinary, StepOf, DocOf, Alone
    <3> QED
      BY <1>a, <1>b, <1>6, <3>1, <3>2
      DEF BaseInv, ClientInv, CheckBinary, files
  <2>2. ASSUME NEW word \in Word, Say(p, word) PROVE BaseInv'
    BY <1>a, <1>b, <1>6, <2>2, SayEnds
    DEF BaseInv, ClientInv, CheckBinary, files, history, TypeOK
  <2>3. (IF job[p].command = "install" THEN "installed" ELSE "") \in Word
    BY DEF Word
  <2> QED  BY <1>6, <2>1, <2>2, <2>3 DEF CheckBinary
<1>7. ASSUME NEW p \in Proc, CopyOpen(p) PROVE BaseInv'
  <2>1. TypeOK'
    BY <1>a, <1>7 DEF TypeOK, CopyOpen, Steps
  <2>2. Alone(p) /\ StepOf(p)' /\ DocOf(p)'
    BY <1>a, <1>7 DEF TypeOK, StepInv, CopyOpen, StepOf, DocOf, Alone
  <2> QED  BY <1>a, <1>b, <1>7, <2>1, <2>2 DEF BaseInv, ClientInv, CopyOpen
<1>8. ASSUME NEW p \in Proc, CopyWrite(p) PROVE BaseInv'
  <2>1. ASSUME NEW word \in Word, Say(p, word) PROVE BaseInv'
    BY <1>a, <1>b, <1>8, <2>1, SayEnds
    DEF BaseInv, ClientInv, CopyWrite, TypeOK
  <2>2. ASSUME job[p].command = "install", ~Repair(p), UNCHANGED job,
               pc' = [pc EXCEPT ![p] = IF client = "opencode" THEN "plugin"
                                       ELSE "replace"]
        PROVE  BaseInv'
    <3>1. TypeOK'
      BY <1>a, <1>8, <2>2 DEF TypeOK, CopyWrite, Steps
    <3>2. client' = client /\ job' = job /\ pc[p] = "write" /\ Alone(p)
      BY <1>a, <1>8, <2>2 DEF CopyWrite, Alone, TypeOK
    <3>3. pc'[p] = IF client = "opencode" THEN "plugin" ELSE "replace"
      BY <1>a, <2>2 DEF TypeOK
    <3>4. HasHook(job[p].doc)' <=> HasHook(job[p].doc)
      BY <3>2 DEF HasHook, Registered, Tool
    <3>5. client # "opencode" => job[p].doc \in Doc /\ ~HasHook(job[p].doc)
      BY <1>a, <2>2, <3>2, SettingsAssumption DEF StepInv, DocOf, Repair
    <3>6. StepOf(p)' /\ DocOf(p)'
      BY <1>a, <2>2, <3>2, <3>3, <3>4, <3>5 DEF StepInv, StepOf, DocOf
    <3> QED
      BY <1>a, <1>b, <1>8, <3>1, <3>2, <3>6 DEF BaseInv, ClientInv, CopyWrite
  <2> QED  BY <1>8, <2>1, <2>2 DEF CopyWrite, Word
<1>9. ASSUME NEW p \in Proc, Replace(p) PROVE BaseInv'
  <2>0. /\ job[p].command \in {"install", "optimize", "uninstall"}
        /\ job[p].doc \in Doc
    BY <1>a, <1>9 DEF TypeOK, StepInv, Replace, StepOf, DocOf, Job, Command
  <2>1. settings' \in Doc
    BY <1>a, <1>9, <2>0, ChangedIsDoc DEF TypeOK, Replace
  <2>2. PICK word \in Word : Say(p, word)
    BY <1>9, <2>0 DEF Replace, Word
  <2>3. TypeOK'
    BY <1>a, <1>9, <2>1, <2>2, SayEnds DEF TypeOK, Replace
  <2> QED
    BY <1>a, <1>b, <1>9, <2>2, <2>3, SayEnds DEF BaseInv, ClientInv, Replace
<1>10. ASSUME NEW p \in Proc, CheckPlugin(p) PROVE BaseInv'
  <2>1. ASSUME pc' = [pc EXCEPT ![p] = "plugin"], UNCHANGED job
        PROVE  BaseInv'
    <3>1. TypeOK'
      BY <1>a, <1>10, <2>1
      DEF TypeOK, CheckPlugin, files, history, Steps
    <3>2. Alone(p) /\ StepOf(p)' /\ DocOf(p)'
      BY <1>a, <1>10, <2>1
      DEF TypeOK, StepInv, CheckPlugin, StepOf, DocOf, Alone
    <3> QED
      BY <1>a, <1>b, <1>10, <3>1, <3>2
      DEF BaseInv, ClientInv, CheckPlugin, files
  <2>2. ASSUME Say(p, "failed") PROVE BaseInv'
    <3>1. "failed" \in Word
      BY DEF Word
    <3> QED
      BY <1>a, <1>b, <1>10, <2>2, <3>1, SayEnds
      DEF BaseInv, ClientInv, CheckPlugin, files, history, TypeOK
  <2> QED  BY <1>10, <2>1, <2>2 DEF CheckPlugin
<1>11. ASSUME NEW p \in Proc, SetPlugin(p) PROVE BaseInv'
  <2>1. TypeOK'
    BY <1>a, <1>11 DEF TypeOK, SetPlugin, Steps
  <2>2. Alone(p) /\ StepOf(p)' /\ DocOf(p)'
    BY <1>a, <1>11 DEF TypeOK, StepInv, SetPlugin, StepOf, DocOf, Alone
  <2> QED  BY <1>a, <1>b, <1>11, <2>1, <2>2 DEF BaseInv, ClientInv, SetPlugin
<1>12. ASSUME NEW p \in Proc, SetTool(p) PROVE BaseInv'
  <2>0. job[p].command \in {"install", "optimize", "uninstall"}
    BY <1>a, <1>12 DEF TypeOK, StepInv, SetTool, StepOf, Job, Command
  <2>1. PICK word \in Word : Say(p, word)
    BY <1>12, <2>0 DEF SetTool, Word
  <2>2. TypeOK'
    BY <1>a, <1>12, <2>1, SayEnds DEF TypeOK, SetTool
  <2> QED
    BY <1>a, <1>b, <1>12, <2>1, <2>2, SayEnds DEF BaseInv, ClientInv, SetTool
<1>13. ASSUME NEW p \in Proc, Stop(p) PROVE BaseInv'
  <2>1. "failed" \in Word
    BY DEF Word
  <2>2. TypeOK'
    BY <1>a, <1>13, <2>1, SpendTyped, SayEnds DEF TypeOK, Stop, files
  <2> QED
    BY <1>a, <1>b, <1>13, <2>1, <2>2, SayEnds
    DEF BaseInv, ClientInv, Stop, files
<1>14. CASE ClientWrite
  <2>1. settings' \in Doc
    <3>1. (IF settings = Absent THEN EmptyDoc ELSE settings) \in Doc
      BY <1>a, <1>14, EmptyIsDoc DEF TypeOK, ClientWrite
    <3>2. \A doc \in Doc, r \in Rest : [doc EXCEPT !.rest = r] \in Doc
      BY DEF Doc
    <3> DEFINE doc == IF settings = Absent THEN EmptyDoc ELSE settings
    <3>3. \/ \E o \in Other, s \in Slot : settings' = Appended(doc, s, o)
          \/ \E r \in Rest : settings' = [doc EXCEPT !.rest = r]
      BY <1>14 DEF ClientWrite
    <3> HIDE DEF doc
    <3>4. doc \in Doc
      BY <3>1 DEF doc
    <3> QED  BY <1>a, <3>2, <3>3, <3>4, AppendedIsDoc DEF TypeOK
  <2>2. TypeOK'
    BY <1>a, <1>14, <2>1, SpendTyped DEF TypeOK, ClientWrite
  <2> QED
    BY <1>a, <1>14, <2>2
    DEF BaseInv, ClientInv, ClientWrite, StepInv, StepOf, DocOf, HasHook,
        Registered, Tool
<1>15. CASE DeleteBinary
  <2>1. TypeOK'
    BY <1>a, <1>15, SpendTyped DEF TypeOK, DeleteBinary
  <2> QED
    BY <1>a, <1>15, <2>1
    DEF BaseInv, ClientInv, DeleteBinary, StepInv, StepOf, DocOf, HasHook,
        Registered, Tool
<1>16. CASE UNCHANGED vars
  BY <1>a, <1>16
  DEF BaseInv, TypeOK, ClientInv, StepInv, StepOf, DocOf, HasHook, Registered,
      Tool, vars, files, history
<1> QED
  BY <1>1, <1>2, <1>3, <1>4, <1>5, <1>6, <1>7, <1>8, <1>9, <1>10, <1>11,
     <1>12, <1>13, <1>14, <1>15, <1>16 DEF Next

LEMMA BaseInvariant == Spec => []BaseInv
<1> QED  BY BaseInit, BaseStep, PTL DEF Spec

(* The settings file is absent, empty or a whole document, and every       *)
(* command is at one of its steps (commands.go, clients.go).               *)
THEOREM SettingsTypeCorrect == Spec => []TypeOK
<1>1. BaseInv => TypeOK
  BY DEF BaseInv
<1> QED  BY <1>1, BaseInvariant, PTL

-----------------------------------------------------------------------------
(***************************************************************************)
(* What others have in the settings.                                       *)
(***************************************************************************)
LEMMA TheirsNothing ==
  /\ Theirs(Absent) = Theirs(Broken)
  /\ Theirs(EmptyDoc) = Theirs(Broken)
<1>1. Theirs(Absent) = Theirs(Broken)
  BY DEF Theirs, IsDoc
<1>2. {r \in Place : EmptyDoc.hook[r] \in Other} = {}
  BY SettingsAssumption DEF EmptyDoc
<1>3. EmptyDoc.rest = Blank
  BY DEF EmptyDoc
<1>4. IsDoc(EmptyDoc)
  BY EmptyIsDoc, DocIsDoc
<1>5. Theirs(EmptyDoc) = [hooks |-> {}, rest |-> Blank]
  BY <1>2, <1>3, <1>4 DEF Theirs
<1>6. Theirs(Broken) = [hooks |-> {}, rest |-> Blank]
  BY DEF Theirs, IsDoc
<1> QED  BY <1>1, <1>5, <1>6

(* Documents with the same hooks of others under the same matchers, and    *)
(* the same rest, have the same of others.                                 *)
LEMMA TheirsSame ==
  ASSUME NEW doc \in Doc, NEW new \in Doc, new.rest = doc.rest,
         \A q \in Place : new.hook[q] \in Other <=> doc.hook[q] \in Other,
         \A q \in Place : doc.hook[q] \in Other =>
           /\ new.hook[q] = doc.hook[q]
           /\ new.matcher[q[1]] = doc.matcher[q[1]]
  PROVE  Theirs(new) = Theirs(doc)
<1> DEFINE At(f) == {r \in Place : f.hook[r] \in Other}
           Hooks(f) == {<<q, f.matcher[q[1]], f.hook[q]>> : q \in At(f)}
<1>1. At(new) = At(doc)
  OBVIOUS
<1>2. Hooks(new) = Hooks(doc)
  BY <1>1
<1>3. Theirs(new) = [hooks |-> Hooks(new), rest |-> new.rest]
  BY DocIsDoc DEF Theirs
<1>4. Theirs(doc) = [hooks |-> Hooks(doc), rest |-> doc.rest]
  BY DocIsDoc DEF Theirs
<1> HIDE DEF Hooks
<1> QED  BY <1>2, <1>3, <1>4

(* No command changes what others have in the document that it read        *)
(* (installHook, optimizeSetup, uninstall).                                *)
LEMMA TheirsChanged ==
  ASSUME NEW doc \in Doc, NEW c \in {"install", "optimize", "uninstall"},
         client \in Clients, NEW new \in Changed(c, doc)
  PROVE  Theirs(new) = Theirs(doc)
<1>a. new \in Doc
  BY ChangedIsDoc
<1>b. Ours \cap Other = {} /\ None \notin Other
  BY SettingsAssumption
<1>1. CASE c = "install"
  <2>1. PICK s \in Slot : IsEnd(doc, s) /\ new = Appended(doc, s, "plain")
    BY <1>1 DEF Changed
  <2>2. \A q \in Place : q[1] = s => doc.hook[q] = None
    BY <2>1 DEF IsEnd, Slot
  <2>3. new.rest = doc.rest
    BY <2>1 DEF Appended, Doc
  <2>4. <<s, 1>> \in Place
    BY SettingsAssumption DEF Place
  <2>5. \A q \in Place : new.hook[q] = IF q = <<s, 1>> THEN "plain"
                                       ELSE doc.hook[q]
    BY <2>1, <2>4 DEF Appended, Doc
  <2>6. \A t \in Slot : t # s => new.matcher[t] = doc.matcher[t]
    BY <2>1 DEF Appended, Doc
  <2>7. "plain" \notin Other /\ doc.hook[<<s, 1>>] = None
    BY <1>b, <2>2, <2>4 DEF Ours
  <2>8. \A q \in Place : doc.hook[q] \in Other => q[1] \in Slot \ {s}
    BY <1>b, <2>2 DEF Place
  <2> QED  BY <1>a, <1>b, <2>3, <2>5, <2>6, <2>7, <2>8, TheirsSame
<1>2. CASE c = "optimize"
  <2>1. /\ new.rest = doc.rest /\ new.matcher = doc.matcher
        /\ \A q \in Place : new.hook[q] =
             IF q \in Registered(doc) THEN "optimal" ELSE doc.hook[q]
    BY <1>2 DEF Changed, Optimized, Doc
  <2>2. \A q \in Registered(doc) : doc.hook[q] \in Ours
    BY DEF Registered
  <2>3. "optimal" \in Ours
    BY DEF Ours
  <2> QED  BY <1>a, <1>b, <2>1, <2>2, <2>3, TheirsSame
<1>3. CASE c = "uninstall"
  <2>1. /\ new.rest = doc.rest /\ new.matcher = doc.matcher
        /\ \A q \in Place : new.hook[q] =
             IF doc.hook[q] \in Ours THEN None ELSE doc.hook[q]
    <3>1. new = Uninstalled(doc)
      BY <1>3 DEF Changed
    <3> DEFINE hook == [q \in Place |-> IF doc.hook[q] \in Ours THEN None
                                       ELSE doc.hook[q]]
    <3>2. \A b : LET n == [doc EXCEPT !.list = b, !.hook = hook]
                 IN  /\ n.rest = doc.rest /\ n.matcher = doc.matcher
                     /\ n.hook = hook
      BY DEF Doc
    <3>3. /\ new.rest = doc.rest /\ new.matcher = doc.matcher
          /\ new.hook = hook
      BY <3>1, <3>2 DEF Uninstalled
    <3> QED  BY <3>3
  <2> QED  BY <1>a, <1>b, <2>1, TheirsSame
<1> QED  BY <1>1, <1>2, <1>3

(* What a command has read, and not been overtaken in, is what others have *)
(* there; and an empty file is only filled again with an empty document.   *)
KeptOf(p) ==
  /\ /\ pc[p] \in {"check", "copy", "write", "replace"}
     /\ job[p].doc # Absent /\ p \notin stale
     => Theirs(job[p].doc) = theirs
  /\ pc[p] = "create" /\ p \notin stale => theirs = Theirs(Broken)
  /\ pc[p] = "fill" /\ holds[p] => settings \in {Broken, EmptyDoc}

KeptInv == ~lost => /\ Theirs(settings) = theirs
                    /\ \A p \in Proc : KeptOf(p)

LEMMA KeptInit == Init => KeptInv
  BY DEF Init, KeptInv, KeptOf

(* A step of p that leaves the settings and the history as they are.       *)
LEMMA KeptFrame ==
  ASSUME KeptInv, NEW p \in Proc, Alone(p),
         UNCHANGED <<settings, theirs, lost>>,
         \A q \in Proc \ {p} : q \notin stale' => q \notin stale,
         \A q \in Proc \ {p} : holds'[q] => holds[q],
         ~lost => KeptOf(p)'
  PROVE  KeptInv'
  BY DEF KeptInv, KeptOf, Alone

LEMMA KeptStep == BaseInv /\ KeptInv /\ [Next]_vars => KeptInv'
<1> SUFFICES ASSUME BaseInv, KeptInv, [Next]_vars PROVE KeptInv'
  OBVIOUS
<1>a. TypeOK /\ StepInv
  BY DEF BaseInv
<1>1. ASSUME NEW p \in Proc, NEW c \in Command, Start(p, c) PROVE KeptInv'
  <2>1. Alone(p) /\ pc'[p] = "start"
    BY <1>a, <1>1 DEF TypeOK, Start, Alone
  <2> QED  BY <1>1, <2>1, KeptFrame DEF Start, files, KeptOf
<1>2. ASSUME NEW p \in Proc, ProbeSettings(p) PROVE KeptInv'
  <2>1. /\ Alone(p) /\ job' = job /\ client' = client
        /\ pc'[p] = IF settings = Absent THEN "create" ELSE AfterProbe
    BY <1>a, <1>2 DEF TypeOK, ProbeSettings, Alone
  <2>2. AfterProbe = "copy" => job[p].doc = Absent
    BY <1>a, <1>2 DEF AfterProbe, StepInv, DocOf, ProbeSettings
  <2>3. AfterProbe \in {"copy", "read"}
    BY DEF AfterProbe
  <2>4. ~lost /\ settings = Absent => theirs = Theirs(Broken)
    BY TheirsNothing DEF KeptInv
  <2> QED
    BY <1>2, <2>1, <2>2, <2>3, <2>4, KeptFrame DEF ProbeSettings, files, KeptOf
<1>3. ASSUME NEW p \in Proc, CreateSettings(p) PROVE KeptInv'
  <2>1. /\ Alone(p) /\ pc'[p] = "fill" /\ settings' = Broken
        /\ theirs' = theirs /\ stale' = stale
        /\ \A q \in Proc \ {p} : holds'[q] = holds[q]
        /\ ~lost' => ~lost /\ p \notin stale
    BY <1>a, <1>3 DEF TypeOK, CreateSettings, Alone
  <2>2. ~lost' => theirs = Theirs(Broken)
    BY <1>3, <2>1 DEF KeptInv, KeptOf, CreateSettings
  <2> QED  BY <2>1, <2>2 DEF KeptInv, KeptOf, Alone
<1>4. ASSUME NEW p \in Proc, FillSettings(p) PROVE KeptInv'
  <2>1. /\ Alone(p) /\ job' = job /\ pc'[p] = AfterProbe
        /\ theirs' = theirs /\ stale' = stale /\ lost' = lost
        /\ \A q \in Proc \ {p} : holds'[q] = holds[q]
        /\ settings' = IF holds[p] THEN EmptyDoc ELSE settings
        /\ pc[p] = "fill"
    BY <1>a, <1>4 DEF TypeOK, FillSettings, Alone
  <2>2. ~lost => Theirs(settings') = theirs
    BY <2>1, TheirsNothing DEF KeptInv, KeptOf
  <2>3. AfterProbe = "copy" => job[p].doc = Absent
    BY <1>a, <2>1 DEF AfterProbe, StepInv, DocOf
  <2>4. AfterProbe \in {"copy", "read"}
    BY DEF AfterProbe
  <2>5. ~lost => KeptOf(p)'
    BY <2>1, <2>3, <2>4 DEF KeptOf
  <2>6. ASSUME ~lost, NEW q \in Proc \ {p} PROVE KeptOf(q)'
    BY <2>1, <2>6 DEF KeptInv, KeptOf, Alone
  <2> QED  BY <2>1, <2>2, <2>5, <2>6 DEF KeptInv
<1>5. ASSUME NEW p \in Proc, ReadSettings(p) PROVE KeptInv'
  <2> DEFINE c == job[p].command
  <2>1. /\ job[p] \in Job /\ c \in {"install", "optimize", "uninstall"}
    BY <1>a, <1>5 DEF TypeOK, StepInv, StepOf, ReadSettings
  <2>2. CASE /\ IsDoc(settings) /\ AfterRead(c, settings) \in Steps
             /\ job' = [job EXCEPT ![p].doc = settings]
             /\ pc' = [pc EXCEPT ![p] = AfterRead(c, settings)]
    <3>1. Alone(p) /\ job'[p].doc = settings /\ pc'[p] = AfterRead(c, settings)
      BY <1>a, <2>1, <2>2 DEF TypeOK, Job, Alone
    <3>2. AfterRead(c, settings) \notin {"create", "fill"}
      BY <2>1 DEF AfterRead
    <3>3. ~lost => KeptOf(p)'
      BY <1>5, <3>1, <3>2 DEF KeptInv, KeptOf, ReadSettings
    <3> QED  BY <1>5, <3>1, <3>3, KeptFrame DEF ReadSettings, files
  <2>3. ASSUME NEW word \in Word, Say(p, word) PROVE KeptInv'
    BY <1>a, <1>5, <2>3, SayEnds, KeptFrame DEF ReadSettings, files, KeptOf
  <2>4. (IF c = "uninstall" /\ settings = Absent THEN "" ELSE "failed")
          \in Word
    BY DEF Word
  <2> QED  BY <1>5, <2>2, <2>3, <2>4 DEF ReadSettings
<1>6. ASSUME NEW p \in Proc, CheckBinary(p) PROVE KeptInv'
  <2>1. ASSUME pc' = [pc EXCEPT ![p] = "copy"], UNCHANGED job
        PROVE  KeptInv'
    <3>1. Alone(p) /\ pc'[p] = "copy" /\ job'[p] = job[p]
      BY <1>a, <2>1 DEF TypeOK, Alone
    <3>2. pc[p] = "start" => job[p].doc = Absent
      BY <1>a DEF StepInv, DocOf
    <3>3. ~lost => KeptOf(p)'
      BY <1>6, <3>1, <3>2 DEF KeptInv, KeptOf, CheckBinary, history
    <3> QED  BY <1>6, <3>1, <3>3, KeptFrame DEF CheckBinary, files, history
  <2>2. ASSUME NEW word \in Word, Say(p, word) PROVE KeptInv'
    BY <1>a, <1>6, <2>2, SayEnds, KeptFrame
    DEF CheckBinary, files, history, KeptOf
  <2>3. (IF job[p].command = "install" THEN "installed" ELSE "") \in Word
    BY DEF Word
  <2> QED  BY <1>6, <2>1, <2>2, <2>3 DEF CheckBinary
<1>7. ASSUME NEW p \in Proc, CopyOpen(p) PROVE KeptInv'
  <2>1. /\ Alone(p) /\ pc'[p] = "write" /\ job'[p] = job[p]
        /\ \A q \in Proc \ {p} : holds'[q] = holds[q]
    BY <1>a, <1>7 DEF TypeOK, CopyOpen, Alone
  <2>2. ~lost => KeptOf(p)'
    BY <1>7, <2>1 DEF KeptInv, KeptOf, CopyOpen
  <2> QED  BY <1>7, <2>1, <2>2, KeptFrame DEF CopyOpen
<1>8. ASSUME NEW p \in Proc, CopyWrite(p) PROVE KeptInv'
  <2>1. \A q \in Proc \ {p} : holds'[q] = holds[q]
    BY <1>a, <1>8 DEF TypeOK, CopyWrite
  <2>2. ASSUME NEW word \in Word, Say(p, word) PROVE KeptInv'
    BY <1>a, <1>8, <2>1, <2>2, SayEnds, KeptFrame DEF CopyWrite, KeptOf
  <2>3. ASSUME UNCHANGED job,
               pc' = [pc EXCEPT ![p] = IF client = "opencode" THEN "plugin"
                                       ELSE "replace"]
        PROVE  KeptInv'
    <3>1. Alone(p) /\ pc'[p] \in {"plugin", "replace"} /\ job'[p] = job[p]
      BY <1>a, <2>3 DEF TypeOK, Alone
    <3>2. ~lost => KeptOf(p)'
      BY <1>8, <3>1 DEF KeptInv, KeptOf, CopyWrite
    <3> QED  BY <1>8, <2>1, <3>1, <3>2, KeptFrame DEF CopyWrite
  <2> QED  BY <1>8, <2>2, <2>3 DEF CopyWrite, Word
<1>9. ASSUME NEW p \in Proc, Replace(p) PROVE KeptInv'
  <2>1. /\ job[p].command \in {"install", "optimize", "uninstall"}
        /\ job[p].doc \in Doc /\ client \in Clients
    BY <1>a, <1>9 DEF TypeOK, StepInv, Replace, StepOf, DocOf, Job, Command
  <2>2. PICK word \in Word : Say(p, word)
    BY <1>9, <2>1 DEF Replace, Word
  <2>3. Alone(p) /\ pc'[p] = "done"
    BY <1>a, <2>2, SayEnds
  <2>4. Theirs(settings') = Theirs(job[p].doc)
    BY <1>9, <2>1, TheirsChanged DEF Replace
  <2>5. /\ ~lost' => ~lost /\ p \notin stale
        /\ theirs' = theirs /\ stale' = stale /\ pc[p] = "replace"
    BY <1>9 DEF Replace
  <2>6. ~lost' => Theirs(settings') = theirs'
    BY <2>1, <2>4, <2>5, SettingsAssumption DEF KeptInv, KeptOf
  <2>7. \A q \in Proc : pc[q] = "fill" => ~holds'[q]
    BY <1>9 DEF Replace
  <2>8. ASSUME ~lost', NEW q \in Proc PROVE KeptOf(q)'
    BY <2>3, <2>5, <2>7, <2>8 DEF KeptInv, KeptOf, Alone
  <2> QED  BY <2>6, <2>8 DEF KeptInv
<1>10. ASSUME NEW p \in Proc, CheckPlugin(p) PROVE KeptInv'
  <2>1. Alone(p) /\ pc'[p] \in {"plugin", "done"}
    BY <1>a, <1>10 DEF TypeOK, CheckPlugin, Say, Alone
  <2> QED  BY <1>10, <2>1, KeptFrame DEF CheckPlugin, files, history, KeptOf
<1>11. ASSUME NEW p \in Proc, SetPlugin(p) PROVE KeptInv'
  <2>1. Alone(p) /\ pc'[p] = "tool"
    BY <1>a, <1>11 DEF TypeOK, SetPlugin, Alone
  <2> QED  BY <1>11, <2>1, KeptFrame DEF SetPlugin, KeptOf
<1>12. ASSUME NEW p \in Proc, SetTool(p) PROVE KeptInv'
  <2>1. Alone(p) /\ pc'[p] = "done"
    BY <1>a, <1>12 DEF TypeOK, SetTool, Say, Alone
  <2> QED  BY <1>12, <2>1, KeptFrame DEF SetTool, KeptOf
<1>13. ASSUME NEW p \in Proc, Stop(p) PROVE KeptInv'
  <2>1. /\ Alone(p) /\ pc'[p] = "done"
        /\ \A q \in Proc \ {p} : holds'[q] = holds[q]
    BY <1>a, <1>13 DEF TypeOK, Stop, Say, Alone
  <2> QED  BY <1>13, <2>1, KeptFrame DEF Stop, files, KeptOf
<1>14. CASE ClientWrite
  <2>1. /\ pc' = pc /\ job' = job /\ theirs' = Theirs(settings)'
        /\ stale' = {p \in Proc : pc[p] \notin {"idle", "done"}}
        /\ \A q \in Proc : pc[q] = "fill" => ~holds'[q]
    BY <1>14 DEF ClientWrite
  <2> QED  BY <2>1 DEF KeptInv, KeptOf
<1>15. CASE DeleteBinary
  <2>1. \A q \in Proc : holds'[q] => holds[q]
    BY <1>15 DEF DeleteBinary
  <2> QED  BY <1>15, <2>1 DEF KeptInv, KeptOf, DeleteBinary
<1>16. CASE UNCHANGED vars
  BY <1>16 DEF KeptInv, KeptOf, vars, files, history
<1> QED
  BY <1>1, <1>2, <1>3, <1>4, <1>5, <1>6, <1>7, <1>8, <1>9, <1>10, <1>11,
     <1>12, <1>13, <1>14, <1>15, <1>16 DEF Next

(* Nothing of others is changed in the settings, however many commands run *)
(* at once and are killed, until one writes that was overtaken by others   *)
(* (installHook, optimizeSetup, uninstall, writeFileAtomic).               *)
THEOREM SettingsKeepOthers == Spec => []OthersKept
<1>1. KeptInv => OthersKept
  BY DEF KeptInv, OthersKept
<1> QED  BY <1>1, BaseInvariant, KeptInit, KeptStep, PTL DEF Spec

-----------------------------------------------------------------------------
(***************************************************************************)
(* The program that the hook runs.  It is missing without anybody's fault  *)
(* only before the first copy: nothing that runs it was registered then,   *)
(* and no command is on its way to that.                                   *)
(***************************************************************************)
Unused ==
  /\ ~plugin
  /\ IsDoc(settings) => ~Calls(settings, {"plain", "optimal"})
  /\ \A p \in Proc : /\ pc[p] \notin {"write", "plugin"}
                     /\ pc[p] = "replace" => job[p].command # "install"

ProgramInv ==
  /\ binary = "missing" /\ ~bare => Unused
  /\ binary = "partial" /\ ~bare =>
       \E p \in Proc : pc[p] = "write" /\ holds[p]

LEMMA ProgramInit == Init => ProgramInv
<1> SUFFICES ASSUME Init PROVE ProgramInv
  OBVIOUS
<1>1. binary # "partial"
  BY DEF Init
<1>2. binary = "missing" => Unused
  BY DEF Init, Unused
<1> QED  BY <1>1, <1>2 DEF ProgramInv

(* A step of p that changes nothing of this but where p is.                *)
LEMMA ProgramFrame ==
  ASSUME ProgramInv, NEW p \in Proc, Alone(p), pc[p] # "write",
         UNCHANGED <<binary, bare>>,
         \A q \in Proc \ {p} : holds'[q] = holds[q],
         binary = "missing" /\ ~bare /\ Unused =>
           /\ ~plugin'
           /\ IsDoc(settings)' => ~Calls(settings, {"plain", "optimal"})'
           /\ pc'[p] \notin {"write", "plugin"}
           /\ pc'[p] = "replace" => job'[p].command # "install"
  PROVE  ProgramInv'
<1>1. ASSUME binary = "missing", ~bare PROVE Unused'
  BY <1>1 DEF ProgramInv, Unused, Alone
<1>2. ASSUME binary = "partial", NEW q \in Proc, pc[q] = "write", holds[q]
      PROVE  pc'[q] = "write" /\ holds'[q]
  BY <1>2 DEF Alone
<1> QED  BY <1>1, <1>2 DEF ProgramInv

LEMMA ProgramStep == BaseInv /\ ProgramInv /\ [Next]_vars => ProgramInv'
<1> SUFFICES ASSUME BaseInv, ProgramInv, [Next]_vars PROVE ProgramInv'
  OBVIOUS
<1>a. TypeOK /\ StepInv
  BY DEF BaseInv
<1>1. ASSUME NEW p \in Proc, NEW c \in Command, Start(p, c) PROVE ProgramInv'
  <2>1. Alone(p) /\ pc'[p] = "start"
    BY <1>a, <1>1 DEF TypeOK, Start, Alone
  <2> QED
    BY <1>1, <2>1, ProgramFrame DEF Start, files, Unused, IsDoc, Calls
<1>2. ASSUME NEW p \in Proc, ProbeSettings(p) PROVE ProgramInv'
  <2>1. Alone(p) /\ pc'[p] \in {"create", "copy", "read"}
    BY <1>a, <1>2 DEF TypeOK, ProbeSettings, AfterProbe, Alone
  <2> QED
    BY <1>2, <2>1, ProgramFrame DEF ProbeSettings, files, Unused, IsDoc, Calls
<1>3. ASSUME NEW p \in Proc, CreateSettings(p) PROVE ProgramInv'
  <2>1. /\ Alone(p) /\ pc'[p] = "fill"
        /\ \A q \in Proc \ {p} : holds'[q] = holds[q]
    BY <1>a, <1>3 DEF TypeOK, CreateSettings, Alone
  <2> QED
    BY <1>3, <2>1, ProgramFrame DEF CreateSettings, Unused, IsDoc
<1>4. ASSUME NEW p \in Proc, FillSettings(p) PROVE ProgramInv'
  <2>1. /\ Alone(p) /\ pc'[p] \in {"copy", "read"}
        /\ \A q \in Proc \ {p} : holds'[q] = holds[q]
    BY <1>a, <1>4 DEF TypeOK, FillSettings, AfterProbe, Alone
  <2>2. ~Calls(EmptyDoc, {"plain", "optimal"})
    BY SettingsAssumption DEF EmptyDoc, Calls, Ours
  <2> QED
    BY <1>4, <2>1, <2>2, ProgramFrame DEF FillSettings, Unused, IsDoc, Calls
<1>5. ASSUME NEW p \in Proc, ReadSettings(p) PROVE ProgramInv'
  <2>1. /\ Alone(p) /\ job'[p].command = job[p].command
        /\ pc'[p] \in {"check", "copy", "replace", "done"}
        /\ pc'[p] = "replace" => job[p].command # "install"
    <3> DEFINE c == job[p].command
    <3>1. job[p] \in Job /\ c \in {"install", "optimize", "uninstall"}
      BY <1>a, <1>5 DEF TypeOK, StepInv, StepOf, ReadSettings
    <3>2. /\ AfterRead(c, settings) \in Steps =>
               AfterRead(c, settings) \in {"check", "copy", "replace"}
          /\ AfterRead(c, settings) = "replace" => c # "install"
      BY <3>1 DEF AfterRead, Steps
    <3> HIDE DEF c
    <3>3. CASE /\ AfterRead(c, settings) \in Steps
               /\ job' = [job EXCEPT ![p].doc = settings]
               /\ pc' = [pc EXCEPT ![p] = AfterRead(c, settings)]
      BY <1>a, <3>1, <3>2, <3>3 DEF TypeOK, Job, Alone, c
    <3>4. ASSUME NEW word, Say(p, word)
          PROVE  /\ Alone(p) /\ pc'[p] = "done"
                 /\ job'[p].command = job[p].command
      BY <1>a, <3>1, <3>4 DEF TypeOK, Job, Alone, Say
    <3> QED  BY <1>5, <3>3, <3>4 DEF ReadSettings, c
  <2> QED
    BY <1>5, <2>1, ProgramFrame DEF ReadSettings, files, Unused, IsDoc, Calls
<1>6. ASSUME NEW p \in Proc, CheckBinary(p) PROVE ProgramInv'
  <2>1. Alone(p) /\ pc'[p] \in {"copy", "done"}
    BY <1>a, <1>6 DEF TypeOK, CheckBinary, Say, Alone
  <2> QED
    BY <1>6, <2>1, ProgramFrame
    DEF CheckBinary, files, history, Unused, IsDoc, Calls
<1>7. ASSUME NEW p \in Proc, CopyOpen(p) PROVE ProgramInv'
  BY <1>a, <1>7 DEF TypeOK, CopyOpen, ProgramInv
<1>8. ASSUME NEW p \in Proc, CopyWrite(p) PROVE ProgramInv'
  <2>1. Alone(p) /\ \A q \in Proc \ {p} : holds'[q] = holds[q]
    BY <1>a, <1>8 DEF TypeOK, CopyWrite, Say, Alone
  <2>2. CASE holds[p]
    BY <1>8, <2>2 DEF CopyWrite, ProgramInv
  <2>3. CASE ~holds[p]
    BY <1>a, <1>8, <2>1, <2>3
    DEF CopyWrite, ProgramInv, Unused, Alone, TypeOK
  <2> QED  BY <2>2, <2>3
<1>9. ASSUME NEW p \in Proc, Replace(p) PROVE ProgramInv'
  <2>1. /\ job[p].command \in {"install", "optimize", "uninstall"}
        /\ job[p].doc \in Doc
    BY <1>a, <1>9 DEF TypeOK, StepInv, Replace, StepOf, DocOf, Job, Command
  <2>2. /\ Alone(p) /\ pc'[p] = "done" /\ pc[p] = "replace"
        /\ binary' = binary /\ plugin' = plugin
        /\ \A q \in Proc : pc[q] = "write" => holds'[q] = holds[q]
    BY <1>a, <1>9 DEF TypeOK, Replace, Say, Alone
  <2>3. ASSUME binary = "missing", ~bare' PROVE Unused'
    <3>1. Unused /\ job[p].command = "uninstall"
      BY <1>9, <2>1, <2>3 DEF Replace, ProgramInv, Unused
    <3>2. settings' = Uninstalled(job[p].doc)
      BY <1>9, <3>1 DEF Replace, Changed
    <3>3. ~Calls(Uninstalled(job[p].doc), {"plain", "optimal"})
      BY <2>1, SettingsAssumption DEF Uninstalled, Calls, Ours, Doc
    <3> QED  BY <2>2, <3>1, <3>2, <3>3 DEF Unused, Alone, Calls
  <2>4. ASSUME NEW q \in Proc, pc[q] = "write", holds[q]
        PROVE  pc'[q] = "write" /\ holds'[q]
    BY <2>2, <2>4 DEF Alone
  <2>5. ~bare' => ~bare
    BY <1>9 DEF Replace
  <2> QED  BY <2>2, <2>3, <2>4, <2>5 DEF ProgramInv
<1>10. ASSUME NEW p \in Proc, CheckPlugin(p) PROVE ProgramInv'
  <2>1. Alone(p) /\ pc'[p] \in {"plugin", "done"}
    BY <1>a, <1>10 DEF TypeOK, CheckPlugin, Say, Alone
  <2>2. binary = "missing" => pc'[p] = "done"
    BY <1>a, <1>10 DEF TypeOK, CheckPlugin, Say
  <2> QED
    BY <1>10, <2>1, <2>2, ProgramFrame
    DEF CheckPlugin, files, history, Unused, IsDoc, Calls
<1>11. ASSUME NEW p \in Proc, SetPlugin(p) PROVE ProgramInv'
  <2>1. Alone(p) /\ pc'[p] = "tool" /\ pc[p] # "write"
    BY <1>a, <1>11 DEF TypeOK, SetPlugin, Alone
  <2>2. Unused => job[p].command = "uninstall"
    BY <1>11 DEF SetPlugin, Unused
  <2> QED
    BY <1>11, <2>1, <2>2, ProgramFrame DEF SetPlugin, Unused, IsDoc, Calls
<1>12. ASSUME NEW p \in Proc, SetTool(p) PROVE ProgramInv'
  <2>1. Alone(p) /\ pc'[p] = "done"
    BY <1>a, <1>12 DEF TypeOK, SetTool, Say, Alone
  <2> QED
    BY <1>12, <2>1, ProgramFrame DEF SetTool, Unused, IsDoc, Calls
<1>13. ASSUME NEW p \in Proc, Stop(p) PROVE ProgramInv'
  <2>1. /\ Alone(p) /\ pc'[p] = "done" /\ UNCHANGED files
        /\ \A q \in Proc \ {p} : holds'[q] = holds[q]
        /\ ~bare' => ~bare /\ ~(pc[p] = "write" /\ holds[p])
    BY <1>a, <1>13 DEF TypeOK, Stop, Say, Alone
  <2>2. binary = "missing" /\ ~bare => Unused'
    BY <2>1 DEF ProgramInv, Unused, Alone, files, IsDoc, Calls
  <2>3. ASSUME ~bare', NEW q \in Proc, pc[q] = "write", holds[q]
        PROVE  pc'[q] = "write" /\ holds'[q]
    BY <2>1, <2>3 DEF Alone
  <2> QED  BY <2>1, <2>2, <2>3 DEF ProgramInv, files
<1>14. CASE ClientWrite
  <2>1. /\ UNCHANGED <<binary, plugin, pc, job, bare>>
        /\ \A q \in Proc : pc[q] = "write" => holds'[q] = holds[q]
    BY <1>a, <1>14 DEF ClientWrite, TypeOK
  <2>2. ASSUME ~Calls(settings, {"plain", "optimal"}) \/ ~IsDoc(settings)
        PROVE  ~Calls(settings', {"plain", "optimal"})
    <3> DEFINE doc == IF settings = Absent THEN EmptyDoc ELSE settings
    <3>1. doc \in Doc
      BY <1>a, <1>14, EmptyIsDoc DEF TypeOK, ClientWrite
    <3>2. ~Calls(EmptyDoc, {"plain", "optimal"})
      BY SettingsAssumption DEF EmptyDoc, Calls, Ours
    <3>3. ~Calls(doc, {"plain", "optimal"})
      BY <1>14, <2>2, <3>2 DEF ClientWrite, IsDoc
    <3>4. \/ \E o \in Other, s \in Slot : settings' = Appended(doc, s, o)
          \/ \E r \in Rest : settings' = [doc EXCEPT !.rest = r]
      BY <1>14 DEF ClientWrite
    <3> HIDE DEF doc
    <3>5. ASSUME NEW o \in Other, NEW s \in Slot
          PROVE  ~Calls(Appended(doc, s, o), {"plain", "optimal"})
      BY <3>1, <3>3, SettingsAssumption DEF Appended, Calls, Doc, Ours
    <3>6. ASSUME NEW r \in Rest
          PROVE  ~Calls([doc EXCEPT !.rest = r], {"plain", "optimal"})
      BY <3>1, <3>3 DEF Calls, Doc
    <3> QED  BY <3>4, <3>5, <3>6
  <2> QED  BY <2>1, <2>2 DEF ProgramInv, Unused, Calls
<1>15. CASE DeleteBinary
  BY <1>15 DEF DeleteBinary, ProgramInv
<1>16. CASE UNCHANGED vars
  BY <1>16 DEF ProgramInv, Unused, vars, files, history, IsDoc, Calls
<1> QED
  BY <1>1, <1>2, <1>3, <1>4, <1>5, <1>6, <1>7, <1>8, <1>9, <1>10, <1>11,
     <1>12, <1>13, <1>14, <1>15, <1>16 DEF Next

(* A registered hook or plugin has its program, and a whole one but during *)
(* a copy, unless a copy was cut off, the user deleted the program or      *)
(* optimize was run without it (installHook, copyFile).                    *)
THEOREM SettingsHookHasBinary == Spec => []HookHasBinary
<1>1. BaseInv /\ ProgramInv => HookHasBinary
  BY DEF BaseInv, TypeOK, ProgramInv, Unused, HookHasBinary
<1> QED  BY <1>1, BaseInvariant, ProgramInit, ProgramStep, PTL DEF Spec

-----------------------------------------------------------------------------
(***************************************************************************)
(* The documents that are about, in the file and in the commands: each has *)
(* at most one of our commands for the tool, and a list if it has a hook.  *)
(***************************************************************************)
One(doc) == \A q \in Registered(doc), r \in Registered(doc) : q = r

Listed(doc) == doc.list = "list" \/ \A q \in Place : doc.hook[q] = None

Sound(f) == f \in Doc => One(f) /\ Listed(f)

DocsInv == Sound(settings) /\ \A p \in Proc : Sound(job[p].doc)

LEMMA RegisteredFinite ==
  ASSUME NEW doc
  PROVE  IsFiniteSet(Registered(doc))
<1>1. IsFiniteSet(1..MaxItems) /\ IsFiniteSet(1..MaxHooks)
  BY SettingsAssumption, FS_Interval
<1>2. IsFiniteSet(Place)
  BY <1>1, FS_Product DEF Place, Slot
<1>3. Registered(doc) \subseteq Place
  BY DEF Registered
<1> QED  BY <1>2, <1>3, FS_Subset

LEMMA OneIsCardinality ==
  ASSUME NEW doc
  PROVE  One(doc) <=> Cardinality(Registered(doc)) <= 1
<1> DEFINE R == Registered(doc)
<1>1. IsFiniteSet(R) /\ Cardinality(R) \in Nat
  BY RegisteredFinite, FS_CardinalityType
<1>2. (Cardinality(R) = 0) <=> R = {}
  BY <1>1, FS_EmptySet
<1>3. (Cardinality(R) = 1) <=> \E x : R = {x}
  BY <1>1, FS_Singleton
<1>4. One(doc) <=> R = {} \/ \E x : R = {x}
  BY DEF One
<1> HIDE DEF R
<1>5. (Cardinality(R) <= 1) <=> (Cardinality(R) = 0 \/ Cardinality(R) = 1)
  BY <1>1
<1> QED  BY <1>2, <1>3, <1>4, <1>5 DEF R

(* An item at the end takes no place that has a hook.                      *)
LEMMA AppendedHooks ==
  ASSUME NEW doc \in Doc, NEW s \in Slot, IsEnd(doc, s),
         NEW c \in Ours \cup Other
  PROVE  LET new == Appended(doc, s, c)
         IN  /\ <<s, 1>> \in Place /\ new.hook[<<s, 1>>] = c
             /\ new.matcher[s] = {Tool} /\ new.list = "list"
             /\ \A q \in Place \ {<<s, 1>>} : new.hook[q] = doc.hook[q]
             /\ \A t \in Slot \ {s} : new.matcher[t] = doc.matcher[t]
             /\ \A q \in Place : q[1] = s => doc.hook[q] = None
<1>1. <<s, 1>> \in Place
  BY SettingsAssumption DEF Place
<1>2. \A q \in Place : q[1] = s => doc.hook[q] = None
  BY DEF IsEnd, Slot
<1> QED  BY <1>1, <1>2 DEF Appended, Doc

(* It is the one that is registered, if it is ours.                        *)
LEMMA AppendedRegistered ==
  ASSUME NEW doc \in Doc, NEW s \in Slot, IsEnd(doc, s),
         NEW c \in Ours \cup Other
  PROVE  Registered(Appended(doc, s, c)) =
           Registered(doc) \cup (IF c \in Ours THEN {<<s, 1>>} ELSE {})
<1> DEFINE new == Appended(doc, s, c)
<1>1. /\ <<s, 1>> \in Place /\ new.hook[<<s, 1>>] = c
      /\ new.matcher[s] = {Tool}
      /\ \A q \in Place \ {<<s, 1>>} : new.hook[q] = doc.hook[q]
      /\ \A t \in Slot \ {s} : new.matcher[t] = doc.matcher[t]
      /\ \A q \in Place : q[1] = s => doc.hook[q] = None
  BY AppendedHooks
<1> HIDE DEF new
<1>2. None \notin Ours
  BY SettingsAssumption
<1>3. \A q \in Place : q[1] \in Slot
  BY DEF Place
<1>4. ASSUME NEW q \in Place
      PROVE  (Tool \in new.matcher[q[1]] /\ new.hook[q] \in Ours) <=>
               \/ Tool \in doc.matcher[q[1]] /\ doc.hook[q] \in Ours
               \/ q = <<s, 1>> /\ c \in Ours
  <2>1. CASE q = <<s, 1>>
    BY <1>1, <1>2, <2>1
  <2>2. CASE q # <<s, 1>> /\ q[1] = s
    BY <1>1, <1>2, <2>2
  <2>3. CASE q[1] # s
    BY <1>1, <1>3, <2>3
  <2> QED  BY <2>1, <2>2, <2>3
<1>5. Registered(new) =
        Registered(doc) \cup (IF c \in Ours THEN {<<s, 1>>} ELSE {})
  BY <1>1, <1>4 DEF Registered
<1> QED  BY <1>5 DEF new

LEMMA OptimizedHooks ==
  ASSUME NEW doc \in Doc
  PROVE  /\ Registered(Optimized(doc)) = Registered(doc)
         /\ \A q \in Registered(doc) : Optimized(doc).hook[q] = "optimal"
         /\ Optimized(doc).list = doc.list
<1>1. /\ Optimized(doc).matcher = doc.matcher
      /\ Optimized(doc).list = doc.list
      /\ \A q \in Place : Optimized(doc).hook[q] =
           IF q \in Registered(doc) THEN "optimal" ELSE doc.hook[q]
  BY DEF Optimized, Doc
<1>2. "optimal" \in Ours
  BY DEF Ours
<1> QED  BY <1>1, <1>2 DEF Registered

LEMMA UninstalledHooks ==
  ASSUME NEW doc \in Doc
  PROVE  /\ \A q \in Place : Uninstalled(doc).hook[q] \in Other \cup {None}
         /\ Registered(Uninstalled(doc)) = {}
         /\ Listed(Uninstalled(doc))
<1> DEFINE new == Uninstalled(doc)
<1>1. /\ \A q \in Place : new.hook[q] =
           IF doc.hook[q] \in Ours THEN None ELSE doc.hook[q]
      /\ new.list = IF Calls(doc, Other) THEN "list" ELSE "other"
  <2> DEFINE hook == [q \in Place |-> IF doc.hook[q] \in Ours THEN None
                                     ELSE doc.hook[q]]
  <2>1. \A b : LET n == [doc EXCEPT !.list = b, !.hook = hook]
               IN  n.list = b /\ n.hook = hook
    BY DEF Doc
  <2> QED  BY <2>1 DEF Uninstalled
<1> HIDE DEF new
<1>2. \A q \in Place : doc.hook[q] \in Ours \cup Other \cup {None}
  BY DEF Doc
<1>3. \A q \in Place : new.hook[q] \in Other \cup {None}
  BY <1>1, <1>2
<1>4. Registered(new) = {}
  BY <1>3, SettingsAssumption DEF Registered
<1>5. Listed(new)
  BY <1>1, <1>2 DEF Listed, Calls
<1> QED  BY <1>3, <1>4, <1>5 DEF new

(* A command makes a sound document of a sound one.                        *)
LEMMA ChangedSound ==
  ASSUME NEW doc \in Doc, Sound(doc),
         NEW c \in {"install", "optimize", "uninstall"},
         c = "install" => ~HasHook(doc),
         NEW new \in Changed(c, doc)
  PROVE  Sound(new)
<1>1. CASE c = "install"
  <2>1. PICK s \in Slot : IsEnd(doc, s) /\ new = Appended(doc, s, "plain")
    BY <1>1 DEF Changed
  <2>2. "plain" \in Ours
    BY DEF Ours
  <2>3. Registered(new) = {<<s, 1>>}
    BY <1>1, <2>1, <2>2, AppendedRegistered DEF HasHook
  <2>4. new.list = "list"
    BY <2>1 DEF Appended, Doc
  <2> QED  BY <2>3, <2>4 DEF Sound, One, Listed
<1>2. CASE c = "optimize"
  <2>1. new = Optimized(doc)
    BY <1>2 DEF Changed
  <2>2. One(new)
    BY <2>1, OptimizedHooks DEF Sound, One
  <2>3. \A q \in Registered(doc) : q \in Place /\ doc.hook[q] \in Ours
    BY DEF Registered
  <2>4. \A q \in Place : q \notin Registered(doc) => new.hook[q] = doc.hook[q]
    BY <2>1 DEF Optimized, Doc
  <2>5. Listed(new)
    BY <2>1, <2>3, <2>4, OptimizedHooks, SettingsAssumption DEF Sound, Listed
  <2> QED  BY <2>2, <2>5 DEF Sound
<1>3. CASE c = "uninstall"
  <2>1. new = Uninstalled(doc)
    BY <1>3 DEF Changed
  <2> QED  BY <2>1, UninstalledHooks DEF Sound, One
<1> QED  BY <1>1, <1>2, <1>3

LEMMA EmptySound == Sound(EmptyDoc)
<1>1. \A q \in Place : EmptyDoc.hook[q] = None
  BY DEF EmptyDoc
<1>2. Registered(EmptyDoc) = {}
  BY <1>1, SettingsAssumption DEF Registered
<1> QED  BY <1>1, <1>2 DEF Sound, One, Listed

LEMMA DocsInit == Init => DocsInv
<1> SUFFICES ASSUME Init PROVE DocsInv
  OBVIOUS
<1>1. \A p \in Proc : job[p].doc = Absent
  <2>1. NoJob("install").doc = Absent
    BY DEF NoJob
  <2> QED  BY <2>1 DEF Init
<1>2. \A p \in Proc : Sound(job[p].doc)
  BY <1>1, SettingsAssumption DEF Sound
<1>3. ASSUME settings \in Doc PROVE One(settings) /\ Listed(settings)
  <2>1. Cardinality(Registered(settings)) <= 1
    BY <1>3, DocIsDoc DEF Init
  <2>2. Listed(settings)
    BY <1>3, SettingsAssumption DEF Init, Listed
  <2> QED  BY <2>1, <2>2, OneIsCardinality
<1> QED  BY <1>2, <1>3 DEF DocsInv, Sound

LEMMA DocsStep == BaseInv /\ DocsInv /\ [Next]_vars => DocsInv'
<1> SUFFICES ASSUME BaseInv, DocsInv, [Next]_vars PROVE DocsInv'
  OBVIOUS
<1>a. TypeOK /\ StepInv
  BY DEF BaseInv
<1>c. client' = client
  BY DEF Next, vars, Start, ProbeSettings, CreateSettings, FillSettings,
         ReadSettings, CheckBinary, CopyOpen, CopyWrite, Replace, CheckPlugin,
         SetPlugin, SetTool, Stop, ClientWrite, DeleteBinary
<1> DEFINE Same(p) == job'[p].doc = job[p].doc \/ job'[p].doc = Absent
<1>e. ASSUME settings' = settings, \A p \in Proc : Same(p) PROVE DocsInv'
  BY <1>c, <1>e, SettingsAssumption
  DEF DocsInv, Sound, One, Listed, Registered, Tool
<1>f. ASSUME NEW p \in Proc, NEW word, Say(p, word)
      PROVE  \A q \in Proc : Same(q)
  BY <1>a, <1>f DEF Say, TypeOK, Job
<1>1. ASSUME NEW p \in Proc, NEW c \in Command, Start(p, c) PROVE DocsInv'
  BY <1>a, <1>e, <1>1 DEF Start, files, TypeOK, NoJob
<1>2. ASSUME NEW p \in Proc, ProbeSettings(p) PROVE DocsInv'
  BY <1>e, <1>2 DEF ProbeSettings, files
<1>3. ASSUME NEW p \in Proc, CreateSettings(p) PROVE DocsInv'
  <2>1. settings' \notin Doc /\ job' = job
    BY <1>3, SettingsAssumption DEF CreateSettings
  <2> QED
    BY <1>c, <2>1 DEF DocsInv, Sound, One, Listed, Registered, Tool
<1>4. ASSUME NEW p \in Proc, FillSettings(p) PROVE DocsInv'
  <2>1. settings' \in {EmptyDoc, settings} /\ job' = job
    BY <1>4 DEF FillSettings
  <2> QED
    BY <1>c, <2>1, EmptySound DEF DocsInv, Sound, One, Listed, Registered, Tool
<1>5. ASSUME NEW p \in Proc, ReadSettings(p) PROVE DocsInv'
  <2>1. ASSUME job' = [job EXCEPT ![p].doc = settings] PROVE DocsInv'
    <3>1. \A q \in Proc : job'[q].doc \in {job[q].doc, settings}
      BY <1>a, <2>1 DEF TypeOK, Job
    <3>2. settings' = settings
      BY <1>5 DEF ReadSettings, files
    <3>3. Sound(settings)'
      BY <1>c, <3>2 DEF DocsInv, Sound, One, Listed, Registered, Tool
    <3>4. ASSUME NEW q \in Proc PROVE Sound(job[q].doc)'
      <4>1. CASE job'[q].doc = job[q].doc
        BY <1>c, <4>1 DEF DocsInv, Sound, One, Listed, Registered, Tool
      <4>2. CASE job'[q].doc = settings
        BY <1>c, <4>2 DEF DocsInv, Sound, One, Listed, Registered, Tool
      <4> QED  BY <3>1, <4>1, <4>2
    <3> QED  BY <3>3, <3>4 DEF DocsInv
  <2>2. ASSUME NEW word, Say(p, word) PROVE DocsInv'
    BY <1>e, <1>f, <1>5, <2>2 DEF ReadSettings, files
  <2> QED  BY <1>5, <2>1, <2>2 DEF ReadSettings
<1>6. ASSUME NEW p \in Proc, CheckBinary(p) PROVE DocsInv'
  BY <1>e, <1>f, <1>6 DEF CheckBinary, files
<1>7. ASSUME NEW p \in Proc, CopyOpen(p) PROVE DocsInv'
  BY <1>e, <1>7 DEF CopyOpen
<1>8. ASSUME NEW p \in Proc, CopyWrite(p) PROVE DocsInv'
  BY <1>e, <1>f, <1>8 DEF CopyWrite
<1>9. ASSUME NEW p \in Proc, Replace(p) PROVE DocsInv'
  <2> DEFINE c == job[p].command
  <2>1. /\ c \in {"install", "optimize", "uninstall"} /\ job[p].doc \in Doc
        /\ c = "install" => ~HasHook(job[p].doc)
    BY <1>a, <1>9 DEF TypeOK, StepInv, Replace, StepOf, DocOf, Job, Command
  <2>2. Sound(settings')
    BY <1>9, <2>1, ChangedSound DEF Replace, DocsInv
  <2>3. \A q \in Proc : Same(q)
    BY <1>f, <1>9 DEF Replace
  <2> QED
    BY <1>c, <2>2, <2>3, SettingsAssumption
    DEF DocsInv, Sound, One, Listed, Registered, Tool
<1>10. ASSUME NEW p \in Proc, CheckPlugin(p) PROVE DocsInv'
  BY <1>e, <1>f, <1>10 DEF CheckPlugin, files
<1>11. ASSUME NEW p \in Proc, SetPlugin(p) PROVE DocsInv'
  BY <1>e, <1>11 DEF SetPlugin
<1>12. ASSUME NEW p \in Proc, SetTool(p) PROVE DocsInv'
  BY <1>e, <1>f, <1>12 DEF SetTool
<1>13. ASSUME NEW p \in Proc, Stop(p) PROVE DocsInv'
  BY <1>e, <1>f, <1>13 DEF Stop, files
<1>14. CASE ClientWrite
  <2> DEFINE doc == IF settings = Absent THEN EmptyDoc ELSE settings
  <2>1. doc \in Doc /\ Sound(doc)
    BY <1>a, <1>14, EmptyIsDoc, EmptySound DEF TypeOK, ClientWrite, DocsInv
  <2>2. \/ \E o \in Other, s \in Slot :
             IsEnd(doc, s) /\ settings' = Appended(doc, s, o)
        \/ \E r \in Rest : settings' = [doc EXCEPT !.rest = r]
    BY <1>14 DEF ClientWrite
  <2> HIDE DEF doc
  <2>3. ASSUME NEW o \in Other, NEW s \in Slot, IsEnd(doc, s)
        PROVE  Sound(Appended(doc, s, o))
    <3>1. o \notin Ours
      BY SettingsAssumption
    <3>2. Registered(Appended(doc, s, o)) = Registered(doc)
      BY <2>1, <2>3, <3>1, AppendedRegistered
    <3>3. Appended(doc, s, o).list = "list"
      BY <2>1 DEF Appended, Doc
    <3> QED  BY <2>1, <3>2, <3>3 DEF Sound, One, Listed
  <2>4. ASSUME NEW r \in Rest PROVE Sound([doc EXCEPT !.rest = r])
    BY <2>1 DEF Sound, One, Listed, Registered, Doc
  <2>5. Sound(settings')
    BY <2>2, <2>3, <2>4
  <2>6. job' = job
    BY <1>14 DEF ClientWrite
  <2> QED
    BY <1>c, <2>5, <2>6 DEF DocsInv, Sound, One, Listed, Registered, Tool
<1>15. CASE DeleteBinary
  BY <1>e, <1>15 DEF DeleteBinary
<1>16. CASE UNCHANGED vars
  BY <1>e, <1>16 DEF vars, files
<1> QED
  BY <1>1, <1>2, <1>3, <1>4, <1>5, <1>6, <1>7, <1>8, <1>9, <1>10, <1>11,
     <1>12, <1>13, <1>14, <1>15, <1>16 DEF Next

LEMMA DocsInvariant == Spec => []DocsInv
<1> QED  BY BaseInvariant, DocsInit, DocsStep, PTL DEF Spec

(* No sequence of commands, at once or one after the other, registers the  *)
(* hook twice for a tool (installHook, hasReadOnceHookForTool).            *)
THEOREM SettingsRegisterOnce == Spec => []RegisteredOnce
<1>1. BaseInv /\ DocsInv => RegisteredOnce
  BY FileIsDoc, OneIsCardinality
  DEF BaseInv, TypeOK, DocsInv, Sound, RegisteredOnce
<1> QED  BY <1>1, BaseInvariant, DocsInvariant, PTL

-----------------------------------------------------------------------------
(***************************************************************************)
(* What a command knows while nobody else changes anything.                *)
(***************************************************************************)
Installed ==
  /\ binary # "missing"
  /\ IF client = "opencode" THEN plugin /\ tool
     ELSE IsDoc(settings) /\ HasHook(settings)

AllOptimized ==
  IF client = "opencode" THEN plugin /\ tool
  ELSE /\ HasHook(settings)
       /\ \A q \in Registered(settings) : settings.hook[q] = "optimal"

Removed ==
  IF client = "opencode" THEN ~plugin /\ ~tool ELSE ~Calls(settings, Ours)

TrueOf(p) ==
  /\ job[p].said = "installed" => Installed
  /\ job[p].said = "upgraded" => binary = "new"
  /\ job[p].said = "optimized" => AllOptimized
  /\ job[p].said = "removed" => Removed

KnowsOf(p) ==
  /\ pc[p] \in {"check", "copy", "write"} /\ job[p].doc # Absent =>
       settings = job[p].doc
  /\ pc[p] = "write" => holds[p]
  /\ pc[p] \in {"replace", "plugin", "tool"} /\ job[p].command = "install" =>
       binary = "new"
  /\ pc[p] = "tool" => plugin = (job[p].command # "uninstall")

SaidInv ==
  /\ \A p \in Proc : pc[p] # "done" => job[p].said = ""
  /\ \A p \in Proc \ disturbed : TrueOf(p) /\ KnowsOf(p)

LEMMA SaidInit == Init => SaidInv
<1> SUFFICES ASSUME Init PROVE SaidInv
  OBVIOUS
<1>1. NoJob("install").said = ""
  BY DEF NoJob
<1>2. \A p \in Proc : pc[p] = "idle" /\ job[p].said = ""
  BY <1>1 DEF Init
<1> QED  BY <1>2 DEF SaidInv, TrueOf, KnowsOf

(* A step of p that disturbs the others, or leaves all files as they are.  *)
LEMMA SaidFrame ==
  ASSUME SaidInv, NEW p \in Proc, Alone(p), client' = client,
         disturbed' = disturbed \ {p} \/ disturbed' = disturbed
           \/ disturbed' = disturbed \cup (Proc \ {p}),
         UNCHANGED files \/ disturbed' = disturbed \cup (Proc \ {p}),
         \A q \in Proc \ {p} : holds'[q] = holds[q] \/ q \in disturbed',
         pc'[p] # "done" => job'[p].said = "",
         p \notin disturbed' => TrueOf(p)' /\ KnowsOf(p)'
  PROVE  SaidInv'
<1>1. ASSUME NEW q \in Proc \ {p}, q \notin disturbed'
      PROVE  TrueOf(q)' /\ KnowsOf(q)'
  <2>1. /\ q \notin disturbed /\ pc'[q] = pc[q] /\ job'[q] = job[q]
        /\ holds'[q] = holds[q]
        /\ UNCHANGED <<settings, binary, script, plugin, tool>>
    BY <1>1 DEF Alone, files
  <2>2. TrueOf(q) /\ KnowsOf(q)
    BY <2>1 DEF SaidInv
  <2>3. UNCHANGED <<Installed, AllOptimized, Removed>>
    BY <2>1 DEF Installed, AllOptimized, Removed, IsDoc, HasHook, Registered,
                Tool, Calls
  <2> QED  BY <2>1, <2>2, <2>3 DEF TrueOf, KnowsOf
<1> QED  BY <1>1 DEF SaidInv, Alone

(* A step on the way, with nothing said.                                   *)
LEMMA SilentTrue ==
  ASSUME NEW p \in Proc, job'[p].said \in {"", "failed"}
  PROVE  TrueOf(p)'
  BY DEF TrueOf

LEMMA DoneKnows ==
  ASSUME NEW p \in Proc, pc'[p] = "done"
  PROVE  KnowsOf(p)'
  BY DEF KnowsOf

LEMMA SaidStep ==
  BaseInv /\ DocsInv /\ SaidInv /\ [Next]_vars => SaidInv'
<1> SUFFICES ASSUME BaseInv, DocsInv, SaidInv, [Next]_vars PROVE SaidInv'
  OBVIOUS
<1>a. TypeOK /\ StepInv /\ ClientInv
  BY DEF BaseInv
<1>b. ASSUME NEW p \in Proc, p \notin disturbed PROVE TrueOf(p) /\ KnowsOf(p)
  BY <1>b DEF SaidInv
<1>c. ASSUME NEW p \in Proc, pc[p] # "done", UNCHANGED job
      PROVE  job'[p].said = "" /\ TrueOf(p)'
  BY <1>c, SilentTrue DEF SaidInv
<1>1. ASSUME NEW p \in Proc, NEW c \in Command, Start(p, c) PROVE SaidInv'
  <2>1. /\ Alone(p) /\ pc'[p] = "start" /\ job'[p].said = ""
    BY <1>a, <1>1 DEF TypeOK, Start, Alone, NoJob
  <2> QED  BY <1>1, <2>1, SilentTrue, SaidFrame DEF Start, KnowsOf
<1>2. ASSUME NEW p \in Proc, ProbeSettings(p) PROVE SaidInv'
  <2>1. /\ Alone(p) /\ pc[p] = "start" /\ job[p].doc = Absent
        /\ pc'[p] \in {"create", "copy", "read"}
    BY <1>a, <1>2
    DEF TypeOK, StepInv, DocOf, ProbeSettings, AfterProbe, Alone
  <2> QED  BY <1>2, <1>c, <2>1, SaidFrame DEF ProbeSettings, KnowsOf
<1>3. ASSUME NEW p \in Proc, CreateSettings(p) PROVE SaidInv'
  <2>1. /\ Alone(p) /\ pc[p] = "create" /\ pc'[p] = "fill"
        /\ \A q \in Proc \ {p} : holds'[q] = holds[q]
    BY <1>a, <1>3 DEF TypeOK, CreateSettings, Alone
  <2> QED  BY <1>3, <1>c, <2>1, SaidFrame DEF CreateSettings, KnowsOf
<1>4. ASSUME NEW p \in Proc, FillSettings(p) PROVE SaidInv'
  <2>1. /\ Alone(p) /\ pc[p] = "fill" /\ pc'[p] = AfterProbe
        /\ \A q \in Proc \ {p} : holds'[q] = holds[q]
    BY <1>a, <1>4 DEF TypeOK, FillSettings, Alone
  <2>2. /\ AfterProbe \in {"copy", "read"}
        /\ AfterProbe = "copy" => job[p].doc = Absent
    BY <1>a DEF AfterProbe, StepInv, DocOf
  <2> QED  BY <1>4, <1>c, <2>1, <2>2, SaidFrame DEF FillSettings, KnowsOf
<1>5. ASSUME NEW p \in Proc, ReadSettings(p) PROVE SaidInv'
  <2> DEFINE c == job[p].command
  <2>1. /\ job[p] \in Job /\ c \in {"install", "optimize", "uninstall"}
        /\ client # "opencode" /\ pc[p] # "done"
    BY <1>a, <1>5 DEF TypeOK, StepInv, StepOf, ReadSettings
  <2>2. CASE /\ IsDoc(settings) /\ AfterRead(c, settings) \in Steps
             /\ job' = [job EXCEPT ![p].doc = settings]
             /\ pc' = [pc EXCEPT ![p] = AfterRead(c, settings)]
    <3>1. /\ Alone(p) /\ job'[p].doc = settings
          /\ job'[p].said = "" /\ pc'[p] = AfterRead(c, settings)
          /\ job'[p].command = c
      BY <1>a, <2>1, <2>2 DEF TypeOK, Job, Alone, SaidInv
    <3>2. /\ AfterRead(c, settings) \notin {"done", "write", "plugin", "tool"}
          /\ AfterRead(c, settings) = "replace" => c # "install"
      BY <2>1 DEF AfterRead
    <3>3. TrueOf(p)'
      BY <3>1, SilentTrue
    <3>4. KnowsOf(p)'
      BY <1>5, <3>1, <3>2 DEF KnowsOf, ReadSettings, files
    <3> QED  BY <1>5, <3>1, <3>3, <3>4, SaidFrame DEF ReadSettings
  <2>3. CASE /\ IsDoc(settings) /\ AfterRead(c, settings) \in Word
             /\ Say(p, AfterRead(c, settings))
    <3>1. AfterRead(c, settings) \in {"failed", "removed"}
      BY <2>1, <2>3 DEF AfterRead, Word
    <3>2. AfterRead(c, settings) = "removed" => settings.list # "list"
      BY <2>1 DEF AfterRead
    <3>3. /\ Alone(p) /\ pc'[p] = "done"
          /\ job'[p].said = AfterRead(c, settings)
      BY <1>a, <2>1, <2>3, SayEnds
    <3>4. settings \in Doc
      BY <1>a, <2>3, FileIsDoc DEF TypeOK
    <3>5. settings.list # "list" => ~Calls(settings, Ours)
      BY <3>4, SettingsAssumption DEF DocsInv, Sound, Listed, Calls
    <3>6. ~Calls(settings, Ours) => Removed'
      BY <1>5, <2>1 DEF Removed, Calls, ReadSettings, files
    <3>7. TrueOf(p)'
      BY <3>1, <3>2, <3>3, <3>5, <3>6 DEF TrueOf
    <3> QED
      BY <1>5, <3>3, <3>7, DoneKnows, SaidFrame DEF ReadSettings
  <2>4. ASSUME NEW word \in {"", "failed"}, Say(p, word) PROVE SaidInv'
    <3>1. word \in Word
      BY DEF Word
    <3>2. Alone(p) /\ pc'[p] = "done" /\ job'[p].said = word
      BY <1>a, <2>1, <2>4, <3>1, SayEnds
    <3>3. TrueOf(p)' /\ KnowsOf(p)'
      BY <3>2, SilentTrue, DoneKnows
    <3> QED  BY <1>5, <3>2, <3>3, SaidFrame DEF ReadSettings
  <2>5. (IF c = "uninstall" /\ settings = Absent THEN "" ELSE "failed")
          \in {"", "failed"}
    OBVIOUS
  <2> QED  BY <1>5, <2>2, <2>3, <2>4, <2>5 DEF ReadSettings
<1>6. ASSUME NEW p \in Proc, CheckBinary(p) PROVE SaidInv'
  <2>1. ASSUME pc' = [pc EXCEPT ![p] = "copy"], UNCHANGED job
        PROVE  SaidInv'
    <3>1. Alone(p) /\ pc'[p] = "copy" /\ pc[p] \in {"check", "start"}
      BY <1>a, <1>6, <2>1 DEF TypeOK, Alone, CheckBinary
    <3>2. pc[p] = "start" => job[p].doc = Absent
      BY <1>a DEF StepInv, DocOf
    <3>3. p \notin disturbed => KnowsOf(p)'
      BY <1>b, <1>6, <2>1, <3>1, <3>2 DEF KnowsOf, CheckBinary, files
    <3> QED
      BY <1>6, <1>c, <2>1, <3>1, <3>3, SaidFrame DEF CheckBinary, history
  <2>2. CASE /\ (binary = "missing") # (job[p].command = "install")
             /\ Say(p, IF job[p].command = "install" THEN "installed" ELSE "")
    <3> DEFINE word == IF job[p].command = "install" THEN "installed" ELSE ""
    <3>1. word \in Word /\ Say(p, word) /\ job[p] \in Job
      BY <1>a, <2>2 DEF Word, TypeOK
    <3>2. Alone(p) /\ pc'[p] = "done" /\ job'[p].said = word
      BY <1>a, <3>1, SayEnds
    <3>3. ASSUME p \notin disturbed, word = "installed" PROVE Installed'
      <4>1. /\ pc[p] = "check" /\ binary # "missing"
        BY <1>6, <2>2, <3>3 DEF CheckBinary
      <4>2. /\ job[p].doc \in Doc /\ HasHook(job[p].doc)
            /\ client # "opencode"
        BY <1>a, <4>1 DEF StepInv, StepOf, DocOf
      <4>3. settings = job[p].doc
        BY <1>b, <3>3, <4>1, <4>2, SettingsAssumption DEF KnowsOf
      <4>4. IsDoc(settings) /\ HasHook(settings)
        BY <4>2, <4>3, DocIsDoc
      <4> QED
        BY <1>6, <4>1, <4>2, <4>4
        DEF CheckBinary, files, Installed, IsDoc, HasHook, Registered, Tool
    <3>4. p \notin disturbed => TrueOf(p)'
      BY <3>2, <3>3 DEF TrueOf
    <3> QED
      BY <1>6, <3>2, <3>4, DoneKnows, SaidFrame DEF CheckBinary, history
  <2> QED  BY <1>6, <2>1, <2>2 DEF CheckBinary
<1>7. ASSUME NEW p \in Proc, CopyOpen(p) PROVE SaidInv'
  <2>1. /\ Alone(p) /\ pc[p] = "copy" /\ pc'[p] = "write" /\ holds'[p]
        /\ \A q \in Proc \ {p} : holds'[q] = holds[q]
    BY <1>a, <1>7 DEF TypeOK, CopyOpen, Alone
  <2>2. p \notin disturbed' => KnowsOf(p)'
    BY <1>b, <1>7, <2>1 DEF CopyOpen, KnowsOf
  <2> QED  BY <1>7, <1>c, <2>1, <2>2, SaidFrame DEF CopyOpen
<1>8. ASSUME NEW p \in Proc, CopyWrite(p) PROVE SaidInv'
  <2>1. /\ pc[p] = "write" /\ \A q \in Proc \ {p} : holds'[q] = holds[q]
        /\ UNCHANGED <<client, settings, plugin, tool>>
        /\ disturbed' = disturbed \cup (Proc \ {p})
    BY <1>a, <1>8 DEF TypeOK, CopyWrite
  <2>2. p \notin disturbed => binary' = "new"
    BY <1>b, <1>8, <2>1 DEF CopyWrite, KnowsOf
  <2>3. ASSUME NEW word \in {"upgraded", "installed"}, Say(p, word),
               word = "installed" => job[p].command = "install" /\ Repair(p)
        PROVE  SaidInv'
    <3>1. word \in Word /\ job[p] \in Job
      BY <1>a DEF Word, TypeOK
    <3>2. Alone(p) /\ pc'[p] = "done" /\ job'[p].said = word
      BY <1>a, <2>3, <3>1, SayEnds
    <3>3. ASSUME p \notin disturbed, word = "installed" PROVE Installed'
      <4>1. job[p].doc # Absent /\ HasHook(job[p].doc)
        BY <2>3, <3>3 DEF Repair
      <4>2. client # "opencode" /\ settings = job[p].doc
        BY <1>a, <1>b, <2>1, <3>3, <4>1 DEF StepInv, DocOf, KnowsOf
      <4>3. job[p].doc \in Doc
        BY <1>a, <2>1, <2>3, <3>3, <4>2 DEF StepInv, DocOf
      <4>4. IsDoc(settings) /\ HasHook(settings)
        BY <4>1, <4>2, <4>3, DocIsDoc
      <4> QED
        BY <2>1, <2>2, <3>3, <4>2, <4>4
        DEF Installed, IsDoc, HasHook, Registered, Tool
    <3>4. p \notin disturbed => TrueOf(p)'
      BY <2>2, <3>2, <3>3 DEF TrueOf
    <3> QED
      BY <2>1, <3>2, <3>4, DoneKnows, SaidFrame
  <2>4. ASSUME UNCHANGED job, job[p].command = "install",
               pc' = [pc EXCEPT ![p] = IF client = "opencode" THEN "plugin"
                                       ELSE "replace"]
        PROVE  SaidInv'
    <3>1. Alone(p) /\ pc'[p] \in {"plugin", "replace"}
      BY <1>a, <2>4 DEF TypeOK, Alone
    <3>2. p \notin disturbed => KnowsOf(p)'
      BY <2>2, <2>4, <3>1 DEF KnowsOf
    <3> QED  BY <1>c, <2>1, <2>4, <3>1, <3>2, SaidFrame
  <2> QED  BY <1>8, <2>3, <2>4 DEF CopyWrite
<1>9. ASSUME NEW p \in Proc, Replace(p) PROVE SaidInv'
  <2> DEFINE c   == job[p].command
             doc == job[p].doc
  <2>1. /\ c \in {"install", "optimize", "uninstall"} /\ doc \in Doc
        /\ client # "opencode" /\ client \in Clients /\ job[p] \in Job
        /\ c = "optimize" => HasHook(doc)
    BY <1>a, <1>9 DEF TypeOK, StepInv, Replace, StepOf, DocOf, Job, Command
  <2>2. settings' \in Changed(c, doc) /\ settings' \in Doc
    BY <1>9, <2>1, ChangedIsDoc DEF Replace
  <2>3. PICK word \in Word :
          /\ Say(p, word)
          /\ word = CASE c = "install"   -> "installed"
                      [] c = "optimize"  -> "optimized"
                      [] c = "uninstall" -> "removed"
    BY <1>9, <2>1 DEF Replace, Word
  <2>4. Alone(p) /\ pc'[p] = "done" /\ job'[p].said = word
    BY <1>a, <2>1, <2>3, SayEnds
  <2>5. /\ client' = client /\ binary' = binary /\ pc[p] = "replace"
        /\ disturbed' = disturbed \cup (Proc \ {p})
    BY <1>9 DEF Replace
  <2>6. Registered(settings)' = Registered(settings')
    BY <2>5 DEF Registered, Tool
  <2>7. ASSUME p \notin disturbed, c = "install" PROVE Installed'
    <3>1. PICK s \in Slot :
            IsEnd(doc, s) /\ settings' = Appended(doc, s, "plain")
      BY <2>2, <2>7 DEF Changed
    <3>2. Registered(settings') # {}
      <4>1. "plain" \in Ours
        BY DEF Ours
      <4>2. Registered(settings') = Registered(doc) \cup {<<s, 1>>}
        BY <2>1, <3>1, <4>1, AppendedRegistered
      <4> QED  BY <4>2
    <3>3. binary = "new"
      BY <1>b, <2>5, <2>7 DEF KnowsOf
    <3>4. IsDoc(settings')
      BY <2>2, DocIsDoc
    <3> QED
      BY <2>1, <2>5, <2>6, <3>2, <3>3, <3>4 DEF Installed, HasHook, IsDoc
  <2>8. ASSUME c = "optimize" PROVE AllOptimized'
    <3>1. settings' = Optimized(doc)
      BY <2>2, <2>8 DEF Changed
    <3>2. Registered(settings') # {}
      BY <2>1, <2>8, <3>1, OptimizedHooks DEF HasHook
    <3>3. \A q \in Registered(settings') : settings'.hook[q] = "optimal"
      BY <2>1, <3>1, OptimizedHooks
    <3> QED
      BY <2>1, <2>5, <2>6, <3>2, <3>3 DEF AllOptimized, HasHook
  <2>9. ASSUME c = "uninstall" PROVE Removed'
    <3>1. settings' = Uninstalled(doc)
      BY <2>2, <2>9 DEF Changed
    <3>2. ~Calls(settings', Ours)
      BY <2>1, <3>1, UninstalledHooks, SettingsAssumption DEF Calls
    <3> QED  BY <2>1, <2>5, <3>2 DEF Removed, Calls
  <2>10. p \notin disturbed => TrueOf(p)'
    BY <2>1, <2>3, <2>4, <2>7, <2>8, <2>9 DEF TrueOf
  <2> QED  BY <2>4, <2>5, <2>10, DoneKnows, SaidFrame
<1>10. ASSUME NEW p \in Proc, CheckPlugin(p) PROVE SaidInv'
  <2>1. CASE pc' = [pc EXCEPT ![p] = "plugin"] /\ UNCHANGED job
    <3>1. Alone(p) /\ pc'[p] = "plugin" /\ pc[p] = "start"
      BY <1>a, <1>10, <2>1 DEF TypeOK, Alone, CheckPlugin
    <3>2. job'[p].command = "optimize"
      BY <1>10, <2>1 DEF CheckPlugin
    <3> QED
      BY <1>10, <1>c, <2>1, <3>1, <3>2, SaidFrame
      DEF CheckPlugin, history, KnowsOf
  <2>2. CASE Say(p, "failed")
    <3>1. "failed" \in Word /\ job[p] \in Job
      BY <1>a DEF Word, TypeOK
    <3>2. Alone(p) /\ pc'[p] = "done" /\ job'[p].said = "failed"
      BY <1>a, <2>2, <3>1, SayEnds
    <3> QED
      BY <1>10, <3>2, SilentTrue, DoneKnows, SaidFrame DEF CheckPlugin, history
  <2> QED  BY <1>10, <2>1, <2>2 DEF CheckPlugin
<1>11. ASSUME NEW p \in Proc, SetPlugin(p) PROVE SaidInv'
  <2>1. /\ Alone(p) /\ pc'[p] = "tool" /\ pc[p] \in {"plugin", "start"}
    BY <1>a, <1>11 DEF TypeOK, SetPlugin, Alone
  <2>2. p \notin disturbed /\ job[p].command = "install" => binary = "new"
    BY <1>b, <1>11, <2>1 DEF SetPlugin, KnowsOf
  <2>3. p \notin disturbed' => KnowsOf(p)'
    BY <1>11, <2>1, <2>2 DEF SetPlugin, KnowsOf
  <2> QED  BY <1>11, <1>c, <2>1, <2>3, SaidFrame DEF SetPlugin
<1>12. ASSUME NEW p \in Proc, SetTool(p) PROVE SaidInv'
  <2> DEFINE c == job[p].command
  <2>1. /\ c \in {"install", "optimize", "uninstall"} /\ client = "opencode"
        /\ job[p] \in Job /\ pc[p] = "tool"
    BY <1>a, <1>12 DEF TypeOK, StepInv, SetTool, StepOf, Job, Command
  <2>2. PICK word \in Word :
          /\ Say(p, word)
          /\ word = CASE c = "install"   -> "installed"
                      [] c = "optimize"  -> "optimized"
                      [] c = "uninstall" -> "removed"
    BY <1>12, <2>1 DEF SetTool, Word
  <2>3. Alone(p) /\ pc'[p] = "done" /\ job'[p].said = word
    BY <1>a, <2>1, <2>2, SayEnds
  <2>4. /\ UNCHANGED <<client, binary, plugin, holds>>
        /\ tool' = (c # "uninstall")
        /\ disturbed' = disturbed \cup (Proc \ {p})
    BY <1>12 DEF SetTool
  <2>5. p \notin disturbed =>
          /\ plugin = (c # "uninstall")
          /\ c = "install" => binary = "new"
    BY <1>b, <2>1 DEF KnowsOf
  <2>6. p \notin disturbed => TrueOf(p)'
    BY <2>1, <2>2, <2>3, <2>4, <2>5
    DEF TrueOf, Installed, AllOptimized, Removed
  <2> QED  BY <2>3, <2>4, <2>6, DoneKnows, SaidFrame
<1>13. ASSUME NEW p \in Proc, Stop(p) PROVE SaidInv'
  <2>1. "failed" \in Word /\ job[p] \in Job
    BY <1>a DEF Word, TypeOK
  <2>2. /\ Alone(p) /\ pc'[p] = "done" /\ job'[p].said = "failed"
        /\ \A q \in Proc \ {p} : holds'[q] = holds[q]
    BY <1>a, <1>13, <2>1, SayEnds DEF Stop, TypeOK
  <2> QED
    BY <1>13, <2>2, SilentTrue, DoneKnows, SaidFrame DEF Stop
<1>14. CASE ClientWrite
  BY <1>14 DEF ClientWrite, SaidInv
<1>15. CASE DeleteBinary
  BY <1>15 DEF DeleteBinary, SaidInv
<1>16. CASE UNCHANGED vars
  <2>1. UNCHANGED <<Installed, AllOptimized, Removed, pc, job, holds, binary,
                    settings, plugin, disturbed>>
    BY <1>16 DEF vars, files, history, Installed, AllOptimized, Removed, IsDoc,
                 HasHook, Registered, Tool, Calls
  <2> QED  BY <2>1 DEF SaidInv, TrueOf, KnowsOf
<1> QED
  BY <1>1, <1>2, <1>3, <1>4, <1>5, <1>6, <1>7, <1>8, <1>9, <1>10, <1>11,
     <1>12, <1>13, <1>14, <1>15, <1>16 DEF Next

(* A command that nobody disturbed has done what it says at its end        *)
(* (installHook, upgradeHook, optimizeSetup, uninstall, clients.go).       *)
THEOREM SettingsSayTheTruth == Spec => []SaidIsTrue
<1>1. SaidInv => SaidIsTrue
  BY DEF SaidInv, TrueOf, Installed, AllOptimized, Removed, SaidIsTrue
<1> QED
  BY <1>1, BaseInvariant, DocsInvariant, SaidInit, SaidStep, PTL DEF Spec

=============================================================================
