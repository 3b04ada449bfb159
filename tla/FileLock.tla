------------------------------ MODULE FileLock ------------------------------
(***************************************************************************)
(* appendJSONLine and acquireFileLock (cache.go): processes append records *)
(* to one shared file, stats.jsonl, each under an flock(2) on the file     *)
(* stats.jsonl.lock.  An flock belongs to the inode that was opened, not   *)
(* to the path, and the kernel drops it with the process; the command      *)
(* "clear" (clearSessions, commands.go) removes lock files.                *)
(*                                                                         *)
(* A record is written by one write(2), or in two parts when that write is *)
(* short; a line is readable when it holds the two parts of one record and *)
(* nothing else.                                                           *)
(***************************************************************************)
EXTENDS Integers, Sequences, FiniteSets

CONSTANTS Proc,         \* processes that append
          Inode,        \* inodes the lock file may have
          NoInode,
          NoProc,
          ShortWrites,  \* a write may be short
          MaxFaults,    \* bound: processes killed and writes that fail
          MaxClears     \* bound: "clear" commands

ASSUME LockAssumption ==
  /\ NoProc \notin Proc
  /\ NoInode \notin Inode
  /\ ShortWrites \in BOOLEAN
  /\ MaxFaults \in Nat /\ MaxClears \in Nat

VARIABLES
  dir,      \* the inode the path of the lock file leads to
  holder,   \* the process that holds the flock of each inode
  fd,       \* the lock file each process has open
  pc,       \* next step of each process
  result,   \* how the last append of each process ended
  line,     \* writers of the first parts since the last end of line
  faults,   \* faults that may still happen
  clears    \* "clear" commands that may still be given

vars == <<dir, holder, fd, pc, result, line, faults, clears>>

Steps == {"idle", "open", "poll", "write", "rest", "unlock"}

Locked == {"write", "rest", "unlock"}

Result == {"none", "line", "spoiled", "skipped", "failed"}

Init ==
  /\ dir = NoInode
  /\ holder = [i \in Inode |-> NoProc]
  /\ fd = [p \in Proc |-> NoInode]
  /\ pc = [p \in Proc |-> "idle"]
  /\ result = [p \in Proc |-> "skipped"]
  /\ line = <<>>
  /\ faults = MaxFaults
  /\ clears = MaxClears

Goto(p, step) == pc' = [pc EXCEPT ![p] = step]

Ends(p, r) == result' = [result EXCEPT ![p] = r]

Start(p) ==
  /\ pc[p] = "idle"
  /\ Goto(p, "open")
  /\ Ends(p, "none")
  /\ UNCHANGED <<dir, holder, fd, line, faults, clears>>

(* os.OpenFile with O_CREATE: the file that is there, or a new one.        *)
Unused(i) == i # dir /\ \A q \in Proc : fd[q] # i

Open(p) ==
  /\ pc[p] = "open"
  /\ \E i \in Inode :
       /\ IF dir = NoInode THEN Unused(i) ELSE i = dir
       /\ dir' = i
       /\ fd' = [fd EXCEPT ![p] = i]
  /\ Goto(p, "poll")
  /\ UNCHANGED <<holder, result, line, faults, clears>>

(* Faulty variant: whether somebody holds the lock is not looked at.       *)
TryLockBlind(p) ==
  /\ pc[p] = "poll"
  /\ holder' = [holder EXCEPT ![fd[p]] = p]
  /\ Goto(p, "write")
  /\ UNCHANGED <<dir, fd, result, line, faults, clears>>

(* flock(LOCK_EX|LOCK_NB); when it fails the process sleeps and comes back *)
(* here with nothing changed.                                              *)
TryLock(p) ==
  /\ pc[p] = "poll"
  /\ holder[fd[p]] = NoProc
  /\ holder' = [holder EXCEPT ![fd[p]] = p]
  /\ Goto(p, "write")
  /\ UNCHANGED <<dir, fd, result, line, faults, clears>>

(* Faulty variants: the deadline is looked at only when the lock is free;  *)
(* at the deadline the append proceeds without the lock.                   *)
TimeoutIfFree(p) ==
  /\ pc[p] = "poll"
  /\ holder[fd[p]] = NoProc
  /\ fd' = [fd EXCEPT ![p] = NoInode]
  /\ Ends(p, "skipped")
  /\ Goto(p, "idle")
  /\ UNCHANGED <<dir, holder, line, faults, clears>>

TimeoutProceeds(p) ==
  /\ pc[p] = "poll"
  /\ Goto(p, "write")
  /\ UNCHANGED <<dir, holder, fd, result, line, faults, clears>>

(* The deadline has passed, which is looked at before each attempt: the    *)
(* append is skipped.                                                      *)
Timeout(p) ==
  /\ pc[p] = "poll"
  /\ fd' = [fd EXCEPT ![p] = NoInode]
  /\ Ends(p, "skipped")
  /\ Goto(p, "idle")
  /\ UNCHANGED <<dir, holder, line, faults, clears>>

(* One write of the whole record: it ends the line that is there.          *)
WriteAll(p) ==
  /\ pc[p] = "write"
  /\ Ends(p, IF line = <<>> THEN "line" ELSE "spoiled")
  /\ line' = <<>>
  /\ Goto(p, "unlock")
  /\ UNCHANGED <<dir, holder, fd, faults, clears>>

(* A short write, and the write of the rest.                               *)
WriteSome(p) ==
  /\ ShortWrites
  /\ pc[p] = "write"
  /\ line' = Append(line, p)
  /\ Goto(p, "rest")
  /\ UNCHANGED <<dir, holder, fd, result, faults, clears>>

WriteRest(p) ==
  /\ pc[p] = "rest"
  /\ Ends(p, IF line = <<p>> THEN "line" ELSE "spoiled")
  /\ line' = <<>>
  /\ Goto(p, "unlock")
  /\ UNCHANGED <<dir, holder, fd, faults, clears>>

Fault == faults > 0 /\ faults' = faults - 1

(* The write, or the write of the rest, fails: what was written stays.     *)
WriteFails(p) ==
  /\ pc[p] \in {"write", "rest"}
  /\ Fault
  /\ Ends(p, "failed")
  /\ Goto(p, "unlock")
  /\ UNCHANGED <<dir, holder, fd, line, clears>>

(* The deferred release: unlock and close.                                 *)
Release(p) ==
  /\ pc[p] = "unlock"
  /\ holder' = [holder EXCEPT ![fd[p]] = NoProc]
  /\ fd' = [fd EXCEPT ![p] = NoInode]
  /\ Goto(p, "idle")
  /\ UNCHANGED <<dir, result, line, faults, clears>>

(* The process is killed: the kernel closes its files and drops its flock. *)
(* The slot p is then free for another process.                            *)
Kill(p) ==
  /\ pc[p] # "idle"
  /\ Fault
  /\ holder' = [i \in Inode |-> IF holder[i] = p THEN NoProc ELSE holder[i]]
  /\ fd' = [fd EXCEPT ![p] = NoInode]
  /\ result' = IF result[p] = "none"
               THEN [result EXCEPT ![p] = "failed"] ELSE result
  /\ Goto(p, "idle")
  /\ UNCHANGED <<dir, line, clears>>

(* clearSessions removes the lock file; stats.jsonl itself stays.          *)
ClearLocks ==
  /\ clears > 0
  /\ clears' = clears - 1
  /\ dir' = NoInode
  /\ UNCHANGED <<holder, fd, pc, result, line, faults>>

Work(p) ==
  \/ Open(p) \/ TryLock(p) \/ Timeout(p)
  \/ WriteAll(p) \/ WriteSome(p) \/ WriteRest(p) \/ Release(p)

Next ==
  \/ \E p \in Proc : Start(p) \/ Work(p) \/ WriteFails(p) \/ Kill(p)
  \/ ClearLocks

Spec == Init /\ [][Next]_vars

(* The operating system runs every process that is not killed.             *)
FairSpec == Spec /\ \A p \in Proc : WF_vars(Work(p))

-----------------------------------------------------------------------------
(***************************************************************************)
(* Properties.                                                             *)
(***************************************************************************)
TypeOK ==
  /\ dir \in Inode \cup {NoInode}
  /\ holder \in [Inode -> Proc \cup {NoProc}]
  /\ fd \in [Proc -> Inode \cup {NoInode}]
  /\ pc \in [Proc -> Steps]
  /\ result \in [Proc -> Result]
  /\ line \in Seq(Proc)
  /\ faults \in Nat
  /\ clears \in Nat

(* The lock does what it is for: two processes are never between taking    *)
(* and releasing it, so a record that takes two writes is not torn apart   *)
(* by another writer.                                                      *)
MutualExclusion ==
  \A p, q \in Proc : pc[p] \in Locked /\ pc[q] \in Locked => p = q

(* A "clear" lets one more process in beside the others, and no more.      *)
OneMorePerClear ==
  Cardinality({p \in Proc : pc[p] \in Locked}) <= 1 + (MaxClears - clears)

(* An append that is begun ends: written, skipped at the deadline, failed  *)
(* or killed.  Nobody waits for ever, however often the others append.     *)
EveryAppendEnds == \A p \in Proc : (pc[p] = "open") ~> (pc[p] = "idle")

(* The appends are those of AppendOrSkip: as long as no lock file is       *)
(* removed, a record is a line of its own unless a writer was stopped in   *)
(* the middle of its record just before it.                                *)
Spoiled == IF \E p \in Proc : pc[p] = "rest" THEN Len(line) - 1 ELSE Len(line)

Abstract == INSTANCE AppendOrSkip
  WITH spoiled <- Spoiled, cleared <- (clears # MaxClears)

AppendsWholeLines == Abstract!Spec
=============================================================================
