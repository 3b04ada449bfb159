----------------------------- MODULE LockProofs -----------------------------
(***************************************************************************)
(* Proofs about FileLock, for any set of processes and inodes and any      *)
(* number of faults and "clear" commands.                                  *)
(***************************************************************************)
EXTENDS FileLock, FiniteSetTheorems, FunctionTheorems, TLAPS

(* Which process has which lock file open, and who holds its flock.        *)
FdInv == \A p \in Proc : pc[p] \in {"poll"} \cup Locked => fd[p] \in Inode

HolderInv ==
  /\ \A p \in Proc : pc[p] \in Locked => holder[fd[p]] = p
  /\ \A i \in Inode : holder[i] # NoProc =>
       pc[holder[i]] \in Locked /\ fd[holder[i]] = i

(* Before the first "clear" every open lock file is the one of the path.   *)
PathInv ==
  /\ clears <= MaxClears
  /\ clears = MaxClears =>
       \A p \in Proc : fd[p] # NoInode => fd[p] = dir

OwnerInv == FdInv /\ HolderInv /\ PathInv

LockInv == TypeOK /\ OwnerInv

USE DEF Goto, Ends, Fault, Steps, Locked, Result

LEMMA LockInit == Init => LockInv
  BY LockAssumption DEF Init, LockInv, TypeOK, OwnerInv, FdInv, HolderInv, PathInv

LEMMA TypeStep == TypeOK /\ FdInv /\ [Next]_vars => TypeOK'
<1> SUFFICES ASSUME TypeOK, FdInv, [Next]_vars PROVE TypeOK'
  OBVIOUS
<1> USE DEF TypeOK
<1>1. ASSUME NEW p \in Proc, Start(p) PROVE TypeOK'
  BY <1>1 DEF Start
<1>2. ASSUME NEW p \in Proc, Open(p) PROVE TypeOK'
  BY <1>2 DEF Open
<1>3. ASSUME NEW p \in Proc, TryLock(p) PROVE TypeOK'
  BY <1>3 DEF TryLock
<1>4. ASSUME NEW p \in Proc, Timeout(p) PROVE TypeOK'
  BY <1>4 DEF Timeout
<1>5. ASSUME NEW p \in Proc, WriteAll(p) PROVE TypeOK'
  <2>1. line' \in Seq(Proc)  BY <1>5 DEF WriteAll
  <2> QED  BY <1>5, <2>1 DEF WriteAll
<1>6. ASSUME NEW p \in Proc, WriteSome(p) PROVE TypeOK'
  <2>1. line' \in Seq(Proc)  BY <1>6 DEF WriteSome
  <2> QED  BY <1>6, <2>1 DEF WriteSome
<1>7. ASSUME NEW p \in Proc, WriteRest(p) PROVE TypeOK'
  <2>1. line' \in Seq(Proc)  BY <1>7 DEF WriteRest
  <2> QED  BY <1>7, <2>1 DEF WriteRest
<1>8. ASSUME NEW p \in Proc, WriteFails(p) PROVE TypeOK'
  BY <1>8 DEF WriteFails
<1>9. ASSUME NEW p \in Proc, Release(p) PROVE TypeOK'
  BY <1>9 DEF Release
<1>10. ASSUME NEW p \in Proc, Kill(p) PROVE TypeOK'
  BY <1>10 DEF Kill
<1>11. CASE ClearLocks
  BY <1>11 DEF ClearLocks
<1>12. CASE UNCHANGED vars
  BY <1>12 DEF vars
<1> QED
  BY <1>1, <1>2, <1>3, <1>4, <1>5, <1>6, <1>7, <1>8, <1>9, <1>10, <1>11,
     <1>12 DEF Next, Work

LEMMA LockStep == LockInv /\ [Next]_vars => LockInv'
<1> SUFFICES ASSUME LockInv, [Next]_vars PROVE LockInv'
  OBVIOUS
<1>t. TypeOK'
  BY TypeStep DEF LockInv, OwnerInv
<1>a. TypeOK /\ FdInv /\ HolderInv /\ PathInv
  BY DEF LockInv, OwnerInv
<1>1. ASSUME NEW p \in Proc, Start(p) PROVE OwnerInv'
  BY <1>a, LockAssumption, <1>1
  DEF TypeOK, OwnerInv, FdInv, HolderInv, PathInv, Start
<1>2. ASSUME NEW p \in Proc, Open(p) PROVE OwnerInv'
  <2>1. PICK i \in Inode :
          /\ IF dir = NoInode THEN Unused(i) ELSE i = dir
          /\ dir' = i
          /\ fd' = [fd EXCEPT ![p] = i]
    BY <1>2 DEF Open
  <2>2. FdInv'
    BY <1>a, LockAssumption, <1>2, <2>1
    DEF TypeOK, OwnerInv, FdInv, HolderInv, PathInv, Open
  <2>3. HolderInv'
    BY <1>a, LockAssumption, <1>2, <2>1
    DEF TypeOK, OwnerInv, FdInv, HolderInv, PathInv, Open
  <2>4. PathInv'
    BY <1>a, LockAssumption, <1>2, <2>1
    DEF TypeOK, OwnerInv, FdInv, HolderInv, PathInv, Open
  <2> QED  BY <2>2, <2>3, <2>4 DEF OwnerInv
<1>3. ASSUME NEW p \in Proc, TryLock(p) PROVE OwnerInv'
  BY <1>a, LockAssumption, <1>3
  DEF TypeOK, OwnerInv, FdInv, HolderInv, PathInv, TryLock
<1>4. ASSUME NEW p \in Proc, Timeout(p) PROVE OwnerInv'
  BY <1>a, LockAssumption, <1>4
  DEF TypeOK, OwnerInv, FdInv, HolderInv, PathInv, Timeout
<1>5. ASSUME NEW p \in Proc, WriteAll(p) PROVE OwnerInv'
  BY <1>a, LockAssumption, <1>5
  DEF TypeOK, OwnerInv, FdInv, HolderInv, PathInv, WriteAll
<1>6. ASSUME NEW p \in Proc, WriteSome(p) PROVE OwnerInv'
  BY <1>a, LockAssumption, <1>6
  DEF TypeOK, OwnerInv, FdInv, HolderInv, PathInv, WriteSome
<1>7. ASSUME NEW p \in Proc, WriteRest(p) PROVE OwnerInv'
  BY <1>a, LockAssumption, <1>7
  DEF TypeOK, OwnerInv, FdInv, HolderInv, PathInv, WriteRest
<1>8. ASSUME NEW p \in Proc, WriteFails(p) PROVE OwnerInv'
  BY <1>a, LockAssumption, <1>8
  DEF TypeOK, OwnerInv, FdInv, HolderInv, PathInv, WriteFails
<1>9. ASSUME NEW p \in Proc, Release(p) PROVE OwnerInv'
  BY <1>a, LockAssumption, <1>9
  DEF TypeOK, OwnerInv, FdInv, HolderInv, PathInv, Release
<1>10. ASSUME NEW p \in Proc, Kill(p) PROVE OwnerInv'
  <2>1. FdInv' /\ PathInv'
    BY <1>a, LockAssumption, <1>10
    DEF TypeOK, OwnerInv, FdInv, HolderInv, PathInv, Kill
  <2>2. ASSUME NEW q \in Proc, pc'[q] \in Locked
        PROVE  holder'[fd'[q]] = q
    BY <1>a, LockAssumption, <1>10, <2>2
    DEF TypeOK, FdInv, HolderInv, Kill
  <2>3. ASSUME NEW i \in Inode, holder'[i] # NoProc
        PROVE  pc'[holder'[i]] \in Locked /\ fd'[holder'[i]] = i
    <3>1. holder[i] # p /\ holder[i] # NoProc /\ holder'[i] = holder[i]
      BY <1>a, <1>10, <2>3 DEF TypeOK, Kill
    <3>2. holder[i] \in Proc
      BY <1>a, <3>1 DEF TypeOK
    <3> QED
      BY <1>a, <1>10, <3>1, <3>2 DEF TypeOK, HolderInv, Kill
  <2> QED  BY <2>1, <2>2, <2>3 DEF OwnerInv, HolderInv
<1>11. ASSUME ClearLocks PROVE OwnerInv'
  <2>1. FdInv' /\ HolderInv'
    BY <1>a, <1>11 DEF FdInv, HolderInv, ClearLocks
  <2>2. PathInv'
    BY <1>a, <1>11, LockAssumption DEF TypeOK, PathInv, ClearLocks
  <2> QED  BY <2>1, <2>2 DEF OwnerInv
<1>12. ASSUME UNCHANGED vars PROVE OwnerInv'
  BY <1>a, <1>12 DEF OwnerInv, FdInv, HolderInv, PathInv, vars
<1>13. OwnerInv'
  BY <1>1, <1>2, <1>3, <1>4, <1>5, <1>6, <1>7, <1>8, <1>9, <1>10, <1>11,
     <1>12 DEF Next, Work
<1> QED  BY <1>t, <1>13 DEF LockInv

LEMMA LockInvariant == Spec => []LockInv
<1> QED  BY LockInit, LockStep, PTL DEF Spec

(* Every variable of the lock protocol keeps its type.                     *)
THEOREM LockTypeCorrect == Spec => []TypeOK
<1>1. LockInv => TypeOK
  BY DEF LockInv
<1> QED  BY <1>1, LockInvariant, PTL

(* Until a "clear" command removes the lock file, two processes are never  *)
(* in the critical section of appendJSONLine.                              *)
THEOREM LockExcludes == Spec => [](clears = MaxClears => MutualExclusion)
<1>1. LockInv => (clears = MaxClears => MutualExclusion)
  BY LockAssumption
  DEF LockInv, TypeOK, OwnerInv, FdInv, HolderInv, PathInv, MutualExclusion
<1> QED  BY <1>1, LockInvariant, PTL

-----------------------------------------------------------------------------
(***************************************************************************)
(* One more per "clear".  The processes in the critical section hold locks *)
(* of different inodes: the one the path leads to, and inodes that a       *)
(* "clear" has unlinked while they were open, of which there are never     *)
(* more than there were clears.                                            *)
(***************************************************************************)
Unlinked == {fd[p] : p \in Proc} \ {NoInode, dir}

UnlinkedInv ==
  IsFiniteSet(Unlinked) /\ Cardinality(Unlinked) <= MaxClears - clears

LEMMA UnlinkedInit == Init => UnlinkedInv
<1> SUFFICES ASSUME Init PROVE UnlinkedInv
  OBVIOUS
<1>1. Unlinked = {}
  BY DEF Init, Unlinked
<1>2. MaxClears - clears = 0
  BY LockAssumption DEF Init
<1> QED  BY <1>1, <1>2, FS_EmptySet DEF UnlinkedInv

(* A step that unlinks nothing that was not unlinked before.               *)
LEMMA UnlinkedShrinks ==
  ASSUME UnlinkedInv, Unlinked' \subseteq Unlinked, clears' = clears,
         clears \in Nat
  PROVE  UnlinkedInv'
<1>1. /\ IsFiniteSet(Unlinked')
      /\ Cardinality(Unlinked') <= Cardinality(Unlinked)
      /\ Cardinality(Unlinked) \in Nat /\ Cardinality(Unlinked') \in Nat
  BY FS_Subset, FS_CardinalityType DEF UnlinkedInv
<1> QED  BY <1>1, LockAssumption DEF UnlinkedInv

LEMMA UnlinkedStep == LockInv /\ UnlinkedInv /\ [Next]_vars => UnlinkedInv'
<1> SUFFICES ASSUME LockInv, UnlinkedInv, [Next]_vars PROVE UnlinkedInv'
  OBVIOUS
<1>a. TypeOK
  BY DEF LockInv
<1>b. clears \in Nat
  BY <1>a DEF TypeOK
<1>1. ASSUME NEW p \in Proc, Open(p) PROVE UnlinkedInv'
  <2>1. PICK i \in Inode :
          /\ IF dir = NoInode THEN Unused(i) ELSE i = dir
          /\ dir' = i
          /\ fd' = [fd EXCEPT ![p] = i]
    BY <1>1 DEF Open
  <2>2. Unlinked' \subseteq Unlinked
    <3> SUFFICES ASSUME NEW q \in Proc, fd'[q] \notin {NoInode, i}
                 PROVE  fd'[q] \in Unlinked
      BY <2>1 DEF Unlinked
    <3>1. q # p /\ fd'[q] = fd[q]
      BY <1>a, <2>1 DEF TypeOK
    <3> QED  BY <2>1, <3>1 DEF Unlinked
  <2> QED  BY <1>1, <1>b, <2>2, UnlinkedShrinks DEF Open
<1>2. ASSUME NEW p \in Proc, Timeout(p) \/ Release(p) \/ Kill(p)
      PROVE  UnlinkedInv'
  <2>1. fd' = [fd EXCEPT ![p] = NoInode] /\ UNCHANGED <<dir, clears>>
    BY <1>2 DEF Timeout, Release, Kill
  <2>2. Unlinked' \subseteq Unlinked
    <3> SUFFICES ASSUME NEW q \in Proc, fd'[q] \notin {NoInode, dir}
                 PROVE  fd'[q] \in Unlinked
      BY <2>1 DEF Unlinked
    <3>1. q # p /\ fd'[q] = fd[q]
      BY <1>a, <2>1 DEF TypeOK
    <3> QED  BY <3>1 DEF Unlinked
  <2> QED  BY <1>b, <2>1, <2>2, UnlinkedShrinks
<1>3. ASSUME NEW p \in Proc,
             \/ Start(p) \/ TryLock(p) \/ WriteAll(p) \/ WriteSome(p)
             \/ WriteRest(p) \/ WriteFails(p)
      PROVE  UnlinkedInv'
  <2>1. UNCHANGED <<dir, fd, clears>>
    BY <1>3
    DEF Start, TryLock, WriteAll, WriteSome, WriteRest, WriteFails
  <2> QED  BY <2>1 DEF UnlinkedInv, Unlinked
<1>4. ASSUME ClearLocks PROVE UnlinkedInv'
  <2>1. clears > 0 /\ clears' = clears - 1 /\ dir' = NoInode /\ fd' = fd
    BY <1>4 DEF ClearLocks
  <2>2. Unlinked' \subseteq Unlinked \cup {dir}
    BY <2>1 DEF Unlinked
  <2>3. /\ IsFiniteSet(Unlinked \cup {dir})
        /\ Cardinality(Unlinked \cup {dir}) <= Cardinality(Unlinked) + 1
        /\ Cardinality(Unlinked) \in Nat
    BY FS_AddElement, FS_CardinalityType DEF UnlinkedInv
  <2>4. /\ IsFiniteSet(Unlinked')
        /\ Cardinality(Unlinked') <= Cardinality(Unlinked \cup {dir})
    BY <2>2, <2>3, FS_Subset
  <2>5. Cardinality(Unlinked') \in Nat
        /\ Cardinality(Unlinked \cup {dir}) \in Nat
    BY <2>3, <2>4, FS_CardinalityType
  <2>6. Cardinality(Unlinked') <= MaxClears - clears'
    BY <1>b, <2>1, <2>3, <2>4, <2>5, LockAssumption DEF UnlinkedInv
  <2> QED  BY <2>4, <2>6 DEF UnlinkedInv
<1>5. CASE UNCHANGED vars
  BY <1>5 DEF vars, UnlinkedInv, Unlinked
<1> QED
  BY <1>1, <1>2, <1>3, <1>4, <1>5 DEF Next, Work

(* The processes in the critical section have different lock files open,   *)
(* each the one of the path or an unlinked one.                            *)
LEMMA LockedAreFew ==
  ASSUME LockInv, UnlinkedInv
  PROVE  OneMorePerClear
<1> DEFINE S == {p \in Proc : pc[p] \in Locked}
           T == Unlinked \cup {dir}
           f == [p \in S |-> fd[p]]
<1>1. /\ IsFiniteSet(T)
      /\ Cardinality(T) <= Cardinality(Unlinked) + 1
      /\ Cardinality(Unlinked) \in Nat /\ Cardinality(T) \in Nat
  BY FS_AddElement, FS_CardinalityType DEF UnlinkedInv
<1>2. f \in Injection(S, T)
  <2>1. \A p \in S : fd[p] \in Inode /\ holder[fd[p]] = p
    BY DEF LockInv, OwnerInv, FdInv, HolderInv
  <2>2. f \in [S -> T]
    BY <2>1, LockAssumption DEF Unlinked
  <2>3. \A p, q \in S : f[p] = f[q] => p = q
    BY <2>1
  <2> QED  BY <2>2, <2>3, Fun_IsInj
<1>3. IsFiniteSet(S) /\ Cardinality(S) <= Cardinality(T)
  BY <1>1, <1>2, FS_Injection
<1>4. Cardinality(S) \in Nat
  BY <1>3, FS_CardinalityType
<1>5. clears \in Nat /\ Cardinality(Unlinked) <= MaxClears - clears
  BY DEF LockInv, TypeOK, UnlinkedInv
<1>6. Cardinality(S) <= 1 + (MaxClears - clears)
  <2> HIDE DEF S, T
  <2> QED  BY <1>1, <1>3, <1>4, <1>5, LockAssumption
<1> QED  BY <1>6 DEF OneMorePerClear

(* Each "clear" lets at most one more process into the critical section of *)
(* appendJSONLine, whatever their number and the order of their steps.     *)
THEOREM LockOneMorePerClear == Spec => []OneMorePerClear
<1>1. Init => LockInv /\ UnlinkedInv
  BY LockInit, UnlinkedInit
<1>2. LockInv /\ UnlinkedInv /\ [Next]_vars => (LockInv /\ UnlinkedInv)'
  BY LockStep, UnlinkedStep
<1>3. LockInv /\ UnlinkedInv => OneMorePerClear
  BY LockedAreFew
<1> QED  BY <1>1, <1>2, <1>3, PTL DEF Spec

-----------------------------------------------------------------------------
(***************************************************************************)
(* The implementation of AppendOrSkip.  An append is pending exactly until *)
(* it has a result, and while a record is half written, and no lock file   *)
(* was removed, its first part is the last thing in the file.              *)
(***************************************************************************)
ResultInv ==
  \A p \in Proc :
    pc[p] \in {"open", "poll", "write", "rest"} <=> result[p] = "none"

RestInv ==
  clears = MaxClears =>
    \A p \in Proc : pc[p] = "rest" => Len(line) > 0 /\ line[Len(line)] = p

LineInv == ResultInv /\ RestInv

LEMMA LineInit == Init => LineInv
  BY DEF Init, LineInv, ResultInv, RestInv

(* While nobody cleared the lock files, the holder of the lock is alone.   *)
LEMMA HolderAlone ==
  ASSUME LockInv, clears = MaxClears,
         NEW p \in Proc, pc[p] \in Locked, NEW q \in Proc, pc[q] \in Locked
  PROVE  p = q
  BY LockAssumption
  DEF LockInv, TypeOK, OwnerInv, FdInv, HolderInv, PathInv

LEMMA LineStep == LockInv /\ LockInv' /\ LineInv /\ [Next]_vars => LineInv'
<1> SUFFICES ASSUME LockInv, LockInv', LineInv, [Next]_vars PROVE LineInv'
  OBVIOUS
<1>a. TypeOK /\ TypeOK' /\ ResultInv /\ RestInv
  BY DEF LockInv, LineInv
<1>1. ASSUME NEW p \in Proc, Start(p) PROVE LineInv'
  BY <1>a, <1>1 DEF TypeOK, LineInv, ResultInv, RestInv, Start
<1>2. ASSUME NEW p \in Proc, Open(p) PROVE LineInv'
  BY <1>a, <1>2 DEF TypeOK, LineInv, ResultInv, RestInv, Open
<1>3. ASSUME NEW p \in Proc, TryLock(p) PROVE LineInv'
  BY <1>a, <1>3 DEF TypeOK, LineInv, ResultInv, RestInv, TryLock
<1>4. ASSUME NEW p \in Proc, Timeout(p) PROVE LineInv'
  BY <1>a, <1>4 DEF TypeOK, LineInv, ResultInv, RestInv, Timeout
<1>5. ASSUME NEW p \in Proc, WriteAll(p) PROVE LineInv'
  <2>1. ResultInv'
    BY <1>a, <1>5 DEF TypeOK, ResultInv, WriteAll
  <2>2. RestInv'
    BY <1>a, <1>5, HolderAlone DEF TypeOK, RestInv, WriteAll
  <2> QED  BY <2>1, <2>2 DEF LineInv
<1>6. ASSUME NEW p \in Proc, WriteSome(p) PROVE LineInv'
  <2>1. ResultInv'
    BY <1>a, <1>6 DEF TypeOK, ResultInv, WriteSome
  <2>2. Len(line') > 0 /\ line'[Len(line')] = p
    BY <1>a, <1>6 DEF TypeOK, WriteSome
  <2>3. RestInv'
    BY <1>a, <1>6, <2>2, HolderAlone DEF TypeOK, RestInv, WriteSome
  <2> QED  BY <2>1, <2>3 DEF LineInv
<1>7. ASSUME NEW p \in Proc, WriteRest(p) PROVE LineInv'
  <2>1. ResultInv'
    BY <1>a, <1>7 DEF TypeOK, ResultInv, WriteRest
  <2>2. RestInv'
    BY <1>a, <1>7, HolderAlone DEF TypeOK, RestInv, WriteRest
  <2> QED  BY <2>1, <2>2 DEF LineInv
<1>8. ASSUME NEW p \in Proc, WriteFails(p) PROVE LineInv'
  BY <1>a, <1>8 DEF TypeOK, LineInv, ResultInv, RestInv, WriteFails
<1>9. ASSUME NEW p \in Proc, Release(p) PROVE LineInv'
  BY <1>a, <1>9 DEF TypeOK, LineInv, ResultInv, RestInv, Release
<1>10. ASSUME NEW p \in Proc, Kill(p) PROVE LineInv'
  BY <1>a, <1>10 DEF TypeOK, LineInv, ResultInv, RestInv, Kill
<1>11. CASE ClearLocks
  BY <1>11, LockAssumption
  DEF LockInv, TypeOK, OwnerInv, PathInv, LineInv, ResultInv, RestInv,
      ClearLocks
<1>12. CASE UNCHANGED vars
  BY <1>12 DEF LineInv, ResultInv, RestInv, vars
<1> QED
  BY <1>1, <1>2, <1>3, <1>4, <1>5, <1>6, <1>7, <1>8, <1>9, <1>10, <1>11,
     <1>12 DEF Next, Work

LEMMA LineInvariant == Spec => [](LockInv /\ LineInv)
<1>1. Init => LockInv /\ LineInv
  BY LockInit, LineInit
<1>2. LockInv /\ LineInv /\ [Next]_vars => (LockInv /\ LineInv)'
  BY LockStep, LineStep
<1> QED  BY <1>1, <1>2, PTL DEF Spec

(* What Spoiled is, by the step a process that holds the lock has reached. *)
LEMMA SpoiledResting ==
  ASSUME NEW p \in Proc, pc[p] = "rest"
  PROVE  Spoiled = Len(line) - 1
  BY DEF Spoiled

LEMMA SpoiledOtherwise ==
  ASSUME \A p \in Proc : pc[p] # "rest"
  PROVE  Spoiled = Len(line)
  BY DEF Spoiled

(* A step that moves no process into or out of "rest" and writes nothing   *)
(* leaves Spoiled as it is.                                                *)
LEMMA SpoiledSame ==
  ASSUME line' = line, \A p \in Proc : pc[p] = "rest" <=> pc'[p] = "rest"
  PROVE  Spoiled' = Spoiled
  BY DEF Spoiled

(* As long as the lock files are there, every step is one of AppendOrSkip, *)
(* or changes nothing that it speaks of.                                   *)
LEMMA PromiseKept ==
  ASSUME LockInv, LockInv', LineInv, [Next]_vars,
         clears = MaxClears, clears' = MaxClears
  PROVE  \/ \E p \in Proc : \/ Abstract!Start(p) \/ Abstract!AppendLine(p)
                            \/ Abstract!SpoilLine(p) \/ Abstract!Skip(p)
                            \/ Abstract!Fail(p)
         \/ result' = result /\ Spoiled' = Spoiled
<1>a. TypeOK /\ TypeOK' /\ ResultInv /\ RestInv
  BY DEF LockInv, LineInv
<1>b. Len(line) \in Nat
  BY <1>a DEF TypeOK
<1> DEFINE Goal ==
      \/ \E p \in Proc : \/ Abstract!Start(p) \/ Abstract!AppendLine(p)
                         \/ Abstract!SpoilLine(p) \/ Abstract!Skip(p)
                         \/ Abstract!Fail(p)
      \/ result' = result /\ Spoiled' = Spoiled
<1>1. ASSUME NEW p \in Proc, Start(p) PROVE Goal
  <2>1. Spoiled' = Spoiled
    BY <1>a, <1>1, SpoiledSame DEF TypeOK, Start
  <2>2. result[p] # "none" /\ result' = [result EXCEPT ![p] = "none"]
    BY <1>a, <1>1 DEF ResultInv, Start
  <2>3. Abstract!Start(p)
    BY <2>1, <2>2 DEF Abstract!Start
  <2> QED  BY <2>3
<1>2. ASSUME NEW p \in Proc, Open(p) \/ TryLock(p) \/ Release(p) PROVE Goal
  <2>1. Spoiled' = Spoiled
    BY <1>a, <1>2, SpoiledSame DEF TypeOK, Open, TryLock, Release
  <2> QED  BY <1>2, <2>1 DEF Open, TryLock, Release
<1>3. ASSUME NEW p \in Proc, Timeout(p) PROVE Goal
  <2>1. Spoiled' = Spoiled
    BY <1>a, <1>3, SpoiledSame DEF TypeOK, Timeout
  <2>2. Abstract!Ends(p, "skipped")
    BY <1>a, <1>3 DEF ResultInv, Timeout, Abstract!Ends
  <2>3. Abstract!Skip(p)
    BY <2>1, <2>2 DEF Abstract!Skip
  <2> QED  BY <2>3
<1>4. ASSUME NEW p \in Proc, WriteAll(p) PROVE Goal
  <2>1. \A q \in Proc : pc[q] # "rest" /\ pc'[q] # "rest"
    BY <1>a, <1>4, HolderAlone DEF TypeOK, WriteAll
  <2>2. Spoiled = Len(line) /\ Spoiled' = 0
    BY <1>4, <2>1, SpoiledOtherwise DEF Spoiled, WriteAll
  <2>3. result[p] = "none"
    BY <1>a, <1>4 DEF ResultInv, WriteAll
  <2>4. CASE line = <<>>
    <3>1. Abstract!AppendLine(p)
      BY <1>4, <2>2, <2>3, <2>4 DEF WriteAll, Abstract!AppendLine, Abstract!Ends
    <3> QED  BY <3>1
  <2>5. CASE line # <<>>
    <3>1. Len(line) > 0
      BY <1>a, <2>5 DEF TypeOK
    <3>2. Abstract!SpoilLine(p)
      BY <1>4, <2>2, <2>3, <2>5, <3>1
      DEF WriteAll, Abstract!SpoilLine, Abstract!Ends
    <3> QED  BY <3>2
  <2> QED  BY <2>4, <2>5
<1>5. ASSUME NEW p \in Proc, WriteSome(p) PROVE Goal
  <2>1. \A q \in Proc : pc[q] # "rest"
    BY <1>a, <1>5, HolderAlone DEF TypeOK, WriteSome
  <2>2. pc'[p] = "rest" /\ Len(line') = Len(line) + 1
    BY <1>a, <1>5 DEF TypeOK, WriteSome
  <2>3. Spoiled = Len(line) /\ Spoiled' = Len(line') - 1
    BY <2>1, <2>2, SpoiledOtherwise DEF Spoiled
  <2> QED  BY <1>5, <1>b, <2>2, <2>3 DEF WriteSome
<1>6. ASSUME NEW p \in Proc, WriteRest(p) PROVE Goal
  <2>1. \A q \in Proc : pc'[q] # "rest"
    BY <1>a, <1>6, HolderAlone DEF TypeOK, WriteRest
  <2>2. Spoiled = Len(line) - 1 /\ Spoiled' = 0
    BY <1>6, <2>1, SpoiledResting DEF Spoiled, WriteRest
  <2>3. result[p] = "none" /\ Len(line) > 0 /\ line[Len(line)] = p
    BY <1>a, <1>6 DEF ResultInv, RestInv, WriteRest
  <2>4. CASE line = <<p>>
    <3>1. Len(line) = 1
      BY <2>4
    <3>2. Abstract!AppendLine(p)
      BY <1>6, <2>2, <2>3, <2>4, <3>1
      DEF WriteRest, Abstract!AppendLine, Abstract!Ends
    <3> QED  BY <3>2
  <2>5. CASE line # <<p>>
    <3>1. Len(line) # 1
      BY <1>a, <2>3, <2>5 DEF TypeOK
    <3>2. Abstract!SpoilLine(p)
      BY <1>6, <1>b, <2>2, <2>3, <2>5, <3>1
      DEF WriteRest, Abstract!SpoilLine, Abstract!Ends
    <3> QED  BY <3>2
  <2> QED  BY <2>4, <2>5
<1>7. ASSUME NEW p \in Proc, WriteFails(p) PROVE Goal
  <2>1. result[p] = "none" /\ result' = [result EXCEPT ![p] = "failed"]
    BY <1>a, <1>7 DEF ResultInv, WriteFails
  <2>2. Spoiled' \in {Spoiled, Spoiled + 1}
    <3>1. \A q \in Proc : pc'[q] # "rest"
      BY <1>a, <1>7, HolderAlone DEF TypeOK, WriteFails
    <3>2. Spoiled' = Len(line)
      BY <1>7, <3>1 DEF Spoiled, WriteFails
    <3>3. Spoiled \in {Len(line), Len(line) - 1}
      BY DEF Spoiled
    <3> QED  BY <1>b, <3>2, <3>3
  <2>3. Abstract!Fail(p)
    BY <2>1, <2>2 DEF Abstract!Fail, Abstract!Ends
  <2> QED  BY <2>3
<1>8. ASSUME NEW p \in Proc, Kill(p) PROVE Goal
  <2>1. CASE pc[p] = "unlock"
    <3>1. Spoiled' = Spoiled
      BY <1>a, <1>8, <2>1, SpoiledSame DEF TypeOK, Kill
    <3>2. result' = result
      BY <1>a, <1>8, <2>1 DEF ResultInv, Kill
    <3> QED  BY <3>1, <3>2
  <2>2. CASE pc[p] # "unlock"
    <3>1. result[p] = "none" /\ result' = [result EXCEPT ![p] = "failed"]
      BY <1>a, <1>8, <2>2 DEF TypeOK, ResultInv, Kill
    <3>2. Spoiled' \in {Spoiled, Spoiled + 1}
      <4>1. CASE pc[p] = "rest"
        <5>1. \A q \in Proc : pc'[q] # "rest"
          BY <1>a, <1>8, <4>1, HolderAlone DEF TypeOK, Kill
        <5>2. Spoiled' = Len(line) /\ Spoiled = Len(line) - 1
          BY <1>8, <4>1, <5>1 DEF Spoiled, Kill
        <5> QED  BY <1>b, <5>2
      <4>2. CASE pc[p] # "rest"
        BY <1>a, <1>8, <4>2, SpoiledSame DEF TypeOK, Kill
      <4> QED  BY <4>1, <4>2
    <3>3. Abstract!Fail(p)
      BY <3>1, <3>2 DEF Abstract!Fail, Abstract!Ends
    <3> QED  BY <3>3
  <2> QED  BY <2>1, <2>2
<1>9. ASSUME ClearLocks PROVE Goal
  BY <1>9, <1>a DEF TypeOK, ClearLocks
<1>10. ASSUME UNCHANGED vars PROVE Goal
  BY <1>10, SpoiledSame DEF vars
<1> HIDE DEF Goal
<1>11. Goal
  BY <1>1, <1>2, <1>3, <1>4, <1>5, <1>6, <1>7, <1>8, <1>9, <1>10
  DEF Next, Work
<1> QED  BY <1>11 DEF Goal

(* The clears that are left never become more.                             *)
LEMMA ClearsLeft ==
  ASSUME LockInv, [Next]_vars
  PROVE  clears' <= clears /\ clears <= MaxClears /\ clears \in Nat
  BY LockAssumption
  DEF LockInv, TypeOK, OwnerInv, PathInv, Next, Work, vars, Start, Open,
      TryLock, Timeout, WriteAll, WriteSome, WriteRest, WriteFails, Release,
      Kill, ClearLocks

LEMMA StepRefines ==
  LockInv /\ LockInv' /\ LineInv /\ [Next]_vars
    => [Abstract!Next]_(Abstract!vars)
<1> SUFFICES ASSUME LockInv, LockInv', LineInv, [Next]_vars
             PROVE  [Abstract!Next]_(Abstract!vars)
  OBVIOUS
<1>1. CASE clears' # MaxClears
  <2>1. (clears' # MaxClears) = TRUE
    BY <1>1
  <2> QED  BY <2>1 DEF Abstract!Next, Abstract!NoPromise
<1>2. CASE clears' = MaxClears
  <2>1. clears = MaxClears
    BY <1>2, ClearsLeft, LockAssumption
  <2>2. (clears' # MaxClears) = (clears # MaxClears)
    BY <1>2, <2>1
  <2>3. CASE \E p \in Proc : \/ Abstract!Start(p) \/ Abstract!AppendLine(p)
                             \/ Abstract!SpoilLine(p) \/ Abstract!Skip(p)
                             \/ Abstract!Fail(p)
    BY <2>2, <2>3 DEF Abstract!Next, Abstract!Promise
  <2>4. CASE result' = result /\ Spoiled' = Spoiled
    BY <2>2, <2>4 DEF Abstract!vars
  <2> QED  BY <1>2, <2>1, <2>3, <2>4, PromiseKept
<1> QED  BY <1>1, <1>2

LEMMA InitRefines == Init => Abstract!Init
<1> SUFFICES ASSUME Init PROVE Abstract!Init
  OBVIOUS
<1>1. result = [p \in Proc |-> "skipped"]
  BY DEF Init
<1>2. Spoiled = 0
  BY DEF Init, Spoiled
<1>3. (clears # MaxClears) = FALSE
  BY DEF Init
<1> QED  BY <1>1, <1>2, <1>3 DEF Abstract!Init

(* The protocol of appendJSONLine appends whole lines or nothing: FileLock *)
(* implements AppendOrSkip.                                                *)
THEOREM LockImplements == Spec => AppendsWholeLines
<1> QED
  BY InitRefines, StepRefines, LineInvariant, PTL
  DEF Spec, AppendsWholeLines, Abstract!Spec
=============================================================================
