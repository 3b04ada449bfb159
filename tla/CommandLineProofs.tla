------------------------- MODULE CommandLineProofs -------------------------
(***************************************************************************)
(* Proofs about CommandLine: that the file which is tracked for a command  *)
(* line is one the shell reads, that keys tell reads apart and nothing     *)
(* else, and that the hook works for the client it is installed for.       *)
(***************************************************************************)
EXTENDS CommandLine, SettingsProofs

LEMMA NoFileIsMissing == NoFile \notin Exists
  BY ToolInputAssumption

LEMMA MaxInSet ==
  ASSUME NEW n \in Nat, NEW S \in SUBSET (1..n), S # {}
  PROVE  Max(S) \in S
<1>1. \E x \in S : \A y \in S : x >= y
  <2>1. PICK x \in S : \A y \in S : y <= x
    BY GreatestNatural
  <2> QED  BY <2>1
<1> QED  BY <1>1 DEF Max

LEMMA MinInSet ==
  ASSUME NEW n \in Nat, NEW S \in SUBSET (1..n), S # {}
  PROVE  Min(S) \in S
<1>1. \E x \in S : \A y \in S : x <= y
  BY LeastNatural
<1> QED  BY <1>1 DEF Min

-----------------------------------------------------------------------------
(* The last word that names a file is one that does.                       *)
LEMMA BestFound ==
  ASSUME NEW words, NEW dir, NEW n \in Nat, DOMAIN words \in SUBSET (1..n)
  PROVE  \/ /\ Best(words, dir) = NoFile
            /\ \A i \in DOMAIN words : In(dir, words[i]) \notin Exists
         \/ \E i \in DOMAIN words :
              /\ Best(words, dir) = In(dir, words[i])
              /\ In(dir, words[i]) \in Exists
<1> DEFINE found == {i \in DOMAIN words : In(dir, words[i]) \in Exists}
<1>1. Best(words, dir) = IF found = {} THEN NoFile ELSE In(dir, words[Max(found)])
  BY DEF Best
<1>2. found # {} => Max(found) \in found
  <2>1. found \in SUBSET (1..n)
    OBVIOUS
  <2> HIDE DEF found
  <2> QED  BY <2>1, MaxInSet
<1> QED  BY <1>1, <1>2

(* The same for what collectArgs keeps, and for the names in REV:NAME.     *)
RevArgs(args) == {i \in Args(args) : args[i] \in RevWord}

LEMMA KeptFound ==
  ASSUME NEW args, NEW dir, NEW n \in Nat, Args(args) \in SUBSET (1..n)
  PROVE  \/ /\ Best(Kept(args), dir) = NoFile
            /\ \A i \in Args(args) : In(dir, args[i]) \notin Exists
         \/ \E i \in Args(args) :
              /\ Best(Kept(args), dir) = In(dir, args[i])
              /\ In(dir, args[i]) \in Exists
<1>1. DOMAIN Kept(args) = Args(args) /\ \A i \in Args(args) : Kept(args)[i] = args[i]
  BY DEF Kept
<1>2. \/ /\ Best(Kept(args), dir) = NoFile
         /\ \A i \in DOMAIN Kept(args) : In(dir, Kept(args)[i]) \notin Exists
      \/ \E i \in DOMAIN Kept(args) :
           /\ Best(Kept(args), dir) = In(dir, Kept(args)[i])
           /\ In(dir, Kept(args)[i]) \in Exists
  BY <1>1, BestFound
<1> QED  BY <1>1, <1>2

LEMMA TailsFound ==
  ASSUME NEW args, NEW dir, NEW n \in Nat, Args(args) \in SUBSET (1..n)
  PROVE  LET tails == [i \in RevArgs(args) |-> NameIn[args[i]]] IN
         \/ /\ Best(tails, dir) = NoFile
            /\ \A i \in RevArgs(args) : In(dir, NameIn[args[i]]) \notin Exists
         \/ \E i \in RevArgs(args) :
              /\ Best(tails, dir) = In(dir, NameIn[args[i]])
              /\ In(dir, NameIn[args[i]]) \in Exists
<1> DEFINE tails == [i \in RevArgs(args) |-> NameIn[args[i]]]
<1>1. /\ DOMAIN tails = RevArgs(args)
      /\ \A i \in RevArgs(args) : tails[i] = NameIn[args[i]]
  OBVIOUS
<1>2. RevArgs(args) \in SUBSET (1..n)
  BY DEF RevArgs
<1> HIDE DEF tails
<1>3. \/ /\ Best(tails, dir) = NoFile
         /\ \A i \in DOMAIN tails : In(dir, tails[i]) \notin Exists
      \/ \E i \in DOMAIN tails :
           /\ Best(tails, dir) = In(dir, tails[i])
           /\ In(dir, tails[i]) \in Exists
  BY <1>1, <1>2, BestFound
<1>4. \/ /\ Best(tails, dir) = NoFile
         /\ \A i \in RevArgs(args) : In(dir, NameIn[args[i]]) \notin Exists
      \/ \E i \in RevArgs(args) :
           /\ Best(tails, dir) = In(dir, NameIn[args[i]])
           /\ In(dir, NameIn[args[i]]) \in Exists
  BY <1>1, <1>3
<1> QED  BY <1>4 DEF tails

(* With a target after every redirection, and no redirection after one,    *)
(* the tokens that are skipped are those after a redirection.              *)
Redirection == {">", ">>"}

LEMMA TargetsFollow ==
  ASSUME NEW args \in Seq(STRING),
         \A i \in 1..Len(args) : args[i] \in Redirection /\ i < Len(args)
           => args[i + 1] \notin Redirection
  PROVE  Target(args) =
           {i \in DOMAIN args : i > 1 /\ args[i - 1] \in Redirection}
<1> DEFINE n == Len(args)
           After(i) == i > 1 /\ args[i - 1] \in Redirection
           Is(f) == f = [i \in 0..n |->
                           i > 1 /\ args[i - 1] \in Redirection /\ ~f[i - 1]]
           skip == CHOOSE f : Is(f)
           g == [i \in 0..n |-> After(i)]
<1>1. n \in Nat /\ DOMAIN args = 1..n
  OBVIOUS
<1>2. \A i \in 0..n : i > 1 /\ args[i - 1] \in Redirection => ~After(i - 1)
  <2> SUFFICES ASSUME NEW i \in 0..n, i > 1, args[i - 1] \in Redirection,
                      i - 1 > 1, args[i - 2] \in Redirection
               PROVE  FALSE
    BY <1>1
  <2>1. i - 2 \in 1..Len(args) /\ i - 2 < Len(args) /\ (i - 2) + 1 = i - 1
    BY <1>1
  <2> QED  BY <2>1
<1>3. Is(g)
  <2>1. \A i \in 0..n : i > 1 => i - 1 \in 0..n
    BY <1>1
  <2> HIDE DEF n
  <2> QED  BY <1>2, <2>1
<1>4. Is(skip)
  BY <1>3
<1>5. \A i \in 1..n : skip[i] <=> After(i)
  <2> SUFFICES ASSUME NEW i \in 1..n PROVE skip[i] <=> After(i)
    OBVIOUS
  <2>1. i \in 0..n /\ (i > 1 => i - 1 \in 0..n)
    BY <1>1
  <2> HIDE DEF skip
  <2>2. skip[i] <=> i > 1 /\ args[i - 1] \in Redirection /\ ~skip[i - 1]
    BY <1>4, <2>1
  <2>3. i > 1 => (skip[i - 1] => After(i - 1))
    BY <1>4, <2>1
  <2> QED  BY <1>2, <2>1, <2>2, <2>3
<1>6. Target(args) = {i \in DOMAIN args : skip[i]}
  BY DEF Target, Redirection
<1> HIDE DEF skip
<1> QED  BY <1>1, <1>5, <1>6

(* What collectArgs keeps of the tokens from the n-th on.                  *)
Words(seg, n) ==
  {seg[j] : j \in {k \in n..Len(seg) : /\ IsWord(seg, k)
                                      /\ seg[k - 1] \notin Redirection}}

LEMMA ArgsAreWords ==
  ASSUME NEW seg \in Seq(STRING), PlainSegment(seg),
         NEW n \in {1, 2}, NEW first, first = n + 1,
         NEW args \in Seq(STRING),
         Len(seg) = Len(args) + n, seg[n] \notin Redirection,
         \A i \in 1..Len(args) : args[i] = seg[i + n]
  PROVE  /\ Args(args) \in SUBSET (1..Len(args))
         /\ {args[i] : i \in Args(args)} = Words(seg, first)
<1>1. /\ Len(args) \in Nat /\ DOMAIN args = 1..Len(args)
      /\ Len(seg) \in Nat /\ DOMAIN seg = 1..Len(seg)
  OBVIOUS
<1>2. ASSUME NEW i \in 1..Len(args), args[i] \in Redirection, i < Len(args)
      PROVE  args[i + 1] \notin Redirection
  <2>1. i + n \in DOMAIN seg /\ i + 1 \in 1..Len(args) /\ (i + 1) + n = (i + n) + 1
    BY <1>1, <1>2
  <2>2. seg[(i + n) + 1] \notin Redirection
    BY <1>2, <2>1 DEF PlainSegment, IsWord, Redirection
  <2> QED  BY <2>1, <2>2
<1>3. Target(args) = {i \in DOMAIN args : i > 1 /\ args[i - 1] \in Redirection}
  BY <1>2, TargetsFollow
<1>4. ASSUME NEW i \in 1..Len(args)
      PROVE  i \in Args(args) <=>
               IsWord(seg, i + n) /\ seg[(i + n) - 1] \notin Redirection
  <2>1. args[i] = seg[i + n]
    OBVIOUS
  <2>2. i \in Target(args) <=> seg[(i + n) - 1] \in Redirection
    <3>1. CASE i = 1
      <4>1. (i + n) - 1 = n
        BY <3>1
      <4> QED  BY <1>1, <1>3, <3>1, <4>1
    <3>2. CASE i > 1
      <4>1. i - 1 \in 1..Len(args) /\ (i - 1) + n = (i + n) - 1
        BY <1>1, <3>2
      <4>2. args[i - 1] = seg[(i + n) - 1]
        BY <4>1
      <4> QED  BY <1>1, <1>3, <3>2, <4>2
    <3> QED  BY <1>1, <3>1, <3>2
  <2> QED  BY <1>1, <2>1, <2>2 DEF Args, IsWord, Redirection
<1>5. Args(args) \in SUBSET (1..Len(args))
  BY <1>1 DEF Args
<1> DEFINE ops == {k \in first..Len(seg) :
                     IsWord(seg, k) /\ seg[k - 1] \notin Redirection}
<1>6. ASSUME NEW i \in Args(args) PROVE i + n \in ops /\ args[i] = seg[i + n]
  BY <1>1, <1>4, <1>5
<1>7. ASSUME NEW j \in ops
      PROVE  j - n \in Args(args) /\ args[j - n] = seg[j]
  <2>1. j - n \in 1..Len(args) /\ (j - n) + n = j
    BY <1>1
  <2>2. /\ IsWord(seg, (j - n) + n)
        /\ seg[((j - n) + n) - 1] \notin Redirection
    BY <2>1
  <2>3. j - n \in Args(args)
    BY <1>4, <2>1, <2>2
  <2>4. args[j - n] = seg[(j - n) + n]
    BY <2>1
  <2> QED  BY <2>1, <2>3, <2>4
<1> HIDE DEF ops
<1>8. {args[i] : i \in Args(args)} = {seg[j] : j \in ops}
  <2>1. \A i \in Args(args) : \E j \in ops : args[i] = seg[j]
    BY <1>6
  <2>2. \A j \in ops : \E i \in Args(args) : args[i] = seg[j]
    BY <1>7
  <2> QED  BY <2>1, <2>2
<1> QED  BY <1>5, <1>8, Zenon DEF ops, Words

(* Of a plain segment these are the words that are read.                   *)
LEMMA WordsAreRead ==
  ASSUME NEW seg \in Seq(STRING), PlainSegment(seg)
  PROVE  /\ seg[1] = "git" => Words(seg, 3) = Operands(seg)
         /\ seg[1] # "git" =>
              Words(seg, 2) = IF seg[1] \in Writer \/ Operands(seg) = {}
                              THEN InputsFrom(seg, 2) ELSE Operands(seg)
<1>1. Len(seg) \in Nat /\ DOMAIN seg = 1..Len(seg)
  OBVIOUS
<1>2. ASSUME NEW n \in {2, 3}
      PROVE  Words(seg, n) = OperandsFrom(seg, n) \cup InputsFrom(seg, n)
  <2>1. ASSUME NEW j \in n..Len(seg), seg[j - 1] \notin Redirection
        PROVE  seg[j - 1] \notin {">", ">>", "<"} \/ seg[j - 1] = "<"
    BY <2>1 DEF Redirection
  <2>2. ASSUME NEW j \in n..Len(seg),
               seg[j - 1] \notin {">", ">>", "<"} \/ seg[j - 1] = "<"
        PROVE  seg[j - 1] \notin Redirection
    BY <2>2 DEF Redirection
  <2> QED  BY <2>1, <2>2 DEF Words, OperandsFrom, InputsFrom
<1>3. ASSUME NEW n \in {2, 3}, InputsFrom(seg, n) # {}
      PROVE  seg[1] # "git" /\ Operands(seg) = {}
  <2>1. PICK j \in n..Len(seg) : seg[j - 1] = "<"
    BY <1>3 DEF InputsFrom
  <2>2. j - 1 \in DOMAIN seg
    BY <1>1
  <2> QED  BY <2>1, <2>2 DEF PlainSegment
<1>4. CASE seg[1] = "git"
  <2>1. Operands(seg) = OperandsFrom(seg, 3)
    BY <1>4 DEF Operands
  <2> QED  BY <1>2, <1>3, <1>4, <2>1
<1>5. CASE seg[1] # "git"
  <2>1. Operands(seg) = OperandsFrom(seg, 2)
    BY <1>5 DEF Operands
  <2>2. seg[1] \in Writer => Operands(seg) = {}
    <3>1. CASE Len(seg) > 0
      BY <3>1 DEF PlainSegment
    <3>2. CASE Len(seg) = 0
      BY <2>1, <3>2 DEF OperandsFrom
    <3> QED  BY <1>1, <3>1, <3>2
  <2> QED  BY <1>2, <1>3, <1>5, <2>1, <2>2
<1> QED  BY <1>4, <1>5

(* The file of a segment is one that its command reads, and there is one   *)
(* if its command reads any.                                               *)
LEMMA SegmentFileIsRead ==
  ASSUME NEW seg \in Seq(STRING), PlainSegment(seg), NEW dir
  PROVE  IF SegmentReads(seg, dir) = {} THEN SegmentFile(seg, dir) = NoFile
         ELSE /\ SegmentFile(seg, dir) \in SegmentReads(seg, dir)
              /\ SegmentFile(seg, dir) # NoFile
<1> DEFINE isGit == seg[1] = "git"
           first == IF isGit THEN 3 ELSE 2
           words == Words(seg, first)
           names == words \cup {NameIn[w] : w \in words \cap RevWord}
           reads == {In(dir, w) : w \in (IF isGit THEN names ELSE words)} \cap Exists
<1>1. SegmentReads(seg, dir) =
        IF seg[1] \in Reader \/ (isGit /\ Len(seg) > 2 /\ seg[2] \in GitReader)
        THEN reads ELSE {}
  <2> DEFINE given == Operands(seg)
             read == IF isGit
                     THEN given \cup {NameIn[w] : w \in given \cap RevWord}
                     ELSE IF seg[1] \in Writer \/ given = {}
                     THEN InputsFrom(seg, 2) ELSE given
  <2>1. SegmentReads(seg, dir) =
          IF seg[1] \in Reader \/ (isGit /\ Len(seg) > 2 /\ seg[2] \in GitReader)
          THEN {In(dir, w) : w \in read} \cap Exists ELSE {}
    BY DEF SegmentReads
  <2>2. read = IF isGit THEN names ELSE words
    BY WordsAreRead
  <2> HIDE DEF given, read, names, words
  <2> QED  BY <2>1, <2>2
<1>2. Len(seg) \in Nat /\ DOMAIN seg = 1..Len(seg)
  OBVIOUS
<1>3. CASE Len(seg) < 2
  <2>1. words = {}
    BY <1>2, <1>3 DEF Words
  <2>2. reads = {}
    BY <2>1
  <2>3. SegmentFile(seg, dir) = NoFile
    BY <1>3 DEF SegmentFile
  <2> QED  BY <1>1, <2>2, <2>3
<1>4. CASE Len(seg) >= 2 /\ isGit /\ Len(seg) > 2 /\ seg[2] \in GitReader
  <2> DEFINE args == SubSeq(seg, 3, Len(seg))
             revs == RevArgs(args)
             tail == [i \in RevArgs(args) |-> NameIn[args[i]]]
             kept == Kept(args)
  <2>1. /\ args \in Seq(STRING) /\ Len(seg) = Len(args) + 2
        /\ \A i \in 1..Len(args) : args[i] = seg[i + 2]
    BY <1>2, <1>4
  <2>2. seg[2] \notin Redirection
    BY <1>4, ToolInputAssumption DEF Redirection
  <2> HIDE DEF args
  <2>3. /\ Args(args) \in SUBSET (1..Len(args)) /\ Len(args) \in Nat
        /\ {args[i] : i \in Args(args)} = words
    <3>1. words = Words(seg, 3)
      BY <1>4
    <3>2. /\ Args(args) \in SUBSET (1..Len(args))
          /\ {args[i] : i \in Args(args)} = Words(seg, 3)
      BY <2>1, <2>2, ArgsAreWords
    <3> HIDE DEF words
    <3>3. Len(args) \in Nat
      BY <2>1
    <3> QED  BY <3>1, <3>2, <3>3, Zenon
  <2>4. SegmentFile(seg, dir) =
          IF Best(tail, dir) # NoFile THEN Best(tail, dir) ELSE Best(kept, dir)
    <3>1. SegmentFile(seg, dir) = GitBest(args, dir)
      BY <1>2, <1>4 DEF SegmentFile, args
    <3> QED  BY <3>1 DEF GitBest, RevArgs
  <2>5. \/ /\ Best(tail, dir) = NoFile
           /\ \A i \in revs : In(dir, NameIn[args[i]]) \notin Exists
        \/ \E i \in revs : /\ Best(tail, dir) = In(dir, NameIn[args[i]])
                           /\ In(dir, NameIn[args[i]]) \in Exists
    BY <2>3, TailsFound
  <2>6. \/ /\ Best(kept, dir) = NoFile
           /\ \A i \in Args(args) : In(dir, args[i]) \notin Exists
        \/ \E i \in Args(args) : /\ Best(kept, dir) = In(dir, args[i])
                                 /\ In(dir, args[i]) \in Exists
    BY <2>3, KeptFound
  <2> HIDE DEF words, tail, kept
  <2>7. ASSUME NEW i \in revs PROVE NameIn[args[i]] \in names
    BY <2>3, <2>7 DEF RevArgs
  <2>8. ASSUME NEW i \in Args(args) PROVE args[i] \in names
    BY <2>3, <2>8
  <2>9. ASSUME NEW w \in names
        PROVE  \/ \E i \in Args(args) : w = args[i]
               \/ \E i \in revs : w = NameIn[args[i]]
    BY <2>3, <2>9 DEF RevArgs
  <2>10. reads = {In(dir, w) : w \in names} \cap Exists
    BY <1>4
  <2> HIDE DEF revs, names, reads
  <2>11. SegmentReads(seg, dir) = reads
    BY <1>1, <1>4
  <2>12. CASE Best(tail, dir) # NoFile
    <3>1. PICK i \in revs : /\ Best(tail, dir) = In(dir, NameIn[args[i]])
                            /\ In(dir, NameIn[args[i]]) \in Exists
      BY <2>5, <2>12
    <3> QED  BY <2>4, <2>7, <2>10, <2>11, <2>12, <3>1
  <2>13. CASE Best(tail, dir) = NoFile /\ Best(kept, dir) # NoFile
    <3>1. PICK i \in Args(args) : /\ Best(kept, dir) = In(dir, args[i])
                                  /\ In(dir, args[i]) \in Exists
      BY <2>6, <2>13
    <3> QED  BY <2>4, <2>8, <2>10, <2>11, <2>13, <3>1
  <2>14. CASE Best(tail, dir) = NoFile /\ Best(kept, dir) = NoFile
    <3>1. \A w \in names : In(dir, w) \notin Exists
      BY <2>5, <2>6, <2>9, <2>14, NoFileIsMissing
    <3> QED  BY <2>4, <2>10, <2>11, <2>14, <3>1
  <2> QED  BY <2>12, <2>13, <2>14
<1>5. CASE Len(seg) >= 2 /\ ~isGit /\ seg[1] \in Reader
  <2> DEFINE args == Tail(seg)
             kept == Kept(args)
  <2>1. /\ args \in Seq(STRING) /\ Len(seg) = Len(args) + 1
        /\ \A i \in 1..Len(args) : args[i] = seg[i + 1]
    BY <1>2, <1>5
  <2>2. seg[1] \notin Redirection
    BY <1>5, ToolInputAssumption DEF Redirection
  <2> HIDE DEF args
  <2>3. /\ Args(args) \in SUBSET (1..Len(args)) /\ Len(args) \in Nat
        /\ {args[i] : i \in Args(args)} = words
    <3>1. words = Words(seg, 2)
      BY <1>5
    <3>2. /\ Args(args) \in SUBSET (1..Len(args))
          /\ {args[i] : i \in Args(args)} = Words(seg, 2)
      BY <2>1, <2>2, ArgsAreWords
    <3> HIDE DEF words
    <3>3. Len(args) \in Nat
      BY <2>1
    <3> QED  BY <3>1, <3>2, <3>3, Zenon
  <2>4. SegmentFile(seg, dir) = Best(kept, dir)
    BY <1>2, <1>5 DEF SegmentFile, args
  <2>5. \/ /\ Best(kept, dir) = NoFile
           /\ \A i \in Args(args) : In(dir, args[i]) \notin Exists
        \/ \E i \in Args(args) : /\ Best(kept, dir) = In(dir, args[i])
                                 /\ In(dir, args[i]) \in Exists
    BY <2>3, KeptFound
  <2>6. reads = {In(dir, w) : w \in words} \cap Exists
    BY <1>5
  <2> HIDE DEF words, reads, kept
  <2>7. SegmentReads(seg, dir) = reads
    BY <1>1, <1>5
  <2>8. CASE Best(kept, dir) # NoFile
    <3>1. PICK i \in Args(args) : /\ Best(kept, dir) = In(dir, args[i])
                                  /\ In(dir, args[i]) \in Exists
      BY <2>5, <2>8
    <3> QED  BY <2>3, <2>4, <2>6, <2>7, <2>8, <3>1
  <2>9. CASE Best(kept, dir) = NoFile
    <3>1. \A w \in words : In(dir, w) \notin Exists
      BY <2>3, <2>5, <2>9, NoFileIsMissing
    <3> QED  BY <2>4, <2>6, <2>7, <2>9, <3>1
  <2> QED  BY <2>8, <2>9
<1>6. CASE /\ Len(seg) >= 2
           /\ ~(isGit /\ Len(seg) > 2 /\ seg[2] \in GitReader)
           /\ ~(~isGit /\ seg[1] \in Reader)
  <2>1. SegmentFile(seg, dir) = NoFile
    BY <1>2, <1>6 DEF SegmentFile
  <2>2. SegmentReads(seg, dir) = {}
    <3> HIDE DEF reads
    <3> QED  BY <1>1, <1>6, ToolInputAssumption
  <2> QED  BY <2>1, <2>2
<1> QED  BY <1>2, <1>3, <1>4, <1>5, <1>6

LEMMA ShortLength ==
  ASSUME NEW s \in Seq(STRING), Len(s) <= 1
  PROVE  Len(s) \in {0, 1}
<1>1. Len(s) \in Nat
  OBVIOUS
<1>2. \A n \in Nat : n <= 1 => n \in {0, 1}
  OBVIOUS
<1> QED  BY <1>1, <1>2

(* cd leads at most once from where the command line is started.           *)
LEMMA ShellDirIs ==
  ASSUME NEW cmd, NEW cwd, {cmd.outer, cmd.inner} \subseteq Seq(STRING),
         Len(cmd.outer \o cmd.inner) <= 1
  PROVE  LET base == IF cwd = NoDir THEN HookDir ELSE cwd
             cds  == cmd.outer \o cmd.inner
         IN  ShellDir(cmd, cwd) = IF Len(cds) = 0 THEN base ELSE Enter(base, cds[1])
<1> DEFINE base == IF cwd = NoDir THEN HookDir ELSE cwd
           cds  == cmd.outer \o cmd.inner
           Is(f) == f = [n \in 0..Len(cds) |->
                           IF n = 0 THEN base ELSE Enter(f[n - 1], cds[n])]
           dir == CHOOSE f : Is(f)
           g == [n \in 0..Len(cds) |-> IF n = 0 THEN base ELSE Enter(base, cds[1])]
<1>1. cds \in Seq(STRING) /\ Len(cds) \in {0, 1}
  <2>1. cmd.outer \in Seq(STRING) /\ cmd.inner \in Seq(STRING)
    OBVIOUS
  <2>2. cds \in Seq(STRING)
    BY <2>1
  <2> HIDE DEF cds
  <2> QED  BY <2>2, ShortLength DEF cds
<1>2. ShellDir(cmd, cwd) = dir[Len(cds)]
  BY DEF ShellDir
<1> HIDE DEF base, cds
<1>3. Is(g)
  BY <1>1
<1>4. Is(dir)
  BY <1>3
<1> HIDE DEF dir
<1>5. /\ dir[0] = base
      /\ Len(cds) = 1 => dir[1] = Enter(dir[0], cds[1])
  BY <1>1, <1>4
<1>6. dir[Len(cds)] = IF Len(cds) = 0 THEN base ELSE Enter(base, cds[1])
  BY <1>1, <1>5
<1> QED  BY <1>2, <1>6 DEF base, cds

(* The first segment with a file decides for the command line, unless a    *)
(* shell is left, which is no reader.                                      *)
LEMMA BashFileFound ==
  ASSUME NEW cmd, NEW cwd, cmd.shells \in Nat, cmd.pipe \in Seq(Seq(STRING)),
         {cmd.outer, cmd.inner} \subseteq Seq(STRING), Plain(cmd)
  PROVE  LET reads == ShellReads(cmd, cwd)
             file  == BashFile(cmd, cwd)
         IN  /\ file # NoFile => file \in reads
             /\ reads # {} /\ ShellInFront(cmd) => file # NoFile
<1> DEFINE dir == ShellDir(cmd, cwd)
           pipe == cmd.pipe
           file(i) == SegmentFile(pipe[i], dir)
           found == {i \in DOMAIN pipe : file(i) # NoFile}
           reads == ShellReads(cmd, cwd)
<1>1. CASE ShellLeft(cmd)
  <2> DEFINE shell == <<"bash", "-lc", "...">>
  <2>1. Segments(cmd) = <<shell>>
    BY <1>1 DEF Segments
  <2>2. \A d : SegmentFile(shell, d) = NoFile
    BY ToolInputAssumption DEF SegmentFile
  <2> HIDE DEF shell
  <2>3. \A i \in DOMAIN Segments(cmd) :
          SegmentFile(Segments(cmd)[i], CommandDir(cmd, cwd)) = NoFile
    <3>1. \A i \in DOMAIN <<shell>> : <<shell>>[i] = shell
      OBVIOUS
    <3> QED  BY <2>1, <2>2, <3>1
  <2>4. {i \in DOMAIN Segments(cmd) :
           SegmentFile(Segments(cmd)[i], CommandDir(cmd, cwd)) # NoFile} = {}
    BY <2>3
  <2>5. BashFile(cmd, cwd) = NoFile
    BY <2>4 DEF BashFile
  <2>6. ~ShellInFront(cmd)
    BY <1>1 DEF ShellLeft, ShellInFront
  <2> QED  BY <2>5, <2>6
<1>2. CASE ~ShellLeft(cmd)
  <2>1. Cds(cmd) = cmd.outer \o cmd.inner /\ ~(Len(Cds(cmd)) > 1)
    <3> DEFINE cds == cmd.outer \o cmd.inner
    <3>1. cmd.outer \in Seq(STRING) /\ cmd.inner \in Seq(STRING)
      OBVIOUS
    <3>2. cds \in Seq(STRING)
      BY <3>1
    <3>3. Len(cds) <= 1
      BY DEF Plain
    <3>4. Cds(cmd) = cds
      BY <1>2 DEF Cds
    <3> HIDE DEF cds
    <3>5. Len(cds) \in Nat
      BY <3>2
    <3>6. ~(Len(cds) > 1)
      BY <3>3, <3>5
    <3> QED  BY <3>4, <3>6 DEF cds
  <2>2. Segments(cmd) = pipe
    <3>1. Segments(cmd) = [i \in DOMAIN cmd.pipe |-> cmd.pipe[i]]
      BY <1>2, <2>1 DEF Segments
    <3> QED  BY <3>1
  <2>3. CommandDir(cmd, cwd) = dir
    BY <2>1, ShellDirIs DEF CommandDir, Plain
  <2>4. reads = UNION {SegmentReads(pipe[i], dir) : i \in DOMAIN pipe}
    BY DEF ShellReads
  <2>5. BashFile(cmd, cwd) = IF found = {} THEN NoFile ELSE file(Min(found))
    BY <2>2, <2>3 DEF BashFile
  <2>6. ASSUME NEW i \in DOMAIN pipe
        PROVE  IF SegmentReads(pipe[i], dir) = {} THEN file(i) = NoFile
               ELSE file(i) \in SegmentReads(pipe[i], dir) /\ file(i) # NoFile
    <3>1. pipe[i] \in Seq(STRING) /\ PlainSegment(pipe[i])
      BY DEF Plain
    <3> HIDE DEF dir, pipe
    <3> QED  BY <3>1, SegmentFileIsRead
  <2>7. /\ Len(pipe) \in Nat /\ found \in SUBSET (1..Len(pipe))
        /\ found \subseteq DOMAIN pipe
    OBVIOUS
  <2> HIDE DEF dir, pipe, reads
  <2>8. CASE found = {}
    <3>1. \A i \in DOMAIN pipe : SegmentReads(pipe[i], dir) = {}
      BY <2>6, <2>8
    <3>2. reads = {}
      BY <2>4, <3>1
    <3> QED  BY <2>5, <2>8, <3>2 DEF reads
  <2>9. CASE found # {}
    <3> HIDE DEF found
    <3>1. Min(found) \in found
      BY <2>7, <2>9, MinInSet
    <3>2. Min(found) \in DOMAIN pipe /\ file(Min(found)) # NoFile
      BY <3>1 DEF found
    <3>3. file(Min(found)) \in SegmentReads(pipe[Min(found)], dir)
      BY <2>6, <3>2
    <3>4. file(Min(found)) \in reads
      BY <2>4, <3>2, <3>3
    <3> QED  BY <2>5, <2>9, <3>2, <3>4 DEF reads
  <2> QED  BY <2>8, <2>9
<1> QED  BY <1>1, <1>2

-----------------------------------------------------------------------------
(* Of two reads of a file with a name and a directory.                     *)
LEMMA AsIntTells ==
  ASSUME NEW m \in Numbers \cup {NoNumber}, NEW n \in Numbers \cup {NoNumber}
  PROVE  /\ AsInt(m) \in Shown
         /\ AsInt(m) = AsInt(n) => m = n \/ {m, n} \subseteq {NoNumber, 0}
  BY DEF AsInt, Shown

IsFile(f) == f \in (Dir \cup {NoDir}) \X Name

LEMMA RangedTells ==
  ASSUME NEW x \in Name, NEW j \in Shown, NEW k \in Shown,
         NEW y \in Name, NEW m \in Shown, NEW n \in Shown,
         Ranged(x, j, k) = Ranged(y, m, n)
  PROVE  x = y /\ j = m /\ k = n
  BY ToolInputAssumption

LEMMA ReadFile ==
  ASSUME NEW in \in ToolCalls, in.tool = "Read"
  PROVE  IsFile(ToolFile(in))
<1>1. ToolFile(in) = In(in.cwd, in.word)
  BY DEF ToolFile
<1>2. in.cwd \in Dir \cup {NoDir} /\ in.word \in Name \cup DOMAIN Absolute
  BY CommandLineAssumption
<1> QED  BY <1>1, <1>2, ToolInputAssumption DEF In, IsFile

(* One key of two reads: one file and the same lines, or a file whose name *)
(* is that of another with a range.                                        *)
Unranged(in) == in.offset = NoNumber /\ in.limit = NoNumber

LEMMA KeyTells ==
  ASSUME NEW a, {a.offset, a.limit} \subseteq Numbers \cup {NoNumber},
         NEW b, {b.offset, b.limit} \subseteq Numbers \cup {NoNumber},
         NEW f, IsFile(f), NEW g, IsFile(g), Key(a, f) = Key(b, g)
  PROVE  \/ /\ f = g
            /\ a.offset = b.offset \/ {a.offset, b.offset} \subseteq {NoNumber, 0}
            /\ a.limit = b.limit \/ {a.limit, b.limit} \subseteq {NoNumber, 0}
         \/ EndsInRange(f) \/ EndsInRange(g)
<1>1. /\ AsInt(a.offset) \in Shown /\ AsInt(a.limit) \in Shown
      /\ AsInt(b.offset) \in Shown /\ AsInt(b.limit) \in Shown
  BY AsIntTells
<1>2. /\ f = <<f[1], f[2]>> /\ f[2] \in Name
      /\ g = <<g[1], g[2]>> /\ g[2] \in Name
  BY DEF IsFile
<1>3. CASE Unranged(a) /\ Unranged(b)
  BY <1>3 DEF Unranged, Key
<1>4. CASE Unranged(a) /\ ~Unranged(b)
  <2>1. f = <<g[1], Ranged(g[2], AsInt(b.offset), AsInt(b.limit))>>
    BY <1>4 DEF Unranged, Key
  <2>2. f[2] = Ranged(g[2], AsInt(b.offset), AsInt(b.limit))
    BY <2>1
  <2> QED  BY <1>1, <1>2, <2>2 DEF EndsInRange
<1>5. CASE ~Unranged(a) /\ Unranged(b)
  <2>1. g = <<f[1], Ranged(f[2], AsInt(a.offset), AsInt(a.limit))>>
    BY <1>5 DEF Unranged, Key
  <2>2. g[2] = Ranged(f[2], AsInt(a.offset), AsInt(a.limit))
    BY <2>1
  <2> QED  BY <1>1, <1>2, <2>2 DEF EndsInRange
<1>6. CASE ~Unranged(a) /\ ~Unranged(b)
  <2>1. <<f[1], Ranged(f[2], AsInt(a.offset), AsInt(a.limit))>> =
          <<g[1], Ranged(g[2], AsInt(b.offset), AsInt(b.limit))>>
    BY <1>6 DEF Unranged, Key
  <2>2. /\ f[1] = g[1]
        /\ Ranged(f[2], AsInt(a.offset), AsInt(a.limit)) =
             Ranged(g[2], AsInt(b.offset), AsInt(b.limit))
    BY <2>1
  <2>3. /\ f[2] = g[2]
        /\ AsInt(a.offset) = AsInt(b.offset) /\ AsInt(a.limit) = AsInt(b.limit)
    BY <1>1, <1>2, <2>2, RangedTells
  <2>4. f = g
    BY <1>2, <2>2, <2>3
  <2> QED  BY <2>3, <2>4, AsIntTells
<1> QED  BY <1>3, <1>4, <1>5, <1>6

(* The key of a call that is looked at, and none of one that is not.       *)
Tracked(filter, file) ==
  file \notin filter.bypass /\ TrackedByPolicy(filter, file)

LEMMA HookKeyIs ==
  ASSUME NEW in, in.session, NEW filter
  PROVE  /\ HookKey(in, filter) # NoFile => HookKey(in, filter) = ToolKey(in)
         /\ HookKey(in, filter) =
              IF ToolFile(in) # NoFile /\ Tracked(filter, ToolFile(in))
              THEN ToolKey(in) ELSE NoFile
  BY DEF HookKey, Tracked

LEMMA KeysTold ==
  ASSUME NEW a \in ToolCalls, a.tool = "Read",
         NEW b \in ToolCalls, ToolKey(a) = ToolKey(b)
  PROVE  \/ Asked(a) = Asked(b)
         \/ EndsInRange(ToolFile(a)) \/ EndsInRange(ToolFile(b))
<1> DEFINE f == ToolFile(a)
           g == ToolFile(b)
<1>1. IsFile(f) /\ ToolKey(a) = Key(a, f)
  BY ReadFile DEF ToolKey
<1>2. /\ {a.offset, a.limit} \subseteq Numbers \cup {NoNumber}
      /\ {b.offset, b.limit} \subseteq Numbers \cup {NoNumber}
  BY CommandLineAssumption
<1>3. CASE b.tool = "Read"
  <2>1. IsFile(g) /\ ToolKey(b) = Key(b, g)
    BY <1>3, ReadFile DEF ToolKey
  <2> HIDE DEF f, g
  <2>2. \/ /\ f = g
           /\ a.offset = b.offset \/ {a.offset, b.offset} \subseteq {NoNumber, 0}
           /\ a.limit = b.limit \/ {a.limit, b.limit} \subseteq {NoNumber, 0}
        \/ EndsInRange(f) \/ EndsInRange(g)
    BY <1>1, <1>2, <2>1, KeyTells
  <2>3. Asked(a) = <<f, IF a.offset \in {NoNumber, 0} THEN 1 ELSE a.offset,
                     {a.limit} \ {NoNumber, 0}>>
    BY DEF Asked, f
  <2>4. Asked(b) = <<g, IF b.offset \in {NoNumber, 0} THEN 1 ELSE b.offset,
                     {b.limit} \ {NoNumber, 0}>>
    BY <1>3 DEF Asked, g
  <2>5. {a.limit, b.limit} \subseteq {NoNumber, 0} =>
          {a.limit} \ {NoNumber, 0} = {b.limit} \ {NoNumber, 0}
    OBVIOUS
  <2>6. Asked(a) = Asked(b) \/ EndsInRange(f) \/ EndsInRange(g)
    BY <2>2, <2>3, <2>4, <2>5
  <2> QED  BY <2>6 DEF f, g
<1>4. CASE b.tool # "Read"
  <2>1. ToolKey(b) = g /\ Asked(b) = <<g, 1, {}>>
    BY <1>4 DEF ToolKey, Asked
  <2> HIDE DEF g
  <2>2. CASE Unranged(a)
    <3>1. f = g
      BY <1>1, <2>1, <2>2 DEF Key, Unranged
    <3>2. Asked(a) = <<f, 1, {}>>
      <4>1. a.offset \in {NoNumber, 0} /\ {a.limit} \ {NoNumber, 0} = {}
        BY <2>2 DEF Unranged
      <4> QED  BY <4>1 DEF Asked
    <3> QED  BY <2>1, <3>1, <3>2
  <2>3. CASE ~Unranged(a)
    <3> HIDE DEF f
    <3>1. g = <<f[1], Ranged(f[2], AsInt(a.offset), AsInt(a.limit))>>
      BY <1>1, <2>1, <2>3 DEF Key, Unranged
    <3>2. g[2] = Ranged(f[2], AsInt(a.offset), AsInt(a.limit)) /\ f[2] \in Name
      BY <1>1, <3>1 DEF IsFile
    <3>3. AsInt(a.offset) \in Shown /\ AsInt(a.limit) \in Shown
      BY <1>2, AsIntTells
    <3>4. EndsInRange(g)
      BY <3>2, <3>3 DEF EndsInRange
    <3> QED  BY <3>4 DEF g
  <2> QED  BY <2>2, <2>3
<1> QED  BY <1>3, <1>4

LEMMA SameGivenSameKey ==
  ASSUME NEW a, a.tool = "Read", NEW b,
         ToolFile(a) = ToolFile(b), Given(a) = Given(b)
  PROVE  ToolKey(a) = ToolKey(b)
<1>1. CASE b.tool = "Read"
  BY <1>1 DEF ToolKey, Key, Given
<1>2. CASE b.tool # "Read"
  <2>1. a.offset = NoNumber /\ a.limit = NoNumber
    BY <1>2 DEF Given
  <2> QED  BY <1>2, <2>1 DEF ToolKey, Key
<1> QED  BY <1>1, <1>2

-----------------------------------------------------------------------------
(* The program, with the hooks it is started for, does to the settings     *)
(* what Settings says: so what is proved of them holds of it as well.      *)
LEMMA CommandLineIsSettings == CLSpec => Spec
<1>1. CLInit => Init
  BY DEF CLInit
<1>2. [CLNext]_allvars => [Next]_vars
  BY DEF CLNext, Hook, allvars
<1> QED  BY <1>1, <1>2, PTL DEF CLSpec, Spec

LEMMA CallInvariant == CLSpec => [](call \in ToolCalls \cup {NoCall})
<1> DEFINE Inv == call \in ToolCalls \cup {NoCall}
<1>1. CLInit => Inv
  BY DEF CLInit
<1>2. Inv /\ [CLNext]_allvars => Inv'
  BY DEF CLNext, Hook, allvars
<1> QED  BY <1>1, <1>2, PTL DEF CLSpec

(* Whatever files, directories and readers there are: the file tracked for *)
(* a command line is one that the shell reads for it, in the directory it  *)
(* reads it from, and one is tracked whenever the shell reads any outside  *)
(* a shell that is not at the front (extractBashReadPath).                 *)
THEOREM HookTracksWhatIsRead == CLSpec => []BashFileIsRead
<1>1. call \in ToolCalls \cup {NoCall} => BashFileIsRead
  <2> SUFFICES ASSUME call \in ToolCalls, Plain(call.command)
               PROVE  LET reads == ShellReads(call.command, call.cwd)
                          file  == BashFile(call.command, call.cwd)
                      IN  /\ file # NoFile => file \in reads
                          /\ reads # {} /\ ShellInFront(call.command) =>
                               file # NoFile
    BY DEF BashFileIsRead
  <2>1. /\ call.command.shells \in Nat /\ call.command.pipe \in Seq(Seq(STRING))
        /\ {call.command.outer, call.command.inner} \subseteq Seq(STRING)
    BY CommandLineAssumption
  <2> QED  BY <2>1, BashFileFound
<1> QED  BY <1>1, CallInvariant, PTL

(* Whatever calls the hook is given: two of them have one key only if they *)
(* ask for the same lines of the same file, names that look like ranges    *)
(* apart, and whenever they give the same range of it (parseToolInput).    *)
THEOREM HookKeysTellReads == CLSpec => []SameReadSameKey
<1>1. call \in ToolCalls \cup {NoCall} => SameReadSameKey
  <2> SUFFICES ASSUME call \in ToolCalls, call.tool = "Read", call.session,
                      NEW filter \in Filters, NEW in \in ToolCalls, in.session
               PROVE  LET mine  == HookKey(call, filter)
                          other == HookKey(in, filter)
                      IN  /\ mine # NoFile /\ mine = other =>
                               \/ Asked(call) = Asked(in)
                               \/ EndsInRange(ToolFile(call))
                               \/ EndsInRange(ToolFile(in))
                          /\ ToolFile(call) = ToolFile(in) /\ Given(call) = Given(in)
                               => mine = other
    BY DEF SameReadSameKey
  <2>1. ASSUME HookKey(call, filter) # NoFile,
               HookKey(call, filter) = HookKey(in, filter)
        PROVE  \/ Asked(call) = Asked(in)
               \/ EndsInRange(ToolFile(call)) \/ EndsInRange(ToolFile(in))
    <3>1. ToolKey(call) = ToolKey(in)
      BY <2>1, HookKeyIs
    <3> QED  BY <3>1, KeysTold
  <2>2. ASSUME ToolFile(call) = ToolFile(in), Given(call) = Given(in)
        PROVE  HookKey(call, filter) = HookKey(in, filter)
    <3>1. ToolKey(call) = ToolKey(in)
      BY <2>2, SameGivenSameKey
    <3> QED  BY <2>2, <3>1, HookKeyIs
  <2> QED  BY <2>1, <2>2
<1> QED  BY <1>1, CallInvariant, PTL

(* The hook that install registers works for the client it is registered   *)
(* with and in the directory it was installed to, started outside the      *)
(* clients' own directories (loadAppConfig, detectDefaultClient).          *)
THEOREM HookWorksForClient == CLSpec => []HookFindsClient
<1>1. TypeOK => HookFindsClient
  <2> SUFFICES ASSUME TypeOK, NEW home \in Homes, NEW kept \in BOOLEAN,
                      home = "" \/ kept
               PROVE  /\ HookClient(kept, home) = client
                      /\ CacheDir(IF kept THEN home ELSE "",
                                  HookClient(kept, home)) = CacheDir(home, client)
    BY DEF HookFindsClient
  <2>1. client \in {"claude", "codex", "opencode"}
    BY SettingsAssumption DEF TypeOK
  <2>2. HookClient(kept, home) = client
    BY <2>1 DEF HookClient, AppClient, CacheDir, DetectClient
  <2> QED  BY <2>2
<1> QED  BY <1>1, CommandLineIsSettings, SettingsTypeCorrect, PTL
=============================================================================
