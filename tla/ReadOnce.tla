------------------------------ MODULE ReadOnce ------------------------------
(***************************************************************************)
(* What the hook promises an agent about its reads.  Each read is judged   *)
(* once, for the key it asks for.  It is refused, as "unchanged", only a   *)
(* version that the agent was told about less than Limit before: by a read *)
(* of the same key that let it have that version, or by a refusal, which   *)
(* has such a word before it in turn.  Reads run side by side, and may be  *)
(* over without a verdict.                                                 *)
(***************************************************************************)
EXTENDS Integers

CONSTANTS Reader,     \* reads that may be under way at the same time
          Key,        \* what is read: a file or a range of its lines
          Version,    \* versions of what is read
          Same(_, _), \* two versions cannot be told apart
          Time,       \* moments
          Limit       \* the time a word is good for

VARIABLES
  told,   \* the verdicts so far: of a version of a key, at a time
  read    \* what each reader asks for, and the verdict on it

vars == <<told, read>>

NoRead == [word |-> "none"]

Asked(k) == [word |-> "asked", key |-> k]

Judged(word, k, v) == [word |-> word, key |-> k, version |-> v]

Init ==
  /\ told = {}
  /\ read = [r \in Reader |-> NoRead]

Ask(r) ==
  /\ read[r] = NoRead
  /\ \E k \in Key : read' = [read EXCEPT ![r] = Asked(k)]
  /\ UNCHANGED told

Refusable(k, v, t) ==
  \E w \in told : w.key = k /\ Same(w.version, v) /\ t - w.at < Limit

Judge(r) ==
  \E k \in Key, v \in Version :
    /\ read[r] = Asked(k)
    /\ \E t \in Time :
         /\ told' = told \cup {[key |-> k, version |-> v, at |-> t]}
         /\ \/ read' = [read EXCEPT ![r] = Judged("passed", k, v)]
            \/ /\ Refusable(k, v, t)
               /\ read' = [read EXCEPT ![r] = Judged("refused", k, v)]

End(r) ==
  /\ read[r] # NoRead
  /\ read' = [read EXCEPT ![r] = NoRead]
  /\ UNCHANGED told

Next == \E r \in Reader : Ask(r) \/ Judge(r) \/ End(r)

Spec == Init /\ [][Next]_vars
=============================================================================
