---------------------------- MODULE AppendOrSkip ----------------------------
(***************************************************************************)
(* What appendJSONLine (cache.go) promises to its callers, whatever other  *)
(* processes append at the same time: the record becomes one line of the   *)
(* file, or the file is left alone.  Only a writer that was stopped in the *)
(* middle of its record makes more trouble: it leaves an unterminated line *)
(* behind, which spoils at most one record of another writer.  The promise *)
(* ends when the lock files are removed by "clear".                        *)
(***************************************************************************)
EXTENDS Integers

CONSTANTS Proc

VARIABLES
  result,   \* how the last append of each process ended
  spoiled,  \* unterminated records that the next line begins with
  cleared   \* lock files were removed

vars == <<result, spoiled, cleared>>

Init ==
  /\ result = [p \in Proc |-> "skipped"]
  /\ spoiled = 0
  /\ cleared = FALSE

Start(p) ==
  /\ result[p] # "none"
  /\ result' = [result EXCEPT ![p] = "none"]
  /\ UNCHANGED spoiled

Ends(p, r) == result[p] = "none" /\ result' = [result EXCEPT ![p] = r]

AppendLine(p) == Ends(p, "line") /\ spoiled = 0 /\ UNCHANGED spoiled

SpoilLine(p) == Ends(p, "spoiled") /\ spoiled > 0 /\ spoiled' = 0

Skip(p) == Ends(p, "skipped") /\ UNCHANGED spoiled

Fail(p) == Ends(p, "failed") /\ spoiled' \in {spoiled, spoiled + 1}

Promise ==
  /\ UNCHANGED cleared
  /\ \E p \in Proc :
       Start(p) \/ AppendLine(p) \/ SpoilLine(p) \/ Skip(p) \/ Fail(p)

NoPromise == cleared' = TRUE

Next == Promise \/ NoPromise

Spec == Init /\ [][Next]_vars
=============================================================================
