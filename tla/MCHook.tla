------------------------------- MODULE MCHook -------------------------------
(***************************************************************************)
(* Small instances of HookProcess for TLC: one file, read whole or with a  *)
(* range.                                                                  *)
(***************************************************************************)
EXTENDS HookProcess, TLC

TheFile == CHOOSE q \in Path : TRUE

MCPathOf == [k \in Key |-> TheFile]

(* Processes are alike, and so are the contents of a file.                 *)
Symmetry == Permutations(Proc) \cup Permutations(Content)
=============================================================================
