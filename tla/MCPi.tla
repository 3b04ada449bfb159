-------------------------------- MODULE MCPi --------------------------------
(***************************************************************************)
(* Small instances of PiExtension for TLC: one file, read whole or with a  *)
(* range.                                                                  *)
(***************************************************************************)
EXTENDS PiExtension, TLC

TheFile == CHOOSE q \in Path : TRUE

MCPathOf == [k \in Key |-> TheFile]

(* Tool calls are alike, and so are the contents of a file.                *)
Symmetry == Permutations(Slot) \cup Permutations(Content)
=============================================================================
