------------------------------- MODULE MCLock -------------------------------
(***************************************************************************)
(* Small instances of FileLock for TLC.                                    *)
(***************************************************************************)
EXTENDS FileLock

(* An inode for every process, and one for the path.                       *)
ASSUME EnoughInodes == Cardinality(Inode) > Cardinality(Proc)
=============================================================================
