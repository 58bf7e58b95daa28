----------------------------- MODULE MCFileLock -----------------------------
(* FileLock instantiated for TLC: two processes, one path, two inodes. *)
EXTENDS FileLock

CONSTANTS p1, p2, i1, i2
=============================================================================
