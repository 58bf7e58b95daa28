-------------------------- MODULE MCDreamScheduler --------------------------
(* Instance of DreamScheduler for TLC. *)
EXTENDS DreamScheduler

CONSTANTS d1, d2, s1, s2
=============================================================================
