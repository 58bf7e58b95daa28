------------------------ MODULE MCInteractionService ------------------------
(* Instances of InteractionService for TLC. *)
EXTENDS InteractionService

CONSTANTS i1, i2, q1, q2
=============================================================================
