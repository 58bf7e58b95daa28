------------------------- MODULE MCCredentialLedger -------------------------
(* CredentialLedger instantiated for TLC. *)
EXTENDS CredentialLedger, TLC

CONSTANTS m1, m2, m3, p1

\* Two mints and a reconcile command while much fails; three mints, of which
\* two settle what the third has left.
MCCourses == {[calls |-> {m1, m2, p1}, faults |-> 3], [calls |-> {m1, m2, m3}, faults |-> 1]}

\* Two mints, and one answer that does not verify.
LostCourses == {[calls |-> {m1, m2}, faults |-> 1]}

Symmetry == Permutations({m1, m2})
=============================================================================
