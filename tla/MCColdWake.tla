---------------------------- MODULE MCColdWake ----------------------------
(* ColdWake instantiated for TLC. *)
EXTENDS ColdWake

CONSTANTS m1, m2, t1, r1, r2

Calm == [mail |-> {}, lanes |-> {"turn"}, faults |-> 0, repairs |-> 0, pauses |-> 0,
         settings |-> 0, arms |-> 0, asks |-> 0, crashes |-> 0,
         met |-> {}]

\* A turn asks its owner, whose replies come one after the other.
Asking == [Calm EXCEPT !.mail = {m1, r1, r2}, !.faults = 1, !.repairs = 1, !.asks = 1]

\* A message and a task while calls fail, the soul is paused, the daemon dies.
Failing == [Calm EXCEPT !.mail = {m1, t1}, !.faults = 2, !.repairs = 1, !.pauses = 1, !.crashes = 1]

\* The same mail while the soul's setting changes and a session comes and goes.
Changing == [Calm EXCEPT !.mail = {m1, t1}, !.lanes = Lanes, !.faults = 1, !.pauses = 1,
                         !.settings = 1, !.arms = 1]

MCCourses == {Asking, Failing, Changing}
MergedCourses == {[Calm EXCEPT !.mail = {m1, m2}]}
===========================================================================
