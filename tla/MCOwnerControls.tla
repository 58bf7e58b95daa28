--------------------------- MODULE MCOwnerControls ----------------------------
(* TurnRegistry and DecisionJournal, instantiated for TLC in one run: the  *)
(* switches an owner sets on this host, and the decisions that are to set  *)
(* them from elsewhere.                                                    *)
(*                                                                         *)
(* The two share no state, and neither reads the other's: the journal is   *)
(* not routed to the registry.  So each is explored while the other is as  *)
(* it starts, and the run covers what two runs would.                      *)
EXTENDS TurnRegistry, DecisionJournal, TLC

CONSTANTS w1, w2, t1, s1, s2, click, look, r1, i1, i2, p1

ControlsInit == RegistryInit /\ Init

ControlsNext ==
  \/ Init /\ RegistryNext /\ UNCHANGED vars
  \/ RegistryInit /\ ~paused /\ ~computerUse /\ Next /\ UNCHANGED registryVars

ControlsSpec == ControlsInit /\ [][ControlsNext]_<<registryVars, vars>>

\* Wakes, harness sessions and stores are interchangeable.
Symmetry == Permutations(Wake) \cup Permutations(Session) \cup Permutations(Store)
=============================================================================
