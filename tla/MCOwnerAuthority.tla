--------------------------- MODULE MCOwnerAuthority ---------------------------
(* OwnerTrust and GrantLedger, instantiated for TLC in one run.            *)
(*                                                                         *)
(* The two share no state, and neither reads the other's: a step of one    *)
(* changes nothing that a step or a property of the other depends on.  So  *)
(* each is explored while the other is as it starts, and the run covers    *)
(* what two runs would.  The fairness is OwnerTrust's.                     *)
EXTENDS OwnerTrust, GrantLedger

CONSTANTS k1, k2, k3, w1, w2, g1, g2, c1, c2, c3

AuthorityInit == Init /\ GrantInit

AuthorityNext ==
  \/ GrantInit /\ Next /\ UNCHANGED grantVars
  \/ Init /\ vouch = k1 /\ GrantNext /\ UNCHANGED vars

AuthoritySpec ==
  /\ AuthorityInit
  /\ [][AuthorityNext]_<<vars, grantVars>>
  /\ WF_vars(Step)
  /\ WF_vars(\E w \in Writer : Reconcile(w))
=============================================================================
