--------------------------- MODULE TrustAuthority ----------------------------
(***************************************************************************)
(* What the owner decision trust store (src/identity/                      *)
(* owner-decision-trust.mjs) promises to whoever reads it: at any moment   *)
(* it vouches for no key pair, or for one pair under one chain version.  A *)
(* pair may be withdrawn at any time, for good: what is vouched for next,  *)
(* the same two keys included, has a higher version.  No pair is ever      *)
(* granted in the last version, which is kept for its revocation.          *)
(*                                                                         *)
(* A reader may also be refused for reasons of its own (a busy lock, a     *)
(* daemon's own key in the pair): it then does nothing.                    *)
(*                                                                         *)
(* OwnerTrust implements it file by file; DecisionJournal relies on it.    *)
(***************************************************************************)
EXTENDS Naturals

CONSTANTS Pair,       \* pairs of owner keys: the receipt and the presence key
          Versions,   \* TRUST_LIMITS.versions
          NoPin

ASSUME VersionsAssumption == Versions \in Nat

VARIABLES pin,    \* what a reader of the trust store is told, or NoPin
          used    \* the versions under which a pair has been granted so far

trustVars == <<pin, used>>

Pin == [version : Nat, keys : Pair]

TrustInit == pin = NoPin /\ used = {}

Enroll ==
    /\ pin = NoPin
    /\ \E p \in Pair, v \in 1 .. (Versions - 1) :
          /\ \A u \in used : u < v
          /\ pin' = [version |-> v, keys |-> p]
          /\ used' = used \cup {v}

Withdraw ==
    /\ pin # NoPin
    /\ pin' = NoPin
    /\ UNCHANGED used

TrustNext == Enroll \/ Withdraw

TrustSpec == TrustInit /\ [][TrustNext]_trustVars
=============================================================================
