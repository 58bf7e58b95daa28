----------------------------- MODULE JobService -----------------------------
(***************************************************************************)
(* What the interaction service promises a principal, with no daemon, no   *)
(* writes and no faults: an invocation is accepted once and ends once; a   *)
(* requested cancellation is never forgotten; the event log reports no     *)
(* outcome but the true one; a proposal is decided once; whoever asked is   *)
(* answered once, and with an approval only if that is the decision.       *)
(*                                                                         *)
(* InteractionService implements it: there, one step is a whole handler    *)
(* with its writes, possibly cut by a death of the daemon, so one step     *)
(* here may move any number of records.                                    *)
(***************************************************************************)
CONSTANTS Invocation, Proposal

Outcome == {"completed", "failed", "cancelled"}
Verdict == {"approved", "denied", "expired"}
Phase   == {"absent", "open", "cancelling"} \cup Outcome

VARIABLES
  phase,     \* of each invocation
  report,    \* the outcome the event log shows, or "none"
  verdict,   \* on each proposal, or "none"
  answer     \* what the asker of a proposal was told

vars == <<phase, report, verdict, answer>>

Init ==
  /\ phase = [i \in Invocation |-> "absent"]
  /\ report = [i \in Invocation |-> "none"]
  /\ verdict = [p \in Proposal |-> "none"]
  /\ answer = [p \in Proposal |-> "nothing"]

MayBecome ==
  [from \in Phase |->
    IF from = "absent" THEN {"absent", "open"}
    ELSE IF from = "open" THEN Phase \ {"absent"}
    ELSE IF from = "cancelling" THEN {"cancelling"} \cup Outcome
    ELSE {from}]

Moves ==
  /\ phase' \in [Invocation -> Phase]
  /\ \A i \in Invocation : phase'[i] \in MayBecome[phase[i]]

\* A report names the outcome, and is not taken back.
Reports ==
  /\ report' \in [Invocation -> {"none"} \cup Outcome]
  /\ \A i \in Invocation :
       /\ report'[i] \in {"none", phase'[i]}
       /\ report[i] # "none" => report'[i] = report[i]

Decides ==
  /\ verdict' \in [Proposal -> {"none"} \cup Verdict]
  /\ \A p \in Proposal : verdict[p] # "none" => verdict'[p] = verdict[p]

Answers ==
  /\ answer' \in [Proposal -> {"nothing", "approve", "deny"}]
  /\ \A p \in Proposal :
       /\ answer[p] # "nothing" => answer'[p] = answer[p]
       /\ answer'[p] = "approve" => verdict'[p] = "approved"

Next == Moves /\ Reports /\ Decides /\ Answers

Spec == Init /\ [][Next]_vars
=============================================================================
