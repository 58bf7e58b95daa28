------------------------------ MODULE GrantLedger ------------------------------
(***************************************************************************)
(* Delegation grants (delegation-grants.mjs): a soul asks for one account  *)
(* write, the owner approves that write with keyd's presence prompt, and   *)
(* the daemon spends the grant once.  A grant is a proposal on disk; that  *)
(* it is approved and unspent is known only to the ledger's memory.        *)
(*                                                                         *)
(* A step is what runs between two awaits: the presence prompt, the act's  *)
(* preparation and the act itself.  Requests run side by side.  A spend by *)
(* another soul, or of another operation than the grant's, is refused and  *)
(* changes nothing; neither is a step here.                                *)
(***************************************************************************)
EXTENDS Naturals

CONSTANTS
  Grant,    \* grants souls ask for
  Call,     \* requests to approve or to spend that may run side by side
  NoGrant

ASSUME GrantLedgerAssumption == NoGrant \notin Grant

VARIABLES
  proposal,  \* on disk: each grant's proposal
  lapsed,    \* grants past their expiry time
  approved,  \* in memory: approved grants not yet spent
  call,      \* each request, and the grant it is about
  acts,      \* history: how often each grant's act was begun
  vouched    \* history: grants the owner was present for since the last start

grantVars == <<proposal, lapsed, approved, call, acts, vouched>>

Idle == [at |-> "idle", grant |-> NoGrant]

GrantTypeOK ==
  /\ proposal \in [Grant -> {"none", "open", "approved", "expired"}]
  /\ lapsed \subseteq Grant
  /\ approved \subseteq Grant
  /\ call \in [Call -> [at : {"idle", "presence", "preparing", "acting"}, grant : Grant \cup {NoGrant}]]
  /\ acts \in [Grant -> Nat]
  /\ vouched \subseteq Grant

GrantInit ==
  /\ proposal = [g \in Grant |-> "none"]
  /\ lapsed = {}
  /\ approved = {}
  /\ call = [c \in Call |-> Idle]
  /\ acts = [g \in Grant |-> 0]
  /\ vouched = {}

Begins(c, g, at) ==
  /\ call[c] = Idle
  /\ call' = [call EXCEPT ![c] = [at |-> at, grant |-> g]]

Returns(c) == call' = [call EXCEPT ![c] = Idle]

-----------------------------------------------------------------------------
(* Asking and approving. *)

Request(g) ==
  /\ proposal[g] = "none"
  /\ proposal' = [proposal EXCEPT ![g] = "open"]
  /\ UNCHANGED <<lapsed, approved, call, acts, vouched>>

\* approve, up to the owner's prompt.
ApproveStart(c, g) ==
  /\ proposal[g] = "open" /\ g \notin lapsed
  /\ Begins(c, g, "presence")
  /\ UNCHANGED <<proposal, lapsed, approved, acts, vouched>>

\* A grant past its time is expired by the attempt to approve it.
ApproveExpired(g) ==
  /\ proposal[g] = "open" /\ g \in lapsed
  /\ proposal' = [proposal EXCEPT ![g] = "expired"]
  /\ UNCHANGED <<lapsed, approved, call, acts, vouched>>

\* decideProposal decides an open proposal in time, under the store's lock.
CanDecide(g) == proposal[g] = "open" /\ g \notin lapsed

\* The owner was present.  The proposal is read again, as the prompt took time.
ApproveConfirmed(c) ==
  LET g == call[c].grant
  IN  /\ call[c].at = "presence"
      /\ Returns(c)
      /\ IF CanDecide(g)
         THEN /\ proposal' = [proposal EXCEPT ![g] = "approved"]
              /\ approved' = approved \cup {g}
              /\ vouched' = vouched \cup {g}
         ELSE UNCHANGED <<proposal, approved, vouched>>
      /\ UNCHANGED <<lapsed, acts>>

\* The owner declined, or keyd could not ask.
ApproveRefused(c) ==
  /\ call[c].at = "presence"
  /\ Returns(c)
  /\ UNCHANGED <<proposal, lapsed, approved, acts, vouched>>

-----------------------------------------------------------------------------
(* Spending. *)

Available(g) == g \in approved /\ proposal[g] = "approved" /\ g \notin lapsed

\* An available() that finds the grant lapsed forgets it.
Forgets(g) == approved' = IF g \in lapsed THEN approved \ {g} ELSE approved

\* Seeded bug: the grant is forgotten when the act has returned.
ActsThenForgets(c, g) ==
  /\ call' = [call EXCEPT ![c] = [at |-> "acting", grant |-> g]]
  /\ acts' = [acts EXCEPT ![g] = @ + 1]
  /\ UNCHANGED approved

\* The grant is forgotten before the act runs.
Acts(c, g) ==
  /\ call' = [call EXCEPT ![c] = [at |-> "acting", grant |-> g]]
  /\ approved' = approved \ {g}
  /\ acts' = [acts EXCEPT ![g] = @ + 1]

\* spend without a preparation runs to the act at once.
SpendAtOnce(c, g) ==
  /\ call[c] = Idle
  /\ Available(g)
  /\ Acts(c, g)
  /\ UNCHANGED <<proposal, lapsed, vouched>>

SpendStart(c, g) ==
  /\ Available(g)
  /\ Begins(c, g, "preparing")
  /\ UNCHANGED <<proposal, lapsed, approved, acts, vouched>>

SpendUnavailable(g) ==
  /\ g \in approved /\ proposal[g] = "approved" /\ g \in lapsed
  /\ Forgets(g)
  /\ UNCHANGED <<proposal, lapsed, call, acts, vouched>>

\* Seeded bug: what was available before the preparation still is.
PreparedAnyway(c) ==
  /\ call[c].at = "preparing"
  /\ Acts(c, call[c].grant)
  /\ UNCHANGED <<proposal, lapsed, vouched>>

\* A concurrent spend may have taken the grant while this one prepared.
Prepared(c) ==
  LET g == call[c].grant
  IN  /\ call[c].at = "preparing"
      /\ IF Available(g) THEN Acts(c, g)
         ELSE Returns(c) /\ Forgets(g) /\ UNCHANGED acts
      /\ UNCHANGED <<proposal, lapsed, vouched>>

\* A preparation that throws leaves the grant approved and unspent.
PrepareFails(c) ==
  /\ call[c].at = "preparing"
  /\ Returns(c)
  /\ UNCHANGED <<proposal, lapsed, approved, acts, vouched>>

\* The act returned or threw; either way the grant is spent.
ActEnds(c) ==
  /\ call[c].at = "acting"
  /\ Returns(c)
  /\ UNCHANGED <<proposal, lapsed, approved, acts, vouched>>

-----------------------------------------------------------------------------
(* Time and death. *)

Lapse(g) ==
  /\ proposal[g] # "none" /\ g \notin lapsed
  /\ lapsed' = lapsed \cup {g}
  /\ UNCHANGED <<proposal, approved, call, acts, vouched>>

\* The daemon dies and starts again: its memory and its requests are gone.  An
\* open grant has no invocation, so recovery throws and the daemon stays down.
Restart ==
  /\ \A g \in Grant : proposal[g] # "open"
  /\ call' = [c \in Call |-> Idle]
  /\ approved' = {}
  /\ vouched' = {}
  /\ UNCHANGED <<proposal, lapsed, acts>>

GrantNext ==
  \/ \E g \in Grant : Request(g) \/ ApproveExpired(g) \/ SpendUnavailable(g) \/ Lapse(g)
  \/ \E c \in Call :
       \/ ApproveConfirmed(c) \/ ApproveRefused(c)
       \/ Prepared(c) \/ PrepareFails(c) \/ ActEnds(c)
       \/ \E g \in Grant : ApproveStart(c, g) \/ SpendAtOnce(c, g) \/ SpendStart(c, g)
  \/ Restart

GrantSpec == GrantInit /\ [][GrantNext]_grantVars

-----------------------------------------------------------------------------
(* What a grant promises. *)

\* A grant is spent at most once: not by two spends that prepare side by side,
\* not by one that starts while the act of the other runs, not again after a
\* second approval or a restart (delegation-grants.mjs:19-23 and 209-210).
SpentOnce == \A g \in Grant : acts[g] <= 1

\* An act begins only for a grant the owner was present for since the daemon
\* started and whose time has not run out, also when the grant was available
\* before its preparation: otherwise the owner approves again
\* (delegation-grants.mjs:19-23 and 250-251).
ActsOnlyOnLiveGrants ==
  [][\A g \in Grant : acts'[g] > acts[g] => g \in vouched \ lapsed]_grantVars

\* What the ledger holds as approved is approved on disk too, whoever else
\* decided or expired the proposal during the prompt
\* (delegation-grants.mjs:198-204).
RememberedIsStored == \A g \in approved : proposal[g] = "approved"
=============================================================================
