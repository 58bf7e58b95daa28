------------------------- MODULE OwnerAuthorityProofs -------------------------
(***************************************************************************)
(* Proofs about what a soul may do on the owner's word: TurnRegistry, the  *)
(* switches and permissions a turn runs under, GrantLedger, the grants an  *)
(* owner approves one by one, and OwnerTrust, the store of the owner's own *)
(* keys.  They share no state and each part stands alone.                  *)
(*                                                                         *)
(* TurnRegistry, for every set of turns, sessions and tools: what the      *)
(* owner switched off is not undone by a turn that was on its way to its   *)
(* executor.  The invariants of the runs are not inductive: that a paused  *)
(* soul's turns are stopped needs it of the turns that wait for the        *)
(* owner's verification too, and needs every such turn to be tracked, for  *)
(* a stop to reach it; that computer use off stops the turns that acted    *)
(* needs each of them to be among those the daemon shows as acting.        *)
(*                                                                         *)
(* GrantLedger, for any number of grants and of requests that run side by  *)
(* side.  SpentOnce is not inductive.  It rests on where a grant can be:   *)
(* until it is approved on disk it was neither spent nor remembered, and   *)
(* while it is remembered it was not spent.                                *)
(*                                                                         *)
(* OwnerTrust, for any number of keys, owners, versions and interruptions. *)
(* ReadsBack says what the files are between two operations; inductive is  *)
(* what they are in the middle of one: which file the pending name may     *)
(* hold while how much of the chain is confirmed (PendingInv), what the    *)
(* holder of the lock is about to write (HolderInv), and that half a line  *)
(* stops everybody (TornInv).                                              *)
(***************************************************************************)
EXTENDS TurnRegistry, GrantLedger, OwnerTrust, FiniteSetTheorems, TLAPS

-----------------------------------------------------------------------------
(* Turns: the invariant. *)

Unended == {"reporting", "verifying", "running"}

\* Every turn between its dispatch and its end can be reached by a stop.
LiveIsTracked == \A t \in Turn : turn[t].at \in Unended => t \in tracked

\* A turn past its pause check is stopped if the soul is paused.
PastCheckIsStopped ==
  paused => \A t \in Turn : turn[t].at \in {"verifying", "running"} => turn[t].aborted

\* Only an executor asks for tools.
OnlyExecutorsAct ==
  \A t \in Turn : turn[t].at \in {"idle", "reporting", "verifying"} => ~turn[t].acted

\* A turn that was allowed a computer-use tool is shown until it is stopped.
ActedIsShown ==
  \A t \in Turn : turn[t].at = "running" /\ turn[t].acted /\ ~turn[t].aborted => t \in acting

TurnInv ==
  /\ RegistryTypeOK
  /\ LiveIsTracked
  /\ PastCheckIsStopped
  /\ OnlyExecutorsAct
  /\ ActedIsShown
  /\ ComputerUseOffStops

\* No turn has begun.
LEMMA TurnInitHolds == RegistryInit => TurnInv
<1> USE DEF RegistryInit, Fresh
<1>1. RegistryInit => RegistryTypeOK
  BY DEF RegistryTypeOK, TurnState
<1>2. RegistryInit => LiveIsTracked /\ PastCheckIsStopped /\ OnlyExecutorsAct /\ ActedIsShown /\ ComputerUseOffStops
  BY DEF LiveIsTracked, Unended, PastCheckIsStopped, OnlyExecutorsAct, ActedIsShown, ComputerUseOffStops
<1> QED
  BY <1>1, <1>2 DEF TurnInv

-----------------------------------------------------------------------------
(* One turn's steps.  Those that change nothing but one turn keep TurnInv if *)
(* the turn's new state is typed and consistent with the rest.              *)

\* What TurnInv says of one turn in state `s`.
TurnConsistent(s, isPaused, isOn, isTracked, isActing) ==
  /\ s.at \in Unended => isTracked
  /\ isPaused /\ s.at \in {"verifying", "running"} => s.aborted
  /\ s.at \in {"idle", "reporting", "verifying"} => ~s.acted
  /\ s.at = "running" /\ s.acted /\ ~s.aborted => isActing
  /\ ~isOn /\ s.at = "running" /\ s.acted => s.aborted

\* The invariant speaks of one turn at a time.
LEMMA InvariantOfTurns ==
  TurnInv <=> /\ RegistryTypeOK
              /\ \A t \in Turn : TurnConsistent(turn[t], paused, computerUse, t \in tracked, t \in acting)
BY DEF TurnInv, TurnConsistent, LiveIsTracked, PastCheckIsStopped, OnlyExecutorsAct, ActedIsShown,
       ComputerUseOffStops

\* The same, after a step.
LEMMA InvariantOfTurnsNext ==
  TurnInv' <=> /\ RegistryTypeOK'
               /\ \A t \in Turn : TurnConsistent(turn'[t], paused', computerUse', t \in tracked', t \in acting')
BY DEF TurnInv, TurnConsistent, LiveIsTracked, PastCheckIsStopped, OnlyExecutorsAct, ActedIsShown,
       ComputerUseOffStops, Turn

\* A step of one turn leaves the others consistent; what is to be seen is that
\* turn.
LEMMA OneTurnSteps ==
  ASSUME TurnInv, NEW t \in Turn, NEW s \in TurnState,
         turn' = [turn EXCEPT ![t] = s],
         tracked' \subseteq Turn, acting' \subseteq Turn,
         \A u \in Turn \ {t} : u \in tracked' <=> u \in tracked,
         \A u \in Turn \ {t} : u \in acting' <=> u \in acting,
         lease' \in Lease \cup {NoLease},
         UNCHANGED <<paused, computerUse>>,
         TurnConsistent(s, paused, computerUse, t \in tracked', t \in acting')
  PROVE  TurnInv'
<1>1. /\ RegistryTypeOK
      /\ \A u \in Turn : TurnConsistent(turn[u], paused, computerUse, u \in tracked, u \in acting)
  BY InvariantOfTurns
<1>2. RegistryTypeOK'
  BY <1>1 DEF RegistryTypeOK
<1>3. ASSUME NEW u \in Turn
      PROVE  TurnConsistent(turn'[u], paused', computerUse', u \in tracked', u \in acting')
  <2>1. CASE u = t
    <3>1. turn'[t] = s
      BY <1>1 DEF RegistryTypeOK
    <3> QED BY <2>1, <3>1
  <2>2. CASE u # t
    <3>1. turn'[u] = turn[u] /\ (u \in tracked' <=> u \in tracked) /\ (u \in acting' <=> u \in acting)
      BY <1>1, <2>2 DEF RegistryTypeOK
    <3>2. TurnConsistent(turn[u], paused, computerUse, u \in tracked, u \in acting)
      BY <1>1
    <3> QED BY <3>1, <3>2 DEF TurnConsistent
  <2> QED BY <2>1, <2>2
<1> QED BY <1>2, <1>3, InvariantOfTurnsNext

\* The parts of TurnInv the actions are proved from.
LEMMA TurnParts ==
  ASSUME TurnInv, NEW t \in Turn
  PROVE  /\ turn[t] \in TurnState
         /\ turn \in [Turn -> TurnState]
         /\ TurnConsistent(turn[t], paused, computerUse, t \in tracked, t \in acting)
         /\ tracked \subseteq Turn /\ acting \subseteq Turn
         /\ lease \in Lease \cup {NoLease}
         /\ paused \in BOOLEAN /\ computerUse \in BOOLEAN
BY InvariantOfTurns DEF RegistryTypeOK

\* A wake's turn starts.
LEMMA RunTurnKeeps == ASSUME TurnInv, NEW t \in Turn, RunTurn(t) PROVE TurnInv'
<1> DEFINE s == [turn[t] EXCEPT !.at = "running"]
<1>1. s \in TurnState /\ TurnConsistent(s, paused, computerUse, TRUE, t \in acting)
  BY TurnParts DEF RunTurn, TurnConsistent, TurnState, Unended
<1>2. turn' = [turn EXCEPT ![t] = s]
  BY TurnParts DEF RunTurn
<1> HIDE DEF s
<1> QED BY <1>1, <1>2, TurnParts, OneTurnSteps DEF RunTurn

\* An interactive turn is dispatched.
LEMMA DispatchKeeps == ASSUME TurnInv, NEW t \in Turn, Dispatch(t) PROVE TurnInv'
<1> DEFINE s == [turn[t] EXCEPT !.at = "reporting"]
<1>1. s \in TurnState /\ TurnConsistent(s, paused, computerUse, TRUE, t \in acting)
  BY TurnParts DEF Dispatch, TurnConsistent, TurnState, Unended
<1>2. turn' = [turn EXCEPT ![t] = s]
  BY TurnParts DEF Dispatch
<1> HIDE DEF s
<1> QED BY <1>1, <1>2, TurnParts, OneTurnSteps DEF Dispatch

\* A turn settles, and is tracked and shown no longer.
LEMMA SettlesKeeps ==
  ASSUME TurnInv, NEW t \in Turn, TurnSettles(t), UNCHANGED <<paused, computerUse, lease>>
  PROVE  TurnInv'
<1> DEFINE s == [turn[t] EXCEPT !.at = "ended", !.asks = IF t \in Wake THEN @ ELSE {}]
<1>1. s \in TurnState /\ TurnConsistent(s, paused, computerUse, FALSE, FALSE)
  BY TurnParts DEF TurnConsistent, TurnState, Unended
<1>2. turn' = [turn EXCEPT ![t] = s]
  BY TurnParts DEF TurnSettles
<1>3. /\ tracked' \subseteq Turn /\ acting' \subseteq Turn
      /\ \A u \in Turn \ {t} : (u \in tracked' <=> u \in tracked) /\ (u \in acting' <=> u \in acting)
      /\ t \notin tracked' /\ t \notin acting'
  BY TurnParts DEF TurnSettles
<1>4. TurnConsistent(s, paused, computerUse, t \in tracked', t \in acting')
  BY <1>1, <1>3 DEF TurnConsistent
<1>5. lease' \in Lease \cup {NoLease}
  BY TurnParts
<1> HIDE DEF s
<1> QED BY <1>1, <1>2, <1>3, <1>4, <1>5, OneTurnSteps

\* An executor starts, unless the turn was stopped.
LEMMA StartsKeeps ==
  ASSUME TurnInv, NEW t \in Turn, turn[t].at \in {"reporting", "verifying"},
         ~turn[t].aborted, ~paused, Starts(t), UNCHANGED <<paused, computerUse, lease>>
  PROVE  TurnInv'
<1> DEFINE s == [turn[t] EXCEPT !.at = "running"]
<1>1. s \in TurnState /\ TurnConsistent(s, paused, computerUse, t \in tracked, t \in acting)
  BY TurnParts DEF TurnConsistent, TurnState, Unended
<1>2. turn' = [turn EXCEPT ![t] = s]
  BY TurnParts DEF Starts
<1> HIDE DEF s
<1> QED BY <1>1, <1>2, TurnParts, OneTurnSteps DEF Starts

\* The reporter was told, and the turn goes on or is over.
LEMMA ReportedKeeps == ASSUME TurnInv, NEW t \in Turn, Reported(t) PROVE TurnInv'
<1>1. CASE TurnSettles(t)
  BY <1>1, SettlesKeeps DEF Reported
<1>2. CASE ~turn[t].aborted /\ ~paused /\ Starts(t)
  BY <1>2, StartsKeeps DEF Reported
<1>3. CASE /\ ~turn[t].aborted /\ ~paused
           /\ turn' = [turn EXCEPT ![t].at = "verifying"]
           /\ UNCHANGED <<tracked, acting>>
  <2> DEFINE s == [turn[t] EXCEPT !.at = "verifying"]
  <2>1. s \in TurnState /\ TurnConsistent(s, paused, computerUse, t \in tracked, t \in acting)
    BY <1>3, TurnParts DEF Reported, TurnConsistent, TurnState, Unended
  <2>2. turn' = [turn EXCEPT ![t] = s]
    BY <1>3, TurnParts
  <2> HIDE DEF s
  <2> QED BY <1>3, <2>1, <2>2, TurnParts, OneTurnSteps DEF Reported
<1> QED BY <1>1, <1>2, <1>3 DEF Reported

\* That the verification does not look at the pause again is what
\* PastCheckIsStopped is for.
LEMMA VerifiedKeeps == ASSUME TurnInv, NEW t \in Turn, Verified(t) PROVE TurnInv'
<1>1. CASE TurnSettles(t)
  BY <1>1, SettlesKeeps DEF Verified
<1>2. CASE ~turn[t].aborted /\ Starts(t)
  <2>1. ~paused
    BY <1>2, TurnParts DEF Verified, TurnConsistent
  <2> QED BY <1>2, <2>1, StartsKeeps DEF Verified
<1> QED BY <1>1, <1>2 DEF Verified

\* A turn ends by itself.
LEMMA EndsKeeps == ASSUME TurnInv, NEW t \in Turn, Ends(t) PROVE TurnInv'
BY SettlesKeeps DEF Ends

\* A turn is bound to its harness session, whose lease it then has.
LEMMA BindKeeps ==
  ASSUME TurnInv, NEW t \in Turn, NEW sn \in Session, BindHarnessSession(t, sn)
  PROVE  TurnInv'
<1>1. PICK by \in Turn : turn' = [turn EXCEPT ![t] = [turn[t] EXCEPT !.lease = by]]
  <2>1. CASE lease # NoLease /\ lease.session = sn
    BY <2>1, TurnParts DEF BindHarnessSession, Lease
  <2>2. CASE ~(lease # NoLease /\ lease.session = sn)
    BY <2>2, TurnParts DEF BindHarnessSession
  <2> QED BY <2>1, <2>2
<1> DEFINE s == [turn[t] EXCEPT !.lease = by]
<1>2. s \in TurnState /\ TurnConsistent(s, paused, computerUse, t \in tracked, t \in acting)
  BY TurnParts DEF TurnConsistent, TurnState, Unended
<1>3. turn' = [turn EXCEPT ![t] = s]
  BY <1>1
<1>4. lease' \in Lease \cup {NoLease}
  BY TurnParts DEF BindHarnessSession, Lease
<1> HIDE DEF s
<1> QED BY <1>2, <1>3, <1>4, TurnParts, OneTurnSteps DEF BindHarnessSession

\* A running turn that is allowed a tool is shown if the tool operates the
\* computer, and the switch is on then.
LEMMA AllowedKeeps ==
  ASSUME TurnInv, NEW t \in Turn, turn[t].at = "running", NEW tool \in Tool,
         ~ComputerUseOff(tool), NEW asks \in SUBSET Ask, NEW tools \in SUBSET Tool,
         turn' = [turn EXCEPT ![t] = Allowed([turn[t] EXCEPT !.asks = asks, !.tools = tools], tool)],
         acting' = Showing(t, tool),
         UNCHANGED <<paused, computerUse, tracked>>,
         lease' \in Lease \cup {NoLease}
  PROVE  TurnInv'
<1> DEFINE r == [turn[t] EXCEPT !.asks = asks, !.tools = tools]
           s == Allowed(r, tool)
<1>1. /\ r \in TurnState
      /\ r.at = "running" /\ r.aborted = turn[t].aborted /\ r.acted = turn[t].acted
  BY TurnParts DEF TurnState
<1>2. /\ acting' \subseteq Turn
      /\ \A u \in Turn \ {t} : u \in acting' <=> u \in acting
      /\ t \in acting => t \in acting'
      /\ tool \in ComputerUse => t \in acting'
  BY TurnParts DEF Showing
<1> HIDE DEF r
<1>3. s \in TurnState /\ s.at = "running" /\ s.aborted = turn[t].aborted
  BY <1>1 DEF Allowed, TurnState
<1>4. s.acted => turn[t].acted \/ tool \in ComputerUse
  BY <1>1 DEF Allowed
<1>5. TurnConsistent(turn[t], paused, computerUse, t \in tracked, t \in acting)
  BY TurnParts
<1> HIDE DEF s
<1>6. TurnConsistent(s, paused, computerUse, t \in tracked, t \in acting')
  <2>1. t \in tracked /\ (paused => s.aborted)
    BY <1>3, <1>5 DEF TurnConsistent, Unended
  <2>2. s.acted /\ ~s.aborted => t \in acting'
    BY <1>2, <1>3, <1>4, <1>5 DEF TurnConsistent
  <2>3. ~computerUse /\ s.acted => s.aborted
    BY <1>3, <1>4, <1>5 DEF TurnConsistent, ComputerUseOff
  <2> QED BY <1>3, <2>1, <2>2, <2>3 DEF TurnConsistent
<1>7. turn' = [turn EXCEPT ![t] = s]
  BY DEF s, r
<1>8. tracked' \subseteq Turn /\ tracked' = tracked
  BY TurnParts
<1> QED BY <1>2, <1>3, <1>6, <1>7, <1>8, OneTurnSteps

\* A turn asks for a tool: it has it at once, or waits.
LEMMA RequestPermissionKeeps ==
  ASSUME TurnInv, NEW t \in Turn, NEW tool \in Tool, RequestPermission(t, tool)
  PROVE  TurnInv'
<1>1. CASE AllowsAtOnce(t, tool)
  <2>1. turn[t].asks \in SUBSET Ask /\ turn[t].tools \in SUBSET Tool
    BY TurnParts DEF TurnState
  <2>2. turn[t] = [turn[t] EXCEPT !.asks = turn[t].asks, !.tools = turn[t].tools]
    BY TurnParts DEF TurnState
  <2>3. lease' \in Lease \cup {NoLease}
    BY TurnParts DEF RequestPermission
  <2>4. turn' = [turn EXCEPT ![t] = Allowed(turn[t], tool)]
    BY <1>1 DEF RequestPermission
  <2>5. turn' = [turn EXCEPT ![t] =
                   Allowed([turn[t] EXCEPT !.asks = turn[t].asks, !.tools = turn[t].tools], tool)]
    BY <2>2, <2>4
  <2> QED BY <1>1, <2>1, <2>3, <2>5, AllowedKeeps DEF RequestPermission
<1>2. CASE ~AllowsAtOnce(t, tool)
  <2> DEFINE s == [turn[t] EXCEPT !.asks = @ \cup {[tool |-> tool, lease |-> turn[t].lease]}]
  <2>1. s \in TurnState /\ TurnConsistent(s, paused, computerUse, t \in tracked, t \in acting)
    BY TurnParts DEF TurnState, Ask, TurnConsistent
  <2>2. turn' = [turn EXCEPT ![t] = s]
    BY <1>2, TurnParts DEF RequestPermission
  <2>3. acting' = acting
    BY <1>2 DEF RequestPermission
  <2> HIDE DEF s
  <2> QED BY <2>1, <2>2, <2>3, TurnParts, OneTurnSteps DEF RequestPermission
<1> QED BY <1>1, <1>2

\* A request is denied.
LEMMA DenyKeeps == ASSUME TurnInv, NEW t \in Turn, NEW ask \in Ask, Deny(t, ask) PROVE TurnInv'
<1> DEFINE s == Answered(t, ask)
<1>1. s \in TurnState /\ TurnConsistent(s, paused, computerUse, t \in tracked, t \in acting)
  BY TurnParts DEF Answered, TurnConsistent, TurnState, Unended
<1>2. turn' = [turn EXCEPT ![t] = s]
  BY DEF Deny
<1> HIDE DEF s
<1> QED BY <1>1, <1>2, TurnParts, OneTurnSteps DEF Deny

\* A request is approved, once or for the session.
LEMMA ApproveKeeps ==
  ASSUME TurnInv, NEW t \in Turn, NEW ask \in Ask, NEW forSession \in BOOLEAN,
         Approve(t, ask, forSession)
  PROVE  TurnInv'
<1>1. lease' \in Lease \cup {NoLease}
  BY TurnParts DEF Approve, AddToLease, LeaseIsCurrent, Lease, Ask
<1>2. CASE ~ComputerUseOff(ask.tool) /\ turn[t].at = "running"
  <2>1. turn[t].asks \ {ask} \in SUBSET Ask /\ turn[t].tools \cup {ask.tool} \in SUBSET Tool
        /\ ask.tool \in Tool
    BY TurnParts DEF TurnState, Ask
  <2>2. [Answered(t, ask) EXCEPT !.tools = @ \cup {ask.tool}]
          = [turn[t] EXCEPT !.asks = turn[t].asks \ {ask}, !.tools = turn[t].tools \cup {ask.tool}]
    BY TurnParts DEF Answered, TurnState
  <2>3. turn' = [turn EXCEPT ![t] = Allowed([Answered(t, ask) EXCEPT !.tools = @ \cup {ask.tool}], ask.tool)]
    BY <1>2 DEF Approve, Approved
  <2>4. acting' = Showing(t, ask.tool)
    BY <1>2 DEF Approve
  <2>5. turn' = [turn EXCEPT ![t] =
                   Allowed([turn[t] EXCEPT !.asks = turn[t].asks \ {ask},
                                           !.tools = turn[t].tools \cup {ask.tool}], ask.tool)]
    BY <2>2, <2>3
  <2> QED BY <1>1, <1>2, <2>1, <2>4, <2>5, AllowedKeeps DEF Approve
<1>3. CASE ComputerUseOff(ask.tool) \/ turn[t].at # "running"
  <2> DEFINE s == Answered(t, ask)
  <2>1. s \in TurnState /\ TurnConsistent(s, paused, computerUse, t \in tracked, t \in acting)
    BY TurnParts DEF Answered, TurnConsistent, TurnState, Unended
  <2>2. turn' = [turn EXCEPT ![t] = s] /\ acting' = acting
    BY <1>3 DEF Approve, Approved
  <2> HIDE DEF s
  <2> QED BY <1>1, <2>1, <2>2, TurnParts, OneTurnSteps DEF Approve
<1> QED BY <1>2, <1>3

\* A turn is stopped.
LEMMA AbortKeeps == ASSUME TurnInv, NEW t \in Turn, Abort(t) PROVE TurnInv'
<1> DEFINE s == [turn[t] EXCEPT !.aborted = TRUE, !.asks = {}]
<1>1. s \in TurnState /\ TurnConsistent(s, paused, computerUse, t \in tracked, FALSE)
  BY TurnParts DEF TurnConsistent, TurnState, Unended
<1>2. turn' = [turn EXCEPT ![t] = s]
  BY TurnParts DEF Abort, Aborted
<1>3. /\ acting' \subseteq Turn /\ t \notin acting'
      /\ \A u \in Turn \ {t} : u \in acting' <=> u \in acting
  BY TurnParts DEF Abort
<1>4. TurnConsistent(s, paused, computerUse, t \in tracked, t \in acting')
  BY <1>1, <1>3 DEF TurnConsistent
<1> HIDE DEF s
<1> QED BY <1>1, <1>2, <1>3, <1>4, TurnParts, OneTurnSteps DEF Abort

-----------------------------------------------------------------------------
(* The owner's steps, which change every turn at once. *)

\* A stop reaches every turn that is not idle or ended, so what holds of the
\* turns afterwards does not depend on the switches.
LEMMA StopAllKeeps ==
  ASSUME TurnInv, StopAll, paused' \in BOOLEAN, computerUse' \in BOOLEAN
  PROVE  TurnInv'
<1>1. RegistryTypeOK'
  <2>1. RegistryTypeOK
    BY DEF TurnInv
  <2>2. \A t \in Turn : Aborted(turn[t]) \in TurnState
    BY <2>1 DEF RegistryTypeOK, Aborted, TurnState
  <2>3. turn' \in [Turn -> TurnState]
    BY <2>1, <2>2 DEF RegistryTypeOK, StopAll
  <2> QED BY <2>1, <2>3 DEF RegistryTypeOK, StopAll
<1>2. ASSUME NEW t \in Turn
      PROVE  TurnConsistent(turn'[t], paused', computerUse', t \in tracked', t \in acting')
  <2>1. /\ turn[t] \in TurnState
        /\ TurnConsistent(turn[t], paused, computerUse, t \in tracked, t \in acting)
    BY TurnParts
  <2>2. CASE t \in tracked
    <3>1. turn'[t] = [turn[t] EXCEPT !.aborted = TRUE, !.asks = {}] /\ t \in tracked'
      BY <2>2 DEF StopAll, Aborted
    <3>2. /\ turn'[t].aborted
          /\ turn'[t].acted = turn[t].acted
          /\ turn'[t].at = turn[t].at
      BY <2>1, <3>1 DEF TurnState
    <3> QED BY <2>1, <3>1, <3>2 DEF TurnConsistent
  <2>3. CASE t \notin tracked
    <3>1. turn'[t] = turn[t] /\ (t \in tracked' <=> t \in tracked)
      BY <2>3 DEF StopAll
    <3>2. turn[t].at \in {"idle", "ended"}
      BY <2>1, <2>3 DEF TurnConsistent, Unended, TurnState
    <3> QED BY <2>1, <3>1, <3>2 DEF TurnConsistent, Unended
  <2> QED BY <2>2, <2>3
<1> QED BY <1>1, <1>2, InvariantOfTurnsNext

\* The soul goes on.
LEMMA ResumeKeeps == ASSUME TurnInv, Resume PROVE TurnInv'
BY DEF Resume, TurnInv, RegistryTypeOK, LiveIsTracked, PastCheckIsStopped, OnlyExecutorsAct, ActedIsShown,
       ComputerUseOffStops, Turn

\* Computer use is switched; switched off, it stops the turns that act.
LEMMA SetComputerUseKeeps ==
  ASSUME TurnInv, NEW on \in BOOLEAN, SetComputerUse(on) PROVE TurnInv'
<1>1. CASE ~on /\ acting # {}
  BY <1>1, StopAllKeeps, InvariantOfTurns DEF SetComputerUse, RegistryTypeOK
<1>2. CASE on \/ acting = {}
  <2>1. computerUse' = on /\ UNCHANGED <<paused, turn, tracked, acting, lease>>
    BY <1>2 DEF SetComputerUse
  <2>2. RegistryTypeOK'
    BY <2>1, InvariantOfTurns DEF RegistryTypeOK
  <2>3. ASSUME NEW t \in Turn
        PROVE  TurnConsistent(turn'[t], paused', computerUse', t \in tracked', t \in acting')
    <3>1. TurnConsistent(turn[t], paused, computerUse, t \in tracked, t \in acting)
      BY TurnParts
    <3> QED BY <1>2, <2>1, <3>1 DEF TurnConsistent
  <2> QED BY <2>2, <2>3, InvariantOfTurnsNext
<1> QED BY <1>1, <1>2

\* Every step.
LEMMA TurnNextKeeps == TurnInv /\ [RegistryNext]_registryVars => TurnInv'
<1> SUFFICES ASSUME TurnInv, [RegistryNext]_registryVars PROVE TurnInv'
  OBVIOUS
<1>1. CASE UNCHANGED registryVars
  BY <1>1 DEF registryVars, TurnInv, RegistryTypeOK, LiveIsTracked, PastCheckIsStopped, OnlyExecutorsAct,
              ActedIsShown, ComputerUseOffStops, Turn
<1>2. ASSUME NEW t \in Turn,
             RunTurn(t) \/ Dispatch(t) \/ Reported(t) \/ Verified(t) \/ Ends(t) \/ Abort(t)
      PROVE  TurnInv'
  BY <1>2, RunTurnKeeps, DispatchKeeps, ReportedKeeps, VerifiedKeeps, EndsKeeps, AbortKeeps
<1>3. ASSUME NEW t \in Turn, NEW sn \in Session, BindHarnessSession(t, sn) PROVE TurnInv'
  BY <1>3, BindKeeps
<1>4. ASSUME NEW t \in Turn, NEW tool \in Tool, RequestPermission(t, tool) PROVE TurnInv'
  BY <1>4, RequestPermissionKeeps
<1>5. ASSUME NEW t \in Turn, NEW ask \in Ask, Deny(t, ask) PROVE TurnInv'
  BY <1>5, DenyKeeps
<1>6. ASSUME NEW t \in Turn, NEW ask \in Ask, NEW forSession \in BOOLEAN, Approve(t, ask, forSession)
      PROVE  TurnInv'
  BY <1>6, ApproveKeeps
<1>7. ASSUME Stop \/ Pause PROVE TurnInv'
  BY <1>7, StopAllKeeps, InvariantOfTurns DEF Stop, Pause, RegistryTypeOK
<1>8. ASSUME NEW on \in BOOLEAN, SetComputerUse(on) PROVE TurnInv'
  BY <1>8, SetComputerUseKeeps
<1> QED BY <1>1, <1>2, <1>3, <1>4, <1>5, <1>6, <1>7, <1>8, ResumeKeeps DEF RegistryNext

-----------------------------------------------------------------------------
(* Turns: the theorems. *)

\* The inductive invariant holds of every reachable state.
THEOREM TurnInvariance == RegistrySpec => []TurnInv
BY TurnInitHolds, TurnNextKeeps, PTL DEF RegistrySpec

\* Every variable keeps its type (turn-registry.mjs:20-35).
THEOREM TurnTypeCorrect == RegistrySpec => []RegistryTypeOK
<1>1. TurnInv => RegistryTypeOK
  BY DEF TurnInv
<1> QED BY TurnInvariance, <1>1, PTL

\* However many turns are between dispatch and executor when the owner pauses,
\* none of them runs unstopped while the soul is paused
\* (agent-daemon.mjs:1073-1074, agent-interaction.mjs:525-531).
THEOREM PauseHolds == RegistrySpec => []PausedMeansStopping
<1>1. TurnInv => PausedMeansStopping
  BY DEF TurnInv, PastCheckIsStopped, PausedMeansStopping
<1> QED BY TurnInvariance, <1>1, PTL

\* Switching computer use off stops every turn that was allowed it, and no
\* answer that comes later starts another (agent-daemon.mjs:1029-1031).
THEOREM SwitchHolds == RegistrySpec => []ComputerUseOffStops
<1>1. TurnInv => ComputerUseOffStops
  BY DEF TurnInv
<1> QED BY TurnInvariance, <1>1, PTL

\* A soul is busy while an executor of it runs (turn-registry.mjs:8-10).
THEOREM BusyIsTrue == RegistrySpec => []BusyUntilSettled
<1>1. TurnInv => BusyUntilSettled
  BY DEF TurnInv, LiveIsTracked, Unended, BusyUntilSettled
<1> QED BY TurnInvariance, <1>1, PTL

\* What GrantedUnderItsLease says of one tool and one step.
Grants(tool) ==
  /\ lease' # NoLease
  /\ tool \in lease'.tools
  /\ ~(lease # NoLease /\ lease'.by = lease.by /\ tool \in lease.tools)

\* Only an approval adds to a lease, and it adds what was asked under it.
LEMMA OnlyApprovalsGrant ==
  ASSUME RegistryTypeOK, [RegistryNext]_registryVars, NEW tool \in Tool, Grants(tool)
  PROVE  /\ LeaseIsCurrent(lease'.by)
         /\ \E t \in Turn : [tool |-> tool, lease |-> lease'.by] \in turn[t].asks
<1>1. lease' # lease
  BY DEF Grants
<1>2. PICK t \in Turn : \/ \E sn \in Session : BindHarnessSession(t, sn)
                        \/ \E ask \in Ask, forSession \in BOOLEAN : Approve(t, ask, forSession)
  BY <1>1 DEF RegistryNext, registryVars, RunTurn, Dispatch, Reported, Verified, Ends, Abort, RequestPermission, Deny,
              Stop, Pause, Resume, SetComputerUse, StopAll, Grants
<1>3. CASE \E sn \in Session : BindHarnessSession(t, sn)
  BY <1>1, <1>3 DEF BindHarnessSession, Grants
<1>4. CASE \E ask \in Ask, forSession \in BOOLEAN : Approve(t, ask, forSession)
  <2>1. PICK ask \in Ask, forSession \in BOOLEAN : Approve(t, ask, forSession)
    BY <1>4
  <2>2. /\ ask \in turn[t].asks
        /\ LeaseIsCurrent(ask.lease)
        /\ lease' = [lease EXCEPT !.tools = @ \cup {ask.tool}]
    BY <1>1, <2>1 DEF Approve, AddToLease
  <2>3. lease \in Lease /\ lease.by = ask.lease
    BY <2>2 DEF LeaseIsCurrent, RegistryTypeOK
  <2>4. lease'.by = ask.lease /\ lease'.tools = lease.tools \cup {ask.tool}
    BY <2>2, <2>3 DEF Lease
  <2>5. tool = ask.tool
    BY <2>2, <2>3, <2>4 DEF Grants, LeaseIsCurrent
  <2>6. ask = [tool |-> tool, lease |-> lease'.by]
    BY <2>4, <2>5 DEF Ask
  <2> QED BY <2>2, <2>4, <2>6
<1> QED BY <1>2, <1>3, <1>4

\* No approval reaches a lease it was not asked under, whatever was stopped,
\* paused or bound while the owner was thinking (session-approvals.mjs:1-19).
THEOREM GrantsKeepToTheirLease == RegistrySpec => GrantedUnderItsLease
<1>1. RegistryTypeOK /\ [RegistryNext]_registryVars =>
        [\A tool \in Tool :
           /\ lease' # NoLease
           /\ tool \in lease'.tools
           /\ ~(lease # NoLease /\ lease'.by = lease.by /\ tool \in lease.tools)
           => /\ LeaseIsCurrent(lease'.by)
              /\ \E t \in Turn : [tool |-> tool, lease |-> lease'.by] \in turn[t].asks]_registryVars
  BY OnlyApprovalsGrant DEF Grants
<1> QED BY TurnTypeCorrect, <1>1, PTL DEF RegistrySpec, GrantedUnderItsLease

-----------------------------------------------------------------------------
(* Grants: the invariant. *)

\* A grant the ledger remembers has not been spent.
RememberedIsUnspent == \A g \in approved : acts[g] = 0 /\ g \in vouched

\* Only an approved grant was ever spent.
SpentWasApproved == \A g \in Grant : proposal[g] # "approved" => acts[g] = 0

\* A request that is under way is about a grant.
CallHasGrant == \A c \in Call : call[c].at # "idle" => call[c].grant \in Grant

GrantInv ==
  /\ GrantTypeOK
  /\ CallHasGrant
  /\ RememberedIsStored
  /\ RememberedIsUnspent
  /\ SpentWasApproved
  /\ SpentOnce

\* No grant has been proposed.
LEMMA GrantInitHolds == GrantInit => GrantInv
BY DEF GrantInit, Idle, GrantInv, GrantTypeOK, CallHasGrant, RememberedIsStored, RememberedIsUnspent, SpentWasApproved, SpentOnce

\* Every step of a grant, and of a call that spends one.
LEMMA GrantNextKeeps == GrantInv /\ [GrantNext]_grantVars => GrantInv'
<1> SUFFICES ASSUME GrantInv, [GrantNext]_grantVars PROVE GrantInv'
  OBVIOUS
<1> USE DEF GrantInv, GrantTypeOK, CallHasGrant, RememberedIsStored, RememberedIsUnspent, SpentWasApproved, SpentOnce
<1>1. CASE UNCHANGED grantVars
  BY <1>1 DEF grantVars
<1>2. ASSUME NEW g \in Grant, Request(g) PROVE GrantInv'
  BY <1>2 DEF Request
<1>3. ASSUME NEW g \in Grant, ApproveExpired(g) PROVE GrantInv'
  BY <1>3 DEF ApproveExpired
<1>4. ASSUME NEW g \in Grant, SpendUnavailable(g) PROVE GrantInv'
  BY <1>4 DEF SpendUnavailable, Forgets
<1>5. ASSUME NEW g \in Grant, Lapse(g) PROVE GrantInv'
  BY <1>5 DEF Lapse
<1>6. ASSUME NEW c \in Call, ApproveConfirmed(c) PROVE GrantInv'
  <2>1. CASE CanDecide(call[c].grant)
    <3> DEFINE g == call[c].grant
    <3>1. g \in Grant
      BY <1>6 DEF ApproveConfirmed
    <3>2. acts[g] = 0
      BY <2>1, <3>1 DEF CanDecide
    <3>3. /\ proposal' = [proposal EXCEPT ![g] = "approved"]
          /\ approved' = approved \cup {g} /\ vouched' = vouched \cup {g}
          /\ call' = [call EXCEPT ![c] = Idle]
          /\ UNCHANGED <<lapsed, acts>>
      BY <1>6, <2>1 DEF ApproveConfirmed, Returns
    <3> HIDE DEF g
    <3>4. GrantTypeOK' /\ CallHasGrant'
      BY <3>1, <3>3 DEF Idle
    <3>5. RememberedIsStored' /\ RememberedIsUnspent' /\ SpentWasApproved' /\ SpentOnce'
      BY <3>1, <3>2, <3>3
    <3> QED BY <3>4, <3>5
  <2>2. CASE ~CanDecide(call[c].grant)
    BY <1>6, <2>2 DEF ApproveConfirmed, Returns, Idle
  <2> QED BY <2>1, <2>2
<1>7. ASSUME NEW c \in Call, ApproveRefused(c) \/ PrepareFails(c) \/ ActEnds(c) PROVE GrantInv'
  BY <1>7 DEF ApproveRefused, PrepareFails, ActEnds, Returns, Idle
<1>8. ASSUME NEW c \in Call, NEW g \in Grant, Available(g), Acts(c, g),
             UNCHANGED <<proposal, lapsed, vouched>>
      PROVE  GrantInv'
  BY <1>8 DEF Available, Acts
<1>9. ASSUME NEW c \in Call, Prepared(c) PROVE GrantInv'
  <2>1. CASE Available(call[c].grant)
    <3>1. call[c].grant \in Grant
      BY <2>1 DEF Available
    <3> QED BY <1>8, <1>9, <2>1, <3>1 DEF Prepared
  <2>2. CASE ~Available(call[c].grant)
    BY <1>9, <2>2 DEF Prepared, Returns, Forgets, Idle
  <2> QED BY <2>1, <2>2
<1>10. ASSUME NEW c \in Call, NEW g \in Grant, ApproveStart(c, g) \/ SpendStart(c, g) PROVE GrantInv'
  BY <1>10 DEF ApproveStart, SpendStart, Begins, Idle
<1>11. ASSUME NEW c \in Call, NEW g \in Grant, SpendAtOnce(c, g) PROVE GrantInv'
  BY <1>8, <1>11 DEF SpendAtOnce
<1>12. CASE Restart
  BY <1>12 DEF Restart, Idle
<1> QED BY <1>1, <1>2, <1>3, <1>4, <1>5, <1>6, <1>7, <1>9, <1>10, <1>11, <1>12 DEF GrantNext

-----------------------------------------------------------------------------
(* Grants: the theorems. *)

\* The inductive invariant holds of every reachable state.
THEOREM GrantInvariance == GrantSpec => []GrantInv
BY GrantInitHolds, GrantNextKeeps, PTL DEF GrantSpec

\* No interleaving of spends, approvals, expiries and restarts spends a grant
\* twice (delegation-grants.mjs:209-256).
THEOREM SpendsOnce == GrantSpec => []SpentOnce
<1>1. GrantInv => SpentOnce
  BY DEF GrantInv
<1> QED BY GrantInvariance, <1>1, PTL

\* The ledger's memory never claims more than the disk
\* (delegation-grants.mjs:198-204).
THEOREM MemoryIsBacked == GrantSpec => []RememberedIsStored
<1>1. GrantInv => RememberedIsStored
  BY DEF GrantInv
<1> QED BY GrantInvariance, <1>1, PTL

\* An act begins only for a grant vouched for since the start and not lapsed,
\* whatever happened during its preparation (delegation-grants.mjs:228-256).
THEOREM ActsAreLive == GrantSpec => ActsOnlyOnLiveGrants
<1>1. GrantInv /\ [GrantNext]_grantVars => [\A g \in Grant : acts'[g] > acts[g] => g \in vouched \ lapsed]_grantVars
  <2> SUFFICES ASSUME GrantInv, [GrantNext]_grantVars, NEW g \in Grant, acts'[g] > acts[g]
               PROVE  g \in vouched \ lapsed
    OBVIOUS
  <2>1. acts' # acts
    BY DEF GrantInv, GrantTypeOK
  <2>2. \E c \in Call, h \in Grant : Available(h) /\ Acts(c, h)
    BY <2>1 DEF GrantNext, grantVars, Request, ApproveExpired, SpendUnavailable, Lapse, ApproveConfirmed,
                ApproveRefused, Prepared, PrepareFails, ActEnds, ApproveStart, SpendAtOnce, SpendStart,
                Restart, Available, GrantInv, GrantTypeOK
  <2>3. PICK c \in Call, h \in Grant : Available(h) /\ Acts(c, h)
    BY <2>2
  <2>4. g = h
    BY <2>3 DEF Acts, GrantInv, GrantTypeOK
  <2> QED BY <2>3, <2>4 DEF Available, GrantInv, RememberedIsUnspent
<1> QED BY GrantInvariance, <1>1, PTL DEF GrantSpec, ActsOnlyOnLiveGrants

-----------------------------------------------------------------------------
(* The chain of trust: the invariant. *)

\* The kind of the record at each place of the chain.
KindAt(n) == IF n = 1 THEN "namespace" ELSE IF n % 2 = 0 THEN "enrollment" ELSE "revocation"

\* A record that may come next.
Follows(rec) ==
  /\ rec \in Record
  /\ rec.kind = KindAt(Latest + 1)
  /\ Latest <= Versions
  /\ rec.kind = "enrollment" => Latest < Versions

\* The linked records, and how far their lines and confirmations go.
ChainInv ==
  /\ \A n \in 1 .. Latest : records[n].kind = KindAt(n)
  /\ Active => Latest - 1 < Versions
  /\ Latest <= Versions + 1
  /\ confirmed = 1 .. Latest \/ (Latest > 0 /\ confirmed = 1 .. (Latest - 1))
  /\ Len(audit) <= Latest
  /\ \A k \in 1 .. Len(audit) : audit[k] = k
  /\ \A n \in confirmed : n <= Len(audit)

\* What is under way: a file under the pending name belongs to the head, or
\* is the record that comes next.
PendingInv ==
  pending # None =>
    /\ ~torn
    /\ pending.part = "record" =>
         /\ pending.state = "linked" => Latest > 0 /\ Latest \notin confirmed
         /\ pending.state # "linked" => confirmed = 1 .. Latest /\ Follows(pending.rec)
    /\ pending.part = "confirmation" =>
         /\ Latest > 0 /\ Latest <= Len(audit)
         /\ Latest \in confirmed <=> pending.state = "linked"

HolderInv ==
  holder # None =>
    /\ Versioned => holder.key \in Key
    /\ holder.rec # None => pending = None /\ ~torn /\ confirmed = 1 .. Latest /\ Follows(holder.rec)

\* Half a line stays with its evidence: nobody goes on from there.
TornInv == torn => Latest > 0 /\ Latest \notin confirmed /\ pending = None /\ holder = None

\* The inductive invariant of the store.
TrustInv == TypeOK /\ ChainInv /\ PendingInv /\ HolderInv /\ TornInv

\* An empty directory is a store in order.
LEMMA TrustInitHolds == Init => TrustInv
<1> SUFFICES ASSUME Init PROVE TrustInv
  OBVIOUS
<1>1. Latest = 0 /\ Len(audit) = 0 /\ confirmed = {} /\ pending = None /\ holder = None /\ ~torn
  BY DEF Init, Latest
<1>2. TypeOK
  <2>1. records \in Seq(Record) /\ audit \in Seq(Nat)
    BY DEF Init
  <2>2. confirmed \subseteq 1 .. Latest
    BY <1>1
  <2>3. faults \in 0 .. MaxFaults /\ rotations \in 0 .. MaxRotations
    BY TrustBounds DEF Init
  <2>4. torn \in BOOLEAN /\ vouch \in Key /\ seen \in [Writer -> {None} \cup Observed]
    BY DEF Init
  <2>5. QED BY <1>1, <2>1, <2>2, <2>3, <2>4 DEF TypeOK
<1>3. confirmed = 1 .. Latest
  BY <1>1
<1>4. QED BY <1>1, <1>2, <1>3, TrustBounds DEF TrustInv, ChainInv, PendingInv, HolderInv, TornInv, Active

\* Every step keeps the types.
LEMMA TrustNextTypes == TrustInv /\ [Next]_vars => TypeOK'
<1> SUFFICES ASSUME TrustInv, [Next]_vars PROVE TypeOK'
  OBVIOUS
<1> USE NoneAssumption, TrustBounds
<1>1. /\ records \in Seq(Record) /\ audit \in Seq(Nat) /\ torn \in BOOLEAN
      /\ confirmed \subseteq 1 .. Latest
      /\ pending \in {None} \cup PendingFile
      /\ holder \in {None} \cup Operation
      /\ seen \in [Writer -> {None} \cup Observed]
      /\ vouch \in Key
      /\ faults \in 0 .. MaxFaults /\ rotations \in 0 .. MaxRotations
  BY DEF TrustInv, TypeOK
<1>2. Latest \in Nat
  BY <1>1 DEF Latest
<1> DEFINE FilesOK == /\ records' \in Seq(Record) /\ audit' \in Seq(Nat) /\ torn' \in BOOLEAN
                      /\ confirmed' \subseteq 1 .. Latest'
                      /\ pending' \in {None} \cup PendingFile
           HolderOK == holder' \in {None} \cup Operation
           RestOK == /\ seen' \in [Writer -> {None} \cup Observed] /\ vouch' \in Key
                     /\ faults' \in 0 .. MaxFaults /\ rotations' \in 0 .. MaxRotations
<1>3. ASSUME FilesOK, HolderOK, RestOK PROVE TypeOK'
  BY <1>3 DEF TypeOK
<1>4. UNCHANGED files => FilesOK
  BY <1>1 DEF files, Latest
<1>5. UNCHANGED <<seen, vouch, faults, rotations>> => RestOK
  BY <1>1
<1> HIDE DEF RestOK
<1>6. ASSUME NEW w \in Writer, Observe(w) PROVE TypeOK'
  <2>1. Observation \in Observed
    BY <1>1, <1>2 DEF Observation, Observed
  <2>2. FilesOK
    BY <1>4, <1>6 DEF Observe
  <2>3. HolderOK
    BY <1>1, <1>6 DEF Observe
  <2>4. RestOK
    BY <1>1, <1>6, <2>1 DEF Observe, RestOK
  <2>5. QED BY <1>3, <2>2, <2>3, <2>4
<1>7. ASSUME NEW w \in Writer, EnrollNamespace(w) \/ RevokeKeys(w) \/ Reconcile(w) \/ \E p \in Pair : EnrollKeys(w, p)
      PROVE  TypeOK'
  <2>1. FilesOK
    BY <1>4, <1>7 DEF EnrollNamespace, RevokeKeys, Reconcile, EnrollKeys, Expected
  <2>2. RestOK
    BY <1>5, <1>7 DEF EnrollNamespace, RevokeKeys, Reconcile, EnrollKeys, Expected
  <2>3. holder' \in Operation
    BY <1>1, <1>7 DEF EnrollNamespace, RevokeKeys, Reconcile, EnrollKeys, Hold, Operation, Record
  <2>4. QED BY <1>3, <2>1, <2>2, <2>3
<1>8. holder # None =>
        /\ holder \in Operation
        /\ [holder EXCEPT !.rec = None] \in Operation
        /\ Asked \in Operation
  BY <1>1 DEF Operation, Asked
<1>9. CASE WriteRecord
  <2>1. pending' \in PendingFile
    BY <1>8, <1>9 DEF WriteRecord, AtRecord, File, PendingFile, Operation
  <2>2. FilesOK
    BY <1>1, <1>9, <2>1 DEF WriteRecord, Latest
  <2>3. HolderOK /\ RestOK
    BY <1>5, <1>8, <1>9 DEF WriteRecord, AtRecord
  <2>4. QED BY <1>3, <2>2, <2>3
<1>10. CASE LinkPending
  <2>1. pending \in PendingFile /\ pending' \in PendingFile
    BY <1>1, <1>10 DEF LinkPending, PendingFile
  <2>2. CASE pending.part = "record"
    <3>1. pending.rec \in Record
      BY <1>10, <2>1, <2>2 DEF LinkPending, TrustInv, PendingInv, Follows
    <3>2. records' = Append(records, pending.rec) /\ UNCHANGED <<audit, torn, confirmed>>
      BY <1>10, <2>2 DEF LinkPending
    <3>3. records' \in Seq(Record) /\ Latest' = Latest + 1
      BY <1>1, <3>1, <3>2 DEF Latest
    <3>4. confirmed' \subseteq 1 .. Latest'
      BY <1>1, <1>2, <3>2, <3>3
    <3>5. QED BY <1>1, <1>3, <1>5, <1>10, <2>1, <3>2, <3>3, <3>4 DEF LinkPending
  <2>3. CASE pending.part # "record"
    <3>1. confirmed' = confirmed \cup {Latest} /\ UNCHANGED <<records, audit, torn>>
      BY <1>10, <2>3 DEF LinkPending, HeadConfirmed
    <3>2. Latest > 0
      BY <1>10, <2>1, <2>3 DEF LinkPending, TrustInv, PendingInv, PendingFile
    <3>3. Latest' = Latest /\ confirmed' \subseteq 1 .. Latest
      <4>1. Latest' = Latest
        BY <3>1 DEF Latest
      <4>2. confirmed \cup {Latest} \subseteq 1 .. Latest
        BY <1>1, <1>2, <3>2
      <4>3. QED BY <3>1, <4>1, <4>2
    <3>4. FilesOK
      BY <1>1, <2>1, <3>1, <3>3
    <3>5. QED BY <1>1, <1>3, <1>5, <1>10, <3>4 DEF LinkPending
  <2>4. QED BY <2>2, <2>3
<1>11. CASE UnlinkPending
  BY <1>1, <1>3, <1>5, <1>11 DEF UnlinkPending, Latest
<1>12. CASE AppendAudit
  <2>1. audit' \in Seq(Nat)
    BY <1>1, <1>2, <1>12 DEF AppendAudit
  <2>2. FilesOK
    BY <1>1, <1>12, <2>1 DEF AppendAudit, Latest
  <2>3. HolderOK /\ RestOK
    BY <1>5, <1>8, <1>12 DEF AppendAudit, AtHead
  <2>4. QED BY <1>3, <2>2, <2>3
<1>13. CASE WriteConfirmation
  <2>1. pending' \in PendingFile
    BY <1>13 DEF WriteConfirmation, File, PendingFile
  <2>2. FilesOK
    BY <1>1, <1>13, <2>1 DEF WriteConfirmation, Latest
  <2>3. HolderOK /\ RestOK
    BY <1>5, <1>8, <1>13 DEF WriteConfirmation, AtHead
  <2>4. QED BY <1>3, <2>2, <2>3
<1>14. CASE Finish
  <2>1. Versioned => holder.who \in Writer /\ [head |-> Latest, daemonKey |-> holder.key] \in Observed
    BY <1>2, <1>8, <1>14 DEF Finish, Operation, Observed, TrustInv, HolderInv
  <2>2. seen' \in [Writer -> {None} \cup Observed]
    <3> DEFINE new == [head |-> Latest, daemonKey |-> holder.key]
    <3>1. Versioned => new \in Observed /\ holder.who \in Writer
      BY <2>1
    <3>2. seen' = IF Versioned THEN [seen EXCEPT ![holder.who] = new] ELSE seen
      BY <1>14 DEF Finish
    <3> HIDE DEF new
    <3>3. QED BY <1>1, <3>1, <3>2
  <2>3. RestOK
    BY <1>1, <1>14, <2>2 DEF Finish, RestOK
  <2>4. FilesOK /\ HolderOK
    BY <1>4, <1>14 DEF Finish
  <2>5. QED BY <1>3, <2>3, <2>4
<1>15. CASE Refuse
  BY <1>3, <1>4, <1>5, <1>15 DEF Refuse
<1>16. CASE Interrupt
  <2>1. pending' \in {None} \cup PendingFile /\ torn' \in BOOLEAN
    <3>1. pending' = pending \/ (AtRecord /\ pending' = File("record", holder.rec, "torn"))
            \/ pending' = File("confirmation", None, "torn")
      BY <1>16 DEF Interrupt
    <3>2. AtRecord => File("record", holder.rec, "torn") \in PendingFile
      BY <1>8 DEF AtRecord, File, PendingFile, Operation
    <3>3. File("confirmation", None, "torn") \in PendingFile
      BY DEF File, PendingFile
    <3>4. torn' \in BOOLEAN
      BY <1>1, <1>16 DEF Interrupt
    <3>5. QED BY <1>1, <3>1, <3>2, <3>3, <3>4
  <2>2. FilesOK
    BY <1>1, <1>16, <2>1 DEF Interrupt, Latest
  <2>3. HolderOK /\ RestOK
    BY <1>1, <1>16 DEF Interrupt, RestOK
  <2>4. QED BY <1>3, <2>2, <2>3
<1>17. CASE RotateVouch
  <2>1. HolderOK /\ RestOK
    BY <1>1, <1>17 DEF RotateVouch, RestOK
  <2>2. QED BY <1>3, <1>4, <1>17, <2>1 DEF RotateVouch
<1>18. CASE UNCHANGED vars
  BY <1>1, <1>3, <1>4, <1>5, <1>18 DEF vars, files
<1>19. QED
  BY <1>6, <1>7, <1>9, <1>10, <1>11, <1>12, <1>13, <1>14, <1>15, <1>16, <1>17, <1>18 DEF Next, Step

\* Files nobody touched keep what is said of them.
LEMMA FilesStay ==
  ASSUME UNCHANGED files, ChainInv, PendingInv PROVE ChainInv' /\ PendingInv'
BY DEF files, ChainInv, PendingInv, Active, Latest, Follows

\* A record linked in its turn extends the chain.
LEMMA ChainGrows ==
  ASSUME ChainInv, records \in Seq(Record), NEW rec, Follows(rec), confirmed = 1 .. Latest,
         records' = Append(records, rec), UNCHANGED <<audit, confirmed>>
  PROVE  ChainInv' /\ Latest' = Latest + 1 /\ Latest' \notin confirmed'
<1> USE TrustBounds
<1>1. rec \in Record /\ Latest \in Nat
  BY DEF Follows, Latest
<1>2. Latest' = Latest + 1 /\ records'[Latest + 1] = rec /\ \A n \in 1 .. Latest : records'[n] = records[n]
  BY <1>1 DEF Latest
<1>3. \A n \in 1 .. Latest' : records'[n].kind = KindAt(n)
  <2>1. \A n \in 1 .. Latest : records'[n].kind = KindAt(n)
    BY <1>2 DEF ChainInv
  <2>2. records'[Latest + 1].kind = KindAt(Latest + 1)
    BY <1>2 DEF Follows
  <2>3. \A n \in 1 .. (Latest + 1) : n \in 1 .. Latest \/ n = Latest + 1
    BY <1>1
  <2>4. QED BY <1>2, <2>1, <2>2, <2>3
<1>4. Active' => Latest' - 1 < Versions
  BY <1>1, <1>2 DEF Active, Follows
<1>5. Latest' <= Versions + 1
  BY <1>1, <1>2 DEF Follows
<1>6. Latest' > 0 /\ confirmed' = 1 .. (Latest' - 1)
  BY <1>1, <1>2
<1>7. /\ Len(audit') <= Latest'
      /\ \A k \in 1 .. Len(audit') : audit'[k] = k
      /\ \A n \in confirmed' : n <= Len(audit')
  <2>1. Len(audit) <= Latest /\ Len(audit) \in Int => Len(audit) <= Latest + 1
    BY <1>1
  <2>2. audit' = audit /\ confirmed' = confirmed
    OBVIOUS
  <2>3. QED BY <1>1, <1>2, <2>1, <2>2 DEF ChainInv
<1>8. ChainInv'
  BY <1>3, <1>4, <1>5, <1>6, <1>7 DEF ChainInv
<1>9. Latest' \notin confirmed'
  BY <1>1, <1>2, <1>6
<1>10. QED BY <1>2, <1>8, <1>9

\* What the invariant says of the numbers, at hand for every step.
LEMMA Numbers ==
  ASSUME TrustInv
  PROVE  /\ Latest \in Nat /\ Len(audit) \in Nat /\ Versions \in Nat
         /\ records \in Seq(Record) /\ audit \in Seq(Nat)
         /\ Audited(Latest) /\ Latest > 0 <=> Latest > 0 /\ Len(audit) = Latest
         /\ Settled <=> pending = None /\ ~torn /\ Latest > 0 /\ confirmed = 1 .. Latest
<1>1. /\ Latest \in Nat /\ Len(audit) \in Nat /\ Versions \in Nat
      /\ records \in Seq(Record) /\ audit \in Seq(Nat)
  BY TrustBounds DEF TrustInv, TypeOK, Latest
<1>2. Len(audit) <= Latest /\ \A k \in 1 .. Len(audit) : audit[k] = k
  BY DEF TrustInv, ChainInv
<1>3. ASSUME Latest > 0 PROVE Audited(Latest) <=> Len(audit) = Latest
  BY <1>1, <1>2, <1>3 DEF Audited
<1>4. QED BY <1>1, <1>3 DEF Settled

\* Every step keeps the chain, the pending file, the holder and the torn line
\* in order.
LEMMA TrustNextOrder == TrustInv /\ [Next]_vars => ChainInv' /\ PendingInv' /\ HolderInv' /\ TornInv'
<1> SUFFICES ASSUME TrustInv, [Next]_vars PROVE ChainInv' /\ PendingInv' /\ HolderInv' /\ TornInv'
  OBVIOUS
<1> USE NoneAssumption, TrustBounds
<1> DEFINE Kept == ChainInv' /\ PendingInv' /\ HolderInv' /\ TornInv'
<1>1. /\ TypeOK /\ ChainInv /\ PendingInv /\ HolderInv /\ TornInv
      /\ pending \in {None} \cup PendingFile /\ holder \in {None} \cup Operation /\ vouch \in Key
  BY DEF TrustInv, TypeOK
<1>2. /\ Latest \in Nat /\ Len(audit) \in Nat /\ Versions \in Nat
      /\ records \in Seq(Record) /\ audit \in Seq(Nat)
      /\ Audited(Latest) /\ Latest > 0 <=> Latest > 0 /\ Len(audit) = Latest
      /\ Settled <=> pending = None /\ ~torn /\ Latest > 0 /\ confirmed = 1 .. Latest
  BY Numbers
<1>3. ASSUME UNCHANGED files PROVE ChainInv' /\ PendingInv'
  BY <1>1, <1>3, FilesStay
\* Steps that leave the files and at most let go of the lock.
<1>4. ASSUME UNCHANGED files, holder' \in {holder, None} PROVE Kept
  <2>1. ChainInv' /\ PendingInv'
    BY <1>3, <1>4
  <2>2. HolderInv' /\ TornInv'
    BY <1>1, <1>4 DEF HolderInv, TornInv, files, Versioned, Follows, Latest
  <2>3. QED BY <2>1, <2>2
<1>5. ASSUME NEW w \in Writer, Observe(w) PROVE Kept
  BY <1>4, <1>5 DEF Observe
<1>6. CASE RotateVouch \/ Finish \/ Refuse \/ UNCHANGED vars
  BY <1>4, <1>6 DEF RotateVouch, Finish, Refuse, vars, files
\* The operations that take the lock.
<1>7. ASSUME NEW w \in Writer, NEW op, NEW rec, NEW key, UNCHANGED files, Hold(w, op, rec, key), ~torn,
             op \in {"enroll", "revoke"} => key \in Key,
             rec # None => pending = None /\ confirmed = 1 .. Latest /\ Follows(rec)
      PROVE  Kept
  <2>1. holder'.op = op /\ holder'.rec = rec /\ holder'.key = key
    BY <1>7 DEF Hold
  <2>2. HolderInv'
    <3>1. Versioned' => holder'.key \in Key
      BY <1>7, <2>1 DEF Versioned
    <3>2. rec # None => pending' = None /\ ~torn' /\ confirmed' = 1 .. Latest' /\ Follows(rec)'
      BY <1>7 DEF files, Latest, Follows
    <3>3. holder'.rec # None => Follows(holder.rec)'
      BY <2>1, <3>2 DEF Follows
    <3>4. QED BY <2>1, <3>1, <3>2, <3>3 DEF HolderInv
  <2>3. TornInv'
    BY <1>7 DEF TornInv, files
  <2>4. QED BY <1>3, <1>7, <2>2, <2>3
<1>8. /\ Namespace \in Record /\ Namespace.kind = "namespace"
      /\ Revocation \in Record /\ Revocation.kind = "revocation"
      /\ \A p \in Pair : Enrollment(p) \in Record /\ Enrollment(p).kind = "enrollment"
  BY DEF Record, Namespace, Revocation, Enrollment
<1>9. ASSUME NEW w \in Writer, EnrollNamespace(w) PROVE Kept
  <2>1. Follows(Namespace)
    BY <1>2, <1>8, <1>9 DEF Follows, EnrollNamespace, KindAt
  <2>2. confirmed = 1 .. Latest /\ ~torn
    BY <1>1, <1>2, <1>9 DEF ChainInv, TornInv, EnrollNamespace
  <2>3. QED BY <1>7, <1>9, <2>1, <2>2 DEF EnrollNamespace
<1>10. Settled => Latest > 0 /\ records[Latest].kind = KindAt(Latest) /\ (Active <=> KindAt(Latest) = "enrollment")
  <2>1. Latest > 0 => records[Latest].kind = KindAt(Latest)
    BY <1>1, <1>2 DEF ChainInv
  <2>2. QED BY <1>2, <2>1 DEF Active
<1>11. ASSUME NEW w \in Writer, NEW p \in Pair, EnrollKeys(w, p) PROVE Kept
  <2>1. Settled /\ ~Active /\ Latest < Versions
    BY <1>11 DEF EnrollKeys, Expected, RoomToEnroll
  <2>2. KindAt(Latest + 1) = "enrollment"
    <3>1. Latest \in Nat /\ Latest > 0 /\ (Latest = 1 \/ Latest % 2 # 0)
      <4>1. Latest \in Nat /\ Latest > 0 /\ KindAt(Latest) # "enrollment"
        BY <1>2, <1>10, <2>1
      <4>2. QED BY <4>1 DEF KindAt
    <3>2. (Latest + 1) % 2 = 0 /\ Latest + 1 # 1
      <4> DEFINE n == Latest
      <4>1. n \in Nat /\ n > 0 /\ (n = 1 \/ n % 2 # 0)
        BY <3>1
      <4> HIDE DEF n
      <4>2. (n + 1) % 2 = 0 /\ n + 1 # 1
        BY <4>1
      <4>3. QED BY <4>2 DEF n
    <3>3. QED BY <3>2 DEF KindAt
  <2>3. Follows(Enrollment(p))
    BY <1>2, <1>8, <2>1, <2>2 DEF Follows
  <2>4. UNCHANGED files /\ Hold(w, "enroll", Enrollment(p), vouch)
    BY <1>11 DEF EnrollKeys, Expected
  <2>5. QED BY <1>1, <1>2, <1>7, <2>1, <2>3, <2>4
<1>12. ASSUME NEW w \in Writer, RevokeKeys(w) PROVE Kept
  <2>1. Settled /\ Active /\ Latest <= Versions
    BY <1>12 DEF RevokeKeys, Expected
  <2>2. KindAt(Latest + 1) = "revocation"
    BY <1>2, <1>10, <2>1 DEF KindAt
  <2>3. Follows(Revocation)
    BY <1>2, <1>8, <2>1, <2>2 DEF Follows
  <2>4. UNCHANGED files /\ Hold(w, "revoke", Revocation, vouch)
    BY <1>12 DEF RevokeKeys, Expected
  <2>5. QED BY <1>1, <1>2, <1>7, <2>1, <2>3, <2>4
<1>13. ASSUME NEW w \in Writer, Reconcile(w) PROVE Kept
  BY <1>7, <1>13 DEF Reconcile, Repairable
\* The steps of the holder.
<1>14. holder # None => holder \in Operation /\ (Versioned => holder.key \in Key)
  BY <1>1 DEF HolderInv
<1>15. AtHead => /\ Latest > 0 /\ Latest \notin confirmed /\ confirmed = 1 .. (Latest - 1)
                 /\ pending = None /\ ~torn /\ holder # None /\ holder.rec = None
  BY <1>1, <1>2 DEF AtHead, ChainInv
<1>16. AtRecord => /\ holder # None /\ pending = None /\ ~torn /\ confirmed = 1 .. Latest /\ Follows(holder.rec)
  BY <1>1 DEF AtRecord, HolderInv
<1>17. ASSUME UNCHANGED <<records, audit, confirmed>> PROVE ChainInv' /\ Latest' = Latest
  BY <1>1, <1>17 DEF ChainInv, Active, Latest
<1>18. ASSUME NEW state \in {"whole", "torn"}, AtRecord, pending' = File("record", holder.rec, state),
              UNCHANGED <<records, audit, confirmed, torn>>
       PROVE  PendingInv'
  <2>1. pending'.part = "record" /\ pending'.state = state /\ pending'.rec = holder.rec
    BY <1>18 DEF File
  <2>2. Follows(holder.rec) /\ Latest' = Latest /\ confirmed' = 1 .. Latest /\ ~torn'
    BY <1>16, <1>17, <1>18
  <2>3. Follows(pending.rec)'
    BY <2>1, <2>2 DEF Follows
  <2>4. QED BY <2>1, <2>2, <2>3 DEF PendingInv
<1>19. ASSUME NEW state \in {"whole", "torn"}, AtHead, Audited(Latest),
              pending' = File("confirmation", None, state), UNCHANGED <<records, audit, confirmed, torn>>
       PROVE  PendingInv'
  <2>1. pending'.part = "confirmation" /\ pending'.state = state
    BY <1>19 DEF File
  <2>2. /\ Latest' > 0 /\ Latest' <= Len(audit') /\ Latest' \notin confirmed' /\ ~torn'
    BY <1>2, <1>15, <1>17, <1>19
  <2>3. QED BY <2>1, <2>2 DEF PendingInv
<1>20. CASE WriteRecord
  <2>1. ChainInv' /\ PendingInv'
    BY <1>17, <1>18, <1>20 DEF WriteRecord
  <2>2. holder' = [holder EXCEPT !.rec = None] /\ holder \in Operation /\ ~torn'
    BY <1>14, <1>16, <1>20 DEF WriteRecord
  <2>3. holder'.rec = None /\ holder'.op = holder.op /\ holder'.key = holder.key
    BY <2>2 DEF Operation
  <2>4. HolderInv'
    BY <1>14, <1>16, <1>20, <2>3 DEF HolderInv, Versioned, WriteRecord
  <2>5. QED BY <2>1, <2>2, <2>4 DEF TornInv
<1>21. CASE LinkPending
  <2>0. /\ holder # None /\ pending # None /\ pending \in PendingFile /\ pending.state = "whole"
        /\ pending' = [pending EXCEPT !.state = "linked"] /\ UNCHANGED <<audit, torn, holder>> /\ ~torn
    BY <1>1, <1>21 DEF LinkPending, TornInv
  <2>1. pending'.state = "linked" /\ pending'.part = pending.part /\ pending'.rec = pending.rec
    BY <2>0 DEF PendingFile
  <2>2. HolderInv' /\ TornInv'
    <3>1. holder.rec = None
      BY <1>1, <2>0 DEF HolderInv
    <3>2. QED BY <1>1, <2>0, <3>1 DEF HolderInv, TornInv, Versioned
  <2>3. CASE pending.part = "record"
    <3>1. confirmed = 1 .. Latest /\ Follows(pending.rec)
      BY <1>1, <2>0, <2>3 DEF PendingInv
    <3>2. records' = Append(records, pending.rec) /\ UNCHANGED <<audit, confirmed>>
      BY <1>21, <2>3 DEF LinkPending
    <3>3. ChainInv' /\ Latest' = Latest + 1 /\ Latest' \notin confirmed'
      BY <1>1, <1>2, <3>1, <3>2, ChainGrows
    <3>4. PendingInv'
      BY <1>2, <2>0, <2>1, <2>3, <3>3 DEF PendingInv
    <3>5. QED BY <2>2, <3>3, <3>4
  <2>4. CASE pending.part # "record"
    <3>1. pending.part = "confirmation"
      BY <2>0, <2>4 DEF PendingFile
    <3>2. Latest > 0 /\ Latest <= Len(audit) /\ Latest \notin confirmed
      BY <1>1, <2>0, <3>1 DEF PendingInv
    <3>3. confirmed' = confirmed \cup {Latest} /\ UNCHANGED records
      BY <1>21, <2>4 DEF LinkPending, HeadConfirmed
    <3>4. Latest' = Latest
      BY <3>3 DEF Latest
    <3>5. confirmed' = 1 .. Latest
      BY <1>1, <1>2, <3>2, <3>3 DEF ChainInv
    <3>6. ChainInv'
      BY <1>1, <1>2, <2>0, <3>2, <3>3, <3>4, <3>5 DEF ChainInv, Active
    <3>7. PendingInv'
      BY <1>2, <2>0, <2>1, <3>1, <3>2, <3>3, <3>4 DEF PendingInv
    <3>8. QED BY <2>2, <3>6, <3>7
  <2>5. QED BY <2>3, <2>4
<1>22. CASE UnlinkPending
  <2>1. holder # None /\ pending' = None /\ UNCHANGED <<records, audit, torn, confirmed, holder>>
        /\ pending # None
    BY <1>22 DEF UnlinkPending
  <2>2. ChainInv' /\ PendingInv' /\ TornInv'
    BY <1>1, <1>17, <2>1 DEF PendingInv, TornInv
  <2>3. HolderInv'
    BY <1>1, <2>1 DEF HolderInv, Versioned
  <2>4. QED BY <2>2, <2>3
<1>23. ASSUME holder # None, holder.rec = None, holder' \in {holder, Asked}
       PROVE  holder'.rec = None /\ (Versioned' => holder'.key \in Key)
  <2>1. CASE holder' = holder
    BY <1>14, <1>23, <2>1 DEF Versioned
  <2>2. CASE holder' = Asked /\ holder.op = "reconcile"
    <3>1. holder'.op = "reconcile" /\ holder'.rec = None
      BY <1>14, <1>23, <2>2 DEF Asked, Operation
    <3>2. QED BY <3>1 DEF Versioned
  <2>3. CASE holder' = Asked /\ holder.op # "reconcile"
    BY <1>14, <1>23, <2>3 DEF Asked, Versioned
  <2>4. QED BY <1>23, <2>1, <2>2, <2>3
<1>24. CASE AppendAudit
  <2>1. /\ audit' = Append(audit, Latest) /\ ~Audited(Latest) /\ holder' = Asked
        /\ UNCHANGED <<records, torn, confirmed, pending>>
    BY <1>24 DEF AppendAudit, LineMissing
  <2>2. AtHead
    BY <1>24 DEF AppendAudit
  <2>3. Len(audit) = Latest - 1
    <3>1. Latest - 1 <= Len(audit)
      <4>1. CASE Latest = 1
        BY <1>1, <4>1
      <4>2. CASE Latest # 1
        <5>1. Latest - 1 \in 1 .. (Latest - 1) /\ Latest \in Nat
          BY <1>2, <1>15, <2>2, <4>2
        <5>2. Latest - 1 \in confirmed
          BY <1>2, <1>15, <2>2, <5>1 DEF ChainInv
        <5>3. QED BY <1>1, <5>2 DEF ChainInv
      <4>3. QED BY <4>1, <4>2
    <3>2. Len(audit) <= Latest /\ Len(audit) # Latest
      BY <1>1, <1>2, <1>15, <2>1, <2>2 DEF ChainInv
    <3>3. QED BY <1>2, <3>1, <3>2
  <2>4. Len(audit') = Latest /\ \A k \in 1 .. Latest : audit'[k] = k
    BY <1>1, <1>2, <2>1, <2>3 DEF ChainInv
  <2>5. Latest' = Latest
    BY <2>1 DEF Latest
  <2>6. ChainInv'
    BY <1>1, <1>2, <1>15, <2>1, <2>2, <2>4, <2>5 DEF ChainInv, Active
  <2>7. HolderInv' /\ PendingInv' /\ TornInv'
    BY <1>15, <1>23, <2>1, <2>2 DEF HolderInv, PendingInv, TornInv
  <2>8. QED BY <2>6, <2>7
<1>25. CASE WriteConfirmation
  <2>1. ChainInv' /\ PendingInv'
    BY <1>17, <1>19, <1>25 DEF WriteConfirmation
  <2>2. HolderInv' /\ TornInv'
    BY <1>15, <1>23, <1>25 DEF HolderInv, TornInv, WriteConfirmation
  <2>3. QED BY <2>1, <2>2
<1>26. CASE Interrupt
  <2>1. holder' = None /\ UNCHANGED <<records, audit, confirmed>>
    BY <1>26 DEF Interrupt
  <2>2. ChainInv' /\ Latest' = Latest
    BY <1>17, <2>1
  <2>3. HolderInv'
    BY <2>1 DEF HolderInv
  <2>4. CASE UNCHANGED <<pending, torn>>
    BY <1>4, <2>1, <2>4 DEF files
  <2>5. CASE AtRecord /\ pending' = File("record", holder.rec, "torn") /\ UNCHANGED torn
    BY <1>16, <1>18, <2>1, <2>2, <2>3, <2>5 DEF TornInv
  <2>6. CASE AtHead /\ torn' = TRUE /\ UNCHANGED pending
    BY <1>15, <2>1, <2>2, <2>3, <2>6 DEF TornInv, PendingInv
  <2>7. CASE AtHead /\ Audited(Latest) /\ pending' = File("confirmation", None, "torn") /\ UNCHANGED torn
    BY <1>15, <1>19, <2>1, <2>2, <2>3, <2>7 DEF TornInv
  <2>8. QED BY <1>26, <2>4, <2>5, <2>6, <2>7 DEF Interrupt
<1>27. QED
  BY <1>5, <1>6, <1>9, <1>11, <1>12, <1>13, <1>20, <1>21, <1>22, <1>24, <1>25, <1>26 DEF Next, Step

-----------------------------------------------------------------------------
(* The chain of trust: the theorems. *)

\* The inductive invariant holds of every reachable state.
THEOREM TrustInvariance == Spec => []TrustInv
<1>1. Init => TrustInv
  BY TrustInitHolds
<1>2. TrustInv /\ [Next]_vars => TrustInv'
  BY TrustNextTypes, TrustNextOrder DEF TrustInv
<1>3. QED BY <1>1, <1>2, PTL DEF Spec

\* The files and the callers hold what they can hold: no step writes a record,
\* a pending file or an observation of another form.
THEOREM TrustTypeCorrect == Spec => []TypeOK
<1>1. TrustInv => TypeOK
  BY DEF TrustInv
<1>2. QED BY <1>1, TrustInvariance, PTL

\* The invariant is what a reader checks: the one line of a confirmed record is
\* the line that stands at its place.
LEMMA InvReadsBack == TrustInv => ReadsBack
<1> SUFFICES ASSUME TrustInv PROVE ReadsBack
  OBVIOUS
<1>1. /\ Latest \in Nat /\ Len(audit) \in Nat /\ audit \in Seq(Nat)
  BY Numbers
<1>2. ChainInv /\ TornInv /\ confirmed \subseteq 1 .. Latest
  BY DEF TrustInv, TypeOK
<1>3. \A n \in 1 .. Latest : records[n].kind = IF n = 1 THEN "namespace"
                                               ELSE IF n % 2 = 0 THEN "enrollment" ELSE "revocation"
  BY <1>2 DEF ChainInv, KindAt
<1>4. \A n \in 1 .. Latest : n # Latest => n \in confirmed
  BY <1>1, <1>2 DEF ChainInv
<1>5. ASSUME NEW n \in confirmed PROVE Cardinality({k \in 1 .. Len(audit) : audit[k] = n}) = 1
  <2>1. n \in 1 .. Len(audit)
    BY <1>1, <1>2 DEF ChainInv
  <2>2. {k \in 1 .. Len(audit) : audit[k] = n} = {n}
    BY <1>2, <2>1 DEF ChainInv
  <2>3. QED BY <2>2, FS_Singleton
<1>6. \A k \in 1 .. Len(audit) : audit[k] = k /\ k <= Latest
  BY <1>1, <1>2 DEF ChainInv
<1>7. QED BY <1>2, <1>3, <1>4, <1>5, <1>6 DEF ReadsBack, ChainInv, TornInv

\* However often a write, a link or a reconciliation is interrupted, and
\* wherever, readGraph never refuses the chain that is left for what it says
\* itself (owner-decision-trust.mjs, readGraph).
THEOREM TrustReadsBack == Spec => []ReadsBack
BY InvReadsBack, TrustInvariance, PTL

\* The places of the enrollments that have been published.
GrantedAt == {m \in confirmed : /\ records[m].kind = "enrollment"
                                /\ ~(pending # None /\ pending.part = "confirmation" /\ m = Latest)}

\* The versions granted are a function of those places.
LEMMA GrantedSame == GrantedAt' = GrantedAt => Granted' = Granted
BY DEF Granted, GrantedAt

\* Nothing is vouched for without a settled, active graph.
LEMMA Unsettled == (Settled => ~Active) => Vouched = None
BY DEF Vouched

\* Each step is one of the authority's or is not seen by a reader.  A record's
\* first byte withdraws the pair, and so does half an audit line; the unlinking
\* of a confirmation's pending name grants it, in a version no pair had.
LEMMA TrustNextPromise == TrustInv /\ [Next]_vars => [Promised!TrustNext]_(Promised!trustVars)
<1> SUFFICES ASSUME TrustInv, [Next]_vars PROVE [Promised!TrustNext]_(Promised!trustVars)
  OBVIOUS
<1> USE NoneAssumption, TrustBounds
<1> DEFINE Promise == [Promised!TrustNext]_(Promised!trustVars)
<1> SUFFICES Promise
  OBVIOUS
<1>1. /\ Latest \in Nat /\ Len(audit) \in Nat /\ Versions \in Nat
      /\ records \in Seq(Record) /\ audit \in Seq(Nat)
  BY Numbers
<1>2. /\ ChainInv /\ PendingInv /\ HolderInv /\ TornInv
      /\ confirmed \subseteq 1 .. Latest
      /\ pending \in {None} \cup PendingFile
      /\ holder \in {None} \cup Operation
  BY DEF TrustInv, TypeOK
<1>3. ASSUME Vouched' = Vouched, GrantedAt' = GrantedAt PROVE Promise
  BY <1>3, GrantedSame DEF Promised!trustVars
<1>4. ASSUME Vouched' = None, GrantedAt' = GrantedAt PROVE Promise
  <2>1. Granted' = Granted
    BY <1>4, GrantedSame
  <2>2. CASE Vouched = None
    BY <1>4, <2>1, <2>2 DEF Promised!trustVars
  <2>3. CASE Vouched # None
    BY <1>4, <2>1, <2>3 DEF Promised!TrustNext, Promised!Withdraw
  <2>4. QED BY <2>2, <2>3
<1> HIDE DEF Promise
\* Steps that leave the files as they are.
<1>5. ASSUME UNCHANGED files PROVE Promise
  <2>1. Vouched' = Vouched
    BY <1>5 DEF files, Vouched, Settled, Active, Latest
  <2>2. GrantedAt' = GrantedAt
    BY <1>5 DEF files, GrantedAt, Latest
  <2>3. QED BY <1>3, <2>1, <2>2
<1>6. CASE Finish \/ Refuse \/ RotateVouch \/ UNCHANGED vars
  BY <1>5, <1>6 DEF Finish, Refuse, RotateVouch, vars, files
<1>7. ASSUME NEW w \in Writer,
             Observe(w) \/ EnrollNamespace(w) \/ RevokeKeys(w) \/ Reconcile(w) \/ \E p \in Pair : EnrollKeys(w, p)
      PROVE  Promise
  BY <1>5, <1>7 DEF Observe, EnrollNamespace, RevokeKeys, Reconcile, EnrollKeys, Expected
\* A record's first bytes: what was vouched for is withdrawn.
<1>8. ASSUME NEW state \in {"torn", "whole"}, AtRecord, pending' = File("record", holder.rec, state), UNCHANGED <<records, confirmed>>
      PROVE  Promise
  <2>1. pending = None /\ pending'.part = "record"
    BY <1>2, <1>8 DEF AtRecord, HolderInv, File
  <2>2. GrantedAt' = GrantedAt
    BY <1>8, <2>1 DEF GrantedAt
  <2>3. pending' # None
    <3>1. holder.rec \in Record \cup {None}
      BY <1>2, <1>8 DEF AtRecord, Operation
    <3>2. pending' \in PendingFile
      BY <1>8, <3>1 DEF File, PendingFile
    <3>3. QED BY <3>2
  <2>4. Vouched' = None
    BY <2>3, Unsettled DEF Vouched, Settled
  <2>5. QED BY <1>4, <2>2, <2>4
\* The head is unconfirmed: nobody is told of it.
<1>9. ASSUME AtHead, UNCHANGED <<records, confirmed>>,
             pending' = None \/ \E state : pending' = File("confirmation", None, state)
      PROVE  Promise
  <2>1. pending = None /\ Latest' = Latest /\ Latest \notin confirmed /\ Latest \in 1 .. Latest
    BY <1>1, <1>9 DEF AtHead, Latest
  <2>2. GrantedAt' = GrantedAt
    BY <1>9, <2>1 DEF GrantedAt
  <2>3. ~Settled'
    BY <1>9, <2>1 DEF Settled
  <2>4. Vouched' = None
    BY <2>3 DEF Vouched
  <2>5. QED BY <1>4, <2>2, <2>4
<1>10. CASE WriteRecord
  BY <1>8, <1>10 DEF WriteRecord
<1>11. CASE AppendAudit
  <2>1. pending' = None
    BY <1>11 DEF AppendAudit, AtHead
  <2>2. QED BY <1>9, <1>11, <2>1 DEF AppendAudit
<1>12. CASE WriteConfirmation
  BY <1>9, <1>12 DEF WriteConfirmation
<1>13. CASE Interrupt
  <2>1. UNCHANGED <<records, audit, confirmed>>
    BY <1>13 DEF Interrupt
  <2>2. CASE UNCHANGED <<pending, torn>>
    BY <1>5, <2>1, <2>2 DEF files
  <2>3. CASE AtRecord /\ pending' = File("record", holder.rec, "torn")
    BY <1>8, <2>1, <2>3
  <2>4. CASE AtHead /\ UNCHANGED pending
    <3>1. pending' = None
      BY <2>4 DEF AtHead
    <3>2. QED BY <1>9, <2>1, <2>4, <3>1
  <2>5. CASE AtHead /\ pending' = File("confirmation", None, "torn")
    BY <1>9, <2>1, <2>5
  <2>6. QED BY <1>13, <2>2, <2>3, <2>4, <2>5 DEF Interrupt
\* A linked file keeps the store refused until its pending name goes.
<1>14. CASE LinkPending
  <2>1. pending # None /\ pending \in PendingFile /\ pending' = [pending EXCEPT !.state = "linked"]
    BY <1>2, <1>14 DEF LinkPending
  <2>2. pending' \in PendingFile /\ pending'.part = pending.part /\ pending.part \in {"record", "confirmation"}
    BY <2>1 DEF PendingFile
  <2>3. Vouched' = None
    BY <2>2, Unsettled DEF Vouched, Settled
  <2>4. CASE pending.part = "record"
    <3>1. records' = Append(records, pending.rec) /\ confirmed' = confirmed
      BY <1>14, <2>4 DEF LinkPending
    <3>2. \A m \in confirmed : records'[m] = records[m]
      BY <1>1, <1>2, <3>1 DEF Latest
    <3>3. GrantedAt' = GrantedAt
      BY <2>2, <2>4, <3>1, <3>2 DEF GrantedAt
    <3>4. QED BY <1>4, <2>3, <3>3
  <2>5. CASE pending.part = "confirmation"
    <3>1. records' = records /\ confirmed' = confirmed \cup {Latest}
      BY <1>14, <2>5 DEF LinkPending, HeadConfirmed
    <3>2. pending' # None /\ pending'.part = "confirmation" /\ Latest' = Latest
      BY <2>2, <2>5, <3>1 DEF Latest
    <3>3. GrantedAt' = GrantedAt
      BY <2>1, <2>5, <3>1, <3>2 DEF GrantedAt
    <3>4. QED BY <1>4, <2>3, <3>3
  <2>6. QED BY <2>2, <2>4, <2>5
\* The pending name goes: a confirmed enrollment is granted there.
<1>15. CASE UnlinkPending
  <2>1. /\ pending # None /\ pending \in PendingFile /\ pending.state = "linked"
        /\ pending' = None /\ UNCHANGED <<records, audit, torn, confirmed>>
    BY <1>2, <1>15 DEF UnlinkPending
  <2>2. Latest' = Latest /\ pending.part \in {"record", "confirmation"} /\ ~torn /\ Latest > 0
    BY <1>2, <2>1 DEF Latest, PendingFile, PendingInv
  <2>3. CASE pending.part = "record"
    <3>1. Latest \notin confirmed /\ Latest \in 1 .. Latest
      BY <1>1, <1>2, <2>1, <2>2, <2>3 DEF PendingInv
    <3>2. ~Settled'
      BY <2>1, <2>2, <3>1 DEF Settled
    <3>3. GrantedAt' = GrantedAt
      BY <2>1, <2>3 DEF GrantedAt
    <3>4. QED BY <1>4, <3>2, <3>3 DEF Vouched
  <2>4. CASE pending.part = "confirmation"
    <3>1. Latest \in confirmed
      BY <1>2, <2>1, <2>4 DEF PendingInv
    <3>2. confirmed = 1 .. Latest
      BY <1>1, <1>2, <3>1 DEF ChainInv
    <3>3. Settled' /\ Active' = Active
      BY <2>1, <2>2, <3>2 DEF Settled, Active
    <3>4. GrantedAt = {m \in 1 .. (Latest - 1) : records[m].kind = "enrollment"}
      BY <1>1, <2>1, <2>4, <3>2 DEF GrantedAt
    <3>5. GrantedAt' = {m \in 1 .. Latest : records[m].kind = "enrollment"}
      BY <2>1, <3>2 DEF GrantedAt
    <3>6. CASE ~Active
      <4>1. GrantedAt' = GrantedAt
        BY <1>1, <2>2, <3>4, <3>5, <3>6 DEF Active
      <4>2. Vouched' = None
        BY <3>3, <3>6 DEF Vouched
      <4>3. QED BY <1>4, <4>1, <4>2
    <3>7. CASE Active
      <4> DEFINE p == records[Latest].pins
                 v == Latest - 1
      <4>1. Vouched = None /\ Vouched' = [version |-> v, keys |-> p]
        BY <2>1, <2>2, <3>3, <3>7 DEF Vouched, Settled
      <4>2. p \in Pair
        <5>1. records[Latest] \in Record
          BY <1>1, <2>2 DEF Latest
        <5>2. records[Latest].kind = "enrollment"
          BY <3>7 DEF Active
        <5>3. QED BY <5>1, <5>2 DEF Record, Namespace, Revocation, Enrollment
      <4>3. v \in 1 .. (Versions - 1)
        <5>1. Latest # 1
          BY <1>2, <2>2, <3>7 DEF ChainInv, KindAt, Active
        <5>2. Latest - 1 < Versions
          BY <1>2, <3>7 DEF ChainInv
        <5>3. QED BY <1>1, <2>2, <5>1, <5>2
      <4>4. \A u \in Granted : u < v
        <5>1. Granted = {n - 1 : n \in GrantedAt}
          BY DEF Granted, GrantedAt
        <5>2. QED BY <1>1, <3>4, <5>1
      <4>5. GrantedAt' = GrantedAt \cup {Latest}
        <5>1. Latest \in 1 .. Latest /\ 1 .. Latest = 1 .. (Latest - 1) \cup {Latest}
          BY <1>1, <2>2
        <5>2. records[Latest].kind = "enrollment"
          BY <3>7 DEF Active
        <5>3. QED BY <3>4, <3>5, <5>1, <5>2
      <4>6. Granted' = Granted \cup {v}
        <5>1. Granted = {n - 1 : n \in GrantedAt} /\ Granted' = {n - 1 : n \in GrantedAt'}
          BY DEF Granted, GrantedAt
        <5>2. QED BY <4>5, <5>1
      <4> HIDE DEF p, v
      <4>7. Promised!Enroll
        BY <4>1, <4>2, <4>3, <4>4, <4>6 DEF Promised!Enroll
      <4>8. QED BY <4>7 DEF Promise, Promised!TrustNext
    <3>8. QED BY <3>6, <3>7
  <2>5. QED BY <2>2, <2>3, <2>4
<1>16. QED
  BY <1>6, <1>7, <1>10, <1>11, <1>12, <1>13, <1>14, <1>15 DEF Next, Step

\* The chain of files implements TrustAuthority for any number of keys, owners,
\* versions and interruptions: a revocation begun is never undone, a version is
\* never vouched for twice, and none is granted in the last version
\* (owner-decision-trust.mjs, enrollKeysV1, revokeKeysV1, reconcile).
THEOREM TrustPromiseKept == Spec => ImplementsTrustAuthority
<1>1. Init => Promised!TrustInit
  <2>1. ASSUME Init PROVE Vouched = None /\ Granted = {}
    BY <2>1 DEF Init, Vouched, Settled, Latest, Granted
  <2>2. QED BY <2>1 DEF Promised!TrustInit
<1>2. TrustInv /\ [Next]_vars => [Promised!TrustNext]_(Promised!trustVars)
  BY TrustNextPromise
<1>3. QED BY <1>1, <1>2, TrustInvariance, PTL DEF Spec, ImplementsTrustAuthority, Promised!TrustSpec
=============================================================================
