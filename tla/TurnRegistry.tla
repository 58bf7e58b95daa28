----------------------------- MODULE TurnRegistry -----------------------------
(***************************************************************************)
(* The turns of one soul in one daemon, and everything that can hold them  *)
(* back: the turn registry (turn-registry.mjs), the session grants it owns *)
(* (session-approvals.mjs), the permission decisions of a running turn     *)
(* (executor-contract.mjs), and the owner's pause, resume, stop and        *)
(* computer-use switch (agent-daemon.mjs).                                 *)
(*                                                                         *)
(* A step is what runs between two awaits.  The registry's own policy is   *)
(* synchronous in the daemon, so starting a wake is one step; an           *)
(* interactive turn awaits its task report and the owner's verification of *)
(* a stale persona before its executor.  A decision and the code after the *)
(* await it settles run in one step, as no handler runs between them.      *)
(***************************************************************************)
EXTENDS Naturals

CONSTANTS
  Wake,         \* turns run through the registry: cold, launch and resumed
  Interactive,  \* turns the interaction service runs and the registry tracks
  Session,      \* harness sessions turns bind
  Tool,         \* tool names a harness asks for
  ComputerUse,  \* those that operate the owner's computer
  Unasked,      \* those policy, mode or risk allow without asking anybody
  NoTurn,
  NoLease

Turn == Wake \cup Interactive

ASSUME TurnRegistryAssumption ==
  /\ Wake \cap Interactive = {}
  /\ ComputerUse \subseteq Tool
  /\ Unasked \subseteq Tool
  /\ NoTurn \notin Turn
  /\ NoLease \notin [by : Turn, session : Session, tools : SUBSET Tool]

VARIABLES
  paused,       \* the soul's census row: paused
  computerUse,  \* the soul's census row: computer use on
  turn,         \* every turn
  tracked,      \* the registry's controllers of the soul
  acting,       \* turns the daemon shows as using the computer
  lease         \* the soul's entry in the session grants, or NoLease

registryVars == <<paused, computerUse, turn, tracked, acting, lease>>

\* A binding of the soul to a harness session; one turn's bind made it, and a
\* session bound again after another one is a new lease.
Lease == [by : Turn, session : Session, tools : SUBSET Tool]

\* A permission request that waits on the owner: its tool, and the lease an
\* approval for the session would be added to.
Ask == [tool : Tool, lease : Turn \cup {NoTurn}]

\* `acted` is a history value: the turn was allowed a computer-use tool.
TurnState ==
  [at : {"idle", "reporting", "verifying", "running", "ended"},
   aborted : BOOLEAN,
   lease : Turn \cup {NoTurn},
   tools : SUBSET Tool,
   asks : SUBSET Ask,
   acted : BOOLEAN]

RegistryTypeOK ==
  /\ paused \in BOOLEAN
  /\ computerUse \in BOOLEAN
  /\ turn \in [Turn -> TurnState]
  /\ tracked \subseteq Turn
  /\ acting \subseteq Turn
  /\ lease \in Lease \cup {NoLease}

Fresh == [at |-> "idle", aborted |-> FALSE, lease |-> NoTurn, tools |-> {}, asks |-> {},
          acted |-> FALSE]

RegistryInit ==
  /\ paused \in BOOLEAN
  /\ computerUse \in BOOLEAN
  /\ turn = [t \in Turn |-> Fresh]
  /\ tracked = {}
  /\ acting = {}
  /\ lease = NoLease

-----------------------------------------------------------------------------
(* Starting and ending turns. *)

\* A wake is refused while the soul is paused, else tracked and started.
RunTurn(t) ==
  /\ t \in Wake /\ turn[t].at = "idle"
  /\ ~paused
  /\ turn' = [turn EXCEPT ![t].at = "running"]
  /\ tracked' = tracked \cup {t}
  /\ UNCHANGED <<paused, computerUse, acting, lease>>

\* A turn settles: its controller and its computer-use activity are released.
\* The waiter of an interactive turn's request cannot be settled any more (its
\* invocation has left waiting-approval); a wake's stays until it is decided,
\* expires or the turn's timeout fires.
TurnSettles(t) ==
  /\ turn' = [turn EXCEPT ![t].at = "ended", ![t].asks = IF t \in Wake THEN @ ELSE {}]
  /\ tracked' = tracked \ {t}
  /\ acting' = acting \ {t}

Starts(t) ==
  /\ turn' = [turn EXCEPT ![t].at = "running"]
  /\ UNCHANGED <<tracked, acting>>

\* Seeded bug: the turn is tracked when its executor starts.
DispatchUntracked(t) ==
  /\ t \in Interactive /\ turn[t].at = "idle"
  /\ turn' = [turn EXCEPT ![t].at = "reporting"]
  /\ UNCHANGED <<paused, computerUse, tracked, acting, lease>>

\* Dispatch tracks the controller before anything is awaited: the report that
\* the task started.  A turn without a task goes on at once, which is one of the
\* interleavings here.
Dispatch(t) ==
  /\ t \in Interactive /\ turn[t].at = "idle"
  /\ turn' = [turn EXCEPT ![t].at = "reporting"]
  /\ tracked' = tracked \cup {t}
  /\ UNCHANGED <<paused, computerUse, acting, lease>>

\* The turn goes on if it was not stopped and the soul is not paused.  The
\* policy admits it, refuses it, or has the owner verify a stale persona.
Reported(t) ==
  /\ turn[t].at = "reporting"
  /\ \/ TurnSettles(t)
     \/ ~turn[t].aborted /\ ~paused /\ Starts(t)
     \/ /\ ~turn[t].aborted /\ ~paused
        /\ turn' = [turn EXCEPT ![t].at = "verifying"]
        /\ UNCHANGED <<tracked, acting>>
  /\ UNCHANGED <<paused, computerUse, lease>>

\* The owner verified it or did not; only the abort is looked at again.
Verified(t) ==
  /\ turn[t].at = "verifying"
  /\ TurnSettles(t) \/ (~turn[t].aborted /\ Starts(t))
  /\ UNCHANGED <<paused, computerUse, lease>>

\* The executor resolves or throws, its harness finished, crashed or killed.
Ends(t) ==
  /\ turn[t].at = "running"
  /\ TurnSettles(t)
  /\ UNCHANGED <<paused, computerUse, lease>>

-----------------------------------------------------------------------------
(* What a running turn may do. *)

\* Seeded bug: any lease of the soul will do.
SomeLease(by) == lease # NoLease /\ by # NoTurn

LeaseIsCurrent(by) == lease # NoLease /\ lease.by = by

\* bindHarnessSession, once a turn; an aborted turn still binds.
BindHarnessSession(t, s) ==
  /\ turn[t].at = "running" /\ turn[t].lease = NoTurn
  /\ IF lease # NoLease /\ lease.session = s
     THEN turn' = [turn EXCEPT ![t].lease = lease.by] /\ UNCHANGED lease
     ELSE /\ turn' = [turn EXCEPT ![t].lease = t]
          /\ lease' = [by |-> t, session |-> s, tools |-> {}]
  /\ UNCHANGED <<paused, computerUse, tracked, acting>>

ComputerUseOff(tool) == tool \in ComputerUse /\ ~computerUse

\* The turn's state once a tool is allowed, and the activity that is shown.
Allowed(state, tool) ==
  IF tool \in ComputerUse THEN [state EXCEPT !.acted = TRUE] ELSE state
Showing(t, tool) == IF tool \in ComputerUse THEN acting \cup {t} ELSE acting

\* No owner is asked: policy, mode, risk, this turn or this session allow it.
AllowsAtOnce(t, tool) ==
  \/ tool \in Unasked
  \/ tool \in turn[t].tools
  \/ LeaseIsCurrent(turn[t].lease) /\ tool \in lease.tools

\* requestPermission, up to the owner's decision if one is needed.  The engine
\* cancels the requests of an aborted turn; denying changes nothing.
RequestPermission(t, tool) ==
  /\ turn[t].at = "running" /\ ~turn[t].aborted
  /\ ~ComputerUseOff(tool)
  /\ IF AllowsAtOnce(t, tool)
     THEN /\ turn' = [turn EXCEPT ![t] = Allowed(@, tool)]
          /\ acting' = Showing(t, tool)
     ELSE /\ turn' = [turn EXCEPT ![t].asks = @ \cup {[tool |-> tool, lease |-> turn[t].lease]}]
          /\ UNCHANGED acting
  /\ UNCHANGED <<paused, computerUse, tracked, lease>>

\* The turn after a request of it was answered, and after it was approved.
Answered(t, ask) == [turn[t] EXCEPT !.asks = @ \ {ask}]
Approved(t, ask) ==
  IF turn[t].at # "running" THEN Answered(t, ask)
  ELSE Allowed([Answered(t, ask) EXCEPT !.tools = @ \cup {ask.tool}], ask.tool)

\* The owner denies, or the request expires.
Deny(t, ask) ==
  /\ ask \in turn[t].asks
  /\ turn' = [turn EXCEPT ![t] = Answered(t, ask)]
  /\ UNCHANGED <<paused, computerUse, tracked, acting, lease>>

\* An approval for the session goes to the lease the request was made under.
AddToLease(ask, forSession) ==
  lease' = IF forSession /\ LeaseIsCurrent(ask.lease)
           THEN [lease EXCEPT !.tools = @ \cup {ask.tool}] ELSE lease

\* Seeded bug: the switch is not read again after the owner's answer.
ApproveAnyway(t, ask, forSession) ==
  /\ ask \in turn[t].asks
  /\ turn' = [turn EXCEPT ![t] = Approved(t, ask)]
  /\ acting' = IF turn[t].at = "running" THEN Showing(t, ask.tool) ELSE acting
  /\ AddToLease(ask, forSession)
  /\ UNCHANGED <<paused, computerUse, tracked>>

\* The owner approves, once or for the session.  The answer counts for a turn
\* that has ended too, unless its lease has.
Approve(t, ask, forSession) ==
  /\ ask \in turn[t].asks
  /\ IF ComputerUseOff(ask.tool)
     THEN /\ turn' = [turn EXCEPT ![t] = Answered(t, ask)]
          /\ UNCHANGED <<acting, lease>>
     ELSE /\ turn' = [turn EXCEPT ![t] = Approved(t, ask)]
          /\ acting' = IF turn[t].at = "running" THEN Showing(t, ask.tool) ELSE acting
          /\ AddToLease(ask, forSession)
  /\ UNCHANGED <<paused, computerUse, tracked>>

-----------------------------------------------------------------------------
(* Holding the soul back. *)

\* An abort settles the turn's open requests as denied and takes the turn off
\* the computer-use view; the executor settles later.
Aborted(state) == [state EXCEPT !.aborted = TRUE, !.asks = {}]

\* One turn's own signal: its invocation is cancelled, or its timeout fires,
\* which it also does for a wake that has ended with a request still open.
Abort(t) ==
  /\ turn[t].at # "idle" /\ ~turn[t].aborted
  /\ turn[t].at = "ended" => t \in Wake
  /\ turn' = [turn EXCEPT ![t] = Aborted(@)]
  /\ acting' = acting \ {t}
  /\ UNCHANGED <<paused, computerUse, tracked, lease>>

\* Seeded bug: a stopped turn is forgotten before its executor has settled.
StopForgets ==
  /\ turn' = [t \in Turn |-> IF t \in tracked THEN Aborted(turn[t]) ELSE turn[t]]
  /\ acting' = acting \ tracked
  /\ lease' = NoLease
  /\ tracked' = {}

\* stop: the grants are cleared and every tracked controller aborts.
StopAll ==
  /\ turn' = [t \in Turn |-> IF t \in tracked THEN Aborted(turn[t]) ELSE turn[t]]
  /\ acting' = acting \ tracked
  /\ lease' = NoLease
  /\ UNCHANGED tracked

\* /v0/soul/stop; also a pause whose census write failed.
Stop == StopAll /\ UNCHANGED <<paused, computerUse>>

Pause == StopAll /\ paused' = TRUE /\ UNCHANGED computerUse

Resume == paused' = FALSE /\ UNCHANGED <<computerUse, turn, tracked, acting, lease>>

\* Switching off stops the soul if any of its turns is shown as acting.
SetComputerUse(on) ==
  /\ computerUse' = on
  /\ IF ~on /\ acting # {} THEN StopAll ELSE UNCHANGED <<turn, tracked, acting, lease>>
  /\ UNCHANGED paused

RegistryNext ==
  \/ \E t \in Turn :
       \/ RunTurn(t) \/ Dispatch(t) \/ Reported(t) \/ Verified(t) \/ Ends(t) \/ Abort(t)
       \/ \E s \in Session : BindHarnessSession(t, s)
       \/ \E tool \in Tool : RequestPermission(t, tool)
       \/ \E ask \in Ask : Deny(t, ask)
       \/ \E ask \in Ask, forSession \in BOOLEAN : Approve(t, ask, forSession)
  \/ Stop \/ Pause \/ Resume
  \/ \E on \in BOOLEAN : SetComputerUse(on)

RegistrySpec == RegistryInit /\ [][RegistryNext]_registryVars

-----------------------------------------------------------------------------
(* What the owner relies on. *)

\* While a soul is paused no turn of it runs that has not been told to stop,
\* also one that was between its dispatch and its executor when the owner
\* paused (agent-daemon.mjs:1073-1074, agent-interaction.mjs:525-531).
PausedMeansStopping ==
  paused => \A t \in Turn : turn[t].at = "running" => turn[t].aborted

\* While computer use is off no turn that was allowed a computer-use tool runs
\* unstopped, whichever turn's request came first and whenever the owner
\* answered it (agent-daemon.mjs:1029-1031, executor-contract.mjs:396).
ComputerUseOffStops ==
  ~computerUse => \A t \in Turn : turn[t].at = "running" /\ turn[t].acted => turn[t].aborted

\* A soul is busy until the last of its executors has settled: an abort
\* requests cancellation, it does not prove exit (turn-registry.mjs:8-10).
BusyUntilSettled ==
  \A t \in Turn : turn[t].at = "running" => t \in tracked

\* A tool is in the session's grants only by an approval of a request that was
\* made under that very lease: stopping or pausing the soul, or binding another
\* session, also invalidates the approvals that were still waiting, and coming
\* back to a session brings nothing back (session-approvals.mjs:1-2).
GrantedUnderItsLease ==
  [][\A tool \in Tool :
       /\ lease' # NoLease
       /\ tool \in lease'.tools
       /\ ~(lease # NoLease /\ lease'.by = lease.by /\ tool \in lease.tools)
       => /\ LeaseIsCurrent(lease'.by)
          /\ \E t \in Turn : [tool |-> tool, lease |-> lease'.by] \in turn[t].asks]_registryVars
=============================================================================
