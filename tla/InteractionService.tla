------------------------- MODULE InteractionService -------------------------
(***************************************************************************)
(* The daemon's interaction service (agent-interaction.mjs) over the job   *)
(* store (agent-jobs.mjs): a principal submits a message as an invocation, *)
(* an executor runs it, it may ask for an approval bound to a proposal,    *)
(* anyone may cancel it, and a daemon that died reconciles the store before *)
(* it serves again.                                                        *)
(*                                                                         *)
(* The service is one JavaScript thread: a handler runs to its next await  *)
(* without interruption, so one handler is one action.  It is not atomic   *)
(* on disk.  A handler's durable effect is the sequence of stores its      *)
(* successive document writes and event appends leave; the daemon may die  *)
(* (Dies) or a write may throw (the Fails disjuncts) after any of them.    *)
(*                                                                         *)
(* An idempotency key is identified with the invocation it names: both are *)
(* written in one document (submitInvocation), so Invocation is the set of *)
(* keys a principal uses.  Sessions, message text, digests and artifacts   *)
(* are left out; a digest mismatch is a refused Decide.                    *)
(***************************************************************************)
EXTENDS Naturals, Sequences

CONSTANTS
  Invocation,    \* invocations, one per idempotency key
  Proposal,      \* proposal identifiers
  Turn, Owner,   \* holders of a proposal that belongs to no invocation
  NoHolder,      \* the holder of a proposal that was never created
  DaemonAskers,  \* which of Turn and Owner ask for approvals
  MaxCrashes,    \* bound: deaths of the daemon
  MaxFaults      \* bound: writes that throw

Holders == Invocation \cup {Turn, Owner, NoHolder}

ASSUME InteractionServiceAssumption ==
  /\ Turn \notin Invocation /\ Owner \notin Invocation /\ NoHolder \notin Invocation
  /\ Turn # Owner /\ NoHolder \notin {Turn, Owner}
  /\ DaemonAskers \subseteq {Turn, Owner}
  /\ MaxCrashes \in Nat
  /\ MaxFaults \in Nat

Working == {"queued", "running", "waiting-approval"}
Ended   == {"completed", "failed", "cancelled"}
Status  == Working \cup {"cancel-requested"} \cup Ended

INVOCATION_TRANSITIONS ==
  [from \in Status |->
    IF from = "queued" THEN {"running", "failed", "cancel-requested"}
    ELSE IF from = "running" THEN {"completed", "failed", "waiting-approval", "cancel-requested"}
    ELSE IF from = "waiting-approval" THEN {"running", "failed", "cancel-requested"}
    ELSE IF from = "cancel-requested" THEN Ended
    ELSE {}]

Legal(from, to) == to \in INVOCATION_TRANSITIONS[from]

VARIABLES
  store,    \* on disk: the job, payload, event and proposal stores
  daemon,   \* "up", "recovering" or "down"
  todo,     \* invocations whose recovery event is still to be appended
  run,      \* where each invocation's runInvocation is suspended
  aborted,  \* invocations whose AbortController fired
  waiter,   \* proposals with an entry in approvalWaiters
  clock,    \* each proposal's age against its expiry
  told,     \* history: what the asker of a proposal was answered
  started,  \* history: how often each invocation's executor was started
  crashes, faults

vars == <<store, daemon, todo, run, aborted, waiter, clock, told, started, crashes, faults>>

Store ==
  [job      : [Invocation -> Status \cup {"absent"}],
   payload  : SUBSET Invocation,
   event    : [Invocation -> Status \cup {"absent"}],  \* the last status event
   proposal : [Proposal -> [state  : {"absent", "open", "approved", "denied", "expired"},
                            holder : Holders]]]

TypeOK ==
  /\ store \in Store
  /\ daemon \in {"up", "recovering", "down"}
  /\ todo \subseteq Invocation
  /\ run \in [Invocation -> {"none", "admission", "executor", "approval"}]
  /\ aborted \subseteq Invocation
  /\ waiter \subseteq Proposal
  /\ clock \in [Proposal -> {"live", "due", "lapsed"}]
  /\ told \in [Proposal -> {"nothing", "approve", "deny"}]
  /\ started \in [Invocation -> Nat]
  /\ crashes \in 0..MaxCrashes
  /\ faults \in 0..MaxFaults

Init ==
  /\ store = [job |-> [i \in Invocation |-> "absent"],
              payload |-> {},
              event |-> [i \in Invocation |-> "absent"],
              proposal |-> [p \in Proposal |-> [state |-> "absent", holder |-> NoHolder]]]
  /\ daemon = "up"
  /\ todo = {}
  /\ run = [i \in Invocation |-> "none"]
  /\ aborted = {}
  /\ waiter = {}
  /\ clock = [p \in Proposal |-> "live"]
  /\ told = [p \in Proposal |-> "nothing"]
  /\ started = [i \in Invocation |-> 0]
  /\ crashes = 0
  /\ faults = 0

-----------------------------------------------------------------------------
(* Writes.  Each helper is one document write or one event append. *)

Job(s, i, status)    == [s EXCEPT !.job[i] = status]
Payload(s, i)        == [s EXCEPT !.payload = @ \cup {i}]
Event(s, i, status)  == [s EXCEPT !.event[i] = status]
Propose(s, p, h)     == [s EXCEPT !.proposal[p] = [state |-> "open", holder |-> h]]
Mark(s, p, state)    == [s EXCEPT !.proposal[p].state = state]

\* transitionInvocation, then recordStatus.
Moved(s, i, status)  == Event(Job(s, i, status), i, status)

Move(s, i, status)   == <<Job(s, i, status), Moved(s, i, status)>>

Final(ws) == ws[Len(ws)]
Cuts(ws)  == {ws[n] : n \in 1..(Len(ws) - 1)}

Serving == daemon = "up"
holder(p) == store.proposal[p].holder

Quiet == UNCHANGED <<daemon, todo, clock, crashes>>

\* The daemon dies: what is in memory is gone, what was written stays.
Down ==
  /\ crashes < MaxCrashes
  /\ crashes' = crashes + 1
  /\ daemon' = "down"
  /\ todo' = {}
  /\ run' = [i \in Invocation |-> "none"]
  /\ aborted' = {}
  /\ waiter' = {}
  /\ UNCHANGED <<clock, told, started, faults>>

Dies(ws) == store' \in Cuts(ws) /\ Down

\* A write throws after some of the handler's writes landed.
Throws(stores) ==
  /\ faults < MaxFaults
  /\ faults' = faults + 1
  /\ store' \in stores

\* settle(): the waiter leaves the map, its asker is answered, and a parked
\* executor continues.
Settle(p, answer) ==
  /\ waiter' = waiter \ {p}
  /\ IF p \in waiter
     THEN /\ told' = [told EXCEPT ![p] = answer]
          /\ run' = [i \in Invocation |->
                       IF i = holder(p) /\ run[i] = "approval" THEN "executor" ELSE run[i]]
     ELSE UNCHANGED <<told, run>>

\* After a decision written as s, the parked executor's invocation goes back
\* to work if it still waits.
ThenResume(s, p) ==
  LET h == holder(p)
  IN IF p \in waiter /\ h \in Invocation /\ s.job[h] = "waiting-approval"
     THEN <<s, Job(s, h, "running"), Moved(s, h, "running")>>
     ELSE <<s>>

-----------------------------------------------------------------------------
(* Submitting a message, and its same-key retry. *)

\* dispatch starts runInvocation, which moves the job to running at once.
DispatchStores(s, i) ==
  LET paid   == Payload(s, i)
      queued == Event(paid, i, "queued")
  IN <<s, paid, queued, Job(queued, i, "running"), Moved(queued, i, "running")>>

Dispatched(i, ws) ==
  \/ /\ store' = Final(ws)
     /\ run' = [run EXCEPT ![i] = "admission"]
     /\ UNCHANGED <<aborted, waiter, told, started, faults>>
     /\ Quiet
  \/ /\ Throws(Cuts(ws))
     /\ UNCHANGED <<run, aborted, waiter, told, started>>
     /\ Quiet
  \/ Dies(ws)

submitMessage(i) ==
  /\ Serving
  /\ store.job[i] = "absent"
  /\ Dispatched(i, DispatchStores(Job(store, i, "queued"), i))

\* Seeded bug: a retry dispatches whatever became of the first submit.
RetryDispatchesAgain(i) ==
  /\ Serving
  /\ store.job[i] # "absent"
  /\ Dispatched(i, DispatchStores(store, i))

\* The retry finishes a half-delivered submit; otherwise it writes nothing.
RetryMessage(i) ==
  /\ Serving
  /\ store.job[i] = "queued"
  /\ i \notin store.payload
  /\ Dispatched(i, DispatchStores(store, i))

-----------------------------------------------------------------------------
(* Running it. *)

\* The started report and the admission checks are awaited; an abort that
\* arrived meanwhile is seen before the executor starts.
AdmitTurn(i) ==
  /\ Serving
  /\ run[i] = "admission"
  /\ i \notin aborted
  /\ run' = [run EXCEPT ![i] = "executor"]
  /\ started' = [started EXCEPT ![i] = @ + 1]
  /\ UNCHANGED <<store, aborted, waiter, told, faults>>
  /\ Quiet

\* runInvocation's catch: the outcome is written only if the table allows it.
FailStores(i) ==
  LET end == IF i \in aborted THEN "cancelled" ELSE "failed"
  IN IF Legal(store.job[i], end) THEN Move(store, i, end) ELSE <<store>>

ReturnStores(i) ==
  IF Legal(store.job[i], "completed") THEN Move(store, i, "completed") ELSE FailStores(i)

Settled(i, ws) ==
  \/ /\ store' = Final(ws)
     /\ run' = [run EXCEPT ![i] = "none"]
     /\ aborted' = aborted \ {i}
     /\ UNCHANGED <<waiter, told, started, faults>>
     /\ Quiet
  \/ /\ Throws(Cuts(ws) \cup {store})
     /\ run' = [run EXCEPT ![i] = "none"]
     /\ aborted' = aborted \ {i}
     /\ UNCHANGED <<waiter, told, started>>
     /\ Quiet
  \/ Dies(ws)

\* A paused soul, a refused policy, an owner who declined, or the abort.
RefuseTurn(i) ==
  /\ Serving
  /\ run[i] = "admission"
  /\ Settled(i, FailStores(i))

\* An executor may settle while its own approval request still waits.
ExecutorReturns(i) ==
  /\ Serving
  /\ run[i] \in {"executor", "approval"}
  /\ Settled(i, ReturnStores(i))

ExecutorThrows(i) ==
  /\ Serving
  /\ run[i] \in {"executor", "approval"}
  /\ Settled(i, FailStores(i))

-----------------------------------------------------------------------------
(* Approvals. *)

RequestStores(i, p) ==
  LET parked == Moved(store, i, "waiting-approval")
  IN <<Job(store, i, "waiting-approval"), parked, Propose(parked, p, i)>>

\* The executor's capability.  When a write throws, or the job may not park,
\* the executor gets the exception and goes on.
requestApproval(i, p) ==
  /\ Serving
  /\ run[i] = "executor"
  /\ store.proposal[p].state = "absent"
  /\ Legal(store.job[i], "waiting-approval")
  /\ LET ws == RequestStores(i, p)
     IN \/ /\ store' = Final(ws)
           /\ run' = [run EXCEPT ![i] = "approval"]
           /\ waiter' = waiter \cup {p}
           /\ UNCHANGED <<aborted, told, started, faults>>
           /\ Quiet
        \/ /\ Throws(Cuts(ws) \cup {Final(ws)})
           /\ UNCHANGED <<run, aborted, waiter, told, started>>
           /\ Quiet
        \/ Dies(ws)

\* A cold turn (requestTurnApproval) or a web operation (requestOwnerApproval)
\* asks; the proposal has no invocation.
RequestDaemonApproval(h, p) ==
  /\ Serving
  /\ store.proposal[p].state = "absent"
  /\ \/ /\ store' = Propose(store, p, h)
        /\ waiter' = waiter \cup {p}
        /\ UNCHANGED faults
     \/ /\ Throws({Propose(store, p, h)})
        /\ UNCHANGED waiter
  /\ UNCHANGED <<run, aborted, told, started>>
  /\ Quiet

\* Seeded bug: an open proposal is decided though nobody waits for it.
StillWaitingAnyway(p) == TRUE

\* settleProposal's first check, and openProposals' visibility.
StillWaiting(p) ==
  IF holder(p) \in Invocation THEN store.job[holder(p)] = "waiting-approval" ELSE p \in waiter

\* Writing the decision, then its event or receipt, then settle and resume.
\* If the event throws, the waiter is never called; if resuming throws, the
\* executor's request rejects, which is no approval.
decideProposal(p, decision, answer) ==
  /\ Serving
  /\ store.proposal[p].state = "open"
  /\ StillWaiting(p)
  /\ clock[p] # "lapsed"
  /\ LET ws == ThenResume(Mark(store, p, decision), p)
     IN \/ /\ store' = Final(ws)
           /\ Settle(p, answer)
           /\ UNCHANGED <<aborted, started, faults>>
           /\ Quiet
        \/ /\ Throws({ws[1]})
           /\ UNCHANGED <<run, aborted, waiter, told, started>>
           /\ Quiet
        \/ /\ Throws(Cuts(ws))
           /\ Settle(p, "deny")
           /\ UNCHANGED <<aborted, started>>
           /\ Quiet
        \/ Dies(ws)

Expired(p) == IF store.proposal[p].state = "open" THEN Mark(store, p, "expired") ELSE store

\* The expiry timer, an owner's look at an overdue proposal, or a decision
\* that came too late: a decision that beat it is swallowed, and so is a write
\* that throws.
ExpireProposal(p) ==
  /\ Serving
  /\ \/ p \in waiter /\ clock[p] # "live"
     \/ store.proposal[p].state = "open" /\ StillWaiting(p) /\ clock[p] = "lapsed"
  /\ LET ws == ThenResume(Expired(p), p)
     IN \/ /\ store' = Final(ws)
           /\ Settle(p, "deny")
           /\ UNCHANGED <<aborted, started, faults>>
           /\ Quiet
        \/ /\ Throws({Final(ThenResume(store, p))} \cup Cuts(ws))
           /\ Settle(p, "deny")
           /\ UNCHANGED <<aborted, started>>
           /\ Quiet
        \/ Dies(ws)

\* A cold turn's own signal aborts.
TurnAborts(p) ==
  /\ Serving
  /\ p \in waiter
  /\ holder(p) = Turn
  /\ \/ /\ store' = Expired(p)
        /\ UNCHANGED faults
     \/ Throws({store})
  /\ Settle(p, "deny")
  /\ UNCHANGED <<aborted, started>>
  /\ Quiet

\* now() passes the instant the timer is set for, then expiresAt itself.
ClockAdvances(p) ==
  /\ store.proposal[p].state # "absent"
  /\ clock[p] # "lapsed"
  /\ clock' = [clock EXCEPT ![p] = IF @ = "live" THEN "due" ELSE "lapsed"]
  /\ UNCHANGED <<store, daemon, todo, run, aborted, waiter, told, started, crashes, faults>>

-----------------------------------------------------------------------------
(* Cancelling: controller.abort() runs its listeners before it returns. *)

\* The requests parked on the invocation are denied; their proposals stay open.
Abort(i) ==
  LET parked == {p \in waiter : holder(p) = i}
  IN /\ aborted' = aborted \cup {i}
     /\ waiter' = waiter \ parked
     /\ told' = [p \in Proposal |-> IF p \in parked THEN "deny" ELSE told[p]]
     /\ run' = [run EXCEPT ![i] = IF @ = "approval" THEN "executor" ELSE @]

CancelRequest(i) ==
  IF store.job[i] = "cancel-requested" THEN <<store>> ELSE Move(store, i, "cancel-requested")

CancelStores(i) ==
  LET requested == Final(CancelRequest(i))
  IN IF run[i] # "none" THEN CancelRequest(i)
     ELSE <<Job(store, i, "cancel-requested"), requested,
            Job(requested, i, "cancelled"), Moved(requested, i, "cancelled")>>

cancelInvocation(i) ==
  /\ Serving
  /\ store.job[i] \in Status \ Ended
  /\ LET ws == CancelStores(i)
     IN \/ /\ store' = Final(ws)
           /\ IF run[i] # "none" THEN Abort(i) ELSE UNCHANGED <<run, aborted, waiter, told>>
           /\ UNCHANGED <<started, faults>>
           /\ Quiet
        \/ /\ Throws(Cuts(ws))
           /\ UNCHANGED <<run, aborted, waiter, told, started>>
           /\ Quiet
        \/ Dies(ws)

\* turns.stop(agentId): every tracked controller of the soul is aborted; the
\* listener of runInvocation keeps the store's cancellation transition.
StopTurn(i) ==
  /\ Serving
  /\ run[i] # "none"
  /\ i \notin aborted
  /\ LET ws == IF store.job[i] \in {"running", "waiting-approval"}
               THEN Move(store, i, "cancel-requested") ELSE <<store>>
     IN \/ /\ store' = Final(ws)
           /\ Abort(i)
           /\ UNCHANGED <<started, faults>>
           /\ Quiet
        \/ Dies(ws)

-----------------------------------------------------------------------------
(* Death and restart: recoverInteractionStore runs before the port opens. *)

Crash ==
  /\ daemon # "down"
  /\ Down
  /\ UNCHANGED store

\* Seeded bugs: a parked job is left parked; a completed job is failed; the
\* outcome is a word the transition table does not know.
RecoveredButParked(status) ==
  IF status \in {"queued", "running"} THEN "failed"
  ELSE IF status = "cancel-requested" THEN "cancelled" ELSE status
RecoveredCompletedToo(status) ==
  IF status \in Working \cup {"completed"} THEN "failed"
  ELSE IF status = "cancel-requested" THEN "cancelled" ELSE status
Recovered(status) ==
  IF status \in Working THEN "failed" ELSE IF status = "cancel-requested" THEN "cancelled" ELSE status

\* One document write for every job.
RecoverJobs ==
  /\ daemon = "down"
  /\ daemon' = "recovering"
  /\ store' = [store EXCEPT !.job = [i \in Invocation |-> Recovered(store.job[i])]]
  /\ todo' = {i \in Invocation : store.job[i] \in Status \ Ended}
  /\ UNCHANGED <<run, aborted, waiter, clock, told, started, crashes, faults>>

RecoverEvent(i) ==
  /\ daemon = "recovering"
  /\ i \in todo
  /\ store' = Event(store, i, store.job[i])
  /\ todo' = todo \ {i}
  /\ UNCHANGED <<daemon, run, aborted, waiter, clock, told, started, crashes, faults>>

OpenProposals == {p \in Proposal : store.proposal[p].state = "open"}

\* Open proposals whose approval nobody can deliver anymore.
Undeliverable ==
  {p \in OpenProposals :
     holder(p) \in Invocation => store.job[holder(p)] # "waiting-approval"}

RecoverProposal(p) ==
  /\ daemon = "recovering"
  /\ todo = {}
  /\ p \in Undeliverable
  /\ holder(p) \in Invocation
  /\ store' = Mark(store, p, "expired")
  /\ UNCHANGED <<daemon, todo, run, aborted, waiter, clock, told, started, crashes, faults>>

\* getInvocation(null) throws `invalid invocation ID` and the start fails.
RestartFails(p) ==
  /\ daemon = "recovering"
  /\ todo = {}
  /\ p \in Undeliverable
  /\ holder(p) \notin Invocation
  /\ daemon' = "down"
  /\ UNCHANGED <<store, todo, run, aborted, waiter, clock, told, started, crashes, faults>>

Serve ==
  /\ daemon = "recovering"
  /\ todo = {}
  /\ Undeliverable = {}
  /\ daemon' = "up"
  /\ UNCHANGED <<store, todo, run, aborted, waiter, clock, told, started, crashes, faults>>

-----------------------------------------------------------------------------

Client(i) == submitMessage(i) \/ RetryMessage(i) \/ cancelInvocation(i) \/ StopTurn(i)
Execute(i) == AdmitTurn(i) \/ RefuseTurn(i) \/ ExecutorReturns(i) \/ ExecutorThrows(i)
Decision(p) == decideProposal(p, "approved", "approve") \/ decideProposal(p, "denied", "deny")
Recovery ==
  \/ RecoverJobs \/ Serve
  \/ \E i \in Invocation : RecoverEvent(i)
  \/ \E p \in Proposal : RecoverProposal(p) \/ RestartFails(p)

Next ==
  \/ \E i \in Invocation : Client(i) \/ Execute(i)
  \/ \E i \in Invocation, p \in Proposal : requestApproval(i, p)
  \/ \E p \in Proposal :
       \/ \E h \in DaemonAskers : RequestDaemonApproval(h, p)
       \/ Decision(p) \/ ExpireProposal(p) \/ TurnAborts(p) \/ ClockAdvances(p)
  \/ Recovery
  \/ Crash

Spec == Init /\ [][Next]_vars

\* An admission check and an executor settle, timers fire and time passes, and
\* a dead daemon is started again.  Nobody has to submit, decide or cancel.
Fairness ==
  /\ \A i \in Invocation : WF_vars(Execute(i))
  /\ \A p \in Proposal : WF_vars(ClockAdvances(p)) /\ WF_vars(ExpireProposal(p))
  /\ WF_vars(Recovery)

FairSpec == Spec /\ Fairness

-----------------------------------------------------------------------------
(* What the service promises. *)

Parked(i) == \E p \in waiter : holder(p) = i /\ store.proposal[p].state = "open"

\* While the daemon serves and no write has thrown, every invocation that has
\* not ended is being run here, and one that waits for an approval waits on an
\* open proposal someone can still decide: nothing is silently stranded, also
\* not by a restart (agent-daemon.mjs:2097-2100).
NothingStranded ==
  Serving /\ faults = 0 =>
    \A i \in Invocation :
      /\ store.job[i] \in Status \ Ended => run[i] # "none"
      /\ store.job[i] = "waiting-approval" => run[i] = "approval" /\ Parked(i)

\* The executor of an invocation is started at most once, whatever retries,
\* faults and restarts come in between (agent-interaction.mjs:653-673).
ExecutorStartsOnce == \A i \in Invocation : started[i] <= 1

\* An asker is told to go ahead only if the store holds the approval: the
\* decision is durable before anyone acts on it (agent-interaction.mjs:412-443).
ApprovalIsStored ==
  \A p \in Proposal : told[p] = "approve" => store.proposal[p].state = "approved"

\* The event log never reports an outcome the job does not have: the record is
\* written first, and never changes again (agent-interaction.mjs:541-560).
ReportedOutcomeIsTrue ==
  \A i \in Invocation : store.event[i] \in Ended => store.job[i] = store.event[i]

\* The service implements JobService: seen from outside, whatever handlers,
\* deaths, retries, late executors, expiries and recoveries come in between,
\* outcomes, cancellations, verdicts and answers are final, and the log and
\* the askers are told nothing that the store does not hold
\* (agent-jobs.mjs:60-70, 924; agent-interaction.mjs:302-334, 541-560).
PhaseOf(status) ==
  IF status \in Working THEN "open" ELSE IF status = "cancel-requested" THEN "cancelling" ELSE status

Promised == INSTANCE JobService WITH
  phase   <- [i \in Invocation |-> PhaseOf(store.job[i])],
  report  <- [i \in Invocation |-> IF store.event[i] \in Ended THEN store.event[i] ELSE "none"],
  verdict <- [p \in Proposal |-> IF store.proposal[p].state \in {"approved", "denied", "expired"}
                                  THEN store.proposal[p].state ELSE "none"],
  answer  <- told

ImplementsJobService == Promised!Spec

\* While no write has thrown, an approval resumes only an execution that still
\* waits for it: not one that ended, was aborted, or died with an earlier
\* daemon, and not after its expiry (agent-interaction.mjs:376-407).
ApprovalReachesLiveExecution ==
  [][\A p \in Proposal :
       faults = 0 /\ told[p] = "nothing" /\ told'[p] = "approve" =>
         /\ clock[p] # "lapsed"
         /\ holder(p) \in Invocation => run[holder(p)] = "approval" /\ holder(p) \notin aborted]_vars

\* The known halts of the service: a write threw, or the daemon died while a
\* proposal of its own was open and refuses to start.
RestartRefused == \E p \in OpenProposals : daemon = "recovering" /\ holder(p) \notin Invocation
Halted == faults > 0 \/ RestartRefused

\* An accepted message comes to an end, whatever waits, cancels and deaths come
\* in between, unless the service halts.
SubmittedEnds ==
  \A i \in Invocation : store.job[i] # "absent" ~> store.job[i] \in Ended \/ Halted

\* As agent-daemon.mjs:2097-2100 has it: whatever was open when it died.
RestartCompletes == daemon = "down" ~> daemon = "up"
=============================================================================
