---------------------- MODULE InteractionServiceProofs ----------------------
(***************************************************************************)
(* Theorems about InteractionService, for any number of invocations and    *)
(* proposals, any number of deaths and of writes that throw.               *)
(*                                                                         *)
(* Every handler is a sequence of writes that may be cut anywhere, so the  *)
(* argument is about single writes: Evolves(s, t) says what a write may do *)
(* to the store, each kind of write satisfies it, it is transitive, hence  *)
(* every store a handler can leave behind satisfies it.                    *)
(*                                                                         *)
(* That nothing is stranded is about handlers that complete: Tended        *)
(* relates jobs, proposals, executions and waiters, and each kind of       *)
(* handler keeps it, whatever the daemon did before.                       *)
(***************************************************************************)
EXTENDS InteractionService, TLAPS

Decided == {"approved", "denied", "expired"}

JobEvolves(s, t, i) ==
  /\ s.job[i] \in Ended => t.job[i] = s.job[i]
  /\ s.job[i] = "cancel-requested" => t.job[i] \in {"cancel-requested"} \cup Ended
  /\ s.job[i] \notin {"absent", "queued"} => t.job[i] \notin {"absent", "queued"}
  /\ (s.event[i] \in Ended => s.job[i] = s.event[i])
       => /\ t.event[i] \in Ended => t.job[i] = t.event[i]
          /\ s.event[i] \in Ended => t.event[i] = s.event[i]
  /\ s.job[i] # "absent" => t.job[i] # "absent"

ProposalEvolves(s, t, p) ==
  /\ s.proposal[p].state \in Decided => t.proposal[p] = s.proposal[p]
  /\ s.proposal[p].state # "absent" => t.proposal[p].state # "absent"

\* A proposal names only an invocation that was dispatched.
Placed(s) ==
  \A p \in Proposal :
    s.proposal[p].holder \in Invocation => s.job[s.proposal[p].holder] \notin {"absent", "queued"}

Evolves(s, t) ==
  /\ s \in Store
  /\ t \in Store
  /\ Placed(s) => Placed(t)
  /\ \A i \in Invocation : JobEvolves(s, t, i)
  /\ \A p \in Proposal : ProposalEvolves(s, t, p)

\* Every store the writes ws pass through.
AllEvolve(s, ws) ==
  /\ Len(ws) \in Nat \ {0}
  /\ \A n \in 1..Len(ws) : Evolves(s, ws[n])

-----------------------------------------------------------------------------
(* Single writes. *)

\* A store evolves into itself.
LEMMA Reflexive == ASSUME NEW s \in Store PROVE Evolves(s, s)
BY DEF Evolves, JobEvolves, ProposalEvolves

\* So is one evolution after another.
LEMMA Transitive ==
  ASSUME NEW s, NEW t, NEW u, Evolves(s, t), Evolves(t, u)
  PROVE  Evolves(s, u)
<1>1. ASSUME NEW i \in Invocation PROVE JobEvolves(s, u, i)
  BY <1>1 DEF Evolves, JobEvolves, Store, Ended, Status, Working
<1>2. ASSUME NEW p \in Proposal PROVE ProposalEvolves(s, u, p)
  BY <1>2 DEF Evolves, ProposalEvolves
<1>3. QED BY <1>1, <1>2 DEF Evolves

\* A job is created, or moves along the transition table.
LEMMA JobWrite ==
  ASSUME NEW s \in Store, NEW i \in Invocation, NEW status \in Status,
         \/ s.job[i] = "absent" /\ s.event[i] \notin Ended
         \/ s.job[i] \in Status /\ Legal(s.job[i], status)
  PROVE  Evolves(s, Job(s, i, status))
<1>1. Job(s, i, status) \in Store
  BY DEF Job, Store
<1>2. ASSUME NEW j \in Invocation PROVE JobEvolves(s, Job(s, i, status), j)
  BY <1>2 DEF JobEvolves, Job, Store, Legal, INVOCATION_TRANSITIONS, Status, Working, Ended
<1>3. ASSUME NEW p \in Proposal PROVE ProposalEvolves(s, Job(s, i, status), p)
  BY <1>3 DEF ProposalEvolves, Job, Store
<1>4. Placed(s) => Placed(Job(s, i, status))
  BY DEF Placed, Job, Store, Legal, INVOCATION_TRANSITIONS, Status, Working, Ended
<1>5. QED BY <1>1, <1>2, <1>3, <1>4 DEF Evolves

\* An event reports what the job already is.
LEMMA EventWrite ==
  ASSUME NEW s \in Store, NEW i \in Invocation, NEW status \in Status,
         s.job[i] = status
  PROVE  Evolves(s, Event(s, i, status))
<1>1. Event(s, i, status) \in Store
  BY DEF Event, Store
<1>2. ASSUME NEW j \in Invocation PROVE JobEvolves(s, Event(s, i, status), j)
  BY <1>2 DEF JobEvolves, Event, Store
<1>3. ASSUME NEW p \in Proposal PROVE ProposalEvolves(s, Event(s, i, status), p)
  BY <1>3 DEF ProposalEvolves, Event, Store
<1>4. Placed(s) => Placed(Event(s, i, status))
  BY DEF Placed, Event, Store
<1>5. QED BY <1>1, <1>2, <1>3, <1>4 DEF Evolves

\* A payload is no part of what must evolve.
LEMMA PayloadWrite ==
  ASSUME NEW s \in Store, NEW i \in Invocation
  PROVE  Evolves(s, Payload(s, i)) /\ Payload(s, i).job = s.job
<1>1. Payload(s, i) \in Store /\ Payload(s, i).job = s.job
  BY DEF Payload, Store
<1>2. ASSUME NEW j \in Invocation PROVE JobEvolves(s, Payload(s, i), j)
  BY <1>2 DEF JobEvolves, Payload, Store
<1>3. ASSUME NEW p \in Proposal PROVE ProposalEvolves(s, Payload(s, i), p)
  BY <1>3 DEF ProposalEvolves, Payload, Store
<1>4. Placed(s) => Placed(Payload(s, i))
  BY DEF Placed, Payload, Store
<1>5. QED BY <1>1, <1>2, <1>3, <1>4 DEF Evolves

\* A proposal that exists is decided or expires once.
LEMMA MarkWrite ==
  ASSUME NEW s \in Store, NEW p \in Proposal, s.proposal[p].state \notin Decided,
         NEW state \in Decided, s.proposal[p].state # "absent"
  PROVE  Evolves(s, Mark(s, p, state))
<1>1. Mark(s, p, state) \in Store
  BY DEF Mark, Store, Decided
<1>2. ASSUME NEW j \in Invocation PROVE JobEvolves(s, Mark(s, p, state), j)
  BY <1>2 DEF JobEvolves, Mark, Store
<1>3. /\ Mark(s, p, state).proposal[p].state = state
      /\ \A q \in Proposal : Mark(s, p, state).proposal[q].holder = s.proposal[q].holder
      /\ \A q \in Proposal \ {p} : Mark(s, p, state).proposal[q] = s.proposal[q]
  BY DEF Mark, Store
<1>4. ASSUME NEW q \in Proposal PROVE ProposalEvolves(s, Mark(s, p, state), q)
  BY <1>3, <1>4 DEF ProposalEvolves, Decided
<1>5. Placed(s) => Placed(Mark(s, p, state))
  BY <1>3 DEF Placed, Mark, Store
<1>6. QED BY <1>1, <1>2, <1>4, <1>5 DEF Evolves

\* A proposal is created for a dispatched invocation, or for none.
LEMMA ProposeWrite ==
  ASSUME NEW s \in Store, NEW p \in Proposal, s.proposal[p].state = "absent",
         NEW h \in Holders, h \in Invocation => s.job[h] \notin {"absent", "queued"}
  PROVE  Evolves(s, Propose(s, p, h))
<1>1. Propose(s, p, h) \in Store
  BY DEF Propose, Store
<1>2. ASSUME NEW j \in Invocation PROVE JobEvolves(s, Propose(s, p, h), j)
  BY <1>2 DEF JobEvolves, Propose, Store
<1>3. /\ Propose(s, p, h).proposal[p] = [state |-> "open", holder |-> h]
      /\ \A q \in Proposal \ {p} : Propose(s, p, h).proposal[q] = s.proposal[q]
      /\ Propose(s, p, h).job = s.job
  BY DEF Propose, Store
<1>4. ASSUME NEW q \in Proposal PROVE ProposalEvolves(s, Propose(s, p, h), q)
  BY <1>3, <1>4 DEF ProposalEvolves, Decided
<1>5. Placed(s) => Placed(Propose(s, p, h))
  BY <1>3 DEF Placed
<1>6. QED BY <1>1, <1>2, <1>4, <1>5 DEF Evolves

\* transitionInvocation then recordStatus, both stores.
LEMMA MoveWrites ==
  ASSUME NEW s \in Store, NEW i \in Invocation, NEW status \in Status,
         \/ s.job[i] = "absent" /\ s.event[i] \notin Ended
         \/ s.job[i] \in Status /\ Legal(s.job[i], status)
  PROVE  /\ Evolves(s, Job(s, i, status))
         /\ Evolves(s, Moved(s, i, status))
         /\ Moved(s, i, status).job[i] = status
         /\ AllEvolve(s, Move(s, i, status))
<1>1. Evolves(s, Job(s, i, status))
  BY JobWrite
<1>2. Job(s, i, status) \in Store /\ Job(s, i, status).job[i] = status
  BY DEF Job, Store
<1>3. Evolves(Job(s, i, status), Moved(s, i, status))
  BY <1>2, EventWrite DEF Moved
<1>4. Evolves(s, Moved(s, i, status))
  BY <1>1, <1>3, Transitive
<1>5. Moved(s, i, status).job[i] = status
  BY <1>2 DEF Moved, Event, Store
<1>6. AllEvolve(s, Move(s, i, status))
  BY <1>1, <1>4 DEF AllEvolve, Move
<1>7. QED BY <1>1, <1>4, <1>5, <1>6

\* Wherever the writes are cut, the store has evolved.
LEMMA Landed ==
  ASSUME NEW s, NEW ws, AllEvolve(s, ws)
  PROVE  /\ Evolves(s, Final(ws))
         /\ \A t \in Cuts(ws) : Evolves(s, t)
BY DEF AllEvolve, Final, Cuts

-----------------------------------------------------------------------------
(* The writes of each handler. *)

\* The writes of a dispatch, one by one.
LEMMA DispatchWrites ==
  ASSUME NEW s \in Store, NEW i \in Invocation, s.job[i] = "queued"
  PROVE  AllEvolve(s, DispatchStores(s, i))
<1> DEFINE paid == Payload(s, i)
           queued == Event(paid, i, "queued")
           running == Job(queued, i, "running")
<1>1. Evolves(s, s)
  BY Reflexive
<1>2. Evolves(s, paid) /\ paid \in Store /\ paid.job[i] = "queued"
  BY PayloadWrite DEF Evolves
<1>3. Evolves(paid, queued) /\ queued \in Store /\ queued.job[i] = "queued"
  <2>1. Evolves(paid, queued)
    BY <1>2, EventWrite DEF Status, Working, Ended
  <2>2. queued.job[i] = "queued"
    BY <1>2 DEF Event, Store
  <2>3. QED BY <2>1, <2>2 DEF Evolves
<1>4. Evolves(queued, running) /\ Evolves(queued, Moved(queued, i, "running"))
  BY <1>3, MoveWrites DEF Legal, INVOCATION_TRANSITIONS, Status, Working, Ended
<1>5. Evolves(s, queued)
  BY <1>2, <1>3, Transitive
<1>6. Evolves(s, running) /\ Evolves(s, Moved(queued, i, "running"))
  BY <1>4, <1>5, Transitive
<1>7. QED BY <1>1, <1>2, <1>5, <1>6 DEF AllEvolve, DispatchStores

\* The outcome of an execution, if the table allows it.
LEMMA FailWrites ==
  ASSUME store \in Store, NEW i \in Invocation, store.job[i] # "absent"
  PROVE  AllEvolve(store, FailStores(i)) /\ AllEvolve(store, ReturnStores(i))
<1>1. store.job[i] \in Status
  BY DEF Store
<1>2. AllEvolve(store, <<store>>)
  BY Reflexive DEF AllEvolve
<1>3. AllEvolve(store, FailStores(i))
  <2> DEFINE end == IF i \in aborted THEN "cancelled" ELSE "failed"
  <2>1. end \in Status
    BY DEF Status, Ended
  <2>2. Legal(store.job[i], end) => AllEvolve(store, Move(store, i, end))
    BY <1>1, <2>1, MoveWrites
  <2> HIDE DEF end
  <2>3. FailStores(i) = IF Legal(store.job[i], end) THEN Move(store, i, end) ELSE <<store>>
    BY DEF FailStores, end
  <2>4. QED BY <1>2, <2>2, <2>3
<1>4. Legal(store.job[i], "completed") => AllEvolve(store, Move(store, i, "completed"))
  BY <1>1, MoveWrites DEF Status, Ended
<1>5. QED BY <1>3, <1>4 DEF ReturnStores

\* Parking an execution and creating its proposal.
LEMMA RequestWrites ==
  ASSUME store \in Store, NEW i \in Invocation, NEW p \in Proposal,
         store.proposal[p].state = "absent",
         store.job[i] \in Status, Legal(store.job[i], "waiting-approval")
  PROVE  AllEvolve(store, RequestStores(i, p))
<1> DEFINE parked == Moved(store, i, "waiting-approval")
<1>1. /\ Evolves(store, Job(store, i, "waiting-approval")) /\ Evolves(store, parked)
      /\ parked.job[i] = "waiting-approval"
  BY MoveWrites DEF Status, Working
<1>2. parked \in Store /\ parked.proposal = store.proposal
  <2>1. parked.proposal = store.proposal
    BY DEF Moved, Event, Job, Store
  <2>2. QED BY <1>1, <2>1 DEF Evolves
<1>3. Evolves(parked, Propose(parked, p, i))
  BY <1>1, <1>2, ProposeWrite DEF Holders
<1>4. Evolves(store, Propose(parked, p, i))
  BY <1>1, <1>3, Transitive
<1>5. QED BY <1>1, <1>4 DEF AllEvolve, RequestStores

\* A decision, followed by the resumption of the parked execution.
LEMMA ResumeWrites ==
  ASSUME store \in Store, NEW p \in Proposal, NEW s, Evolves(store, s), s.job = store.job
  PROVE  AllEvolve(store, ThenResume(s, p))
<1> DEFINE h == holder(p)
<1>1. AllEvolve(store, <<s>>)
  BY DEF AllEvolve
<1>2. CASE h \in Invocation /\ s.job[h] = "waiting-approval"
  <2>1. Evolves(s, Job(s, h, "running")) /\ Evolves(s, Moved(s, h, "running"))
    BY <1>2, MoveWrites DEF Evolves, Legal, INVOCATION_TRANSITIONS, Status, Working, Ended
  <2>2. Evolves(store, Job(s, h, "running")) /\ Evolves(store, Moved(s, h, "running"))
    BY <2>1, Transitive
  <2>3. AllEvolve(store, <<s, Job(s, h, "running"), Moved(s, h, "running")>>)
    BY <2>2 DEF AllEvolve
  <2>4. QED BY <1>1, <2>3 DEF ThenResume
<1>3. CASE ~(h \in Invocation /\ s.job[h] = "waiting-approval")
  BY <1>1, <1>3 DEF ThenResume
<1>4. QED BY <1>2, <1>3

\* The same for the decision of an open proposal.
LEMMA DecisionWrites ==
  ASSUME store \in Store, NEW p \in Proposal, NEW state \in Decided,
         store.proposal[p].state = "open"
  PROVE  AllEvolve(store, ThenResume(Mark(store, p, state), p))
<1>1. Evolves(store, Mark(store, p, state))
  BY MarkWrite DEF Decided
<1>2. Mark(store, p, state).job = store.job
  BY DEF Mark, Store
<1>3. QED BY <1>1, <1>2, ResumeWrites

\* The same for an expiry, which may also leave the proposal as it was.
LEMMA ExpiryWrites ==
  ASSUME store \in Store, NEW p \in Proposal
  PROVE  /\ AllEvolve(store, ThenResume(Expired(p), p))
         /\ AllEvolve(store, ThenResume(store, p))
         /\ Evolves(store, Expired(p))
<1>1. Evolves(store, store)
  BY Reflexive
<1>2. store.proposal[p].state = "open" => Evolves(store, Mark(store, p, "expired"))
  BY MarkWrite DEF Decided
<1>3. Evolves(store, Expired(p)) /\ Expired(p).job = store.job
  <2>1. Mark(store, p, "expired").job = store.job
    BY DEF Mark, Store
  <2>2. QED BY <1>1, <1>2, <2>1 DEF Expired
<1>4. QED BY <1>1, <1>3, ResumeWrites

\* The request to cancel, and the end of a job nobody runs.
LEMMA CancelWrites ==
  ASSUME store \in Store, NEW i \in Invocation, store.job[i] \in Status \ Ended
  PROVE  AllEvolve(store, CancelStores(i))
<1> DEFINE requested == Final(CancelRequest(i))
<1>1. AllEvolve(store, <<store>>)
  BY Reflexive DEF AllEvolve
<1>2. store.job[i] # "cancel-requested" => Legal(store.job[i], "cancel-requested")
  BY DEF Legal, INVOCATION_TRANSITIONS, Status, Working, Ended
<1>3. AllEvolve(store, CancelRequest(i))
  BY <1>1, <1>2, MoveWrites DEF CancelRequest, Status
<1>4. Evolves(store, requested) /\ requested \in Store
  BY <1>3, Landed DEF Evolves
<1>5. requested.job[i] = "cancel-requested"
  <2>1. store.job[i] # "cancel-requested" =>
          Moved(store, i, "cancel-requested").job[i] = "cancel-requested"
    BY <1>2, MoveWrites DEF Status
  <2>2. Final(<<store>>) = store /\ Final(Move(store, i, "cancel-requested")) = Moved(store, i, "cancel-requested")
    BY DEF Final, Move
  <2>3. QED BY <2>1, <2>2 DEF CancelRequest
<1> HIDE DEF requested
<1>6. /\ Evolves(requested, Job(requested, i, "cancelled"))
      /\ Evolves(requested, Moved(requested, i, "cancelled"))
  BY <1>4, <1>5, MoveWrites DEF Legal, INVOCATION_TRANSITIONS, Status, Working, Ended
<1>7. /\ Evolves(store, Job(requested, i, "cancelled"))
      /\ Evolves(store, Moved(requested, i, "cancelled"))
  BY <1>4, <1>6, Transitive
<1>8. Evolves(store, Job(store, i, "cancel-requested"))
  <2>1. CASE store.job[i] = "cancel-requested"
    <3>1. Job(store, i, "cancel-requested") = store
      BY <2>1 DEF Job, Store
    <3>2. QED BY <3>1, Reflexive
  <2>2. CASE store.job[i] # "cancel-requested"
    BY <1>2, <2>2, JobWrite DEF Status
  <2>3. QED BY <2>1, <2>2
<1>9. CASE run[i] # "none"
  BY <1>3, <1>9 DEF CancelStores
<1>10. CASE ~(run[i] # "none")
  <2>1. CancelStores(i) = <<Job(store, i, "cancel-requested"), requested,
                           Job(requested, i, "cancelled"), Moved(requested, i, "cancelled")>>
    BY <1>10 DEF CancelStores, requested
  <2>2. QED BY <2>1, <1>4, <1>7, <1>8 DEF AllEvolve
<1>11. QED BY <1>9, <1>10

-----------------------------------------------------------------------------
(* Every step. *)

\* A job being run was dispatched, and stays dispatched.
RunInv ==
  \A i \in Invocation : run[i] # "none" => store.job[i] \notin {"absent", "queued"}

\* The one start comes after the dispatch and after the admission.
StartInv ==
  \A i \in Invocation :
    /\ started[i] \in {0, 1}
    /\ store.job[i] \in {"absent", "queued"} \/ run[i] = "admission" => started[i] = 0

\* Recovery reports only what it has already ended.
TodoInv == \A i \in todo : store.job[i] \in Ended

Inv ==
  /\ TypeOK
  /\ ReportedOutcomeIsTrue
  /\ ApprovalIsStored
  /\ RunInv
  /\ StartInv
  /\ TodoInv

\* The outcomes of a handler whose writes are ws.
LEMMA HandlerStep ==
  ASSUME NEW ws, AllEvolve(store, ws), Evolves(store, store),
         \/ store' = Final(ws)
         \/ Throws(Cuts(ws)) \/ Throws(Cuts(ws) \cup {store}) \/ Throws(Cuts(ws) \cup {Final(ws)})
         \/ Dies(ws)
  PROVE  Evolves(store, store')
BY Landed DEF Throws, Dies

\* Every step of the service evolves the store.
LEMMA StepEvolves == Inv /\ [Next]_vars => Evolves(store, store')
<1> SUFFICES ASSUME Inv, [Next]_vars PROVE Evolves(store, store')
  OBVIOUS
<1> USE InteractionServiceAssumption
<1>0. store \in Store /\ Evolves(store, store)
  BY Reflexive DEF Inv, TypeOK
<1>1. ASSUME NEW i \in Invocation, submitMessage(i) PROVE Evolves(store, store')
  <2> DEFINE s == Job(store, i, "queued")
  <2>1. store.event[i] \notin Ended
    BY <1>1 DEF submitMessage, Inv, ReportedOutcomeIsTrue, Ended
  <2>2. Evolves(store, s) /\ s \in Store /\ s.job[i] = "queued"
    <3>1. Evolves(store, s)
      BY <1>0, <1>1, <2>1, JobWrite DEF submitMessage, Status, Working
    <3>2. s.job[i] = "queued"
      BY <1>0 DEF Job, Store
    <3>3. QED BY <3>1, <3>2 DEF Evolves
  <2>3. AllEvolve(s, DispatchStores(s, i))
    BY <2>2, DispatchWrites
  <2>4. AllEvolve(store, DispatchStores(s, i))
    BY <2>2, <2>3, Transitive DEF AllEvolve
  <2>5. QED BY <1>0, <1>1, <2>4, HandlerStep DEF submitMessage, Dispatched
<1>2. ASSUME NEW i \in Invocation, RetryMessage(i) PROVE Evolves(store, store')
  BY <1>0, <1>2, DispatchWrites, HandlerStep DEF RetryMessage, Dispatched
<1>3. ASSUME NEW i \in Invocation, cancelInvocation(i) PROVE Evolves(store, store')
  BY <1>0, <1>3, CancelWrites, HandlerStep DEF cancelInvocation
<1>4. ASSUME NEW i \in Invocation, StopTurn(i) PROVE Evolves(store, store')
  <2> DEFINE ws == IF store.job[i] \in {"running", "waiting-approval"}
                   THEN Move(store, i, "cancel-requested") ELSE <<store>>
  <2>1. AllEvolve(store, <<store>>)
    BY <1>0 DEF AllEvolve
  <2>2. store.job[i] \in {"running", "waiting-approval"} => AllEvolve(store, Move(store, i, "cancel-requested"))
    BY <1>0, MoveWrites DEF Legal, INVOCATION_TRANSITIONS, Status, Working, Ended
  <2>3. AllEvolve(store, ws)
    BY <2>1, <2>2
  <2>4. store' = Final(ws) \/ Dies(ws)
    BY <1>4 DEF StopTurn
  <2> HIDE DEF ws
  <2>5. QED BY <1>0, <2>3, <2>4, HandlerStep
<1>5. ASSUME NEW i \in Invocation, Execute(i) PROVE Evolves(store, store')
  <2>0. run[i] # "none" => store.job[i] # "absent"
    BY DEF Inv, RunInv
  <2>1. CASE AdmitTurn(i)
    BY <1>0, <2>1 DEF AdmitTurn
  <2>2. ASSUME NEW ws, Settled(i, ws), AllEvolve(store, ws) PROVE Evolves(store, store')
    BY <1>0, <2>2, HandlerStep DEF Settled
  <2>3. CASE RefuseTurn(i)
    BY <1>0, <2>0, <2>2, <2>3, FailWrites DEF RefuseTurn
  <2>4. CASE ExecutorReturns(i)
    BY <1>0, <2>0, <2>2, <2>4, FailWrites DEF ExecutorReturns
  <2>5. CASE ExecutorThrows(i)
    BY <1>0, <2>0, <2>2, <2>5, FailWrites DEF ExecutorThrows
  <2>6. QED BY <1>5, <2>1, <2>3, <2>4, <2>5 DEF Execute
<1>6. ASSUME NEW i \in Invocation, NEW p \in Proposal, requestApproval(i, p)
      PROVE  Evolves(store, store')
  <2>1. store.job[i] \in Status
    BY <1>0, <1>6 DEF Store, requestApproval, Inv, RunInv
  <2>2. QED BY <1>0, <1>6, <2>1, RequestWrites, HandlerStep DEF requestApproval
<1>7. ASSUME NEW p \in Proposal, NEW h \in DaemonAskers, RequestDaemonApproval(h, p)
      PROVE  Evolves(store, store')
  <2>1. Evolves(store, Propose(store, p, h))
    BY <1>0, <1>7, ProposeWrite DEF RequestDaemonApproval, Holders
  <2>2. QED BY <1>7, <2>1 DEF RequestDaemonApproval, Throws
<1>8. ASSUME NEW p \in Proposal, Decision(p) PROVE Evolves(store, store')
  <2>1. ASSUME NEW state \in Decided, NEW answer, decideProposal(p, state, answer)
        PROVE  Evolves(store, store')
    <3> DEFINE ws == ThenResume(Mark(store, p, state), p)
    <3>1. AllEvolve(store, ws)
      BY <1>0, <2>1, DecisionWrites DEF decideProposal
    <3>2. Evolves(store, ws[1])
      BY <3>1 DEF AllEvolve
    <3>3. store' = Final(ws) \/ Throws({ws[1]}) \/ Throws(Cuts(ws)) \/ Dies(ws)
      BY <2>1 DEF decideProposal
    <3> HIDE DEF ws
    <3>4. CASE Throws({ws[1]})
      BY <3>2, <3>4 DEF Throws
    <3>5. QED BY <1>0, <3>1, <3>3, <3>4, HandlerStep
  <2>2. QED BY <1>8, <2>1 DEF Decision, Decided
<1>9. ASSUME NEW p \in Proposal, ExpireProposal(p) PROVE Evolves(store, store')
  <2> DEFINE ws == ThenResume(Expired(p), p)
             unmarked == ThenResume(store, p)
  <2>1. AllEvolve(store, ws) /\ AllEvolve(store, unmarked)
    BY <1>0, ExpiryWrites
  <2>2. store' = Final(ws) \/ Throws({Final(unmarked)} \cup Cuts(ws)) \/ Dies(ws)
    BY <1>9 DEF ExpireProposal
  <2> HIDE DEF ws, unmarked
  <2>3. QED BY <1>0, <2>1, <2>2, Landed DEF Throws, Dies
<1>10. ASSUME NEW p \in Proposal, TurnAborts(p) PROVE Evolves(store, store')
  BY <1>0, <1>10, ExpiryWrites DEF TurnAborts, Throws
<1>11. ASSUME NEW p \in Proposal, ClockAdvances(p) PROVE Evolves(store, store')
  BY <1>0, <1>11 DEF ClockAdvances
<1>12. CASE RecoverJobs
  <2>1. store' \in Store
    BY <1>0, <1>12 DEF RecoverJobs, Store, Recovered, Status, Working, Ended
  <2>2. ASSUME NEW i \in Invocation PROVE JobEvolves(store, store', i)
    BY <1>0, <1>12, <2>2 DEF RecoverJobs, JobEvolves, Recovered, Store, Status, Working, Ended
  <2>3. ASSUME NEW p \in Proposal PROVE ProposalEvolves(store, store', p)
    BY <1>0, <1>12, <2>3 DEF RecoverJobs, ProposalEvolves, Store
  <2>4. Placed(store) => Placed(store')
    BY <1>0, <1>12 DEF RecoverJobs, Placed, Recovered, Store, Status, Working, Ended
  <2>5. QED BY <1>0, <2>1, <2>2, <2>3, <2>4 DEF Evolves
<1>13. ASSUME NEW i \in Invocation, RecoverEvent(i) PROVE Evolves(store, store')
  <2>1. store.job[i] \in Status /\ i \in Invocation
    BY <1>13 DEF RecoverEvent, Inv, TodoInv, Status
  <2>2. QED BY <1>0, <1>13, <2>1, EventWrite DEF RecoverEvent
<1>14. ASSUME NEW p \in Proposal, RecoverProposal(p) PROVE Evolves(store, store')
  BY <1>0, <1>14, MarkWrite DEF RecoverProposal, Undeliverable, OpenProposals, Decided
<1>15. ASSUME NEW p \in Proposal, RestartFails(p) PROVE Evolves(store, store')
  BY <1>0, <1>15 DEF RestartFails
<1>16. CASE Serve
  BY <1>0, <1>16 DEF Serve
<1>17. CASE Crash
  BY <1>0, <1>17 DEF Crash
<1>18. CASE UNCHANGED vars
  BY <1>0, <1>18 DEF vars
<1>19. QED
  BY <1>1, <1>2, <1>3, <1>4, <1>5, <1>6, <1>7, <1>8, <1>9, <1>10, <1>11, <1>12,
     <1>13, <1>14, <1>15, <1>16, <1>17, <1>18
     DEF Next, Client, Recovery

-----------------------------------------------------------------------------
(* The invariant. *)

\* An empty store.
LEMMA InitInv == Init => Inv
BY InteractionServiceAssumption
   DEF Init, Inv, TypeOK, Store, Holders, ReportedOutcomeIsTrue, ApprovalIsStored, RunInv,
       StartInv, TodoInv, Ended

\* Every step keeps the types.
LEMMA NextTypeOK == Inv /\ [Next]_vars => TypeOK'
<1> SUFFICES ASSUME Inv, [Next]_vars PROVE TypeOK'
  OBVIOUS
<1> USE InteractionServiceAssumption
<1>1. store' \in Store
  BY StepEvolves DEF Evolves
<1>2. TypeOK
  BY DEF Inv
<1>3. ASSUME NEW i \in Invocation, Client(i) PROVE TypeOK'
  BY <1>1, <1>2, <1>3 DEF TypeOK, Client, submitMessage, RetryMessage, cancelInvocation, StopTurn,
     Dispatched, Abort, Throws, Dies, Down, Quiet
<1>4. ASSUME NEW i \in Invocation, Execute(i) PROVE TypeOK'
  BY <1>1, <1>2, <1>4 DEF TypeOK, Execute, AdmitTurn, RefuseTurn, ExecutorReturns, ExecutorThrows,
     Settled, Throws, Dies, Down, Quiet
<1>5. ASSUME NEW i \in Invocation, NEW p \in Proposal, requestApproval(i, p) PROVE TypeOK'
  BY <1>1, <1>2, <1>5 DEF TypeOK, requestApproval, Throws, Dies, Down, Quiet
<1>6. ASSUME NEW p \in Proposal, NEW h \in DaemonAskers, RequestDaemonApproval(h, p) PROVE TypeOK'
  BY <1>1, <1>2, <1>6 DEF TypeOK, RequestDaemonApproval, Throws, Quiet
<1>7. ASSUME NEW p \in Proposal, Decision(p) PROVE TypeOK'
  BY <1>1, <1>2, <1>7 DEF TypeOK, Decision, decideProposal, Settle, Throws, Dies, Down, Quiet
<1>8. ASSUME NEW p \in Proposal, ExpireProposal(p) PROVE TypeOK'
  BY <1>1, <1>2, <1>8 DEF TypeOK, ExpireProposal, Settle, Throws, Dies, Down, Quiet
<1>9. ASSUME NEW p \in Proposal, TurnAborts(p) PROVE TypeOK'
  BY <1>1, <1>2, <1>9 DEF TypeOK, TurnAborts, Settle, Throws, Quiet
<1>10. ASSUME NEW p \in Proposal, ClockAdvances(p) PROVE TypeOK'
  BY <1>1, <1>2, <1>10 DEF TypeOK, ClockAdvances
<1>11. CASE Recovery
  BY <1>1, <1>2, <1>11 DEF TypeOK, Recovery, RecoverJobs, RecoverEvent, RecoverProposal, RestartFails, Serve
<1>12. CASE Crash
  BY <1>1, <1>2, <1>12 DEF TypeOK, Crash, Down
<1>13. CASE UNCHANGED vars
  BY <1>2, <1>13 DEF TypeOK, vars
<1>14. QED
  BY <1>3, <1>4, <1>5, <1>6, <1>7, <1>8, <1>9, <1>10, <1>11, <1>12, <1>13 DEF Next

\* No step reports an outcome the job does not have.
LEMMA NextReported == Inv /\ [Next]_vars => ReportedOutcomeIsTrue'
BY StepEvolves DEF Inv, Evolves, JobEvolves, ReportedOutcomeIsTrue

\* A dispatch that completed left its job running.
LEMMA DispatchRuns ==
  ASSUME NEW s \in Store, NEW i \in Invocation
  PROVE  Final(DispatchStores(s, i)).job[i] = "running"
<1> DEFINE paid == Payload(s, i)
           queued == Event(paid, i, "queued")
           running == Job(queued, i, "running")
<1>1. Final(DispatchStores(s, i)) = Event(running, i, "running")
  BY DEF Final, DispatchStores, Moved
<1>2. paid \in Store
  BY PayloadWrite DEF Evolves
<1>3. queued \in Store
  BY <1>2 DEF Event, Store, Status, Working
<1>4. running \in Store /\ running.job[i] = "running"
  BY <1>3 DEF Job, Store, Status, Working
<1>5. QED BY <1>1, <1>4 DEF Event, Store

\* No step starts an execution twice or runs what was not dispatched.
LEMMA NextRunInv == Inv /\ [Next]_vars => RunInv' /\ StartInv'
<1> SUFFICES ASSUME Inv, [Next]_vars, NEW i \in Invocation
             PROVE  /\ run'[i] # "none" => store'.job[i] \notin {"absent", "queued"}
                    /\ started'[i] \in {0, 1}
                    /\ store'.job[i] \in {"absent", "queued"} \/ run'[i] = "admission" => started'[i] = 0
  BY DEF RunInv, StartInv
<1>1. /\ store.job[i] \notin {"absent", "queued"} => store'.job[i] \notin {"absent", "queued"}
      /\ run \in [Invocation -> {"none", "admission", "executor", "approval"}]
      /\ started \in [Invocation -> Nat]
      /\ store \in Store
  BY StepEvolves DEF Evolves, JobEvolves, Inv, TypeOK
<1>2. /\ run[i] # "none" => store.job[i] \notin {"absent", "queued"}
      /\ started[i] \in {0, 1}
      /\ store.job[i] \in {"absent", "queued"} \/ run[i] = "admission" => started[i] = 0
  BY DEF Inv, RunInv, StartInv
<1>3. ASSUME NEW j \in Invocation, NEW s \in Store, store.job[j] \in {"absent", "queued"},
             Dispatched(j, DispatchStores(s, j))
      PROVE  \/ run'[j] = "admission" /\ started' = started /\ store'.job[j] = "running"
                /\ \A k \in Invocation : k # j => run'[k] = run[k]
             \/ \A k \in Invocation : run'[k] \in {"none", run[k]} /\ started' = started
  <2> HIDE DEF DispatchStores
  <2>1. QED BY <1>1, <1>3, DispatchRuns DEF Dispatched, Throws, Dies, Down
<1>4. ASSUME NEW j \in Invocation, submitMessage(j) \/ RetryMessage(j)
      PROVE  \/ run'[j] = "admission" /\ started' = started /\ store'.job[j] = "running"
                /\ store.job[j] \in {"absent", "queued"}
                /\ \A k \in Invocation : k # j => run'[k] = run[k]
             \/ \A k \in Invocation : run'[k] \in {"none", run[k]} /\ started' = started
  <2>1. Job(store, j, "queued") \in Store
    BY <1>1 DEF Job, Store, Status, Working
  <2>2. QED BY <1>1, <1>3, <1>4, <2>1 DEF submitMessage, RetryMessage
<1>5. CASE \E j \in Invocation : submitMessage(j) \/ RetryMessage(j)
  BY <1>1, <1>2, <1>4, <1>5
\* Any other step but AdmitTurn leaves an execution where it is, parks it,
\* resumes it or ends it.
<1>6. CASE \E j \in Invocation : AdmitTurn(j)
  BY <1>1, <1>2, <1>6 DEF AdmitTurn
<1> DEFINE Onward == /\ started' = started
                     /\ run'[i] = "none" \/ (run'[i] = "admission" /\ run[i] = "admission")
                        \/ (run'[i] \in {"executor", "approval"} /\ run[i] # "none")
<1>7. ASSUME Onward PROVE run'[i] = "admission" => started'[i] = 0
  BY <1>2, <1>7
<1>8. ASSUME NEW j \in Invocation, cancelInvocation(j) \/ StopTurn(j) PROVE Onward
  BY <1>1, <1>8 DEF cancelInvocation, StopTurn, Abort, Throws, Dies, Down
<1>9. ASSUME NEW j \in Invocation, RefuseTurn(j) \/ ExecutorReturns(j) \/ ExecutorThrows(j) PROVE Onward
  BY <1>1, <1>9 DEF RefuseTurn, ExecutorReturns, ExecutorThrows, Settled, Throws, Dies, Down
<1>10. ASSUME NEW j \in Invocation, NEW p \in Proposal, requestApproval(j, p) PROVE Onward
  BY <1>1, <1>10 DEF requestApproval, Throws, Dies, Down
<1>11. ASSUME NEW p \in Proposal,
              \/ \E h \in DaemonAskers : RequestDaemonApproval(h, p)
              \/ Decision(p) \/ ExpireProposal(p) \/ TurnAborts(p) \/ ClockAdvances(p)
       PROVE  Onward
  BY <1>1, <1>11 DEF RequestDaemonApproval, Decision, decideProposal, ExpireProposal, TurnAborts,
     ClockAdvances, Settle, Throws, Dies, Down
<1>12. CASE Recovery \/ Crash \/ UNCHANGED vars
  <2>1. Onward
    BY <1>1, <1>12 DEF Recovery, RecoverJobs, RecoverEvent, RecoverProposal, RestartFails, Serve,
       Crash, Down, vars
  <2>2. QED BY <1>1, <1>2, <2>1
<1>13. QED
  BY <1>1, <1>2, <1>5, <1>6, <1>8, <1>9, <1>10, <1>11, <1>12 DEF Next, Client, Execute

\* Recovery has ended what it still has to report.
LEMMA NextTodoInv == Inv /\ [Next]_vars => TodoInv'
<1> SUFFICES ASSUME Inv, [Next]_vars, NEW i \in todo' PROVE store'.job[i] \in Ended
  BY DEF TodoInv
<1>1. store \in Store /\ todo \subseteq Invocation
  BY DEF Inv, TypeOK
<1>2. CASE i \in todo
  BY <1>1, <1>2, StepEvolves DEF Evolves, JobEvolves, Inv, TodoInv
<1>3. CASE RecoverJobs
  BY <1>1, <1>3 DEF RecoverJobs, Store, Recovered, Status, Working, Ended
<1>4. CASE ~RecoverJobs
  <2>1. todo' \subseteq todo
    BY <1>4 DEF Next, Client, Execute, Decision, Recovery, submitMessage, RetryMessage,
       cancelInvocation, StopTurn, AdmitTurn, RefuseTurn, ExecutorReturns, ExecutorThrows,
       requestApproval, RequestDaemonApproval, decideProposal, ExpireProposal, TurnAborts,
       ClockAdvances, RecoverEvent, RecoverProposal, RestartFails, Serve, Crash,
       Dispatched, Settled, Dies, Down, Quiet, vars
  <2>2. QED BY <2>1, <1>2
<1>5. QED BY <1>3, <1>4

\* Resuming writes no proposal.
LEMMA ResumeKeepsProposals ==
  ASSUME NEW s \in Store, NEW p \in Proposal
  PROVE  Final(ThenResume(s, p)).proposal = s.proposal
<1> DEFINE h == holder(p)
<1>1. Final(<<s>>) = s
  BY DEF Final
<1>2. h \in Invocation =>
        Final(<<s, Job(s, h, "running"), Moved(s, h, "running")>>) = Moved(s, h, "running")
  BY DEF Final
<1>3. h \in Invocation => Moved(s, h, "running").proposal = s.proposal
  BY DEF Moved, Event, Job, Store
<1>4. QED BY <1>1, <1>2, <1>3 DEF ThenResume

\* Only a recorded approval tells an asker to go ahead.
LEMMA OnlyDecisionApproves ==
  Inv /\ [Next]_vars =>
    \A q \in Proposal : \/ decideProposal(q, "approved", "approve")
                       \/ told'[q] \in {told[q], "deny"}
<1> SUFFICES ASSUME Inv, [Next]_vars, NEW q \in Proposal, ~decideProposal(q, "approved", "approve")
             PROVE  told'[q] \in {told[q], "deny"}
  OBVIOUS
<1>1. told \in [Proposal -> {"nothing", "approve", "deny"}]
  BY DEF Inv, TypeOK
<1>2. ASSUME NEW p \in Proposal, Decision(p) PROVE told'[q] \in {told[q], "deny"}
  <2>1. CASE p = q
    BY <1>1, <1>2, <2>1 DEF Decision, decideProposal, Settle, Dies, Down
  <2>2. CASE p # q
    BY <1>1, <1>2, <2>2 DEF Decision, decideProposal, Settle, Dies, Down
  <2>3. QED BY <2>1, <2>2
<1>3. ASSUME NEW p \in Proposal, ExpireProposal(p) \/ TurnAborts(p) PROVE told'[q] \in {told[q], "deny"}
  BY <1>1, <1>3 DEF ExpireProposal, TurnAborts, Settle, Dies, Down
<1>4. ASSUME NEW i \in Invocation, cancelInvocation(i) \/ StopTurn(i) PROVE told'[q] \in {told[q], "deny"}
  BY <1>1, <1>4 DEF cancelInvocation, StopTurn, Abort, Dies, Down
<1>5. CASE \/ \E i \in Invocation : submitMessage(i) \/ RetryMessage(i) \/ Execute(i)
           \/ \E i \in Invocation, p \in Proposal : requestApproval(i, p)
           \/ \E p \in Proposal : (\E h \in DaemonAskers : RequestDaemonApproval(h, p)) \/ ClockAdvances(p)
           \/ Recovery \/ Crash \/ UNCHANGED vars
  <2>1. told' = told
    BY <1>5 DEF Execute, Recovery, submitMessage, RetryMessage, AdmitTurn, RefuseTurn,
       ExecutorReturns, ExecutorThrows, requestApproval, RequestDaemonApproval, ClockAdvances,
       RecoverJobs, RecoverEvent, RecoverProposal, RestartFails, Serve, Crash,
       Dispatched, Settled, Dies, Down, vars
  <2>2. QED BY <2>1
<1>6. QED BY <1>2, <1>3, <1>4, <1>5 DEF Next, Client

\* No step tells an asker to go ahead before the approval is on disk.
LEMMA NextApprovalIsStored == Inv /\ [Next]_vars => ApprovalIsStored'
<1> SUFFICES ASSUME Inv, [Next]_vars, NEW q \in Proposal, told'[q] = "approve"
             PROVE  store'.proposal[q].state = "approved"
  BY DEF ApprovalIsStored
<1>1. /\ store \in Store
      /\ told \in [Proposal -> {"nothing", "approve", "deny"}]
      /\ told[q] = "approve" => store.proposal[q].state = "approved"
  BY DEF Inv, TypeOK, ApprovalIsStored
<1>2. told[q] = "approve" => store'.proposal[q].state = "approved"
  BY <1>1, StepEvolves DEF Evolves, ProposalEvolves, Decided
<1>3. CASE decideProposal(q, "approved", "approve")
  <2> DEFINE decided == Mark(store, q, "approved")
  <2>1. decided \in Store /\ decided.proposal[q].state = "approved"
    BY <1>1 DEF Mark, Store
  <2>2. Final(ThenResume(decided, q)).proposal[q].state = "approved"
    BY <2>1, ResumeKeepsProposals
  <2> HIDE DEF decided
  <2>3. CASE store' = Final(ThenResume(decided, q))
    BY <2>2, <2>3
  <2>4. CASE ~(store' = Final(ThenResume(decided, q)))
    <3>1. told' = told \/ told' = [told EXCEPT ![q] = "deny"]
      BY <1>3, <2>4 DEF decideProposal, Settle, Dies, Down, decided
    <3>2. QED BY <1>1, <1>2, <3>1
  <2>5. QED BY <2>3, <2>4
<1>4. CASE ~decideProposal(q, "approved", "approve")
  BY <1>2, <1>4, OnlyDecisionApproves
<1>5. QED BY <1>3, <1>4

\* Inv is an invariant of the specification.
THEOREM Invariance == Spec => []Inv
<1>1. Inv /\ [Next]_vars => Inv'
  BY NextTypeOK, NextReported, NextApprovalIsStored, NextRunInv, NextTodoInv DEF Inv
<1>2. QED BY InitInv, <1>1, PTL DEF Spec

\* Every variable keeps its type, whatever is cut off or throws.
THEOREM TypeCorrect == Spec => []TypeOK
<1>1. Inv => TypeOK
  BY DEF Inv
<1>2. QED BY Invariance, <1>1, PTL

\* No retry, fault or restart starts an executor twice
\* (agent-interaction.mjs:653-673).
THEOREM StartsOnce == Spec => []ExecutorStartsOnce
<1>1. Inv => ExecutorStartsOnce
  <2> SUFFICES ASSUME Inv, NEW i \in Invocation PROVE started[i] <= 1
    BY DEF ExecutorStartsOnce
  <2>1. started[i] = 0 \/ started[i] = 1
    BY DEF Inv, StartInv
  <2>2. QED BY <2>1
<1>2. QED BY Invariance, <1>1, PTL

\* Nobody is told to go ahead before the approval is on disk
\* (agent-interaction.mjs:412-443).
THEOREM ApprovalsAreStored == Spec => []ApprovalIsStored
<1>1. Inv => ApprovalIsStored
  BY DEF Inv
<1>2. QED BY Invariance, <1>1, PTL

\* The event log never reports an outcome the job does not have, wherever the
\* daemon dies (agent-interaction.mjs:541-560, agent-jobs.mjs:994-999).
THEOREM ReportsAreTrue == Spec => []ReportedOutcomeIsTrue
<1>1. Inv => ReportedOutcomeIsTrue
  BY DEF Inv
<1>2. QED BY Invariance, <1>1, PTL

-----------------------------------------------------------------------------
(* The refinement. *)

\* Whoever waits has not been answered, and a proposal nobody created has
\* answered nobody.
AskInv ==
  \A p \in Proposal :
    /\ p \in waiter => told[p] = "nothing" /\ store.proposal[p].state # "absent"
    /\ store.proposal[p].state = "absent" => told[p] = "nothing"

\* What a step may do to the asker of q.
Asks(q) ==
  \/ told'[q] = told[q] /\ (q \in waiter' => q \in waiter)
  \/ told'[q] # told[q] /\ q \in waiter /\ q \notin waiter'
  \/ /\ told'[q] = told[q]
     /\ store.proposal[q].state = "absent" /\ store'.proposal[q].state # "absent"

\* Every step does one of these to each asker.
LEMMA StepAsks == Inv /\ [Next]_vars => \A q \in Proposal : Asks(q)
<1> SUFFICES ASSUME Inv, [Next]_vars, NEW q \in Proposal PROVE Asks(q)
  OBVIOUS
<1>1. store \in Store /\ told \in [Proposal -> {"nothing", "approve", "deny"}]
  BY DEF Inv, TypeOK
<1>2. ASSUME NEW i \in Invocation, Client(i) PROVE Asks(q)
  BY <1>1, <1>2 DEF Asks, Client, submitMessage, RetryMessage, cancelInvocation, StopTurn,
     Dispatched, Abort, Throws, Dies, Down
<1>3. ASSUME NEW i \in Invocation, Execute(i) PROVE Asks(q)
  BY <1>1, <1>3 DEF Asks, Execute, AdmitTurn, RefuseTurn, ExecutorReturns, ExecutorThrows,
     Settled, Throws, Dies, Down
<1>4. ASSUME NEW i \in Invocation, NEW p \in Proposal, requestApproval(i, p) PROVE Asks(q)
  <2> DEFINE parked == Moved(store, i, "waiting-approval")
  <2>1. Final(RequestStores(i, p)) = Propose(parked, p, i)
    BY DEF Final, RequestStores
  <2>2. parked \in Store
    BY <1>1 DEF Moved, Event, Job, Store, Status, Working
  <2>3. Propose(parked, p, i).proposal[p].state = "open"
    BY <2>2 DEF Propose, Store
  <2>4. CASE store' = Final(RequestStores(i, p)) /\ q = p
    BY <1>1, <1>4, <2>1, <2>3, <2>4 DEF Asks, requestApproval, Throws, Dies, Down
  <2>5. CASE ~(store' = Final(RequestStores(i, p)) /\ q = p)
    BY <1>1, <1>4, <2>5 DEF Asks, requestApproval, Throws, Dies, Down
  <2>6. QED BY <2>4, <2>5
<1>5. ASSUME NEW p \in Proposal, NEW h \in DaemonAskers, RequestDaemonApproval(h, p) PROVE Asks(q)
  <2>1. Propose(store, p, h).proposal[p].state = "open"
    BY <1>1 DEF Propose, Store
  <2>2. QED BY <1>1, <1>5, <2>1 DEF Asks, RequestDaemonApproval, Throws
<1>6. ASSUME NEW p \in Proposal, Decision(p) \/ ExpireProposal(p) \/ TurnAborts(p) PROVE Asks(q)
  BY <1>1, <1>6 DEF Asks, Decision, decideProposal, ExpireProposal, TurnAborts, Settle, Throws, Dies, Down
<1>7. ASSUME NEW p \in Proposal, ClockAdvances(p) PROVE Asks(q)
  BY <1>7 DEF Asks, ClockAdvances
<1>8. CASE Recovery \/ Crash \/ UNCHANGED vars
  BY <1>8 DEF Asks, Recovery, RecoverJobs, RecoverEvent, RecoverProposal, RestartFails, Serve,
     Crash, Down, vars
<1>9. QED BY <1>2, <1>3, <1>4, <1>5, <1>6, <1>7, <1>8 DEF Next

\* An answer is given once, and only to who waits.
LEMMA NextAskInv ==
  Inv /\ AskInv /\ [Next]_vars =>
    AskInv' /\ \A q \in Proposal : told[q] # "nothing" => told'[q] = told[q]
<1> SUFFICES ASSUME Inv, AskInv, [Next]_vars
             PROVE  AskInv' /\ \A q \in Proposal : told[q] # "nothing" => told'[q] = told[q]
  OBVIOUS
<1>1. ASSUME NEW q \in Proposal
      PROVE  /\ q \in waiter' => told'[q] = "nothing" /\ store'.proposal[q].state # "absent"
             /\ store'.proposal[q].state = "absent" => told'[q] = "nothing"
             /\ told[q] # "nothing" => told'[q] = told[q]
  <2>1. Asks(q)
    BY <1>1, StepAsks
  <2>2. store.proposal[q].state # "absent" => store'.proposal[q].state # "absent"
    BY <1>1, StepEvolves DEF Evolves, ProposalEvolves
  <2>3. /\ q \in waiter => told[q] = "nothing" /\ store.proposal[q].state # "absent"
        /\ store.proposal[q].state = "absent" => told[q] = "nothing"
    BY <1>1 DEF AskInv
  <2>4. QED BY <2>1, <2>2, <2>3 DEF Asks
<1>2. QED BY <1>1 DEF AskInv

\* The writes ws move no job but j's.
Only(ws, s, j) == \A n \in 1..Len(ws) : \A i \in Invocation \ {j} : ws[n].job[i] = s.job[i]

\* A write of one job leaves the others.
LEMMA OneJob ==
  ASSUME NEW s \in Store, NEW j \in Invocation, NEW status \in Status
  PROVE  /\ Job(s, j, status) \in Store /\ Moved(s, j, status) \in Store
         /\ Job(s, j, status).job = [s.job EXCEPT ![j] = status]
         /\ Moved(s, j, status).job = [s.job EXCEPT ![j] = status]
<1>1. Job(s, j, status) \in Store /\ Job(s, j, status).job = [s.job EXCEPT ![j] = status]
  BY DEF Job, Store
<1>2. ASSUME NEW t \in Store PROVE Event(t, j, status) \in Store /\ Event(t, j, status).job = t.job
  BY DEF Event, Store
<1>3. QED BY <1>1, <1>2 DEF Moved

\* So do both writes of a transition.
LEMMA MoveIsOne ==
  ASSUME NEW s \in Store, NEW j \in Invocation, NEW status \in Status
  PROVE  Only(Move(s, j, status), s, j) /\ Only(<<s>>, s, j)
<1>1. /\ Job(s, j, status).job = [s.job EXCEPT ![j] = status]
      /\ Moved(s, j, status).job = [s.job EXCEPT ![j] = status]
      /\ s.job \in [Invocation -> Status \cup {"absent"}]
  BY OneJob DEF Store
<1>2. QED BY <1>1 DEF Only, Move

\* The five stores of a dispatch hold the job queued, then running.
LEMMA DispatchIsOne ==
  ASSUME NEW s \in Store, NEW j \in Invocation, NEW i \in Invocation
  PROVE  /\ Len(DispatchStores(s, j)) = 5
         /\ \A n \in 1..5 : DispatchStores(s, j)[n].job[i] \in {s.job[i], "running"}
<1> DEFINE paid == Payload(s, j)
           queued == Event(paid, j, "queued")
<1>1. paid \in Store /\ paid.job = s.job
  BY PayloadWrite DEF Evolves
<1>2. queued \in Store /\ queued.job = s.job
  BY <1>1 DEF Event, Store, Status, Working
<1>3. /\ Job(queued, j, "running").job = [s.job EXCEPT ![j] = "running"]
      /\ Moved(queued, j, "running").job = [s.job EXCEPT ![j] = "running"]
      /\ s.job \in [Invocation -> Status \cup {"absent"}]
  <2>1. "running" \in Status
    BY DEF Status, Working
  <2>2. s.job \in [Invocation -> Status \cup {"absent"}]
    BY DEF Store
  <2> HIDE DEF paid, queued
  <2>3. QED BY <1>2, <2>1, <2>2, OneJob
<1>4. DispatchStores(s, j) =
        <<s, paid, queued, Job(queued, j, "running"), Moved(queued, j, "running")>>
  BY DEF DispatchStores
<1> HIDE DEF paid, queued
<1>5. QED BY <1>1, <1>2, <1>3, <1>4

\* A step takes an absent invocation to work, or leaves it absent.
LEMMA Accepted ==
  Inv /\ [Next]_vars =>
    \A i \in Invocation : store.job[i] = "absent" => store'.job[i] \in {"absent", "queued", "running"}
<1> SUFFICES ASSUME Inv, [Next]_vars, NEW i \in Invocation, store.job[i] = "absent"
             PROVE  store'.job[i] \in {"absent", "queued", "running"}
  OBVIOUS
<1>0. store \in Store /\ run[i] = "none"
  BY DEF Inv, TypeOK, RunInv
<1> DEFINE Stays == store'.job[i] = "absent"
<1>1. ASSUME NEW j \in Invocation, NEW s \in Store,
             s = store \/ s = Job(store, j, "queued"), s.job[j] = "queued",
             Dispatched(j, DispatchStores(s, j))
      PROVE  store'.job[i] \in {"absent", "queued", "running"}
  <2>1. /\ Len(DispatchStores(s, j)) = 5
        /\ \A n \in 1..5 : DispatchStores(s, j)[n].job[i] \in {s.job[i], "running"}
    BY <1>1, DispatchIsOne
  <2>2. s.job[i] \in {"absent", "queued"}
    BY <1>0, <1>1 DEF Job, Store
  <2>3. \E n \in 1..5 : store' = DispatchStores(s, j)[n]
    <3> HIDE DEF DispatchStores
    <3>1. QED BY <1>1, <2>1 DEF Dispatched, Throws, Dies, Cuts, Final
  <2>4. QED BY <2>1, <2>2, <2>3
<1>2. ASSUME NEW j \in Invocation, submitMessage(j) \/ RetryMessage(j)
      PROVE  store'.job[i] \in {"absent", "queued", "running"}
  <2>1. Job(store, j, "queued") \in Store /\ Job(store, j, "queued").job[j] = "queued"
    BY <1>0 DEF Job, Store, Status, Working
  <2>2. QED BY <1>0, <1>1, <1>2, <2>1 DEF submitMessage, RetryMessage
\* Every other handler moves the job of an invocation already there.
<1>3. ASSUME NEW j \in Invocation \ {i}, NEW ws, Only(ws, store, j), Len(ws) \in Nat \ {0},
             \/ store' = Final(ws)
             \/ Throws(Cuts(ws)) \/ Throws(Cuts(ws) \cup {store}) \/ Throws(Cuts(ws) \cup {Final(ws)})
             \/ Dies(ws)
      PROVE  Stays
  BY <1>3 DEF Only, Final, Cuts, Throws, Dies
<1>4. ASSUME NEW j \in Invocation, cancelInvocation(j) PROVE Stays
  <2>1. j # i
    BY <1>4 DEF cancelInvocation, Status, Working, Ended
  <2> DEFINE requested == Final(CancelRequest(j))
  <2>2. Final(<<store>>) = store /\ Final(Move(store, j, "cancel-requested")) = Moved(store, j, "cancel-requested")
    BY DEF Final, Move
  <2>3. requested \in Store /\ requested.job[i] = "absent"
    <3>1. /\ Moved(store, j, "cancel-requested") \in Store
          /\ Moved(store, j, "cancel-requested").job = [store.job EXCEPT ![j] = "cancel-requested"]
      BY <1>0, OneJob DEF Status
    <3>2. Moved(store, j, "cancel-requested").job[i] = "absent"
      BY <1>0, <2>1, <3>1 DEF Store
    <3>3. QED BY <1>0, <2>2, <3>1, <3>2 DEF CancelRequest
  <2>4. \A n \in 1..Len(CancelStores(j)) : CancelStores(j)[n].job[i] = "absent"
    <3>1. CASE run[j] # "none"
      <4>1. CancelStores(j) \in {<<store>>, Move(store, j, "cancel-requested")}
        BY <3>1 DEF CancelStores, CancelRequest
      <4>2. /\ Only(<<store>>, store, j) /\ Only(Move(store, j, "cancel-requested"), store, j)
            /\ i \in Invocation \ {j}
        BY <1>0, <2>1, MoveIsOne DEF Status
      <4>3. QED BY <4>1, <4>2 DEF Only
    <3>2. CASE ~(run[j] # "none")
      <4> HIDE DEF requested
      <4>1. CancelStores(j) = <<Job(store, j, "cancel-requested"), requested,
                               Job(requested, j, "cancelled"), Moved(requested, j, "cancelled")>>
        BY <3>2 DEF CancelStores, requested
      <4>2. Job(store, j, "cancel-requested").job[i] = "absent"
        BY <1>0, <2>1 DEF Job, Store
      <4>3. Job(requested, j, "cancelled").job[i] = "absent" /\ Moved(requested, j, "cancelled").job[i] = "absent"
        BY <2>1, <2>3 DEF Moved, Event, Job, Store
      <4>4. QED BY <2>3, <4>1, <4>2, <4>3
    <3>3. QED BY <3>1, <3>2
  <2>5. Len(CancelStores(j)) \in Nat \ {0}
    BY DEF CancelStores, CancelRequest, Move
  <2> HIDE DEF requested
  <2>6. \/ store' = Final(CancelStores(j)) \/ store' \in Cuts(CancelStores(j))
    BY <1>4 DEF cancelInvocation, Throws, Dies
  <2>7. QED BY <2>4, <2>5, <2>6 DEF Final, Cuts
<1>5. ASSUME NEW j \in Invocation, StopTurn(j) PROVE Stays
  <2>1. j # i
    BY <1>0, <1>5 DEF StopTurn
  <2> DEFINE ws == IF store.job[j] \in {"running", "waiting-approval"}
                   THEN Move(store, j, "cancel-requested") ELSE <<store>>
  <2>2. Only(ws, store, j) /\ Len(ws) \in Nat \ {0}
    BY <1>0, MoveIsOne DEF Status, Move
  <2>3. store' = Final(ws) \/ Dies(ws)
    BY <1>5 DEF StopTurn
  <2> HIDE DEF ws
  <2>4. QED BY <1>3, <2>1, <2>2, <2>3
<1>6. ASSUME NEW j \in Invocation, Execute(j) PROVE Stays
  <2>1. j # i
    BY <1>0, <1>6 DEF Execute, AdmitTurn, RefuseTurn, ExecutorReturns, ExecutorThrows
  <2>2. /\ Only(FailStores(j), store, j) /\ Only(ReturnStores(j), store, j)
        /\ Len(FailStores(j)) \in Nat \ {0} /\ Len(ReturnStores(j)) \in Nat \ {0}
    BY <1>0, MoveIsOne DEF FailStores, ReturnStores, Move, Status, Ended
  <2>3. CASE AdmitTurn(j)
    BY <2>3 DEF AdmitTurn
  <2>4. ASSUME NEW ws, Settled(j, ws), Only(ws, store, j), Len(ws) \in Nat \ {0} PROVE Stays
    BY <1>3, <2>1, <2>4 DEF Settled
  <2>5. QED BY <1>6, <2>2, <2>3, <2>4 DEF Execute, RefuseTurn, ExecutorReturns, ExecutorThrows
<1>7. ASSUME NEW j \in Invocation, NEW p \in Proposal, requestApproval(j, p) PROVE Stays
  <2>1. j # i
    BY <1>0, <1>7 DEF requestApproval
  <2>2. Only(RequestStores(j, p), store, j) /\ Len(RequestStores(j, p)) \in Nat \ {0}
    <3> DEFINE parked == Moved(store, j, "waiting-approval")
    <3>1. /\ Job(store, j, "waiting-approval").job = [store.job EXCEPT ![j] = "waiting-approval"]
          /\ parked.job = [store.job EXCEPT ![j] = "waiting-approval"] /\ parked \in Store
          /\ store.job \in [Invocation -> Status \cup {"absent"}]
      <4>1. "waiting-approval" \in Status
        BY DEF Status, Working
      <4>2. store.job \in [Invocation -> Status \cup {"absent"}]
        BY <1>0 DEF Store
      <4>3. QED BY <1>0, <4>1, <4>2, OneJob
    <3>2. Propose(parked, p, j).job = parked.job
      BY <3>1 DEF Propose, Store
    <3>3. RequestStores(j, p) = <<Job(store, j, "waiting-approval"), parked, Propose(parked, p, j)>>
      BY DEF RequestStores
    <3> HIDE DEF parked
    <3>4. QED BY <3>1, <3>2, <3>3 DEF Only
  <2>3. QED BY <1>3, <1>7, <2>1, <2>2 DEF requestApproval
\* A resume moves only a job that waits.
<1>8. ASSUME NEW p \in Proposal, NEW s \in Store, s.job = store.job
      PROVE  \A n \in 1..Len(ThenResume(s, p)) : ThenResume(s, p)[n].job[i] = "absent"
  <2>1. holder(p) \in Invocation /\ s.job[holder(p)] = "waiting-approval" =>
          /\ Job(s, holder(p), "running").job[i] = "absent"
          /\ Moved(s, holder(p), "running").job[i] = "absent"
    BY <1>8 DEF Moved, Event, Job, Store
  <2>2. QED BY <1>8, <2>1 DEF ThenResume
<1>9. ASSUME NEW p \in Proposal, NEW state \in Decided
      PROVE  Mark(store, p, state) \in Store /\ Mark(store, p, state).job = store.job
  BY <1>0 DEF Mark, Store, Decided
<1>10. ASSUME NEW p \in Proposal, Decision(p) PROVE Stays
  <2>1. ASSUME NEW state \in Decided, NEW answer, decideProposal(p, state, answer) PROVE Stays
    <3> DEFINE ws == ThenResume(Mark(store, p, state), p)
    <3>1. \A n \in 1..Len(ws) : ws[n].job[i] = "absent"
      BY <1>8, <1>9, <2>1
    <3>2. Len(ws) \in Nat \ {0}
      BY DEF ThenResume
    <3>3. store' = Final(ws) \/ store' = ws[1] \/ store' \in Cuts(ws)
      BY <2>1 DEF decideProposal, Throws, Dies
    <3> HIDE DEF ws
    <3>4. QED BY <3>1, <3>2, <3>3 DEF Final, Cuts
  <2>2. QED BY <1>10, <2>1 DEF Decision, Decided
<1>11. ASSUME NEW p \in Proposal, ExpireProposal(p) PROVE Stays
  <2> DEFINE ws == ThenResume(Expired(p), p)
             unmarked == ThenResume(store, p)
  <2>1. Expired(p) \in Store /\ Expired(p).job = store.job
    BY <1>0, <1>9 DEF Expired, Decided
  <2>2. /\ \A n \in 1..Len(ws) : ws[n].job[i] = "absent"
        /\ \A n \in 1..Len(unmarked) : unmarked[n].job[i] = "absent"
    BY <1>0, <1>8, <2>1
  <2>3. Len(ws) \in Nat \ {0} /\ Len(unmarked) \in Nat \ {0}
    BY DEF ThenResume
  <2>4. store' = Final(ws) \/ store' = Final(unmarked) \/ store' \in Cuts(ws)
    BY <1>11 DEF ExpireProposal, Throws, Dies
  <2> HIDE DEF ws, unmarked
  <2>5. QED BY <2>2, <2>3, <2>4 DEF Final, Cuts
<1>12. ASSUME NEW p \in Proposal, TurnAborts(p) PROVE Stays
  BY <1>0, <1>9, <1>12 DEF TurnAborts, Expired, Throws, Decided
<1>13. ASSUME NEW p \in Proposal, (\E h \in DaemonAskers : RequestDaemonApproval(h, p)) \/ ClockAdvances(p)
       PROVE  Stays
  BY <1>0, <1>13 DEF RequestDaemonApproval, ClockAdvances, Propose, Throws, Store
<1>14. CASE Recovery \/ Crash \/ UNCHANGED vars
  BY <1>0, <1>14 DEF Recovery, RecoverJobs, RecoverEvent, RecoverProposal, RestartFails, Serve,
     Crash, Recovered, Event, Mark, Store, Working, vars
<1>15. QED
  BY <1>2, <1>4, <1>5, <1>6, <1>7, <1>10, <1>11, <1>12, <1>13, <1>14 DEF Next, Client

\* Every step of the service is a step of JobService, or none.
LEMMA StepImplements ==
  Inv /\ AskInv /\ Inv' /\ [Next]_vars => [Promised!Next]_(Promised!vars)
<1> SUFFICES ASSUME Inv, AskInv, Inv', [Next]_vars PROVE Promised!Next
  OBVIOUS
<1>1. Evolves(store, store') /\ store \in Store /\ store' \in Store
  BY StepEvolves DEF Evolves
<1>2. Promised!Moves
  <2>1. ASSUME NEW i \in Invocation
        PROVE  /\ PhaseOf(store'.job[i]) \in Promised!Phase
               /\ PhaseOf(store'.job[i]) \in Promised!MayBecome[PhaseOf(store.job[i])]
    <3>1. store.job[i] = "absent" => store'.job[i] \in {"absent", "queued", "running"}
      BY <2>1, Accepted
    <3>2. JobEvolves(store, store', i)
      BY <1>1, <2>1 DEF Evolves
    <3>3. store.job[i] \in Status \cup {"absent"} /\ store'.job[i] \in Status \cup {"absent"}
      BY <1>1, <2>1 DEF Store
    <3>4. PhaseOf(store.job[i]) \in Promised!Phase /\ PhaseOf(store'.job[i]) \in Promised!Phase
      BY <3>3 DEF PhaseOf, Promised!Phase, Promised!Outcome, Status, Working, Ended
    <3>5. store.job[i] # "absent" => store'.job[i] # "absent"
      BY <3>2 DEF JobEvolves
    <3>6. QED BY <3>1, <3>2, <3>3, <3>4, <3>5
                 DEF JobEvolves, PhaseOf, Promised!MayBecome, Promised!Phase, Promised!Outcome, Status, Working, Ended
  <2>2. QED BY <2>1 DEF Promised!Moves
<1>3. Promised!Reports
  <2>1. ASSUME NEW i \in Invocation
        PROVE  /\ store'.event[i] \in Ended => PhaseOf(store'.job[i]) = store'.event[i]
               /\ store.event[i] \in Ended => store'.event[i] = store.event[i]
    <3>1. store'.event[i] \in Ended => store'.job[i] = store'.event[i]
      BY <2>1 DEF Inv, ReportedOutcomeIsTrue
    <3>2. store.event[i] \in Ended => store'.event[i] = store.event[i]
      BY <1>1, <2>1 DEF Evolves, JobEvolves, Inv, ReportedOutcomeIsTrue
    <3>3. QED BY <3>1, <3>2 DEF PhaseOf, Ended, Working
  <2>2. QED BY <2>1 DEF Promised!Reports, Promised!Outcome, Ended
<1>4. Promised!Decides
  <2>1. ASSUME NEW p \in Proposal, store.proposal[p].state \in Decided
        PROVE  store'.proposal[p] = store.proposal[p]
    BY <1>1, <2>1 DEF Evolves, ProposalEvolves
  <2>2. QED BY <2>1 DEF Promised!Decides, Promised!Verdict, Decided
<1>5. Promised!Answers
  <2>1. told' \in [Proposal -> {"nothing", "approve", "deny"}]
    BY DEF Inv, TypeOK
  <2>2. \A p \in Proposal : told[p] # "nothing" => told'[p] = told[p]
    BY NextAskInv
  <2>3. \A p \in Proposal : told'[p] = "approve" => store'.proposal[p].state = "approved"
    BY DEF Inv, ApprovalIsStored
  <2>4. QED BY <2>1, <2>2, <2>3 DEF Promised!Answers
<1>6. QED BY <1>2, <1>3, <1>4, <1>5 DEF Promised!Next

\* For any invocations and proposals, deaths and throwing writes, the service
\* implements JobService: outcomes, cancellations, verdicts and answers are
\* final and true (agent-jobs.mjs:60-70, 924; agent-interaction.mjs:302-334).
THEOREM Implements == Spec => ImplementsJobService
<1>1. Init => AskInv
  BY DEF Init, AskInv
<1>2. Init => Promised!Init
  BY DEF Init, Promised!Init, PhaseOf, Working, Ended
<1>3. Inv /\ AskInv /\ [Next]_vars => AskInv'
  BY NextAskInv
<1>4. QED BY Invariance, <1>1, <1>2, <1>3, StepImplements, PTL DEF Spec, ImplementsJobService, Promised!Spec

-----------------------------------------------------------------------------
(* Nothing is stranded.  The jobs J, proposals P, executions R and waiters *)
(* W of a daemon that serves and whose writes have all landed.             *)

\* Who waits for an approval is parked on exactly one open proposal, and no
\* other waiter is left behind but that of an execution that returned.
Tended(J, P, R, W) ==
  /\ \A i \in Invocation :
       /\ J[i] \in Status \ Ended => R[i] # "none"
       /\ J[i] = "waiting-approval" => R[i] = "approval"
       /\ R[i] = "approval" => \E p \in W : P[p].holder = i
  /\ \A p \in W :
       /\ P[p].state = "open"
       /\ P[p].holder \in Invocation => R[P[p].holder] \in {"approval", "none"}
  /\ \A p, q \in W :
       P[p].holder = P[q].holder /\ P[p].holder \in Invocation /\ R[P[p].holder] = "approval" => p = q

Typed(J, P, R, W) ==
  /\ J \in [Invocation -> Status \cup {"absent"}]
  /\ P \in [Proposal -> [state : {"absent", "open", "approved", "denied", "expired"}, holder : Holders]]
  /\ R \in [Invocation -> {"none", "admission", "executor", "approval"}]
  /\ W \subseteq Proposal

\* A dispatch starts an execution no proposal names yet.
LEMMA DispatchTended ==
  ASSUME NEW J, NEW P, NEW R, NEW W, Typed(J, P, R, W), Tended(J, P, R, W), NEW i \in Invocation,
         \A p \in Proposal : P[p].holder # i
  PROVE  Tended([J EXCEPT ![i] = "running"], P, [R EXCEPT ![i] = "admission"], W)
<1> DEFINE K == [J EXCEPT ![i] = "running"]
           S == [R EXCEPT ![i] = "admission"]
<1>1. /\ K[i] = "running" /\ S[i] = "admission"
      /\ \A j \in Invocation \ {i} : K[j] = J[j] /\ S[j] = R[j]
  BY DEF Typed
<1> HIDE DEF K, S
<1>2. QED BY <1>1 DEF Typed, Tended

\* An admitted execution has no waiter.
LEMMA AdmitTended ==
  ASSUME NEW J, NEW P, NEW R, NEW W, Typed(J, P, R, W), Tended(J, P, R, W), NEW i \in Invocation,
         R[i] = "admission"
  PROVE  Tended(J, P, [R EXCEPT ![i] = "executor"], W)
<1> DEFINE S == [R EXCEPT ![i] = "executor"]
<1>1. S[i] = "executor" /\ \A j \in Invocation \ {i} : S[j] = R[j]
  BY DEF Typed
<1> HIDE DEF S
<1>2. QED BY <1>1 DEF Typed, Tended

\* An execution that ends leaves its job ended.
LEMMA EndTended ==
  ASSUME NEW J, NEW P, NEW R, NEW W, Typed(J, P, R, W), Tended(J, P, R, W), NEW i \in Invocation,
         NEW K, \A j \in Invocation \ {i} : K[j] = J[j], K[i] \in Ended
  PROVE  Tended(K, P, [R EXCEPT ![i] = "none"], W)
<1> DEFINE S == [R EXCEPT ![i] = "none"]
<1>1. S[i] = "none" /\ \A j \in Invocation \ {i} : S[j] = R[j]
  BY DEF Typed
<1> HIDE DEF S
<1>2. QED BY <1>1 DEF Typed, Tended, Ended

\* An executor parks on a proposal it creates.
LEMMA ParkTended ==
  ASSUME NEW J, NEW P, NEW R, NEW W, Typed(J, P, R, W), Tended(J, P, R, W), NEW i \in Invocation,
         NEW p \in Proposal, R[i] = "executor", P[p].state = "absent"
  PROVE  Tended([J EXCEPT ![i] = "waiting-approval"], [P EXCEPT ![p] = [state |-> "open", holder |-> i]],
                [R EXCEPT ![i] = "approval"], W \cup {p})
<1> DEFINE K == [J EXCEPT ![i] = "waiting-approval"]
           Q == [P EXCEPT ![p] = [state |-> "open", holder |-> i]]
           S == [R EXCEPT ![i] = "approval"]
<1>1. /\ K[i] = "waiting-approval" /\ S[i] = "approval"
      /\ Q[p].state = "open" /\ Q[p].holder = i
      /\ \A j \in Invocation \ {i} : K[j] = J[j] /\ S[j] = R[j]
      /\ \A q \in Proposal \ {p} : Q[q] = P[q]
  BY DEF Typed
<1>2. \A q \in W : q \in Proposal \ {p} /\ P[q].holder # i
  BY DEF Typed, Tended
<1> HIDE DEF K, Q, S
<1>3. ASSUME NEW j \in Invocation
      PROVE  /\ K[j] \in Status \ Ended => S[j] # "none"
             /\ K[j] = "waiting-approval" => S[j] = "approval"
             /\ S[j] = "approval" => \E q \in W \cup {p} : Q[q].holder = j
  BY <1>1, <1>2, <1>3 DEF Tended
<1>4. ASSUME NEW q \in W \cup {p}
      PROVE  /\ Q[q].state = "open"
             /\ Q[q].holder \in Invocation => S[Q[q].holder] \in {"approval", "none"}
  BY <1>1, <1>2, <1>4 DEF Tended
<1>5. ASSUME NEW q \in W \cup {p}, NEW r \in W \cup {p}, Q[q].holder = Q[r].holder,
             Q[q].holder \in Invocation, S[Q[q].holder] = "approval"
      PROVE  q = r
  BY <1>1, <1>2, <1>5 DEF Tended
<1>6. Tended(K, Q, S, W \cup {p})
  BY <1>3, <1>4, <1>5 DEF Tended
<1>7. QED BY <1>6 DEF K, Q, S

\* A turn or an owner's operation asks for an approval of its own.
LEMMA AskTended ==
  ASSUME NEW J, NEW P, NEW R, NEW W, Typed(J, P, R, W), Tended(J, P, R, W),
         NEW p \in Proposal, P[p].state = "absent", NEW h, h \notin Invocation
  PROVE  Tended(J, [P EXCEPT ![p] = [state |-> "open", holder |-> h]], R, W \cup {p})
<1> DEFINE Q == [P EXCEPT ![p] = [state |-> "open", holder |-> h]]
<1>1. /\ Q[p].state = "open" /\ Q[p].holder = h
      /\ \A q \in Proposal \ {p} : Q[q] = P[q]
  BY DEF Typed
<1>2. \A q \in W : q \in Proposal \ {p}
  BY DEF Typed, Tended
<1> HIDE DEF Q
<1>3. Tended(J, Q, R, W \cup {p})
  <2>1. \A i \in Invocation : \A q \in W : P[q].holder = i => q \in W \cup {p} /\ Q[q].holder = i
    BY <1>1, <1>2
  <2>2. \A q \in W \cup {p} : q # p => q \in W /\ Q[q] = P[q]
    BY <1>1, <1>2
  <2>3. QED BY <1>1, <2>1, <2>2 DEF Tended
<1>4. QED BY <1>3 DEF Q

\* The waiter of p leaves, and its execution goes back to work.
Settles(J, P, R, W, p, K, Q, S) ==
  /\ \A q \in Proposal : Q[q].holder = P[q].holder
  /\ \A q \in Proposal \ {p} : Q[q] = P[q]
  /\ p \notin W => K = J /\ S = R
  /\ p \in W =>
       /\ \A j \in Invocation \ {P[p].holder} : K[j] = J[j] /\ S[j] = R[j]
       /\ P[p].holder \in Invocation =>
            /\ S[P[p].holder] = IF R[P[p].holder] = "approval" THEN "executor" ELSE R[P[p].holder]
            /\ K[P[p].holder] = IF J[P[p].holder] = "waiting-approval" THEN "running" ELSE J[P[p].holder]

\* Whoever else is parked still waits for a proposal of its own.
LEMMA SettleTended ==
  ASSUME NEW J, NEW P, NEW R, NEW W, Typed(J, P, R, W), Tended(J, P, R, W), NEW p \in Proposal,
         NEW K, NEW Q, NEW S, Settles(J, P, R, W, p, K, Q, S)
  PROVE  Tended(K, Q, S, W \ {p})
<1> USE DEF Settles
<1>1. CASE p \notin W
  BY <1>1 DEF Tended, Typed
<1>2. CASE p \in W
  <2> DEFINE h == P[p].holder
  <2>1. \A q \in W \ {p} : /\ q \in Proposal /\ Q[q] = P[q]
                           /\ h \in Invocation /\ R[h] = "approval" => P[q].holder # h
    BY <1>2 DEF Tended, Typed
  <2>2. ASSUME NEW j \in Invocation
        PROVE  /\ K[j] \in Status \ Ended => S[j] # "none"
               /\ K[j] = "waiting-approval" => S[j] = "approval"
               /\ S[j] = "approval" => \E q \in W \ {p} : Q[q].holder = j
    <3>1. CASE j = h
      BY <1>2, <2>1, <2>2, <3>1 DEF Tended, Typed, Status, Working, Ended
    <3>2. CASE j # h
      <4>1. K[j] = J[j] /\ S[j] = R[j]
        BY <1>2, <2>2, <3>2
      <4>2. R[j] = "approval" => \E q \in W \ {p} : Q[q].holder = j
        BY <2>1, <2>2, <3>2 DEF Tended
      <4>3. QED BY <2>2, <4>1, <4>2 DEF Tended
    <3>3. QED BY <3>1, <3>2
  <2>3. ASSUME NEW q \in W \ {p}
        PROVE  /\ Q[q].state = "open"
               /\ Q[q].holder \in Invocation => S[Q[q].holder] \in {"approval", "none"}
    <3>1. CASE P[q].holder = h
      BY <1>2, <2>1, <2>3, <3>1 DEF Tended
    <3>2. CASE P[q].holder # h
      BY <1>2, <2>1, <2>3, <3>2 DEF Tended
    <3>3. QED BY <3>1, <3>2
  <2>4. ASSUME NEW q \in W \ {p}, NEW r \in W \ {p}, Q[q].holder = Q[r].holder,
               Q[q].holder \in Invocation, S[Q[q].holder] = "approval"
        PROVE  q = r
    <3>1. P[q].holder # h
      BY <1>2, <2>1, <2>4
    <3>2. QED BY <1>2, <2>1, <2>4, <3>1 DEF Tended
  <2>5. QED BY <2>2, <2>3, <2>4 DEF Tended
<1>3. QED BY <1>1, <1>2

\* The requests parked on i are denied and its executor continues.
LEMMA AbortTended ==
  ASSUME NEW J, NEW P, NEW R, NEW W, Typed(J, P, R, W), Tended(J, P, R, W), NEW i \in Invocation,
         NEW K, \A j \in Invocation \ {i} : K[j] = J[j], K[i] # "waiting-approval", R[i] # "none"
  PROVE  Tended(K, P, [R EXCEPT ![i] = IF @ = "approval" THEN "executor" ELSE @],
                W \ {p \in W : P[p].holder = i})
<1> DEFINE S == [R EXCEPT ![i] = IF @ = "approval" THEN "executor" ELSE @]
           V == W \ {p \in W : P[p].holder = i}
<1>1. /\ S[i] = IF R[i] = "approval" THEN "executor" ELSE R[i]
      /\ \A j \in Invocation \ {i} : S[j] = R[j]
      /\ \A p \in V : p \in W /\ P[p].holder # i
      /\ \A p \in W : P[p].holder # i => p \in V
  BY DEF Typed
<1> HIDE DEF S, V
<1>2. ASSUME NEW j \in Invocation
      PROVE  /\ K[j] \in Status \ Ended => S[j] # "none"
             /\ K[j] = "waiting-approval" => S[j] = "approval"
             /\ S[j] = "approval" => \E q \in V : P[q].holder = j
  <2>1. CASE j = i
    BY <1>1, <1>2, <2>1
  <2>2. CASE j # i
    BY <1>1, <1>2, <2>2 DEF Tended
  <2>3. QED BY <2>1, <2>2
<1>3. Tended(K, P, S, V)
  BY <1>1, <1>2 DEF Tended
<1>4. QED BY <1>3 DEF S, V

\* What the handlers that complete leave: the jobs and the proposals.
LEMMA MoveLands ==
  ASSUME NEW s \in Store, NEW i \in Invocation, NEW status \in Status
  PROVE  /\ Final(Move(s, i, status)).job = [s.job EXCEPT ![i] = status]
         /\ Final(Move(s, i, status)).proposal = s.proposal
         /\ Final(<<s>>) = s
<1>1. Final(Move(s, i, status)) = Moved(s, i, status) /\ Final(<<s>>) = s
  BY DEF Final, Move
<1>2. Moved(s, i, status).job = [s.job EXCEPT ![i] = status]
  BY OneJob
<1>3. Moved(s, i, status).proposal = s.proposal
  BY DEF Moved, Event, Job, Store
<1>4. QED BY <1>1, <1>2, <1>3

\* A decision changes the state of one proposal.
LEMMA MarkLands ==
  ASSUME NEW s \in Store, NEW p \in Proposal, NEW state \in Decided
  PROVE  /\ Mark(s, p, state) \in Store
         /\ Mark(s, p, state).job = s.job
         /\ \A q \in Proposal : Mark(s, p, state).proposal[q].holder = s.proposal[q].holder
         /\ \A q \in Proposal \ {p} : Mark(s, p, state).proposal[q] = s.proposal[q]
<1>1. Mark(s, p, state) \in Store
  BY DEF Mark, Store, Decided
<1>2. Mark(s, p, state).job = s.job
  BY DEF Mark, Store
<1>3. /\ \A q \in Proposal : Mark(s, p, state).proposal[q].holder = s.proposal[q].holder
      /\ \A q \in Proposal \ {p} : Mark(s, p, state).proposal[q] = s.proposal[q]
  BY DEF Mark, Store
<1>4. QED BY <1>1, <1>2, <1>3

\* A dispatch leaves its job running.
LEMMA DispatchLands ==
  ASSUME NEW s \in Store, NEW i \in Invocation
  PROVE  /\ Final(DispatchStores(s, i)).job = [s.job EXCEPT ![i] = "running"]
         /\ Final(DispatchStores(s, i)).proposal = s.proposal
<1> DEFINE paid == Payload(s, i)
           queued == Event(paid, i, "queued")
<1>1. Final(DispatchStores(s, i)) = Moved(queued, i, "running")
  BY DEF Final, DispatchStores
<1>2. paid \in Store /\ paid.job = s.job /\ paid.proposal = s.proposal
  BY DEF Payload, Store
<1>3. queued \in Store /\ queued.job = s.job /\ queued.proposal = s.proposal
  BY <1>2 DEF Event, Store, Status, Working
<1> HIDE DEF paid, queued
<1>4. Moved(queued, i, "running").job = [s.job EXCEPT ![i] = "running"]
  BY <1>3, OneJob DEF Status, Working
<1>5. Moved(queued, i, "running").proposal = s.proposal
  BY <1>3 DEF Moved, Event, Job, Store
<1>6. QED BY <1>1, <1>4, <1>5

\* A resumption sets the parked job running.
LEMMA ResumeLands ==
  ASSUME NEW s \in Store, NEW p \in Proposal
  PROVE  /\ Final(ThenResume(s, p)).job =
              IF p \in waiter /\ holder(p) \in Invocation /\ s.job[holder(p)] = "waiting-approval"
              THEN [s.job EXCEPT ![holder(p)] = "running"] ELSE s.job
         /\ Final(ThenResume(s, p)).proposal = s.proposal
<1> DEFINE h == holder(p)
<1>1. Final(<<s>>) = s
  BY DEF Final
<1>2. h \in Invocation =>
        Final(<<s, Job(s, h, "running"), Moved(s, h, "running")>>) = Moved(s, h, "running")
  BY DEF Final
<1>3. h \in Invocation => Moved(s, h, "running").job = [s.job EXCEPT ![h] = "running"]
  BY OneJob DEF Status, Working
<1>4. QED BY <1>1, <1>2, <1>3, ResumeKeepsProposals DEF ThenResume

\* A request leaves its job waiting on a new proposal.
LEMMA RequestLands ==
  ASSUME store \in Store, NEW i \in Invocation, NEW p \in Proposal
  PROVE  /\ Final(RequestStores(i, p)).job = [store.job EXCEPT ![i] = "waiting-approval"]
         /\ Final(RequestStores(i, p)).proposal =
              [store.proposal EXCEPT ![p] = [state |-> "open", holder |-> i]]
<1> DEFINE parked == Moved(store, i, "waiting-approval")
<1>1. Final(RequestStores(i, p)) = Propose(parked, p, i)
  BY DEF Final, RequestStores
<1>2. parked \in Store /\ parked.job = [store.job EXCEPT ![i] = "waiting-approval"]
  BY OneJob DEF Status, Working
<1>3. parked.proposal = store.proposal
  BY DEF Moved, Event, Job, Store
<1>4. QED BY <1>1, <1>2, <1>3 DEF Propose, Store

\* An execution that ends and completes its writes leaves its job ended.
LEMMA OutcomeLands ==
  ASSUME store \in Store, NEW i \in Invocation, store.job[i] \notin {"absent", "queued"},
         i \in aborted => store.job[i] \in {"cancel-requested"} \cup Ended,
         NEW ws, ws = FailStores(i) \/ ws = ReturnStores(i)
  PROVE  /\ \A j \in Invocation \ {i} : Final(ws).job[j] = store.job[j]
         /\ Final(ws).job[i] \in Ended
         /\ Final(ws).proposal = store.proposal
<1> DEFINE Ends(vs) == /\ \A j \in Invocation \ {i} : Final(vs).job[j] = store.job[j]
                       /\ Final(vs).job[i] \in Ended
                       /\ Final(vs).proposal = store.proposal
           end == IF i \in aborted THEN "cancelled" ELSE "failed"
<1>1. ASSUME NEW e \in Ended PROVE Ends(Move(store, i, e))
  <2>1. /\ Final(Move(store, i, e)).job = [store.job EXCEPT ![i] = e]
        /\ Final(Move(store, i, e)).proposal = store.proposal
    BY MoveLands DEF Status
  <2>2. QED BY <2>1 DEF Store
<1>2. store.job[i] \in Ended => Ends(<<store>>)
  BY MoveLands DEF Status, Working, Final
<1>3. end \in Ended /\ (Legal(store.job[i], end) \/ store.job[i] \in Ended)
  BY DEF Store, Legal, INVOCATION_TRANSITIONS, Status, Working, Ended
<1>4. FailStores(i) = IF Legal(store.job[i], end) THEN Move(store, i, end) ELSE <<store>>
  BY DEF FailStores
<1> HIDE DEF Ends, end
<1>5. Ends(FailStores(i))
  BY <1>1, <1>2, <1>3, <1>4
<1>6. Ends(ReturnStores(i))
  BY <1>1, <1>5 DEF ReturnStores, Ended
<1>7. QED BY <1>5, <1>6 DEF Ends

\* What is in memory is gone while the daemon does not serve, and what
\* recovery leaves has ended.
Memory ==
  /\ daemon # "up" => waiter = {} /\ aborted = {} /\ \A i \in Invocation : run[i] = "none"
  /\ daemon = "recovering" => \A i \in Invocation : store.job[i] \in {"absent"} \cup Ended

\* An aborted execution only ends.
AbortInv == \A i \in aborted : store.job[i] \in {"cancel-requested"} \cup Ended

Attended == Serving /\ faults = 0 => Tended(store.job, store.proposal, run, waiter)

LiveInv == AskInv /\ Memory /\ Placed(store) /\ AbortInv /\ Attended

\* Nothing is at work at first.
LEMMA InitLiveInv == Init => LiveInv
BY InteractionServiceAssumption
   DEF Init, LiveInv, AskInv, Memory, Placed, AbortInv, Attended, Tended, Ended, Working, Status

\* A death empties the memory, and recovery ends every job before it serves.
LEMMA NextMemory == Inv /\ LiveInv /\ [Next]_vars => Memory'
<1> SUFFICES ASSUME Inv, LiveInv, [Next]_vars PROVE Memory'
  OBVIOUS
<1>0. Memory /\ store \in Store
  BY DEF Inv, TypeOK, LiveInv
<1>1. CASE Down
  BY <1>1 DEF Down, Memory
<1>2. CASE Serving /\ ~Down
  <2>1. daemon' = "up"
    BY <1>2 DEF Serving, Next, Client, Execute, Decision, Recovery, submitMessage, RetryMessage,
       cancelInvocation, StopTurn, AdmitTurn, RefuseTurn, ExecutorReturns, ExecutorThrows,
       requestApproval, RequestDaemonApproval, decideProposal, ExpireProposal, TurnAborts,
       ClockAdvances, RecoverJobs, RecoverEvent, RecoverProposal, RestartFails, Serve, Crash,
       Dispatched, Settled, Dies, Quiet, vars
  <2>2. QED BY <2>1 DEF Memory
<1>3. CASE ~Serving /\ ~Down
  <2>1. \/ RecoverJobs \/ Serve \/ UNCHANGED vars
        \/ \E i \in Invocation : RecoverEvent(i)
        \/ \E p \in Proposal : RecoverProposal(p) \/ RestartFails(p) \/ ClockAdvances(p)
    BY <1>3 DEF Serving, Next, Client, Execute, Decision, Recovery, submitMessage, RetryMessage,
       cancelInvocation, StopTurn, AdmitTurn, RefuseTurn, ExecutorReturns, ExecutorThrows,
       requestApproval, RequestDaemonApproval, decideProposal, ExpireProposal, TurnAborts, Crash
  <2>2. CASE RecoverJobs
    BY <1>0, <2>2 DEF RecoverJobs, Memory, Recovered, Store, Status, Working, Ended
  <2>3. ASSUME NEW i \in Invocation, RecoverEvent(i) PROVE Memory'
    BY <1>0, <2>3 DEF RecoverEvent, Memory, Event, Store
  <2>4. ASSUME NEW p \in Proposal, RecoverProposal(p) PROVE Memory'
    BY <1>0, <2>4 DEF RecoverProposal, Memory, Mark, Store
  <2>5. CASE Serve \/ UNCHANGED vars \/ \E p \in Proposal : RestartFails(p) \/ ClockAdvances(p)
    BY <1>0, <2>5 DEF Serve, RestartFails, ClockAdvances, Memory, vars
  <2>6. QED BY <2>1, <2>2, <2>3, <2>4, <2>5
<1>4. QED BY <1>1, <1>2, <1>3

\* Only a cancelled or ended job's execution is aborted.
LEMMA NextAbortInv == Inv /\ LiveInv /\ [Next]_vars => AbortInv'
<1> SUFFICES ASSUME Inv, LiveInv, [Next]_vars, NEW i \in aborted'
             PROVE  store'.job[i] \in {"cancel-requested"} \cup Ended
  BY DEF AbortInv
<1>0. store \in Store /\ aborted \subseteq Invocation /\ RunInv
  BY DEF Inv, TypeOK
<1>1. CASE i \in aborted
  BY <1>0, <1>1, StepEvolves DEF Evolves, JobEvolves, LiveInv, AbortInv
<1>2. CASE i \notin aborted
  <2>1. PICK j \in Invocation : cancelInvocation(j) \/ StopTurn(j)
    <3>1. CASE \E j \in Invocation : Execute(j)
      BY <1>2, <3>1 DEF Execute, AdmitTurn, RefuseTurn, ExecutorReturns, ExecutorThrows, Settled, Dies, Down
    <3>2. CASE \E p \in Proposal :
                 \/ \E j \in Invocation : requestApproval(j, p)
                 \/ \E h \in DaemonAskers : RequestDaemonApproval(h, p)
                 \/ Decision(p) \/ ExpireProposal(p) \/ TurnAborts(p) \/ ClockAdvances(p)
      BY <1>2, <3>2 DEF requestApproval, RequestDaemonApproval, Decision, decideProposal,
         ExpireProposal, TurnAborts, ClockAdvances, Dies, Down
    <3>3. CASE Recovery \/ Crash \/ UNCHANGED vars
      BY <1>2, <3>3 DEF Recovery, RecoverJobs, RecoverEvent, RecoverProposal, RestartFails, Serve,
         Crash, Down, vars
    <3>4. CASE \E j \in Invocation : submitMessage(j) \/ RetryMessage(j)
      BY <1>2, <3>4 DEF submitMessage, RetryMessage, Dispatched, Dies, Down
    <3>5. QED BY <3>1, <3>2, <3>3, <3>4 DEF Next, Client
  <2>5. i = j /\ ~Down /\ aborted' # aborted
    BY <1>2, <2>1 DEF cancelInvocation, StopTurn, Abort, Dies, Down
  <2>2. /\ Final(Move(store, i, "cancel-requested")).job = [store.job EXCEPT ![i] = "cancel-requested"]
        /\ Final(<<store>>) = store
        /\ store.job \in [Invocation -> Status \cup {"absent"}]
    BY <1>0, <2>1, <2>5, MoveLands DEF Status, Store
  <2>3. CASE cancelInvocation(i)
    <3>1. run[i] # "none" /\ store' = Final(CancelRequest(i))
      BY <2>5, <2>3 DEF cancelInvocation, CancelStores, Dies
    <3>2. QED BY <2>1, <2>2, <2>5, <3>1 DEF CancelRequest
  <2>4. CASE StopTurn(i)
    <3>1. /\ run[i] # "none"
          /\ store' = Final(IF store.job[i] \in {"running", "waiting-approval"}
                            THEN Move(store, i, "cancel-requested") ELSE <<store>>)
      BY <2>5, <2>4 DEF StopTurn, Dies
    <3>2. QED BY <1>0, <2>1, <2>2, <2>5, <3>1 DEF RunInv, Status, Working
  <2>6. QED BY <2>1, <2>3, <2>4, <2>5
<1>3. QED BY <1>1, <1>2

\* While no write throws, a daemon that serves keeps every job attended.
LEMMA NextAttended == Inv /\ LiveInv /\ [Next]_vars => Attended'
<1> SUFFICES ASSUME Inv, LiveInv, [Next]_vars, daemon' = "up", faults' = 0
             PROVE  Tended(store'.job, store'.proposal, run', waiter')
  BY DEF Attended, Serving
<1> USE InteractionServiceAssumption
<1> DEFINE J == store.job
           P == store.proposal
           Kept == Tended(store'.job, store'.proposal, run', waiter')
<1>1. /\ store \in Store /\ Typed(J, P, run, waiter) /\ waiter \subseteq Proposal /\ faults \in Nat
      /\ run \in [Invocation -> {"none", "admission", "executor", "approval"}]
      /\ aborted \subseteq Invocation
  BY DEF Inv, TypeOK, Typed, Store
<1>2. ~Down /\ \A stores : ~Throws(stores)
  BY <1>1 DEF Down, Throws
<1>3. ASSUME Serving, faults = 0 PROVE Tended(J, P, run, waiter)
  BY <1>3 DEF LiveInv, Attended
<1>4. /\ \A i \in Invocation : run[i] # "none" => J[i] \notin {"absent", "queued"}
      /\ \A p \in Proposal : P[p].holder \in Invocation => J[P[p].holder] \notin {"absent", "queued"}
      /\ \A i \in aborted : J[i] \in {"cancel-requested"} \cup Ended
  BY DEF Inv, RunInv, LiveInv, Placed, AbortInv
<1>5. ASSUME NEW i \in Invocation, submitMessage(i) \/ RetryMessage(i) PROVE Kept
  <2>1. \E s \in Store : /\ s.job = [J EXCEPT ![i] = "queued"] /\ s.proposal = P
                         /\ Dispatched(i, DispatchStores(s, i))
    <3>1. CASE submitMessage(i)
      <4>1. /\ Job(store, i, "queued") \in Store
            /\ Job(store, i, "queued").job = [J EXCEPT ![i] = "queued"]
            /\ Job(store, i, "queued").proposal = P
        BY <1>1 DEF Job, Store, Status, Working
      <4>2. QED BY <3>1, <4>1 DEF submitMessage
    <3>2. CASE RetryMessage(i)
      <4>1. J = [J EXCEPT ![i] = "queued"]
        BY <1>1, <3>2 DEF RetryMessage, Typed
      <4>2. QED BY <1>1, <3>2, <4>1 DEF RetryMessage
    <3>3. QED BY <1>5, <3>1, <3>2
  <2>2. PICK s \in Store : /\ s.job = [J EXCEPT ![i] = "queued"] /\ s.proposal = P
                           /\ Dispatched(i, DispatchStores(s, i))
    BY <2>1
  <2>3. /\ store' = Final(DispatchStores(s, i)) /\ run' = [run EXCEPT ![i] = "admission"]
        /\ waiter' = waiter /\ faults' = faults
    <3> HIDE DEF DispatchStores
    <3>1. QED BY <1>2, <2>2 DEF Dispatched, Dies
  <2>4. store'.job = [J EXCEPT ![i] = "running"] /\ store'.proposal = P
    <3>1. store'.job = [s.job EXCEPT ![i] = "running"] /\ store'.proposal = P
      BY <2>2, <2>3, DispatchLands
    <3>2. QED BY <1>1, <2>2, <3>1 DEF Typed
  <2>5. Serving /\ faults = 0 /\ J[i] \in {"absent", "queued"}
    BY <1>5, <2>3 DEF submitMessage, RetryMessage
  <2>6. \A p \in Proposal : P[p].holder # i
    BY <1>4, <2>5
  <2>7. Tended([J EXCEPT ![i] = "running"], P, [run EXCEPT ![i] = "admission"], waiter)
    BY <1>1, <1>3, <2>5, <2>6, DispatchTended
  <2>8. QED BY <2>3, <2>4, <2>7
<1>6. ASSUME NEW i \in Invocation, AdmitTurn(i) PROVE Kept
  <2>1. /\ Serving /\ faults = 0 /\ run[i] = "admission" /\ run' = [run EXCEPT ![i] = "executor"]
        /\ store' = store /\ waiter' = waiter
    BY <1>6 DEF AdmitTurn
  <2>2. QED BY <1>1, <1>3, <2>1, AdmitTended
<1>7. ASSUME NEW i \in Invocation, RefuseTurn(i) \/ ExecutorReturns(i) \/ ExecutorThrows(i) PROVE Kept
  <2>1. PICK ws : Settled(i, ws) /\ (ws = FailStores(i) \/ ws = ReturnStores(i))
    BY <1>7 DEF RefuseTurn, ExecutorReturns, ExecutorThrows
  <2>2. Serving /\ run[i] # "none"
    BY <1>7 DEF RefuseTurn, ExecutorReturns, ExecutorThrows
  <2>3. store' = Final(ws) /\ run' = [run EXCEPT ![i] = "none"] /\ waiter' = waiter /\ faults' = faults
    BY <1>2, <2>1 DEF Settled, Dies
  <2>4. /\ \A j \in Invocation \ {i} : store'.job[j] = J[j]
        /\ store'.job[i] \in Ended
        /\ store'.proposal = P
    BY <1>1, <1>4, <2>1, <2>2, <2>3, OutcomeLands
  <2>5. QED BY <1>1, <1>3, <2>2, <2>3, <2>4, EndTended
<1>8. ASSUME NEW i \in Invocation, NEW p \in Proposal, requestApproval(i, p) PROVE Kept
  <2>1. /\ Serving /\ run[i] = "executor" /\ P[p].state = "absent"
        /\ store' = Final(RequestStores(i, p)) /\ run' = [run EXCEPT ![i] = "approval"]
        /\ waiter' = waiter \cup {p} /\ faults' = faults
    BY <1>2, <1>8 DEF requestApproval, Dies
  <2>2. /\ store'.job = [J EXCEPT ![i] = "waiting-approval"]
        /\ store'.proposal = [P EXCEPT ![p] = [state |-> "open", holder |-> i]]
    BY <1>1, <2>1, RequestLands
  <2>3. Tended([J EXCEPT ![i] = "waiting-approval"], [P EXCEPT ![p] = [state |-> "open", holder |-> i]],
               [run EXCEPT ![i] = "approval"], waiter \cup {p})
    BY <1>1, <1>3, <2>1, ParkTended
  <2>4. QED BY <2>1, <2>2, <2>3
<1>9. ASSUME NEW p \in Proposal, NEW h \in DaemonAskers, RequestDaemonApproval(h, p) PROVE Kept
  <2>1. /\ Serving /\ P[p].state = "absent" /\ store' = Propose(store, p, h)
        /\ waiter' = waiter \cup {p} /\ run' = run /\ faults' = faults
    BY <1>2, <1>9 DEF RequestDaemonApproval
  <2>2. store'.job = J /\ store'.proposal = [P EXCEPT ![p] = [state |-> "open", holder |-> h]]
    BY <1>1, <2>1 DEF Propose, Store
  <2>3. h \notin Invocation
    BY <1>9
  <2>4. Tended(J, [P EXCEPT ![p] = [state |-> "open", holder |-> h]], run, waiter \cup {p})
    BY <1>1, <1>3, <2>1, <2>3, AskTended
  <2>5. QED BY <2>1, <2>2, <2>4
\* Deciding, expiring and a turn's own abort settle p over a store that
\* differs from the old one in p's state only.
<1>10. ASSUME NEW p \in Proposal, NEW s \in Store, NEW answer, s.job = J, Serving, faults = 0,
              \A q \in Proposal : s.proposal[q].holder = P[q].holder,
              \A q \in Proposal \ {p} : s.proposal[q] = P[q],
              p \in waiter \/ P[p].holder \notin Invocation \/ J[P[p].holder] = "waiting-approval",
              store' = Final(ThenResume(s, p)), Settle(p, answer)
       PROVE  Kept
  <2>1. /\ store'.job = IF p \in waiter /\ holder(p) \in Invocation /\ J[holder(p)] = "waiting-approval"
                        THEN [J EXCEPT ![holder(p)] = "running"] ELSE J
        /\ store'.proposal = s.proposal
    BY <1>10, ResumeLands
  <2>2. /\ waiter' = waiter \ {p}
        /\ p \in waiter => run' = [i \in Invocation |-> IF i = holder(p) /\ run[i] = "approval" THEN "executor" ELSE run[i]]
        /\ p \notin waiter => run' = run
    BY <1>10 DEF Settle
  <2>3. p \notin waiter => store'.job = J
    BY <2>1
  <2>4. p \in waiter =>
          /\ \A j \in Invocation \ {P[p].holder} : store'.job[j] = J[j] /\ run'[j] = run[j]
          /\ P[p].holder \in Invocation =>
               /\ run'[P[p].holder] = IF run[P[p].holder] = "approval" THEN "executor" ELSE run[P[p].holder]
               /\ store'.job[P[p].holder] = IF J[P[p].holder] = "waiting-approval" THEN "running"
                                            ELSE J[P[p].holder]
    <3>1. holder(p) = P[p].holder /\ J \in [Invocation -> Status \cup {"absent"}]
      BY <1>1 DEF holder, Typed
    <3>2. QED BY <1>1, <2>1, <2>2, <3>1
  <2>5. /\ \A q \in Proposal : store'.proposal[q].holder = P[q].holder
        /\ \A q \in Proposal \ {p} : store'.proposal[q] = P[q]
        /\ p \notin waiter => store'.job = J /\ run' = run
    BY <1>10, <2>1, <2>2, <2>3
  <2>6. Tended(store'.job, store'.proposal, run', waiter \ {p})
    <3> DEFINE K == store'.job
               Q == store'.proposal
               S == run'
    <3>1. Tended(J, P, run, waiter) /\ Typed(J, P, run, waiter) /\ p \in Proposal
      BY <1>1, <1>3, <1>10
    <3>2. /\ \A q \in Proposal : Q[q].holder = P[q].holder
          /\ \A q \in Proposal \ {p} : Q[q] = P[q]
          /\ p \notin waiter => K = J /\ S = run
      BY <2>5
    <3>3. p \in waiter =>
            /\ \A j \in Invocation \ {P[p].holder} : K[j] = J[j] /\ S[j] = run[j]
            /\ P[p].holder \in Invocation =>
                 /\ S[P[p].holder] = IF run[P[p].holder] = "approval" THEN "executor" ELSE run[P[p].holder]
                 /\ K[P[p].holder] = IF J[P[p].holder] = "waiting-approval" THEN "running"
                                      ELSE J[P[p].holder]
      BY <2>4
    <3> HIDE DEF J, P, K, Q, S
    <3>4. Settles(J, P, run, waiter, p, K, Q, S)
      BY <3>2, <3>3 DEF Settles
    <3>5. Tended(K, Q, S, waiter \ {p})
      BY <3>1, <3>4, SettleTended
    <3>6. QED BY <3>5 DEF K, Q, S
  <2>7. QED BY <2>2, <2>6
<1>11. ASSUME NEW p \in Proposal, NEW state \in Decided
       PROVE  /\ Mark(store, p, state) \in Store /\ Mark(store, p, state).job = J
              /\ \A q \in Proposal : Mark(store, p, state).proposal[q].holder = P[q].holder
              /\ \A q \in Proposal \ {p} : Mark(store, p, state).proposal[q] = P[q]
  BY <1>1, MarkLands
<1>12. ASSUME NEW p \in Proposal, Decision(p) PROVE Kept
  <2>1. ASSUME NEW state \in Decided, NEW answer, decideProposal(p, state, answer) PROVE Kept
    <3>1. /\ Serving /\ StillWaiting(p)
          /\ store' = Final(ThenResume(Mark(store, p, state), p)) /\ Settle(p, answer) /\ faults' = faults
      BY <1>2, <2>1 DEF decideProposal, Dies
    <3>2. p \in waiter \/ P[p].holder \notin Invocation \/ J[P[p].holder] = "waiting-approval"
      BY <3>1 DEF StillWaiting, holder
    <3>3. QED BY <1>10, <1>11, <2>1, <3>1, <3>2
  <2>2. QED BY <1>12, <2>1 DEF Decision, Decided
<1>13. ASSUME NEW p \in Proposal
       PROVE  /\ Expired(p) \in Store /\ Expired(p).job = J
              /\ \A q \in Proposal : Expired(p).proposal[q].holder = P[q].holder
              /\ \A q \in Proposal \ {p} : Expired(p).proposal[q] = P[q]
  BY <1>1, <1>11 DEF Expired, Decided
<1>14. ASSUME NEW p \in Proposal, ExpireProposal(p) PROVE Kept
  <2>1. /\ Serving /\ (p \in waiter \/ StillWaiting(p))
        /\ store' = Final(ThenResume(Expired(p), p)) /\ Settle(p, "deny") /\ faults' = faults
    BY <1>2, <1>14 DEF ExpireProposal, Dies
  <2>2. p \in waiter \/ P[p].holder \notin Invocation \/ J[P[p].holder] = "waiting-approval"
    BY <2>1 DEF StillWaiting, holder
  <2>3. QED BY <1>10, <1>13, <2>1, <2>2
<1>15. ASSUME NEW p \in Proposal, TurnAborts(p) PROVE Kept
  <2>1. /\ Serving /\ p \in waiter /\ holder(p) = Turn
        /\ store' = Expired(p) /\ Settle(p, "deny") /\ faults' = faults
    BY <1>2, <1>15 DEF TurnAborts
  <2>2. Final(ThenResume(Expired(p), p)) = Expired(p)
    BY <2>1 DEF ThenResume, Final
  <2>3. QED BY <1>10, <1>13, <2>1, <2>2
<1>16. ASSUME NEW i \in Invocation, Abort(i), Serving, faults = 0, run[i] # "none", store'.proposal = P,
              \A j \in Invocation \ {i} : store'.job[j] = J[j], store'.job[i] # "waiting-approval"
       PROVE  Kept
  <2>1. /\ waiter' = waiter \ {p \in waiter : P[p].holder = i}
        /\ run' = [run EXCEPT ![i] = IF @ = "approval" THEN "executor" ELSE @]
    BY <1>16 DEF Abort, holder
  <2>2. Tended(store'.job, P, [run EXCEPT ![i] = IF @ = "approval" THEN "executor" ELSE @],
               waiter \ {p \in waiter : P[p].holder = i})
    <3> DEFINE K == store'.job
    <3>1. /\ \A j \in Invocation \ {i} : K[j] = J[j]
          /\ K[i] # "waiting-approval"
          /\ run[i] # "none" /\ i \in Invocation
          /\ Tended(J, P, run, waiter) /\ Typed(J, P, run, waiter)
      BY <1>1, <1>3, <1>16
    <3> HIDE DEF J, P, K
    <3>2. Tended(K, P, [run EXCEPT ![i] = IF @ = "approval" THEN "executor" ELSE @],
                 waiter \ {p \in waiter : P[p].holder = i})
      BY <3>1, AbortTended
    <3>3. QED BY <3>2 DEF J, P, K
  <2>3. QED BY <1>16, <2>1, <2>2
<1>17. ASSUME NEW i \in Invocation
       PROVE  /\ Final(Move(store, i, "cancel-requested")).job = [J EXCEPT ![i] = "cancel-requested"]
              /\ Final(Move(store, i, "cancel-requested")).proposal = P
              /\ Final(<<store>>) = store
              /\ J \in [Invocation -> Status \cup {"absent"}]
  <2>1. "cancel-requested" \in Status /\ J \in [Invocation -> Status \cup {"absent"}]
    BY <1>1 DEF Status, Typed
  <2>2. QED BY <1>1, <2>1, MoveLands
<1>18. ASSUME NEW i \in Invocation, cancelInvocation(i) PROVE Kept
  <2>1. /\ Serving /\ J[i] \in Status \ Ended /\ store' = Final(CancelStores(i)) /\ faults' = faults
        /\ run[i] # "none" => Abort(i)
    BY <1>2, <1>18 DEF cancelInvocation, Dies
  <2>2. run[i] # "none"
    BY <1>3, <1>18, <2>1 DEF Tended
  <2>3. store' = Final(CancelRequest(i))
    BY <2>1, <2>2 DEF CancelStores
  <2>4. /\ store'.proposal = P /\ store'.job[i] = "cancel-requested"
        /\ \A j \in Invocation \ {i} : store'.job[j] = J[j]
    BY <1>17, <1>18, <2>3 DEF CancelRequest
  <2>5. QED BY <1>16, <2>1, <2>2, <2>4
<1>19. ASSUME NEW i \in Invocation, StopTurn(i) PROVE Kept
  <2>1. /\ Serving /\ run[i] # "none" /\ Abort(i) /\ faults' = faults
        /\ store' = Final(IF J[i] \in {"running", "waiting-approval"}
                          THEN Move(store, i, "cancel-requested") ELSE <<store>>)
    BY <1>2, <1>19 DEF StopTurn, Dies
  <2>2. /\ store'.proposal = P /\ store'.job[i] # "waiting-approval"
        /\ \A j \in Invocation \ {i} : store'.job[j] = J[j]
    BY <1>17, <1>19, <2>1
  <2>3. QED BY <1>16, <2>1, <2>2
<1>20. ASSUME NEW p \in Proposal, ClockAdvances(p) PROVE Kept
  BY <1>3, <1>20 DEF ClockAdvances, Serving
\* Serving begins with nothing at work.
<1>21. CASE Serve
  BY <1>1, <1>21 DEF Serve, LiveInv, Memory, Tended, Typed, Status, Working, Ended
<1>22. CASE (Recovery /\ ~Serve) \/ Crash
  BY <1>2, <1>22 DEF Recovery, RecoverJobs, RecoverEvent, RecoverProposal, RestartFails, Crash
<1>23. CASE UNCHANGED vars
  BY <1>3, <1>23 DEF vars, Serving
<1>24. QED
  BY <1>5, <1>6, <1>7, <1>8, <1>9, <1>12, <1>14, <1>15, <1>18, <1>19, <1>20, <1>21, <1>22, <1>23
     DEF Next, Client, Execute

\* LiveInv is an invariant of the specification.
LEMMA LiveInvariance == Spec => [](Inv /\ LiveInv)
<1>1. Inv /\ LiveInv /\ [Next]_vars => LiveInv'
  <2> SUFFICES ASSUME Inv, LiveInv, [Next]_vars PROVE LiveInv'
    OBVIOUS
  <2>1. AskInv'
    BY NextAskInv DEF LiveInv
  <2>2. Placed(store')
    BY StepEvolves DEF Evolves, LiveInv
  <2>3. QED BY <2>1, <2>2, NextMemory, NextAbortInv, NextAttended DEF LiveInv
<1>2. QED BY Invariance, InitLiveInv, <1>1, PTL DEF Spec

\* While the daemon serves and no write has thrown, whatever was submitted,
\* cancelled, decided or lost with an earlier daemon, every invocation that
\* has not ended is being run, and one that waits has an open proposal
\* someone can still decide (agent-daemon.mjs:2097-2100).
THEOREM NobodyStranded == Spec => []NothingStranded
<1>1. Inv /\ LiveInv => NothingStranded
  <2> SUFFICES ASSUME Inv, LiveInv, Serving, faults = 0, NEW i \in Invocation
               PROVE  /\ store.job[i] \in Status \ Ended => run[i] # "none"
                      /\ store.job[i] = "waiting-approval" => run[i] = "approval" /\ Parked(i)
    BY DEF NothingStranded
  <2>1. Tended(store.job, store.proposal, run, waiter)
    BY DEF LiveInv, Attended
  <2>2. QED BY <2>1 DEF Tended, Parked, holder
<1>2. QED BY LiveInvariance, <1>1, PTL

\* While no write has thrown, an approval resumes only an execution that
\* still waits for it and was not aborted, and never after its expiry
\* (agent-interaction.mjs:376-407).
THEOREM ApprovalsReachTheLiving == Spec => ApprovalReachesLiveExecution
<1>1. Inv /\ LiveInv /\ [Next]_vars =>
        [\A p \in Proposal :
           faults = 0 /\ told[p] = "nothing" /\ told'[p] = "approve" =>
             /\ clock[p] # "lapsed"
             /\ holder(p) \in Invocation => run[holder(p)] = "approval" /\ holder(p) \notin aborted]_vars
  <2> SUFFICES ASSUME Inv, LiveInv, [Next]_vars, NEW q \in Proposal, faults = 0,
                      told[q] = "nothing", told'[q] = "approve"
               PROVE  /\ clock[q] # "lapsed"
                      /\ holder(q) \in Invocation => run[holder(q)] = "approval" /\ holder(q) \notin aborted
    OBVIOUS
  <2>1. decideProposal(q, "approved", "approve")
    BY OnlyDecisionApproves
  <2>2. Serving /\ StillWaiting(q) /\ clock[q] # "lapsed"
    BY <2>1 DEF decideProposal
  <2>3. Tended(store.job, store.proposal, run, waiter)
    BY <2>2 DEF LiveInv, Attended
  <2>4. ASSUME holder(q) \in Invocation PROVE run[holder(q)] = "approval" /\ holder(q) \notin aborted
    <3>1. store.job[holder(q)] = "waiting-approval"
      BY <2>2, <2>4 DEF StillWaiting
    <3>2. QED BY <2>3, <2>4, <3>1 DEF Tended, LiveInv, AbortInv, Ended
  <2>5. QED BY <2>2, <2>4
<1>2. QED BY LiveInvariance, <1>1, PTL DEF Spec, ApprovalReachesLiveExecution
=============================================================================
