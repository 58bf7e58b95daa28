------------------------ MODULE DreamSchedulerProofs ------------------------
(***************************************************************************)
(* Proofs about DreamScheduler, for any number of daemons, souls, runs and *)
(* faults, and on platforms that can tell a process group's owner or not.  *)
(*                                                                         *)
(* The lease is not inductive.  It rests on when a recovery may settle a   *)
(* run: only once its group is recorded and found gone, and a group is     *)
(* recorded only after the agent was spawned.  So a run that has not       *)
(* spawned yet is still in flight, whatever other daemons did, and the     *)
(* journal's account of a request is the aborting daemon's own for as long *)
(* as that daemon may write.                                               *)
(***************************************************************************)
EXTENDS DreamScheduler, TLAPS

\* A run in flight is a run of that soul that has not ended.
FlightInv ==
  \A s \in Soul : flight[s] # NoFlight =>
    LET r == flight[s].run
    IN  started[r] # NoRun /\ SoulOf(r) = s /\ ended[r] = "open"

\* Nothing is known of a run that was not started.
UnstartedInv ==
  \A r \in Run : started[r] = NoRun =>
    /\ ended[r] = "open" /\ asked[r] = "none" /\ turn[r] = "none"
    /\ \A d \in Daemon : r \notin live[d] \cup reaping[d]

\* One daemon drives a run, and is up.
LiveInv ==
  /\ \A d \in Daemon \ up : live[d] = {}
  /\ \A d, e \in Daemon : d # e => live[d] \cap live[e] = {}

\* Until its process is recorded no daemon finds a run's agent gone, so that it
\* is still in flight when its agent is spawned.
AgentInv ==
  \A r \in Run :
    /\ turn[r] \in {"none", "queued", "prepared"} => r \notin alive
    /\ turn[r] \in {"queued", "prepared"} => InFlight(r) /\ flight[SoulOf(r)].group = "unknown"
    /\ r \in alive => InFlight(r)
    /\ r \in alive /\ Groups /\ turn[r] \in {"recorded", "prompted"}
       => flight[SoulOf(r)].group = "recorded"

\* A daemon that may still write asked for what the journal says was asked for.
ReasonInv ==
  \A d \in Daemon, r \in Run :
    Reads(d) /\ r \in live[d] /\ InFlight(r) => flight[SoulOf(r)].reason = asked[r]

RowInv ==
  \A s \in Soul : reg[s] # NoRow => reg[s].since <= reg[s].generation /\ reg[s].generation <= changes

IInv ==
  /\ TypeOK
  /\ FlightInv /\ UnstartedInv /\ LiveInv /\ AgentInv /\ ReasonInv /\ RowInv
  /\ ResultsKeepToTheirRegistration
  /\ QuarantineIsNoticed

-----------------------------------------------------------------------------
(* Types. *)

Regs    == [Soul -> Row \cup {NoRow}]
Flights == [Soul -> Flight \cup {NoFlight}]
Ends    == [Run -> Outcomes \cup {"open"}]

\* What a transaction of d leaves typed.
Journaled(d) ==
  /\ reg' \in Regs /\ flight' \in Flights /\ noticed' \subseteq Soul /\ ended' \in Ends
  /\ stale' \subseteq up /\ frozen' \subseteq frozen \cup {d}
  /\ faults' \in 0 .. MaxFaults

\* A transaction publishes what is typed if it is given what is typed.
LEMMA PersistTypes ==
  ASSUME TypeOK, NEW d, NEW c, NEW reg1 \in Regs, NEW flight1 \in Flights, NEW noticed1 \in SUBSET Soul,
         NEW ended1 \in Ends, Persist(d, c, reg1, flight1, noticed1, ended1)
  PROVE  Journaled(d)
<1> USE DEF TypeOK, Persist, Journaled, Regs, Flights, Ends
<1>1. reg' \in Regs /\ flight' \in Flights /\ ended' \in Ends
  OBVIOUS
<1>2. noticed' \subseteq Soul
  BY DEF Kept
<1>3. stale' \subseteq up /\ frozen' \subseteq frozen \cup {d}
  BY DEF Others
<1>4. faults' \in 0 .. MaxFaults
  BY DreamAssumption
<1> QED BY <1>1, <1>2, <1>3, <1>4

\* So does a step that publishes nothing.
LEMMA Unpersisted ==
  ASSUME TypeOK, NEW d,
         UNCHANGED <<reg, flight, noticed, ended, stale, faults>>, frozen' \in {frozen, frozen \cup {d}}
  PROVE  Journaled(d)
BY DEF TypeOK, Journaled, Regs, Flights, Ends

\* The rest of the state, for a step of a daemon that is up.
LEMMA StepTypes ==
  ASSUME TypeOK, NEW d \in up, Journaled(d), up' = up,
         started' \in [Run -> Attempt \cup {NoRun}],
         live' \in [Daemon -> SUBSET Run], reaping' \in [Daemon -> SUBSET Run],
         asked' \in [Run -> Reasons], turn' \in [Run -> Turns], alive' \subseteq Run,
         changes' \in 0 .. MaxChanges, boots' \in 0 .. MaxBoots
  PROVE  TypeOK'
BY DEF TypeOK, Journaled, Regs, Flights, Ends

\* The transaction of a recovery.
LEMMA RecoverTypes ==
  ASSUME TypeOK, NEW d, NEW c, NEW absent \in SUBSET Gone, NEW ambiguous \in SUBSET Soul,
         \A s \in ambiguous : flight[s] # NoFlight, Recover(d, c, absent, ambiguous)
  PROVE  Journaled(d)
<1> DEFINE reg1 == [s \in Soul |-> IF s \in absent /\ Owns(s, flight[s].run)
                    THEN [reg[s] EXCEPT !.last = flight[s].run] ELSE reg[s]]
           flight1 == [s \in Soul |-> IF s \in absent THEN NoFlight
                       ELSE IF s \in ambiguous THEN [flight[s] EXCEPT !.status = "recovery-required"]
                       ELSE flight[s]]
           ended1 == [r \in Run |-> IF \E s \in absent : flight[s].run = r THEN "interrupted" ELSE ended[r]]
<1>1. reg1 \in Regs
  <2> SUFFICES ASSUME NEW s \in Soul PROVE reg1[s] \in Row \cup {NoRow}
    BY DEF Regs
  <2>1. CASE s \in absent /\ Owns(s, flight[s].run)
    <3>1. flight[s] \in Flight /\ reg[s] \in Row
      BY <2>1 DEF TypeOK, Gone, Recorded, Undecided, Owns
    <3> QED BY <2>1, <3>1 DEF Row, Flight
  <2> QED BY <2>1 DEF TypeOK
<1>2. flight1 \in Flights
  <2> SUFFICES ASSUME NEW s \in Soul PROVE flight1[s] \in Flight \cup {NoFlight}
    BY DEF Flights
  <2>1. CASE s \in ambiguous
    <3>1. flight[s] \in Flight
      BY <2>1 DEF TypeOK
    <3>2. [flight[s] EXCEPT !.status = "recovery-required"] \in Flight
      BY <3>1 DEF Flight
    <3> QED BY <2>1, <3>2
  <2> QED BY <2>1 DEF TypeOK
<1>3. ended1 \in Ends
  BY DEF TypeOK, Ends, Outcomes
<1>4. noticed \cup ambiguous \in SUBSET Soul
  BY DEF TypeOK
<1>5. Persist(d, c, reg1, flight1, noticed \cup ambiguous, ended1)
  BY DEF Recover
<1> HIDE DEF reg1, flight1, ended1
<1> QED BY <1>1, <1>2, <1>3, <1>4, <1>5, PersistTypes

\* Every step keeps the types.
LEMMA TypeStep == ASSUME TypeOK, UnstartedInv, [Next]_vars PROVE TypeOK'
<1> USE DreamAssumption
<1>1. ASSUME NEW d \in Daemon, NEW s \in Soul, NEW c \in Commits, Register(d, s, c) PROVE TypeOK'
  <2> DEFINE g   == changes + 1
             row == IF reg[s] = NoRow
                    THEN [generation |-> g, since |-> g, at |-> "scheduled",
                          last |-> NoRun, selected |-> NoRun]
                    ELSE [reg[s] EXCEPT !.generation = g, !.at = "scheduled"]
  <2>1. g \in Generation
    BY <1>1 DEF Register, Generation, TypeOK
  <2> HIDE DEF g
  <2>2. row \in Row
    <3>1. CASE reg[s] = NoRow
      BY <2>1, <3>1 DEF Row
    <3>2. CASE reg[s] # NoRow
      <4>1. reg[s] \in Row
        BY <3>2 DEF TypeOK
      <4> QED BY <2>1, <3>2, <4>1 DEF Row
    <3> QED BY <3>1, <3>2
  <2>3. [reg EXCEPT ![s] = row] \in Regs
    BY <2>2 DEF Regs, TypeOK
  <2>4. Persist(d, c, [reg EXCEPT ![s] = row], flight, noticed, ended)
    BY <1>1 DEF Register, g
  <2> HIDE DEF row
  <2>5. Journaled(d)
    BY <2>3, <2>4, PersistTypes DEF TypeOK, Flights, Ends
  <2> QED BY <1>1, <2>5, StepTypes DEF Register, Reads, TypeOK, memory
<1>2. ASSUME NEW d \in Daemon, NEW s \in Soul, NEW c \in Commits, Pause(d, s, c) PROVE TypeOK'
  <2> DEFINE row == [reg[s] EXCEPT !.generation = changes + 1, !.at = "paused"]
  <2>1. changes + 1 \in Generation /\ reg[s] \in Row
    BY <1>2 DEF Pause, Generation, TypeOK
  <2>2. row \in Row
    BY <2>1 DEF Row
  <2>3. [reg EXCEPT ![s] = row] \in Regs
    BY <2>2 DEF Regs, TypeOK
  <2>4. Persist(d, c, [reg EXCEPT ![s] = row], flight, noticed, ended)
    BY <1>2 DEF Pause
  <2> HIDE DEF row
  <2>5. Journaled(d)
    BY <2>3, <2>4, PersistTypes DEF TypeOK, Flights, Ends
  <2> QED BY <1>2, <2>5, StepTypes DEF Pause, Reads, TypeOK, memory
<1>3. ASSUME NEW d \in Daemon, NEW s \in Soul, NEW c \in Commits, Unschedule(d, s, c) PROVE TypeOK'
  <2>1. [reg EXCEPT ![s] = NoRow] \in Regs
    BY DEF Regs, TypeOK
  <2>2. Journaled(d)
    BY <1>3, <2>1, PersistTypes DEF Unschedule, TypeOK, Flights, Ends
  <2> QED BY <1>3, <2>2, StepTypes DEF Unschedule, Reads, TypeOK, memory, bounds
<1>4. ASSUME NEW d \in Daemon, NEW s \in Soul, NEW c \in Commits, AcknowledgeNotice(d, s, c) PROVE TypeOK'
  <2>1. Journaled(d)
    BY <1>4, PersistTypes DEF AcknowledgeNotice, TypeOK, Regs, Flights, Ends
  <2> QED BY <1>4, <2>1, StepTypes DEF AcknowledgeNotice, Reads, TypeOK, memory, bounds
<1>5. ASSUME NEW d \in Daemon, NEW s \in Soul, NEW r \in Run, NEW c \in Commits, Start(d, s, r, c) PROVE TypeOK'
  <2> DEFINE run == [run |-> r, status |-> "running", reason |-> "none", group |-> "unknown"]
  <2>1. reg[s] \in Row
    BY <1>5 DEF Start, Scheduled, TypeOK
  <2>2. [flight EXCEPT ![s] = run] \in Flights
    BY DEF Flights, TypeOK, Flight, Reasons
  <2>3. Journaled(d)
    BY <1>5, <2>2, PersistTypes DEF Start, TypeOK, Regs, Ends
  <2>4. started' \in [Run -> Attempt \cup {NoRun}]
    BY <1>5, <2>1 DEF Start, TypeOK, Attempt, Row
  <2>5. live' \in [Daemon -> SUBSET Run] /\ turn' \in [Run -> Turns]
    BY <1>5 DEF Start, TypeOK, Turns
  <2> QED BY <1>5, <2>3, <2>4, <2>5, StepTypes DEF Start, Reads, TypeOK, bounds
<1>6. ASSUME NEW d \in Daemon, NEW r \in Run, NEW c \in Commits, Execute(d, r, c) PROVE TypeOK'
  <2>1. Journaled(d)
    <3>1. CASE Persist(d, c, reg, flight, noticed, ended)
      BY <3>1, PersistTypes DEF TypeOK, Regs, Flights, Ends
    <3>2. CASE UNCHANGED <<reg, flight, noticed, ended, stale, frozen, faults>>
      BY <3>2, Unpersisted
    <3> QED BY <1>6, <3>1, <3>2 DEF Execute
  <2>2. turn' \in [Run -> Turns]
    BY <1>6 DEF Execute, Goes, TypeOK, Turns
  <2> QED BY <1>6, <2>1, <2>2, StepTypes DEF Execute, Drives, TypeOK, bounds
<1>7. ASSUME NEW d \in Daemon, NEW r \in Run, Spawn(d, r) PROVE TypeOK'
  BY <1>7 DEF Spawn, Goes, TypeOK, Turns, journal, daemons, bounds
<1>8. ASSUME NEW d \in Daemon, NEW r \in Run, NEW c \in Commits, RecordProcess(d, r, c) PROVE TypeOK'
  <2> DEFINE s == SoulOf(r)
             f == [flight[s] EXCEPT !.group = "recorded"]
  <2>1. Journaled(d)
    <3>1. CASE Persist(d, c, reg, [flight EXCEPT ![s] = f], noticed, ended)
      <4>1. [flight EXCEPT ![s] = f] \in Flights
        <5>1. s \in Soul => flight[s] \in Flight
          BY <1>8 DEF RecordProcess, InFlight, TypeOK
        <5>2. s \in Soul => f \in Flight
          BY <5>1 DEF Flight
        <5> QED BY <5>2 DEF Flights, TypeOK
      <4> QED BY <3>1, <4>1, PersistTypes DEF TypeOK, Regs, Ends
    <3>2. CASE UNCHANGED <<reg, flight, noticed, ended, stale, frozen, faults>>
      BY <3>2, Unpersisted
    <3> QED BY <1>8, <3>1, <3>2 DEF RecordProcess
  <2>2. turn' \in [Run -> Turns]
    BY <1>8 DEF RecordProcess, Goes, TypeOK, Turns
  <2> QED BY <1>8, <2>1, <2>2, StepTypes DEF RecordProcess, Drives, TypeOK, bounds
<1>9. ASSUME NEW d \in Daemon, NEW r \in Run, RefuseProcess(d, r) PROVE TypeOK'
  BY <1>9 DEF RefuseProcess, Goes, TypeOK, Turns, journal, daemons, bounds
<1>10. ASSUME NEW d \in Daemon, NEW r \in Run, Prompt(d, r) PROVE TypeOK'
  BY <1>10 DEF Prompt, Goes, TypeOK, Turns, journal, daemons, bounds
<1>11. ASSUME NEW r \in Run, AgentExits(r) PROVE TypeOK'
  BY <1>11 DEF AgentExits, TypeOK, journal, daemons, memory, bounds
<1>12. ASSUME NEW d \in Daemon, NEW r \in Run, NEW why \in {"owner", "timeout"}, NEW c \in Commits,
              Cancel(d, r, why, c) PROVE TypeOK'
  <2> DEFINE s == SoulOf(r)
             f == [flight[s] EXCEPT !.status = "cancelling", !.reason = why]
  <2>1. Journaled(d)
    <3>1. CASE Reads(d) /\ InFlight(r)
      <4>1. [flight EXCEPT ![s] = f] \in Flights
        <5>1. s \in Soul => flight[s] \in Flight
          BY <3>1 DEF InFlight, TypeOK
        <5>2. s \in Soul => f \in Flight
          BY <5>1 DEF Flight, Reasons
        <5> QED BY <5>2 DEF Flights, TypeOK
      <4> QED BY <1>12, <3>1, <4>1, PersistTypes DEF Cancel, TypeOK, Regs, Ends
    <3>2. CASE ~(Reads(d) /\ InFlight(r))
      BY <1>12, <3>2, Unpersisted DEF Cancel, Freezes
    <3> QED BY <3>1, <3>2
  <2>2. asked' \in [Run -> Reasons]
    BY <1>12 DEF Cancel, TypeOK, Reasons
  <2> QED BY <1>12, <2>1, <2>2, StepTypes DEF Cancel, Drives, TypeOK, bounds
<1>13. ASSUME NEW d \in Daemon, NEW r \in Run, NEW ok \in BOOLEAN, NEW structured \in BOOLEAN, NEW c \in Commits,
              Finish(d, r, ok, structured, c) PROVE TypeOK'
  <2> DEFINE s == SoulOf(r)
             on == ok /\ flight[s].reason = "none" /\ structured
             row == [reg[s] EXCEPT !.last = r, !.selected = IF on THEN r ELSE reg[s].selected]
             reg1 == IF Owns(s, r) THEN [reg EXCEPT ![s] = row] ELSE reg
             ended1 == [ended EXCEPT ![r] = Result(r, ok)]
  <2>1. Journaled(d)
    <3>1. CASE Reads(d) /\ InFlight(r)
      <4>1. reg1 \in Regs
        <5>1. Owns(s, r) /\ s \in Soul => reg[s] \in Row
          BY DEF Owns, TypeOK
        <5>2. Owns(s, r) /\ s \in Soul => row \in Row
          BY <5>1 DEF Row
        <5> QED BY <5>2 DEF Regs, TypeOK
      <4>2. [flight EXCEPT ![s] = NoFlight] \in Flights
        BY DEF Flights, TypeOK
      <4>3. ended1 \in Ends
        BY DEF Ends, TypeOK, Result, Outcomes
      <4>4. Persist(d, c, reg1, [flight EXCEPT ![s] = NoFlight], noticed, ended1)
        BY <1>13, <3>1 DEF Finish
      <4> HIDE DEF reg1, ended1
      <4> QED BY <4>1, <4>2, <4>3, <4>4, PersistTypes DEF TypeOK
    <3>2. CASE ~(Reads(d) /\ InFlight(r))
      BY <1>13, <3>2, Unpersisted DEF Finish, Freezes
    <3> QED BY <3>1, <3>2
  <2>2. live' \in [Daemon -> SUBSET Run]
    <3>1. live' \in {live, [live EXCEPT ![d] = live[d] \ {r}]}
      BY <1>13 DEF Finish
    <3> QED BY <3>1 DEF TypeOK
  <2>3. asked' \in [Run -> Reasons]
    BY <1>13 DEF Finish, TypeOK, Reasons
  <2>4. turn' \in [Run -> Turns]
    BY <1>13 DEF Finish, Goes, TypeOK, Turns
  <2> QED BY <1>13, <2>1, <2>2, <2>3, <2>4, StepTypes DEF Finish, Drives, TypeOK, bounds
<1>14. ASSUME NEW d \in Daemon, Crash(d) PROVE TypeOK'
  BY <1>14 DEF Crash, TypeOK, Reasons, Turns, journal, bounds
<1>15. ASSUME NEW d \in Daemon, NEW absent \in SUBSET Soul, NEW owned \in SUBSET Soul, NEW c \in Commits,
              Boot(d, absent, owned, c) PROVE TypeOK'
  <2> DEFINE ambiguous == {s \in Soul : Undecided(s)} \ (absent \cup owned)
  <2>1. Journaled(d)
    <3>1. CASE absent \cup ambiguous = {}
      BY <1>15, <3>1, Unpersisted DEF Boot
    <3>2. CASE absent \cup ambiguous # {}
      <4>1. absent \in SUBSET Gone /\ Recover(d, c, absent, ambiguous)
        BY <1>15, <3>2 DEF Boot
      <4>2. ambiguous \in SUBSET Soul /\ \A s \in ambiguous : flight[s] # NoFlight
        BY DEF Undecided
      <4> HIDE DEF ambiguous
      <4> QED BY <4>1, <4>2, RecoverTypes
    <3> QED BY <3>1, <3>2
  <2>2. reaping' \in [Daemon -> SUBSET Run]
    <3>1. {flight[s].run : s \in owned} \subseteq Run
      BY <1>15 DEF Boot, Theirs, Recorded, Undecided, TypeOK, Flight
    <3> QED BY <1>15, <3>1 DEF Boot, TypeOK
  <2>3. boots' \in 0 .. MaxBoots /\ up' = up \cup {d}
    BY <1>15 DEF Boot, TypeOK
  <2>4. UNCHANGED <<started, live, asked, turn, alive, changes>>
    BY <1>15 DEF Boot
  <2> QED BY <2>1, <2>2, <2>3, <2>4 DEF TypeOK, Journaled, Regs, Flights, Ends
<1>16. ASSUME NEW d \in Daemon, NEW r \in Run, NEW absent \in SUBSET Soul, NEW c \in Commits,
              Reap(d, r, absent, c) PROVE TypeOK'
  <2>1. Journaled(d)
    <3>1. CASE ~Reads(d)
      BY <1>16, <3>1, Unpersisted DEF Reap, Freezes
    <3>2. CASE Reads(d) /\ InFlight(r) /\ Undecided(SoulOf(r))
      <4>1. absent \in SUBSET Gone /\ Recover(d, c, absent, {SoulOf(r)} \ absent)
        BY <1>16, <3>2 DEF Reap
      <4>2. SoulOf(r) \in Soul
        BY <1>16 DEF Reap, UnstartedInv, SoulOf, TypeOK, Attempt
      <4>3. \A s \in {SoulOf(r)} \ absent : flight[s] # NoFlight
        BY <3>2 DEF InFlight
      <4> QED BY <4>1, <4>2, <4>3, RecoverTypes
    <3>3. CASE Reads(d) /\ ~(InFlight(r) /\ Undecided(SoulOf(r)))
      BY <1>16, <3>3, Unpersisted DEF Reap
    <3> QED BY <3>1, <3>2, <3>3
  <2>2. reaping' \in [Daemon -> SUBSET Run]
    BY <1>16 DEF Reap, TypeOK
  <2> QED BY <1>16, <2>1, <2>2, StepTypes DEF Reap, TypeOK, bounds
<1>17. CASE UNCHANGED vars
  BY <1>17 DEF vars, journal, memory, daemons, bounds, TypeOK
<1> QED
  BY <1>1, <1>2, <1>3, <1>4, <1>5, <1>6, <1>7, <1>8, <1>9, <1>10, <1>11, <1>12, <1>13, <1>14, <1>15, <1>16, <1>17
  DEF Next, Controls, Executing, Finishing, Cancelling, Booting, Reaping

-----------------------------------------------------------------------------
(* What the actions do to a flight, a registration and an ending. *)

\* A run in flight is one of the soul it is looked up under.
LEMMA InFlightIsOwn ==
  ASSUME TypeOK, FlightInv, NEW s \in Soul, flight[s] # NoFlight
  PROVE  /\ flight[s] \in Flight /\ flight[s].run \in Run
         /\ SoulOf(flight[s].run) = s /\ InFlight(flight[s].run)
BY DEF TypeOK, FlightInv, Flight, InFlight

\* What the start of run r leaves in flight.
LEMMA Started ==
  ASSUME TypeOK, NEW d \in Daemon, NEW s \in Soul, NEW r \in Run, NEW c \in Commits, Start(d, s, r, c)
  PROVE  /\ ended' = ended /\ asked' = asked /\ alive' = alive
         /\ started[r] = NoRun /\ flight[s] = NoFlight
         /\ \/ /\ Published(c)
               /\ started' = [started EXCEPT ![r] = started'[r]]
               /\ started'[r] # NoRun /\ started'[r].soul = s
               /\ flight' = [flight EXCEPT ![s] = flight'[s]]
               /\ flight'[s] # NoFlight /\ flight'[s].run = r /\ flight'[s].reason = "none"
               /\ flight'[s].group = "unknown" /\ flight'[s].status = "running"
            \/ ~Published(c) /\ UNCHANGED <<started, flight, turn, live>>
<1> DEFINE run == [run |-> r, status |-> "running", reason |-> "none", group |-> "unknown"]
           try == [soul |-> s, generation |-> reg[s].generation]
<1>1. run \in Flight /\ try \in Attempt
  BY DEF Start, Scheduled, TypeOK, Row, Flight, Reasons, Attempt
<1>2. run # NoFlight /\ try # NoRun
  BY <1>1, DreamAssumption
<1>3. ended' = ended /\ asked' = asked /\ alive' = alive /\ started[r] = NoRun /\ flight[s] = NoFlight
  BY DEF Start, Persist, Unstarted
<1>4. CASE Published(c)
  <2>1. flight' = [flight EXCEPT ![s] = run] /\ started' = [started EXCEPT ![r] = try]
    BY <1>4 DEF Start, Persist
  <2>2. flight'[s] = run /\ started'[r] = try
    BY <2>1 DEF TypeOK
  <2>3. /\ run.run = r /\ run.reason = "none" /\ run.group = "unknown" /\ run.status = "running"
        /\ try.soul = s
    OBVIOUS
  <2> HIDE DEF run, try
  <2> QED BY <1>2, <1>3, <1>4, <2>1, <2>2, <2>3
<1>5. CASE ~Published(c)
  BY <1>3, <1>5 DEF Start, Persist, Published
<1> QED BY <1>4, <1>5

\* What the cancellation of run r leaves in flight.
LEMMA CancelledOne ==
  ASSUME TypeOK, NEW d \in Daemon, NEW r \in Run, NEW why \in {"owner", "timeout"}, NEW c \in Commits,
         Cancel(d, r, why, c)
  PROVE  /\ UNCHANGED <<started, ended, turn, alive, live, reaping>>
         /\ \A t \in Soul :
              \/ flight'[t] = flight[t]
              \/ /\ t = SoulOf(r) /\ flight[t] # NoFlight /\ flight'[t] # NoFlight
                 /\ flight'[t].run = flight[t].run /\ flight'[t].group = flight[t].group
                 /\ flight'[t].status = "cancelling" /\ flight'[t].reason = why
<1> DEFINE s == SoulOf(r)
           f == [flight[s] EXCEPT !.status = "cancelling", !.reason = why]
<1>1. UNCHANGED <<started, ended, turn, alive, live, reaping>>
  BY DEF Cancel, Persist, Freezes
<1>2. CASE Reads(d) /\ InFlight(r) /\ Published(c)
  <2>1. flight' = [flight EXCEPT ![s] = f]
    BY <1>2 DEF Cancel, Persist
  <2>2. s \in Soul => /\ f # NoFlight /\ f.run = flight[s].run /\ f.group = flight[s].group
                      /\ f.status = "cancelling" /\ f.reason = why
    <3> SUFFICES ASSUME s \in Soul
                 PROVE  /\ f # NoFlight /\ f.run = flight[s].run /\ f.group = flight[s].group
                        /\ f.status = "cancelling" /\ f.reason = why
      OBVIOUS
    <3>1. flight[s] \in Flight
      BY <1>2 DEF InFlight, TypeOK
    <3>2. f \in Flight
      BY <3>1 DEF Flight, Reasons
    <3>3. f # NoFlight
      BY <3>2, DreamAssumption
    <3> QED BY <3>1, <3>3 DEF Flight
  <2>3. s \in Soul => flight[s] # NoFlight
    BY <1>2 DEF InFlight
  <2> HIDE DEF f
  <2>4. \A t \in Soul : flight'[t] = IF t = s THEN f ELSE flight[t]
    BY <2>1 DEF TypeOK
  <2> HIDE DEF s
  <2>5. \A t \in Soul :
           \/ flight'[t] = flight[t]
           \/ /\ t = s /\ flight[t] # NoFlight /\ flight'[t] # NoFlight
              /\ flight'[t].run = flight[t].run /\ flight'[t].group = flight[t].group
              /\ flight'[t].status = "cancelling" /\ flight'[t].reason = why
    BY <2>2, <2>3, <2>4
  <2> QED BY <1>1, <2>5 DEF s
<1>3. CASE ~(Reads(d) /\ InFlight(r) /\ Published(c))
  <2>1. flight' = flight
    BY <1>3 DEF Cancel, Persist, Freezes
  <2> QED BY <1>1, <2>1
<1> QED BY <1>2, <1>3

\* What a recovery that settles A and quarantines B does to the journal.
Recovers(A, B) ==
  /\ A \subseteq Gone /\ B \subseteq {s \in Soul : Undecided(s)} \ A
  /\ \A s \in Soul :
       /\ s \in A => flight'[s] = NoFlight
       /\ s \in B => /\ flight'[s] # NoFlight /\ s \in noticed'
                     /\ flight'[s].run = flight[s].run /\ flight'[s].reason = flight[s].reason
                     /\ flight'[s].group = flight[s].group
       /\ s \notin A \cup B => flight'[s] = flight[s]
       /\ s \in noticed /\ flight[s] # NoFlight /\ s \notin A => s \in noticed'
       /\ IF s \in A /\ Owns(s, flight[s].run)
          THEN /\ reg[s] # NoRow /\ reg'[s] # NoRow
               /\ reg'[s].last = flight[s].run /\ reg'[s].selected = reg[s].selected
               /\ reg'[s].since = reg[s].since /\ reg'[s].generation = reg[s].generation
          ELSE reg'[s] = reg[s]
  /\ \A r \in Run : ended'[r] = IF \E s \in A : flight[s].run = r THEN "interrupted" ELSE ended[r]

\* A step that leaves the journal alone recovers nothing.
LEMMA NothingRecovered ==
  ASSUME UNCHANGED <<reg, flight, noticed, ended>>
  PROVE  Recovers({}, {})
BY DEF Recovers

\* The transaction of a recovery.
LEMMA RecoverRecovers ==
  ASSUME TypeOK, NEW d, NEW c, NEW A \in SUBSET Gone, NEW B \in SUBSET {s \in Soul : Undecided(s)},
         B \cap A = {}, Recover(d, c, A, B)
  PROVE  Recovers(A, B) \/ Recovers({}, {})
<1>1. CASE ~Published(c)
  <2>1. UNCHANGED <<reg, flight, noticed, ended>>
    BY <1>1 DEF Recover, Persist
  <2> QED BY <2>1, NothingRecovered
<1>2. CASE Published(c)
  <2> DEFINE row(s) == [reg[s] EXCEPT !.last = flight[s].run]
             quar(s) == [flight[s] EXCEPT !.status = "recovery-required"]
             reg1 == [s \in Soul |-> IF s \in A /\ Owns(s, flight[s].run) THEN row(s) ELSE reg[s]]
             flight1 == [s \in Soul |-> IF s \in A THEN NoFlight
                                        ELSE IF s \in B THEN quar(s) ELSE flight[s]]
             ended1 == [r \in Run |-> IF \E s \in A : flight[s].run = r THEN "interrupted" ELSE ended[r]]
  <2>1. /\ reg' = reg1 /\ flight' = flight1 /\ ended' = ended1
        /\ noticed' = Kept(noticed \cup B, reg1, flight1)
    BY <1>2 DEF Recover, Persist
  <2>2. \A s \in B : /\ quar(s) # NoFlight /\ quar(s).run = flight[s].run
                     /\ quar(s).reason = flight[s].reason /\ quar(s).group = flight[s].group
    <3> SUFFICES ASSUME NEW s \in B
                 PROVE  /\ quar(s) # NoFlight /\ quar(s).run = flight[s].run
                        /\ quar(s).reason = flight[s].reason /\ quar(s).group = flight[s].group
      OBVIOUS
    <3>1. flight[s] \in Flight
      BY DEF Undecided, TypeOK
    <3>2. quar(s) \in Flight
      BY <3>1 DEF Flight
    <3> QED BY <3>1, <3>2, DreamAssumption DEF Flight
  <2>3. \A s \in Soul : Owns(s, flight[s].run) /\ s \in A =>
          /\ reg[s] # NoRow /\ row(s) # NoRow
          /\ row(s).last = flight[s].run /\ row(s).selected = reg[s].selected
          /\ row(s).since = reg[s].since /\ row(s).generation = reg[s].generation
    <3> SUFFICES ASSUME NEW s \in Soul, Owns(s, flight[s].run), s \in A
                 PROVE  /\ reg[s] # NoRow /\ row(s) # NoRow
                        /\ row(s).last = flight[s].run /\ row(s).selected = reg[s].selected
                        /\ row(s).since = reg[s].since /\ row(s).generation = reg[s].generation
      OBVIOUS
    <3>1. reg[s] # NoRow /\ reg[s] \in Row /\ flight[s].run \in Run
      BY DEF Owns, Gone, Recorded, Undecided, TypeOK, Flight
    <3>2. row(s) \in Row
      BY <3>1 DEF Row
    <3> QED BY <3>1, <3>2, DreamAssumption DEF Row
  <2> HIDE DEF row, quar
  <2>4. ASSUME NEW s \in Soul
        PROVE  /\ flight'[s] = IF s \in A THEN NoFlight ELSE IF s \in B THEN quar(s) ELSE flight[s]
               /\ reg'[s] = IF s \in A /\ Owns(s, flight[s].run) THEN row(s) ELSE reg[s]
               /\ (s \in noticed \cup B /\ flight'[s] # NoFlight) => s \in noticed'
    BY <2>1 DEF Kept, TypeOK
  <2>5. \A r \in Run : ended'[r] = IF \E s \in A : flight[s].run = r THEN "interrupted" ELSE ended[r]
    BY <2>1
  <2> HIDE DEF reg1, flight1, ended1
  <2>6. Recovers(A, B)
    BY <2>2, <2>3, <2>4, <2>5 DEF Recovers
  <2> QED BY <2>6
<1> QED BY <1>1, <1>2

\* The recovery of a start.
LEMMA BootRecovers ==
  ASSUME TypeOK, NEW d \in Daemon, NEW absent \in SUBSET Soul, NEW owned \in SUBSET Soul, NEW c \in Commits,
         Boot(d, absent, owned, c)
  PROVE  \E A, B \in SUBSET Soul : Recovers(A, B)
<1> DEFINE ambiguous == {s \in Soul : Undecided(s)} \ (absent \cup owned)
<1>1. CASE absent \cup ambiguous = {}
  <2>1. UNCHANGED <<reg, flight, noticed, ended>>
    BY <1>1 DEF Boot
  <2> QED BY <2>1, NothingRecovered
<1>2. CASE absent \cup ambiguous # {}
  <2>1. absent \in SUBSET Gone /\ Recover(d, c, absent, ambiguous)
    BY <1>2 DEF Boot
  <2>2. ambiguous \in SUBSET {s \in Soul : Undecided(s)} /\ ambiguous \cap absent = {}
    OBVIOUS
  <2> HIDE DEF ambiguous
  <2>3. Recovers(absent, ambiguous) \/ Recovers({}, {})
    BY <2>1, <2>2, RecoverRecovers
  <2> QED BY <2>2, <2>3
<1> QED BY <1>1, <1>2

\* The recovery of an orphan.
LEMMA ReapRecovers ==
  ASSUME TypeOK, UnstartedInv, NEW d \in Daemon, NEW r \in Run, NEW absent \in SUBSET Soul, NEW c \in Commits,
         Reap(d, r, absent, c)
  PROVE  \E A, B \in SUBSET Soul : Recovers(A, B)
<1> DEFINE B == {SoulOf(r)} \ absent
<1>1. CASE Reads(d) /\ InFlight(r) /\ Undecided(SoulOf(r))
  <2>1. absent \in SUBSET Gone /\ Recover(d, c, absent, B)
    BY <1>1 DEF Reap
  <2>2. SoulOf(r) \in Soul
    BY DEF Reap, UnstartedInv, SoulOf, TypeOK, Attempt
  <2>3. B \in SUBSET {s \in Soul : Undecided(s)} /\ B \cap absent = {}
    BY <1>1, <2>2
  <2> HIDE DEF B
  <2>4. Recovers(absent, B) \/ Recovers({}, {})
    BY <2>1, <2>3, RecoverRecovers
  <2> QED BY <2>3, <2>4
<1>2. CASE ~(Reads(d) /\ InFlight(r) /\ Undecided(SoulOf(r)))
  <2>1. UNCHANGED <<reg, flight, noticed, ended>>
    BY <1>2 DEF Reap, Freezes
  <2> QED BY <2>1, NothingRecovered
<1> QED BY <1>1, <1>2

\* A recovery ends the runs it takes out of flight.
LEMMA RecoveryKeepsFlights ==
  ASSUME TypeOK, FlightInv, NEW A \in SUBSET Soul, NEW B \in SUBSET Soul, Recovers(A, B), started' = started
  PROVE  FlightInv'
<1> SUFFICES ASSUME NEW s \in Soul, flight'[s] # NoFlight
             PROVE  /\ started[flight'[s].run] # NoRun /\ SoulOf(flight'[s].run) = s
                    /\ ended'[flight'[s].run] = "open"
  BY DEF FlightInv, SoulOf
<1> DEFINE r == flight[s].run
<1>1. s \notin A /\ flight[s] # NoFlight /\ flight'[s].run = r
  BY DEF Recovers, Undecided
<1>2. r \in Run /\ started[r] # NoRun /\ SoulOf(r) = s /\ ended[r] = "open"
  BY <1>1, InFlightIsOwn DEF FlightInv
<1>3. \A t \in A : flight[t].run # r
  <2>1. \A t \in A : flight[t] # NoFlight
    BY DEF Recovers, Gone, Recorded, Undecided
  <2> QED BY <1>1, <1>2, <2>1 DEF FlightInv
<1>4. ended'[r] = "open"
  BY <1>2, <1>3 DEF Recovers
<1> QED BY <1>1, <1>2, <1>4

\* A run that is settled was recorded, and has no agent left.
LEMMA RecoveryKeepsAgents ==
  ASSUME TypeOK, UnstartedInv, AgentInv, NEW A \in SUBSET Soul, NEW B \in SUBSET Soul, Recovers(A, B),
         UNCHANGED <<started, turn, alive>>
  PROVE  AgentInv'
<1> SUFFICES ASSUME NEW r \in Run, InFlight(r), started[r] # NoRun,
                    r \in alive \/ flight[SoulOf(r)].group = "unknown"
             PROVE  InFlight(r)' /\ flight'[SoulOf(r)].group = flight[SoulOf(r)].group
  BY DEF AgentInv, UnstartedInv, InFlight, SoulOf
<1> DEFINE s == SoulOf(r)
<1>1. s \in Soul /\ flight[s] # NoFlight /\ flight[s].run = r
  BY DEF TypeOK, Attempt, InFlight, SoulOf
<1>2. s \notin A
  BY <1>1 DEF Recovers, Gone, Recorded
<1>3. flight'[s] # NoFlight /\ flight'[s].run = r /\ flight'[s].group = flight[s].group
  BY <1>1, <1>2 DEF Recovers
<1> QED BY <1>3 DEF InFlight, SoulOf

\* A run that a recovery ends is remembered by its own registration.
LEMMA RecoveryKeepsResults ==
  ASSUME IInv, NEW A \in SUBSET Soul, NEW B \in SUBSET Soul, Recovers(A, B), started' = started
  PROVE  ResultsKeepToTheirRegistration'
<1> SUFFICES ASSUME NEW s \in Soul, reg'[s] # NoRow, NEW q \in {reg'[s].last, reg'[s].selected} \ {NoRun}
             PROVE  /\ started[q] # NoRun /\ SoulOf(q) = s /\ started[q].generation >= reg'[s].since
                    /\ ended'[q] # "open" /\ (q = reg'[s].selected => ended'[q] = "completed")
  BY DEF ResultsKeepToTheirRegistration, SoulOf
<1>1. reg[s] # NoRow /\ reg'[s].since = reg[s].since /\ reg'[s].selected = reg[s].selected
  BY DEF Recovers
<1>2. \A t \in A : flight[t] # NoFlight /\ ended[flight[t].run] = "open"
  BY DEF Recovers, Gone, Recorded, Undecided, IInv, FlightInv
<1>3. CASE q \in {reg[s].last, reg[s].selected}
  <2>1. /\ started[q] # NoRun /\ SoulOf(q) = s /\ started[q].generation >= reg[s].since
        /\ ended[q] # "open" /\ (q = reg[s].selected => ended[q] = "completed")
    <3>1. ResultsKeepToTheirRegistration /\ q # NoRun
      BY DEF IInv
    <3> QED BY <1>1, <1>3, <3>1 DEF ResultsKeepToTheirRegistration
  <2>2. q \in Run
    BY <1>1, <1>3 DEF IInv, TypeOK, Row
  <2>3. ended'[q] = ended[q]
    BY <1>2, <2>1, <2>2 DEF Recovers
  <2> QED BY <1>1, <2>1, <2>3
<1>4. CASE q \notin {reg[s].last, reg[s].selected}
  <2>1. s \in A /\ Owns(s, flight[s].run) /\ q = flight[s].run
    BY <1>1, <1>4 DEF Recovers
  <2>2. q \in Run /\ started[q] # NoRun /\ SoulOf(q) = s
    BY <1>2, <2>1, InFlightIsOwn DEF IInv, FlightInv
  <2>3. ended'[q] = "interrupted"
    BY <2>1, <2>2 DEF Recovers
  <2>4. started[q].generation >= reg[s].since
    BY <1>1, <2>1 DEF Owns, IInv, RowInv, TypeOK, Row, Generation
  <2> QED BY <1>1, <1>4, <2>2, <2>3, <2>4
<1> QED BY <1>3, <1>4

\* The ending of run r leaves the other runs as they were.
LEMMA FinishedEnd ==
  ASSUME IInv, NEW d \in Daemon, NEW r \in Run, NEW ok \in BOOLEAN, NEW structured \in BOOLEAN,
         NEW c \in Commits, Finish(d, r, ok, structured, c)
  PROVE  \A q : ended'[q] # ended[q] => q = r /\ ended[r] = "open"
<1>1. CASE ended' = ended
  BY <1>1
<1>2. CASE ended' # ended
  <2>1. InFlight(r) /\ Reads(d) /\ ended' = [ended EXCEPT ![r] = Result(r, ok)]
    BY <1>2 DEF Finish, Persist, Freezes
  <2>2. ended[r] = "open"
    <3>1. started[r] # NoRun
      BY DEF Finish, Drives, IInv, UnstartedInv
    <3>2. SoulOf(r) \in Soul
      BY <3>1 DEF SoulOf, IInv, TypeOK, Attempt
    <3> QED BY <2>1, <3>2 DEF InFlight, IInv, FlightInv
  <2> QED BY <2>1, <2>2 DEF IInv, TypeOK
<1> QED BY <1>1, <1>2

\* What the ending of run r leaves of the registrations.
LEMMA FinishedRow ==
  ASSUME IInv, NEW d \in Daemon, NEW r \in Run, NEW ok \in BOOLEAN, NEW structured \in BOOLEAN,
         NEW c \in Commits, Finish(d, r, ok, structured, c), NEW t \in Soul, reg'[t] # NoRow
  PROVE  \/ reg'[t] = reg[t]
         \/ /\ t = SoulOf(r) /\ Owns(t, r) /\ ended'[r] = Result(r, ok)
            /\ reg[t] # NoRow /\ reg'[t].since = reg[t].since /\ reg'[t].generation = reg[t].generation
            /\ reg'[t].last = r
            /\ reg'[t].selected = reg[t].selected \/ (ok /\ reg'[t].selected = r)
<1> DEFINE s == SoulOf(r)
           on == ok /\ flight[s].reason = "none" /\ structured
           row == [reg[s] EXCEPT !.last = r, !.selected = IF on THEN r ELSE reg[s].selected]
<1> SUFFICES ASSUME reg'[t] # reg[t]
             PROVE  /\ t = s /\ Owns(t, r) /\ ended'[r] = Result(r, ok)
                    /\ reg[t] # NoRow /\ reg'[t].since = reg[t].since
                    /\ reg'[t].generation = reg[t].generation /\ reg'[t].last = r
                    /\ reg'[t].selected = reg[t].selected \/ (ok /\ reg'[t].selected = r)
  OBVIOUS
<1>1. Reads(d) /\ InFlight(r) /\ Published(c)
  BY DEF Finish, Persist, Freezes
<1>2. /\ reg' = IF Owns(s, r) THEN [reg EXCEPT ![s] = row] ELSE reg
      /\ ended' = [ended EXCEPT ![r] = Result(r, ok)]
  BY <1>1 DEF Finish, Persist
<1> HIDE DEF row
<1>3. Owns(s, r) /\ t = s /\ reg'[t] = row
  BY <1>2 DEF IInv, TypeOK
<1>4. reg[s] # NoRow /\ reg[s] \in Row
  BY <1>3 DEF Owns, IInv, TypeOK
<1>5. /\ row.since = reg[s].since /\ row.generation = reg[s].generation /\ row.last = r
      /\ row.selected = IF on THEN r ELSE reg[s].selected
  BY <1>4 DEF row, Row
<1>6. ended'[r] = Result(r, ok)
  BY <1>2 DEF IInv, TypeOK
<1> QED BY <1>3, <1>4, <1>5, <1>6

-----------------------------------------------------------------------------
(* Each part of the invariant is kept by every step. *)

\* Starting is the only way into a flight, and every way out of one ends its run.
LEMMA FlightStep == ASSUME IInv, TypeOK', [Next]_vars PROVE FlightInv'
<1> USE DreamAssumption
<1>1. ASSUME NEW d \in Daemon, NEW s \in Soul, NEW c \in Commits, Register(d, s, c) PROVE FlightInv'
  BY <1>1 DEF Register, Reads, Persist, Published, Kept, memory, IInv, FlightInv, UnstartedInv,
      LiveInv, TypeOK, Flight, Attempt, SoulOf
<1>2. ASSUME NEW d \in Daemon, NEW s \in Soul, NEW c \in Commits, Pause(d, s, c) PROVE FlightInv'
  BY <1>2 DEF Pause, Reads, Persist, Published, Kept, memory, IInv, FlightInv, UnstartedInv,
      LiveInv, TypeOK, Flight, Attempt, SoulOf
<1>3. ASSUME NEW d \in Daemon, NEW s \in Soul, NEW c \in Commits, Unschedule(d, s, c) PROVE FlightInv'
  BY <1>3 DEF Unschedule, Reads, Persist, Published, Kept, memory, bounds, IInv, FlightInv,
      UnstartedInv, LiveInv, TypeOK, Flight, Attempt, SoulOf
<1>4. ASSUME NEW d \in Daemon, NEW s \in Soul, NEW c \in Commits,
              AcknowledgeNotice(d, s, c) PROVE FlightInv'
  BY <1>4 DEF AcknowledgeNotice, Reads, Persist, Published, Kept, memory, bounds, IInv,
      FlightInv, UnstartedInv, LiveInv, TypeOK, Flight, Attempt, SoulOf
<1>5. ASSUME NEW d \in Daemon, NEW s \in Soul, NEW r \in Run, NEW c \in Commits,
              Start(d, s, r, c) PROVE FlightInv'
  <2>1. ASSUME NEW t \in Soul, flight'[t] # NoFlight
        PROVE  /\ started'[flight'[t].run] # NoRun /\ started'[flight'[t].run].soul = t
               /\ ended'[flight'[t].run] = "open"
    <3>1. CASE flight'[t] = flight[t] /\ started' = started
      BY <1>5, <2>1, <3>1, Started DEF IInv, FlightInv, SoulOf
    <3>2. CASE ~(flight'[t] = flight[t] /\ started' = started)
      <4>1. /\ started' = [started EXCEPT ![r] = started'[r]] /\ flight' = [flight EXCEPT ![s] = flight'[s]]
            /\ started'[r] # NoRun /\ started'[r].soul = s /\ started[r] = NoRun
            /\ flight'[s].run = r /\ ended' = ended
        BY <1>5, <3>2, Started DEF IInv
      <4>2. CASE t = s
        BY <4>1, <4>2 DEF IInv, UnstartedInv
      <4>3. CASE t # s
        <5>1. flight'[t] = flight[t] /\ flight[t].run # r
          BY <2>1, <4>1, <4>3 DEF IInv, TypeOK, FlightInv
        <5>2. flight[t].run \in Run
          BY <2>1, <5>1, InFlightIsOwn DEF IInv
        <5>3. started'[flight[t].run] = started[flight[t].run]
          BY <4>1, <5>1, <5>2 DEF IInv, TypeOK
        <5> QED BY <2>1, <4>1, <5>1, <5>3 DEF IInv, FlightInv, SoulOf
      <4> QED BY <4>2, <4>3
    <3> QED BY <3>1, <3>2
  <2> QED BY <2>1 DEF FlightInv, SoulOf
<1>6. ASSUME NEW d \in Daemon, NEW r \in Run, NEW c \in Commits, Execute(d, r, c) PROVE FlightInv'
  BY <1>6 DEF Execute, Drives, Reads, InFlight, SoulOf, Persist, Published, Kept, Goes, bounds,
      IInv, FlightInv, UnstartedInv, LiveInv, TypeOK, Flight, Attempt
<1>7. ASSUME NEW d \in Daemon, NEW r \in Run, Spawn(d, r) PROVE FlightInv'
  BY <1>7 DEF Spawn, Drives, Goes, journal, daemons, bounds, IInv, FlightInv, UnstartedInv,
      LiveInv, TypeOK, Flight, Attempt, SoulOf
<1>8. ASSUME NEW d \in Daemon, NEW r \in Run, NEW c \in Commits,
              RecordProcess(d, r, c) PROVE FlightInv'
  BY <1>8 DEF RecordProcess, Drives, Reads, InFlight, SoulOf, Persist, Published, Kept, Goes,
      bounds, IInv, FlightInv, UnstartedInv, LiveInv, TypeOK, Flight, Attempt
<1>9. ASSUME NEW d \in Daemon, NEW r \in Run, RefuseProcess(d, r) PROVE FlightInv'
  BY <1>9 DEF RefuseProcess, Drives, Goes, journal, daemons, bounds, IInv, FlightInv,
      UnstartedInv, LiveInv, TypeOK, Flight, Attempt, SoulOf
<1>10. ASSUME NEW d \in Daemon, NEW r \in Run, Prompt(d, r) PROVE FlightInv'
  BY <1>10 DEF Prompt, Drives, Goes, journal, daemons, bounds, IInv, FlightInv, UnstartedInv,
      LiveInv, TypeOK, Flight, Attempt, SoulOf
<1>11. ASSUME NEW r \in Run, AgentExits(r) PROVE FlightInv'
  BY <1>11 DEF AgentExits, journal, daemons, memory, bounds, IInv, FlightInv, UnstartedInv,
      LiveInv, TypeOK, Flight, Attempt, SoulOf
<1>12. ASSUME NEW d \in Daemon, NEW r \in Run, NEW why \in {"owner", "timeout"}, NEW c \in Commits,
              Cancel(d, r, why, c) PROVE FlightInv'
  <2> QED BY <1>12, CancelledOne DEF IInv, FlightInv, SoulOf, TypeOK
<1>13. ASSUME NEW d \in Daemon, NEW r \in Run, NEW ok \in BOOLEAN, NEW structured \in BOOLEAN, NEW c \in Commits,
              Finish(d, r, ok, structured, c) PROVE FlightInv'
  BY <1>13 DEF Finish, Drives, Reads, InFlight, SoulOf, Persist, Published, Kept, Owns, Result,
      Freezes, Goes, bounds, IInv, FlightInv, UnstartedInv, LiveInv, TypeOK, Flight, Attempt
<1>14. ASSUME NEW d \in Daemon, Crash(d) PROVE FlightInv'
  BY <1>14 DEF Crash, journal, bounds, IInv, FlightInv, UnstartedInv, LiveInv, TypeOK, Flight,
      Attempt, SoulOf
<1>15. ASSUME NEW d \in Daemon, NEW absent \in SUBSET Soul, NEW owned \in SUBSET Soul, NEW c \in Commits,
              Boot(d, absent, owned, c) PROVE FlightInv'
  <2>1. PICK A, B \in SUBSET Soul : Recovers(A, B)
    BY <1>15, BootRecovers DEF IInv
  <2>2. started' = started
    BY <1>15 DEF Boot
  <2> QED BY <2>1, <2>2, RecoveryKeepsFlights DEF IInv
<1>16. ASSUME NEW d \in Daemon, NEW r \in Run, NEW absent \in SUBSET Soul, NEW c \in Commits,
              Reap(d, r, absent, c) PROVE FlightInv'
  <2>1. PICK A, B \in SUBSET Soul : Recovers(A, B)
    BY <1>16, ReapRecovers DEF IInv
  <2>2. started' = started
    BY <1>16 DEF Reap
  <2> QED BY <2>1, <2>2, RecoveryKeepsFlights DEF IInv
<1>17. CASE UNCHANGED vars
  BY <1>17 DEF vars, journal, memory, daemons, bounds, IInv, FlightInv, UnstartedInv, LiveInv,
      TypeOK, Flight, Attempt, SoulOf
<1> QED
  BY <1>1, <1>2, <1>3, <1>4, <1>5, <1>6, <1>7, <1>8, <1>9, <1>10, <1>11, <1>12, <1>13, <1>14,
      <1>15, <1>16, <1>17
  DEF Next, Controls, Executing, Finishing, Cancelling, Booting, Reaping

\* A run is known to a daemon from its start on.
LEMMA UnstartedStep == ASSUME IInv, TypeOK', [Next]_vars PROVE UnstartedInv'
<1> USE DreamAssumption
<1>1. ASSUME NEW d \in Daemon, NEW s \in Soul, NEW c \in Commits, Register(d, s, c) PROVE UnstartedInv'
  BY <1>1 DEF Register, Reads, Persist, Published, Kept, memory, IInv, FlightInv, UnstartedInv,
      TypeOK, Flight, Attempt
<1>2. ASSUME NEW d \in Daemon, NEW s \in Soul, NEW c \in Commits, Pause(d, s, c) PROVE UnstartedInv'
  BY <1>2 DEF Pause, Reads, Persist, Published, Kept, memory, IInv, FlightInv, UnstartedInv,
      TypeOK, Flight, Attempt
<1>3. ASSUME NEW d \in Daemon, NEW s \in Soul, NEW c \in Commits, Unschedule(d, s, c) PROVE UnstartedInv'
  BY <1>3 DEF Unschedule, Reads, Persist, Published, Kept, memory, bounds, IInv, FlightInv,
      UnstartedInv, TypeOK, Flight, Attempt
<1>4. ASSUME NEW d \in Daemon, NEW s \in Soul, NEW c \in Commits,
              AcknowledgeNotice(d, s, c) PROVE UnstartedInv'
  BY <1>4 DEF AcknowledgeNotice, Reads, Persist, Published, Kept, memory, bounds, IInv,
      FlightInv, UnstartedInv, TypeOK, Flight, Attempt
<1>5. ASSUME NEW d \in Daemon, NEW s \in Soul, NEW r \in Run, NEW c \in Commits,
              Start(d, s, r, c) PROVE UnstartedInv'
  <2> HIDE DreamAssumption
  <2>1. /\ ended' = ended /\ asked' = asked
        /\ started' = started \/ (started' = [started EXCEPT ![r] = started'[r]] /\ started'[r] # NoRun)
    BY <1>5, Started DEF IInv
  <2>2. \/ UNCHANGED <<turn, live>>
        \/ /\ started'[r] # NoRun
           /\ turn' = [turn EXCEPT ![r] = "queued"] /\ live' = [live EXCEPT ![d] = live[d] \cup {r}]
    BY <1>5, Started DEF Start, Published, IInv
  <2>3. ASSUME NEW q \in Run, started'[q] = NoRun
        PROVE  started[q] = NoRun /\ turn'[q] = turn[q] /\ \A e \in Daemon : q \in live'[e] => q \in live[e]
    BY <2>1, <2>2, <2>3 DEF IInv, TypeOK
  <2>4. reaping' = reaping
    BY <1>5 DEF Start
  <2> QED BY <2>1, <2>3, <2>4 DEF IInv, UnstartedInv
<1>6. ASSUME NEW d \in Daemon, NEW r \in Run, NEW c \in Commits, Execute(d, r, c) PROVE UnstartedInv'
  BY <1>6 DEF Execute, Drives, Reads, InFlight, SoulOf, Persist, Published, Kept, Goes, bounds,
      IInv, FlightInv, UnstartedInv, TypeOK, Flight, Attempt
<1>7. ASSUME NEW d \in Daemon, NEW r \in Run, Spawn(d, r) PROVE UnstartedInv'
  BY <1>7 DEF Spawn, Drives, Goes, journal, daemons, bounds, IInv, FlightInv, UnstartedInv,
      TypeOK, Flight, Attempt
<1>8. ASSUME NEW d \in Daemon, NEW r \in Run, NEW c \in Commits,
              RecordProcess(d, r, c) PROVE UnstartedInv'
  BY <1>8 DEF RecordProcess, Drives, Reads, InFlight, SoulOf, Persist, Published, Kept, Goes,
      bounds, IInv, FlightInv, UnstartedInv, TypeOK, Flight, Attempt
<1>9. ASSUME NEW d \in Daemon, NEW r \in Run, RefuseProcess(d, r) PROVE UnstartedInv'
  BY <1>9 DEF RefuseProcess, Drives, Goes, journal, daemons, bounds, IInv, FlightInv,
      UnstartedInv, TypeOK, Flight, Attempt
<1>10. ASSUME NEW d \in Daemon, NEW r \in Run, Prompt(d, r) PROVE UnstartedInv'
  BY <1>10 DEF Prompt, Drives, Goes, journal, daemons, bounds, IInv, FlightInv, UnstartedInv,
      TypeOK, Flight, Attempt
<1>11. ASSUME NEW r \in Run, AgentExits(r) PROVE UnstartedInv'
  BY <1>11 DEF AgentExits, journal, daemons, memory, bounds, IInv, FlightInv, UnstartedInv,
      TypeOK, Flight, Attempt
<1>12. ASSUME NEW d \in Daemon, NEW r \in Run, NEW why \in {"owner", "timeout"}, NEW c \in Commits,
              Cancel(d, r, why, c) PROVE UnstartedInv'
  BY <1>12 DEF Cancel, Drives, Reads, InFlight, SoulOf, Persist, Published, Kept, Freezes,
      bounds, IInv, FlightInv, UnstartedInv, TypeOK, Flight, Attempt
<1>13. ASSUME NEW d \in Daemon, NEW r \in Run, NEW ok \in BOOLEAN, NEW structured \in BOOLEAN, NEW c \in Commits,
              Finish(d, r, ok, structured, c) PROVE UnstartedInv'
  BY <1>13 DEF Finish, Drives, Reads, InFlight, SoulOf, Persist, Published, Kept, Owns, Result,
      Freezes, Goes, bounds, IInv, FlightInv, UnstartedInv, TypeOK, Flight, Attempt
<1>14. ASSUME NEW d \in Daemon, Crash(d) PROVE UnstartedInv'
  BY <1>14 DEF Crash, journal, bounds, IInv, FlightInv, UnstartedInv, TypeOK, Flight, Attempt
<1>15. ASSUME NEW d \in Daemon, NEW absent \in SUBSET Soul, NEW owned \in SUBSET Soul, NEW c \in Commits,
              Boot(d, absent, owned, c) PROVE UnstartedInv'
  BY <1>15 DEF Boot, Gone, Recorded, Undecided, Theirs, Recover, Persist, Published, Kept, Owns,
      IInv, FlightInv, UnstartedInv, TypeOK, Flight, Attempt
<1>16. ASSUME NEW d \in Daemon, NEW r \in Run, NEW absent \in SUBSET Soul, NEW c \in Commits,
              Reap(d, r, absent, c) PROVE UnstartedInv'
  BY <1>16 DEF Reap, Gone, Recorded, Undecided, SoulOf, Reads, Freezes, InFlight, Recover,
      Persist, Published, Kept, Owns, bounds, IInv, FlightInv, UnstartedInv, TypeOK, Flight,
      Attempt
<1>17. CASE UNCHANGED vars
  BY <1>17 DEF vars, journal, memory, daemons, bounds, IInv, FlightInv, UnstartedInv, TypeOK,
      Flight, Attempt
<1> QED
  BY <1>1, <1>2, <1>3, <1>4, <1>5, <1>6, <1>7, <1>8, <1>9, <1>10, <1>11, <1>12, <1>13, <1>14,
      <1>15, <1>16, <1>17
  DEF Next, Controls, Executing, Finishing, Cancelling, Booting, Reaping

\* A run is handed to the daemon that started it, and to no other.
LEMMA LiveStep == ASSUME IInv, TypeOK', [Next]_vars PROVE LiveInv'
<1> USE DreamAssumption
<1>1. ASSUME NEW d \in Daemon, NEW s \in Soul, NEW c \in Commits, Register(d, s, c) PROVE LiveInv'
  BY <1>1 DEF Register, Reads, Persist, Published, Kept, memory, IInv, LiveInv, UnstartedInv,
      TypeOK
<1>2. ASSUME NEW d \in Daemon, NEW s \in Soul, NEW c \in Commits, Pause(d, s, c) PROVE LiveInv'
  BY <1>2 DEF Pause, Reads, Persist, Published, Kept, memory, IInv, LiveInv, UnstartedInv,
      TypeOK
<1>3. ASSUME NEW d \in Daemon, NEW s \in Soul, NEW c \in Commits, Unschedule(d, s, c) PROVE LiveInv'
  BY <1>3 DEF Unschedule, Reads, Persist, Published, Kept, memory, bounds, IInv, LiveInv,
      UnstartedInv, TypeOK
<1>4. ASSUME NEW d \in Daemon, NEW s \in Soul, NEW c \in Commits,
              AcknowledgeNotice(d, s, c) PROVE LiveInv'
  BY <1>4 DEF AcknowledgeNotice, Reads, Persist, Published, Kept, memory, bounds, IInv, LiveInv,
      UnstartedInv, TypeOK
<1>5. ASSUME NEW d \in Daemon, NEW s \in Soul, NEW r \in Run, NEW c \in Commits,
              Start(d, s, r, c) PROVE LiveInv'
  BY <1>5 DEF Start, Reads, Unstarted, Scheduled, Persist, Published, Kept, bounds, IInv,
      LiveInv, UnstartedInv, TypeOK
<1>6. ASSUME NEW d \in Daemon, NEW r \in Run, NEW c \in Commits, Execute(d, r, c) PROVE LiveInv'
  BY <1>6 DEF Execute, Drives, Reads, InFlight, SoulOf, Persist, Published, Kept, Goes, bounds,
      IInv, LiveInv, UnstartedInv, TypeOK
<1>7. ASSUME NEW d \in Daemon, NEW r \in Run, Spawn(d, r) PROVE LiveInv'
  BY <1>7 DEF Spawn, Drives, Goes, journal, daemons, bounds, IInv, LiveInv, UnstartedInv, TypeOK
<1>8. ASSUME NEW d \in Daemon, NEW r \in Run, NEW c \in Commits,
              RecordProcess(d, r, c) PROVE LiveInv'
  BY <1>8 DEF RecordProcess, Drives, Reads, InFlight, SoulOf, Persist, Published, Kept, Goes,
      bounds, IInv, LiveInv, UnstartedInv, TypeOK
<1>9. ASSUME NEW d \in Daemon, NEW r \in Run, RefuseProcess(d, r) PROVE LiveInv'
  BY <1>9 DEF RefuseProcess, Drives, Goes, journal, daemons, bounds, IInv, LiveInv,
      UnstartedInv, TypeOK
<1>10. ASSUME NEW d \in Daemon, NEW r \in Run, Prompt(d, r) PROVE LiveInv'
  BY <1>10 DEF Prompt, Drives, Goes, journal, daemons, bounds, IInv, LiveInv, UnstartedInv,
      TypeOK
<1>11. ASSUME NEW r \in Run, AgentExits(r) PROVE LiveInv'
  BY <1>11 DEF AgentExits, journal, daemons, memory, bounds, IInv, LiveInv, UnstartedInv, TypeOK
<1>12. ASSUME NEW d \in Daemon, NEW r \in Run, NEW why \in {"owner", "timeout"}, NEW c \in Commits,
              Cancel(d, r, why, c) PROVE LiveInv'
  BY <1>12 DEF Cancel, Drives, Reads, InFlight, SoulOf, Persist, Published, Kept, Freezes,
      bounds, IInv, LiveInv, UnstartedInv, TypeOK
<1>13. ASSUME NEW d \in Daemon, NEW r \in Run, NEW ok \in BOOLEAN, NEW structured \in BOOLEAN, NEW c \in Commits,
              Finish(d, r, ok, structured, c) PROVE LiveInv'
  BY <1>13 DEF Finish, Drives, Reads, InFlight, SoulOf, Persist, Published, Kept, Owns, Result,
      Freezes, Goes, bounds, IInv, LiveInv, UnstartedInv, TypeOK
<1>14. ASSUME NEW d \in Daemon, Crash(d) PROVE LiveInv'
  BY <1>14 DEF Crash, journal, bounds, IInv, LiveInv, UnstartedInv, TypeOK
<1>15. ASSUME NEW d \in Daemon, NEW absent \in SUBSET Soul, NEW owned \in SUBSET Soul, NEW c \in Commits,
              Boot(d, absent, owned, c) PROVE LiveInv'
  BY <1>15 DEF Boot, Gone, Recorded, Undecided, Theirs, Recover, Persist, Published, Kept, Owns,
      IInv, LiveInv, UnstartedInv, TypeOK
<1>16. ASSUME NEW d \in Daemon, NEW r \in Run, NEW absent \in SUBSET Soul, NEW c \in Commits,
              Reap(d, r, absent, c) PROVE LiveInv'
  BY <1>16 DEF Reap, Gone, Recorded, Undecided, SoulOf, Reads, Freezes, InFlight, Recover,
      Persist, Published, Kept, Owns, bounds, IInv, LiveInv, UnstartedInv, TypeOK
<1>17. CASE UNCHANGED vars
  BY <1>17 DEF vars, journal, memory, daemons, bounds, IInv, LiveInv, UnstartedInv, TypeOK
<1> QED
  BY <1>1, <1>2, <1>3, <1>4, <1>5, <1>6, <1>7, <1>8, <1>9, <1>10, <1>11, <1>12, <1>13, <1>14,
      <1>15, <1>16, <1>17
  DEF Next, Controls, Executing, Finishing, Cancelling, Booting, Reaping

\* The order of spawn, record and prompt, against every recovery.
LEMMA AgentStep == ASSUME IInv, TypeOK', [Next]_vars PROVE AgentInv'
<1> USE DreamAssumption
<1>1. ASSUME NEW d \in Daemon, NEW s \in Soul, NEW c \in Commits, Register(d, s, c) PROVE AgentInv'
  BY <1>1 DEF Register, Reads, Persist, Published, Kept, memory, IInv, AgentInv, FlightInv,
      UnstartedInv, TypeOK, Flight, Attempt, InFlight, SoulOf
<1>2. ASSUME NEW d \in Daemon, NEW s \in Soul, NEW c \in Commits, Pause(d, s, c) PROVE AgentInv'
  BY <1>2 DEF Pause, Reads, Persist, Published, Kept, memory, IInv, AgentInv, FlightInv,
      UnstartedInv, TypeOK, Flight, Attempt, InFlight, SoulOf
<1>3. ASSUME NEW d \in Daemon, NEW s \in Soul, NEW c \in Commits, Unschedule(d, s, c) PROVE AgentInv'
  BY <1>3 DEF Unschedule, Reads, Persist, Published, Kept, memory, bounds, IInv, AgentInv,
      FlightInv, UnstartedInv, TypeOK, Flight, Attempt, InFlight, SoulOf
<1>4. ASSUME NEW d \in Daemon, NEW s \in Soul, NEW c \in Commits,
              AcknowledgeNotice(d, s, c) PROVE AgentInv'
  BY <1>4 DEF AcknowledgeNotice, Reads, Persist, Published, Kept, memory, bounds, IInv,
      AgentInv, FlightInv, UnstartedInv, TypeOK, Flight, Attempt, InFlight, SoulOf
<1>5. ASSUME NEW d \in Daemon, NEW s \in Soul, NEW r \in Run, NEW c \in Commits,
              Start(d, s, r, c) PROVE AgentInv'
  <2> USE DEF IInv
  <2>1. alive' = alive /\ turn[r] = "none"
    BY <1>5, Started DEF UnstartedInv
  <2>2. CASE ~Published(c)
    BY <1>5, <2>1, <2>2, Started DEF Published, AgentInv, InFlight, SoulOf
  <2>3. CASE Published(c)
    <3>1. /\ started' = [started EXCEPT ![r] = started'[r]] /\ flight' = [flight EXCEPT ![s] = flight'[s]]
          /\ started'[r] # NoRun /\ started'[r].soul = s /\ flight[s] = NoFlight
          /\ flight'[s] # NoFlight /\ flight'[s].run = r /\ flight'[s].group = "unknown"
      BY <1>5, <2>3, Started
    <3>2. turn' \in {turn, [turn EXCEPT ![r] = "queued"]}
      BY <1>5 DEF Start
    <3>3. r \notin alive
      BY <2>1 DEF AgentInv
    <3>4. ASSUME NEW q \in Run, q # r
          PROVE  turn'[q] = turn[q] /\ started'[q] = started[q]
      BY <3>1, <3>2, <3>4 DEF TypeOK
    <3>5. ASSUME NEW q \in Run, q # r, InFlight(q), started[q] # NoRun
          PROVE  InFlight(q)' /\ flight'[started[q].soul] = flight[started[q].soul]
      <4>1. started[q].soul \in Soul /\ started[q].soul # s
        BY <3>1, <3>5 DEF InFlight, SoulOf, TypeOK, Attempt
      <4> QED BY <3>1, <3>4, <3>5, <4>1 DEF InFlight, SoulOf, TypeOK
    <3>6. ASSUME NEW q \in Run, q # r
          PROVE  /\ turn'[q] \in {"none", "queued", "prepared"} => q \notin alive
                 /\ turn'[q] \in {"queued", "prepared"} => InFlight(q)' /\ flight'[started'[q].soul].group = "unknown"
                 /\ q \in alive => InFlight(q)'
                 /\ (q \in alive /\ Groups /\ turn'[q] \in {"recorded", "prompted"})
                    => flight'[started'[q].soul].group = "recorded"
      BY <3>4, <3>5, <3>6 DEF AgentInv, UnstartedInv, SoulOf
    <3>7. InFlight(r)' /\ flight'[started'[r].soul].group = "unknown"
      BY <3>1 DEF InFlight, SoulOf
    <3> QED BY <2>1, <3>3, <3>6, <3>7 DEF AgentInv, SoulOf
  <2> QED BY <2>2, <2>3
<1>6. ASSUME NEW d \in Daemon, NEW r \in Run, NEW c \in Commits, Execute(d, r, c) PROVE AgentInv'
  BY <1>6 DEF Execute, Drives, Reads, InFlight, SoulOf, Persist, Published, Kept, Goes, bounds,
      IInv, AgentInv, FlightInv, UnstartedInv, TypeOK, Flight, Attempt
<1>7. ASSUME NEW d \in Daemon, NEW r \in Run, Spawn(d, r) PROVE AgentInv'
  BY <1>7 DEF Spawn, Drives, Goes, journal, daemons, bounds, IInv, AgentInv, FlightInv,
      UnstartedInv, TypeOK, Flight, Attempt, InFlight, SoulOf
<1>8. ASSUME NEW d \in Daemon, NEW r \in Run, NEW c \in Commits,
              RecordProcess(d, r, c) PROVE AgentInv'
  BY <1>8 DEF RecordProcess, Drives, Reads, InFlight, SoulOf, Persist, Published, Kept, Goes,
      bounds, IInv, AgentInv, FlightInv, UnstartedInv, TypeOK, Flight, Attempt
<1>9. ASSUME NEW d \in Daemon, NEW r \in Run, RefuseProcess(d, r) PROVE AgentInv'
  BY <1>9 DEF RefuseProcess, Drives, Goes, journal, daemons, bounds, IInv, AgentInv, FlightInv,
      UnstartedInv, TypeOK, Flight, Attempt, InFlight, SoulOf
<1>10. ASSUME NEW d \in Daemon, NEW r \in Run, Prompt(d, r) PROVE AgentInv'
  BY <1>10 DEF Prompt, Drives, Goes, journal, daemons, bounds, IInv, AgentInv, FlightInv,
      UnstartedInv, TypeOK, Flight, Attempt, InFlight, SoulOf
<1>11. ASSUME NEW r \in Run, AgentExits(r) PROVE AgentInv'
  BY <1>11 DEF AgentExits, journal, daemons, memory, bounds, IInv, AgentInv, FlightInv,
      UnstartedInv, TypeOK, Flight, Attempt, InFlight, SoulOf
<1>12. ASSUME NEW d \in Daemon, NEW r \in Run, NEW why \in {"owner", "timeout"}, NEW c \in Commits,
              Cancel(d, r, why, c) PROVE AgentInv'
  <2> QED BY <1>12, CancelledOne DEF IInv, AgentInv, UnstartedInv, InFlight, SoulOf, TypeOK, Attempt
<1>13. ASSUME NEW d \in Daemon, NEW r \in Run, NEW ok \in BOOLEAN, NEW structured \in BOOLEAN, NEW c \in Commits,
              Finish(d, r, ok, structured, c) PROVE AgentInv'
  BY <1>13 DEF Finish, Drives, Reads, InFlight, SoulOf, Persist, Published, Kept, Owns, Result,
      Freezes, Goes, bounds, IInv, AgentInv, FlightInv, UnstartedInv, TypeOK, Flight, Attempt
<1>14. ASSUME NEW d \in Daemon, Crash(d) PROVE AgentInv'
  BY <1>14 DEF Crash, journal, bounds, IInv, AgentInv, FlightInv, UnstartedInv, TypeOK, Flight,
      Attempt, InFlight, SoulOf
<1>15. ASSUME NEW d \in Daemon, NEW absent \in SUBSET Soul, NEW owned \in SUBSET Soul, NEW c \in Commits,
              Boot(d, absent, owned, c) PROVE AgentInv'
  <2>1. PICK A, B \in SUBSET Soul : Recovers(A, B)
    BY <1>15, BootRecovers DEF IInv
  <2>2. UNCHANGED <<started, turn, alive>>
    BY <1>15 DEF Boot
  <2> QED BY <2>1, <2>2, RecoveryKeepsAgents DEF IInv
<1>16. ASSUME NEW d \in Daemon, NEW r \in Run, NEW absent \in SUBSET Soul, NEW c \in Commits,
              Reap(d, r, absent, c) PROVE AgentInv'
  <2>1. PICK A, B \in SUBSET Soul : Recovers(A, B)
    BY <1>16, ReapRecovers DEF IInv
  <2>2. UNCHANGED <<started, turn, alive>>
    BY <1>16 DEF Reap
  <2> QED BY <2>1, <2>2, RecoveryKeepsAgents DEF IInv
<1>17. CASE UNCHANGED vars
  BY <1>17 DEF vars, journal, memory, daemons, bounds, IInv, AgentInv, FlightInv, UnstartedInv,
      TypeOK, Flight, Attempt, InFlight, SoulOf
<1> QED
  BY <1>1, <1>2, <1>3, <1>4, <1>5, <1>6, <1>7, <1>8, <1>9, <1>10, <1>11, <1>12, <1>13, <1>14,
      <1>15, <1>16, <1>17
  DEF Next, Controls, Executing, Finishing, Cancelling, Booting, Reaping

\* The daemon that may write is the one that wrote last.
LEMMA ReasonStep == ASSUME IInv, TypeOK', [Next]_vars PROVE ReasonInv'
<1> USE DreamAssumption
<1>1. ASSUME NEW d \in Daemon, NEW s \in Soul, NEW c \in Commits, Register(d, s, c) PROVE ReasonInv'
  BY <1>1 DEF Register, Reads, Persist, Published, Kept, memory, IInv, ReasonInv, FlightInv,
      UnstartedInv, LiveInv, TypeOK, Flight, Attempt, InFlight, SoulOf
<1>2. ASSUME NEW d \in Daemon, NEW s \in Soul, NEW c \in Commits, Pause(d, s, c) PROVE ReasonInv'
  BY <1>2 DEF Pause, Reads, Persist, Published, Kept, memory, IInv, ReasonInv, FlightInv,
      UnstartedInv, LiveInv, TypeOK, Flight, Attempt, InFlight, SoulOf
<1>3. ASSUME NEW d \in Daemon, NEW s \in Soul, NEW c \in Commits, Unschedule(d, s, c) PROVE ReasonInv'
  BY <1>3 DEF Unschedule, Reads, Persist, Published, Kept, memory, bounds, IInv, ReasonInv,
      FlightInv, UnstartedInv, LiveInv, TypeOK, Flight, Attempt, InFlight, SoulOf
<1>4. ASSUME NEW d \in Daemon, NEW s \in Soul, NEW c \in Commits,
              AcknowledgeNotice(d, s, c) PROVE ReasonInv'
  BY <1>4 DEF AcknowledgeNotice, Reads, Persist, Published, Kept, memory, bounds, IInv,
      ReasonInv, FlightInv, UnstartedInv, LiveInv, TypeOK, Flight, Attempt, InFlight, SoulOf
<1>5. ASSUME NEW d \in Daemon, NEW s \in Soul, NEW r \in Run, NEW c \in Commits,
              Start(d, s, r, c) PROVE ReasonInv'
  BY <1>5 DEF Start, Reads, Unstarted, Scheduled, Persist, Published, Kept, bounds, IInv,
      ReasonInv, FlightInv, UnstartedInv, LiveInv, TypeOK, Flight, Attempt, InFlight, SoulOf
<1>6. ASSUME NEW d \in Daemon, NEW r \in Run, NEW c \in Commits, Execute(d, r, c) PROVE ReasonInv'
  BY <1>6 DEF Execute, Drives, Reads, InFlight, SoulOf, Persist, Published, Kept, Goes, bounds,
      IInv, ReasonInv, FlightInv, UnstartedInv, LiveInv, TypeOK, Flight, Attempt
<1>7. ASSUME NEW d \in Daemon, NEW r \in Run, Spawn(d, r) PROVE ReasonInv'
  BY <1>7 DEF Spawn, Drives, Goes, journal, daemons, bounds, IInv, ReasonInv, FlightInv,
      UnstartedInv, LiveInv, TypeOK, Flight, Attempt, InFlight, SoulOf, Reads
<1>8. ASSUME NEW d \in Daemon, NEW r \in Run, NEW c \in Commits,
              RecordProcess(d, r, c) PROVE ReasonInv'
  BY <1>8 DEF RecordProcess, Drives, Reads, InFlight, SoulOf, Persist, Published, Kept, Goes,
      bounds, IInv, ReasonInv, FlightInv, UnstartedInv, LiveInv, TypeOK, Flight, Attempt
<1>9. ASSUME NEW d \in Daemon, NEW r \in Run, RefuseProcess(d, r) PROVE ReasonInv'
  BY <1>9 DEF RefuseProcess, Drives, Goes, journal, daemons, bounds, IInv, ReasonInv, FlightInv,
      UnstartedInv, LiveInv, TypeOK, Flight, Attempt, InFlight, SoulOf, Reads
<1>10. ASSUME NEW d \in Daemon, NEW r \in Run, Prompt(d, r) PROVE ReasonInv'
  BY <1>10 DEF Prompt, Drives, Goes, journal, daemons, bounds, IInv, ReasonInv, FlightInv,
      UnstartedInv, LiveInv, TypeOK, Flight, Attempt, InFlight, SoulOf, Reads
<1>11. ASSUME NEW r \in Run, AgentExits(r) PROVE ReasonInv'
  BY <1>11 DEF AgentExits, journal, daemons, memory, bounds, IInv, ReasonInv, FlightInv,
      UnstartedInv, LiveInv, TypeOK, Flight, Attempt, InFlight, SoulOf, Reads
<1>12. ASSUME NEW d \in Daemon, NEW r \in Run, NEW why \in {"owner", "timeout"}, NEW c \in Commits,
              Cancel(d, r, why, c) PROVE ReasonInv'
  <2>1. asked' = [asked EXCEPT ![r] = why] /\ stale \subseteq stale' /\ frozen \subseteq frozen' /\ up' = up
    BY <1>12 DEF Cancel, Persist, Freezes
  <2>2. r \in live[d] /\ started[r] # NoRun /\ SoulOf(r) \in Soul
    BY <1>12 DEF Cancel, Drives, IInv, UnstartedInv, TypeOK, Attempt, SoulOf
  <2>3. Reads(d)' =>
          /\ Reads(d) /\ InFlight(r)
          /\ flight' = [flight EXCEPT ![SoulOf(r)] =
                          [flight[SoulOf(r)] EXCEPT !.status = "cancelling", !.reason = why]]
    BY <1>12 DEF Cancel, Drives, Reads, Persist, Published, Freezes
  <2>4. Reads(d)' => flight'[SoulOf(r)].reason = why
    <3> SUFFICES ASSUME Reads(d)' PROVE flight'[SoulOf(r)].reason = why
      OBVIOUS
    <3>1. flight[SoulOf(r)] \in Flight
      BY <2>2, <2>3 DEF InFlight, IInv, TypeOK
    <3>2. [flight[SoulOf(r)] EXCEPT !.status = "cancelling", !.reason = why].reason = why
      BY <3>1 DEF Flight
    <3> QED BY <2>2, <2>3, <3>2 DEF IInv, TypeOK
  <2>5. ASSUME NEW e \in Daemon, NEW q \in Run, Reads(e)', q \in live'[e], InFlight(q)'
        PROVE  flight'[SoulOf(q)].reason = asked'[q]
    <3>1. UNCHANGED <<started, live>>
      BY <1>12, CancelledOne DEF IInv
    <3>2. CASE q = r
      <4>1. e = d
        BY <2>2, <2>5, <3>1, <3>2 DEF IInv, LiveInv
      <4> QED BY <2>1, <2>4, <2>5, <3>2, <4>1 DEF IInv, TypeOK
    <3>3. CASE q # r
      <4>1. started[q] # NoRun /\ SoulOf(q) \in Soul
        BY <2>5, <3>1 DEF IInv, UnstartedInv, TypeOK, Attempt, SoulOf
      <4>2. Reads(e) /\ SoulOf(q)' = SoulOf(q)
        BY <2>1, <2>5, <3>1 DEF Reads, SoulOf
      <4>3. flight'[SoulOf(q)] # NoFlight /\ flight'[SoulOf(q)].run = q
        BY <2>5, <4>2 DEF InFlight
      <4>4. CASE flight'[SoulOf(q)] = flight[SoulOf(q)]
        BY <2>1, <2>5, <3>1, <3>3, <4>2, <4>3, <4>4 DEF IInv, ReasonInv, InFlight, TypeOK
      <4>5. CASE flight'[SoulOf(q)] # flight[SoulOf(q)]
        <5>1. SoulOf(q) = SoulOf(r) /\ flight[SoulOf(q)].run = q /\ flight[SoulOf(q)] # NoFlight
          BY <1>12, <4>1, <4>3, <4>5, CancelledOne DEF IInv
        <5>2. InFlight(r) 
          BY <1>12, <4>5, <4>1, <5>1 DEF Cancel, Persist, Freezes
        <5> QED BY <3>3, <5>1, <5>2 DEF InFlight
      <4> QED BY <4>4, <4>5
    <3> QED BY <3>2, <3>3
  <2> QED BY <2>5, CancelledOne, <1>12 DEF ReasonInv, SoulOf, IInv
<1>13. ASSUME NEW d \in Daemon, NEW r \in Run, NEW ok \in BOOLEAN, NEW structured \in BOOLEAN, NEW c \in Commits,
              Finish(d, r, ok, structured, c) PROVE ReasonInv'
  BY <1>13 DEF Finish, Drives, Reads, InFlight, SoulOf, Persist, Published, Kept, Owns, Result,
      Freezes, Goes, bounds, IInv, ReasonInv, FlightInv, UnstartedInv, LiveInv, TypeOK, Flight,
      Attempt
<1>14. ASSUME NEW d \in Daemon, Crash(d) PROVE ReasonInv'
  BY <1>14 DEF Crash, journal, bounds, IInv, ReasonInv, FlightInv, UnstartedInv, LiveInv,
      TypeOK, Flight, Attempt, InFlight, SoulOf, Reads
<1>15. ASSUME NEW d \in Daemon, NEW absent \in SUBSET Soul, NEW owned \in SUBSET Soul, NEW c \in Commits,
              Boot(d, absent, owned, c) PROVE ReasonInv'
  BY <1>15 DEF Boot, Gone, Recorded, Undecided, Theirs, Recover, Persist, Published, Kept, Owns,
      IInv, ReasonInv, FlightInv, UnstartedInv, LiveInv, TypeOK, Flight, Attempt, InFlight,
      SoulOf, Reads
<1>16. ASSUME NEW d \in Daemon, NEW r \in Run, NEW absent \in SUBSET Soul, NEW c \in Commits,
              Reap(d, r, absent, c) PROVE ReasonInv'
  BY <1>16 DEF Reap, Gone, Recorded, Undecided, SoulOf, Reads, Freezes, InFlight, Recover,
      Persist, Published, Kept, Owns, bounds, IInv, ReasonInv, FlightInv, UnstartedInv, LiveInv,
      TypeOK, Flight, Attempt
<1>17. CASE UNCHANGED vars
  BY <1>17 DEF vars, journal, memory, daemons, bounds, IInv, ReasonInv, FlightInv, UnstartedInv,
      LiveInv, TypeOK, Flight, Attempt, InFlight, SoulOf, Reads
<1> QED
  BY <1>1, <1>2, <1>3, <1>4, <1>5, <1>6, <1>7, <1>8, <1>9, <1>10, <1>11, <1>12, <1>13, <1>14,
      <1>15, <1>16, <1>17
  DEF Next, Controls, Executing, Finishing, Cancelling, Booting, Reaping

\* Generations only grow.
LEMMA RowStep == ASSUME IInv, TypeOK', [Next]_vars PROVE RowInv'
<1> USE DreamAssumption
<1>1. ASSUME NEW d \in Daemon, NEW s \in Soul, NEW c \in Commits, Register(d, s, c) PROVE RowInv'
  <2>1. changes' = changes + 1 /\ changes \in Nat
    BY <1>1 DEF Register, IInv, TypeOK
  <2>2. ASSUME NEW t \in Soul, reg'[t] # NoRow
        PROVE  reg'[t].since <= reg'[t].generation /\ reg'[t].generation <= changes + 1
    <3>1. CASE reg'[t] = reg[t]
      <4>1. reg[t].since \in Nat /\ reg[t].generation \in Nat
        BY <2>2, <3>1 DEF IInv, TypeOK, Row, Generation
      <4> QED BY <2>1, <2>2, <3>1, <4>1 DEF IInv, RowInv
    <3>2. CASE reg'[t] # reg[t]
      <4>1. reg'[t] = IF reg[s] = NoRow
                THEN [generation |-> changes + 1, since |-> changes + 1, at |-> "scheduled",
                      last |-> NoRun, selected |-> NoRun]
                ELSE [reg[s] EXCEPT !.generation = changes + 1, !.at = "scheduled"]
        BY <1>1, <3>2 DEF Register, Persist, IInv, TypeOK
      <4>2. CASE reg[s] = NoRow
        BY <2>1, <4>1, <4>2
      <4>3. CASE reg[s] # NoRow
        <5>1. reg[s] \in Row /\ reg[s].since <= reg[s].generation /\ reg[s].generation <= changes
          BY <4>3 DEF IInv, TypeOK, RowInv
        <5>2. reg[s].since \in Nat /\ reg[s].generation \in Nat
          BY <5>1 DEF Row, Generation
        <5>3. reg'[t].since = reg[s].since /\ reg'[t].generation = changes + 1
          BY <4>1, <4>3, <5>1 DEF Row
        <5> QED BY <2>1, <5>1, <5>2, <5>3
      <4> QED BY <4>2, <4>3
    <3> QED BY <3>1, <3>2
  <2> QED BY <2>1, <2>2 DEF RowInv
<1>2. ASSUME NEW d \in Daemon, NEW s \in Soul, NEW c \in Commits, Pause(d, s, c) PROVE RowInv'
  <2>1. changes' = changes + 1 /\ changes \in Nat
    BY <1>2 DEF Pause, IInv, TypeOK
  <2>2. ASSUME NEW t \in Soul, reg'[t] # NoRow
        PROVE  reg'[t].since <= reg'[t].generation /\ reg'[t].generation <= changes + 1
    <3>1. CASE reg'[t] = reg[t]
      <4>1. reg[t].since \in Nat /\ reg[t].generation \in Nat
        BY <2>2, <3>1 DEF IInv, TypeOK, Row, Generation
      <4> QED BY <2>1, <2>2, <3>1, <4>1 DEF IInv, RowInv
    <3>2. CASE reg'[t] # reg[t]
      <4>1. reg'[t] = [reg[s] EXCEPT !.generation = changes + 1, !.at = "paused"] /\ reg[s] # NoRow
        BY <1>2, <3>2 DEF Pause, Persist, IInv, TypeOK
      <4>2. reg[s] \in Row /\ reg[s].since <= reg[s].generation /\ reg[s].generation <= changes
        BY <4>1 DEF IInv, TypeOK, RowInv
      <4>3. reg[s].since \in Nat /\ reg[s].generation \in Nat
        BY <4>2 DEF Row, Generation
      <4>4. reg'[t].since = reg[s].since /\ reg'[t].generation = changes + 1
        BY <4>1, <4>2 DEF Row
      <4> QED BY <2>1, <4>2, <4>3, <4>4
    <3> QED BY <3>1, <3>2
  <2> QED BY <2>1, <2>2 DEF RowInv
<1>3. ASSUME NEW d \in Daemon, NEW s \in Soul, NEW c \in Commits, Unschedule(d, s, c) PROVE RowInv'
  BY <1>3 DEF Unschedule, Reads, Persist, Published, Kept, memory, bounds, IInv, RowInv, TypeOK,
      Row
<1>4. ASSUME NEW d \in Daemon, NEW s \in Soul, NEW c \in Commits,
              AcknowledgeNotice(d, s, c) PROVE RowInv'
  BY <1>4 DEF AcknowledgeNotice, Reads, Persist, Published, Kept, memory, bounds, IInv, RowInv,
      TypeOK, Row
<1>5. ASSUME NEW d \in Daemon, NEW s \in Soul, NEW r \in Run, NEW c \in Commits,
              Start(d, s, r, c) PROVE RowInv'
  BY <1>5 DEF Start, Reads, Unstarted, Scheduled, Persist, Published, Kept, bounds, IInv,
      RowInv, TypeOK, Row
<1>6. ASSUME NEW d \in Daemon, NEW r \in Run, NEW c \in Commits, Execute(d, r, c) PROVE RowInv'
  BY <1>6 DEF Execute, Drives, Reads, InFlight, SoulOf, Persist, Published, Kept, Goes, bounds,
      IInv, RowInv, TypeOK, Row
<1>7. ASSUME NEW d \in Daemon, NEW r \in Run, Spawn(d, r) PROVE RowInv'
  BY <1>7 DEF Spawn, Drives, Goes, journal, daemons, bounds, IInv, RowInv, TypeOK, Row
<1>8. ASSUME NEW d \in Daemon, NEW r \in Run, NEW c \in Commits,
              RecordProcess(d, r, c) PROVE RowInv'
  BY <1>8 DEF RecordProcess, Drives, Reads, InFlight, SoulOf, Persist, Published, Kept, Goes,
      bounds, IInv, RowInv, TypeOK, Row
<1>9. ASSUME NEW d \in Daemon, NEW r \in Run, RefuseProcess(d, r) PROVE RowInv'
  BY <1>9 DEF RefuseProcess, Drives, Goes, journal, daemons, bounds, IInv, RowInv, TypeOK, Row
<1>10. ASSUME NEW d \in Daemon, NEW r \in Run, Prompt(d, r) PROVE RowInv'
  BY <1>10 DEF Prompt, Drives, Goes, journal, daemons, bounds, IInv, RowInv, TypeOK, Row
<1>11. ASSUME NEW r \in Run, AgentExits(r) PROVE RowInv'
  BY <1>11 DEF AgentExits, journal, daemons, memory, bounds, IInv, RowInv, TypeOK, Row
<1>12. ASSUME NEW d \in Daemon, NEW r \in Run, NEW why \in {"owner", "timeout"}, NEW c \in Commits,
              Cancel(d, r, why, c) PROVE RowInv'
  BY <1>12 DEF Cancel, Drives, Reads, InFlight, SoulOf, Persist, Published, Kept, Freezes,
      bounds, IInv, RowInv, TypeOK, Row
<1>13. ASSUME NEW d \in Daemon, NEW r \in Run, NEW ok \in BOOLEAN, NEW structured \in BOOLEAN, NEW c \in Commits,
              Finish(d, r, ok, structured, c) PROVE RowInv'
  <2>1. ASSUME NEW t \in Soul, reg'[t] # NoRow
        PROVE  reg[t] # NoRow /\ reg'[t].since = reg[t].since /\ reg'[t].generation = reg[t].generation
    BY <1>13, <2>1, FinishedRow DEF IInv
  <2>2. changes' = changes
    BY <1>13 DEF Finish, bounds
  <2> QED BY <2>1, <2>2 DEF IInv, RowInv
<1>14. ASSUME NEW d \in Daemon, Crash(d) PROVE RowInv'
  BY <1>14 DEF Crash, journal, bounds, IInv, RowInv, TypeOK, Row
<1>15. ASSUME NEW d \in Daemon, NEW absent \in SUBSET Soul, NEW owned \in SUBSET Soul, NEW c \in Commits,
              Boot(d, absent, owned, c) PROVE RowInv'
  <2>1. PICK A, B \in SUBSET Soul : Recovers(A, B)
    BY <1>15, BootRecovers DEF IInv
  <2>2. changes' = changes
    BY <1>15 DEF Boot
  <2> QED BY <2>1, <2>2 DEF Recovers, IInv, RowInv
<1>16. ASSUME NEW d \in Daemon, NEW r \in Run, NEW absent \in SUBSET Soul, NEW c \in Commits,
              Reap(d, r, absent, c) PROVE RowInv'
  <2>1. PICK A, B \in SUBSET Soul : Recovers(A, B)
    BY <1>16, ReapRecovers DEF IInv
  <2>2. changes' = changes
    BY <1>16 DEF Reap, bounds
  <2> QED BY <2>1, <2>2 DEF Recovers, IInv, RowInv
<1>17. CASE UNCHANGED vars
  BY <1>17 DEF vars, journal, memory, daemons, bounds, IInv, RowInv, TypeOK, Row
<1> QED
  BY <1>1, <1>2, <1>3, <1>4, <1>5, <1>6, <1>7, <1>8, <1>9, <1>10, <1>11, <1>12, <1>13, <1>14,
      <1>15, <1>16, <1>17
  DEF Next, Controls, Executing, Finishing, Cancelling, Booting, Reaping

\* A result goes to the registration its run was started under.
LEMMA ResultsStep == ASSUME IInv, TypeOK', [Next]_vars PROVE ResultsKeepToTheirRegistration'
<1> USE DreamAssumption
<1>1. ASSUME NEW d \in Daemon, NEW s \in Soul, NEW c \in Commits, Register(d, s, c)
      PROVE  ResultsKeepToTheirRegistration'
  <2>1. UNCHANGED <<started, ended>>
    BY <1>1 DEF Register, Persist
  <2>2. ASSUME NEW t \in Soul, reg'[t] # NoRow
        PROVE  \/ reg'[t].last = NoRun /\ reg'[t].selected = NoRun
               \/ /\ reg[t] # NoRow /\ reg'[t].last = reg[t].last /\ reg'[t].selected = reg[t].selected
                  /\ reg'[t].since = reg[t].since
    <3>1. CASE reg'[t] = reg[t]
      BY <2>2, <3>1
    <3>2. CASE reg'[t] # reg[t]
      <4>1. t = s /\ reg'[t] = IF reg[s] = NoRow
                THEN [generation |-> changes + 1, since |-> changes + 1, at |-> "scheduled",
                      last |-> NoRun, selected |-> NoRun]
                ELSE [reg[s] EXCEPT !.generation = changes + 1, !.at = "scheduled"]
        BY <1>1, <3>2 DEF Register, Persist, IInv, TypeOK
      <4>2. CASE reg[s] = NoRow
        BY <4>1, <4>2
      <4>3. CASE reg[s] # NoRow
        <5>1. reg[s] \in Row
          BY <4>3 DEF IInv, TypeOK
        <5> QED BY <4>1, <4>3, <5>1 DEF Row
      <4> QED BY <4>2, <4>3
    <3> QED BY <3>1, <3>2
  <2> QED BY <2>1, <2>2 DEF IInv, ResultsKeepToTheirRegistration, SoulOf
<1>2. ASSUME NEW d \in Daemon, NEW s \in Soul, NEW c \in Commits, Pause(d, s, c)
      PROVE  ResultsKeepToTheirRegistration'
  <2>1. UNCHANGED <<started, ended>>
    BY <1>2 DEF Pause, Persist
  <2>2. ASSUME NEW t \in Soul, reg'[t] # NoRow
        PROVE  /\ reg[t] # NoRow /\ reg'[t].last = reg[t].last /\ reg'[t].selected = reg[t].selected
               /\ reg'[t].since = reg[t].since
    <3>1. CASE reg'[t] = reg[t]
      BY <2>2, <3>1
    <3>2. CASE reg'[t] # reg[t]
      <4>1. t = s /\ reg'[t] = [reg[s] EXCEPT !.generation = changes + 1, !.at = "paused"] /\ reg[s] # NoRow
        BY <1>2, <3>2 DEF Pause, Persist, IInv, TypeOK
      <4>2. reg[s] \in Row
        BY <4>1 DEF IInv, TypeOK
      <4> QED BY <4>1, <4>2 DEF Row
    <3> QED BY <3>1, <3>2
  <2> QED BY <2>1, <2>2 DEF IInv, ResultsKeepToTheirRegistration, SoulOf
<1>3. ASSUME NEW d \in Daemon, NEW s \in Soul, NEW c \in Commits, Unschedule(d, s, c)
      PROVE  ResultsKeepToTheirRegistration'
  BY <1>3 DEF Unschedule, Reads, Persist, Published, Kept, memory, bounds, IInv,
      ResultsKeepToTheirRegistration, FlightInv, UnstartedInv, LiveInv, RowInv, TypeOK, Row,
      Flight, Attempt, SoulOf
<1>4. ASSUME NEW d \in Daemon, NEW s \in Soul, NEW c \in Commits,
              AcknowledgeNotice(d, s, c) PROVE ResultsKeepToTheirRegistration'
  BY <1>4 DEF AcknowledgeNotice, Reads, Persist, Published, Kept, memory, bounds, IInv,
      ResultsKeepToTheirRegistration, FlightInv, UnstartedInv, LiveInv, RowInv, TypeOK, Row,
      Flight, Attempt, SoulOf
<1>5. ASSUME NEW d \in Daemon, NEW s \in Soul, NEW r \in Run, NEW c \in Commits,
              Start(d, s, r, c) PROVE ResultsKeepToTheirRegistration'
  BY <1>5 DEF Start, Reads, Unstarted, Scheduled, Persist, Published, Kept, bounds, IInv,
      ResultsKeepToTheirRegistration, FlightInv, UnstartedInv, LiveInv, RowInv, TypeOK, Row,
      Flight, Attempt, SoulOf
<1>6. ASSUME NEW d \in Daemon, NEW r \in Run, NEW c \in Commits, Execute(d, r, c)
      PROVE  ResultsKeepToTheirRegistration'
  BY <1>6 DEF Execute, Drives, Reads, InFlight, SoulOf, Persist, Published, Kept, Goes, bounds,
      IInv, ResultsKeepToTheirRegistration, FlightInv, UnstartedInv, LiveInv, RowInv, TypeOK,
      Row, Flight, Attempt
<1>7. ASSUME NEW d \in Daemon, NEW r \in Run, Spawn(d, r)
      PROVE  ResultsKeepToTheirRegistration'
  BY <1>7 DEF Spawn, Drives, Goes, journal, daemons, bounds, IInv,
      ResultsKeepToTheirRegistration, FlightInv, UnstartedInv, LiveInv, RowInv, TypeOK, Row,
      Flight, Attempt, SoulOf
<1>8. ASSUME NEW d \in Daemon, NEW r \in Run, NEW c \in Commits,
              RecordProcess(d, r, c) PROVE ResultsKeepToTheirRegistration'
  BY <1>8 DEF RecordProcess, Drives, Reads, InFlight, SoulOf, Persist, Published, Kept, Goes,
      bounds, IInv, ResultsKeepToTheirRegistration, FlightInv, UnstartedInv, LiveInv, RowInv,
      TypeOK, Row, Flight, Attempt
<1>9. ASSUME NEW d \in Daemon, NEW r \in Run, RefuseProcess(d, r)
      PROVE  ResultsKeepToTheirRegistration'
  BY <1>9 DEF RefuseProcess, Drives, Goes, journal, daemons, bounds, IInv,
      ResultsKeepToTheirRegistration, FlightInv, UnstartedInv, LiveInv, RowInv, TypeOK, Row,
      Flight, Attempt, SoulOf
<1>10. ASSUME NEW d \in Daemon, NEW r \in Run, Prompt(d, r)
      PROVE  ResultsKeepToTheirRegistration'
  BY <1>10 DEF Prompt, Drives, Goes, journal, daemons, bounds, IInv,
      ResultsKeepToTheirRegistration, FlightInv, UnstartedInv, LiveInv, RowInv, TypeOK, Row,
      Flight, Attempt, SoulOf
<1>11. ASSUME NEW r \in Run, AgentExits(r)
      PROVE  ResultsKeepToTheirRegistration'
  BY <1>11 DEF AgentExits, journal, daemons, memory, bounds, IInv,
      ResultsKeepToTheirRegistration, FlightInv, UnstartedInv, LiveInv, RowInv, TypeOK, Row,
      Flight, Attempt, SoulOf
<1>12. ASSUME NEW d \in Daemon, NEW r \in Run, NEW why \in {"owner", "timeout"}, NEW c \in Commits,
              Cancel(d, r, why, c) PROVE ResultsKeepToTheirRegistration'
  BY <1>12 DEF Cancel, Drives, Reads, InFlight, SoulOf, Persist, Published, Kept, Freezes,
      bounds, IInv, ResultsKeepToTheirRegistration, FlightInv, UnstartedInv, LiveInv, RowInv,
      TypeOK, Row, Flight, Attempt
<1>13. ASSUME NEW d \in Daemon, NEW r \in Run, NEW ok \in BOOLEAN, NEW structured \in BOOLEAN, NEW c \in Commits,
              Finish(d, r, ok, structured, c) PROVE ResultsKeepToTheirRegistration'
  <2>1. started' = started
    BY <1>13 DEF Finish
  <2>2. ASSUME NEW t \in Soul, reg'[t] # NoRow, NEW q \in {reg'[t].last, reg'[t].selected} \ {NoRun}
        PROVE  /\ started[q] # NoRun /\ SoulOf(q) = t /\ started[q].generation >= reg'[t].since
               /\ ended'[q] # "open" /\ (q = reg'[t].selected => ended'[q] = "completed")
    <3>1. /\ reg[t] # NoRow /\ reg'[t].since = reg[t].since
      BY <1>13, <2>2, FinishedRow DEF IInv
    <3>2. CASE q \in {reg[t].last, reg[t].selected} /\ (q = reg'[t].selected => q = reg[t].selected)
      <4>1. /\ started[q] # NoRun /\ SoulOf(q) = t /\ started[q].generation >= reg[t].since
            /\ ended[q] # "open" /\ (q = reg[t].selected => ended[q] = "completed")
        BY <2>2, <3>1, <3>2 DEF IInv, ResultsKeepToTheirRegistration
      <4>2. ended'[q] = ended[q]
        BY <1>13, <4>1, FinishedEnd DEF IInv
      <4> QED BY <3>1, <3>2, <4>1, <4>2
    <3>3. CASE ~(q \in {reg[t].last, reg[t].selected} /\ (q = reg'[t].selected => q = reg[t].selected))
      <4>1. /\ q = r /\ t = SoulOf(r) /\ Owns(t, r) /\ ended'[r] = Result(r, ok)
            /\ (q = reg'[t].selected => ok)
        BY <1>13, <2>2, <3>3, FinishedRow DEF IInv
      <4>2. started[r] # NoRun
        BY <1>13 DEF Finish, Drives, IInv, UnstartedInv
      <4>3. started[r].generation >= reg[t].since
        BY <4>1, <3>1 DEF Owns, IInv, RowInv, TypeOK, Row, Generation
      <4>4. Result(r, ok) # "open" /\ (ok => Result(r, ok) = "completed")
        BY DEF Result
      <4> QED BY <3>1, <4>1, <4>2, <4>3, <4>4
    <3> QED BY <3>2, <3>3
  <2> QED BY <2>1, <2>2 DEF ResultsKeepToTheirRegistration, SoulOf
<1>14. ASSUME NEW d \in Daemon, Crash(d)
      PROVE  ResultsKeepToTheirRegistration'
  BY <1>14 DEF Crash, journal, bounds, IInv, ResultsKeepToTheirRegistration, FlightInv,
      UnstartedInv, LiveInv, RowInv, TypeOK, Row, Flight, Attempt, SoulOf
<1>15. ASSUME NEW d \in Daemon, NEW absent \in SUBSET Soul, NEW owned \in SUBSET Soul, NEW c \in Commits,
              Boot(d, absent, owned, c) PROVE ResultsKeepToTheirRegistration'
  <2>1. PICK A, B \in SUBSET Soul : Recovers(A, B)
    BY <1>15, BootRecovers DEF IInv
  <2>2. started' = started
    BY <1>15 DEF Boot
  <2> QED BY <2>1, <2>2, RecoveryKeepsResults
<1>16. ASSUME NEW d \in Daemon, NEW r \in Run, NEW absent \in SUBSET Soul, NEW c \in Commits,
              Reap(d, r, absent, c) PROVE ResultsKeepToTheirRegistration'
  <2>1. PICK A, B \in SUBSET Soul : Recovers(A, B)
    BY <1>16, ReapRecovers DEF IInv
  <2>2. started' = started
    BY <1>16 DEF Reap
  <2> QED BY <2>1, <2>2, RecoveryKeepsResults
<1>17. CASE UNCHANGED vars
  BY <1>17 DEF vars, journal, memory, daemons, bounds, IInv, ResultsKeepToTheirRegistration,
      FlightInv, UnstartedInv, LiveInv, RowInv, TypeOK, Row, Flight, Attempt, SoulOf
<1> QED
  BY <1>1, <1>2, <1>3, <1>4, <1>5, <1>6, <1>7, <1>8, <1>9, <1>10, <1>11, <1>12, <1>13, <1>14,
      <1>15, <1>16, <1>17
  DEF Next, Controls, Executing, Finishing, Cancelling, Booting, Reaping

\* A notice stays as long as the flight it is about.
LEMMA QuarStep == ASSUME IInv, TypeOK', [Next]_vars PROVE QuarantineIsNoticed'
<1> USE DreamAssumption
<1>1. ASSUME NEW d \in Daemon, NEW s \in Soul, NEW c \in Commits, Register(d, s, c) PROVE QuarantineIsNoticed'
  BY <1>1 DEF Register, Reads, Persist, Published, Kept, memory, IInv, QuarantineIsNoticed,
      TypeOK, Flight
<1>2. ASSUME NEW d \in Daemon, NEW s \in Soul, NEW c \in Commits, Pause(d, s, c) PROVE QuarantineIsNoticed'
  BY <1>2 DEF Pause, Reads, Persist, Published, Kept, memory, IInv, QuarantineIsNoticed, TypeOK,
      Flight
<1>3. ASSUME NEW d \in Daemon, NEW s \in Soul, NEW c \in Commits, Unschedule(d, s, c) PROVE QuarantineIsNoticed'
  BY <1>3 DEF Unschedule, Reads, Persist, Published, Kept, memory, bounds, IInv,
      QuarantineIsNoticed, TypeOK, Flight
<1>4. ASSUME NEW d \in Daemon, NEW s \in Soul, NEW c \in Commits,
              AcknowledgeNotice(d, s, c) PROVE QuarantineIsNoticed'
  BY <1>4 DEF AcknowledgeNotice, Reads, Persist, Published, Kept, memory, bounds, IInv,
      QuarantineIsNoticed, TypeOK, Flight
<1>5. ASSUME NEW d \in Daemon, NEW s \in Soul, NEW r \in Run, NEW c \in Commits,
              Start(d, s, r, c) PROVE QuarantineIsNoticed'
  BY <1>5 DEF Start, Reads, Unstarted, Scheduled, Persist, Published, Kept, bounds, IInv,
      QuarantineIsNoticed, TypeOK, Flight
<1>6. ASSUME NEW d \in Daemon, NEW r \in Run, NEW c \in Commits, Execute(d, r, c) PROVE QuarantineIsNoticed'
  BY <1>6 DEF Execute, Drives, Reads, InFlight, SoulOf, Persist, Published, Kept, Goes, bounds,
      IInv, QuarantineIsNoticed, TypeOK, Flight
<1>7. ASSUME NEW d \in Daemon, NEW r \in Run, Spawn(d, r) PROVE QuarantineIsNoticed'
  BY <1>7 DEF Spawn, Drives, Goes, journal, daemons, bounds, IInv, QuarantineIsNoticed, TypeOK,
      Flight
<1>8. ASSUME NEW d \in Daemon, NEW r \in Run, NEW c \in Commits,
              RecordProcess(d, r, c) PROVE QuarantineIsNoticed'
  BY <1>8 DEF RecordProcess, Drives, Reads, InFlight, SoulOf, Persist, Published, Kept, Goes,
      bounds, IInv, QuarantineIsNoticed, TypeOK, Flight
<1>9. ASSUME NEW d \in Daemon, NEW r \in Run, RefuseProcess(d, r) PROVE QuarantineIsNoticed'
  BY <1>9 DEF RefuseProcess, Drives, Goes, journal, daemons, bounds, IInv, QuarantineIsNoticed,
      TypeOK, Flight
<1>10. ASSUME NEW d \in Daemon, NEW r \in Run, Prompt(d, r) PROVE QuarantineIsNoticed'
  BY <1>10 DEF Prompt, Drives, Goes, journal, daemons, bounds, IInv, QuarantineIsNoticed,
      TypeOK, Flight
<1>11. ASSUME NEW r \in Run, AgentExits(r) PROVE QuarantineIsNoticed'
  BY <1>11 DEF AgentExits, journal, daemons, memory, bounds, IInv, QuarantineIsNoticed, TypeOK,
      Flight
<1>12. ASSUME NEW d \in Daemon, NEW r \in Run, NEW why \in {"owner", "timeout"}, NEW c \in Commits,
              Cancel(d, r, why, c) PROVE QuarantineIsNoticed'
  <2>1. \A t \in Soul : t \in noticed /\ flight'[t] # NoFlight => t \in noticed'
    BY <1>12 DEF Cancel, Persist, Kept, Freezes, IInv, TypeOK
  <2> QED BY <1>12, <2>1, CancelledOne DEF IInv, QuarantineIsNoticed
<1>13. ASSUME NEW d \in Daemon, NEW r \in Run, NEW ok \in BOOLEAN, NEW structured \in BOOLEAN, NEW c \in Commits,
              Finish(d, r, ok, structured, c) PROVE QuarantineIsNoticed'
  BY <1>13 DEF Finish, Drives, Reads, InFlight, SoulOf, Persist, Published, Kept, Owns, Result,
      Freezes, Goes, bounds, IInv, QuarantineIsNoticed, TypeOK, Flight
<1>14. ASSUME NEW d \in Daemon, Crash(d) PROVE QuarantineIsNoticed'
  BY <1>14 DEF Crash, journal, bounds, IInv, QuarantineIsNoticed, TypeOK, Flight
<1>15. ASSUME NEW d \in Daemon, NEW absent \in SUBSET Soul, NEW owned \in SUBSET Soul, NEW c \in Commits,
              Boot(d, absent, owned, c) PROVE QuarantineIsNoticed'
  <2>1. PICK A, B \in SUBSET Soul : Recovers(A, B)
    BY <1>15, BootRecovers DEF IInv
  <2> QED BY <2>1 DEF Recovers, IInv, QuarantineIsNoticed
<1>16. ASSUME NEW d \in Daemon, NEW r \in Run, NEW absent \in SUBSET Soul, NEW c \in Commits,
              Reap(d, r, absent, c) PROVE QuarantineIsNoticed'
  <2>1. PICK A, B \in SUBSET Soul : Recovers(A, B)
    BY <1>16, ReapRecovers DEF IInv
  <2> QED BY <2>1 DEF Recovers, IInv, QuarantineIsNoticed
<1>17. CASE UNCHANGED vars
  BY <1>17 DEF vars, journal, memory, daemons, bounds, IInv, QuarantineIsNoticed, TypeOK, Flight
<1> QED
  BY <1>1, <1>2, <1>3, <1>4, <1>5, <1>6, <1>7, <1>8, <1>9, <1>10, <1>11, <1>12, <1>13, <1>14,
      <1>15, <1>16, <1>17
  DEF Next, Controls, Executing, Finishing, Cancelling, Booting, Reaping

-----------------------------------------------------------------------------
(* The theorems. *)

\* A journal without records and no daemon.
LEMMA InitHolds == Init => IInv
<1> SUFFICES ASSUME Init PROVE IInv
  OBVIOUS
<1>1. TypeOK
  BY DreamAssumption DEF Init, TypeOK, Reasons, Turns
<1> QED
  BY <1>1 DEF Init, IInv, FlightInv, UnstartedInv, LiveInv, AgentInv, ReasonInv, RowInv, InFlight,
              Reads, ResultsKeepToTheirRegistration, QuarantineIsNoticed

\* Each step keeps each part.
LEMMA NextKeeps == IInv /\ [Next]_vars => IInv'
<1> SUFFICES ASSUME IInv, [Next]_vars PROVE IInv'
  OBVIOUS
<1>1. TypeOK'
  BY TypeStep DEF IInv
<1> QED BY <1>1, FlightStep, UnstartedStep, LiveStep, AgentStep, ReasonStep, RowStep, ResultsStep, QuarStep
    DEF IInv

\* The inductive invariant holds of every reachable state.
THEOREM Invariance == Spec => []IInv
BY InitHolds, NextKeeps, PTL DEF Spec

\* The journal and the daemons keep to their types.
THEOREM TypeCorrect == Spec => []TypeOK
<1>1. IInv => TypeOK
  BY DEF IInv
<1> QED BY Invariance, <1>1, PTL

\* An agent that is alive holds its soul, whatever became of its daemon, and
\* where groups can be told no agent is prompted before a later daemon could
\* find it (skill-dream-scheduler.mjs, skill-dream-service.mjs).
THEOREM AgentsHoldTheirSouls == Spec => []LeaseHolds
<1>1. IInv => LeaseHolds
  BY DEF IInv, TypeOK, LeaseHolds, AgentInv, UnstartedInv, InFlight
<1> QED BY Invariance, <1>1, PTL

\* No registration is given a result of another soul, of an earlier life of
\* its own, or of a run that is not over (skill-dream-scheduler.mjs).
THEOREM ResultsKeep == Spec => []ResultsKeepToTheirRegistration
<1>1. IInv => ResultsKeepToTheirRegistration
  BY DEF IInv
<1> QED BY Invariance, <1>1, PTL

\* Every quarantined run has its notice (skill-dream-notices.mjs).
THEOREM QuarantineTold == Spec => []QuarantineIsNoticed
<1>1. IInv => QuarantineIsNoticed
  BY DEF IInv
<1> QED BY Invariance, <1>1, PTL

\* What an ended run is said to have ended as.
TrueEnd(r) ==
  /\ ended[r] = "open" /\ r \notin alive /\ InFlight(r)
  /\ ended'[r] = "completed" => turn[r] = "prompted"
  /\ ended'[r] = "failed" => flight[SoulOf(r)].reason = "none"
  /\ ended'[r] = "cancelled" => flight[SoulOf(r)].reason = "owner"
  /\ ended'[r] = "timed-out" => flight[SoulOf(r)].reason = "timeout"

\* The executor's own report.
LEMMA FinishEndsTruly ==
  ASSUME IInv, NEW d \in Daemon, NEW r \in Run, NEW ok \in BOOLEAN, NEW structured \in BOOLEAN,
         NEW c \in Commits, Finish(d, r, ok, structured, c), NEW q \in Run, ended'[q] # ended[q]
  PROVE  TrueEnd(q)
<1>1. q = r /\ ended[r] = "open"
  BY FinishedEnd
<1>2. Reads(d) /\ InFlight(r) /\ ended' = [ended EXCEPT ![r] = Result(r, ok)]
  BY DEF Finish, Persist, Freezes
<1>3. ended'[r] = Result(r, ok)
  BY <1>2 DEF IInv, TypeOK
<1>4. r \notin alive /\ (ok => turn[r] = "prompted") /\ r \in live[d]
  BY DEF Finish, Drives
<1>5. flight[SoulOf(r)].reason = asked[r] /\ asked[r] \in Reasons
  BY <1>2, <1>4 DEF IInv, ReasonInv, TypeOK
<1> QED BY <1>1, <1>2, <1>3, <1>4, <1>5 DEF TrueEnd, Result, Reasons

\* A recovery: only runs whose recorded group is gone.
LEMMA RecoveryEndsTruly ==
  ASSUME IInv, NEW A \in SUBSET Soul, NEW B \in SUBSET Soul, Recovers(A, B), NEW q \in Run, ended'[q] # ended[q]
  PROVE  TrueEnd(q)
<1>1. PICK s \in A : flight[s].run = q /\ ended'[q] = "interrupted"
  BY DEF Recovers
<1>2. flight[s] # NoFlight /\ q \notin alive
  BY <1>1 DEF Recovers, Gone, Recorded, Undecided
<1>3. InFlight(q) /\ ended[q] = "open"
  BY <1>1, <1>2, InFlightIsOwn DEF IInv, FlightInv
<1> QED BY <1>1, <1>2, <1>3 DEF TrueEnd

\* A run ends once, with its agent gone, and as what the journal's own record of
\* the request says (skill-dream-scheduler.mjs, skill-dream-store.mjs).
THEOREM EndsTrue == Spec => EndsAreTrue
<1>1. IInv /\ [Next]_vars => [\A r \in Run : ended'[r] # ended[r] => TrueEnd(r)]_vars
  <2> SUFFICES ASSUME IInv, [Next]_vars, NEW q \in Run, ended'[q] # ended[q]
               PROVE  TrueEnd(q)
    BY DEF TrueEnd
  <2>1. ASSUME NEW d \in Daemon, Controls(d) PROVE FALSE
    <3>1. PICK s \in Soul, c \in Commits :
             \/ Register(d, s, c) \/ Pause(d, s, c) \/ Unschedule(d, s, c) \/ AcknowledgeNotice(d, s, c)
             \/ \E r \in Run : Start(d, s, r, c)
      BY <2>1 DEF Controls
    <3>2. CASE Register(d, s, c) \/ Pause(d, s, c)
      BY <3>2 DEF Register, Pause, Persist
    <3>3. CASE Unschedule(d, s, c) \/ AcknowledgeNotice(d, s, c)
      BY <3>3 DEF Unschedule, AcknowledgeNotice, Persist
    <3>4. ASSUME NEW r \in Run, Start(d, s, r, c) PROVE FALSE
      BY <3>4, Started DEF IInv
    <3> QED BY <3>1, <3>2, <3>3, <3>4
  <2>2. ASSUME NEW d \in Daemon, Crash(d) PROVE FALSE
    BY <2>2 DEF Crash, journal
  <2>3. ASSUME NEW d \in Daemon, NEW r \in Run, Executing(d, r) PROVE FALSE
    BY <2>3 DEF Executing, Spawn, RefuseProcess, Prompt, Execute, RecordProcess, Persist, journal
  <2>4. ASSUME NEW d \in Daemon, NEW r \in Run, NEW why, Cancelling(d, r, why) PROVE FALSE
    BY <2>4 DEF Cancelling, Cancel, Persist, Freezes
  <2>5. ASSUME NEW r \in Run, AgentExits(r) PROVE FALSE
    BY <2>5 DEF AgentExits, journal
  <2>6. ASSUME NEW d \in Daemon, NEW r \in Run, Finishing(d, r) PROVE TrueEnd(q)
    BY <2>6, FinishEndsTruly DEF Finishing
  <2>7. ASSUME NEW d \in Daemon, Booting(d) PROVE TrueEnd(q)
    <3>1. \E A, B \in SUBSET Soul : Recovers(A, B)
      BY <2>7, BootRecovers DEF Booting, IInv
    <3> QED BY <3>1, RecoveryEndsTruly
  <2>8. ASSUME NEW d \in Daemon, NEW r \in Run, Reaping(d, r) PROVE TrueEnd(q)
    <3>1. \E A, B \in SUBSET Soul : Recovers(A, B)
      BY <2>8, ReapRecovers DEF Reaping, IInv
    <3> QED BY <3>1, RecoveryEndsTruly
  <2>9. ~UNCHANGED vars
    BY DEF vars, journal
  <2> QED BY <2>1, <2>2, <2>3, <2>4, <2>5, <2>6, <2>7, <2>8, <2>9 DEF Next
<1>2. [\A r \in Run : ended'[r] # ended[r] => TrueEnd(r)]_vars
      => [\A r \in Run : ended'[r] # ended[r] =>
       /\ ended[r] = "open" /\ r \notin alive /\ InFlight(r)
       /\ ended'[r] = "completed" => turn[r] = "prompted"
       /\ ended'[r] = "failed" => flight[SoulOf(r)].reason = "none"
       /\ ended'[r] = "cancelled" => flight[SoulOf(r)].reason = "owner"
       /\ ended'[r] = "timed-out" => flight[SoulOf(r)].reason = "timeout"]_vars
  BY DEF TrueEnd
<1> QED BY Invariance, <1>1, <1>2, PTL DEF Spec, EndsAreTrue
=============================================================================
