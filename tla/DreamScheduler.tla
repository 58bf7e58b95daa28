--------------------------- MODULE DreamScheduler ---------------------------
(***************************************************************************)
(* Dream scheduling: the scheduler of a daemon (skill-dream-scheduler.mjs) *)
(* over the journal all daemons of the account share                       *)
(* (skill-dream-store.mjs), the executor the service gives it              *)
(* (skill-dream-service.mjs), the notice of a quarantined run              *)
(* (skill-dream-notices.mjs), and the process group of the agent a run     *)
(* starts, which outlives the daemon (process-ownership.mjs).              *)
(*                                                                         *)
(* The journal is a chain of immutable records, each the whole state; the  *)
(* next is published by a hard link that fails if another writer was       *)
(* there first, and a daemon whose last record is no longer the newest is  *)
(* stale: it refuses to read.  A commit is published or not, and its       *)
(* writer may not be told that it was; anything but an acknowledged commit *)
(* freezes the daemon until it is restarted.  An operation is synchronous  *)
(* in its daemon, and a step here; another daemon's commit between its     *)
(* read and its link is the outcome "refused".                             *)
(*                                                                         *)
(* Left out: due times (a start is due or the owner asked for it), the     *)
(* notices other than the recovery one, what an outcome reports, previews  *)
(* and processing checkpoints, migration of old journals.                  *)
(***************************************************************************)
EXTENDS Naturals, FiniteSets

CONSTANTS
  Daemon,         \* daemon processes, now or later, of one account
  Soul,
  MaxConcurrent,  \* runs a daemon drives at once: 1 in the code
  Groups,         \* the platform can tell the owner of a process group
  NoRow, NoFlight, NoRun,
  MaxRuns,        \* bound: attempts
  MaxChanges,     \* bound: changes of a registration
  MaxFaults,      \* bound: commits that are not acknowledged
  MaxBoots        \* bound: starts of a daemon

Run == 1 .. MaxRuns
Generation == 1 .. MaxChanges

VARIABLES
  \* the journal
  reg,      \* a soul's registration, or NoRow
  flight,   \* its unsettled run, or NoFlight
  noticed,  \* souls whose ledger holds the recovery notice
  started,  \* the history: what each run started as, or NoRun
  ended,    \* the history: how each run ended, "open" until it has
  \* the daemons
  up,
  stale,    \* those another writer has passed
  frozen,   \* those that refuse every operation: a fault is retained
  live,     \* the runs each drives
  reaping,  \* the orphans each is terminating
  asked,    \* what a run's controller was aborted for
  turn,     \* how far a run's executor is
  \* the machine
  alive,    \* runs whose agent's process group exists
  changes, faults, boots

journal == <<reg, flight, noticed, started, ended>>
memory  == <<live, reaping, asked, turn>>
daemons == <<up, stale, frozen>>
bounds  == <<changes, boots>>
vars == <<journal, daemons, memory, alive, faults, bounds>>

Reasons  == {"none", "owner", "timeout"}
Outcomes == {"completed", "failed", "cancelled", "timed-out", "interrupted"}
Turns    == {"none", "queued", "prepared", "spawned", "refused", "recorded", "prompted",
             "settled"}

\* `since` is a history value: the generation a registration was created in.
Row == [generation : Generation, since : Generation, at : {"scheduled", "paused"},
        last : Run \cup {NoRun}, selected : Run \cup {NoRun}]

Flight == [run : Run, status : {"running", "cancelling", "recovery-required"},
           reason : Reasons, group : {"unknown", "recorded"}]

Attempt == [soul : Soul, generation : Generation]

ASSUME DreamAssumption ==
  /\ {MaxConcurrent, MaxRuns, MaxChanges, MaxFaults, MaxBoots} \subseteq Nat
  /\ Groups \in BOOLEAN
  /\ NoRow \notin Row /\ NoFlight \notin Flight /\ NoRun \notin Run \cup Attempt

TypeOK ==
  /\ reg \in [Soul -> Row \cup {NoRow}]
  /\ flight \in [Soul -> Flight \cup {NoFlight}]
  /\ noticed \subseteq Soul
  /\ started \in [Run -> Attempt \cup {NoRun}]
  /\ ended \in [Run -> Outcomes \cup {"open"}]
  /\ up \subseteq Daemon /\ stale \subseteq up /\ frozen \subseteq up
  /\ live \in [Daemon -> SUBSET Run] /\ reaping \in [Daemon -> SUBSET Run]
  /\ asked \in [Run -> Reasons] /\ turn \in [Run -> Turns]
  /\ alive \subseteq Run
  /\ changes \in 0 .. MaxChanges /\ faults \in 0 .. MaxFaults /\ boots \in 0 .. MaxBoots

Init ==
  /\ reg = [s \in Soul |-> NoRow] /\ flight = [s \in Soul |-> NoFlight]
  /\ noticed = {} /\ started = [r \in Run |-> NoRun] /\ ended = [r \in Run |-> "open"]
  /\ up = {} /\ stale = {} /\ frozen = {}
  /\ live = [d \in Daemon |-> {}] /\ reaping = [d \in Daemon |-> {}]
  /\ asked = [r \in Run |-> "none"] /\ turn = [r \in Run |-> "none"]
  /\ alive = {}
  /\ changes = 0 /\ faults = 0 /\ boots = 0

-----------------------------------------------------------------------------
(* The journal. *)

\* What becomes of a commit: acknowledged, not published, or published
\* without its writer being told.
Commits == {"committed", "refused", "uncertain"}

Published(c) == c # "refused"

\* The daemons whose newest record is the newest no more.
Others(d) == up \ {d}

\* The daemon reads the newest record and goes on.
Reads(d) == d \in up \ (frozen \cup stale)

\* Seeded bug: the notices of an unregistered soul go with its registration.
KeptOfRegistered(notices, reg1, flight1) == {s \in notices : reg1[s] # NoRow}

\* A soul with neither a registration nor a flight keeps no notices.
Kept(notices, reg1, flight1) ==
  {s \in notices : reg1[s] # NoRow \/ flight1[s] # NoFlight}

\* One transaction of daemon d, with the state it publishes.
Persist(d, c, reg1, flight1, noticed1, ended1) ==
  /\ IF Published(c)
     THEN /\ reg' = reg1 /\ flight' = flight1 /\ ended' = ended1
          /\ noticed' = Kept(noticed1, reg1, flight1)
          /\ stale' = stale \cup Others(d)
     ELSE UNCHANGED <<reg, flight, noticed, ended, stale>>
  /\ IF c = "committed" THEN UNCHANGED <<frozen, faults>>
     ELSE frozen' = frozen \cup {d} /\ faults < MaxFaults /\ faults' = faults + 1

\* A daemon that cannot go on: nothing is published and it freezes.
Freezes(d) ==
  /\ frozen' = frozen \cup {d}
  /\ UNCHANGED <<reg, flight, noticed, ended, stale, faults>>

-----------------------------------------------------------------------------
(* The owner's controls. *)

\* A new schedule, or a paused one resumed; the generation is new, and what
\* the soul's runs established is bound to it again.
Register(d, s, c) ==
  /\ Reads(d) /\ changes < MaxChanges
  /\ LET g   == changes + 1
         row == IF reg[s] = NoRow
                THEN [generation |-> g, since |-> g, at |-> "scheduled",
                      last |-> NoRun, selected |-> NoRun]
                ELSE [reg[s] EXCEPT !.generation = g, !.at = "scheduled"]
     IN  Persist(d, c, [reg EXCEPT ![s] = row], flight, noticed, ended)
  /\ changes' = changes + 1
  /\ UNCHANGED <<started, up, memory, alive, boots>>

Pause(d, s, c) ==
  /\ Reads(d) /\ changes < MaxChanges
  /\ reg[s] # NoRow /\ IF reg[s] = NoRow THEN FALSE ELSE reg[s].at = "scheduled"
  /\ LET row == [reg[s] EXCEPT !.generation = changes + 1, !.at = "paused"]
     IN  Persist(d, c, [reg EXCEPT ![s] = row], flight, noticed, ended)
  /\ changes' = changes + 1
  /\ UNCHANGED <<started, up, memory, alive, boots>>

\* The flight of the soul stays, and so does the notice of its quarantine.
Unschedule(d, s, c) ==
  /\ Reads(d) /\ reg[s] # NoRow
  /\ Persist(d, c, [reg EXCEPT ![s] = NoRow], flight, noticed, ended)
  /\ UNCHANGED <<started, up, memory, alive, bounds>>

\* An acknowledged notice stays live; the journal moves on.
AcknowledgeNotice(d, s, c) ==
  /\ Reads(d) /\ s \in noticed
  /\ Persist(d, c, reg, flight, noticed, ended)
  /\ UNCHANGED <<started, up, memory, alive, bounds>>

-----------------------------------------------------------------------------
(* Starting a run. *)

Unstarted(r) == started[r] = NoRun /\ \A q \in 1 .. (r - 1) : started[q] # NoRun

Scheduled(s) == IF reg[s] = NoRow THEN FALSE ELSE reg[s].at = "scheduled"

\* The start is in the journal before anything is executed.  A deadline that
\* cannot be installed after it freezes the daemon: the outcome "uncertain".
Start(d, s, r, c) ==
  /\ Reads(d) /\ Unstarted(r)
  /\ Scheduled(s) /\ flight[s] = NoFlight
  /\ Cardinality(live[d]) < MaxConcurrent
  /\ LET run == [run |-> r, status |-> "running", reason |-> "none", group |-> "unknown"]
     IN  Persist(d, c, reg, [flight EXCEPT ![s] = run], noticed, ended)
  /\ started' = IF Published(c)
                THEN [started EXCEPT ![r] = [soul |-> s, generation |-> reg[s].generation]]
                ELSE started
  /\ IF c = "committed"
     THEN /\ live' = [live EXCEPT ![d] = @ \cup {r}]
          /\ turn' = [turn EXCEPT ![r] = "queued"]
     ELSE UNCHANGED <<live, turn>>
  /\ UNCHANGED <<up, reaping, asked, alive, bounds>>

-----------------------------------------------------------------------------
(* The executor of a run, and its agent. *)

\* The soul the run is of, and whether the newest record has it in flight.
SoulOf(r) == started[r].soul
InFlight(r) == IF flight[SoulOf(r)] = NoFlight THEN FALSE ELSE flight[SoulOf(r)].run = r

Drives(d, r) == d \in up /\ r \in live[d]

Goes(r, to) == turn' = [turn EXCEPT ![r] = to]

\* The executor is called in a later microtask, unless the run was cancelled.
\* What the agent will be given is in the journal before its turn begins; inputs
\* that cannot be read or recorded end the run there.
Execute(d, r, c) ==
  /\ Drives(d, r) /\ turn[r] = "queued" /\ asked[r] = "none"
  /\ \/ /\ Reads(d) /\ InFlight(r) /\ flight[SoulOf(r)].status = "running"
        /\ Persist(d, c, reg, flight, noticed, ended)
        /\ Goes(r, IF c = "committed" THEN "prepared" ELSE "refused")
     \/ /\ c = "refused" /\ Goes(r, "refused")
        /\ UNCHANGED <<reg, flight, noticed, ended, stale, frozen, faults>>
  /\ UNCHANGED <<started, up, live, reaping, asked, alive, bounds>>

\* The turn of the agent begins with its process, the leader of a new group.
Spawn(d, r) ==
  /\ Drives(d, r) /\ turn[r] = "prepared"
  /\ Goes(r, "spawned") /\ alive' = alive \cup {r}
  /\ UNCHANGED <<journal, daemons, live, reaping, asked, faults, bounds>>

\* Seeded bug: the prompt does not wait for the record.
PromptFirst(d, r, c) ==
  /\ Drives(d, r) /\ turn[r] = "spawned" /\ c = "committed"
  /\ Goes(r, "recorded")
  /\ UNCHANGED <<journal, daemons, live, reaping, asked, alive, faults, bounds>>

\* The group is in the journal before the agent's first prompt.  A platform
\* that cannot name the owner of a group records none and goes on.
RecordProcess(d, r, c) ==
  /\ Drives(d, r) /\ Reads(d) /\ turn[r] = "spawned"
  /\ InFlight(r)
  /\ LET s == SoulOf(r)
         f == [flight[s] EXCEPT !.group = "recorded"]
     IN  /\ flight[s].status \in {"running", "cancelling"} /\ flight[s].group = "unknown"
         /\ IF Groups
            THEN /\ Persist(d, c, reg, [flight EXCEPT ![s] = f], noticed, ended)
                 /\ IF c = "committed" THEN Goes(r, "recorded") ELSE Goes(r, "refused")
            ELSE /\ c = "committed"
                 /\ Goes(r, "recorded")
                 /\ UNCHANGED <<reg, flight, noticed, ended, stale, frozen, faults>>
  /\ UNCHANGED <<started, up, live, reaping, asked, alive, bounds>>

\* The leader cannot be read, or the daemon no longer may: no prompt is sent.
RefuseProcess(d, r) ==
  /\ Drives(d, r) /\ turn[r] = "spawned"
  /\ Goes(r, "refused")
  /\ UNCHANGED <<journal, daemons, live, reaping, asked, alive, faults, bounds>>

Prompt(d, r) ==
  /\ Drives(d, r) /\ turn[r] = "recorded" /\ r \in alive
  /\ Goes(r, "prompted")
  /\ UNCHANGED <<journal, daemons, live, reaping, asked, alive, faults, bounds>>

\* The group is gone: the agent ended, crashed, or was killed by its turn's
\* end, by an abort or by a later daemon's termination ladder.
AgentExits(r) ==
  /\ r \in alive /\ alive' = alive \ {r}
  /\ UNCHANGED <<journal, daemons, memory, faults, bounds>>

-----------------------------------------------------------------------------
(* Cancelling and finishing a run. *)

\* The owner, a stop of the soul or a shutdown ("owner"), or the deadline.  The
\* abort comes first and reaches the executor whatever becomes of the record.
Cancel(d, r, why, c) ==
  /\ Drives(d, r) /\ asked[r] = "none"
  /\ asked' = [asked EXCEPT ![r] = why]
  /\ IF Reads(d) /\ InFlight(r)
     THEN LET s == SoulOf(r)
              f == [flight[s] EXCEPT !.status = "cancelling", !.reason = why]
          IN  Persist(d, c, reg, [flight EXCEPT ![s] = f], noticed, ended)
     ELSE c = "refused" /\ Freezes(d)
  /\ UNCHANGED <<started, up, live, reaping, turn, alive, bounds>>

\* Seeded bug: whatever registration the soul has now is given the result.
OwnsAny(s, r) == reg[s] # NoRow

\* The registration a run was started under, unchanged since.
Owns(s, r) == IF reg[s] = NoRow THEN FALSE ELSE reg[s].generation = started[r].generation

\* An abort that was asked for is not evidence that the work stopped.
Result(r, ok) ==
  IF ok THEN "completed"
  ELSE IF asked[r] = "none" THEN "failed"
  ELSE IF asked[r] = "timeout" THEN "timed-out" ELSE "cancelled"

\* The executor settled, its agent's group gone: it waits for that, and a kill
\* is taken to work within the time it waits (KILL_REAP_MS).  One transaction
\* ends the run, frees its soul and, for a report that counts, moves the soul's
\* selection on.
Finish(d, r, ok, structured, c) ==
  /\ Drives(d, r) /\ r \notin alive
  /\ turn[r] # "settled" /\ (turn[r] = "queued" => asked[r] # "none")
  /\ ok => turn[r] = "prompted"
  /\ IF Reads(d) /\ InFlight(r)
     THEN LET s    == SoulOf(r)
              on   == ok /\ flight[s].reason = "none" /\ structured
              row  == [reg[s] EXCEPT !.last = r, !.selected = IF on THEN r ELSE reg[s].selected]
          IN  /\ Persist(d, c, IF Owns(s, r) THEN [reg EXCEPT ![s] = row] ELSE reg,
                         [flight EXCEPT ![s] = NoFlight], noticed,
                         [ended EXCEPT ![r] = Result(r, ok)])
              /\ live' = IF c = "committed" THEN [live EXCEPT ![d] = @ \ {r}] ELSE live
     ELSE c = "refused" /\ Freezes(d) /\ UNCHANGED live
  /\ Goes(r, "settled")
  /\ asked' = IF r \in live'[d] THEN asked ELSE [asked EXCEPT ![r] = "none"]
  /\ UNCHANGED <<started, up, reaping, alive, bounds>>

-----------------------------------------------------------------------------
(* Restart and recovery. *)

\* The daemon dies or stops, and its executors with it.  Agents are processes of
\* their own and may go on.
Crash(d) ==
  /\ d \in up
  /\ up' = up \ {d} /\ stale' = stale \ {d} /\ frozen' = frozen \ {d}
  /\ live' = [live EXCEPT ![d] = {}] /\ reaping' = [reaping EXCEPT ![d] = {}]
  /\ asked' = [r \in Run |-> IF r \in live[d] THEN "none" ELSE asked[r]]
  /\ turn' = [r \in Run |-> IF r \in live[d] \ alive THEN "settled" ELSE turn[r]]
  /\ UNCHANGED <<journal, alive, faults, bounds>>

Undecided(s) == IF flight[s] = NoFlight THEN FALSE ELSE flight[s].status # "recovery-required"

Recorded(s) == Undecided(s) /\ flight[s].group = "recorded"

\* Seeded bug: a group whose leader has gone is taken for absent.
GoneLeader == {s \in Soul : Recorded(s)}

\* What may be found of the recorded groups: absent, when no process is left in
\* one; the daemon's own, when one is.  Each may also be found ambiguous: a
\* probe fails, the leader has gone, its number was used again.
Gone   == {s \in Soul : Recorded(s) /\ flight[s].run \notin alive}
Theirs == {s \in Soul : Recorded(s) /\ flight[s].run \in alive}

\* One transaction: the runs found absent end as interrupted, the ambiguous
\* ones are quarantined, each with its notice.
Recover(d, c, absent, ambiguous) ==
  Persist(d, c,
    [s \in Soul |-> IF s \in absent /\ Owns(s, flight[s].run)
                    THEN [reg[s] EXCEPT !.last = flight[s].run] ELSE reg[s]],
    [s \in Soul |-> IF s \in absent THEN NoFlight
                    ELSE IF s \in ambiguous THEN [flight[s] EXCEPT !.status = "recovery-required"]
                    ELSE flight[s]],
    noticed \cup ambiguous,
    [r \in Run |-> IF \E s \in absent : flight[s].run = r THEN "interrupted" ELSE ended[r]])

\* A daemon starts and decides every run an earlier one left; a run whose group
\* is still there keeps its soul while it is being terminated.
Boot(d, absent, owned, c) ==
  /\ d \notin up /\ boots < MaxBoots
  /\ absent \subseteq Gone /\ owned \subseteq Theirs
  /\ LET ambiguous == {s \in Soul : Undecided(s)} \ (absent \cup owned)
     IN  IF absent \cup ambiguous = {}
         THEN c = "committed" /\ UNCHANGED <<reg, flight, noticed, ended, stale, frozen, faults>>
         ELSE Recover(d, c, absent, ambiguous)
  /\ up' = up \cup {d} /\ boots' = boots + 1
  /\ reaping' = IF c = "committed" THEN [reaping EXCEPT ![d] = {flight[s].run : s \in owned}]
                ELSE reaping
  /\ UNCHANGED <<started, live, asked, turn, alive, changes>>

\* Seeded bug: the orphan is waited for, however long its group stays.
ReapWhenGone(d, r, absent, c) ==
  /\ d \in up /\ r \in reaping[d] /\ r \notin alive
  /\ reaping' = [reaping EXCEPT ![d] = @ \ {r}]
  /\ absent \subseteq Gone \cap {SoulOf(r)}
  /\ IF ~Reads(d) THEN c = "refused" /\ Freezes(d)
     ELSE Recover(d, c, absent, {SoulOf(r)} \ absent)
  /\ UNCHANGED <<started, up, live, asked, turn, alive, bounds>>

\* The termination ladder of an orphan has run; what it achieved is found out
\* by the same probe.  A group that is still there is quarantined.
Reap(d, r, absent, c) ==
  /\ d \in up /\ r \in reaping[d]
  /\ reaping' = [reaping EXCEPT ![d] = @ \ {r}]
  /\ absent \subseteq Gone \cap {SoulOf(r)}
  /\ IF ~Reads(d) THEN c = "refused" /\ Freezes(d)
     ELSE IF InFlight(r) /\ Undecided(SoulOf(r))
     THEN Recover(d, c, absent, {SoulOf(r)} \ absent)
     ELSE c = "committed" /\ UNCHANGED <<reg, flight, noticed, ended, stale, frozen, faults>>
  /\ UNCHANGED <<started, up, live, asked, turn, alive, bounds>>

-----------------------------------------------------------------------------
Controls(d) ==
  \E s \in Soul, c \in Commits :
    \/ Register(d, s, c) \/ Pause(d, s, c) \/ Unschedule(d, s, c) \/ AcknowledgeNotice(d, s, c)
    \/ \E r \in Run : Start(d, s, r, c)

Executing(d, r) ==
  \/ Spawn(d, r) \/ RefuseProcess(d, r) \/ Prompt(d, r)
  \/ \E c \in Commits : Execute(d, r, c) \/ RecordProcess(d, r, c)

Finishing(d, r) == \E ok, structured \in BOOLEAN, c \in Commits : Finish(d, r, ok, structured, c)
Cancelling(d, r, why) == \E c \in Commits : Cancel(d, r, why, c)
Booting(d) == \E absent, owned \in SUBSET Soul, c \in Commits : Boot(d, absent, owned, c)
Reaping(d, r) == \E absent \in SUBSET Soul, c \in Commits : Reap(d, r, absent, c)

Next ==
  \/ \E d \in Daemon :
       \/ Controls(d) \/ Crash(d) \/ Booting(d)
       \/ \E r \in Run : \/ Executing(d, r) \/ Finishing(d, r) \/ Reaping(d, r)
                         \/ \E why \in {"owner", "timeout"} : Cancelling(d, r, why)
  \/ \E r \in Run : AgentExits(r)

Spec == Init /\ [][Next]_vars

\* A turn's end, its abort or its deadline kills the group it started.
Killed(d, r) == Drives(d, r) /\ (asked[r] # "none" \/ turn[r] = "refused") /\ AgentExits(r)

\* Callbacks and timers of a daemon that is up fire, and an executor that has
\* no agent settles: a run that has something left to do does some of it.
\* Nothing is assumed of owners, of boots, or of an orphan.
Progress(d, r) ==
  \/ /\ Drives(d, r)
     /\ \/ \E c \in Commits : Execute(d, r, c)
        \/ Cancelling(d, r, "timeout") \/ Killed(d, r) \/ Finishing(d, r)
  \/ r \in reaping[d] /\ Reaping(d, r)

FairSpec == Spec /\ \A d \in Daemon, r \in Run : WF_vars(Progress(d, r))

-----------------------------------------------------------------------------
(* Properties. *)

\* An agent that is alive holds its soul: the newest record has its run in
\* flight, in whatever daemon's life it was started and whatever became of
\* that daemon, so no soul has two; and where a group can be told, an agent
\* that was given a prompt is one a later daemon can find.
LeaseHolds ==
  \A r \in alive :
    /\ started[r] # NoRun /\ InFlight(r)
    /\ Groups /\ turn[r] = "prompted" => flight[SoulOf(r)].group = "recorded"

\* A run ends once, with its agent gone, as completed only if the agent was
\* prompted, and as cancelled, timed out or failed just as the journal's own
\* record of the request says: another ending would not validate.
EndsAreTrue ==
  [][\A r \in Run : ended'[r] # ended[r] =>
       /\ ended[r] = "open" /\ r \notin alive /\ InFlight(r)
       /\ ended'[r] = "completed" => turn[r] = "prompted"
       /\ ended'[r] = "failed" => flight[SoulOf(r)].reason = "none"
       /\ ended'[r] = "cancelled" => flight[SoulOf(r)].reason = "owner"
       /\ ended'[r] = "timed-out" => flight[SoulOf(r)].reason = "timeout"]_vars

\* What a registration remembers is of its own soul and its own life: the last
\* run ended, the selection goes on from a completed one, and neither began
\* before the owner registered the soul, though a run outlives a registration.
ResultsKeepToTheirRegistration ==
  \A s \in Soul : reg[s] # NoRow =>
    \A r \in {reg[s].last, reg[s].selected} \ {NoRun} :
      /\ started[r] # NoRun /\ SoulOf(r) = s /\ started[r].generation >= reg[s].since
      /\ ended[r] # "open"
      /\ r = reg[s].selected => ended[r] = "completed"

\* The owner is told of a quarantined run for as long as there is one, though
\* the soul is unscheduled or registered again meanwhile.  The notice itself is
\* taken not to fail (line 739): its ledger is valid and keeps a place for it.
QuarantineIsNoticed ==
  \A s \in Soul : flight[s] # NoFlight =>
    (flight[s].status = "recovery-required" => s \in noticed)

Serves(d, r) == d \notin frozen /\ r \in live[d] \cup reaping[d]

\* A run that a daemon drives, and an orphan it is terminating, are decided,
\* unless the daemon dies or freezes: no soul is held for ever by a daemon
\* that still serves.
AttemptIsSettled ==
  \A r \in Run : []<>(\A d \in Daemon : ~Serves(d, r))
=============================================================================
