# Specifications of agent-bot-identity

TLA+ specifications of the daemon that runs a user's agents ("souls") and of the
stores and locks it shares with the command line, checked with TLC, and proofs
checked with TLAPS. Paths and line numbers are those of this repository.

Contents

1. The system
2. What is hard about it
3. The modules, and how they correspond to the code
4. What each run checks
5. Bounds and fairness
6. What is proved
7. Where the code and its documentation part
8. What is not modelled
9. Plan

## 1. The system

A loopback daemon (`agent-daemon.mjs`) hosts most of the state. It is one Node.js
process: a handler runs without interruption from one `await` to the next, and the
daemon can die at any point, also between two writes of one handler. A soul's turns
are run by harness child processes (Claude, Codex, any ACP agent). A message broker
(agent-comms) pushes wakes to it. A Rust service, keyd, keeps private keys and asks
the owner for presence. The command line and the hooks are separate, short-lived
processes of the same account; they share files with the daemon and with each other.

| Component | State it keeps | Operations | Talks to | What makes it correct |
|---|---|---|---|---|
| File lock, `file-lock.mjs` | a lock directory with an owner file, a mutex directory `<lock>.takeover` | `withLock`, reclaiming a stale lock | every store below; other processes through the file system | one process in the operation; reclaimed only from who is gone; a dead owner does not block for ever |
| Interaction service, `agent-interaction.mjs` | `approvalWaiters`, `controllers` in memory | submit, run, request approval, decide, cancel, stop, expire | job store, executors, turn registry | accepted messages end; each runs once; outcomes and decisions are final |
| Job store, `agent-jobs.mjs` | invocations, payloads, events, proposals on disk | transition, append, decide, recover | interaction service, daemon start | legal transitions; a restart leaves nothing stranded |
| Wake dispatcher, `wake-dispatch.mjs` | a queue of wakes per soul | dispatch warm, cold or waiting, report | broker, warm sockets, cold waker | every wake is reported, in order |
| Cold waker, `cold-wake.mjs`, with `wake-plane.mjs`, `comms-relay.mjs` | the active flight, `taken`, `noticed` | cold turn, webhook, scan for owner replies, ack | broker, executor, interaction service | no message acked undealt with; owner replies decided once; paused means no turn |
| Turn registry, `turn-registry.mjs` | controllers per soul | run, track, stop | interaction service, cold waker, daemon routes | a stop reaches every turn; busy until settled |
| Session approvals, `identity/session-approvals.mjs` | the current session of a soul and its grants | bind, add, has, clear | turns | a grant belongs to the session it was asked in |
| Permission decisions, `executor-contract.mjs`, `computer-use-activity.mjs` | requests of a turn, tools shown as acting | request, allow, deny | interaction service, owner | nothing is allowed that was switched off |
| Delegation grants, `delegation-grants.mjs` | approved grants in memory, proposals on disk | request, approve, spend | keyd's presence prompt, job store | a grant is used once, while it lives |
| Task reporter, `task-turns.mjs` | append-only record | started, ended, recover | broker | every started turn is reported ended |
| Action ledger, `identity/action-ledger.mjs` | a record per operation, an archive of settled ones | read, write, list | the service's client, in the daemon and the command line | a settled operation stays so |
| Identity service's client, `identity/server-client.mjs` | device, access token | request a credential, look an operation up, replay it, reconcile | identity service, action ledger | no credential is requested again blind; what the ledger says became of it is so |
| Cold-wake settings, `cold-wake-settings.mjs`, `cold-wake-lock.mjs` | setting and webhook files | change, snapshot | file lock, cold waker | both files change together |
| Owner decision trust store, `identity/owner-decision-trust.mjs` | a chain of key records, an audit file, confirmations, a pending file | observe, enroll, revoke, reconcile | owners, the journal's entry gate | it vouches for one pair or none, never in the last version; what is interrupted reads as nothing and can be repaired |
| Owner decision journal, `identity/owner-decision-journal-store.mjs`, `owner-decision-*.mjs` | a directory of eleven slots per request | admit, prepare, decide, check, enter, complete, observe, reconcile | owner, trust store, population file, revisions | what it says happened is what happened; an effect is carried out at most once, on what the owner saw |
| Soul revisions and migrations, `soul-revisions.mjs`, `soul-migration-journal.mjs` | staged and published revisions, a migration journal | stage, publish, resume | journal, settings | an interrupted publication is finished or undone |
| Skill dreams, `skill-dream-*.mjs` | a journal of immutable records, runs and process groups | register, start, cancel, finish, recover | executor's process group, other daemons of the account | one agent per soul, also after a crash; a result belongs to its registration |
| keyd, `keyd/src/*.rs` | Keychain items (pin, owner record, seeds, keys, cached tokens), connections, spent nonces | import, pin, attest, sign, remove; calls under a grant | owner prompt, GitHub, client processes | a grant passes once; what an approval replaces is what was asked about; a claimed request is answered |
| Comms client, `comms-client.mjs`, `comms-windows.mjs`, `wake-listen.mjs` | socket, cursor | connect, receive, report | broker, dispatcher | no wake is lost in a reconnect |
| Supervision, `daemon-supervisor.mjs`, `daemon-launch.mjs`, `process-ownership.mjs` | pid and port ownership | start, hand over, stop | daemon | one daemon |

The **owner's decisions** about computer use and revisions are prepared in the journal,
decided under keys the trust store vouches for, and entered before they take effect.
**keyd** answers souls under grants the daemon signs, and the owner directly.

The rest (configuration, worktrees, environments, profiles, skill library, policies,
Telegram, command line, installation, sandbox) is sequential file handling and is
listed in section 8.

How they interact: a **client** (command line, web page, Telegram) submits a message
to the interaction service, which writes a job and runs it with an executor. A
**wake** from the broker goes through the dispatcher to a warm socket or to the cold
waker, whose turns run through the turn registry. A **turn** of either kind asks for
tools through its contract; what policy does not decide becomes a proposal of the
interaction service, which the owner answers in the daemon, or by a signed reply in
the soul's own inbox. The daemon's **routes** pause, stop and resume a soul and
switch its computer use, through the turn registry.

## 2. What is hard about it

* Awaits. What a handler read before an `await` may be stale after it: a pause, a
  cancel, a switch, an answer or the end of the turn may have come in between.
* Writes of one handler are not atomic. The daemon may die, or the file system
  may throw, after any of them, and the next start reconciles.
* Several parties settle the same request: owner, timer, abort, end of the turn.
* The broker redelivers. A message is acked last, so that it may be read again by
  the loop, by a scan, by a scan of an earlier flight, by the next daemon.
* A turn may wait for an owner whose answer is in an inbox only this turn's flight
  reads.
* Processes that share a lock directory may stall anywhere, die anywhere and have
  their pid reused.
* An effect outside the store (a setting, an agent's process) and its record cannot be
  one write; whichever comes first, a death may fall between them.
* A writer may not be told whether its commit was published, nor the daemon whether the
  identity service minted a credential.
* keyd keeps a lock across a prompt of two minutes, and part of its requests take no
  lock; the Keychain may change under both.

`PROJECT.json` lists each of these at its line ("hazards") with the properties that
look at it.

## 3. The modules, and how they correspond to the code

Each component is one module; `MC<module>` instantiates it for TLC (`MCOwnerControls`
both `TurnRegistry` and `DecisionJournal`, `MCOwnerAuthority` both `OwnerTrust` and
`GrantLedger`: section 4) and
`<module>Proofs` holds its theorems; those of `TurnRegistry`, `GrantLedger` and `OwnerTrust`,
the three modules about what an owner has allowed, are in `OwnerAuthorityProofs`. It extends
all three, so their definitions have names of their own (`RegistrySpec`, `GrantSpec`, `Spec`). `JobService` and `TrustAuthority` are abstract:
`InteractionService` and `OwnerTrust` implement them, and `DecisionJournal` extends
`TrustAuthority` instead of the files behind it. The other components are composed
where they share state. `ColdWake` contains the dispatcher, the flight, its scans and the part of the
interaction service that waits for a turn's approval; `TurnRegistry` contains the
registry, the session grants, the permission decisions and the routes;
`InteractionService` contains the service and its store. A step is what the code
runs without interruption: one file-system call in `FileLock` and `OwnerTrust`, one
access to the Keychain, critical section, prompt or exchange in `Keyd`, one operation
under the store's lock in `DecisionJournal` and `DreamScheduler`, one stretch between
two awaits in the others. `PROJECT.json` ("map") gives for each definition its lines.

### FileLock (`file-lock.mjs`)

| Variable | Code |
|---|---|
| `lock` | the directory at the lock's path: inode, age, the token in its owner file; `maker` is history |
| `takeover` | the mutex directory and its age; `by` is history |
| `pc`, `call` | where each process is in `withLock`, and which call this is (its token's uuid) |
| `seen`, `moved` | inode a waiter or reclaimer judged stale; the directory a reclaimer renamed away |

`MkdirLock`, `MkdirLockExists`, `StatLockFresh`, `StatLockStale`, `Stamp`,
`StampFails`, `RemoveUnstamped`, `EndOperation`, `Release`, `AcquireTimesOut` are
`withLock` (213-259); `MkdirTakeover`, `StatTakeoverStale`, `CollectTakeover`,
`DropTakeover`, `TakeoverTimesOut` are `withTakeover` (141-171); `ReclaimStat`,
`ReclaimReadOwner`, `ReclaimRename`, `ReclaimSettle` are `reclaimStaleLock`
(174-211). Time is only what the code compares: `LockAges` and `TakeoverAges` pass
the staleness windows, and they may not while a process is in a phase outside
`SlowPhases`. `CrashPhases` says where a process may die, `PidsReused` whose pid
then answers.

### InteractionService (`agent-interaction.mjs`, `agent-jobs.mjs`)

| Variable | Code |
|---|---|
| `store` | the job, payload, event and proposal documents on disk |
| `daemon`, `todo` | serving, recovering or down; recovery events still to be appended |
| `run`, `aborted` | where each `runInvocation` is suspended; its AbortController |
| `waiter`, `clock` | `approvalWaiters`; a proposal's age against its expiry |
| `told`, `started` | history: what an asker was answered; starts of an executor |

A handler is one action whose effect on disk is the *sequence* of stores its writes
leave: `DispatchStores`, `FailStores`, `ReturnStores`, `RequestStores`,
`CancelStores` list them in the order of the code. Three outcomes are possible: all
written; the daemon dies after any prefix; a write throws after any prefix, and the
handler's error path runs. `RecoverJobs`, `RecoverEvent`, `RecoverProposal`,
`RestartFails` and `Serve` are `recoverInteractionStore` and the start of the daemon.
An idempotency key is identified with the invocation it names. An executor settles
only after its agent's process group is gone: the wait for that is bounded
(`KILL_REAP`), so it is part of the execution.

`JobService` is what a principal is promised: an invocation is absent, open, cancelling
or over, in that order; its report is its outcome; a proposal is decided once; an asker
is answered once, and with an approval only if that is the verdict. The refinement
mapping (`Promised`, at the end of `InteractionService`) reads all four off the store and
`told`. One step of the service may be a whole handler cut by a death, so that one step
of `JobService` may move any number of records.

### ColdWake (`cold-wake.mjs`, `wake-dispatch.mjs`)

| Variable | Code |
|---|---|
| `inbox`, `arrived` | the broker: unacked messages, all messages |
| `wakes`, `dispatch` | the soul's queue in the dispatcher, the wake at its head |
| `turn`, `flown` | `active.get(agentId)`: stage, lane and batch of the flight; flights so far |
| `reader`, `queued` | what the loop and each flight's scan are doing; scans chained on `flight.scan` |
| `taken`, `ackedOf` | `taken`: owner replies handled, and acked |
| `noticed`, `ask` | messages told about a sign-in failure; the running turn's proposal |
| `paused`, `setting`, `warm` | census row, cold-wake setting, warm socket |
| `merged`, `done`, `count` | history: merged messages, messages dealt with, turns and hand-overs |
| `budget` | the course taken, what is left of its bounds, and which failures were met |

A course (`Courses`) is what one behaviour may meet: the mail to come, the settings in use
and how often each mishap happens.

A read of the inbox is two steps, because it is a child process: the broker answers
(`BrokerReads`), the waker sees it (`TakeAnswer`). Between them anything may happen.

### TurnRegistry (`turn-registry.mjs`, `identity/session-approvals.mjs`, `executor-contract.mjs`, routes of `agent-daemon.mjs`)

| Variable | Code |
|---|---|
| `paused`, `computerUse` | the soul's census row |
| `turn` | every turn: stage, aborted, its lease, its open requests, whether it was allowed a computer-use tool |
| `tracked` | `active.get(agentId)`: controllers of the registry |
| `acting` | turns `computer-use-activity.mjs` shows |
| `lease` | the soul's session in the session grants, with its grants |

Wakes go through `run` (`RunTurn`, `TurnSettles`); interactive turns are tracked by
`runInvocation` (`Dispatch`, `Reported`, `Verified`, `Ends`). Owner and routes:
`Stop`, `Pause`, `Resume`, `SetComputerUse`, `Approve`, `Deny`.

### GrantLedger (`delegation-grants.mjs`)

`proposal` is on disk, `approved` in memory, `call` the requests that run side by
side; `approve` awaits the presence prompt, `spend` its preparation and then the act.
`acts` and `vouched` are history.

### TrustAuthority, OwnerTrust (`identity/owner-decision-trust.mjs`)

| Variable | Code |
|---|---|
| `records` | the linked record files, namespace first |
| `audit`, `torn` | the audit file's lines; whether it ends in half a line |
| `confirmed` | records whose confirmation is linked |
| `pending` | the file under the pending name: which part of which record, empty, partial, whole or linked |
| `holder` | the operation that holds the exclusive lock, with what it is publishing |
| `seen` | what each owner last observed, which a write must name |
| `vouch` | the daemon's own key, replaced by a program that does not take this lock |

Every file is written under the pending name, linked to its final name and unlinked; each
of the three is a step, and the holder may be interrupted after any. `TrustAuthority`
has only `pin`, the pair and version a reader is told, and `used`, the versions ever
granted; the mapping is `Vouched`, and `used` is read off the settled records.

### DecisionJournal (`identity/owner-decision-journal-store.mjs`, `owner-decision-effect-gate.mjs`, `owner-decision-computer-use.mjs`, `owner-decision-reconcile.mjs`, `agent-population.mjs`)

| Variable | Code |
|---|---|
| `dir`, `slot` | a request's directory, and what each of its eleven slots holds: nothing, half a record, damaged bytes, a record |
| `saved` | what its records say: operation, wanted value, trust version |
| `census`, `events` | the soul's computer use in the population file; revisions that the revision journal records |
| `run`, `poisoned` | what each store's caller is doing; stores that refuse until reopened |
| `pin`, `used` | from `TrustAuthority` |
| `ran`, `steady` | history: effects carried out; requests whose pin was not withdrawn since they were prepared |

What a request has come to is derived (`Phase`) as `readGraph` derives it. An operation
publishes one or two slots (`One` and `Two` give every state a crash or a
failing write leaves), and is a single step under the journal's lock. The entry is up to three:
it reads the trust store and the census, which have locks of their own, and then writes.

### DreamScheduler (`skill-dream-scheduler.mjs`, `skill-dream-store.mjs`, `skill-dream-service.mjs`, `skill-dream-notices.mjs`, `process-ownership.mjs`)

| Variable | Code |
|---|---|
| `reg`, `flight` | in the newest journal record: a soul's registration, its unsettled run |
| `noticed` | souls with a recovery notice |
| `started`, `ended` | history: what each run was started as, how it ended |
| `up`, `stale`, `frozen` | daemons; those another writer has passed; those that retain a fault |
| `live`, `reaping` | a daemon's `#live` runs; orphans it is terminating |
| `asked`, `turn` | why a run's controller was aborted; how far its executor is |
| `alive` | runs whose agent's process group exists |

The journal is a chain of records of the whole state; a commit is a hard link that fails
if another writer was first. Each commit has three outcomes (`Commits`): acknowledged,
refused, or published without its writer being told; the last two freeze the daemon. A
timer that cannot be installed after a commit is the last. The test
`run.daemonGeneration === daemonGeneration` in `recover` is never true, as recovery runs
only at the start of a daemon.

### Keyd (`keyd/src/server.rs`, `store.rs`, `grant.rs`, `consent.rs`, `presence.rs`, `pins.rs`, `statement.rs`)

| Variable | Code |
|---|---|
| `item` | the Keychain: pin, record of the owner's statement keys, two seeds, one soul key, one App key, one cached token |
| `alien` | items keyd finds it does not control (pin and owner record only) |
| `registry`, `conn`, `gone` | the table of connections, least recently active first; how far each is; those whose client hung up |
| `work` | each connection's thread: request, stage, and what it read: clock, pin, record, seeds |
| `ownerLock` | who holds `owner_lock` |
| `seen` | `Replay`: nonces spent and not yet forgotten, kept for the life of the process |
| `clock`, `budget` | seconds as the grants count them; what is left of each bound |
| `spent`, `handed`, `attested` | history: passes of each grant; seeds answered with; records attested. `era` in a record counts its restarts |

A connection is a thread. Connections are numbered in the order they are accepted.
Replacing an item keyd does not control is a delete and then a create, two visits of
`WritePin` or `RaiseRecord`. A `remove` whose eviction fails goes on to delete. A key may
appear from outside while the owner is asked, as in the test
`create_only_app_import_refuses_an_item_added_during_consent`.

### CredentialLedger (`identity/action-ledger.mjs`, `identity/server-client.mjs`)

| Variable | Code |
|---|---|
| `ledger` | the state of each operation's record, in the directory or its archive |
| `issuance` | the identity service: what became of the operation, `held` while it does not know itself |
| `call` | each mint and each reconcile command: place, the operation in hand, the last answer |
| `todo` | operations listed as unknown and not yet settled by this call |
| `sent` | history: operations requested at least once |
| `doubted` | history: operations whose mint ended on an answer that it could not believe or record |
| `faults` | what is left of the bound on lost requests, lost and garbled answers, failing writes and deaths |

The requests are those of one task, harness and repository; only these wait for each
other. The daemon gives each request a new operation id (`identity/identity-routes.mjs:310`),
so an operation is named by its mint. A mint's steps are what it does between two awaits;
a `transition` that settles an operation is two steps, the check and the rename (`Settles`,
`RenameSucceeded`, `RenameRejected`), between which only another process may act
(`MayStep`). A reconcile command is a process of its own, also when the web page starts it.
A request fails in two ways. It is ambiguous (`failed`) when the request or its answer is
lost; such a record becomes `unknown` and is looked up. Every other error ends in
`rejected`: an answer by the service that refuses, and one that comes but does not verify,
is not JSON or names another operation (`garbled`; 724, 726-727, 825-827), behind which a
credential may have been issued. A write that fails leaves the record as it was
(`WriteFails`, `RenameFails`); when it was to record a credential, the error is taken for the
request's and the operation is recorded as rejected (907-914). The service is external: it mints once per operation, answers a second request with the
same issuance while it lives and with a conflict after, and refuses new operations while
it holds one of the task as unknown.

## 4. What each run checks

| Run | Instance | What it shows |
|---|---|---|
| `lock` | 2 processes, 2 inodes, 2 calls each, deaths anywhere, also in the mutex | `MutualExclusion` and `ReclaimedOnlyFromGone` while operations outlast the window under `keepLiveOwners`; `CrashedOwnerIsReclaimed`: what a dead process left does not block a waiter that goes on trying |
| `interaction` | 1 invocation, 2 proposals, askers of all three kinds, 2 deaths, 1 throwing write | `ImplementsJobService`; `ExecutorStartsOnce`; `NothingStranded`; `ApprovalReachesLiveExecution`; `SubmittedEnds` |
| `interaction_restart` | 1 invocation, a cold turn's proposal, 1 death | violated: section 7 |
| `wake` | three courses: a message and 2 owner replies, 1 failing call, 1 re-pair, 1 request to the owner; a message and a task, 2 failing calls, 1 re-pair, 1 pause, 1 restart; the same mail, all settings, 1 failing call, and one each of pause, change of setting, warm session | `NothingLost`, `HandedOnce`, `AnsweredOnce`, `PausedStartsNothing`, `OwnerIsHeard`, `WakesAreReported` |
| `wake_merged` | 2 messages, nothing fails | violated: section 7 |
| `owner_controls` | 2 wakes, 1 interactive turn, 2 sessions, 2 tools; 1 request, 2 stores, 1 pair of keys, 4 versions, 2 faults | `PausedMeansStopping`, `ComputerUseOffStops`, `BusyUntilSettled`, `GrantedUnderItsLease`; `JournalIsTrue` (the outcomes it states are so, and it can read back what it wrote), `OverIsOver`, `SetsWhatTheOwnerSaw`, `EntersUnderItsTrust` |
| `owner_authority` | 3 keys, 2 owners, 5 versions, 2 interruptions, 1 new daemon key; 2 grants, 3 requests side by side | `ImplementsTrustAuthority`; `ReadsBack`: what is unfinished is told to nobody and no file contradicts another; `RepairableIsRepaired`; `SpentOnce`, `ActsOnlyOnLiveGrants` |
| `dreams` | 2 daemons, 1 soul, 2 runs, 2 changes of registration, 1 lost commit, 2 boots | `LeaseHolds`, `ResultsKeepToTheirRegistration`, `QuarantineIsNoticed`, `EndsAreTrue`, `AttemptIsSettled` |
| `keyd` | 3 connections to the souls' socket and 2 to the owner's, capacities 2, 3 grants, 2 daemon keys, 2 sets of statement keys, 2 ticks, eight starts | `OnceWhileAlive`, `OneSeed`, `AttestationsAgree`, `ReplacesWhatWasAsked`, `ClaimedIsAnswered` |
| `keyd_spent_once` | 2 connections, 3 grants, 1 tick | violated: section 7 |
| `credentials` | two courses: 2 mints, a reconcile command, 3 faults; 3 mints, 1 fault | `NeverSentBlind`, `SettledAsItWas`, `SettledForGood` |
| `credential_lost` | 2 mints, 1 fault | violated: section 7 |

`owner_controls` and `owner_authority` each check two components that share no state:
`TurnRegistry` with `DecisionJournal`, since no route leads from a decision to the registry
yet, and `OwnerTrust` with `GrantLedger`. Their next-state relation lets one move while the
other is as it starts, so that each is explored in full and not once for every state of the
other; nothing is shown about them together that is not shown of each.

Type invariants are proved (section 6), and the runs check none. Every property is shown to depend on the
code: for each there is a changed definition, in the module beside the one it replaces
and marked as a seeded bug, under which TLC finds the property violated on the same
instance (`PROJECT.json`, "mutants").

## 5. Bounds and fairness

**Bounds.** `MaxCalls`, `MaxCrashes`, `MaxFaults`, `MaxChanges`, `MaxBoots`,
`MaxRotations`, `MaxClock`, `Courses` and the members of `budget` limit how often the environment
acts; no bound limits the code, except where the code has one of its own (`Versions`,
`Limit`, the capacities of keyd's sockets), which is made small enough to be reached.

* `lock`: two inodes suffice for a reclaimer to find its directory replaced by another
  one, and an inode number used again. Two processes, one of which may die holding the
  mutex, show what the code promises for that case; with three, two collectors may both
  be inside (section 7). Larger numbers are covered by the proof, under its assumptions.
* `interaction`: two deaths, which may come at any time, let the second interrupt the
  recovery from the first. Two proposals let a proposal that has just been settled meet
  one that is open. Invocations share nothing but the daemon's life, so one is enough for
  TLC; the proofs have any number.
* `wake`: two failing calls are needed for an ack that fails and a retry that fails too.
  Two owner replies and a kept map of two show the reading of one reply by loop and scans;
  with fewer kept than unacked, `HandedOnce` does not hold and the code does not promise it.
  The course in which a turn asks has no pause, no change of setting and no warm session,
  since with them the code does not bring the reply to the turn (section 7).
* `owner_controls`, the turns: two wakes are the least at which the registry's set of controllers matters, and
  an interactive turn with them mixes both kinds.
* `owner_authority`, the trust: with five versions the last one can be reached by an enrollment, which
  the store must refuse; three keys make two pairs that share one. Two interruptions let a
  repair be interrupted.
* `owner_authority`, the grants: three requests let two prepare one grant while a third
  approves or spends the other.
* `owner_controls`, the decisions: the properties are about one request; another reaches it only through the
  census, the trust store and the limit on requests, which the model lets change freely.
  Four versions let the same pair be revoked and granted again.
* `dreams`: two runs and two generations are what a result and a foreign registration need;
  two boots let the second daemon recover what the first left. A crash during that
  recovery and a third boot is covered by the proof, as are platforms that cannot tell who
  owns a process group (`Groups = FALSE`).
* `keyd`: `Starts` names eight Keychains, each with the budget for one kind of mishap: two
  owner requests at once; an item keyd loses control of; a key that appears during a
  prompt; grants that lapse, spent in turn or two at a time; a full socket; a death; owner
  and soul together. A tick may come whatever a call is doing. `keyd_spent_once` has only
  the start in which a grant lapses while two calls are at work.
* `credentials`: one mint leaves an operation unknown, two others settle it side by side;
  with a reconcile command a third party does. Three faults lose or garble the request, the
  lookup and the replay in turn, or let a write fail or a process die in between. The proofs
  have any number.

**Deadlock.** The runs of `ColdWake` and `CredentialLedger` check for it: all quiet is a
stuttering step of its own (`Rests`), so that any other state without a step is an error. In the other
modules the system may stop: clients need not call again.

**Symmetry** is used in safety runs only: over wakes, sessions and stores, over the mints that are alike in every course.

**Fairness.** It is weak throughout, and stated only for what the runtime carries on by itself.

* `FileLock`: a process that is in `withLock` goes on (it polls in a loop, 216-247),
  and both windows pass. Nobody must call, time out or die.
* `InteractionService`: an executor or an admission check settles; a timer set with
  `setTimeout` fires (311, 874); a dead daemon is started again (the service manager
  restarts it). Nobody must submit, decide or cancel.
* `ColdWake`: the dispatcher, the readers and the flight's own steps are callbacks
  or child processes with a timeout. A *turn* need not end, and the owner need not
  answer: the liveness properties hold although it never does.
* `OwnerTrust`: whoever holds the lock goes on (synchronous code), and an owner whose store
  reads as repairable runs `reconcile` again.
* `DreamScheduler`: one weak fairness for each daemon and run, on the steps its executor,
  its timers and its completion take. Nothing is assumed of owners, boots or orphans.
* `Keyd`: a thread that has a request goes on. A prompt ends in an answer or after 120
  seconds; what GitHub does not answer times out.

## 6. What is proved

All theorems are for every value of the constants: any number of processes, inodes,
invocations, proposals, messages, wakes, flights, turns, sessions, tools, grants, requests,
keys, owners, versions, daemons, souls, connections, mints and reconcile commands, and any
bounds on faults. Every invariant and every action property a passing run checks is the
statement of a theorem.
Beside the assumptions on constants that the modules declare, only `FileLockProofs`
assumes something, as said there.

**FileLockProofs**: `Exclusion` (`MutualExclusion`), `HolderKeeps`, `ReclaimIsSound`
(`ReclaimedOnlyFromGone`, and that a rename takes the directory that was inspected),
assuming `Timely`: whoever stamps a new directory or holds the mutex leaves that
phase within the window, nobody dies holding the mutex, and an operation may outlast
the window only under `keepLiveOwners`. `TypeCorrect` needs no assumption. The code
relies on exactly this (comments at 22-36 and 149-152). Mutual exclusion is not
inductive. The invariant adds that the mutex has one holder and is never collected
(`MutexInv`), that a call that stamps or owns sees its own directory (`HoldInv`),
that directories were made by calls that have got that far (`MakerInv`), and that what
a reclaimer found under the mutex is still so when it renames (`ReclaimInv`); the last
is where all the others are needed.

**InteractionServiceProofs**: `TypeCorrect`, `StartsOnce`, `ApprovalsAreStored`,
`ReportsAreTrue`, `Implements`, for any number of deaths and throwing writes. A handler
can be cut after any write, so the argument is about single writes: `Evolves(s, t)` says
what a write may do to the store; each kind of write does (`JobWrite`, `EventWrite`,
`PayloadWrite`, `ProposalWrite`); `Evolves` is transitive, hence holds of every prefix of
every handler (`StepEvolves`). The start counts need in addition that a job that runs was
dispatched (`RunInv`) and that a start comes after the admission (`StartInv`). `Implements`
says that the service implements `JobService`: phases, reports and verdicts move as
`Evolves` lets them, and an answer needs that what an asker was told is what its proposal
says (`ApprovalsAreStored`).
`NobodyStranded` (`NothingStranded`) and `ApprovalsReachTheLiving`
(`ApprovalReachesLiveExecution`) relate the store to the daemon's memory, and hold while it
serves. That every job that is not over has an execution, and every job that waits for an
approval an open proposal to wait on, is true at the end of a handler and not between its
writes; `Tended` states it of any store and memory, and each handler is shown to end in a state
that is tended. A handler that threw may leave one that is not, hence `faults = 0`. A daemon
that does not serve has nothing in memory (`Memory`), only jobs that are being cancelled or are
over were aborted (`AbortInv`), and a proposal names only a job that was dispatched (`Placed`).
An approval reaches a living execution because only a decision approves
(`OnlyDecisionApproves`) and a daemon that decides serves a store that is tended.

**ColdWakeProofs**: `TypeCorrect`, `MailIsKept` (`NothingLost`), `RepliesHandedOnce`
(`HandedOnce`), `TurnsRunOnce` (`AnsweredOnce`), `PauseHolds` (`PausedStartsNothing`), for any
mail, any number of scans beside the loop, any mishaps and restarts. The properties are about
sets of messages and counters; inductive is where a message can be. What a reader has in hand
to ack was dealt with before, by this reader or another that marked it (`HandInv`, `TakenInv`),
and the message that the loop acks is done (`LoopInv`); so an ack loses nothing. A reply was
handed over as often as it is marked (`HandedInv`): a mark is evicted only from a map that is
full, and since marks are distinct replies, a map that keeps as many as there are is never full
when another reply comes (`MarksFit`, by counting). A message whose turn has run is
about to be acked or has left both the inbox and the batch (`AnsweredInv`), which needs that
each of the two holds a message once (`BoxInv`, `BatchInv`). `PausedStartsNothing` needs only the
step.

**OwnerAuthorityProofs** has three parts, which share no state.
*Turns*: `PauseHolds`, `SwitchHolds`, `BusyIsTrue`, `GrantsKeepToTheirLease`. What is not
inductive: that a paused soul's running turns are stopped needs the same of turns that wait for
verification (`PastCheckIsStopped`), which needs every live turn to be tracked
(`LiveIsTracked`); that switching computer use off reaches those that acted needs them all to
be shown (`ActedIsShown`).
*Grants*: `SpendsOnce`, `MemoryIsBacked`, `ActsAreLive`. A grant is spent once because what is
remembered has not been spent (`RememberedIsUnspent`), and only what was approved on disk,
which happens once, was ever spent (`SpentWasApproved`).
*The chain of trust*: `TrustTypeCorrect`, `TrustReadsBack` (`ReadsBack`), `TrustPromiseKept`
(`ImplementsTrustAuthority`), for any keys, owners and number of versions; the constants assume
that `None` is no key and no owner. The invariant describes a store that may have been
left anywhere in a publication: what the records say in order, and that all but the last
are confirmed (`ChainInv`); which part of which record the pending file can hold, as far as the
chain has come (`PendingInv`); where the one owner with the lock is, seen from those files
(`HolderInv`); that an audit file ends in half a line only while its record is unconfirmed
(`TornInv`). The refinement then goes step by step: a pair is granted when the pending name of its
enrollment's confirmation is removed, and withdrawn when the first file of the next record
appears; every other file operation changes nothing that a reader is told. The version is
new because the confirmed records number the versions granted before it.

**DreamSchedulerProofs**: `TypeCorrect`, `AgentsHoldTheirSouls` (`LeaseHolds`),
`ResultsKeep`, `QuarantineTold`, `EndsTrue`. That an agent that lives works for its soul's
run in flight is not inductive, as processes, daemons and journal know different things.
The invariant says that a run in flight was started for that soul and is open
(`FlightInv`), that a run not yet started has left no trace (`UnstartedInv`), that one
daemon drives a run, and is up (`LiveInv`), that an agent exists only for a run in flight,
after its preparation, and that its group is on record once it was recorded (`AgentInv`),
that a daemon which may still write aborts for the reason the journal has (`ReasonInv`),
and that a registration is not older than it claims (`RowInv`). A crash or a lost commit
breaks what daemons remember, never what the journal says, which is why each part is
stated from the journal.

**KeydProofs**: `TypeCorrect`, `SeedsAreOne` (`OneSeed`), `AttestationsAgreeAlways`
(`AttestationsAgree`), `ApprovalsReplaceWhatWasAsked` (`ReplacesWhatWasAsked`), and
`SpendsOnceWhileAlive` (`OnceWhileAlive`), for any connections, capacities, grants and
Keychains to start from; of the Keychains the constants assume that a record of generation 0 names no keys. `Progresses` and
`Changes` say what one step of a handler does to its thread and to the Keychain, so that an
argument need not visit every stage of every request. `Placed` keeps a thread at stages of
its request, and `LockHeld` gives a request that locks the owner's lock from its second
stage on; both are needed by all the rest. `SeedInv`: a seed that a thread holds is the
stored one. `BaseInv`: until a record is raised it is the one the approval was asked about;
`KnownInv`: all records that threads or attestations know lie on one history, ordered by
generation and by how often the item was replaced, and that ends in the stored record.
`PinInv`: who is about to write a pin read what is still there. `NowInv` and
`SpentInv`: no call has read a later clock than there is, so that a nonce is forgotten only
when its grant is over, and a spent grant is remembered or over. `SocketsHold` and `AnswersAreRead` are about the sockets: no more connections than
the capacity (`WithinCapacity`, by counting), each once, and a connection that is being answered
always has a place (`PlaceInv`), as newcomers take only the places of idle ones. So an answer is
read unless the client hung up, which is what `ClaimedIsAnswered` needs beside fairness. No run
lists these two; TLC checked both on the instance of `keyd`.

**CredentialLedgerProofs**: `Types`, `Settling` (`SettledAsItWas`), `NoBlindRetry`
(`NeverSentBlind`), `Finality` (`SettledForGood`). That a record tells the truth is not
inductive, as what is written was heard from the service before an await. The invariant
says that a mint in its own part of `mintRecorded` has its record to itself (`Own`), that
others have in hand only what is or has been unknown (`Waited`, `Heard`), and that what a
call has heard of an operation, and can act on, is still so (`Heard`): an issuance only expires, a `none`
stays one because nobody sends the operation any more. `Finality` needs, while no reconcile
command has run, that a call about to rename still finds what it checked (`Checked`), for
which no other call of the daemon may take a step in between.

**DecisionJournalProofs**: `TypeCorrect`, `JournalTruth` (`JournalIsTrue`), `OverStaysOver`
(`OverIsOver`), `SetsAsSeen` (`SetsWhatTheOwnerSaw`), `TrustedEntry`
(`EntersUnderItsTrust`), for any requests, stores, key pairs, versions and interruptions.
As phases are derived, the invariant is about slots and callers. `Ordered`: slots are
written one after the other, an entry only over a check and no refusal, so that a slot which
is torn has nothing after it that would be misread. `Told`: an effect comes after the entry,
and whatever says it was completed after the effect. `Placed` and `Apart`: a caller's request
is as far as the caller has it, and no two have one effect in hand, are both verified, or
both hold the census; needed because what a caller learnt is used steps later. `Trusted`: a
version is granted once, so that a request with the version pinned now was prepared since
that grant. `Publishes` says what operations that only write slots have in common: they take
the lock that a verified caller holds, and so disturb no other. The last three theorems
are about steps, and use the invariant at the step's start; `Minds` says of every step
which entries and refusals it may touch.

**Only model-checked**: liveness (`CrashedOwnerIsReclaimed`, `SubmittedEnds`,
`OwnerIsHeard`, `WakesAreReported`, `RepairableIsRepaired`,
`AttemptIsSettled`, `ClaimedIsAnswered`), which TLAPS cannot prove under fairness. Queues that
are filtered are written with positions (`SelectInSeq`, `RemoveFirst`, `RemoveAt`) and not with
`SelectSeq`, whose definition the provers cannot expand; of distinct elements both say the same.

## 7. Where the code and its documentation part

Checked by a run:

* `interaction_restart`. `recoverInteractionStore` looks up the invocation of every
  open proposal (`agent-jobs.mjs:1004`). A proposal of a cold turn, of an owner
  operation or of a delegation grant has none, the lookup throws on `null`, and the
  daemon does not start while that proposal is open on disk.
* `wake_merged`. `cold-wake.mjs:240-241` says that messages that merge into a flight
  are answered before it lands. A message that arrives after the broker answered the
  last, empty, read and whose wake merges before the flight landed is not read; it
  stays unacked until the soul's next wake.
* `keyd_spent_once`. `docs/keyd-protocol.md:720` says that keyd spends each grant nonce once.
  `call_tool` reads the clock (`server.rs:152`), then the pin, waits for the lock of the
  nonces and verifies with that reading (171). The grant passes in one call while it is
  alive; the clock reaches its end; the spend of a third call drops the nonce
  (`grant.rs:86`); the first call, whose reading is older, finds the grant neither lapsed nor
  spent, and it passes again. That the clock crosses the second of the grant's end is enough. What
  holds, and is checked and proved, is that it passes once while it is alive
  (`OnceWhileAlive`).
* `credential_lost`. `server-client.mjs:893-896` ends: "so a lost credential is never followed
  by a second mint". An answer that comes but does not verify is recorded as `rejected`
  (912-914) although its credential may be live, and the next request for the same task
  looks up only what is `unknown`. `SettledAsItWas` excepts these operations.

Seen while modelling, without a run of its own:

* `file-lock.mjs:36`: a live owner that stalls past the window between `mkdir` (218)
  and the stamp (239) is reclaimed from, as an unstamped directory is judged by age
  alone.
* `file-lock.mjs:33` and `199`: when a process dies holding the mutex, two that collect it
  may both be inside; the comment at 149-152 grants this.
* `cold-wake.mjs:136-138`: an owner reply is decided once, but may be acked twice.
* `cold-wake.mjs:13-15` (a reply is taken "also while the turn that asked is still waiting"): a warm session, a pause or a switched-off setting sends the owner's
  reply past the flight that waits for it.
* `README.md:1170` says that a turn that ends first is a deny. When a wake's turn settles
  its controller is dropped without aborting (`turn-registry.mjs:71`), its request stays
  answerable, and an approval then adds to the session's grants though the turn has ended.
* `docs/keyd-protocol.md:679`: a cached token is looked up before `keyScope` chooses the
  item (`server.rs:216-262`).
* `CHANGELOG.md:7`: a mint that is in flight while the owner removes the soul's key puts its
  token into the cache after `remove` evicted it.
* `server.rs:655-656` says that a status read sees either generation of the owner's record.
  While a record keyd does not control is being replaced, which is a delete and a create, it
  may see none.

* `server-client.mjs:893-896`, again: a daemon that dies after an operation is recorded as submitted (906) leaves it so for ever,
  since only unknown operations are listed (897, 971); a credential may be out and the next
  mint goes ahead.
* `docs/server-mode.md:120`: an operation that becomes unknown while a new one settles
  earlier ones was not in its list, and is not waited for. The service refuses the new one
  only while it holds the outcome itself.
* `server-client.mjs:887`: "never overwritten". The record of the operation is looked up
  before awaits and written after them. The daemon never uses an id twice at a time.
* `action-ledger.mjs:49`: "nothing moves past them". Two processes check and then rename: a
  reconcile command and a mint that both replay an operation, one before and one after its
  credential expires, may overwrite `succeeded` with `rejected` or the reverse.
* `server-client.mjs:966` names the daemon's start as a caller; only the command calls it.

## 8. What is not modelled

* Text, formats, receipts, logs, diagnostics, digests, payload contents, attachments,
  listings and pruning of the stores.
* In the interaction service: sessions, and the outcomes of owner operations that
  the daemon keeps for its routes.
* In the dispatcher: wakes of more than 512 messages, dispatched in chunks. In the
  cold waker: several souls, which share nothing there.
* In the permission path: the policy's own rules (a tool is asked about or it is not),
  output limits, usage.
* In the trust store and the journal: the legacy presence key, file custody, expiry times,
  the scratch and local-outcome slots (nothing writes them yet), durability beyond what a
  flush promises. A revocation between an entry's verification of its trust and its write is
  possible and is not seen by the entry: `EntersUnderItsTrust` speaks of the verification.
  Readers may be refused for reasons of their own, which changes nothing.
* In dreams: a fault of the recovery notice, which `recoveryNotice` swallows
  (`skill-dream-scheduler.mjs:739`). It is derived from a journal that was validated when it
  was loaded (219) and a clock reading that was (475), and has its place: a host kind has at
  most one live notice, and 13 claims with the 4 host kinds are what a soul may hold
  (`skill-dream-notices.mjs:14`, 52-53). Also due times, notices of outcomes, what an outcome contains, previews, processing
  checkpoints, migration of old journals.
* In keyd: the read-only `owner/status` and app status, imports of several items,
  cryptography, the relay, audit receipts, two keyds that start at once and race for the
  socket, several scopes of the token cache. The clock is taken not to be set back.
* In the ledger and the identity service's client: compaction into the archive, access
  tokens, enrollment, soul tokens, the other calls; a renamed record is taken to survive a
  crash, and an unsigned 503 to say that the request was not handled, as the code does (719).
* The task reporter, the cold-wake settings store, soul revisions and
  migrations, the comms client and the supervisor: planned, section 9.
* Sequential, or mostly input and output: configuration, population, environments,
  worktrees, homes, profiles, packages, skill library, policies, readiness, workflows,
  web page, Telegram, command line, hooks, installation, update, sandbox.
* Cryptography, presence prompts, GitHub and the broker itself: external; their answers
  are inputs.
* The models cover the components in which processes, threads, callbacks or crashes meet.
  Most of the repository's lines are in components that are sequential, as listed above,
  and in the text, parsing and formats of the modelled ones.

## 9. Plan

Written, in this order: `FileLock`, since every store rests on it; `InteractionService`,
the core of the daemon; `ColdWake`; `TurnRegistry`; `GrantLedger`; their first proofs;
`JobService` and its refinement; `TrustAuthority`, `OwnerTrust` and
`DecisionJournal` with its proofs; `DreamScheduler` with its proofs; `Keyd` with its proofs;
`CredentialLedger` with its proofs; the proofs of `ColdWake`, of `OwnerTrust`, of what
`InteractionService` keeps between store and memory, and of keyd's sockets.

Next:

1. `TaskReporter`: records that outlive a death. `CredentialLedger` with the compaction of
   its records and a daemon that starts again over submitted ones.
2. `WakeSettings`: a change over two files under the lock, with the snapshot the cold
   waker takes.
3. `Revisions`: staged publication and migration, resumed after a death.
4. The comms client's cursor and window, and the supervisor.

Theorems worth proving next: that `DecisionJournal` may rest on `OwnerTrust` in place of
`TrustAuthority`, that is, that its entries see the pair that the files vouch for; what the
liveness properties need beside fairness, as `AnswersAreRead` is for keyd: that a wake in
flight always has a step that brings it nearer to its report, and that an attempt in flight has
a timer, an executor or a completion; that a reported turn was started and is reported ended (1).
