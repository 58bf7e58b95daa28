--------------------------- MODULE CredentialLedger ---------------------------
(***************************************************************************)
(* The action ledger of credential requests (identity/action-ledger.mjs)   *)
(* and the client of the identity service that keeps it                    *)
(* (identity/server-client.mjs: mintRecorded, reconcileCredential,         *)
(* reconcilePendingCredentials), for the requests of one task, harness and *)
(* repository; others share nothing with them.  The daemon gives each      *)
(* request an operation of its own, so an operation is named by its mint.  *)
(*                                                                         *)
(* Mints run side by side in the daemon, a step being what runs between    *)
(* two awaits.  `agent-bot server reconcile` is a process of its own: the  *)
(* daemon may take steps between its read of a record and the rename that  *)
(* replaces it, and it may between the daemon's.                           *)
(*                                                                         *)
(* A request that failed at the client has been handled by the service, or *)
(* never will be.  Settled records that compaction moves to the archive    *)
(* are still read there.                                                   *)
(***************************************************************************)
EXTENDS Naturals

CONSTANTS
  Mint,       \* credential requests
  Pass,       \* runs of the reconcile command
  NoOperation,
  Courses     \* bounds: the calls that come, and how many requests, answers,
              \* writes and processes fail

Call == Mint \cup Pass

ASSUME CallAssumption == Mint \cap Pass = {} /\ NoOperation \notin Call

ASSUME CourseAssumption == Courses \subseteq [calls : SUBSET Call, faults : Nat]

VARIABLES
  ledger,    \* the state of each operation's record
  issuance,  \* what became of each operation at the identity service
  call,      \* where each call is, its operation, what the service said of it
  todo,      \* operations a call has still to settle
  faults,    \* what is left of the course's
  sent,      \* history: operations requested at least once
  doubted    \* history: operations whose mint ended on an answer that it
             \* could not believe, or could not record

vars == <<ledger, issuance, call, todo, faults, sent, doubted>>
kept == <<ledger, sent, doubted>>

Terminal == {"succeeded", "rejected"}
States   == {"absent", "prepared", "submitted", "unknown"} \cup Terminal
Outcomes == {"none", "held", "issued", "expired"}
Places   == {"never", "idle", "settling", "prepared", "sending", "answered",
             "looking", "found", "replaying", "replayed", "succeeding", "rejecting",
             "done", "dead"}
Answers  == Outcomes \cup {"refused", "conflict", "failed", "garbled", "nothing"}

\* A call that has no operation in hand.
Left(place) == [at |-> place, op |-> NoOperation, said |-> "nothing"]

Init ==
  /\ ledger = [m \in Mint |-> "absent"]
  /\ issuance = [m \in Mint |-> "none"]
  /\ todo = [c \in Call |-> {}]
  /\ \E course \in Courses :
       /\ call = [c \in Call |-> Left(IF c \in course.calls THEN "idle" ELSE "never")]
       /\ faults = course.faults
  /\ sent = {} /\ doubted = {}

Writing == {"succeeding", "rejecting"}

\* A write of the daemon's is one synchronous block: none of its other calls
\* takes a step between the read and the rename.
MayStep(c) == c \in Mint => \A m \in Mint \ {c} : call[m].at \notin Writing

At(c, place) == call[c].at = place /\ MayStep(c)
Takes(c, place, o) == call' = [call EXCEPT ![c] = [at |-> place, op |-> o, said |-> "nothing"]]
Goes(c, place) == Takes(c, place, call[c].op)
Leaves(c, place) == call' = [call EXCEPT ![c] = Left(place)]
Hears(c, place, answer) ==
  call' = [call EXCEPT ![c] = [at |-> place, op |-> call[c].op, said |-> answer]]
Records(o, state) == ledger' = [ledger EXCEPT ![o] = state]
Fault == faults > 0 /\ faults' = faults - 1

Unknown == {m \in Mint : ledger[m] = "unknown"}

-----------------------------------------------------------------------------
(* The identity service (external). *)

\* A request for operation o is handled: the first mints, or is refused, or
\* leaves an outcome that is held unknown; a later one is told the same.
\* While an outcome of the task is held, new operations are refused.
Handles(o, answer) ==
  \/ /\ issuance[o] = "none" /\ answer \in {"issued", "held"}
     /\ \A m \in Mint : issuance[m] # "held"
     /\ issuance' = [issuance EXCEPT ![o] = answer]
  \/ answer = "refused" /\ UNCHANGED issuance
  \/ issuance[o] \in {"issued", "held"} /\ answer = issuance[o] /\ UNCHANGED issuance
  \/ issuance[o] = "expired" /\ answer = "conflict" /\ UNCHANGED issuance

\* A credential expires.
Expire(o) ==
  /\ issuance[o] = "issued"
  /\ issuance' = [issuance EXCEPT ![o] = "expired"]
  /\ UNCHANGED <<kept, call, todo, faults>>

\* The service's hold on an outcome ends.
HoldEnds(o) ==
  /\ issuance[o] = "held"
  /\ \E outcome \in {"none", "issued"} : issuance' = [issuance EXCEPT ![o] = outcome]
  /\ UNCHANGED <<kept, call, todo, faults>>

\* ServerSession.call: c requests operation o.  A request or an answer that
\* is lost is ambiguous ("failed").  One that comes, but whose signature does
\* not verify, that is not JSON, or that names another operation is an error
\* like any other ("garbled"); so is a connection that was not made.
Requests(c, o, next) ==
  /\ \E answer \in Answers :
       /\ Handles(o, answer)
       /\ \/ Hears(c, next, answer) /\ UNCHANGED faults
          \/ \E error \in {"failed", "garbled"} : Hears(c, next, error) /\ Fault
  /\ sent' = sent \cup {o}
  /\ UNCHANGED <<ledger, todo, doubted>>

\* It never came there; what answers, if anything, is something between.
NeverSent(c, next) ==
  /\ \E answer \in {"refused", "failed", "garbled"} : Hears(c, next, answer)
  /\ Fault
  /\ UNCHANGED <<kept, issuance, todo>>

-----------------------------------------------------------------------------
(* mintRecorded. *)

\* The operation is new; those of its request that are unknown are listed.
Begin(m) ==
  /\ At(m, "idle")
  /\ Leaves(m, "settling")
  /\ todo' = [todo EXCEPT ![m] = Unknown]
  /\ UNCHANGED <<kept, issuance, faults>>

\* All it listed are settled: it is recorded, and recorded as submitted.
Prepare(m) ==
  /\ At(m, "settling") /\ todo[m] = {}
  /\ Takes(m, "prepared", m) /\ Records(m, "prepared")
  /\ UNCHANGED <<issuance, todo, faults, sent, doubted>>

Submit(m) ==
  /\ At(m, "prepared")
  /\ Goes(m, "sending") /\ Records(m, "submitted")
  /\ UNCHANGED <<issuance, todo, faults, sent, doubted>>

Send(m) ==
  /\ At(m, "sending")
  /\ (Requests(m, m, "answered") \/ NeverSent(m, "answered"))

\* Its own record is not written by another call until it is unknown.
RecordIssued(m) ==
  /\ At(m, "answered") /\ call[m].said = "issued"
  /\ Leaves(m, "done") /\ Records(m, "succeeded")
  /\ UNCHANGED <<issuance, todo, faults, sent, doubted>>

\* Every error that is not ambiguous is taken for a refusal.
RecordRefused(m) ==
  /\ At(m, "answered") /\ call[m].said \in {"refused", "conflict", "garbled"}
  /\ Leaves(m, "done") /\ Records(m, "rejected")
  /\ doubted' = IF call[m].said = "garbled" THEN doubted \cup {m} ELSE doubted
  /\ UNCHANGED <<issuance, todo, faults, sent>>

\* Seeded bug: an ambiguous request is sent again, and again.
SendAgain(m) ==
  /\ At(m, "answered") /\ call[m].said \in {"held", "failed"}
  /\ Goes(m, "sending")
  /\ UNCHANGED <<kept, issuance, todo, faults>>

\* An ambiguous outcome is recorded, and looked up at once.
RecordUnknown(m) ==
  /\ At(m, "answered") /\ call[m].said \in {"held", "failed"}
  /\ Goes(m, "looking") /\ Records(m, "unknown")
  /\ UNCHANGED <<issuance, todo, faults, sent, doubted>>

\* A write of its record fails: the error ends the mint, and the record stays
\* as it is; when an issued credential was to be recorded, the error is taken
\* for the request's.
WriteFails(m) ==
  /\ \/ At(m, "settling") /\ todo[m] = {} /\ Leaves(m, "done")
     \/ At(m, "prepared") /\ Leaves(m, "done")
     \/ At(m, "answered") /\ call[m].said # "issued" /\ Leaves(m, "done")
     \/ At(m, "answered") /\ call[m].said = "issued" /\ Hears(m, "answered", "garbled")
  /\ Fault
  /\ UNCHANGED <<kept, issuance, todo>>

-----------------------------------------------------------------------------
(* reconcileCredential, of the call's own operation, of one a mint waits   *)
(* for, or of one a pass has listed.                                       *)

\* Its error: an own operation, or one still not settled, fails the mint; a
\* pass goes on to the next, unless the device turns out to be revoked.
Fails(c) ==
  LET settled == call[c].op # c /\ ledger'[call[c].op] = "rejected"
  IN \/ (c \in Pass \/ settled) /\ Leaves(c, "settling") /\ UNCHANGED todo
     \/ /\ (c \in Mint /\ ~settled) \/ (c \in Pass /\ call[c].said \in {"failed", "refused"})
        /\ Leaves(c, "done")
        /\ todo' = [todo EXCEPT ![c] = {}]

Returns(c) ==
  /\ IF call[c].op = c THEN Leaves(c, "done") ELSE Leaves(c, "settling")
  /\ UNCHANGED todo

\* A record that is no longer unknown is left as it is.
Reconcile(c) ==
  /\ At(c, "settling")
  /\ \E o \in todo[c] :
       /\ todo' = [todo EXCEPT ![c] = @ \ {o}]
       /\ IF ledger[o] = "unknown" THEN Takes(c, "looking", o) ELSE Leaves(c, "settling")
  /\ UNCHANGED <<kept, issuance, faults>>

LookUp(c) ==
  /\ At(c, "looking")
  /\ \/ Hears(c, "found", issuance[call[c].op]) /\ UNCHANGED faults
     \/ Hears(c, "found", "failed") /\ Fault
  /\ UNCHANGED <<kept, issuance, todo>>

\* Seeded bug: the record is written whatever it says by now.
MayBecomeAnything(o, state) == ledger[o] # "absent"

\* writeAction's check: a settled operation does not become another.
MayBecome(o, state) == ledger[o] \in Terminal => ledger[o] = state

\* transition, up to its rename.
Settles(c, place, state) ==
  \/ MayBecome(call[c].op, state) /\ Goes(c, place) /\ UNCHANGED todo
  \/ ~MayBecome(call[c].op, state) /\ Fails(c)

\* Issued, by the client's clock not expired yet: the same request again.
Live(c) == call[c].said = "issued" /\ issuance[call[c].op] # "expired"

Decide(c) ==
  /\ At(c, "found")
  /\ UNCHANGED <<kept, issuance, faults>>
  /\ \/ Live(c) /\ Goes(c, "replaying") /\ UNCHANGED todo
     \/ ~Live(c) /\ call[c].said \in {"issued", "expired", "none"} /\ Settles(c, "rejecting", "rejected")
     \/ ~Live(c) /\ call[c].said \in {"held", "failed"} /\ Fails(c)

Replay(c) ==
  /\ At(c, "replaying")
  /\ (Requests(c, call[c].op, "replayed") \/ NeverSent(c, "replayed"))

\* Seeded bug: any failure of the replay settles the operation.
ConflictOrFailed == {"conflict", "refused", "failed"}

Conflict == {"conflict"}

TakeReplay(c) ==
  /\ At(c, "replayed")
  /\ UNCHANGED <<kept, issuance, faults>>
  /\ \/ call[c].said = "issued" /\ Settles(c, "succeeding", "succeeded")
     \/ call[c].said \in Conflict /\ Settles(c, "rejecting", "rejected")
     \/ call[c].said \notin Conflict \cup {"issued"} /\ Fails(c)

\* The rename of a transition.
RenameSucceeded(c) ==
  /\ At(c, "succeeding")
  /\ Records(call[c].op, "succeeded") /\ Returns(c)
  /\ UNCHANGED <<issuance, faults, sent, doubted>>

RenameRejected(c) ==
  /\ At(c, "rejecting")
  /\ Records(call[c].op, "rejected") /\ Fails(c)
  /\ UNCHANGED <<issuance, faults, sent, doubted>>

\* The write of a transition fails.
RenameFails(c) ==
  /\ At(c, "succeeding") \/ At(c, "rejecting")
  /\ Fault
  /\ UNCHANGED <<kept, issuance>>
  /\ Fails(c)

-----------------------------------------------------------------------------
(* reconcilePendingCredentials, and deaths. *)

BeginPass(p) ==
  /\ At(p, "idle")
  /\ Leaves(p, "settling")
  /\ todo' = [todo EXCEPT ![p] = Unknown]
  /\ UNCHANGED <<kept, issuance, faults>>

EndPass(p) ==
  /\ At(p, "settling") /\ todo[p] = {}
  /\ Leaves(p, "done")
  /\ UNCHANGED <<kept, issuance, todo, faults>>

Running(c) == call[c].at \notin {"never", "idle", "done", "dead"}

\* A process dies with the calls it runs; the ledger stays as it is.
Dies(process) ==
  /\ \E c \in process : Running(c)
  /\ call' = [c \in Call |-> IF c \in process /\ Running(c) THEN Left("dead") ELSE call[c]]
  /\ todo' = [c \in Call |-> IF c \in process THEN {} ELSE todo[c]]
  /\ Fault
  /\ UNCHANGED <<kept, issuance>>

\* Every call has come and gone.
Rests == (\A c \in Call : ~Running(c) /\ call[c].at # "idle") /\ UNCHANGED vars

Reconciles(c) ==
  Reconcile(c) \/ LookUp(c) \/ Decide(c) \/ Replay(c) \/ TakeReplay(c)
    \/ RenameSucceeded(c) \/ RenameRejected(c) \/ RenameFails(c)

Mints(m) ==
  Begin(m) \/ Prepare(m) \/ Submit(m) \/ Send(m) \/ RecordIssued(m) \/ RecordRefused(m)
    \/ RecordUnknown(m) \/ WriteFails(m)

Next ==
  \/ \E m \in Mint : Mints(m) \/ Expire(m) \/ HoldEnds(m)
  \/ \E c \in Call : Reconciles(c)
  \/ \E p \in Pass : BeginPass(p) \/ EndPass(p) \/ Dies({p})
  \/ Dies(Mint)
  \/ Rests

Spec == Init /\ [][Next]_vars

-----------------------------------------------------------------------------
(* Properties. *)

TypeOK ==
  /\ ledger \in [Mint -> States]
  /\ issuance \in [Mint -> Outcomes]
  /\ call \in [Call -> [at : Places, op : Mint \cup {NoOperation}, said : Answers]]
  /\ todo \in [Call -> SUBSET Mint]
  /\ faults \in Nat
  /\ sent \subseteq Mint /\ doubted \subseteq Mint

\* An operation whose outcome went missing is never sent again blind: a
\* second request for it leaves, by whatever mint or command, only when the
\* first has been issued (action-ledger.mjs:1-5).
NeverSentBlind ==
  [][\A c \in Call :
       /\ call[c].at \in {"sending", "replaying"} /\ call'[c].at \in {"answered", "replayed"}
       /\ call[c].op \in sent
       => issuance[call[c].op] \in {"issued", "expired"}]_vars

\* What the ledger says settled an operation is what became of it, whoever
\* settled it and whatever was lost on the way: a succeeded one was issued,
\* and no credential of a rejected one is live or will be, unless its mint
\* ended on an answer that it could not believe or record, which is recorded
\* as a rejection too (server-client.mjs:912-914).
SettledAsItWas ==
  \A m \in Mint :
    /\ ledger[m] = "rejected" /\ m \notin doubted => issuance[m] \in {"none", "expired"}
    /\ ledger[m] = "succeeded" => issuance[m] \in {"issued", "expired"}

\* No credential is requested while a credential that was lost is live
\* ("so a lost credential is never followed by a second mint",
\* server-client.mjs:893-897).  Not so: an operation whose answer did not
\* verify is recorded as rejected, and no later mint looks it up.
LostBlocksMints ==
  [][\A m \in Mint : m \notin sent /\ m \in sent' =>
        \A o \in Mint : ~(ledger[o] = "rejected" /\ issuance[o] = "issued")]_vars

\* A settled operation stays as it was settled, however many mints of the
\* daemon settle it side by side, as long as no reconcile command has run
\* beside them (action-ledger.mjs:49).
SettledForGood ==
  [][(\A p \in Pass : call[p].at \in {"never", "idle"}) =>
        \A m \in Mint : ledger[m] \in Terminal => ledger'[m] = ledger[m]]_vars
=============================================================================
