----------------------------- MODULE OwnerTrust ------------------------------
(***************************************************************************)
(* The owner decision trust store (src/identity/owner-decision-trust.mjs): *)
(* a namespace record followed by a hash chain of key records, enrollments *)
(* and revocations in turn.  A record counts only once it has one line in  *)
(* the audit file and a confirmation, and every file is published through  *)
(* a pending name: written, linked to its final name, unlinked.            *)
(*                                                                         *)
(* All of it happens under an exclusive lock that its holder's death       *)
(* releases.  A step of the model is one change a crash can follow: the    *)
(* holder goes on from what the files are, or is interrupted there.  A     *)
(* reader that finds anything unfinished is told nothing, so what the      *)
(* store vouches for is a function of the files (Vouched).                 *)
(***************************************************************************)
EXTENDS Naturals, Sequences, FiniteSets

CONSTANTS Key,           \* Ed25519 public keys
          Writer,        \* owner ceremonies, each with what it last observed
          Versions,      \* TRUST_LIMITS.versions: 1024 in the code
          None,
          MaxFaults,     \* bound: interruptions of a holder
          MaxRotations   \* bound: changes of the daemon's vouch key

ASSUME TrustBounds == Versions \in Nat /\ MaxFaults \in Nat /\ MaxRotations \in Nat

VARIABLES records,     \* the linked records: records[v + 1] is version v
          audit,       \* the audit file: the records its lines are about
          torn,        \* does the audit file end in half a line?
          confirmed,   \* the records whose confirmation is linked
          pending,     \* the file under the pending name, or None
          holder,      \* the operation that holds the lock, or None
          seen,        \* what each owner last observed, or None
          vouch,       \* the daemon's own vouch key
          faults, rotations

vars == <<records, audit, torn, confirmed, pending, holder, seen, vouch, faults, rotations>>
files == <<records, audit, torn, confirmed, pending>>

\* The two pinned keys of an enrollment never alias each other.
Pair == {p \in SUBSET Key : Cardinality(p) = 2}

Namespace == [kind |-> "namespace", pins |-> {}]
Enrollment(p) == [kind |-> "enrollment", pins |-> p]
Revocation == [kind |-> "revocation", pins |-> {}]
Record == {Namespace, Revocation} \cup {Enrollment(p) : p \in Pair}

Latest == Len(records)
File(part, rec, state) == [part |-> part, rec |-> rec, state |-> state]

PendingFile == [part : {"record", "confirmation"}, rec : Record \cup {None},
                state : {"torn", "whole", "linked"}]
Operation == [who : Writer, op : {"namespace", "enroll", "revoke", "reconcile"},
              rec : Record \cup {None}, key : Key \cup {None}]
Observed == [head : Nat, daemonKey : Key]

\* None stands for the absence of each of these.
ASSUME NoneAssumption ==
    /\ None \notin Key
    /\ None \notin Record
    /\ None \notin PendingFile
    /\ None \notin Operation
    /\ None \notin Observed
    /\ None \notin [version : Nat, keys : Pair]

-----------------------------------------------------------------------------
(* Reading: readGraph, ready, observationForGraph.                         *)

Audited(n) == \E k \in 1 .. Len(audit) : audit[k] = n

\* A graph a reader accepts: nothing pending, no torn line, all confirmed.
Settled ==
    /\ pending = None
    /\ ~torn
    /\ Latest > 0
    /\ confirmed = 1 .. Latest

Active == Latest > 0 /\ records[Latest].kind = "enrollment"

\* The pair a settled graph vouches for, with its chain version.
Vouched ==
    IF Settled /\ Active
    THEN [version |-> Latest - 1, keys |-> records[Latest].pins]
    ELSE None

\* The observation an owner's write must name: it binds the head and the
\* daemon's own key.
Observation == [head |-> Latest, daemonKey |-> vouch]

\* An unconfirmed head record that reconcile can finish: its publication is
\* complete up to its pending name, or its confirmation waits to be linked.
Repairable ==
    /\ ~torn
    /\ Latest > 0
    /\ pending # None =>
          pending.state = "linked" \/ (pending.state = "whole" /\ pending.part = "confirmation")

-----------------------------------------------------------------------------
Init ==
    /\ records = <<>>
    /\ audit = <<>>
    /\ torn = FALSE
    /\ confirmed = {}
    /\ pending = None
    /\ holder = None
    /\ seen = [w \in Writer |-> None]
    /\ vouch \in Key
    /\ faults = 0
    /\ rotations = 0

Hold(w, op, rec, key) == holder' = [who |-> w, op |-> op, rec |-> rec, key |-> key]

\* observeOwnerDecisionTrust: what the owner's next write will expect.
Observe(w) ==
    /\ holder = None
    /\ Settled
    /\ ~Active \/ vouch \notin records[Latest].pins
    /\ seen' = [seen EXCEPT ![w] = Observation]
    /\ UNCHANGED <<files, holder, vouch, faults, rotations>>

\* enrollNamespace of a store that holds nothing but its lock.
EnrollNamespace(w) ==
    /\ holder = None
    /\ Latest = 0
    /\ pending = None
    /\ Hold(w, "namespace", Namespace, None)
    /\ UNCHANGED <<files, seen, vouch, faults, rotations>>

\* Both versioned writes: a settled graph that is exactly what was observed.
Expected(w) ==
    /\ holder = None
    /\ Settled
    /\ seen[w] = Observation
    /\ UNCHANGED <<files, seen, vouch, faults, rotations>>

\* The last version is kept for the revocation of the one before it.
EveryVersion == Latest <= Versions
RoomToEnroll == Latest < Versions

\* enrollKeysV1, from `none` or `revoked`, never in the last version.
EnrollKeys(w, p) ==
    /\ Expected(w)
    /\ ~Active
    /\ RoomToEnroll
    /\ vouch \notin p
    /\ Hold(w, "enroll", Enrollment(p), vouch)

\* revokeKeysV1 of the active enrollment.
RevokeKeys(w) ==
    /\ Expected(w)
    /\ Active
    /\ vouch \notin records[Latest].pins
    /\ Latest <= Versions
    /\ Hold(w, "revoke", Revocation, vouch)

\* reconcile, where there is something it may repair.
Reconcile(w) ==
    /\ holder = None
    /\ Repairable
    /\ ~Settled
    /\ Hold(w, "reconcile", None, None)
    /\ UNCHANGED <<files, seen, vouch, faults, rotations>>

-----------------------------------------------------------------------------
(* The holder's steps: each follows from the files as they are.            *)

Versioned == holder.op \in {"enroll", "revoke"}

\* sameVouch: a versioned write stops when the vouch key changed under it.
SameVouch == Versioned => vouch = holder.key

\* notOwnKey, before reconcile confirms an enrollment.
NotOwnKey == (holder.op = "reconcile" /\ holder.key = None) => vouch \notin records[Latest].pins

\* notOwnKey is asked once, before the first step of confirm.
Asked == IF holder.op = "reconcile" THEN [holder EXCEPT !.key = vouch] ELSE holder

\* Where the holder stands: before its record's first byte, or before what
\* the linked head still needs.
AtRecord == holder # None /\ holder.rec # None
AtHead ==
    /\ holder # None
    /\ holder.rec = None
    /\ pending = None
    /\ ~torn
    /\ Latest > 0
    /\ Latest \notin confirmed

\* The record's pending file, written and flushed.
WriteRecord ==
    /\ AtRecord
    /\ SameVouch
    /\ pending' = File("record", holder.rec, "whole")
    /\ holder' = [holder EXCEPT !.rec = None]
    /\ UNCHANGED <<records, audit, torn, confirmed, seen, vouch, faults, rotations>>

\* Reconcile links a lone confirmation, never a lone record; the other
\* operations find what they wrote themselves.
OnlyOwnWrites == holder.op = "reconcile" => holder.key # None
MayLink == holder.op = "reconcile" => pending.part = "confirmation" /\ Audited(Latest)

HeadConfirmed == confirmed \cup {Latest}

\* The pending file gets its final name.
LinkPending ==
    /\ holder # None
    /\ pending # None
    /\ pending.state = "whole"
    /\ MayLink
    /\ NotOwnKey
    /\ pending' = [pending EXCEPT !.state = "linked"]
    /\ IF pending.part = "record"
       THEN records' = Append(records, pending.rec) /\ UNCHANGED confirmed
       ELSE confirmed' = HeadConfirmed /\ UNCHANGED records
    /\ UNCHANGED <<audit, torn, holder, seen, vouch, faults, rotations>>

UnlinkPending ==
    /\ holder # None
    /\ pending # None
    /\ pending.state = "linked"
    /\ pending' = None
    /\ UNCHANGED <<records, audit, torn, confirmed, holder, seen, vouch, faults, rotations>>

\* confirm writes the line unless the file already has it.
LineWanted == Latest > 0
LineMissing == ~Audited(Latest)

AppendAudit ==
    /\ AtHead
    /\ LineMissing
    /\ NotOwnKey
    /\ Len(audit) < Versions + 1
    /\ audit' = Append(audit, Latest)
    /\ holder' = Asked
    /\ UNCHANGED <<records, torn, confirmed, pending, seen, vouch, faults, rotations>>

WriteConfirmation ==
    /\ AtHead
    /\ Audited(Latest)
    /\ NotOwnKey
    /\ SameVouch
    /\ pending' = File("confirmation", None, "whole")
    /\ holder' = Asked
    /\ UNCHANGED <<records, audit, torn, confirmed, seen, vouch, faults, rotations>>

\* The write returns the new observation to its owner.
Finish ==
    /\ holder # None
    /\ holder.rec = None
    /\ Settled
    /\ holder' = None
    /\ seen' = IF Versioned
               THEN [seen EXCEPT ![holder.who] = [head |-> Latest, daemonKey |-> holder.key]]
               ELSE seen
    /\ UNCHANGED <<files, vouch, faults, rotations>>

\* Refused: the vouch key changed, or an enrollment pins the daemon's key.
Refuse ==
    /\ \/ (AtRecord \/ (AtHead /\ Audited(Latest))) /\ ~SameVouch
       \/ (AtHead \/ (holder # None /\ pending # None /\ pending.state = "whole")) /\ ~NotOwnKey
    /\ holder' = None
    /\ UNCHANGED <<files, seen, vouch, faults, rotations>>

\* A crash, or a write, link or flush that throws, between two changes or
\* in the middle of one: a pending file or an audit line may stay half
\* written.
Interrupt ==
    /\ holder # None
    /\ faults < MaxFaults
    /\ faults' = faults + 1
    /\ holder' = None
    /\ \/ UNCHANGED <<pending, torn>>
       \/ /\ AtRecord
          /\ SameVouch
          /\ pending' = File("record", holder.rec, "torn")
          /\ UNCHANGED torn
       \/ /\ AtHead
          /\ ~Audited(Latest)
          /\ NotOwnKey
          /\ torn' = TRUE
          /\ UNCHANGED pending
       \/ /\ AtHead
          /\ Audited(Latest)
          /\ NotOwnKey
          /\ SameVouch
          /\ pending' = File("confirmation", None, "torn")
          /\ UNCHANGED torn
    /\ UNCHANGED <<records, audit, confirmed, seen, vouch, rotations>>

\* Another program replaces the daemon's vouch key; it takes no trust lock.
RotateVouch ==
    /\ rotations < MaxRotations
    /\ \E k \in Key \ {vouch} : vouch' = k
    /\ rotations' = rotations + 1
    /\ UNCHANGED <<files, holder, seen, faults>>

Step ==
    \/ WriteRecord
    \/ LinkPending
    \/ UnlinkPending
    \/ AppendAudit
    \/ WriteConfirmation
    \/ Finish
    \/ Refuse

Next ==
    \/ \E w \in Writer :
          \/ Observe(w)
          \/ EnrollNamespace(w)
          \/ \E p \in Pair : EnrollKeys(w, p)
          \/ RevokeKeys(w)
          \/ Reconcile(w)
    \/ Step
    \/ Interrupt
    \/ RotateVouch

Spec == Init /\ [][Next]_vars

\* A holder runs on until it is done or interrupted, and the owner who finds
\* the store unsettled asks for a reconciliation.
FairSpec ==
    /\ Spec
    /\ WF_vars(Step)
    /\ WF_vars(\E w \in Writer : Reconcile(w))

-----------------------------------------------------------------------------
(* Properties.                                                             *)

\* The variables hold what the store's files and callers can hold.
TypeOK ==
    /\ records \in Seq(Record)
    /\ audit \in Seq(Nat)
    /\ torn \in BOOLEAN
    /\ confirmed \subseteq 1 .. Latest
    /\ pending \in {None} \cup PendingFile
    /\ holder \in {None} \cup Operation
    /\ seen \in [Writer -> {None} \cup Observed]
    /\ vouch \in Key
    /\ faults \in 0 .. MaxFaults
    /\ rotations \in 0 .. MaxRotations

\* What the store writes it can read back: readGraph's own checks never
\* refuse a graph that interruptions, and reconciliations of them, left.
\* The chain alternates, with no enrollment in the last version; at most the
\* head is unconfirmed; every confirmed record has exactly one audit line
\* and there is no line for a record that is not there.
ReadsBack ==
    /\ \A n \in 1 .. Latest : records[n].kind = IF n = 1 THEN "namespace"
                                              ELSE IF n % 2 = 0 THEN "enrollment" ELSE "revocation"
    /\ Latest > 0 /\ Active => Latest - 1 < Versions
    /\ Latest <= Versions + 1
    /\ \A n \in 1 .. Latest : n # Latest => n \in confirmed
    /\ \A n \in confirmed : Cardinality({k \in 1 .. Len(audit) : audit[k] = n}) = 1
    /\ \A k \in 1 .. Len(audit) : audit[k] = k /\ k <= Latest
    /\ torn => Latest \notin confirmed

\* An interruption is either repaired by the owner's reconciliation or stays
\* refused, with its evidence: a torn file or a lone record is never
\* repaired, everything else always is, unless the head enrolls what has
\* become the daemon's own key.
RepairableIsRepaired ==
    Repairable ~> \/ Settled
                  \/ ~Repairable
                  \/ Active /\ vouch \in records[Latest].pins

\* The versions whose enrollment has been confirmed and published.
Granted ==
    {n - 1 : n \in {m \in confirmed : /\ records[m].kind = "enrollment"
                                      /\ ~(pending # None /\ pending.part = "confirmation" /\ m = Latest)}}

Promised == INSTANCE TrustAuthority WITH pin <- Vouched, used <- Granted, NoPin <- None

\* Whatever is interrupted, repaired or written at once, a reader of the
\* store sees what TrustAuthority promises: a revocation begun is never
\* undone, a version is never vouched for twice, and a pair vouched for can
\* always still be revoked.
ImplementsTrustAuthority == Promised!TrustSpec
=============================================================================
