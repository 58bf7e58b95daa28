--------------------------- MODULE DecisionJournal ---------------------------
(***************************************************************************)
(* The daemon's owner decision journal (src/identity/                      *)
(* owner-decision-journal-store.mjs) with the callers that make a decision *)
(* take effect: the entry gate (src/owner-decision-effect-gate.mjs), the   *)
(* computer use adapter (src/owner-decision-computer-use.mjs and           *)
(* src/agent-population.mjs) and the record-only reconciliation            *)
(* (src/owner-decision-reconcile.mjs).  Its environment is TrustAuthority, *)
(* which OwnerTrust implements.                                            *)
(*                                                                         *)
(* A request is a directory of fixed files, one per slot, and what it has  *)
(* come to is read off its slots (Phase).  An operation runs under an      *)
(* exclusive lock and publishes at most two slots; a crash or a failing    *)
(* write may leave the last of them empty, half written or damaged, or     *)
(* complete without its caller being told.  Operations are single steps,   *)
(* but for the entry: it reads the trust store and the census, which have  *)
(* locks of their own, and then writes, and both may change in between.    *)
(***************************************************************************)
EXTENDS TrustAuthority, FiniteSets

CONSTANTS Request, Store,
          Limit,       \* DAEMON_JOURNAL_LIMIT: 4096 in the code
          None,
          MaxFaults    \* bound: interrupted operations and failed effects

ASSUME JournalBounds == Limit \in Nat /\ MaxFaults \in Nat

\* A cold wake or computer use setting; a revision that applies; one that is
\* record-only.
Op == {"setting", "revision", "record-only"}

Slots == {"preparation", "challenge", "presence", "receipt", "check", "refused",
          "entered", "linked", "completed", "observation", "terminal"}

\* A slot holds nothing, a body without its trailer, bytes that do not
\* decode, or a committed record.
SlotState == {"empty", "partial", "damaged", "committed"}

VARIABLES dir,      \* a request's directory: absent, an orphan, or whole
          slot,     \* its slots after admission
          saved,    \* what its records say: operation, wanted value, trust version
          census,   \* the soul's computer use: "on", "off", or the soul is "gone"
          events,   \* requests whose revision the revision journal records
          run,      \* what each store's caller is doing
          poisoned, \* stores that refuse until they are reopened
          ran,      \* how often the effect of a request was carried out
          steady,   \* requests whose pin has not been withdrawn since prepared
          faults

requestVars == <<dir, slot, saved>>
effectVars == <<census, events, ran>>
vars == <<pin, used, dir, slot, saved, census, events, run, poisoned, ran, steady, faults>>

-----------------------------------------------------------------------------
(* Reading a request: readGraph and what it derives.                       *)

Empty(r, s) == slot[r][s] = "empty"
Committed(r, s) == slot[r][s] = "committed"
Torn(r) == \E s \in Slots : slot[r][s] \in {"partial", "damaged"}

\* Any entered bytes but a clean partial write: the effect may have started.
ReadableEntered(r) == Committed(r, "entered") /\ ~Torn(r)
Uncertain(r) == slot[r]["entered"] \in {"committed", "damaged"}

EnteredPrefix(r) ==
    /\ ~Torn(r)
    /\ \A s \in {"preparation", "challenge", "presence", "receipt", "check", "entered"} : Committed(r, s)
    /\ \A s \in {"refused", "observation"} : Empty(r, s)

\* effectGraph: only a revision has a linked event, and it must have one.
Validates(r) ==
    /\ EnteredPrefix(r)
    /\ Committed(r, "completed")
    /\ Empty(r, "linked") <=> saved[r].op = "setting"

PreEffect(r) ==
    IF Torn(r) THEN "unsupported"
    ELSE IF Committed(r, "refused") THEN "refused"
    ELSE IF Committed(r, "check") THEN "released"
    ELSE IF Committed(r, "presence") \/ Committed(r, "receipt") THEN "authorizing"
    ELSE IF Committed(r, "challenge") THEN "prepared"
    ELSE IF Committed(r, "preparation") THEN "preparing"
    ELSE "admitted"

Phase(r) ==
    IF dir[r] # "whole" THEN dir[r]
    ELSE IF Uncertain(r) THEN (IF Validates(r) THEN "applied" ELSE "indeterminate")
    ELSE PreEffect(r)

Over == {"refused", "indeterminate", "applied"}

\* awaitingCompletion, recordOnlyContext and recordOnlyApplied.
Awaiting(r) == EnteredPrefix(r) /\ Empty(r, "linked") /\ Empty(r, "completed")
RecordOnly(r) ==
    /\ EnteredPrefix(r)
    /\ Committed(r, "linked")
    /\ saved[r].op = "record-only"
    /\ Empty(r, "completed")
RecordOnlyApplied(r) ==
    /\ Validates(r)
    /\ saved[r].op = "record-only"
    /\ Empty(r, "terminal")

-----------------------------------------------------------------------------
(* Writing: publish, and what an operation's end leaves its store in.      *)

\* The slots after a publication of a, and then b, by whether it succeeded.
One(old, a) ==
    {[slots |-> [old EXCEPT ![a] = x], ok |-> FALSE] : x \in SlotState}
    \cup {[slots |-> [old EXCEPT ![a] = "committed"], ok |-> TRUE]}
Two(old, a, b) ==
    {w \in One(old, a) : ~w.ok} \cup One([old EXCEPT ![a] = "committed"], b)

Idle == [at |-> "idle", req |-> None]
At(step, r) == [at |-> step, req |-> r]

\* An entry that has verified its request goes on holding the journal lock;
\* everyone else is refused, not kept waiting.
LockFree(i) == \A k \in Store \ {i} : run[k].at # "verified"

\* The operation of store i on r ends: its caller goes on to `next`, or the
\* store is poisoned and the caller, told of a failure or dead, is done.
Writes(i, r, outcomes, next) ==
    /\ LockFree(i)
    /\ \E w \in outcomes :
          /\ slot' = [slot EXCEPT ![r] = w.slots]
          /\ run' = [run EXCEPT ![i] = IF w.ok THEN next ELSE Idle]
          /\ poisoned' = IF w.ok THEN poisoned ELSE poisoned \cup {i}
          /\ IF w.ok THEN UNCHANGED faults ELSE faults < MaxFaults /\ faults' = faults + 1

\* A store takes one call at a time, and none once it is poisoned.
Ready(i) == i \notin poisoned /\ run[i] = Idle /\ LockFree(i)

\* The population lock is held from the read of a setting's request on.
HeldToEntry ==
    \E i \in Store : run[i].at \in {"read", "verified"} /\ saved[run[i].req].op = "setting"
CensusHeld ==
    \E i \in Store : run[i].at \in {"read", "verified", "entered", "acted"} /\ saved[run[i].req].op = "setting"

-----------------------------------------------------------------------------
Init ==
    /\ TrustInit
    /\ dir = [r \in Request |-> "absent"]
    /\ slot = [r \in Request |-> [s \in Slots |-> "empty"]]
    /\ saved = [r \in Request |-> [op |-> "setting", want |-> "off", seen |-> "on",
                                  version |-> 0, keys |-> NoPin]]
    /\ census = "on"
    /\ events = {}
    /\ run = [i \in Store |-> Idle]
    /\ poisoned = {}
    /\ ran = [r \in Request |-> 0]
    /\ steady = {}
    /\ faults = 0

\* Admission: a directory, its zeroed files, the action and its acceptance.
\* Interrupted, it leaves an orphan that stays charged and is never used.
Admit(i, r) ==
    /\ Ready(i)
    /\ dir[r] = "absent"
    /\ Cardinality({q \in Request : dir[q] # "absent"}) < Limit
    /\ \E op \in Op, v \in {"on", "off"} :
          saved' = [saved EXCEPT ![r] = [saved[r] EXCEPT !.op = op, !.want = v]]
    /\ \/ /\ dir' = [dir EXCEPT ![r] = "whole"]
          /\ UNCHANGED <<poisoned, faults>>
       \/ /\ faults < MaxFaults
          /\ faults' = faults + 1
          /\ dir' = [dir EXCEPT ![r] = "orphan"]
          /\ poisoned' = poisoned \cup {i}
    /\ UNCHANGED <<trustVars, slot, effectVars, run, steady>>

\* recordPreparation: under the version of the trust there is now, with the
\* setting its caller saw, now or before; the same preparation again
\* finishes its challenge.
Prepare(i, r) ==
    /\ Ready(i)
    /\ pin # NoPin
    /\ \/ /\ Phase(r) = "admitted"
          /\ Writes(i, r, Two(slot[r], "preparation", "challenge"), Idle)
          /\ \E v \in {"on", "off"} :
                saved' = [saved EXCEPT ![r] = [saved[r] EXCEPT !.version = pin.version, !.seen = v]]
          /\ steady' = steady \cup {r}
       \/ /\ Phase(r) = "preparing"
          /\ saved[r].version = pin.version
          /\ Writes(i, r, One(slot[r], "challenge"), Idle)
          /\ UNCHANGED <<saved, steady>>
    /\ UNCHANGED <<trustVars, dir, effectVars>>

\* recordDecision: the owner's presence and the broker's receipt, verified
\* against the keys pinned now.
Decide(i, r) ==
    /\ Ready(i)
    /\ pin # NoPin
    /\ Phase(r) = "prepared"
    /\ Writes(i, r, Two(slot[r], "presence", "receipt"), Idle)
    /\ saved' = [saved EXCEPT ![r] = [saved[r] EXCEPT !.keys = pin.keys]]
    /\ UNCHANGED <<trustVars, dir, effectVars, steady>>

\* recordSuccessfulCheck, once both are saved.
Check(i, r) ==
    /\ Ready(i)
    /\ Phase(r) = "authorizing"
    /\ Committed(r, "presence") /\ Committed(r, "receipt")
    /\ Writes(i, r, One(slot[r], "check"), Idle)
    /\ UNCHANGED <<trustVars, dir, saved, effectVars, steady>>

Refusable(r) == Phase(r) \in {"preparing", "prepared", "authorizing", "released"}

RefusePreEffect(i, r) ==
    /\ Ready(i)
    /\ Refusable(r)
    /\ Writes(i, r, One(slot[r], "refused"), Idle)
    /\ UNCHANGED <<trustVars, dir, saved, effectVars, steady>>

\* recordObservationPair, while the outcome is uncertain.
Observe(i, r) ==
    /\ Ready(i)
    /\ Phase(r) = "indeterminate"
    /\ Empty(r, "terminal") /\ Empty(r, "observation")
    /\ Writes(i, r, One(slot[r], "observation"), Idle)
    /\ UNCHANGED <<trustVars, dir, saved, effectVars, steady>>

\* recordTerminalPair of a proven outcome.
Conclude(i, r) ==
    /\ Ready(i)
    /\ Phase(r) \in {"applied", "refused"}
    /\ Empty(r, "terminal")
    /\ Writes(i, r, One(slot[r], "terminal"), Idle)
    /\ UNCHANGED <<trustVars, dir, saved, effectVars, steady>>

\* Any read of a graph that is neither whole nor uncertain poisons its store.
Stumble(i, r) ==
    /\ Ready(i)
    /\ Phase(r) \in {"orphan", "unsupported"}
    /\ poisoned' = poisoned \cup {i}
    /\ UNCHANGED <<trustVars, requestVars, effectVars, run, steady, faults>>

-----------------------------------------------------------------------------
(* An effect: entered, carried out, completed.                             *)

\* enterOwnerDecisionEffect: the keys the receipt names are the pinned ones,
\* and the chain has the version it had at the preparation.
SameKeys(r) == pin # NoPin /\ saved[r].keys = pin.keys
TrustStillHolds(r) ==
    /\ pin # NoPin
    /\ saved[r].keys = pin.keys
    /\ saved[r].version = pin.version

\* Under the journal lock the released request is verified: the trust, and
\* that its soul is in the census and not retired.
Verifies(i, r) ==
    /\ LockFree(i)
    /\ Phase(r) = "released"
    /\ TrustStillHolds(r)
    /\ census # "gone"
    /\ run' = [run EXCEPT ![i] = At("verified", r)]
    /\ UNCHANGED <<trustVars, requestVars, effectVars, poisoned, steady, faults>>

Verify(i, r) ==
    /\ Ready(i)
    /\ saved[r].op # "setting"
    /\ Verifies(i, r)

\* Then it is spent: the entered record is durable before the caller is told
\* to go on.
SpendsUnread(i, r) ==
    /\ \E w \in One(slot[r], "entered") : slot' = [slot EXCEPT ![r] = w.slots]
    /\ run' = [run EXCEPT ![i] = At("entered", r)]
    /\ UNCHANGED <<poisoned, faults>>
Spends(i, r) == Writes(i, r, One(slot[r], "entered"), At("entered", r))

Enter(i, r) ==
    /\ run[i] = At("verified", r)
    /\ Spends(i, r)
    /\ UNCHANGED <<trustVars, dir, saved, effectVars, steady>>

\* runComputerUseOwnerDecision takes the population lock and reads the
\* released request.
StartSetting(i, r) ==
    /\ Ready(i)
    /\ ~CensusHeld
    /\ pin # NoPin
    /\ saved[r].op = "setting"
    /\ Phase(r) = "released"
    /\ run' = [run EXCEPT ![i] = At("read", r)]
    /\ UNCHANGED <<trustVars, requestVars, effectVars, poisoned, steady, faults>>

\* It then compares what the owner saw with what is there.
AsTheOwnerSaw(r) == census = saved[r].seen

VerifySetting(i, r) ==
    /\ run[i] = At("read", r)
    /\ AsTheOwnerSaw(r)
    /\ Verifies(i, r)

\* Refused before entry: the census differs, or cannot be read.
RefuseSetting(i, r) ==
    /\ run[i] = At("read", r)
    /\ Refusable(r)
    /\ Writes(i, r, One(slot[r], "refused"), Idle)
    /\ UNCHANGED <<trustVars, dir, saved, effectVars, steady>>

\* The effect: the census is written and read back, or the revision journal
\* gets its record.
TakesEffect(r) ==
    /\ ran' = [ran EXCEPT ![r] = @ + 1]
    /\ IF saved[r].op = "setting"
       THEN census' = saved[r].want /\ UNCHANGED events
       ELSE events' = events \cup {r} /\ UNCHANGED census

CarryOut(i, r) ==
    /\ run[i] = At("entered", r)
    /\ TakesEffect(r)
    /\ run' = [run EXCEPT ![i] = At("acted", r)]
    /\ UNCHANGED <<trustVars, requestVars, poisoned, steady, faults>>

\* Whatever is thrown after the entry, done or not, is never retried.
EffectFails(i, r) ==
    /\ run[i] = At("entered", r)
    /\ faults < MaxFaults
    /\ faults' = faults + 1
    /\ TakesEffect(r) \/ UNCHANGED effectVars
    /\ run' = [run EXCEPT ![i] = Idle]
    /\ UNCHANGED <<trustVars, requestVars, poisoned, steady>>

\* completeEffect, with the handle this store got when it entered.
Complete(i, r) ==
    /\ run[i] = At("acted", r)
    /\ Awaiting(r)
    /\ Writes(i, r, IF saved[r].op = "setting"
                    THEN One(slot[r], "completed")
                    ELSE Two(slot[r], "linked", "completed"), Idle)
    /\ UNCHANGED <<trustVars, dir, saved, effectVars, steady>>

-----------------------------------------------------------------------------
(* The owner's record-only reconciliation.                                 *)

ReadReconcilable(i, r) ==
    /\ Ready(i)
    /\ pin # NoPin
    /\ RecordOnly(r) \/ RecordOnlyApplied(r)
    /\ run' = [run EXCEPT ![i] = At("ceremony", r)]
    /\ UNCHANGED <<trustVars, requestVars, effectVars, poisoned, steady, faults>>

\* The ceremony took its time, so the journal is read again: the completed
\* record is written from the revision journal, never by a second effect.
ReconcileWrite(i, r) ==
    /\ run[i] = At("ceremony", r)
    /\ r \in events
    /\ \/ /\ RecordOnlyApplied(r)
          /\ Writes(i, r, One(slot[r], "terminal"), Idle)
       \/ /\ RecordOnly(r)
          /\ Empty(r, "terminal")
          /\ Writes(i, r, Two(slot[r], "completed", "terminal"), Idle)
    /\ UNCHANGED <<trustVars, dir, saved, effectVars, steady>>

\* A caller gives up, is refused, or dies and loses its handle; its store is
\* opened again.
Reopen(i) ==
    /\ i \in poisoned \/ run[i] # Idle
    /\ run' = [run EXCEPT ![i] = Idle]
    /\ poisoned' = poisoned \ {i}
    /\ UNCHANGED <<trustVars, requestVars, effectVars, steady, faults>>

-----------------------------------------------------------------------------
(* The rest of the daemon.                                                 *)

\* setSoulComputerUse and a retirement, which take the population lock too.
LocalSet ==
    /\ ~CensusHeld
    /\ census # "gone"
    /\ census' \in {"on", "off", "gone"} \ {census}
    /\ UNCHANGED <<trustVars, requestVars, events, run, poisoned, ran, steady, faults>>

Trust ==
    /\ TrustNext
    /\ steady' = IF pin' = NoPin THEN {} ELSE steady
    /\ UNCHANGED <<requestVars, effectVars, run, poisoned, faults>>

Next ==
    \/ \E i \in Store, r \in Request :
          \/ Admit(i, r)
          \/ Prepare(i, r)
          \/ Decide(i, r)
          \/ Check(i, r)
          \/ RefusePreEffect(i, r)
          \/ Observe(i, r)
          \/ Conclude(i, r)
          \/ Stumble(i, r)
          \/ Verify(i, r)
          \/ Enter(i, r)
          \/ StartSetting(i, r)
          \/ VerifySetting(i, r)
          \/ RefuseSetting(i, r)
          \/ CarryOut(i, r)
          \/ EffectFails(i, r)
          \/ Complete(i, r)
          \/ ReadReconcilable(i, r)
          \/ ReconcileWrite(i, r)
    \/ \E i \in Store : Reopen(i)
    \/ LocalSet
    \/ Trust

Spec == Init /\ [][Next]_vars

-----------------------------------------------------------------------------
(* Properties.                                                             *)

\* The variables hold what the journal and its callers can hold.
TypeOK ==
    /\ pin \in Pin \cup {NoPin}
    /\ used \subseteq 1 .. (Versions - 1)
    /\ dir \in [Request -> {"absent", "orphan", "whole"}]
    /\ slot \in [Request -> [Slots -> SlotState]]
    /\ saved \in [Request -> [op : Op, want : {"on", "off"}, seen : {"on", "off"},
                              version : Nat, keys : Pair \cup {NoPin}]]
    /\ census \in {"on", "off", "gone"}
    /\ events \subseteq Request
    /\ run \in [Store -> {Idle} \cup [at : {"read", "verified", "entered", "acted", "ceremony"},
                                      req : Request]]
    /\ poisoned \subseteq Store
    /\ ran \in [Request -> Nat]
    /\ steady \subseteq Request
    /\ faults \in 0 .. MaxFaults

\* What a request's records say happened is what happened: its effect is
\* carried out at most once, whatever crashed or was reopened in between; a
\* refused one never was, an applied one was.
OutcomeIsTrue ==
    \A r \in Request :
        /\ ran[r] <= 1
        /\ Committed(r, "refused") => ran[r] = 0
        /\ Phase(r) = "applied" => ran[r] = 1

\* What the store writes it can read back: apart from torn slots, no request
\* ever holds records that readGraph calls corrupt.
NeverCorrupt ==
    \A r \in Request : ~Torn(r) /\ ~Uncertain(r) =>
        /\ \A s \in {"completed", "observation", "linked"} : Empty(r, s)
        /\ Committed(r, "terminal") => Committed(r, "refused")
        /\ Empty(r, "preparation") => \A s \in Slots : Empty(r, s)
        /\ Empty(r, "challenge") => \A s \in {"presence", "receipt", "check"} : Empty(r, s)
        /\ Committed(r, "check") => Committed(r, "presence") /\ Committed(r, "receipt")

\* The journal can be read and says what happened.
JournalIsTrue == OutcomeIsTrue /\ NeverCorrupt

\* A request that may have entered stays so: it is applied or indeterminate,
\* never refused and never fresh again; a refused one is never entered.
OverIsOver ==
    [][\A r \in Request :
          /\ Phase(r) \in {"applied", "indeterminate"} => Phase(r)' \in {"applied", "indeterminate"}
          /\ Phase(r) = "refused" => Phase(r)' \in {"refused", "unsupported"}]_vars

\* A decision is carried out on the census its owner saw, not one a local
\* change or another decision has made since (agent-population.mjs:918-937).
SetsWhatTheOwnerSaw ==
    [][\A r \in Request :
          ran'[r] > ran[r] /\ saved[r].op = "setting" => census = saved[r].seen]_vars

\* No request passes the entry's verification once the trust it was prepared
\* under was revoked, the same keys enrolled again or not
\* (owner-decision-effect-gate.mjs:5-18), and none is entered unverified.
EntersUnderItsTrust ==
    [][\A r \in Request :
          /\ \A i \in Store : run'[i] = At("verified", r) /\ run[i] # run'[i] => r \in steady
          /\ Empty(r, "entered") /\ slot'[r]["entered"] # "empty" =>
                \E i \in Store : run[i] = At("verified", r)]_vars
=============================================================================
