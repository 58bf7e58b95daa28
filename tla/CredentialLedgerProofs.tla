------------------------ MODULE CredentialLedgerProofs ------------------------
(***************************************************************************)
(* Proofs about CredentialLedger, for any mints, passes and courses.       *)
(***************************************************************************)
EXTENDS CredentialLedger, TLAPS

\* Places of reconcileCredential.
Reconciling == {"looking", "found", "replaying", "replayed", "succeeding", "rejecting"}

\* Operations that are unknown, or have been.
Late == {m \in Mint : ledger[m] \in {"unknown"} \cup Terminal}

Settled == {"issued", "expired"}

\* What a record says is true of the issuance, but for a doubted rejection,
\* and nothing comes of an operation that was not sent.
Told ==
  \A m \in Mint :
    /\ m \notin sent => issuance[m] = "none"
    /\ ledger[m] = "rejected" /\ m \notin doubted => issuance[m] \in {"none", "expired"}
    /\ ledger[m] = "succeeded" => issuance[m] \in Settled

\* A call settles nothing but what is late.
Waited == \A c \in Call : todo[c] \subseteq Late

\* A mint in its own part of mintRecorded has its record to itself; before,
\* its operation has no record.
Own ==
  \A m \in Mint :
    /\ call[m].at \in {"never", "idle", "settling"} => ledger[m] = "absent" /\ m \notin sent
    /\ call[m].at \in Reconciling /\ call[m].op # m => ledger[m] = "absent" /\ m \notin sent
    /\ call[m].at = "prepared" => ledger[m] = "prepared" /\ m \notin sent
    /\ call[m].at = "sending" => ledger[m] = "submitted" /\ m \notin sent
    /\ call[m].at = "answered" => ledger[m] = "submitted"
    /\ call[m].at \in {"prepared", "sending", "answered"} => call[m].op = m

\* What a call has heard, and is about to write, is true of the issuance.
HeardOf(c) ==
  /\ call[c].at \in {"prepared", "sending", "answered"} => c \in Mint
  /\ call[c].at = "answered" =>
       /\ call[c].said = "issued" => issuance[c] \in Settled
       /\ call[c].said = "refused" => issuance[c] = "none"
       /\ call[c].said = "conflict" => issuance[c] = "expired"
  /\ call[c].at \in Reconciling =>
       /\ call[c].op \in Late
       /\ call[c].at = "found" =>
            /\ call[c].said = "issued" => issuance[call[c].op] \in Settled
            /\ call[c].said = "expired" => issuance[call[c].op] = "expired"
            /\ call[c].said = "none" => issuance[call[c].op] = "none"
       /\ call[c].at = "replaying" => issuance[call[c].op] \in Settled
       /\ call[c].at = "replayed" =>
            /\ call[c].said = "issued" => issuance[call[c].op] \in Settled
            /\ call[c].said = "conflict" => issuance[call[c].op] = "expired"
       /\ call[c].at = "succeeding" => issuance[call[c].op] \in Settled
       /\ call[c].at = "rejecting" => issuance[call[c].op] \in {"none", "expired"}

Heard == \A c \in Call : HeardOf(c)

\* No reconcile command has run.
Alone == \A p \in Pass : call[p].at \in {"never", "idle"}

\* A mint past writeAction's check, with no other process about, still finds
\* the record as the check did.
Checked ==
  Alone =>
    \A m \in Mint :
      /\ call[m].at = "succeeding" => ledger[call[m].op] # "rejected"
      /\ call[m].at = "rejecting" => ledger[call[m].op] # "succeeded"

Inv == TypeOK /\ Told /\ Waited /\ Own /\ Heard

-----------------------------------------------------------------------------
(* Types. *)

USE DEF Call

\* How a call leaves an operation that it could not settle.
Ends(c) ==
  \/ Leaves(c, "settling") /\ UNCHANGED todo /\ call[c].op # c
  \/ Leaves(c, "done") /\ todo' = [todo EXCEPT ![c] = {}]

\* The locals of a call.
LEMMA InHand ==
  ASSUME Inv, NEW c \in Call
  PROVE  /\ call[c].at \in Places /\ call[c].op \in Mint \cup {NoOperation} /\ call[c].said \in Answers
         /\ todo[c] \subseteq Mint
         /\ call[c].at \in Reconciling => call[c].op \in Late
BY DEF Inv, TypeOK, Heard, HeardOf

\* A reconciliation that fails ends its call, or goes on to the next operation.
LEMMA Failing ==
  ASSUME Inv, NEW c \in Call, call[c].at \in Reconciling, Fails(c)
  PROVE  Ends(c)
BY InHand, CallAssumption DEF Fails, Ends, Late

\* What a lookup's answer leads to, and what is then so.
LEMMA Deciding ==
  ASSUME Inv, NEW c \in Call, Decide(c)
  PROVE  \/ Goes(c, "replaying") /\ UNCHANGED todo /\ call[c].said = "issued"
         \/ /\ Goes(c, "rejecting") /\ UNCHANGED todo
            /\ issuance[call[c].op] \in {"none", "expired"}
            /\ ledger[call[c].op] # "succeeded"
         \/ Ends(c)
<1>1. call[c].at = "found" /\ call[c].at \in Reconciling
  BY DEF Decide, At, Reconciling
<1>2. CASE Live(c) /\ Goes(c, "replaying") /\ UNCHANGED todo
  BY <1>2 DEF Live
<1>3. CASE /\ ~Live(c) /\ call[c].said \in {"issued", "expired", "none"}
           /\ Settles(c, "rejecting", "rejected")
  <2>1. issuance[call[c].op] \in {"none", "expired"}
    BY <1>1, <1>3 DEF Live, Inv, Heard, HeardOf
  <2> QED BY <1>1, <1>3, <2>1, Failing DEF Settles, MayBecome, Terminal
<1>4. CASE Fails(c)
  BY <1>1, <1>4, Failing
<1> QED BY <1>2, <1>3, <1>4 DEF Decide

\* What a replay's answer leads to, and what is then so.
LEMMA TakingReplay ==
  ASSUME Inv, NEW c \in Call, TakeReplay(c)
  PROVE  \/ /\ Goes(c, "succeeding") /\ UNCHANGED todo
            /\ issuance[call[c].op] \in Settled
            /\ ledger[call[c].op] # "rejected"
         \/ /\ Goes(c, "rejecting") /\ UNCHANGED todo
            /\ issuance[call[c].op] = "expired"
            /\ ledger[call[c].op] # "succeeded"
         \/ Ends(c)
<1>1. call[c].at = "replayed" /\ call[c].at \in Reconciling
  BY DEF TakeReplay, At, Reconciling
<1>2. CASE call[c].said = "issued" /\ Settles(c, "succeeding", "succeeded")
  <2>1. issuance[call[c].op] \in Settled
    BY <1>1, <1>2 DEF Inv, Heard, HeardOf
  <2> QED BY <1>1, <1>2, <2>1, Failing DEF Settles, MayBecome, Terminal
<1>3. CASE call[c].said \in Conflict /\ Settles(c, "rejecting", "rejected")
  <2>1. issuance[call[c].op] = "expired"
    BY <1>1, <1>3 DEF Inv, Heard, HeardOf, Conflict
  <2> QED BY <1>1, <1>3, <2>1, Failing DEF Settles, MayBecome, Terminal
<1>4. CASE Fails(c)
  BY <1>1, <1>4, Failing
<1> QED BY <1>2, <1>3, <1>4 DEF TakeReplay

\* The places, operations and answers calls take are such.
LEMMA TypeStep ==
  ASSUME Inv, [Next]_vars
  PROVE  TypeOK'
<1> USE CallAssumption DEF Inv, TypeOK, States, Terminal, Outcomes, Answers, Places
<1>1. ASSUME NEW m \in Mint, Mints(m)
      PROVE  TypeOK'
  <2>1. CASE Begin(m)
    BY <2>1 DEF Begin, At, Leaves, Left, Unknown, kept
  <2>2. CASE Prepare(m)
    BY <2>2 DEF Prepare, At, Takes, Records
  <2>3. CASE Submit(m)
    BY <2>3 DEF Submit, At, Goes, Takes, Records
  <2>4. CASE Send(m)
    <3>1. CASE Requests(m, m, "answered")
      <4>1. PICK answer \in Answers \cup {"failed", "garbled"} : Hears(m, "answered", answer)
        BY <3>1 DEF Requests
      <4>2. call' \in [Call -> [at : Places, op : Mint \cup {NoOperation}, said : Answers]]
        BY <4>1, InHand DEF Hears
      <4>3. issuance' \in [Mint -> Outcomes] /\ faults' \in Nat
        BY <3>1 DEF Requests, Handles, Fault
      <4> QED BY <3>1, <4>2, <4>3 DEF Requests
    <3>2. CASE NeverSent(m, "answered")
      BY <3>2, InHand DEF NeverSent, Hears, Fault, kept
    <3> QED BY <2>4, <3>1, <3>2 DEF Send
  <2>5. CASE RecordIssued(m)
    BY <2>5 DEF RecordIssued, At, Leaves, Left, Records
  <2>6. CASE RecordRefused(m)
    BY <2>6 DEF RecordRefused, At, Leaves, Left, Records
  <2>7. CASE RecordUnknown(m)
    BY <2>7 DEF RecordUnknown, At, Goes, Takes, Records
  <2>8. CASE WriteFails(m)
    BY <2>8, InHand DEF WriteFails, Leaves, Left, Hears, Fault, kept
  <2> QED BY <1>1, <2>1, <2>2, <2>3, <2>4, <2>5, <2>6, <2>7, <2>8 DEF Mints
<1>2. ASSUME NEW c \in Call, Reconciles(c)
      PROVE  TypeOK'
  <2>0. /\ call[c].op \in Mint \cup {NoOperation} /\ todo[c] \subseteq Mint
        /\ call[c].at \in Reconciling => call[c].op \in Mint
    BY InHand DEF Late
  <2> USE <2>0 DEF Leaves, Left, Takes, Goes, Reconciling
  <2>a. ASSUME Ends(c)
        PROVE  /\ call' \in [Call -> [at : Places, op : Mint \cup {NoOperation}, said : Answers]]
               /\ todo' \in [Call -> SUBSET Mint]
    BY <2>a DEF Ends
  <2>1. CASE Reconcile(c)
    <3>1. PICK o \in todo[c] :
            /\ todo' = [todo EXCEPT ![c] = @ \ {o}]
            /\ IF ledger[o] = "unknown" THEN Takes(c, "looking", o) ELSE Leaves(c, "settling")
      BY <2>1 DEF Reconcile
    <3> QED BY <2>1, <3>1 DEF Reconcile, At, kept
  <2>2. CASE LookUp(c)
    BY <2>2 DEF LookUp, At, Hears, Fault, kept
  <2>3. CASE Decide(c)
    <3>1. UNCHANGED <<kept, issuance, faults>>
      BY <2>3 DEF Decide
    <3>2. /\ call' \in [Call -> [at : Places, op : Mint \cup {NoOperation}, said : Answers]]
          /\ todo' \in [Call -> SUBSET Mint]
      BY <2>3, <2>a, Deciding
    <3> QED BY <3>1, <3>2 DEF kept
  <2>4. CASE Replay(c)
    <3>1. CASE Requests(c, call[c].op, "replayed")
      <4>1. PICK answer \in Answers \cup {"failed", "garbled"} : Hears(c, "replayed", answer)
        BY <3>1 DEF Requests
      <4>2. call' \in [Call -> [at : Places, op : Mint \cup {NoOperation}, said : Answers]]
        BY <4>1 DEF Hears
      <4>3. issuance' \in [Mint -> Outcomes] /\ faults' \in Nat
        BY <3>1 DEF Requests, Handles, Fault
      <4> QED BY <2>4, <3>1, <4>2, <4>3 DEF Replay, At, Requests
    <3>2. CASE NeverSent(c, "replayed")
      BY <3>2 DEF NeverSent, Hears, Fault, kept
    <3> QED BY <2>4, <3>1, <3>2 DEF Replay
  <2>5. CASE TakeReplay(c)
    <3>1. UNCHANGED <<kept, issuance, faults>>
      BY <2>5 DEF TakeReplay
    <3>2. /\ call' \in [Call -> [at : Places, op : Mint \cup {NoOperation}, said : Answers]]
          /\ todo' \in [Call -> SUBSET Mint]
      <4>1. \/ Ends(c)
            \/ \E place \in {"succeeding", "rejecting"} : Goes(c, place) /\ UNCHANGED todo
        BY <2>5, TakingReplay
      <4> QED BY <2>a, <4>1
    <3> QED BY <3>1, <3>2 DEF kept
  <2>6. CASE RenameSucceeded(c)
    BY <2>6 DEF RenameSucceeded, At, Returns, Records
  <2>7. CASE RenameRejected(c)
    <3>1. call[c].at \in Reconciling
      BY <2>7 DEF RenameRejected, At
    <3>2. Ends(c)
      BY <2>7, <3>1, Failing DEF RenameRejected
    <3> QED BY <2>7, <2>a, <3>1, <3>2 DEF RenameRejected, Records
  <2>8. CASE RenameFails(c)
    <3>1. call[c].at \in Reconciling
      BY <2>8 DEF RenameFails, At
    <3>2. Ends(c)
      BY <2>8, <3>1, Failing DEF RenameFails
    <3> QED BY <2>8, <2>a, <3>2 DEF RenameFails, Fault, kept
  <2> QED BY <1>2, <2>1, <2>2, <2>3, <2>4, <2>5, <2>6, <2>7, <2>8 DEF Reconciles
<1>3. ASSUME NEW m \in Mint, Expire(m) \/ HoldEnds(m)
      PROVE  TypeOK'
  BY <1>3 DEF Expire, HoldEnds, kept
<1>4. ASSUME NEW p \in Pass, BeginPass(p) \/ EndPass(p)
      PROVE  TypeOK'
  <2>1. CASE BeginPass(p)
    BY <2>1 DEF BeginPass, Leaves, Left, Unknown, kept
  <2>2. CASE EndPass(p)
    BY <2>2 DEF EndPass, Leaves, Left, kept
  <2> QED BY <1>4, <2>1, <2>2
<1>5. ASSUME NEW process, Dies(process)
      PROVE  TypeOK'
  <2>1. \A c \in Call : /\ call'[c] \in {Left("dead"), call[c]}
                        /\ todo'[c] \in {{}, todo[c]}
    BY <1>5 DEF Dies
  <2>2. call' \in [Call -> [at : Places, op : Mint \cup {NoOperation}, said : Answers]]
    BY <1>5, <2>1 DEF Dies, Left
  <2>3. todo' \in [Call -> SUBSET Mint]
    BY <1>5, <2>1 DEF Dies
  <2> QED BY <1>5, <2>2, <2>3 DEF Dies, Fault, kept
<1>6. CASE UNCHANGED vars
  BY <1>6 DEF vars
<1> QED BY <1>1, <1>2, <1>3, <1>4, <1>5, <1>6 DEF Next, Rests

-----------------------------------------------------------------------------
(* The invariant. *)

\* The parts of the invariant in an initial state.
LEMMA InvInit ==
  ASSUME Init
  PROVE  Inv
<1>1. TypeOK
  BY CallAssumption, CourseAssumption DEF Init, TypeOK, Left, States, Terminal, Outcomes, Answers, Places
<1>2. \A c \in Call : call[c].at \in {"never", "idle"} /\ todo[c] = {}
  BY DEF Init, Left
<1>3. Told /\ Waited /\ Own /\ Heard
  BY <1>2 DEF Init, Told, Waited, Own, Heard, HeardOf, Reconciling
<1> QED BY <1>1, <1>3 DEF Inv

\* A mint's own steps.
LEMMA InvMints ==
  ASSUME Inv, TypeOK', NEW m \in Mint, Mints(m)
  PROVE  Inv'
<1> USE CallAssumption DEF Inv, TypeOK, Terminal, Late, Settled, Reconciling, Outcomes
<1>1. CASE Begin(m)
  <2> USE <1>1 DEF Begin, At, Leaves, Left, kept
  <2>1. Told'
    BY DEF Told
  <2>2. Waited'
    BY DEF Waited, Unknown
  <2>3. Own'
    BY DEF Own
  <2>4. Heard'
    BY DEF Heard, HeardOf
  <2> QED BY <2>1, <2>2, <2>3, <2>4
<1>2. CASE Prepare(m)
  <2> USE <1>2 DEF Prepare, At, Takes, Records
  <2>0. ledger[m] = "absent" /\ m \notin sent
    BY DEF Own
  <2>1. Told'
    BY <2>0 DEF Told
  <2>2. Waited'
    BY <2>0 DEF Waited
  <2>3. Own'
    BY <2>0 DEF Own, Heard, HeardOf
  <2>4. Heard'
    BY <2>0 DEF Heard, HeardOf
  <2> QED BY <2>1, <2>2, <2>3, <2>4
<1>3. CASE Submit(m)
  <2> USE <1>3 DEF Submit, At, Goes, Takes, Records
  <2>0. call[m].op = m /\ ledger[m] = "prepared" /\ m \notin sent
    BY DEF Own
  <2>1. Told'
    BY <2>0 DEF Told
  <2>2. Waited'
    BY <2>0 DEF Waited
  <2>3. Own'
    BY <2>0 DEF Own, Heard, HeardOf
  <2>4. Heard'
    BY <2>0 DEF Heard, HeardOf
  <2> QED BY <2>1, <2>2, <2>3, <2>4
<1>4. CASE Send(m)
  <2> USE <1>4 DEF Send, At, Requests, NeverSent, Handles, Hears, kept
  <2>0. call[m].op = m /\ ledger[m] = "submitted" /\ m \notin sent /\ issuance[m] = "none"
    BY DEF Own, Told
  <2>1. Told'
    BY <2>0 DEF Told
  <2>2. Waited'
    BY <2>0 DEF Waited
  <2>3. Own'
    BY <2>0 DEF Own, Heard, HeardOf
  <2>4. ASSUME NEW d \in Call \ {m}
        PROVE  HeardOf(d)'
    <3>1. call'[d] = call[d] /\ HeardOf(d)
      BY DEF Heard
    <3>2. \A o \in Mint \ {m} : issuance'[o] = issuance[o]
      OBVIOUS
    <3>3. call[d].at \in Reconciling => call[d].op # m
      BY <2>0, <3>1 DEF HeardOf
    <3>4. call[d].at = "answered" => d \in Mint
      BY <3>1 DEF HeardOf
    <3> QED BY <2>0, <3>1, <3>2, <3>3, <3>4 DEF HeardOf
  <2>5. HeardOf(m)'
    <3>1. call'[m].at = "answered" /\ (call'[m].said = "issued" => issuance'[m] = "issued")
      OBVIOUS
    <3>2. call'[m].said = "refused" => issuance'[m] = "none"
      BY <2>0
    <3>3. call'[m].said # "conflict"
      BY <2>0
    <3> QED BY <3>1, <3>2, <3>3 DEF HeardOf
  <2>6. Heard'
    BY <2>4, <2>5 DEF Heard
  <2> QED BY <2>1, <2>2, <2>3, <2>6
<1>5. CASE RecordIssued(m)
  <2> USE <1>5 DEF RecordIssued, At, Leaves, Left, Records
  <2>0. call[m].op = m /\ ledger[m] = "submitted" /\ issuance[m] \in Settled
    BY DEF Own, Heard, HeardOf
  <2>1. Told'
    BY <2>0 DEF Told
  <2>2. Waited'
    BY <2>0 DEF Waited
  <2>3. Own'
    BY <2>0 DEF Own, Heard, HeardOf
  <2>4. Heard'
    BY <2>0 DEF Heard, HeardOf
  <2> QED BY <2>1, <2>2, <2>3, <2>4
<1>6. CASE RecordRefused(m)
  <2> USE <1>6 DEF RecordRefused, At, Leaves, Left, Records
  <2>0. /\ call[m].op = m /\ ledger[m] = "submitted"
        /\ m \notin doubted' => issuance[m] \in {"none", "expired"}
        /\ doubted \subseteq doubted'
    BY DEF Own, Heard, HeardOf
  <2>1. Told'
    BY <2>0 DEF Told
  <2>2. Waited'
    BY <2>0 DEF Waited
  <2>3. Own'
    BY <2>0 DEF Own, Heard, HeardOf
  <2>4. Heard'
    BY <2>0 DEF Heard, HeardOf
  <2> QED BY <2>1, <2>2, <2>3, <2>4
<1>7. CASE RecordUnknown(m)
  <2> USE <1>7 DEF RecordUnknown, At, Goes, Takes, Records
  <2>0. call[m].op = m /\ ledger[m] = "submitted"
    BY DEF Own
  <2>1. Told'
    BY <2>0 DEF Told
  <2>2. Waited'
    BY <2>0 DEF Waited
  <2>3. Own'
    BY <2>0 DEF Own, Heard, HeardOf
  <2>4. Heard'
    BY <2>0 DEF Heard, HeardOf
  <2> QED BY <2>1, <2>2, <2>3, <2>4
<1>8. CASE WriteFails(m)
  <2> USE <1>8 DEF WriteFails, At, Leaves, Left, Hears, kept
  <2>1. Told'
    BY DEF Told
  <2>2. Waited'
    BY DEF Waited
  <2>3. Own'
    BY DEF Own
  <2>4. Heard'
    BY DEF Heard, HeardOf
  <2> QED BY <2>1, <2>2, <2>3, <2>4
<1> QED BY <1>1, <1>2, <1>3, <1>4, <1>5, <1>6, <1>7, <1>8 DEF Mints

\* A call leaves its operation, with no record touched but of its own
\* operation, which has been unknown.
LEMMA InvEnds ==
  ASSUME Inv, TypeOK', NEW c \in Call, call[c].at \in Reconciling, Ends(c),
         UNCHANGED <<ledger, issuance, sent, doubted>>
  PROVE  Inv'
<1> USE CallAssumption, InHand DEF Inv, TypeOK, Terminal, Late, Settled, Reconciling, Ends, Leaves, Left
<1>0. /\ call'[c].at \in {"settling", "done"}
      /\ \A d \in Call \ {c} : call'[d] = call[d]
  OBVIOUS
<1>1. Told'
  BY DEF Told
<1>2. Waited'
  BY DEF Waited
<1>3. Own'
  BY DEF Own
<1>4. HeardOf(c)'
  BY <1>0 DEF HeardOf
<1>5. ASSUME NEW d \in Call \ {c}
      PROVE  HeardOf(d)'
  BY <1>0 DEF Heard, HeardOf
<1>6. Heard'
  BY <1>4, <1>5 DEF Heard
<1> QED BY <1>1, <1>2, <1>3, <1>6

\* Steps of reconcileCredential.
LEMMA InvReconciles ==
  ASSUME Inv, TypeOK', NEW c \in Call, Reconciles(c)
  PROVE  Inv'
<1>0. /\ call[c].op \in Mint \cup {NoOperation} /\ todo[c] \subseteq Late
      /\ call[c].at \in Reconciling => call[c].op \in Late
  BY InHand DEF Inv, Waited
<1> USE <1>0, CallAssumption DEF Inv, TypeOK, Terminal, Late, Settled, Reconciling, Outcomes
<1>1. CASE Reconcile(c)
  <2> USE <1>1 DEF Reconcile, At, Takes, Leaves, Left, kept
  <2>1. Told'
    BY DEF Told
  <2>2. Waited'
    BY DEF Waited
  <2>3. Own'
    BY DEF Own
  <2>4. Heard'
    BY DEF Heard, HeardOf
  <2> QED BY <2>1, <2>2, <2>3, <2>4
<1>2. CASE LookUp(c)
  <2> USE <1>2 DEF LookUp, At, Hears, kept
  <2>1. Told'
    BY DEF Told
  <2>2. Waited'
    BY DEF Waited
  <2>3. Own'
    BY DEF Own
  <2>4. Heard'
    BY DEF Heard, HeardOf
  <2> QED BY <2>1, <2>2, <2>3, <2>4
<1>3. ASSUME NEW place \in {"replaying", "succeeding", "rejecting"}, Goes(c, place),
             call[c].at \in Reconciling,
             place = "rejecting" => issuance[call[c].op] \in {"none", "expired"},
             place # "rejecting" => issuance[call[c].op] \in Settled,
             UNCHANGED <<ledger, issuance, sent, todo, doubted>>
      PROVE  Inv'
  <2> USE <1>3 DEF Goes, Takes
  <2>1. Told'
    BY DEF Told
  <2>2. Waited'
    BY DEF Waited
  <2>3. Own'
    BY DEF Own
  <2>4. Heard'
    BY DEF Heard, HeardOf
  <2> QED BY <2>1, <2>2, <2>3, <2>4
<1>4. CASE Decide(c)
  <2>1. /\ call[c].at = "found" /\ UNCHANGED <<ledger, issuance, sent, doubted>>
        /\ call[c].said = "issued" => issuance[call[c].op] \in Settled
    BY <1>4 DEF Decide, At, Heard, HeardOf, kept
  <2> QED BY <2>1, <1>3, <1>4, Deciding, InvEnds
<1>5. CASE Replay(c)
  <2>0. /\ call[c].at = "replaying" /\ issuance[call[c].op] \in Settled /\ call[c].op \in Mint
        /\ call[c].op \in sent
    BY <1>5 DEF Replay, At, Heard, HeardOf, Told
  <2> USE <1>5, <2>0 DEF Replay, Requests, NeverSent, Handles, Hears, kept
  <2>1. Told'
    BY DEF Told
  <2>2. Waited'
    BY DEF Waited
  <2>3. Own'
    BY DEF Own
  <2>4. Heard'
    BY DEF Heard, HeardOf
  <2> QED BY <2>1, <2>2, <2>3, <2>4
<1>6. CASE TakeReplay(c)
  <2>1. call[c].at = "replayed" /\ UNCHANGED <<ledger, issuance, sent, doubted>>
    BY <1>6 DEF TakeReplay, At, kept
  <2> QED BY <2>1, <1>3, <1>6, TakingReplay, InvEnds
<1>7. CASE RenameSucceeded(c)
  <2>0. call[c].op \in Late /\ issuance[call[c].op] \in Settled /\ call[c].at = "succeeding"
    BY <1>7 DEF RenameSucceeded, At, Heard, HeardOf
  <2> USE <1>7, <2>0 DEF RenameSucceeded, Records, Returns, Leaves, Left
  <2>1. Told'
    BY DEF Told
  <2>2. Waited'
    BY DEF Waited
  <2>3. Own'
    BY DEF Own
  <2>4. ASSUME NEW d \in Call
        PROVE  HeardOf(d)'
    <3>1. Late' = Late
      OBVIOUS
    <3>2. call'[c].at \in {"settling", "done"} /\ (d # c => call'[d] = call[d])
      OBVIOUS
    <3> QED BY <3>1, <3>2 DEF Heard, HeardOf
  <2>5. Heard'
    BY <2>4 DEF Heard
  <2> QED BY <2>1, <2>2, <2>3, <2>5
<1>8. CASE RenameRejected(c)
  <2>0. /\ call[c].op \in Late /\ issuance[call[c].op] \in {"none", "expired"}
        /\ call[c].at = "rejecting"
    BY <1>8 DEF RenameRejected, At, Heard, HeardOf
  <2>a. Ends(c)
    BY <1>8, <2>0, Failing DEF RenameRejected
  <2> USE <1>8, <2>0, <2>a DEF RenameRejected, Records, Ends, Leaves, Left
  <2>1. Told'
    BY DEF Told
  <2>2. Waited'
    BY DEF Waited
  <2>3. Own'
    BY DEF Own
  <2>4. Heard'
    BY DEF Heard, HeardOf
  <2> QED BY <2>1, <2>2, <2>3, <2>4
<1>9. CASE RenameFails(c)
  <2>1. call[c].at \in Reconciling /\ UNCHANGED <<ledger, issuance, sent, doubted>>
    BY <1>9 DEF RenameFails, At, kept
  <2> QED BY <2>1, <1>9, Failing, InvEnds DEF RenameFails
<1> QED BY <1>1, <1>2, <1>4, <1>5, <1>6, <1>7, <1>8, <1>9 DEF Reconciles

\* The service's own steps.
LEMMA InvService ==
  ASSUME Inv, TypeOK', NEW m \in Mint, Expire(m) \/ HoldEnds(m)
  PROVE  Inv'
<1> USE DEF Inv, TypeOK, Settled, Expire, HoldEnds, kept
<1>1. Told'
  BY DEF Told
<1>2. Waited'
  BY DEF Waited, Late
<1>3. Own'
  BY DEF Own
<1>4. Heard'
  BY DEF Heard, HeardOf, Late
<1> QED BY <1>1, <1>2, <1>3, <1>4

\* A pass begins or ends.
LEMMA InvPass ==
  ASSUME Inv, TypeOK', NEW p \in Pass, BeginPass(p) \/ EndPass(p)
  PROVE  Inv'
<1> USE CallAssumption DEF Inv, TypeOK, BeginPass, EndPass, At, Leaves, Left, Unknown, Late, kept, Reconciling
<1>0. /\ call'[p].at \in {"settling", "done"}
      /\ \A d \in Call \ {p} : call'[d] = call[d]
  OBVIOUS
<1>1. Told'
  BY DEF Told
<1>2. Waited'
  BY DEF Waited
<1>3. Own'
  BY DEF Own
<1>4. Heard'
  BY <1>0 DEF Heard, HeardOf
<1> QED BY <1>1, <1>2, <1>3, <1>4

\* A process dies.
LEMMA InvDies ==
  ASSUME Inv, TypeOK', NEW process, Dies(process)
  PROVE  Inv'
<1>1. /\ UNCHANGED <<ledger, issuance, sent, doubted>>
      /\ \A c \in Call : /\ call'[c] = call[c] \/ call'[c].at = "dead"
                         /\ todo'[c] \subseteq todo[c]
  BY DEF Dies, Left, kept
<1>2. Told'
  BY <1>1 DEF Inv, Told
<1>3. Waited'
  BY <1>1 DEF Inv, Waited, Late
<1>4. Own'
  BY <1>1 DEF Inv, Own, Reconciling
<1>5. Heard'
  BY <1>1 DEF Inv, Heard, HeardOf, Reconciling, Late
<1> QED BY <1>2, <1>3, <1>4, <1>5 DEF Inv

\* The parts of the invariant after a step.
LEMMA InvNext ==
  ASSUME Inv, [Next]_vars
  PROVE  Inv'
<1>1. TypeOK'
  BY TypeStep
<1>2. ASSUME NEW m \in Mint, Mints(m) \/ Expire(m) \/ HoldEnds(m)
      PROVE  Inv'
  BY <1>1, <1>2, InvMints, InvService
<1>3. ASSUME NEW c \in Call, Reconciles(c)
      PROVE  Inv'
  BY <1>1, <1>3, InvReconciles
<1>4. ASSUME NEW p \in Pass, BeginPass(p) \/ EndPass(p)
      PROVE  Inv'
  BY <1>1, <1>4, InvPass
<1>5. ASSUME NEW process, Dies(process)
      PROVE  Inv'
  BY <1>1, <1>5, InvDies
<1>6. CASE UNCHANGED vars
  BY <1>6 DEF vars, Inv, TypeOK, Told, Waited, Late, Own, Heard, HeardOf
<1> QED BY <1>2, <1>3, <1>4, <1>5, <1>6 DEF Next, Rests

\* What records say, and what calls have heard and are about to write, is true
\* of the issuances throughout.
THEOREM Invariance == Spec => []Inv
<1>1. Init => Inv
  BY InvInit
<1>2. Inv /\ [Next]_vars => Inv'
  BY InvNext
<1> QED BY <1>1, <1>2, PTL DEF Spec

-----------------------------------------------------------------------------
(* Theorems. *)

\* Records, calls and outcomes have their types.
THEOREM Types == Spec => []TypeOK
BY Invariance, PTL DEF Inv

\* Whatever calls, answers, writes and processes fail, the ledger settles no
\* operation as something it did not become, but for a mint's own rejection
\* of an answer that it could not believe or record.
THEOREM Settling == Spec => []SettledAsItWas
<1>1. Inv => SettledAsItWas
  BY DEF Inv, Told, SettledAsItWas, Settled
<1> QED BY <1>1, Invariance, PTL

\* No operation with an outcome that went missing is sent again.
THEOREM NoBlindRetry == Spec => NeverSentBlind
<1> DEFINE Blind(c) ==
      /\ call[c].at \in {"sending", "replaying"} /\ call'[c].at \in {"answered", "replayed"}
      /\ call[c].op \in sent
      => issuance[call[c].op] \in Settled
<1>1. ASSUME Inv, NEW c \in Call
      PROVE  Blind(c)
  <2>1. CASE call[c].at = "sending"
    BY <1>1, <2>1 DEF Inv, Heard, HeardOf, Own
  <2>2. CASE call[c].at = "replaying"
    BY <1>1, <2>2 DEF Inv, Heard, HeardOf, Reconciling
  <2> QED BY <2>1, <2>2
<1>2. Inv => [\A c \in Call : Blind(c)]_vars
  BY <1>1
<1>3. Spec => [][\A c \in Call : Blind(c)]_vars
  BY <1>2, Invariance, PTL
<1> QED BY <1>3 DEF NeverSentBlind, Settled

\* While only the daemon has run, no other call takes a step between the
\* check of a write and its rename.
LEMMA CheckedInit ==
  ASSUME Init
  PROVE  Checked
<1>1. \A c \in Call : call[c].at \in {"never", "idle"}
  BY DEF Init, Left
<1> QED BY <1>1 DEF Checked

\* A step of c alone, that keeps the daemon's other calls out of a write.
StepOf(c) ==
  /\ MayStep(c)
  /\ \A d \in Call \ {c} : call'[d] = call[d]
  /\ call'[c].at \notin {"never", "idle"}

\* A mint's own steps touch no record that is settled.
LEMMA MintSteps ==
  ASSUME Inv, NEW m \in Mint, Mints(m)
  PROVE  /\ StepOf(m)
         /\ call'[m].at \notin Writing
         /\ \A o \in Mint : ledger[o] \in Terminal => ledger'[o] = ledger[o]
<1> USE DEF Inv, TypeOK, StepOf, At, Writing, Terminal, Leaves, Left, Goes, Takes, Records, kept
<1>1. CASE Begin(m)
  BY <1>1 DEF Begin
<1>2. CASE Prepare(m)
  BY <1>2 DEF Prepare, Own
<1>3. CASE Submit(m)
  BY <1>3 DEF Submit, Own
<1>4. CASE Send(m)
  BY <1>4 DEF Send, Requests, NeverSent, Hears
<1>5. CASE RecordIssued(m) \/ RecordRefused(m)
  BY <1>5 DEF RecordIssued, RecordRefused, Own
<1>6. CASE RecordUnknown(m)
  BY <1>6 DEF RecordUnknown, Own
<1>7. CASE WriteFails(m)
  BY <1>7 DEF WriteFails, Hears
<1> QED BY <1>1, <1>2, <1>3, <1>4, <1>5, <1>6, <1>7 DEF Mints

\* Steps of reconcileCredential but its renames leave the ledger; one that
\* is about to rename has checked.
LEMMA ReconcileSteps ==
  ASSUME Inv, NEW c \in Call, Reconciles(c)
  PROVE  /\ StepOf(c)
         /\ call[c].at \notin {"never", "idle"}
         /\ \/ /\ UNCHANGED ledger
               /\ call'[c].at = "succeeding" => ledger[call'[c].op] # "rejected"
               /\ call'[c].at = "rejecting" => ledger[call'[c].op] # "succeeded"
            \/ /\ call[c].at \in Writing /\ call'[c].at \notin Writing
               /\ ledger' = [ledger EXCEPT ![call[c].op] =
                               IF call[c].at = "succeeding" THEN "succeeded" ELSE "rejected"]
<1>a. ASSUME Ends(c)
      PROVE  /\ \A d \in Call \ {c} : call'[d] = call[d]
             /\ call'[c].at \in {"settling", "done"}
  BY <1>a DEF Ends, Leaves, Left, Inv, TypeOK
<1>b. ASSUME NEW place, Goes(c, place)
      PROVE  /\ \A d \in Call \ {c} : call'[d] = call[d]
             /\ call'[c].at = place /\ call'[c].op = call[c].op
  BY <1>b DEF Goes, Takes, Inv, TypeOK
<1>c. call[c].at \in Reconciling \/ call[c].at = "settling"
  BY DEF Reconciles, Reconcile, LookUp, Decide, Replay, TakeReplay, RenameSucceeded,
         RenameRejected, RenameFails, At, Reconciling
<1>d. MayStep(c)
  BY DEF Reconciles, Reconcile, LookUp, Decide, Replay, TakeReplay, RenameSucceeded,
         RenameRejected, RenameFails, At
<1> USE <1>c, <1>d DEF StepOf, Reconciling, Writing
<1>1. CASE Reconcile(c)
  BY <1>1 DEF Reconcile, Takes, Leaves, Left, kept, Inv, TypeOK
<1>2. CASE LookUp(c)
  BY <1>2 DEF LookUp, Hears, kept, Inv, TypeOK
<1>3. CASE Decide(c)
  <2>1. UNCHANGED ledger
    BY <1>3 DEF Decide, kept
  <2> QED BY <2>1, <1>3, <1>a, <1>b, Deciding
<1>4. CASE Replay(c)
  BY <1>4 DEF Replay, Requests, NeverSent, Hears, kept, Inv, TypeOK
<1>5. CASE TakeReplay(c)
  <2>1. UNCHANGED ledger
    BY <1>5 DEF TakeReplay, kept
  <2> QED BY <2>1, <1>5, <1>a, <1>b, TakingReplay
<1>6. CASE RenameSucceeded(c)
  <2>1. call[c].at = "succeeding" /\ ledger' = [ledger EXCEPT ![call[c].op] = "succeeded"]
    BY <1>6 DEF RenameSucceeded, At, Records
  <2>2. /\ \A d \in Call \ {c} : call'[d] = call[d]
        /\ call'[c].at \in {"settling", "done"}
    BY <1>6 DEF RenameSucceeded, Returns, Leaves, Left, Inv, TypeOK
  <2> QED BY <2>1, <2>2
<1>7. CASE RenameRejected(c)
  <2>1. call[c].at = "rejecting" /\ ledger' = [ledger EXCEPT ![call[c].op] = "rejected"]
    BY <1>7 DEF RenameRejected, At, Records
  <2>2. Ends(c)
    BY <1>7, <2>1, Failing DEF RenameRejected
  <2> QED BY <2>1, <2>2, <1>a
<1>8. CASE RenameFails(c)
  <2>1. call[c].at \in Writing /\ UNCHANGED ledger
    BY <1>8 DEF RenameFails, At, kept
  <2>2. Ends(c)
    BY <1>8, <2>1, Failing DEF RenameFails
  <2> QED BY <2>1, <2>2, <1>a
<1> QED BY <1>1, <1>2, <1>3, <1>4, <1>5, <1>6, <1>7, <1>8 DEF Reconciles

\* What a call checked before its rename is still so while no command has run.
LEMMA CheckedNext ==
  ASSUME Inv, Checked, [Next]_vars
  PROVE  Checked'
<1> SUFFICES ASSUME Alone'
             PROVE  \A m \in Mint :
                      /\ call'[m].at = "succeeding" => ledger'[call'[m].op] # "rejected"
                      /\ call'[m].at = "rejecting" => ledger'[call'[m].op] # "succeeded"
  BY DEF Checked
<1>1. ASSUME NEW m \in Mint, Mints(m)
      PROVE  \A d \in Mint : call'[d].at \notin Writing
  BY <1>1, MintSteps DEF StepOf, MayStep
<1>2. ASSUME NEW c \in Call, Reconciles(c)
      PROVE  \A d \in Mint :
               /\ call'[d].at = "succeeding" => ledger'[call'[d].op] # "rejected"
               /\ call'[d].at = "rejecting" => ledger'[call'[d].op] # "succeeded"
  <2>1. c \in Mint
    BY <1>2, ReconcileSteps DEF Alone, StepOf
  <2>2. \A d \in Mint \ {c} : call'[d].at \notin Writing
    BY <1>2, <2>1, ReconcileSteps DEF StepOf, MayStep
  <2> QED BY <1>2, <2>1, <2>2, ReconcileSteps DEF Writing
<1>3. ASSUME UNCHANGED ledger, \A c \in Call : call'[c] = call[c] \/ call'[c].at = "dead"
      PROVE  \A d \in Mint :
               /\ call'[d].at = "succeeding" => ledger'[call'[d].op] # "rejected"
               /\ call'[d].at = "rejecting" => ledger'[call'[d].op] # "succeeded"
  BY <1>3 DEF Alone, Checked
<1>4. ASSUME NEW m \in Mint, Expire(m) \/ HoldEnds(m)
      PROVE  UNCHANGED <<ledger, call>>
  BY <1>4 DEF Expire, HoldEnds, kept
<1>5. ASSUME NEW p \in Pass, BeginPass(p) \/ EndPass(p)
      PROVE  FALSE
  BY <1>5 DEF BeginPass, EndPass, Leaves, Left, Alone, Inv, TypeOK
<1>6. ASSUME NEW process, Dies(process)
      PROVE  UNCHANGED ledger /\ \A c \in Call : call'[c] = call[c] \/ call'[c].at = "dead"
  BY <1>6 DEF Dies, Left, kept
<1>7. CASE UNCHANGED vars
  BY <1>3, <1>7 DEF vars
<1> QED BY <1>1, <1>2, <1>3, <1>4, <1>5, <1>6, <1>7 DEF Next, Rests, Writing

\* A settled record stays as it is, while only the daemon has run.
LEMMA Settlement ==
  ASSUME Inv, Checked, [Next]_vars, Alone, NEW o \in Mint, ledger[o] \in Terminal
  PROVE  ledger'[o] = ledger[o]
<1>1. ASSUME NEW m \in Mint, Mints(m)
      PROVE  ledger'[o] = ledger[o]
  BY <1>1, MintSteps
<1>2. ASSUME NEW c \in Call, Reconciles(c)
      PROVE  ledger'[o] = ledger[o]
  <2>1. c \in Mint
    BY <1>2, ReconcileSteps DEF Alone
  <2>2. ledger \in [Mint -> States]
    BY DEF Inv, TypeOK
  <2> QED BY <1>2, <2>1, <2>2, ReconcileSteps DEF Checked, Writing, Terminal
<1>3. ASSUME NEW m \in Mint, Expire(m) \/ HoldEnds(m)
      PROVE  UNCHANGED ledger
  BY <1>3 DEF Expire, HoldEnds, kept
<1>4. ASSUME NEW p \in Pass, BeginPass(p) \/ EndPass(p)
      PROVE  UNCHANGED ledger
  BY <1>4 DEF BeginPass, EndPass, kept
<1>5. ASSUME NEW process, Dies(process)
      PROVE  UNCHANGED ledger
  BY <1>5 DEF Dies, kept
<1> QED BY <1>1, <1>2, <1>3, <1>4, <1>5 DEF Next, Rests, vars

\* However many mints settle an operation side by side, it is settled once.
THEOREM Finality == Spec => SettledForGood
<1>1. Init => Checked
  BY CheckedInit
<1>2. Inv /\ Checked /\ [Next]_vars => Checked'
  BY CheckedNext
<1>3. Inv /\ Checked /\ [Next]_vars =>
        [(\A p \in Pass : call[p].at \in {"never", "idle"}) =>
            \A m \in Mint : ledger[m] \in Terminal => ledger'[m] = ledger[m]]_vars
  BY Settlement DEF Alone
<1> QED BY <1>1, <1>2, <1>3, Invariance, PTL DEF Spec, SettledForGood
=============================================================================
