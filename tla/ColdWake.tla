------------------------------ MODULE ColdWake ------------------------------
(***************************************************************************)
(* The cold-wake path of the daemon for one soul: the per-soul wake        *)
(* dispatcher (wake-dispatch.mjs) and the cold waker (cold-wake.mjs) with  *)
(* its relay, as wake-plane.mjs wires them.  A wake that finds a flight    *)
(* active merges into it; the flight's loop reads the inbox until it is    *)
(* empty, and a scan reads it beside the loop for the owner reply a turn   *)
(* is waiting for.  Everything is keyed by agentId, so souls share nothing *)
(* here and one soul is the whole system.                                  *)
(***************************************************************************)
EXTENDS Integers, FiniteSets, Sequences, SequencesExt

CONSTANTS
    Ordinary,    \* messages a turn answers
    Tasks,       \* messages of kind task-event
    Replies,     \* messages carrying the owner's signed statement block
    KeptReplies, \* OWNER_REPLIES_KEPT
    Courses      \* what a run may meet: the mail to come, the wake settings in
                 \* use ("off", "turn" for ACP and resume, "webhook"), and the
                 \* bounds: calls of the broker, binding, executor that fail;
                 \* re-pairs, each one wake for the whole mailbox; times the
                 \* soul is paused, its setting changed, a warm socket armed,
                 \* its owner asked by a turn; daemon restarts

Message == Ordinary \union Tasks \union Replies
Lanes   == {"off", "turn", "webhook"}

\* What is left of a course; `met` says which failures it has met so far.
Budget == [mail : SUBSET Message, lanes : SUBSET Lanes, met : SUBSET {"faults", "crashes"},
           faults : Nat, repairs : Nat, pauses : Nat, settings : Nat, arms : Nat, asks : Nat,
           crashes : Nat]

ASSUME BoundsAssumption ==
    /\ KeptReplies \in Nat \ {0}
    /\ IsFiniteSet(Message) /\ IsFiniteSet(Courses)
    /\ Courses \subseteq Budget /\ \A c \in Courses : c.met = {}

\* Every flight is launched by a wake, so these bound the flights too.
Flight == 1 .. Max({Cardinality(c.mail) + c.repairs : c \in Courses})
Loop   == 0                      \* the reader that is the flight's own loop
Reader == Flight \union {Loop}   \* the others are the flights' scans

VARIABLES
    inbox,     \* the broker's unacked messages, in order of arrival
    arrived,   \* messages the broker has accepted
    wakes,     \* the dispatcher's queue for the soul: sets of message ids
    dispatch,  \* the wake being dispatched
    turn,      \* the flight: active.get(agentId), with its batch
    flown,     \* flights launched
    reader,    \* what the loop and each flight's scan are doing
    queued,    \* scans chained on each flight and not begun
    taken,     \* taken.get(agentId): owner replies seen, oldest first
    ackedOf,   \* those of them marked 'acked'
    noticed,   \* messages told about a sign-in failure
    ask,       \* the proposal of the running turn
    paused, setting, warm,
    budget,    \* the course, with what is left of each bound, and what was met
    merged,    \* messages whose wake merged into the active flight
    done,      \* messages the soul has dealt with
    count      \* per message: turns completed, hand-overs

mailVars     == <<inbox, arrived>>
soulVars     == <<paused, setting, warm>>
dispatchVars == <<arrived, wakes, dispatch, flown, soulVars>>
relayVars    == <<dispatchVars, queued, taken, ackedOf>>
replyVars    == <<taken, ackedOf, noticed, ask>>
flightVars   == <<dispatch, flown, turn, reader, merged, queued, replyVars>>
ghosts       == <<done, count>>
vars == <<inbox, arrived, wakes, dispatch, turn, flown, reader, queued, taken, ackedOf,
          noticed, ask, paused, setting, warm, budget, merged, done, count>>

-----------------------------------------------------------------------------
\* How far a dispatch, a flight and a reader can be.
DispatchAt == {"idle", "warm", "cold", "report"}
TurnAt     == {"none", "setup", "webhook", "relay"}
HandAt     == {"idle", "reading", "answered", "handing", "deciding", "confirming"}
MailAt     == {"mail", "briefing", "starting", "running", "asking", "replying",
               "telling", "acking", "dropping"}

NoTurn == [at |-> "none", lane |-> "off", batch |-> <<>>, ran |-> FALSE, signedOut |-> FALSE]
Idle   == [at |-> "idle", rest |-> <<>>]
Quiet  == [at |-> "idle", outcome |-> "none"]

Init ==
    /\ inbox = <<>> /\ arrived = {} /\ wakes = <<>> /\ dispatch = Quiet
    /\ turn = NoTurn /\ flown = 0
    /\ reader = [p \in Reader |-> Idle] /\ queued = [f \in Flight |-> 0]
    /\ taken = <<>> /\ ackedOf = {} /\ noticed = {} /\ ask = "none"
    /\ paused = FALSE /\ warm = FALSE
    /\ budget \in Courses /\ setting \in budget.lanes
    /\ merged = {} /\ done = {}
    /\ count = [m \in Message |-> [turns |-> 0, handed |-> 0]]

Spends(kind) ==
    /\ budget[kind] > 0
    /\ budget' = [budget EXCEPT ![kind] = @ - 1, !.met = @ \union ({kind} \intersect {"faults", "crashes"})]
Fault        == Spends("faults")
NoFault      == UNCHANGED budget
Counts(m, what) == count' = [count EXCEPT ![m][what] = @ + 1]

-----------------------------------------------------------------------------
\* Landing a flight.  land() runs in the microtasks of whatever ended it.
Land ==
    /\ turn' = NoTurn
    /\ reader' = [reader EXCEPT ![Loop] = Idle]
    /\ merged' = {}

\* The loop read an empty inbox: a turn that ran proves the sign-in.
Finished ==
    /\ Land
    /\ noticed' = IF turn.ran THEN {} ELSE noticed

-----------------------------------------------------------------------------
\* The broker and the owner (external).

\* A message is stored and its wake pushed; the push is lost when the daemon
\* is not connected.  An owner reply answers a challenge of an open proposal.
Arrive(m) ==
    /\ m \in budget.mail \ arrived
    /\ m \in Replies => ask = "open"
    /\ arrived' = arrived \union {m}
    /\ inbox' = Append(inbox, m)
    /\ \/ wakes' = Append(wakes, {m}) /\ NoFault
       \/ UNCHANGED wakes /\ Fault
    /\ UNCHANGED <<flightVars, soulVars, ghosts>>

\* On a re-pair the broker unions the mailbox's backlog into one wake.
Repair ==
    /\ inbox # <<>> /\ Spends("repairs")
    /\ wakes' = Append(wakes, ToSet(inbox))
    /\ UNCHANGED <<flightVars, soulVars, mailVars, ghosts>>

\* The owner pauses the soul, or lets it go on.
SetPaused ==
    /\ \/ ~paused /\ Spends("pauses")
       \/ paused /\ NoFault
    /\ paused' = ~paused
    /\ UNCHANGED <<flightVars, mailVars, ghosts, wakes, setting, warm>>

\* The owner changes the soul's cold-wake setting.
SetColdWake ==
    /\ Spends("settings")
    /\ setting' \in budget.lanes \ {setting}
    /\ UNCHANGED <<flightVars, mailVars, ghosts, wakes, paused, warm>>

\* A session of the soul arms a warm socket, or goes away.
SetWarm ==
    /\ \/ ~warm /\ Spends("arms")
       \/ warm /\ NoFault
    /\ warm' = ~warm
    /\ UNCHANGED <<flightVars, mailVars, ghosts, wakes, paused, setting>>

-----------------------------------------------------------------------------
\* dispatchWake and coldWake, up to their first await: no other step comes
\* between the pause check, the setting, the look at `active` and its write.

Reports(outcome) == dispatch' = [at |-> "report", outcome |-> outcome]

WakeIsWaiting ==
    /\ paused \/ (~warm /\ setting = "off")
    /\ Reports("waiting")
    /\ NoFault /\ UNCHANGED <<turn, flown, queued, merged>>

WakeGoesWarm ==
    /\ ~paused /\ warm
    /\ dispatch' = [at |-> "warm", outcome |-> "none"]
    /\ NoFault /\ UNCHANGED <<turn, flown, queued, merged>>

\* The settings snapshot throws.
WakeFails ==
    /\ ~paused /\ ~warm
    /\ Reports("failed")
    /\ Fault /\ UNCHANGED <<turn, flown, queued, merged>>

\* Seeded bug: a merged wake only adds its ids to the flight.
MergeOnly(ids) ==
    /\ ~paused /\ ~warm /\ setting # "off" /\ turn.at # "none"
    /\ merged' = merged \union ids
    /\ Reports("cold")
    /\ NoFault /\ UNCHANGED <<turn, flown, queued>>

\* A merged wake chains a scan while the soul awaits the owner's reply.
WakeMerges(ids) ==
    /\ ~paused /\ ~warm /\ setting # "off" /\ turn.at # "none"
    /\ merged' = merged \union ids
    /\ queued' = IF turn.at = "relay" /\ ask = "open"
                 THEN [queued EXCEPT ![flown] = @ + 1] ELSE queued
    /\ Reports("cold")
    /\ NoFault /\ UNCHANGED <<turn, flown>>

WakeLaunches ==
    /\ ~paused /\ ~warm /\ setting # "off" /\ turn.at = "none"
    /\ turn' = [NoTurn EXCEPT !.at = "setup", !.lane = setting]
    /\ flown' = flown + 1
    /\ dispatch' = [at |-> "cold", outcome |-> "none"]
    /\ NoFault /\ UNCHANGED <<queued, merged>>

dispatchWake ==
    /\ dispatch.at = "idle" /\ wakes # <<>>
    /\ wakes' = Tail(wakes)
    /\ \/ WakeIsWaiting \/ WakeGoesWarm \/ WakeFails \/ WakeMerges(Head(wakes)) \/ WakeLaunches
    /\ UNCHANGED <<replyVars, soulVars, mailVars, ghosts, reader>>

\* pool.send: nobody took the frame, or it threw, drops the sockets.
SendWarm ==
    /\ dispatch.at = "warm"
    /\ \/ Reports("warm") /\ NoFault /\ UNCHANGED warm
       \/ Reports("failed") /\ Fault /\ warm' = FALSE
    /\ UNCHANGED <<replyVars, mailVars, ghosts, wakes, turn, flown, reader, queued, merged,
                   paused, setting>>

\* The setup's lookups answer: the flight ends there, or calls the webhook,
\* or starts its loop, and only the last leaves it active behind the report.
SetUp ==
    /\ turn.at = "setup"
    /\ \/ Land /\ Reports("failed") /\ Fault
       \/ paused /\ Land /\ Reports("waiting") /\ NoFault
       \/ /\ ~paused /\ turn.lane = "webhook" /\ NoFault
          /\ turn' = [turn EXCEPT !.at = "webhook"]
          /\ UNCHANGED <<dispatch, reader, merged>>
       \/ /\ ~paused /\ turn.lane = "turn" /\ NoFault
          /\ turn' = [turn EXCEPT !.at = "relay"]
          /\ reader' = [reader EXCEPT ![Loop].at = "reading"]
          /\ Reports("cold") /\ UNCHANGED merged
    /\ UNCHANGED <<replyVars, soulVars, mailVars, ghosts, wakes, flown, queued>>

CallWebhook ==
    /\ turn.at = "webhook"
    /\ Land
    /\ \/ Reports("cold") /\ NoFault
       \/ Reports("failed") /\ Fault
    /\ UNCHANGED <<replyVars, soulVars, mailVars, ghosts, wakes, flown, queued>>

\* Seeded bug: the wake is reported when its turn has ended.
ReportAfterTurn ==
    /\ dispatch.at = "report" /\ turn.at = "none"
    /\ dispatch' = Quiet
    /\ UNCHANGED <<replyVars, soulVars, mailVars, ghosts, wakes, turn, flown, reader, queued,
                   budget, merged>>

\* The broker is told, or cannot be: the dispatcher goes on either way.
Report ==
    /\ dispatch.at = "report"
    /\ dispatch' = Quiet
    /\ UNCHANGED <<replyVars, soulVars, mailVars, ghosts, wakes, turn, flown, reader, queued,
                   budget, merged>>

-----------------------------------------------------------------------------
\* Reading the inbox and taking the owner replies in it: takeOwnerReplies,
\* by the loop (strict) and by a scan beside it.

IsScan(p) == p # Loop

\* The step a reader takes when the rest of its replies is `rest`.
Hand(p, at, rest) == reader' = [reader EXCEPT ![p] = [at |-> at, rest |-> rest]]

\* The loop over the messages passes over all but the owner replies: what is
\* left of it begins with the next reply.
FromReply(s) ==
    LET i == SelectInSeq(s, LAMBDA m : m \in Replies)
    IN  IF i = 0 THEN <<>> ELSE SubSeq(s, i, Len(s))

NextHand(p) == Hand(p, "handing", FromReply(Tail(reader[p].rest)))

\* What ends a reader that failed: the flight of a loop, only the scan else.
GivesUp(p) ==
    IF IsScan(p) THEN Hand(p, "idle", <<>>) /\ UNCHANGED <<turn, merged>> ELSE Land

\* The next scan of a flight's chain begins; a paused soul's is skipped.
StartScan(f) ==
    /\ reader[f].at = "idle" /\ queued[f] > 0
    /\ queued' = [queued EXCEPT ![f] = @ - 1]
    /\ IF paused THEN UNCHANGED reader ELSE Hand(f, "reading", <<>>)
    /\ UNCHANGED <<dispatchVars, replyVars, ghosts, inbox, turn, budget, merged>>

\* agent-comms runs: the broker answers with everything still unacked.
BrokerReads(p) ==
    /\ reader[p].at = "reading"
    /\ \/ Hand(p, "answered", inbox) /\ NoFault /\ UNCHANGED <<turn, merged>>
       \/ GivesUp(p) /\ Fault
    /\ UNCHANGED <<relayVars, ghosts, inbox, noticed, ask>>

\* The answer reaches the daemon.
TakeAnswer(p) ==
    /\ reader[p].at = "answered"
    /\ LET messages == reader[p].rest
           hand     == Hand(p, "handing", FromReply(messages))
       IN  \/ IsScan(p) /\ hand /\ UNCHANGED <<turn, noticed, merged>>
           \/ ~IsScan(p) /\ messages = <<>> /\ Finished
           \/ ~IsScan(p) /\ messages # <<>> /\ paused /\ Land /\ UNCHANGED noticed
           \/ /\ ~IsScan(p) /\ messages # <<>> /\ ~paused /\ hand
              /\ turn' = [turn EXCEPT !.batch = messages] /\ UNCHANGED <<noticed, merged>>
    /\ UNCHANGED <<relayVars, ghosts, inbox, ask, budget>>

\* A reply not seen yet is marked before it is handed over; the oldest mark
\* goes when there are too many.
Remembered(m) ==
    LET all == Append(taken, m)
    IN  IF Len(all) > KeptReplies THEN Tail(all) ELSE all

TakeReply(p) ==
    /\ reader[p].at = "handing" /\ reader[p].rest # <<>>
    /\ LET m == Head(reader[p].rest)
       IN  \/ /\ m \notin ToSet(taken)
              /\ taken' = Remembered(m)
              /\ ackedOf' = ackedOf \intersect ToSet(Remembered(m))
              /\ Counts(m, "handed") /\ done' = done \union {m}
              /\ Hand(p, "deciding", reader[p].rest)
           \/ /\ m \in ToSet(taken) /\ m \in ackedOf /\ NextHand(p)
              /\ UNCHANGED <<ghosts, taken, ackedOf>>
           \/ /\ m \in ToSet(taken) /\ m \notin ackedOf /\ Hand(p, "confirming", reader[p].rest)
              /\ UNCHANGED <<ghosts, taken, ackedOf>>
    /\ UNCHANGED <<dispatchVars, inbox, turn, queued, noticed, ask, budget, merged>>

\* ownerReply returns: the open proposal is decided.  It never throws.
DecideReply(p) ==
    /\ reader[p].at = "deciding"
    /\ ask' = IF ask = "open" THEN "decided" ELSE ask
    /\ LET m == Head(reader[p].rest)
       IN  IF m \in ackedOf THEN NextHand(p) ELSE Hand(p, "confirming", reader[p].rest)
    /\ UNCHANGED <<relayVars, ghosts, inbox, turn, noticed, budget, merged>>

\* Seeded bug: the mark of an acked reply is dropped to save memory.
ConfirmForgets(p) ==
    /\ reader[p].at = "confirming" /\ NoFault
    /\ LET m == Head(reader[p].rest)
       IN  inbox' = RemoveFirst(inbox, m) /\ taken' = RemoveFirst(taken, m) /\ NextHand(p)
    /\ UNCHANGED <<dispatchVars, ghosts, turn, queued, ackedOf, noticed, ask, merged>>

\* The ack of an owner reply: a failed one (which the broker may have
\* applied) fails the loop's flight and is only logged by a scan.
ConfirmReply(p) ==
    /\ reader[p].at = "confirming"
    /\ LET m == Head(reader[p].rest)
       IN  \/ /\ inbox' = RemoveFirst(inbox, m) /\ NextHand(p) /\ NoFault
              /\ ackedOf' = ackedOf \union ({m} \intersect ToSet(taken))
              /\ UNCHANGED <<turn, merged>>
           \/ /\ Fault /\ UNCHANGED ackedOf
              /\ inbox' \in {inbox, RemoveFirst(inbox, m)}
              /\ IF IsScan(p) THEN NextHand(p) /\ UNCHANGED <<turn, merged>> ELSE Land
    /\ UNCHANGED <<dispatchVars, ghosts, queued, taken, noticed, ask>>

\* No reply is left: the scan is over, the loop goes on to the batch.
RepliesTaken(p) ==
    /\ reader[p].at = "handing" /\ reader[p].rest = <<>>
    /\ IF IsScan(p) THEN Hand(p, "idle", <<>>) ELSE Hand(p, "mail", turn.batch)
    /\ UNCHANGED <<relayVars, ghosts, inbox, turn, noticed, ask, budget, merged>>

-----------------------------------------------------------------------------
\* The loop's second pass over the batch: one turn per message.

mail == reader[Loop].rest
At(place) == turn.at = "relay" /\ reader[Loop].at = place
Goes(place) == Hand(Loop, place, mail)
NextMail    == Hand(Loop, "mail", Tail(mail))

NextMessage ==
    /\ At("mail") /\ mail # <<>>
    /\ LET m == Head(mail)
       IN  \/ paused /\ Land
           \/ ~paused /\ UNCHANGED <<turn, merged>> /\
              IF m \in Replies THEN NextMail
              ELSE IF turn.signedOut
              THEN IF m \in noticed \union Tasks THEN NextMail ELSE Goes("telling")
              ELSE IF m \in Tasks THEN Goes("briefing") ELSE Goes("running")
    /\ noticed' = IF ~paused /\ turn.signedOut THEN noticed \union ({Head(mail)} \intersect Ordinary)
                  ELSE noticed
    /\ UNCHANGED <<relayVars, ghosts, inbox, ask, budget>>

\* The batch is done: read again, or fail a flight that is signed out.
BatchEnds ==
    /\ At("mail") /\ mail = <<>>
    /\ IF turn.signedOut THEN Land
       ELSE Hand(Loop, "reading", <<>>) /\ UNCHANGED <<turn, merged>>
    /\ UNCHANGED <<relayVars, ghosts, inbox, noticed, ask, budget>>

\* relay.brief answers: no turn to run, or one, whose start is reported.
TaskBrief ==
    /\ At("briefing")
    /\ \/ Land /\ Fault /\ UNCHANGED done
       \/ paused /\ Land /\ NoFault /\ UNCHANGED done
       \/ /\ ~paused /\ NoFault /\ UNCHANGED <<turn, merged>>
          /\ \/ Goes("acking") /\ done' = done \union {Head(mail)}
             \/ Goes("starting") /\ UNCHANGED done
    /\ UNCHANGED <<relayVars, inbox, noticed, ask, count>>

\* Seeded bug: the task's turn starts on the check made before the report.
StartTaskAnyway ==
    /\ At("starting") /\ Goes("running")
    /\ UNCHANGED <<relayVars, ghosts, inbox, turn, noticed, ask, budget, merged>>

\* runTurn asks again, after the report: a paused soul's turn is refused.
StartTask ==
    /\ At("starting")
    /\ IF paused THEN Land ELSE Goes("running") /\ UNCHANGED <<turn, merged>>
    /\ UNCHANGED <<relayVars, ghosts, inbox, noticed, ask, budget>>

\* The turn ran.  A task's message is acked, another's gets its answer, or
\* none when the turn already spoke.
TurnCompletes ==
    /\ At("running")
    /\ turn' = [turn EXCEPT !.ran = TRUE]
    /\ Counts(Head(mail), "turns")
    /\ \/ Head(mail) \in Ordinary /\ Goes("replying") /\ UNCHANGED done
       \/ Goes("acking") /\ done' = done \union {Head(mail)}
    /\ UNCHANGED <<relayVars, inbox, noticed, ask, budget, merged>>

\* The turn throws.  A task's event is acked before the flight fails, unless
\* the turn was stopped or its resume session is to be fixed first.
TurnThrows ==
    /\ At("running") /\ Fault
    /\ \/ Land /\ UNCHANGED done
       \/ /\ Head(mail) \in Tasks /\ Goes("dropping") /\ done' = done \union {Head(mail)}
          /\ UNCHANGED <<turn, merged>>
    /\ UNCHANGED <<relayVars, inbox, noticed, ask, count>>

\* The harness is signed out: the sender is told once, the message stays.
TurnSignedOut ==
    /\ At("running") /\ Head(mail) \in Ordinary /\ Fault
    /\ turn' = [turn EXCEPT !.signedOut = TRUE]
    /\ noticed' = noticed \union {Head(mail)}
    /\ IF Head(mail) \in noticed THEN NextMail ELSE Goes("telling")
    /\ UNCHANGED <<relayVars, ghosts, inbox, ask, merged>>

\* The notice to the sender: a send no retry can fix is not an error.
Tell ==
    /\ At("telling")
    /\ \/ NextMail /\ NoFault /\ UNCHANGED <<turn, merged>>
       \/ Land /\ Fault
    /\ UNCHANGED <<relayVars, ghosts, inbox, noticed, ask>>

\* The turn asks the owner, and goes on when it is decided, or expires.  A
\* task's turn has no sender to challenge, so no reply can decide it.
TurnAsks ==
    /\ At("running") /\ Head(mail) \in Ordinary /\ Spends("asks")
    /\ ask' = "open" /\ Goes("asking")
    /\ UNCHANGED <<relayVars, ghosts, inbox, turn, noticed, merged>>

TurnResumes ==
    /\ At("asking") /\ ask = "decided"
    /\ ask' = "none" /\ Goes("running")
    /\ UNCHANGED <<relayVars, ghosts, inbox, turn, noticed, budget, merged>>

AskExpires ==
    /\ At("asking") /\ ask = "open"
    /\ ask' = "none" /\ Goes("running")
    /\ UNCHANGED <<relayVars, ghosts, inbox, turn, noticed, budget, merged>>

\* Stop, the turn's timeout: the executor settles and the flight fails.
TurnAborts ==
    /\ At("running") \/ At("asking")
    /\ Fault /\ Land
    /\ ask' = "none"
    /\ UNCHANGED <<relayVars, ghosts, inbox, noticed>>

\* Seeded bug: a message that was answered is not acked.
SendReplyOnly ==
    /\ At("replying") /\ NextMail /\ NoFault /\ done' = done \union {Head(mail)}
    /\ UNCHANGED <<relayVars, inbox, turn, noticed, ask, merged, count>>

\* relay.reply: sent, or refused for good; another failure fails the flight
\* with the message unacked.
SendReply ==
    /\ At("replying")
    /\ \/ Goes("acking") /\ NoFault /\ done' = done \union {Head(mail)} /\ UNCHANGED <<turn, merged>>
       \/ Land /\ Fault /\ UNCHANGED done
    /\ UNCHANGED <<relayVars, inbox, noticed, ask, count>>

\* Seeded bug: the ack names every message of the batch.
AckBatch ==
    /\ At("acking") /\ NextMail /\ NoFault
    /\ inbox' = SelectSeq(inbox, LAMBDA m : m \notin ToSet(turn.batch))
    /\ UNCHANGED <<relayVars, ghosts, turn, noticed, ask, merged>>

\* relay.ack: one that fails, applied or not, fails the flight.
AckMessage ==
    /\ At("acking")
    /\ \/ inbox' = RemoveFirst(inbox, Head(mail)) /\ NextMail /\ NoFault /\ UNCHANGED <<turn, merged>>
       \/ inbox' \in {inbox, RemoveFirst(inbox, Head(mail))} /\ Land /\ Fault
    /\ UNCHANGED <<relayVars, ghosts, noticed, ask>>

\* The failed task turn's ack, after which its error fails the flight.
DropTask ==
    /\ At("dropping") /\ Land
    /\ \/ inbox' = RemoveFirst(inbox, Head(mail)) /\ NoFault
       \/ inbox' \in {inbox, RemoveFirst(inbox, Head(mail))} /\ Fault
    /\ UNCHANGED <<relayVars, ghosts, noticed, ask>>

-----------------------------------------------------------------------------
\* A restart of the daemon: all it holds here is memory.
Crash ==
    /\ Spends("crashes")
    /\ wakes' = <<>> /\ dispatch' = Quiet /\ turn' = NoTurn
    /\ reader' = [p \in Reader |-> Idle] /\ queued' = [f \in Flight |-> 0]
    /\ taken' = <<>> /\ ackedOf' = {} /\ noticed' = {} /\ ask' = "none"
    /\ warm' = FALSE /\ merged' = {}
    /\ UNCHANGED <<mailVars, ghosts, flown, paused, setting>>

\* Everything has come and gone: nothing is left to happen.
Rests ==
    /\ turn.at = "none" /\ dispatch.at = "idle" /\ wakes = <<>> /\ budget.mail \ arrived \subseteq Replies
    /\ \A p \in Reader : reader[p].at = "idle"
    /\ UNCHANGED vars

Dispatching == dispatchWake \/ SendWarm \/ SetUp \/ CallWebhook \/ Report
Reading(p)  == BrokerReads(p) \/ TakeAnswer(p) \/ TakeReply(p) \/ DecideReply(p)
                 \/ ConfirmReply(p) \/ RepliesTaken(p)
Answering   == NextMessage \/ BatchEnds \/ TaskBrief \/ StartTask \/ TurnResumes
                 \/ Tell \/ SendReply \/ AckMessage \/ DropTask

Next ==
    \/ \E m \in Message : Arrive(m)
    \/ Repair \/ SetPaused \/ SetColdWake \/ SetWarm
    \/ Dispatching
    \/ \E p \in Reader : Reading(p)
    \/ \E f \in Flight : StartScan(f)
    \/ Answering
    \/ TurnCompletes \/ TurnThrows \/ TurnSignedOut \/ TurnAsks \/ AskExpires \/ TurnAborts
    \/ Crash \/ Rests

Spec == Init /\ [][Next]_vars

\* The daemon's own steps are not postponed for ever: each is a callback or a
\* child process with a timeout.  A turn need not end: nothing here waits on
\* it but its own flight.
FairSpec ==
    /\ Spec
    /\ WF_vars(Dispatching)
    /\ \A p \in Reader : WF_vars(Reading(p))
    /\ \A f \in Flight : WF_vars(StartScan(f))
    /\ WF_vars(Answering)

-----------------------------------------------------------------------------
\* Properties.

NoFailure == budget.met = {}

\* Every variable stays in its type, and no reply outgrows OWNER_REPLIES_KEPT.
TypeOK ==
    /\ inbox \in Seq(Message) /\ arrived \subseteq Message
    /\ wakes \in Seq(SUBSET Message)
    /\ dispatch \in [at : DispatchAt, outcome : {"none", "waiting", "warm", "cold", "failed"}]
    /\ turn \in [at : TurnAt, lane : Lanes, batch : Seq(Message),
                 ran : BOOLEAN, signedOut : BOOLEAN]
    /\ flown \in Nat
    /\ reader \in [Reader -> [at : HandAt \union MailAt, rest : Seq(Message)]]
    /\ \A p \in Reader : IsScan(p) => reader[p].at \in HandAt
    /\ queued \in [Flight -> Nat]
    /\ taken \in Seq(Replies) /\ Len(taken) <= KeptReplies /\ ackedOf \subseteq ToSet(taken)
    /\ noticed \subseteq Ordinary
    /\ ask \in {"none", "open", "decided"}
    /\ paused \in BOOLEAN /\ setting \in Lanes /\ warm \in BOOLEAN
    /\ budget \in Budget
    /\ merged \subseteq Message /\ done \subseteq Message
    /\ count \in [Message -> [turns : Nat, handed : Nat]]

\* A message leaves the inbox only when it was dealt with: its turn ran and
\* its answer was sent or withheld, its task had no turn or ran one, or its
\* owner reply was handed to the daemon.  This holds through every failed
\* ack, a refused turn, a sign-out and a restart (the acks of cold-wake.mjs
\* come last in each branch).
NothingLost == arrived \ ToSet(inbox) \subseteq done

\* An owner reply read by the loop and by scans beside it, of this flight or
\* an earlier one, is handed to the daemon once (the `taken` map), as long as
\* no more of them come than the map keeps: an evicted mark is forgotten while
\* a scan may still hold its reply.
HandedOnce ==
    Cardinality(Replies) <= KeptReplies /\ "crashes" \notin budget.met =>
        \A m \in Replies : count[m].handed <= 1

\* Without a failing call no message's turn runs twice, however many wakes
\* name it, merge, or come from a re-pair while its flight is active.
AnsweredOnce == NoFailure => \A m \in Message : count[m].turns <= 1

\* While the soul is paused no turn starts, though the pause may come during
\* any of the awaits before it: the read, the hand-over of a reply, the
\* brief, the report of the task's start.
PausedStartsNothing ==
    [][At("running")' /\ ~At("running") /\ ~At("asking") => ~paused]_vars

\* A comment of cold-wake.mjs: messages that merge into a flight are
\* answered before it lands.  Here, by one that lands without an error.
MergedIsAnswered ==
    [][reader[Loop].at = "answered" /\ reader[Loop].rest = <<>> /\ turn'.at = "none" /\ NoFailure'
         => merged \intersect ToSet(inbox) = {}]_vars

\* An owner reply that reaches the inbox while the turn that asked waits on
\* it decides the proposal, though the flight that would read it next is
\* held by that very turn: the merged wake's scan takes it.
OwnerIsHeard ==
    (ask = "open" /\ NoFailure /\ \E m \in Replies : m \in ToSet(inbox))
        ~> (ask # "open" \/ ~NoFailure)

\* Each wake is reported to the broker although a turn it merged behind
\* never ends: a cold wake answers when its turn starts.
WakesAreReported == (wakes # <<>>) ~> (wakes = <<>> /\ dispatch.at = "idle")
=============================================================================
