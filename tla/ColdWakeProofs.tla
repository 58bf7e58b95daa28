---------------------------- MODULE ColdWakeProofs ----------------------------
(***************************************************************************)
(* Proofs about ColdWake, for any messages, any number of flights and of   *)
(* scans, any budget of failing calls, pauses, re-pairs and restarts.      *)
(*                                                                         *)
(* The properties of the runs are about counters and sets of messages;     *)
(* inductive is where a message can be.  NothingLost needs to know that    *)
(* what a reader acks was dealt with before: an owner reply in hand was    *)
(* handed over, by this reader or by another one that marked it (HandInv,  *)
(* TakenInv), and the message the loop acks is done (LoopInv).  HandedOnce *)
(* is that a reply was handed over as often as it is marked (HandedInv),   *)
(* which an evicted mark or a restart ends.  AnsweredOnce is that a        *)
(* message whose turn has run is the one the loop is about to ack, or has  *)
(* left both the inbox and the batch (AnsweredInv), which needs the two to *)
(* hold a message once (BoxInv, BatchInv).                                 *)
(***************************************************************************)
EXTENDS ColdWake, WellFoundedInduction, FiniteSetTheorems, SequenceTheorems, TLAPS

-----------------------------------------------------------------------------
(* Sequences. *)

\* A non-empty set of natural numbers has a smallest element.
LEMMA Smallest == ASSUME NEW T, T \subseteq Nat, T # {} PROVE \E x \in T : \A y \in T : x <= y
<1> DEFINE R == OpToRel(<, Nat)
<1>1. IsWellFoundedOn(R, Nat)
  BY NatLessThanWellFounded
<1>2. \A x, y \in Nat : <<y, x>> \in R <=> y < x
  BY DEF OpToRel
<1> HIDE DEF R
<1>3. PICK x \in T : \A y \in T : ~ (<<y, x>> \in R)
  BY <1>1, WFMin
<1>4. ASSUME NEW y \in T PROVE x <= y
  <2>1. x \in Nat /\ y \in Nat /\ ~ (y < x)
    BY <1>2, <1>3, <1>4
  <2>2. QED BY <2>1
<1>5. QED BY <1>4

\* The flight's own loop is none of the scans.
LEMMA LoopIsNoFlight == Loop \notin Flight
BY DEF Loop, Flight

\* Where the next owner reply is.
LEMMA FromReplyStarts ==
  ASSUME NEW s \in Seq(Message)
  PROVE  /\ FromReply(s) \in Seq(Message)
         /\ FromReply(s) # <<>> => Head(FromReply(s)) \in Replies
<1> DEFINE I == {i \in 1 .. Len(s) : s[i] \in Replies}
           n == IF I # {} THEN Min(I) ELSE 0
<1>1. FromReply(s) = IF n = 0 THEN <<>> ELSE SubSeq(s, n, Len(s))
  BY DEF SelectInSeq, FromReply
<1>2. CASE I = {}
  BY <1>1, <1>2
<1>3. CASE I # {}
  <2>1. Min(I) \in I
    <3>1. \E x \in I : \A y \in I : x <= y
      <4> HIDE DEF I
      <4>1. I \subseteq Nat
        BY DEF I
      <4>2. QED BY <1>3, <4>1, Smallest
    <3>2. QED BY <3>1 DEF Min
  <2>2. n \in 1 .. Len(s) /\ s[n] \in Replies
    BY <1>3, <2>1
  <2> HIDE DEF n
  <2>3. SubSeq(s, n, Len(s)) \in Seq(Message) /\ SubSeq(s, n, Len(s)) # <<>> /\ Head(SubSeq(s, n, Len(s))) = s[n]
    <3> DEFINE u == SubSeq(s, n, Len(s))
    <3>1. u \in Seq(Message) /\ Len(u) = Len(s) - n + 1 /\ \A i \in 1 .. (Len(s) - n + 1) : u[i] = s[n + i - 1]
      BY <2>2, SubSeqProperties
    <3>2. Len(u) > 0 /\ u[1] = s[n]
      BY <2>2, <3>1
    <3> HIDE DEF u
    <3>3. u # <<>> /\ Head(u) = s[n]
      BY <3>1, <3>2
    <3>4. QED BY <3>1, <3>3 DEF u
  <2>4. QED BY <1>1, <2>2, <2>3
<1>4. QED BY <1>2, <1>3

\* A message that is removed from an inbox that holds it once.
LEMMA Removed ==
  ASSUME NEW s \in Seq(Message), NEW m
  PROVE  /\ RemoveFirst(s, m) \in Seq(Message)
         /\ ToSet(RemoveFirst(s, m)) \subseteq ToSet(s)
         /\ ToSet(s) \subseteq ToSet(RemoveFirst(s, m)) \cup {m}
         /\ IsInjective(s) => IsInjective(RemoveFirst(s, m)) /\ m \notin ToSet(RemoveFirst(s, m))
<1> DEFINE I == {i \in 1 .. Len(s) : s[i] = m}
           r == RemoveFirst(s, m)
<1>1. CASE I = {}
  <2>1. r = s
    BY <1>1 DEF RemoveFirst
  <2>2. m \notin ToSet(s)
    BY <1>1 DEF ToSet
  <2>3. QED BY <2>1, <2>2
<1>2. CASE I # {}
  <2> DEFINE n == Min(I)
  <2>1. n \in I
    <3>1. \E x \in I : \A y \in I : x <= y
      <4> HIDE DEF I
      <4>1. I \subseteq Nat
        BY DEF I
      <4>2. QED BY <1>2, <4>1, Smallest
    <3>2. QED BY <3>1 DEF Min
  <2>2. n \in 1 .. Len(s) /\ s[n] = m
    BY <2>1
  <2>3. r = SubSeq(s, 1, n - 1) \o SubSeq(s, n + 1, Len(s))
    BY <1>2 DEF RemoveFirst, RemoveAt, SelectInSeq
  <2> HIDE DEF n, r
  <2>4. /\ r \in Seq(Message) /\ Len(r) = Len(s) - 1
        /\ \A i \in 1 .. Len(r) : r[i] = IF i < n THEN s[i] ELSE s[i + 1]
    <3> DEFINE u == SubSeq(s, 1, n - 1)
               w == SubSeq(s, n + 1, Len(s))
    <3>1. u \in Seq(Message) /\ Len(u) = n - 1 /\ \A i \in 1 .. (n - 1) : u[i] = s[i]
      BY <2>2, SubSeqProperties
    <3>2. /\ w \in Seq(Message) /\ Len(w) = Len(s) - n
          /\ \A i \in 1 .. (Len(s) - n) : w[i] = s[n + i]
      BY <2>2, SubSeqProperties
    <3> HIDE DEF u, w
    <3>3. /\ u \o w \in Seq(Message) /\ Len(u \o w) = Len(u) + Len(w)
          /\ \A i \in 1 .. (Len(u) + Len(w)) : (u \o w)[i] = IF i <= Len(u) THEN u[i] ELSE w[i - Len(u)]
      BY <3>1, <3>2, ConcatProperties
    <3>4. r = u \o w
      BY <2>3 DEF u, w
    <3>5. r \in Seq(Message) /\ Len(r) = Len(s) - 1
      <4>1. Len(s) \in Nat /\ Len(u) + Len(w) = Len(s) - 1
        BY <2>2, <3>1, <3>2
      <4>2. QED BY <3>3, <3>4, <4>1
    <3>6. ASSUME NEW i \in 1 .. Len(r) PROVE r[i] = IF i < n THEN s[i] ELSE s[i + 1]
      <4>1. r[i] = IF i <= Len(u) THEN u[i] ELSE w[i - Len(u)]
        BY <2>2, <3>1, <3>2, <3>3, <3>4, <3>5
      <4>2. CASE i < n
        BY <2>2, <3>1, <4>1, <4>2
      <4>3. CASE i >= n
        <5>1. i - (n - 1) \in 1 .. (Len(s) - n) /\ n + (i - (n - 1)) = i + 1
          BY <2>2, <3>5, <4>3
        <5>2. r[i] = w[i - (n - 1)]
          BY <2>2, <3>1, <4>1, <4>3
        <5>3. w[i - (n - 1)] = s[n + (i - (n - 1))]
          BY <3>2, <5>1
        <5>4. i \in Int /\ n \in Int /\ ~ (i < n)
          BY <2>2, <3>5, <4>3
        <5>5. QED BY <5>1, <5>2, <5>3, <5>4
      <4>4. QED BY <2>2, <4>2, <4>3
    <3>7. QED BY <3>5, <3>6
  <2>5. ToSet(r) \subseteq ToSet(s)
    BY <2>2, <2>4 DEF ToSet
  <2>6. ToSet(s) \subseteq ToSet(r) \cup {m}
    <3> SUFFICES ASSUME NEW i \in 1 .. Len(s), i # n PROVE s[i] \in ToSet(r)
      BY <2>2 DEF ToSet
    <3>1. CASE i < n
      BY <2>2, <2>4, <3>1 DEF ToSet
    <3>2. CASE i > n
      <4>1. i - 1 \in 1 .. Len(r) /\ r[i - 1] = s[i]
        BY <2>2, <2>4, <3>2
      <4>2. QED BY <2>4, <4>1 DEF ToSet
    <3>3. QED BY <2>2, <3>1, <3>2
  <2>7. ASSUME IsInjective(s) PROVE IsInjective(r) /\ m \notin ToSet(r)
    <3> DEFINE at(i) == IF i < n THEN i ELSE i + 1
    <3>1. \A i \in 1 .. Len(r) : at(i) \in 1 .. Len(s) /\ at(i) # n /\ r[i] = s[at(i)]
      BY <2>2, <2>4
    <3>2. \A i, j \in 1 .. Len(r) : at(i) = at(j) => i = j
      BY <2>2, <2>4
    <3> HIDE DEF at
    <3>3. \A i, j \in 1 .. Len(s) : s[i] = s[j] => i = j
      BY <2>7 DEF IsInjective
    <3>4. \A i \in 1 .. Len(r) : r[i] # m
      BY <2>2, <3>1, <3>3
    <3>5. \A i, j \in 1 .. Len(r) : r[i] = r[j] => i = j
      BY <3>1, <3>2, <3>3
    <3>6. DOMAIN r = 1 .. Len(r)
      BY <2>4
    <3>7. QED BY <3>4, <3>5, <3>6 DEF IsInjective, ToSet
  <2>8. QED BY <2>4, <2>5, <2>6, <2>7 DEF r
<1>3. QED BY <1>1, <1>2

-----------------------------------------------------------------------------
(* The invariant. *)

\* An owner reply in hand is one, and was handed over before it is confirmed.
HandInv ==
  \A p \in Reader :
    /\ reader[p].at = "handing" /\ reader[p].rest # <<>> => Head(reader[p].rest) \in Replies
    /\ reader[p].at \in {"deciding", "confirming"} =>
         reader[p].rest # <<>> /\ Head(reader[p].rest) \in Replies \cap done

\* The loop runs in a flight, and acks what was dealt with.
LoopInv ==
  /\ turn.at # "relay" => reader[Loop].at = "idle"
  /\ reader[Loop].at \in MailAt \ {"mail"} => mail # <<>>
  /\ reader[Loop].at \in {"acking", "dropping"} => Head(mail) \in done

\* Marks are of replies handed over, each marked once.
TakenInv == IsInjective(taken) /\ ToSet(taken) \subseteq done

\* The broker holds a message once, and only what it accepted.
BoxInv == IsInjective(inbox) /\ ToSet(inbox) \subseteq arrived

\* The messages the loop has before it.
Batch ==
  IF reader[Loop].at \in {"answered"} \cup MailAt THEN mail
  ELSE IF reader[Loop].at \in {"handing", "deciding", "confirming"} THEN turn.batch
  ELSE <<>>

BatchInv == IsInjective(Batch) /\ ToSet(Batch) \subseteq arrived

Inv == TypeOK /\ HandInv /\ LoopInv /\ TakenInv /\ BoxInv /\ BatchInv /\ NothingLost

\* A reply was handed over as often as it is marked.
HandedInv ==
  Cardinality(Replies) <= KeptReplies /\ "crashes" \notin budget.met =>
    \A m \in Replies : count[m].handed = IF m \in ToSet(taken) THEN 1 ELSE 0

\* The message whose turn has run and that is not acked yet.
Acked == reader[Loop].at \in {"replying", "acking", "dropping"}

AnsweredInv ==
  NoFailure =>
    /\ reader[Loop].at # "dropping"
    /\ \A m \in Message : count[m].turns > 0 =>
         /\ count[m].turns = 1
         /\ m \in arrived
         /\ m \in ToSet(inbox) \cup ToSet(Batch) => Acked /\ m = Head(mail)

-----------------------------------------------------------------------------
(* Types. *)

ReaderOK ==
  /\ reader \in [Reader -> [at : HandAt \cup MailAt, rest : Seq(Message)]]
  /\ \A p \in Reader : IsScan(p) => reader[p].at \in HandAt

TurnOK == turn \in [at : TurnAt, lane : Lanes, batch : Seq(Message), ran : BOOLEAN, signedOut : BOOLEAN]

\* The rest of the types, by what changes together.
FlightOK == ReaderOK /\ TurnOK /\ merged \subseteq Message
TakenOK == taken \in Seq(Replies) /\ Len(taken) <= KeptReplies /\ ackedOf \subseteq ToSet(taken)
MailOK == inbox \in Seq(Message) /\ arrived \subseteq Message
DispatchOK == dispatch \in [at : DispatchAt, outcome : {"none", "waiting", "warm", "cold", "failed"}]
DoneOK == done \subseteq Message /\ count \in [Message -> [turns : Nat, handed : Nat]]
QueueOK == wakes \in Seq(SUBSET Message) /\ flown \in Nat /\ queued \in [Flight -> Nat]
AskOK == noticed \subseteq Ordinary /\ ask \in {"none", "open", "decided"}
SoulOK == paused \in BOOLEAN /\ setting \in Lanes /\ warm \in BOOLEAN

\* The type invariant is its parts.
LEMMA TypeParts ==
  TypeOK <=> /\ FlightOK /\ TakenOK /\ MailOK /\ DispatchOK /\ DoneOK /\ QueueOK /\ AskOK /\ SoulOK
             /\ budget \in Budget
BY DEF TypeOK, FlightOK, ReaderOK, TurnOK, TakenOK, MailOK, DispatchOK, DoneOK, QueueOK, AskOK, SoulOK

\* Every reader but the loop is a scan.
LEMMA LoopReads == Loop \in Reader /\ \A p \in Reader : IsScan(p) <=> p # Loop
BY DEF Reader, IsScan

\* What is spent is one of its bounds; failures are kept in mind.
LEMMA Spent ==
  ASSUME budget \in Budget, NEW kind \in {"faults", "repairs", "pauses", "settings", "arms", "asks", "crashes"},
         Spends(kind)
  PROVE  /\ budget' \in Budget /\ budget.met \subseteq budget'.met
         /\ kind \in {"faults", "crashes"} => kind \in budget'.met
         /\ budget'.lanes = budget.lanes
<1>1. budget[kind] \in Nat /\ budget[kind] - 1 \in Nat
  <2>1. /\ budget["faults"] \in Nat /\ budget["repairs"] \in Nat /\ budget["pauses"] \in Nat /\ budget["settings"] \in Nat
        /\ budget["arms"] \in Nat /\ budget["asks"] \in Nat /\ budget["crashes"] \in Nat
    BY DEF Budget
  <2>2. budget[kind] \in Nat
    BY <2>1
  <2>3. budget[kind] > 0
    BY DEF Spends
  <2>4. QED BY <2>2, <2>3
<1>2. budget' = [budget EXCEPT ![kind] = budget[kind] - 1, !.met = budget.met \cup ({kind} \cap {"faults", "crashes"})]
  BY DEF Spends, Budget
<1>3. budget.met \cup ({kind} \cap {"faults", "crashes"}) \in SUBSET {"faults", "crashes"}
  BY DEF Budget
<1>4. budget' \in Budget /\ budget'.met = budget.met \cup ({kind} \cap {"faults", "crashes"}) /\ budget'.lanes = budget.lanes
  <2>1. CASE kind = "faults"
    BY <1>1, <1>2, <1>3, <2>1 DEF Budget
  <2>2. CASE kind = "repairs"
    BY <1>1, <1>2, <1>3, <2>2 DEF Budget
  <2>3. CASE kind = "pauses"
    BY <1>1, <1>2, <1>3, <2>3 DEF Budget
  <2>4. CASE kind = "settings"
    BY <1>1, <1>2, <1>3, <2>4 DEF Budget
  <2>5. CASE kind = "arms"
    BY <1>1, <1>2, <1>3, <2>5 DEF Budget
  <2>6. CASE kind = "asks"
    BY <1>1, <1>2, <1>3, <2>6 DEF Budget
  <2>7. CASE kind = "crashes"
    BY <1>1, <1>2, <1>3, <2>7 DEF Budget
  <2>8. QED BY <2>1, <2>2, <2>3, <2>4, <2>5, <2>6, <2>7
<1>5. QED BY <1>4

\* A reader's step, and the end of a flight, keep the types.
LEMMA HandTypes ==
  ASSUME ReaderOK, NEW p \in Reader, NEW at \in HandAt \cup MailAt, IsScan(p) => at \in HandAt,
         NEW rest \in Seq(Message), Hand(p, at, rest)
  PROVE  ReaderOK'
BY DEF ReaderOK, Hand

\* A flight that lands leaves the loop idle and no turn.
LEMMA LandTypes == ASSUME FlightOK, Land PROVE FlightOK' /\ turn' = NoTurn /\ reader'[Loop] = Idle
BY LoopReads DEF FlightOK, ReaderOK, TurnOK, Land, Idle, NoTurn, TurnAt, HandAt, Lanes

\* Steps of a reader that leave the dispatcher and the marks alone.
LEMMA RelayTypes ==
  ASSUME TypeOK, UNCHANGED relayVars, FlightOK', inbox' \in Seq(Message), DoneOK', AskOK', budget' \in Budget
  PROVE  TypeOK'
<1>1. TakenOK' /\ DispatchOK' /\ QueueOK' /\ SoulOK' /\ MailOK'
  BY TypeParts DEF TakenOK, DispatchOK, QueueOK, SoulOK, MailOK, relayVars, dispatchVars, soulVars
<1>2. QED
  BY <1>1 DEF TypeOK, FlightOK, ReaderOK, TurnOK, TakenOK, MailOK, DispatchOK, DoneOK, QueueOK, AskOK, SoulOK

\* What the loop has before it.
LEMMA MailHead ==
  ASSUME TypeOK, LoopInv
  PROVE  /\ mail \in Seq(Message)
         /\ mail # <<>> => Head(mail) \in Message /\ Tail(mail) \in Seq(Message)
         /\ reader[Loop].at \in {"briefing", "starting", "running", "asking", "replying",
                                 "telling", "acking", "dropping"} => mail # <<>>
<1>1. mail \in Seq(Message)
  BY LoopReads DEF TypeOK, mail
<1>2. mail # <<>> => Head(mail) \in Message /\ Tail(mail) \in Seq(Message)
  BY <1>1
<1>3. QED BY <1>1, <1>2 DEF LoopInv, MailAt

\* Every step of the second pass over the batch keeps the types.
LEMMA AnswerTypes ==
  ASSUME TypeOK, LoopInv,
         \/ Answering
         \/ TurnCompletes \/ TurnThrows \/ TurnSignedOut \/ TurnAsks \/ AskExpires \/ TurnAborts
  PROVE  TypeOK'
<1>1. /\ FlightOK /\ ReaderOK /\ TurnOK /\ MailOK /\ DoneOK /\ AskOK /\ budget \in Budget
  BY TypeParts DEF FlightOK
<1>2. Land => FlightOK'
  BY <1>1, LandTypes
<1>3. ASSUME NEW at \in MailAt \cup HandAt, NEW rest \in Seq(Message), Hand(Loop, at, rest) PROVE ReaderOK'
  BY <1>1, <1>3, HandTypes, LoopReads
<1>4. /\ mail \in Seq(Message)
      /\ mail # <<>> => Head(mail) \in Message /\ Tail(mail) \in Seq(Message)
  BY MailHead
<1>5. ASSUME NEW at \in MailAt \cup HandAt, Goes(at), UNCHANGED <<turn, merged>> PROVE FlightOK'
  BY <1>1, <1>3, <1>4, <1>5 DEF Goes, FlightOK, TurnOK
<1>6. ASSUME mail # <<>>, NextMail, UNCHANGED <<turn, merged>> PROVE FlightOK'
  BY <1>1, <1>3, <1>4, <1>6 DEF NextMail, FlightOK, TurnOK, MailAt
<1>7. (Fault => budget' \in Budget) /\ (NoFault => budget' \in Budget) /\ (Spends("asks") => budget' \in Budget)
  BY <1>1, Spent DEF Fault, NoFault
<1>8. UNCHANGED ghosts => DoneOK'
  BY <1>1 DEF ghosts, DoneOK
<1>9. mail # <<>> /\ UNCHANGED count /\ done' \in {done, done \cup {Head(mail)}} => DoneOK'
  BY <1>1, <1>4 DEF DoneOK
<1>10. UNCHANGED <<noticed, ask>> => AskOK'
  BY <1>1 DEF AskOK
<1>11. inbox' \in {inbox, RemoveFirst(inbox, Head(mail))} => inbox' \in Seq(Message)
  BY <1>1, Removed DEF MailOK
<1> DEFINE Done == inbox' \in Seq(Message) /\ DoneOK' /\ AskOK' /\ budget' \in Budget
<1>12. ASSUME UNCHANGED relayVars, FlightOK', Done PROVE TypeOK'
  BY <1>12, RelayTypes
<1>13. \A place \in MailAt \ {"mail"} : At(place) => mail # <<>>
  BY MailHead DEF At, MailAt
<1>14. \A place \in MailAt : place \in MailAt \cup HandAt
  OBVIOUS
<1>15. CASE NextMessage
  <2>1. FlightOK'
    BY <1>2, <1>5, <1>6, <1>15 DEF NextMessage, MailAt
  <2>2. AskOK'
    BY <1>1, <1>15 DEF NextMessage, AskOK
  <2>3. Done
    BY <1>1, <1>7, <1>8, <1>15, <2>2 DEF NextMessage, NoFault, MailOK
  <2>4. QED BY <1>12, <1>15, <2>1, <2>3 DEF NextMessage
<1>16. CASE BatchEnds \/ StartTask
  <2>1. FlightOK'
    <3>1. CASE Land
      BY <1>2, <3>1
    <3>2. CASE BatchEnds /\ Hand(Loop, "reading", <<>>) /\ UNCHANGED <<turn, merged>>
      <4>1. "reading" \in MailAt \cup HandAt /\ <<>> \in Seq(Message)
        BY DEF HandAt
      <4>2. ReaderOK'
        BY <1>3, <3>2, <4>1
      <4>3. QED BY <1>1, <3>2, <4>2 DEF FlightOK, TurnOK
    <3>3. CASE StartTask /\ Goes("running") /\ UNCHANGED <<turn, merged>>
      BY <1>5, <3>3 DEF MailAt
    <3>4. QED BY <1>16, <3>1, <3>2, <3>3 DEF BatchEnds, StartTask
  <2>2. Done
    BY <1>1, <1>8, <1>10, <1>16 DEF BatchEnds, StartTask, MailOK
  <2>3. QED BY <1>12, <1>16, <2>1, <2>2 DEF BatchEnds, StartTask
<1>17. CASE TaskBrief
  <2>1. FlightOK'
    BY <1>2, <1>5, <1>17 DEF TaskBrief, MailAt
  <2>2. DoneOK'
    BY <1>9, <1>13, <1>17 DEF TaskBrief, MailAt
  <2>3. Done
    BY <1>1, <1>7, <1>10, <1>17, <2>2 DEF TaskBrief, MailOK
  <2>4. QED BY <1>12, <1>17, <2>1, <2>3 DEF TaskBrief
<1>18. CASE TurnResumes \/ AskExpires
  <2>1. FlightOK'
    BY <1>5, <1>18 DEF TurnResumes, AskExpires, MailAt
  <2>2. AskOK'
    BY <1>1, <1>18 DEF TurnResumes, AskExpires, AskOK
  <2>3. Done
    BY <1>1, <1>8, <1>18, <2>2 DEF TurnResumes, AskExpires, MailOK
  <2>4. QED BY <1>12, <1>18, <2>1, <2>3 DEF TurnResumes, AskExpires
<1>19. CASE Tell
  <2>1. FlightOK'
    BY <1>2, <1>6, <1>13, <1>19 DEF Tell, MailAt
  <2>2. Done
    BY <1>1, <1>7, <1>8, <1>10, <1>19 DEF Tell, MailOK
  <2>3. QED BY <1>12, <1>19, <2>1, <2>2 DEF Tell
<1>20. CASE SendReply
  <2>1. FlightOK'
    BY <1>2, <1>5, <1>20 DEF SendReply, MailAt
  <2>2. DoneOK'
    BY <1>9, <1>13, <1>20 DEF SendReply, MailAt
  <2>3. Done
    BY <1>1, <1>7, <1>10, <1>20, <2>2 DEF SendReply, MailOK
  <2>4. QED BY <1>12, <1>20, <2>1, <2>3 DEF SendReply
<1>21. CASE AckMessage \/ DropTask
  <2>1. FlightOK'
    BY <1>2, <1>6, <1>13, <1>21 DEF AckMessage, DropTask, MailAt
  <2>2. inbox' \in Seq(Message)
    BY <1>11, <1>21 DEF AckMessage, DropTask
  <2>3. Done
    BY <1>7, <1>8, <1>10, <1>21, <2>2 DEF AckMessage, DropTask
  <2>4. QED BY <1>12, <1>21, <2>1, <2>3 DEF AckMessage, DropTask
<1>22. CASE TurnCompletes
  <2>1. mail # <<>> /\ Head(mail) \in Message
    BY <1>4, <1>13, <1>22 DEF TurnCompletes, MailAt
  <2>2. ReaderOK'
    <3>1. Goes("replying") \/ Goes("acking")
      BY <1>22 DEF TurnCompletes
    <3>2. QED BY <1>3, <1>4, <3>1 DEF Goes, MailAt
  <2>3. TurnOK' /\ merged' = merged
    BY <1>1, <1>22 DEF TurnCompletes, TurnOK
  <2>4. FlightOK'
    BY <1>1, <2>2, <2>3 DEF FlightOK
  <2>5. count' \in [Message -> [turns : Nat, handed : Nat]]
    BY <1>1, <1>22, <2>1 DEF TurnCompletes, Counts, DoneOK
  <2>6. DoneOK'
    BY <1>1, <1>22, <2>1, <2>5 DEF TurnCompletes, DoneOK
  <2>7. Done
    BY <1>1, <1>10, <1>22, <2>6 DEF TurnCompletes, MailOK
  <2>8. QED BY <1>12, <1>22, <2>4, <2>7 DEF TurnCompletes
<1>23. CASE TurnThrows
  <2>1. FlightOK'
    BY <1>2, <1>5, <1>23 DEF TurnThrows, MailAt
  <2>2. DoneOK'
    BY <1>9, <1>13, <1>23 DEF TurnThrows, MailAt
  <2>3. Done
    BY <1>1, <1>7, <1>10, <1>23, <2>2 DEF TurnThrows, MailOK
  <2>4. QED BY <1>12, <1>23, <2>1, <2>3 DEF TurnThrows
<1>24. CASE TurnSignedOut
  <2>1. mail # <<>> /\ Tail(mail) \in Seq(Message)
    BY <1>4, <1>13, <1>24 DEF TurnSignedOut, MailAt
  <2>2. ReaderOK'
    <3>1. Goes("telling") \/ NextMail
      BY <1>24 DEF TurnSignedOut
    <3>2. QED BY <1>3, <1>4, <2>1, <3>1 DEF Goes, NextMail, MailAt
  <2>3. TurnOK' /\ merged' = merged
    BY <1>1, <1>24 DEF TurnSignedOut, TurnOK
  <2>4. FlightOK'
    BY <1>1, <2>2, <2>3 DEF FlightOK
  <2>5. AskOK'
    BY <1>1, <1>24 DEF TurnSignedOut, AskOK
  <2>6. Done
    BY <1>1, <1>7, <1>8, <1>24, <2>5 DEF TurnSignedOut, MailOK
  <2>7. QED BY <1>12, <1>24, <2>4, <2>6 DEF TurnSignedOut
<1>25. CASE TurnAsks
  <2>1. FlightOK'
    BY <1>5, <1>25 DEF TurnAsks, MailAt
  <2>2. AskOK'
    BY <1>1, <1>25 DEF TurnAsks, AskOK
  <2>3. Done
    BY <1>1, <1>7, <1>8, <1>25, <2>2 DEF TurnAsks, MailOK
  <2>4. QED BY <1>12, <1>25, <2>1, <2>3 DEF TurnAsks
<1>26. CASE TurnAborts
  <2>1. FlightOK'
    BY <1>2, <1>26 DEF TurnAborts
  <2>2. AskOK'
    BY <1>1, <1>26 DEF TurnAborts, AskOK
  <2>3. Done
    BY <1>1, <1>7, <1>8, <1>26, <2>2 DEF TurnAborts, MailOK
  <2>4. QED BY <1>12, <1>26, <2>1, <2>3 DEF TurnAborts
<1>27. QED
  BY <1>15, <1>16, <1>17, <1>18, <1>19, <1>20, <1>21, <1>22, <1>23, <1>24, <1>25, <1>26 DEF Answering

\* A reader goes on, or gives up.
LEMMA ReaderGoes ==
  ASSUME TypeOK, NEW p \in Reader
  PROVE  /\ \A at \in HandAt, rest \in Seq(Message) : Hand(p, at, rest) /\ UNCHANGED <<turn, merged>> => FlightOK'
         /\ GivesUp(p) => FlightOK'
         /\ reader[p].rest \in Seq(Message)
         /\ reader[p].rest # <<>> /\ NextHand(p) /\ UNCHANGED <<turn, merged>> => FlightOK'
<1>1. FlightOK /\ ReaderOK
  BY TypeParts DEF FlightOK
<1>2. ASSUME NEW at \in HandAt, NEW rest \in Seq(Message), Hand(p, at, rest), UNCHANGED <<turn, merged>>
      PROVE  FlightOK'
  <2>1. ReaderOK'
    BY <1>1, <1>2, HandTypes
  <2>2. QED BY <1>1, <1>2, <2>1 DEF FlightOK, TurnOK
<1>3. <<>> \in Seq(Message) /\ "idle" \in HandAt /\ "handing" \in HandAt
  BY DEF HandAt
<1>4. GivesUp(p) => FlightOK'
  BY <1>1, <1>2, <1>3, LandTypes DEF GivesUp
<1>5. reader[p].rest \in Seq(Message)
  BY <1>1 DEF ReaderOK
<1>6. reader[p].rest # <<>> => FromReply(Tail(reader[p].rest)) \in Seq(Message)
  <2>1. reader[p].rest # <<>> => Tail(reader[p].rest) \in Seq(Message)
    BY <1>5
  <2>2. QED BY <2>1, FromReplyStarts
<1>7. ASSUME reader[p].rest # <<>>, NextHand(p), UNCHANGED <<turn, merged>> PROVE FlightOK'
  BY <1>2, <1>3, <1>6, <1>7 DEF NextHand
<1>8. QED BY <1>2, <1>4, <1>5, <1>7

\* So does every step of a reader that takes owner replies.
LEMMA ReadTypes ==
  ASSUME TypeOK, HandInv, NEW p \in Reader, Reading(p)
  PROVE  TypeOK'
<1>1. /\ FlightOK /\ ReaderOK /\ TurnOK /\ MailOK /\ DoneOK /\ AskOK /\ TakenOK /\ budget \in Budget
  BY TypeParts DEF FlightOK
<1>2. /\ \A at \in HandAt, rest \in Seq(Message) : Hand(p, at, rest) /\ UNCHANGED <<turn, merged>> => FlightOK'
      /\ GivesUp(p) => FlightOK'
      /\ reader[p].rest \in Seq(Message)
      /\ reader[p].rest # <<>> /\ NextHand(p) /\ UNCHANGED <<turn, merged>> => FlightOK'
  BY ReaderGoes
<1>3. Land => FlightOK'
  BY <1>1, LandTypes
<1>4. (Fault => budget' \in Budget) /\ (NoFault => budget' \in Budget)
  BY <1>1, Spent DEF Fault, NoFault
<1>5. UNCHANGED ghosts => DoneOK'
  BY <1>1 DEF ghosts, DoneOK
<1>6. UNCHANGED <<noticed, ask>> => AskOK'
  BY <1>1 DEF AskOK
<1>7. \A at \in {"idle", "reading", "answered", "handing", "deciding", "confirming"} : at \in HandAt
  BY DEF HandAt
<1> DEFINE Done == inbox' \in Seq(Message) /\ DoneOK' /\ AskOK' /\ budget' \in Budget
<1>8. ASSUME UNCHANGED relayVars, FlightOK', Done PROVE TypeOK'
  BY <1>8, RelayTypes
<1>9. ASSUME UNCHANGED <<dispatchVars, queued>>, TakenOK', FlightOK', Done PROVE TypeOK'
  <2>1. DispatchOK' /\ QueueOK' /\ SoulOK' /\ MailOK'
    BY <1>9, TypeParts DEF DispatchOK, QueueOK, SoulOK, MailOK, dispatchVars, soulVars
  <2>2. QED BY <1>9, <2>1 DEF TypeOK, FlightOK, ReaderOK, TurnOK, TakenOK, MailOK, DispatchOK, DoneOK, QueueOK, AskOK, SoulOK
<1>10. CASE BrokerReads(p)
  <2>1. FlightOK'
    BY <1>1, <1>2, <1>7, <1>10 DEF BrokerReads, MailOK
  <2>2. Done
    BY <1>1, <1>4, <1>5, <1>6, <1>10 DEF BrokerReads, MailOK
  <2>3. QED BY <1>8, <1>10, <2>1, <2>2 DEF BrokerReads
<1>11. CASE TakeAnswer(p)
  <2> DEFINE messages == reader[p].rest
  <2>1. FromReply(messages) \in Seq(Message)
    BY <1>2, FromReplyStarts
  <2>2. AskOK'
    BY <1>1, <1>11 DEF TakeAnswer, Finished, AskOK
  <2>3. FlightOK'
    <3>1. CASE Hand(p, "handing", FromReply(messages)) /\ UNCHANGED <<turn, merged>>
      BY <1>2, <1>7, <2>1, <3>1
    <3>2. CASE Land
      BY <1>3, <3>2
    <3>3. CASE Hand(p, "handing", FromReply(messages)) /\ turn' = [turn EXCEPT !.batch = messages] /\ UNCHANGED merged
      <4>1. ReaderOK'
        BY <1>1, <1>7, <2>1, <3>3, HandTypes
      <4>2. TurnOK'
        BY <1>1, <1>2, <3>3 DEF TurnOK
      <4>3. QED BY <1>1, <3>3, <4>1, <4>2 DEF FlightOK
    <3>4. QED BY <1>11, <3>1, <3>2, <3>3 DEF TakeAnswer, Finished
  <2>4. Done
    BY <1>1, <1>5, <1>11, <2>2 DEF TakeAnswer, MailOK
  <2>5. QED BY <1>8, <1>11, <2>3, <2>4 DEF TakeAnswer
<1>12. CASE TakeReply(p)
  <2> DEFINE m == Head(reader[p].rest)
  <2>1. reader[p].rest # <<>> /\ m \in Replies /\ m \in Message
    BY <1>12 DEF TakeReply, HandInv, Message
  <2> HIDE DEF m
  <2>2. FlightOK'
    <3>1. \/ Hand(p, "deciding", reader[p].rest) \/ NextHand(p) \/ Hand(p, "confirming", reader[p].rest)
      BY <1>12 DEF TakeReply
    <3>2. UNCHANGED <<turn, merged>>
      BY <1>12 DEF TakeReply
    <3>3. QED BY <1>2, <1>7, <2>1, <3>1, <3>2
  <2>3. CASE UNCHANGED <<ghosts, taken, ackedOf>>
    <3>1. TakenOK' /\ DoneOK'
      BY <1>1, <1>5, <2>3 DEF TakenOK
    <3>2. Done
      BY <1>1, <1>6, <1>12, <3>1 DEF TakeReply, MailOK
    <3>3. QED BY <1>9, <1>12, <2>2, <3>1, <3>2 DEF TakeReply
  <2>4. CASE /\ taken' = Remembered(m) /\ ackedOf' = ackedOf \intersect ToSet(Remembered(m))
             /\ Counts(m, "handed") /\ done' = done \union {m}
    <3>1. Remembered(m) \in Seq(Replies) /\ Len(Remembered(m)) <= KeptReplies
      BY <1>1, <2>1, BoundsAssumption DEF Remembered, TakenOK
    <3>2. TakenOK'
      BY <2>4, <3>1 DEF TakenOK
    <3>3. DoneOK'
      <4>1. count' \in [Message -> [turns : Nat, handed : Nat]]
        BY <1>1, <2>1, <2>4 DEF Counts, DoneOK
      <4>2. QED BY <1>1, <2>1, <2>4, <4>1 DEF DoneOK
    <3>4. Done
      BY <1>1, <1>6, <1>12, <3>3 DEF TakeReply, MailOK
    <3>5. QED BY <1>9, <1>12, <2>2, <3>2, <3>4 DEF TakeReply
  <2>5. QED BY <1>12, <2>3, <2>4 DEF TakeReply, m
<1>13. CASE DecideReply(p)
  <2>1. reader[p].rest # <<>>
    BY <1>13 DEF DecideReply, HandInv
  <2>2. FlightOK'
    <3>1. NextHand(p) \/ Hand(p, "confirming", reader[p].rest)
      BY <1>13 DEF DecideReply
    <3>2. UNCHANGED <<turn, merged>>
      BY <1>13 DEF DecideReply
    <3>3. QED BY <1>2, <1>7, <2>1, <3>1, <3>2
  <2>3. AskOK'
    BY <1>1, <1>13 DEF DecideReply, AskOK
  <2>4. Done
    BY <1>1, <1>5, <1>13, <2>3 DEF DecideReply, MailOK
  <2>5. QED BY <1>8, <1>13, <2>2, <2>4 DEF DecideReply
<1>14. CASE ConfirmReply(p)
  <2>1. reader[p].rest # <<>>
    BY <1>14 DEF ConfirmReply, HandInv
  <2>2. FlightOK'
    <3>1. (NextHand(p) /\ UNCHANGED <<turn, merged>>) \/ Land
      BY <1>14 DEF ConfirmReply
    <3>2. QED BY <1>2, <1>3, <2>1, <3>1
  <2>3. inbox' \in Seq(Message)
    <3>1. inbox' \in {inbox, RemoveFirst(inbox, Head(reader[p].rest))}
      BY <1>14 DEF ConfirmReply
    <3>2. QED BY <1>1, <3>1, Removed DEF MailOK
  <2>4. TakenOK'
    BY <1>1, <1>14 DEF ConfirmReply, TakenOK
  <2>5. Done
    BY <1>4, <1>5, <1>6, <1>14, <2>3 DEF ConfirmReply
  <2>6. QED BY <1>9, <1>14, <2>2, <2>4, <2>5 DEF ConfirmReply
<1>15. CASE RepliesTaken(p)
  <2>1. FlightOK'
    <3>1. CASE IsScan(p)
      <4>1. <<>> \in Seq(Message)
        OBVIOUS
      <4>2. QED BY <1>2, <1>7, <1>15, <3>1, <4>1 DEF RepliesTaken
    <3>2. CASE ~IsScan(p)
      <4>1. Hand(p, "mail", turn.batch) /\ UNCHANGED <<turn, merged>> /\ turn.batch \in Seq(Message)
        BY <1>1, <1>15, <3>2 DEF RepliesTaken, TurnOK
      <4>2. ReaderOK'
        BY <1>1, <3>2, <4>1, HandTypes DEF MailAt
      <4>3. QED BY <1>1, <4>1, <4>2 DEF FlightOK, TurnOK
    <3>3. QED BY <3>1, <3>2
  <2>2. Done
    BY <1>1, <1>5, <1>6, <1>15 DEF RepliesTaken, MailOK
  <2>3. QED BY <1>8, <1>15, <2>1, <2>2 DEF RepliesTaken
<1>16. QED BY <1>10, <1>11, <1>12, <1>13, <1>14, <1>15 DEF Reading

\* The types hold initially.
LEMMA InitTypes == Init => TypeOK
<1> SUFFICES ASSUME Init PROVE TypeOK
  OBVIOUS
<1>1. budget \in Budget /\ setting \in Lanes
  BY BoundsAssumption DEF Init, Budget
<1>2. FlightOK
  <2>1. Idle \in [at : HandAt \cup MailAt, rest : Seq(Message)] /\ Idle.at \in HandAt
    BY DEF Idle, HandAt
  <2>2. NoTurn \in [at : TurnAt, lane : Lanes, batch : Seq(Message), ran : BOOLEAN, signedOut : BOOLEAN]
    BY DEF NoTurn, TurnAt, Lanes
  <2>3. QED BY <2>1, <2>2 DEF Init, FlightOK, ReaderOK, TurnOK
<1>3. TakenOK /\ MailOK /\ QueueOK /\ AskOK /\ SoulOK
  <2>1. <<>> \in Seq(Replies) /\ Len(<<>>) = 0 /\ 0 <= KeptReplies /\ {} \subseteq ToSet(<<>>)
    BY BoundsAssumption
  <2>2. TakenOK
    BY <2>1 DEF Init, TakenOK
  <2>3. MailOK /\ AskOK /\ SoulOK
    <3>1. SoulOK
      BY <1>1 DEF Init, SoulOK
    <3>2. AskOK
      BY DEF Init, AskOK
    <3>3. MailOK
      BY DEF Init, MailOK
    <3>4. QED BY <3>1, <3>2, <3>3
  <2>4. QueueOK
    BY DEF Init, QueueOK
  <2>5. QED BY <2>2, <2>3, <2>4
<1>4. DispatchOK /\ DoneOK
  BY DEF Init, DispatchOK, DoneOK, Quiet, DispatchAt
<1>5. QED BY <1>1, <1>2, <1>3, <1>4, TypeParts

\* And every step of the broker, the owner and the dispatcher keeps them.
LEMMA OtherTypes ==
  ASSUME TypeOK,
         \/ \E m \in Message : Arrive(m)
         \/ Repair \/ SetPaused \/ SetColdWake \/ SetWarm
         \/ Dispatching
         \/ \E f \in Flight : StartScan(f)
         \/ Crash \/ UNCHANGED vars
  PROVE  TypeOK'
<1>1. /\ FlightOK /\ ReaderOK /\ TurnOK /\ MailOK /\ DoneOK /\ AskOK /\ TakenOK /\ DispatchOK /\ QueueOK /\ SoulOK
      /\ budget \in Budget
  BY TypeParts DEF FlightOK
<1>2. /\ Fault => budget' \in Budget
      /\ NoFault => budget' \in Budget
      /\ \A kind \in {"repairs", "pauses", "settings", "arms", "crashes"} : Spends(kind) => budget' \in Budget
  BY <1>1, Spent DEF Fault, NoFault
<1> DEFINE Soul == FlightOK' /\ TakenOK' /\ MailOK' /\ DispatchOK' /\ DoneOK'
           Rest == QueueOK' /\ AskOK' /\ SoulOK' /\ budget' \in Budget
<1>3. ASSUME Soul, Rest PROVE TypeOK'
  BY <1>3 DEF TypeOK, FlightOK, ReaderOK, TurnOK, TakenOK, MailOK, DispatchOK, DoneOK, QueueOK, AskOK, SoulOK
<1>4. /\ UNCHANGED <<turn, reader, merged>> => FlightOK'
      /\ UNCHANGED <<taken, ackedOf>> => TakenOK'
      /\ UNCHANGED <<inbox, arrived>> => MailOK'
      /\ UNCHANGED dispatch => DispatchOK'
      /\ UNCHANGED ghosts => DoneOK'
      /\ UNCHANGED <<wakes, flown, queued>> => QueueOK'
      /\ UNCHANGED <<noticed, ask>> => AskOK'
      /\ UNCHANGED soulVars => SoulOK'
  BY <1>1 DEF FlightOK, ReaderOK, TurnOK, TakenOK, MailOK, DispatchOK, DoneOK, QueueOK, AskOK, SoulOK, ghosts, soulVars
<1>5. ASSUME NEW m \in Message, Arrive(m) PROVE TypeOK'
  <2>1. MailOK'
    BY <1>1, <1>5 DEF Arrive, MailOK
  <2>2. QueueOK'
    <3>1. wakes' \in {wakes, Append(wakes, {m})} /\ UNCHANGED <<flown, queued>>
      BY <1>5 DEF Arrive, flightVars
    <3>2. wakes' \in Seq(SUBSET Message)
      BY <1>1, <3>1 DEF QueueOK
    <3>3. QED BY <1>1, <3>1, <3>2 DEF QueueOK
  <2>3. Soul
    BY <1>4, <1>5, <2>1 DEF Arrive, flightVars, replyVars
  <2>4. Rest
    BY <1>2, <1>4, <1>5, <2>2 DEF Arrive, flightVars, replyVars
  <2>5. QED BY <1>3, <2>3, <2>4
<1>6. CASE Repair
  <2>1. ToSet(inbox) \subseteq Message
    BY <1>1 DEF MailOK, ToSet
  <2>2. wakes' \in Seq(SUBSET Message)
    BY <1>1, <1>6, <2>1 DEF Repair, QueueOK
  <2>3. QueueOK'
    BY <1>1, <1>6, <2>2 DEF Repair, QueueOK, flightVars
  <2>4. Soul
    BY <1>4, <1>6 DEF Repair, flightVars, replyVars, mailVars
  <2>5. Rest
    BY <1>2, <1>4, <1>6, <2>3 DEF Repair, flightVars, replyVars
  <2>6. QED BY <1>3, <2>4, <2>5
<1>7. CASE SetPaused \/ SetColdWake \/ SetWarm
  <2>1. SoulOK'
    BY <1>1, <1>7 DEF SetPaused, SetColdWake, SetWarm, SoulOK, Budget
  <2>2. Soul
    BY <1>4, <1>7 DEF SetPaused, SetColdWake, SetWarm, flightVars, replyVars, mailVars
  <2>3. QueueOK' /\ AskOK'
    BY <1>4, <1>7 DEF SetPaused, SetColdWake, SetWarm, flightVars, replyVars
  <2>4. budget' \in Budget
    BY <1>2, <1>7 DEF SetPaused, SetColdWake, SetWarm
  <2>5. QED BY <1>3, <2>1, <2>2, <2>3, <2>4
<1>8. ASSUME NEW outcome \in {"waiting", "warm", "cold", "failed"}, Reports(outcome) PROVE DispatchOK'
  BY <1>8 DEF Reports, DispatchOK, DispatchAt
<1>9. Land => FlightOK'
  BY <1>1, LandTypes
<1>10. CASE dispatchWake
  <2>1. /\ wakes # <<>> /\ wakes' = Tail(wakes)
        /\ UNCHANGED <<replyVars, soulVars, mailVars, ghosts, reader>>
        /\ \/ WakeIsWaiting \/ WakeGoesWarm \/ WakeFails \/ WakeMerges(Head(wakes)) \/ WakeLaunches
    BY <1>10 DEF dispatchWake
  <2>2. Tail(wakes) \in Seq(SUBSET Message) /\ Head(wakes) \subseteq Message
    BY <1>1, <2>1 DEF QueueOK
  <2>3. budget' \in Budget
    BY <1>2, <2>1 DEF WakeIsWaiting, WakeGoesWarm, WakeFails, WakeMerges, WakeLaunches
  <2>4. DispatchOK'
    BY <1>8, <2>1 DEF WakeIsWaiting, WakeGoesWarm, WakeFails, WakeMerges, WakeLaunches, DispatchOK, DispatchAt
  <2>5. TakenOK' /\ MailOK' /\ DoneOK' /\ AskOK' /\ SoulOK'
    BY <1>4, <2>1 DEF replyVars, mailVars
  <2>6. FlightOK'
    <3>1. turn' = turn \/ turn' = [NoTurn EXCEPT !.at = "setup", !.lane = setting]
      BY <2>1 DEF WakeIsWaiting, WakeGoesWarm, WakeFails, WakeMerges, WakeLaunches
    <3>2. TurnOK'
      <4> DEFINE N == NoTurn
                 Turns == [at : TurnAt, lane : Lanes, batch : Seq(Message), ran : BOOLEAN, signedOut : BOOLEAN]
      <4>1. N \in Turns
        BY DEF NoTurn, TurnAt, Lanes
      <4>2. setting \in Lanes /\ "setup" \in TurnAt
        BY <1>1 DEF SoulOK, TurnAt
      <4>3. turn' = turn \/ turn' = [N EXCEPT !.at = "setup", !.lane = setting]
        BY <3>1
      <4>4. turn \in Turns
        BY <1>1 DEF TurnOK
      <4> HIDE DEF N
      <4>5. turn' \in Turns
        BY <4>1, <4>2, <4>3, <4>4
      <4>6. QED BY <4>5 DEF TurnOK
    <3>3. merged' = merged \/ merged' = merged \cup Head(wakes)
      BY <2>1 DEF WakeIsWaiting, WakeGoesWarm, WakeFails, WakeMerges, WakeLaunches
    <3>4. QED BY <1>1, <2>1, <2>2, <3>2, <3>3 DEF FlightOK, ReaderOK
  <2>7. QueueOK'
    <3>1. flown' = flown \/ flown' = flown + 1
      BY <2>1 DEF WakeIsWaiting, WakeGoesWarm, WakeFails, WakeMerges, WakeLaunches
    <3>2. queued' = queued \/ queued' = [queued EXCEPT ![flown] = @ + 1]
      BY <2>1 DEF WakeIsWaiting, WakeGoesWarm, WakeFails, WakeMerges, WakeLaunches
    <3>3. queued' \in [Flight -> Nat]
      BY <1>1, <3>2 DEF QueueOK
    <3>4. QED BY <1>1, <2>1, <2>2, <3>1, <3>3 DEF QueueOK
  <2>8. QED BY <1>3, <2>3, <2>4, <2>5, <2>6, <2>7
<1>11. CASE SendWarm
  <2>1. UNCHANGED <<replyVars, mailVars, ghosts, wakes, turn, flown, reader, queued, merged, paused, setting>>
    BY <1>11 DEF SendWarm
  <2>2. DispatchOK' /\ budget' \in Budget /\ SoulOK'
    BY <1>1, <1>2, <1>8, <1>11 DEF SendWarm, SoulOK
  <2>3. QED BY <1>3, <1>4, <2>1, <2>2 DEF replyVars, mailVars
<1>12. CASE SetUp \/ CallWebhook
  <2>1. UNCHANGED <<replyVars, soulVars, mailVars, ghosts, wakes, flown, queued>>
    BY <1>12 DEF SetUp, CallWebhook
  <2>2. DispatchOK' /\ budget' \in Budget
    BY <1>2, <1>4, <1>8, <1>12 DEF SetUp, CallWebhook
  <2>3. FlightOK'
    <3>1. CASE turn' = [turn EXCEPT !.at = "webhook"] /\ UNCHANGED <<reader, merged>>
      BY <1>1, <3>1 DEF FlightOK, TurnOK, TurnAt, ReaderOK
    <3>2. CASE turn' = [turn EXCEPT !.at = "relay"] /\ reader' = [reader EXCEPT ![Loop].at = "reading"] /\ UNCHANGED merged
      <4>1. TurnOK'
        BY <1>1, <3>2 DEF TurnOK, TurnAt
      <4>2. ReaderOK'
        BY <1>1, <3>2, LoopReads DEF ReaderOK, HandAt
      <4>3. QED BY <1>1, <3>2, <4>1, <4>2 DEF FlightOK
    <3>3. QED BY <1>9, <1>12, <3>1, <3>2 DEF SetUp, CallWebhook
  <2>4. QED BY <1>3, <1>4, <2>1, <2>2, <2>3 DEF replyVars, mailVars
<1>13. CASE Report
  <2>1. UNCHANGED <<replyVars, soulVars, mailVars, ghosts, wakes, turn, flown, reader, queued, budget, merged>>
    BY <1>13 DEF Report
  <2>2. DispatchOK'
    BY <1>13 DEF Report, DispatchOK, Quiet, DispatchAt
  <2>3. QED BY <1>1, <1>3, <1>4, <2>1, <2>2 DEF replyVars, mailVars
<1>14. ASSUME NEW f \in Flight, StartScan(f) PROVE TypeOK'
  <2>1. UNCHANGED <<dispatchVars, replyVars, ghosts, inbox, turn, budget, merged>>
    BY <1>14 DEF StartScan
  <2>2. queued' \in [Flight -> Nat]
    BY <1>1, <1>14 DEF StartScan, QueueOK
  <2>3. QueueOK'
    BY <1>1, <2>1, <2>2 DEF QueueOK, dispatchVars
  <2>4. FlightOK'
    <3>1. CASE UNCHANGED reader
      BY <1>4, <2>1, <3>1
    <3>2. CASE Hand(f, "reading", <<>>)
      <4>1. <<>> \in Seq(Message) /\ "reading" \in HandAt /\ f \in Reader
        BY DEF HandAt, Reader
      <4>2. QED BY <2>1, <3>2, <4>1, ReaderGoes
    <3>3. QED BY <1>14, <3>1, <3>2 DEF StartScan
  <2>5. QED BY <1>1, <1>3, <1>4, <2>1, <2>3, <2>4 DEF dispatchVars, replyVars
<1>15. CASE Crash
  <2>1. FlightOK'
    <3>1. ReaderOK' /\ TurnOK'
      BY <1>15 DEF Crash, ReaderOK, TurnOK, Idle, NoTurn, HandAt, TurnAt, Lanes
    <3>2. QED BY <1>15, <3>1 DEF Crash, FlightOK
  <2>2. TakenOK'
    <3>1. <<>> \in Seq(Replies) /\ Len(<<>>) = 0 /\ 0 <= KeptReplies /\ {} \subseteq ToSet(<<>>)
      BY BoundsAssumption
    <3>2. QED BY <1>15, <3>1 DEF Crash, TakenOK
  <2>3. MailOK' /\ DoneOK' /\ budget' \in Budget
    BY <1>2, <1>4, <1>15 DEF Crash, mailVars
  <2>4. DispatchOK' /\ AskOK' /\ SoulOK'
    BY <1>1, <1>15 DEF Crash, DispatchOK, Quiet, DispatchAt, AskOK, SoulOK
  <2>5. QueueOK'
    BY <1>1, <1>15 DEF Crash, QueueOK
  <2>6. QED BY <1>3, <2>1, <2>2, <2>3, <2>4, <2>5
<1>16. CASE UNCHANGED vars
  BY <1>1, <1>3, <1>4, <1>16 DEF vars, ghosts, soulVars
<1>17. QED
  BY <1>5, <1>6, <1>7, <1>10, <1>11, <1>12, <1>13, <1>14, <1>15, <1>16 DEF Dispatching

\* Every step keeps the types: at its head the loop has a message (LoopInv)
\* and a reader a reply (HandInv).
LEMMA NextTypes == TypeOK /\ HandInv /\ LoopInv /\ [Next]_vars => TypeOK'
BY AnswerTypes, ReadTypes, OtherTypes DEF Next, Rests

\* What is left of a sequence without repetition does not hold its head.
LEMMA TailOf ==
  ASSUME NEW s \in Seq(Message), s # <<>>
  PROVE  /\ ToSet(Tail(s)) \subseteq ToSet(s) /\ Head(s) \in ToSet(s)
         /\ IsInjective(s) => IsInjective(Tail(s)) /\ Head(s) \notin ToSet(Tail(s))
<1>1. /\ Tail(s) \in Seq(Message) /\ Len(Tail(s)) = Len(s) - 1 /\ Len(s) > 0
      /\ \A i \in 1 .. Len(Tail(s)) : Tail(s)[i] = s[i + 1]
  BY HeadTailProperties
<1>2. Head(s) = s[1]
  OBVIOUS
<1>3. ToSet(Tail(s)) \subseteq ToSet(s) /\ Head(s) \in ToSet(s)
  BY <1>1, <1>2 DEF ToSet
<1>4. ASSUME IsInjective(s) PROVE IsInjective(Tail(s)) /\ Head(s) \notin ToSet(Tail(s))
  BY <1>1, <1>2, <1>4 DEF IsInjective, ToSet
<1>5. QED BY <1>3, <1>4

\* A message appended that was not there.
LEMMA Appended ==
  ASSUME NEW S, NEW s \in Seq(S), NEW m
  PROVE  /\ ToSet(Append(s, m)) = ToSet(s) \cup {m}
         /\ IsInjective(s) /\ m \notin ToSet(s) => IsInjective(Append(s, m))
<1>1. /\ Len(Append(s, m)) = Len(s) + 1 /\ Len(s) \in Nat
      /\ \A i \in 1 .. Len(s) : Append(s, m)[i] = s[i]
      /\ Append(s, m)[Len(s) + 1] = m
      /\ DOMAIN Append(s, m) = 1 .. (Len(s) + 1) /\ DOMAIN s = 1 .. Len(s)
  OBVIOUS
<1>2. ToSet(Append(s, m)) = ToSet(s) \cup {m}
  <2>1. ToSet(Append(s, m)) \subseteq ToSet(s) \cup {m}
    BY <1>1 DEF ToSet
  <2>2. \A i \in 1 .. Len(s) : i \in 1 .. (Len(s) + 1) /\ s[i] = Append(s, m)[i]
    BY <1>1
  <2>3. ToSet(s) \subseteq ToSet(Append(s, m))
    BY <1>1, <2>2 DEF ToSet
  <2>4. m \in ToSet(Append(s, m))
    BY <1>1 DEF ToSet
  <2>5. QED BY <2>1, <2>3, <2>4
<1>3. ASSUME IsInjective(s), m \notin ToSet(s) PROVE IsInjective(Append(s, m))
  <2>1. \A i, j \in 1 .. Len(s) : s[i] = s[j] => i = j
    BY <1>1, <1>3 DEF IsInjective
  <2>2. \A i \in 1 .. Len(s) : s[i] # m
    BY <1>1, <1>3 DEF ToSet
  <2>3. \A i \in 1 .. (Len(s) + 1) : i \in 1 .. Len(s) \/ i = Len(s) + 1
    BY <1>1
  <2>4. QED BY <1>1, <2>1, <2>2, <2>3 DEF IsInjective
<1>4. QED BY <1>2, <1>3

\* The empty sequence holds nothing, and nothing twice.
LEMMA NoneLeft == ToSet(<<>>) = {} /\ IsInjective(<<>>)
BY DEF ToSet, IsInjective

\* What is done stays done, what has arrived has arrived.
LEMMA OnlyMore == [Next]_vars => done \subseteq done' /\ arrived \subseteq arrived'
<1> SUFFICES ASSUME [Next]_vars PROVE done \subseteq done' /\ arrived \subseteq arrived'
  OBVIOUS
<1>1. ASSUME NEW m \in Message, Arrive(m) PROVE done \subseteq done' /\ arrived \subseteq arrived'
  BY <1>1 DEF Arrive, ghosts
<1>2. CASE Repair \/ SetPaused \/ SetColdWake \/ SetWarm \/ Crash \/ Rests \/ UNCHANGED vars
  BY <1>2 DEF Repair, SetPaused, SetColdWake, SetWarm, Crash, Rests, vars, ghosts, mailVars
<1>3. CASE Dispatching
  BY <1>3 DEF Dispatching, dispatchWake, SendWarm, SetUp, CallWebhook, Report, ghosts, mailVars
<1>4. ASSUME NEW p \in Reader, Reading(p) PROVE done \subseteq done' /\ arrived \subseteq arrived'
  BY <1>4 DEF Reading, BrokerReads, TakeAnswer, TakeReply, DecideReply, ConfirmReply, RepliesTaken,
              ghosts, relayVars, dispatchVars
<1>5. ASSUME NEW f \in Flight, StartScan(f) PROVE done \subseteq done' /\ arrived \subseteq arrived'
  BY <1>5 DEF StartScan, ghosts, dispatchVars
<1>6. CASE Answering
  BY <1>6 DEF Answering, NextMessage, BatchEnds, TaskBrief, StartTask, TurnResumes, Tell, SendReply,
              AckMessage, DropTask, ghosts, relayVars, dispatchVars
<1>7. CASE TurnCompletes \/ TurnThrows \/ TurnSignedOut \/ TurnAsks \/ AskExpires \/ TurnAborts
  BY <1>7 DEF TurnCompletes, TurnThrows, TurnSignedOut, TurnAsks, AskExpires, TurnAborts,
              ghosts, relayVars, dispatchVars
<1>8. QED BY <1>1, <1>2, <1>3, <1>4, <1>5, <1>6, <1>7 DEF Next

-----------------------------------------------------------------------------
(* The owner replies in hand. *)

\* A step that moves no reader.
LEMMA HandStays == ASSUME HandInv, UNCHANGED reader, done \subseteq done' PROVE HandInv'
BY DEF HandInv

\* A step that ends the flight.
LEMMA HandLands == ASSUME ReaderOK, HandInv, Land, done \subseteq done' PROVE HandInv'
BY DEF HandInv, ReaderOK, Land, Idle

\* A step that moves one reader.
LEMMA HandGoes ==
  ASSUME ReaderOK, HandInv, done \subseteq done', NEW p \in Reader, NEW at, NEW rest, Hand(p, at, rest),
         at = "handing" /\ rest # <<>> => Head(rest) \in Replies,
         at \in {"deciding", "confirming"} => rest # <<>> /\ Head(rest) \in Replies \cap done'
  PROVE  HandInv'
<1>1. reader'[p].at = at /\ reader'[p].rest = rest /\ \A q \in Reader \ {p} : reader'[q] = reader[q]
  BY DEF Hand, ReaderOK
<1>2. QED BY <1>1 DEF HandInv

\* A reader goes on to the next owner reply of what it was answered.
LEMMA NextReplyInHand ==
  ASSUME TypeOK, HandInv, done \subseteq done', NEW p \in Reader, reader[p].rest # <<>>, NextHand(p)
  PROVE  HandInv'
<1>1. ReaderOK /\ Tail(reader[p].rest) \in Seq(Message)
  BY TypeParts DEF FlightOK, ReaderOK
<1> DEFINE r == FromReply(Tail(reader[p].rest))
<1>2. r # <<>> => Head(r) \in Replies
  BY <1>1, FromReplyStarts
<1>3. Hand(p, "handing", r)
  BY DEF NextHand
<1> HIDE DEF r
<1>4. QED BY <1>1, <1>2, <1>3, HandGoes

\* What a reader has in hand is an owner reply, handed over before it is acked,
\* though other readers take replies between its own steps.
LEMMA NextHandInv == TypeOK /\ HandInv /\ LoopInv /\ TakenInv /\ [Next]_vars => HandInv'
<1> SUFFICES ASSUME TypeOK, HandInv, LoopInv, TakenInv, [Next]_vars PROVE HandInv'
  OBVIOUS
<1>1. ReaderOK /\ done \subseteq done'
  BY TypeParts, OnlyMore DEF FlightOK
<1>2. UNCHANGED reader => HandInv'
  BY <1>1, HandStays
<1>3. Land => HandInv'
  BY <1>1, HandLands
<1>4. ASSUME NEW p \in Reader, NEW at \in HandAt \cup MailAt, NEW rest, Hand(p, at, rest),
             at \notin {"handing", "deciding", "confirming"}
      PROVE  HandInv'
  BY <1>1, <1>4, HandGoes
<1>5. \A at \in MailAt \cup {"idle", "reading", "answered"} :
        at \in HandAt \cup MailAt /\ at \notin {"handing", "deciding", "confirming"}
  BY DEF HandAt, MailAt
<1>6. \A p \in Reader : NextHand(p) /\ reader[p].rest # <<>> => HandInv'
  BY <1>1, NextReplyInHand
<1>7. CASE Repair \/ SetPaused \/ SetColdWake \/ SetWarm \/ Rests \/ UNCHANGED vars \/ \E m \in Message : Arrive(m)
  BY <1>2, <1>7 DEF Repair, SetPaused, SetColdWake, SetWarm, Rests, vars, Arrive, flightVars
<1>8. CASE Crash
  BY <1>8 DEF Crash, HandInv, Idle
<1>9. CASE Dispatching
  <2>1. CASE reader' = [reader EXCEPT ![Loop].at = "reading"]
    BY <1>1, <2>1, LoopReads DEF HandInv, ReaderOK
  <2>2. QED BY <1>2, <1>3, <1>9, <2>1 DEF Dispatching, dispatchWake, SendWarm, SetUp, CallWebhook, Report
<1>10. ASSUME NEW f \in Flight, StartScan(f) PROVE HandInv'
  <2>1. f \in Reader
    BY DEF Reader
  <2>2. QED BY <1>2, <1>4, <1>5, <1>10, <2>1 DEF StartScan
<1>11. ASSUME NEW at \in MailAt \cup {"reading"}, NEW rest, Hand(Loop, at, rest) PROVE HandInv'
  BY <1>4, <1>5, <1>11, LoopReads
<1>12. CASE Answering
  <2>1. UNCHANGED reader \/ Land \/ \E at \in MailAt \cup {"reading"} : \E rest : Hand(Loop, at, rest)
    BY <1>12 DEF Answering, NextMessage, BatchEnds, TaskBrief, StartTask, TurnResumes, Tell, SendReply,
                 AckMessage, DropTask, Goes, NextMail, MailAt
  <2>2. QED BY <1>2, <1>3, <1>11, <2>1
<1>13. CASE TurnCompletes \/ TurnThrows \/ TurnSignedOut \/ TurnAsks \/ AskExpires \/ TurnAborts
  <2>1. UNCHANGED reader \/ Land \/ \E at \in MailAt \cup {"reading"} : \E rest : Hand(Loop, at, rest)
    BY <1>13 DEF TurnCompletes, TurnThrows, TurnSignedOut, TurnAsks, AskExpires, TurnAborts,
                 Goes, NextMail, MailAt
  <2>2. QED BY <1>2, <1>3, <1>11, <2>1
<1>14. ASSUME NEW p \in Reader, Reading(p) PROVE HandInv'
  <2> DEFINE r == reader[p].rest
             m == Head(r)
  <2>1. r \in Seq(Message)
    BY <1>1 DEF ReaderOK
  <2>2. CASE BrokerReads(p)
    BY <1>3, <1>4, <1>5, <2>2 DEF BrokerReads, GivesUp
  <2>3. CASE TakeAnswer(p)
    <3>1. FromReply(r) # <<>> => Head(FromReply(r)) \in Replies
      BY <2>1, FromReplyStarts
    <3>2. Hand(p, "handing", FromReply(r)) => HandInv'
      <4> DEFINE s == FromReply(r)
      <4> HIDE DEF s
      <4>1. Hand(p, "handing", s) /\ (s # <<>> => Head(s) \in Replies) => HandInv'
        BY <1>1, HandGoes
      <4>2. QED BY <3>1, <4>1 DEF s
    <3>3. QED BY <1>3, <2>3, <3>2 DEF TakeAnswer, Finished
  <2>4. CASE TakeReply(p)
    <3>1. r # <<>> /\ m \in Replies
      BY <2>4 DEF TakeReply, HandInv
    <3>2. CASE NextHand(p)
      BY <1>6, <3>1, <3>2
    <3>3. CASE Hand(p, "deciding", r) /\ done' = done \union {m}
      BY <1>1, <3>1, <3>3, HandGoes
    <3>4. CASE Hand(p, "confirming", r) /\ m \in ToSet(taken)
      <4>1. m \in done'
        BY <1>1, <3>4 DEF TakenInv
      <4>2. QED BY <1>1, <3>1, <3>4, <4>1, HandGoes
    <3>5. QED BY <2>4, <3>2, <3>3, <3>4 DEF TakeReply
  <2>5. CASE DecideReply(p)
    <3>1. r # <<>> /\ m \in Replies /\ m \in done'
      BY <1>1, <2>5 DEF DecideReply, HandInv
    <3>2. CASE Hand(p, "confirming", r)
      BY <1>1, <3>1, <3>2, HandGoes
    <3>3. QED BY <1>6, <2>5, <3>1, <3>2 DEF DecideReply
  <2>6. CASE ConfirmReply(p)
    <3>1. r # <<>>
      BY <2>6 DEF ConfirmReply, HandInv
    <3>2. QED BY <1>3, <1>6, <2>6, <3>1 DEF ConfirmReply
  <2>7. CASE RepliesTaken(p)
    <3>1. \/ Hand(p, "idle", <<>>) \/ Hand(p, "mail", turn.batch)
      BY <2>7 DEF RepliesTaken
    <3>2. "mail" \in MailAt
      BY DEF MailAt
    <3>3. QED BY <1>4, <1>5, <3>1, <3>2
  <2>8. QED BY <1>14, <2>2, <2>3, <2>4, <2>5, <2>6, <2>7 DEF Reading
<1>15. QED BY <1>7, <1>8, <1>9, <1>10, <1>12, <1>13, <1>14 DEF Next

-----------------------------------------------------------------------------
(* The loop and its batch. *)

\* The loop's batch grows by nothing but what it reads in the inbox.
Before == ToSet(inbox) \cup ToSet(Batch)
LoopKept == LoopInv' /\ IsInjective(Batch') /\ ToSet(Batch') \subseteq Before

\* The loop is where it was, with what it had.
LEMMA LoopStays ==
  ASSUME LoopInv, BatchInv, reader'[Loop] = reader[Loop], turn'.at = turn.at, turn'.batch = turn.batch,
         done \subseteq done', arrived \subseteq arrived'
  PROVE  LoopKept
<1>1. LoopInv'
  BY DEF LoopInv, mail
<1>2. Batch' = Batch
  BY DEF Batch, mail
<1>3. QED BY <1>1, <1>2 DEF BatchInv, Before, LoopKept

\* There is no loop, or it is about to read.
LEMMA LoopRests ==
  ASSUME reader'[Loop].at \in {"idle", "reading"}, reader'[Loop].at # "idle" => turn'.at = "relay"
  PROVE  LoopKept
<1>1. LoopInv'
  BY DEF LoopInv, MailAt
<1>2. Batch' = <<>>
  BY DEF Batch, MailAt
<1>3. QED BY <1>1, <1>2, NoneLeft DEF LoopKept

\* The loop goes on with a part of what it had, or with what it read.
LEMMA LoopGoes ==
  ASSUME ReaderOK, NEW at, NEW rest, Hand(Loop, at, rest), turn'.at = "relay",
         at \in MailAt \ {"mail"} => rest # <<>>,
         at \in {"acking", "dropping"} => Head(rest) \in done',
         at \in {"answered"} \cup MailAt => IsInjective(rest) /\ ToSet(rest) \subseteq Before,
         at \in {"handing", "deciding", "confirming"} =>
            IsInjective(turn'.batch) /\ ToSet(turn'.batch) \subseteq Before
  PROVE  LoopKept
<1>1. reader'[Loop].at = at /\ mail' = rest
  BY LoopReads DEF Hand, ReaderOK, mail
<1>2. LoopInv'
  BY <1>1 DEF LoopInv
<1>3. IsInjective(Batch') /\ ToSet(Batch') \subseteq Before
  <2>1. CASE at \in {"answered"} \cup MailAt
    BY <1>1, <2>1 DEF Batch
  <2>2. CASE at \in {"handing", "deciding", "confirming"} /\ at \notin {"answered"} \cup MailAt
    BY <1>1, <2>2 DEF Batch
  <2>3. CASE at \notin {"answered", "handing", "deciding", "confirming"} \cup MailAt
    BY <1>1, <2>3, NoneLeft DEF Batch
  <2>4. QED BY <2>1, <2>2, <2>3
<1>4. QED BY <1>2, <1>3 DEF LoopKept

\* A scan's step leaves the loop alone.
LEMMA ScanBeside ==
  ASSUME TypeOK, LoopInv, BatchInv, NEW p \in Reader, IsScan(p), Reading(p) \/ StartScan(p), [Next]_vars
  PROVE  LoopKept
<1>1. ReaderOK /\ done \subseteq done' /\ arrived \subseteq arrived'
  BY TypeParts, OnlyMore DEF FlightOK
<1>2. UNCHANGED turn
  BY DEF Reading, StartScan, BrokerReads, TakeAnswer, TakeReply, DecideReply, ConfirmReply, RepliesTaken, GivesUp
<1>3. UNCHANGED reader \/ \E at, rest : Hand(p, at, rest)
  BY DEF Reading, StartScan, BrokerReads, TakeAnswer, TakeReply, DecideReply, ConfirmReply, RepliesTaken, GivesUp, NextHand
<1>4. reader'[Loop] = reader[Loop]
  BY <1>1, <1>3, LoopReads DEF Hand, ReaderOK
<1>5. QED BY <1>1, <1>2, <1>4, LoopStays

\* The loop takes the owner replies of its batch.
LEMMA LoopTakes ==
  ASSUME TypeOK, HandInv, LoopInv, BoxInv, BatchInv, Reading(Loop), [Next]_vars
  PROVE  LoopKept
<1>1. ReaderOK /\ TurnOK /\ mail \in Seq(Message) /\ done \subseteq done' /\ arrived \subseteq arrived'
  BY TypeParts, OnlyMore, LoopReads DEF FlightOK, ReaderOK, mail
<1>2. Land => LoopKept
  BY <1>1, LoopRests, LoopReads DEF Land, ReaderOK, Idle
<1>3. reader[Loop].at # "idle"
  BY DEF Reading, BrokerReads, TakeAnswer, TakeReply, DecideReply, ConfirmReply, RepliesTaken
<1>4. turn.at = "relay"
  BY <1>3 DEF LoopInv
<1>5. ~IsScan(Loop)
  BY LoopReads
<1>6. /\ "answered" \notin MailAt /\ "handing" \notin MailAt /\ "deciding" \notin MailAt /\ "confirming" \notin MailAt
  BY DEF MailAt
<1>7. ASSUME reader[Loop].at \in {"handing", "deciding", "confirming"}
      PROVE  IsInjective(turn.batch) /\ ToSet(turn.batch) \subseteq Before
  BY <1>1, <1>6, <1>7 DEF BatchInv, Batch, Before
<1>8. ASSUME NEW at \in {"handing", "deciding", "confirming"}, NEW rest, Hand(Loop, at, rest), UNCHANGED turn,
             reader[Loop].at \in {"handing", "deciding", "confirming"}
      PROVE  LoopKept
  BY <1>1, <1>4, <1>6, <1>7, <1>8, LoopGoes
<1>9. CASE BrokerReads(Loop)
  <2>1. CASE Hand(Loop, "answered", inbox) /\ UNCHANGED turn
    <3>1. IsInjective(inbox) /\ ToSet(inbox) \subseteq Before
      BY DEF BoxInv, Before
    <3>2. QED BY <1>1, <1>4, <1>6, <2>1, <3>1, LoopGoes
  <2>2. QED BY <1>2, <1>5, <1>9, <2>1 DEF BrokerReads, GivesUp
<1>10. CASE TakeAnswer(Loop)
  <2>1. IsInjective(mail) /\ ToSet(mail) \subseteq Before
    BY <1>1, <1>10 DEF TakeAnswer, BatchInv, Batch, Before
  <2> DEFINE s == FromReply(mail)
  <2>2. CASE Hand(Loop, "handing", s) /\ turn' = [turn EXCEPT !.batch = mail]
    <3> HIDE DEF s
    <3>1. turn'.at = "relay" /\ turn'.batch = mail
      BY <1>1, <1>4, <2>2 DEF TurnOK
    <3>2. QED BY <1>1, <1>6, <2>1, <2>2, <3>1, LoopGoes
  <2>3. QED BY <1>2, <1>5, <1>10, <2>2 DEF TakeAnswer, Finished, mail
<1>11. ASSUME NextHand(Loop), UNCHANGED turn, reader[Loop].at \in {"handing", "deciding", "confirming"}
       PROVE  LoopKept
  <2> DEFINE s == FromReply(Tail(reader[Loop].rest))
  <2>1. Hand(Loop, "handing", s)
    BY <1>11 DEF NextHand
  <2> HIDE DEF s
  <2>2. QED BY <1>8, <1>11, <2>1
<1>12. CASE TakeReply(Loop) \/ DecideReply(Loop)
  <2>1. UNCHANGED turn /\ reader[Loop].at \in {"handing", "deciding", "confirming"}
    BY <1>12 DEF TakeReply, DecideReply
  <2>2. \/ NextHand(Loop) \/ Hand(Loop, "deciding", mail) \/ Hand(Loop, "confirming", mail)
    BY <1>12 DEF TakeReply, DecideReply, mail
  <2>3. QED BY <1>8, <1>11, <2>1, <2>2
<1>13. CASE ConfirmReply(Loop)
  BY <1>2, <1>5, <1>11, <1>13 DEF ConfirmReply
<1>14. CASE RepliesTaken(Loop)
  <2>1. Hand(Loop, "mail", turn.batch) /\ UNCHANGED turn /\ reader[Loop].at = "handing"
    BY <1>5, <1>14 DEF RepliesTaken
  <2>2. QED BY <1>1, <1>4, <1>6, <1>7, <2>1, LoopGoes
<1>15. QED BY <1>9, <1>10, <1>12, <1>13, <1>14 DEF Reading

\* The loop answers the messages of its batch.
LEMMA LoopAnswers ==
  ASSUME TypeOK, LoopInv, BatchInv, [Next]_vars,
         Answering \/ TurnCompletes \/ TurnThrows \/ TurnSignedOut \/ TurnAsks \/ AskExpires \/ TurnAborts
  PROVE  LoopKept
<1>1. ReaderOK /\ TurnOK /\ mail \in Seq(Message) /\ done \subseteq done' /\ arrived \subseteq arrived'
  BY TypeParts, OnlyMore, LoopReads DEF FlightOK, ReaderOK, mail
<1>2. Land => LoopKept
  BY <1>1, LoopRests, LoopReads DEF Land, ReaderOK, Idle
<1>3. turn.at = "relay" /\ reader[Loop].at \in MailAt
  BY DEF Answering, NextMessage, BatchEnds, TaskBrief, StartTask, TurnResumes, Tell, SendReply, AckMessage, DropTask,
         TurnCompletes, TurnThrows, TurnSignedOut, TurnAsks, AskExpires, TurnAborts, At, MailAt
<1>4. IsInjective(mail) /\ ToSet(mail) \subseteq Before
  BY <1>1, <1>3 DEF BatchInv, Batch, Before
<1>5. /\ \A at \in {"answered", "handing", "deciding", "confirming"} : at \notin MailAt
      /\ \A at \in {"briefing", "starting", "running", "asking", "replying", "telling", "acking", "dropping"} :
           at \in MailAt \ {"mail"}
  BY DEF MailAt
<1>6. ASSUME NEW at \in MailAt, mail # <<>>, at \in {"acking", "dropping"} => Head(mail) \in done',
             Goes(at), turn'.at = turn.at
      PROVE  LoopKept
  BY <1>1, <1>3, <1>4, <1>5, <1>6, LoopGoes DEF Goes
<1>7. ASSUME mail # <<>>, NextMail, turn'.at = turn.at
      PROVE  LoopKept
  <2> DEFINE t == Tail(mail)
  <2>1. IsInjective(t) /\ ToSet(t) \subseteq Before
    BY <1>1, <1>4, <1>7, TailOf
  <2>2. Hand(Loop, "mail", t)
    BY <1>7 DEF NextMail
  <2> HIDE DEF t
  <2>3. QED BY <1>1, <1>3, <1>5, <1>7, <2>1, <2>2, LoopGoes
<1>8. reader[Loop].at # "mail" => mail # <<>>
  BY <1>3 DEF LoopInv
<1>9. \A at \in MailAt : at \notin {"acking", "dropping"} /\ mail # <<>> /\ Goes(at) /\ turn'.at = turn.at
         => LoopKept
  BY <1>6
<1>10. CASE NextMessage
  <2>1. mail # <<>>
    BY <1>10 DEF NextMessage
  <2>2. Land \/ (UNCHANGED turn /\ (NextMail \/ \E at \in {"telling", "briefing", "running"} : Goes(at)))
    BY <1>10 DEF NextMessage
  <2>3. QED BY <1>2, <1>5, <1>7, <1>9, <2>1, <2>2
<1>11. CASE BatchEnds
  <2>1. Land \/ (Hand(Loop, "reading", <<>>) /\ UNCHANGED turn)
    BY <1>11 DEF BatchEnds
  <2>2. CASE Hand(Loop, "reading", <<>>) /\ UNCHANGED turn
    BY <1>1, <1>3, <2>2, LoopRests, LoopReads DEF Hand, ReaderOK
  <2>3. QED BY <1>2, <2>1, <2>2
<1>12. CASE TaskBrief
  <2>1. mail # <<>>
    BY <1>8, <1>12 DEF TaskBrief, At
  <2>2. \/ Land
        \/ UNCHANGED turn /\ Goes("starting")
        \/ UNCHANGED turn /\ Goes("acking") /\ Head(mail) \in done'
    BY <1>12 DEF TaskBrief
  <2>3. QED BY <1>2, <1>5, <1>6, <1>9, <2>1, <2>2
<1>13. CASE StartTask \/ TurnResumes \/ TurnAsks \/ AskExpires \/ TurnAborts
  <2>1. mail # <<>>
    BY <1>8, <1>13 DEF StartTask, TurnResumes, TurnAsks, AskExpires, TurnAborts, At
  <2>2. \/ Land
        \/ UNCHANGED turn /\ \E at \in {"running", "asking"} : Goes(at)
    BY <1>13 DEF StartTask, TurnResumes, TurnAsks, AskExpires, TurnAborts
  <2>3. QED BY <1>2, <1>5, <1>9, <2>1, <2>2
<1>14. CASE Tell
  <2>1. mail # <<>> /\ (Land \/ (UNCHANGED turn /\ NextMail))
    BY <1>8, <1>14 DEF Tell, At
  <2>2. QED BY <1>2, <1>7, <2>1
<1>15. CASE SendReply
  <2>1. mail # <<>> /\ (Land \/ (UNCHANGED turn /\ Goes("acking") /\ Head(mail) \in done'))
    BY <1>8, <1>15 DEF SendReply, At
  <2>2. QED BY <1>2, <1>5, <1>6, <2>1
<1>16. CASE AckMessage \/ DropTask
  <2>1. mail # <<>> /\ (Land \/ (UNCHANGED turn /\ NextMail))
    BY <1>8, <1>16 DEF AckMessage, DropTask, At
  <2>2. QED BY <1>2, <1>7, <2>1
<1>17. CASE TurnCompletes
  <2>1. mail # <<>> /\ turn'.at = turn.at
    BY <1>1, <1>8, <1>17 DEF TurnCompletes, At, TurnOK
  <2>2. Goes("replying") \/ (Goes("acking") /\ Head(mail) \in done')
    BY <1>17 DEF TurnCompletes
  <2>3. QED BY <1>5, <1>6, <1>9, <2>1, <2>2
<1>18. CASE TurnThrows
  <2>1. mail # <<>>
    BY <1>8, <1>18 DEF TurnThrows, At
  <2>2. Land \/ (UNCHANGED turn /\ Goes("dropping") /\ Head(mail) \in done')
    BY <1>18 DEF TurnThrows
  <2>3. QED BY <1>2, <1>5, <1>6, <2>1, <2>2
<1>19. CASE TurnSignedOut
  <2>1. mail # <<>> /\ turn'.at = turn.at
    BY <1>1, <1>8, <1>19 DEF TurnSignedOut, At, TurnOK
  <2>2. NextMail \/ Goes("telling")
    BY <1>19 DEF TurnSignedOut
  <2>3. QED BY <1>5, <1>7, <1>9, <2>1, <2>2
<1>20. QED BY <1>10, <1>11, <1>12, <1>13, <1>14, <1>15, <1>16, <1>17, <1>18, <1>19 DEF Answering

\* Every step keeps the loop in its flight and its batch within what it read.
LEMMA NextKept ==
  TypeOK /\ HandInv /\ LoopInv /\ BoxInv /\ BatchInv /\ [Next]_vars => LoopKept
<1> SUFFICES ASSUME TypeOK, HandInv, LoopInv, BoxInv, BatchInv, [Next]_vars PROVE LoopKept
  OBVIOUS
<1>1. ReaderOK /\ TurnOK /\ done \subseteq done' /\ arrived \subseteq arrived'
  BY TypeParts, OnlyMore DEF FlightOK
<1>2. Land => LoopKept
  BY <1>1, LoopRests, LoopReads DEF Land, ReaderOK, Idle
<1>3. UNCHANGED <<reader, turn>> => LoopKept
  BY <1>1, LoopStays
<1>4. ASSUME UNCHANGED reader, turn.at # "relay" PROVE LoopKept
  BY <1>4, LoopRests DEF LoopInv
<1>5. CASE Repair \/ SetPaused \/ SetColdWake \/ SetWarm \/ Rests \/ UNCHANGED vars \/ \E m \in Message : Arrive(m)
  BY <1>3, <1>5 DEF Repair, SetPaused, SetColdWake, SetWarm, Rests, vars, Arrive, flightVars
<1>6. CASE Crash
  BY <1>6, LoopRests, LoopReads DEF Crash, Idle
<1>7. CASE Dispatching
  <2>1. CASE UNCHANGED turn /\ UNCHANGED reader
    BY <1>3, <2>1
  <2>2. CASE turn.at # "relay" /\ UNCHANGED reader
    BY <1>4, <2>2
  <2>3. CASE turn' = [turn EXCEPT !.at = "relay"] /\ reader' = [reader EXCEPT ![Loop].at = "reading"]
    <3>1. turn'.at = "relay" /\ reader'[Loop].at = "reading"
      BY <1>1, <2>3, LoopReads DEF TurnOK, ReaderOK
    <3>2. QED BY <3>1, LoopRests
  <2>4. QED
    BY <1>2, <1>7, <2>1, <2>2, <2>3
       DEF Dispatching, dispatchWake, WakeIsWaiting, WakeGoesWarm, WakeFails, WakeMerges, WakeLaunches,
           SendWarm, SetUp, CallWebhook, Report
<1>8. ASSUME NEW f \in Flight, StartScan(f) PROVE LoopKept
  <2>1. f \in Reader /\ IsScan(f)
    BY LoopIsNoFlight DEF Reader, IsScan
  <2>2. QED BY <1>8, <2>1, ScanBeside
<1>9. ASSUME NEW p \in Reader, Reading(p) PROVE LoopKept
  <2>1. CASE IsScan(p)
    BY <1>9, <2>1, ScanBeside
  <2>2. CASE p = Loop
    BY <1>9, <2>2, LoopTakes
  <2>3. QED BY <2>1, <2>2, LoopReads
<1>10. CASE Answering \/ TurnCompletes \/ TurnThrows \/ TurnSignedOut \/ TurnAsks \/ AskExpires \/ TurnAborts
  BY <1>10, LoopAnswers
<1>11. QED BY <1>5, <1>6, <1>7, <1>8, <1>9, <1>10 DEF Next

\* Every step keeps the loop in its flight, acks only what is done, and gives it
\* no message twice in a batch.
LEMMA NextLoop ==
  TypeOK /\ HandInv /\ LoopInv /\ BoxInv /\ BatchInv /\ [Next]_vars => LoopInv' /\ BatchInv'
BY NextKept, OnlyMore DEF LoopKept, BoxInv, BatchInv, Before

-----------------------------------------------------------------------------
(* The marks, the inbox, and what is lost. *)

\* A new mark: what is forgotten for it is the oldest.
LEMMA MarkAdded ==
  ASSUME TakenOK, IsInjective(taken), NEW m \in Replies, m \notin ToSet(taken)
  PROVE  /\ IsInjective(Remembered(m)) /\ ToSet(Remembered(m)) \subseteq ToSet(taken) \cup {m}
         /\ Len(taken) < KeptReplies => ToSet(Remembered(m)) = ToSet(taken) \cup {m}
<1> DEFINE all == Append(taken, m)
<1>1. taken \in Seq(Replies) /\ taken \in Seq(Message)
  BY DEF TakenOK, Message
<1>2. all \in Seq(Message) /\ all # <<>> /\ Len(all) = Len(taken) + 1
  BY <1>1 DEF Message
<1>3. IsInjective(all) /\ ToSet(all) = ToSet(taken) \cup {m}
  BY <1>1, Appended
<1>4. Remembered(m) = IF Len(all) > KeptReplies THEN Tail(all) ELSE all
  BY DEF Remembered
<1> HIDE DEF all
<1>5. IsInjective(Tail(all)) /\ ToSet(Tail(all)) \subseteq ToSet(all)
  BY <1>2, <1>3, TailOf
<1>6. Len(taken) < KeptReplies => ~(Len(all) > KeptReplies)
  BY <1>1, <1>2, BoundsAssumption
<1>7. QED BY <1>3, <1>4, <1>5, <1>6

\* No reply is marked twice, and a mark is of a reply that was handed over.
LEMMA NextTaken == TypeOK /\ HandInv /\ TakenInv /\ [Next]_vars => TakenInv'
<1> SUFFICES ASSUME TypeOK, HandInv, TakenInv, [Next]_vars PROVE TakenInv'
  OBVIOUS
<1>1. TakenOK /\ done \subseteq done'
  BY TypeParts, OnlyMore
<1>2. UNCHANGED taken => TakenInv'
  BY <1>1 DEF TakenInv
<1>3. CASE Repair \/ SetPaused \/ SetColdWake \/ SetWarm \/ Rests \/ UNCHANGED vars \/ \E m \in Message : Arrive(m)
  BY <1>2, <1>3 DEF Repair, SetPaused, SetColdWake, SetWarm, Rests, vars, Arrive, flightVars, replyVars
<1>4. CASE Crash
  BY <1>4, NoneLeft DEF Crash, TakenInv
<1>5. CASE Dispatching
  BY <1>2, <1>5 DEF Dispatching, dispatchWake, SendWarm, SetUp, CallWebhook, Report, replyVars
<1>6. CASE \E f \in Flight : StartScan(f)
  BY <1>2, <1>6 DEF StartScan, replyVars
<1>7. CASE Answering \/ TurnCompletes \/ TurnThrows \/ TurnSignedOut \/ TurnAsks \/ AskExpires \/ TurnAborts
  BY <1>2, <1>7
     DEF Answering, NextMessage, BatchEnds, TaskBrief, StartTask, TurnResumes, Tell, SendReply, AckMessage, DropTask,
         TurnCompletes, TurnThrows, TurnSignedOut, TurnAsks, AskExpires, TurnAborts, relayVars
<1>8. ASSUME NEW p \in Reader, Reading(p) PROVE TakenInv'
  <2>1. CASE UNCHANGED taken
    BY <1>2, <2>1
  <2>2. CASE TakeReply(p) /\ ~ UNCHANGED taken
    <3> DEFINE m == Head(reader[p].rest)
    <3>1. m \in Replies
      BY <2>2 DEF TakeReply, HandInv
    <3>2. m \notin ToSet(taken) /\ taken' = Remembered(m) /\ done' = done \union {m}
      BY <2>2 DEF TakeReply
    <3> HIDE DEF m
    <3>3. QED BY <1>1, <3>1, <3>2, MarkAdded DEF TakenInv
  <2>3. QED BY <1>8, <2>1, <2>2
     DEF Reading, BrokerReads, TakeAnswer, DecideReply, ConfirmReply, RepliesTaken, relayVars
<1>9. QED BY <1>3, <1>4, <1>5, <1>6, <1>7, <1>8 DEF Next

\* What a step does to the inbox.
BoxStays == UNCHANGED <<inbox, arrived>>
BoxGets(m) == m \in Message \ arrived /\ arrived' = arrived \cup {m} /\ inbox' = Append(inbox, m)
BoxDrops(m) == m \in done' /\ UNCHANGED arrived /\ inbox' = RemoveFirst(inbox, m)

\* A step leaves the inbox, adds a message that is new, or acks one that is done.
LEMMA BoxSteps ==
  ASSUME TypeOK, HandInv, LoopInv, [Next]_vars
  PROVE  BoxStays \/ (\E m \in Message : BoxGets(m)) \/ (\E m : BoxDrops(m))
<1>1. done \subseteq done' /\ budget \in Budget
  BY TypeParts, OnlyMore
<1>2. CASE Repair \/ SetPaused \/ SetColdWake \/ SetWarm \/ Rests \/ UNCHANGED vars \/ Crash
  BY <1>2 DEF Repair, SetPaused, SetColdWake, SetWarm, Rests, vars, Crash, mailVars, BoxStays
<1>3. ASSUME NEW m \in Message, Arrive(m) PROVE \E n \in Message : BoxGets(n)
  BY <1>3 DEF Arrive, BoxGets
<1>4. CASE Dispatching
  BY <1>4 DEF Dispatching, dispatchWake, SendWarm, SetUp, CallWebhook, Report, mailVars, BoxStays
<1>5. CASE \E f \in Flight : StartScan(f)
  BY <1>5 DEF StartScan, dispatchVars, BoxStays
<1>6. CASE Answering \/ TurnCompletes \/ TurnThrows \/ TurnSignedOut \/ TurnAsks \/ AskExpires \/ TurnAborts
  <2>1. CASE AckMessage \/ DropTask
    <3>1. UNCHANGED arrived /\ inbox' \in {inbox, RemoveFirst(inbox, Head(mail))} /\ Head(mail) \in done
      BY <2>1 DEF AckMessage, DropTask, relayVars, dispatchVars, At, LoopInv
    <3>2. QED BY <1>1, <3>1 DEF BoxStays, BoxDrops
  <2>2. CASE UNCHANGED <<inbox, arrived>>
    BY <2>2 DEF BoxStays
  <2>3. QED BY <1>6, <2>1, <2>2
     DEF Answering, NextMessage, BatchEnds, TaskBrief, StartTask, TurnResumes, Tell, SendReply,
         TurnCompletes, TurnThrows, TurnSignedOut, TurnAsks, AskExpires, TurnAborts, relayVars, dispatchVars
<1>7. ASSUME NEW p \in Reader, Reading(p) PROVE BoxStays \/ \E m : BoxDrops(m)
  <2>1. CASE ConfirmReply(p)
    <3> DEFINE m == Head(reader[p].rest)
    <3>1. m \in done
      BY <2>1 DEF ConfirmReply, HandInv
    <3>2. UNCHANGED arrived /\ inbox' \in {inbox, RemoveFirst(inbox, m)}
      BY <2>1 DEF ConfirmReply, dispatchVars
    <3>3. QED BY <1>1, <3>1, <3>2 DEF BoxStays, BoxDrops
  <2>2. CASE UNCHANGED <<inbox, arrived>>
    BY <2>2 DEF BoxStays
  <2>3. QED BY <1>7, <2>1, <2>2
     DEF Reading, BrokerReads, TakeAnswer, TakeReply, DecideReply, RepliesTaken, relayVars, dispatchVars
<1>8. QED BY <1>2, <1>3, <1>4, <1>5, <1>6, <1>7 DEF Next

\* Nothing is lost by a step.
LEMMA NextBox ==
  TypeOK /\ HandInv /\ LoopInv /\ BoxInv /\ NothingLost /\ [Next]_vars => BoxInv' /\ NothingLost'
<1> SUFFICES ASSUME TypeOK, HandInv, LoopInv, BoxInv, NothingLost, [Next]_vars PROVE BoxInv' /\ NothingLost'
  OBVIOUS
<1>1. MailOK /\ done \subseteq done'
  BY TypeParts, OnlyMore
<1>2. CASE BoxStays
  BY <1>1, <1>2 DEF BoxStays, BoxInv, NothingLost
<1>3. ASSUME NEW m \in Message, BoxGets(m) PROVE BoxInv' /\ NothingLost'
  <2>1. ToSet(inbox') = ToSet(inbox) \cup {m} /\ IsInjective(inbox')
    BY <1>1, <1>3, Appended DEF BoxGets, MailOK, BoxInv
  <2>2. QED BY <1>1, <1>3, <2>1 DEF BoxGets, BoxInv, NothingLost
<1>4. ASSUME NEW m, BoxDrops(m) PROVE BoxInv' /\ NothingLost'
  <2>1. /\ IsInjective(inbox') /\ ToSet(inbox') \subseteq ToSet(inbox)
        /\ ToSet(inbox) \subseteq ToSet(inbox') \cup {m}
    BY <1>1, <1>4, Removed DEF BoxDrops, MailOK, BoxInv
  <2>2. QED BY <1>1, <1>4, <2>1 DEF BoxDrops, BoxInv, NothingLost
<1>5. QED BY <1>2, <1>3, <1>4, BoxSteps

\* The invariant holds initially.
LEMMA InitInv == Init => Inv
<1> SUFFICES ASSUME Init PROVE Inv
  OBVIOUS
<1>1. TypeOK
  BY InitTypes
<1>2. HandInv /\ LoopInv
  BY LoopReads DEF Init, HandInv, LoopInv, Idle, MailAt
<1>3. TakenInv /\ BoxInv /\ NothingLost
  BY NoneLeft DEF Init, TakenInv, BoxInv, NothingLost
<1>4. Batch = <<>>
  BY LoopReads DEF Init, Batch, Idle, MailAt
<1>5. QED BY <1>1, <1>2, <1>3, <1>4, NoneLeft DEF Inv, BatchInv

\* The inductive invariant holds of every reachable state.
THEOREM Invariance == Spec => []Inv
<1>1. Init => Inv
  BY InitInv
<1>2. Inv /\ [Next]_vars => Inv'
  BY NextTypes, NextHandInv, NextLoop, NextTaken, NextBox DEF Inv
<1>3. QED BY <1>1, <1>2, PTL DEF Spec

\* Every variable keeps its type and the marks their bound (OWNER_REPLIES_KEPT,
\* cold-wake.mjs:114).
THEOREM TypeCorrect == Spec => []TypeOK
<1>1. Inv => TypeOK
  BY DEF Inv
<1>2. QED BY <1>1, Invariance, PTL

\* No message leaves the broker that was not dealt with, whatever fails, is
\* stopped, or restarts: the acks of cold-wake.mjs come last in each branch.
THEOREM MailIsKept == Spec => []NothingLost
<1>1. Inv => NothingLost
  BY DEF Inv
<1>2. QED BY <1>1, Invariance, PTL

-----------------------------------------------------------------------------
(* A reply is handed over once. *)

\* What failed is not forgotten.
LEMMA FailuresStay == TypeOK /\ [Next]_vars => budget.met \subseteq budget'.met
<1> SUFFICES ASSUME TypeOK, [Next]_vars PROVE budget.met \subseteq budget'.met
  OBVIOUS
<1>1. budget \in Budget
  BY TypeParts
<1>2. \A kind \in {"faults", "repairs", "pauses", "settings", "arms", "asks", "crashes"} :
        Spends(kind) => budget.met \subseteq budget'.met
  BY <1>1, Spent
<1>3. CASE UNCHANGED budget
  BY <1>3
<1>4. CASE \E kind \in {"faults", "repairs", "pauses", "settings", "arms", "asks", "crashes"} : Spends(kind)
  BY <1>2, <1>4
<1> DEFINE Known == UNCHANGED budget
                    \/ \E kind \in {"faults", "repairs", "pauses", "settings", "arms", "asks", "crashes"} : Spends(kind)
<1>5. CASE Known
  BY <1>3, <1>4, <1>5
<1>6. NoFault \/ Fault => Known
  BY DEF NoFault, Fault
<1>7. CASE UNCHANGED vars \/ Repair \/ SetPaused \/ SetColdWake \/ SetWarm \/ Rests \/ Crash \/ \E m \in Message : Arrive(m)
  BY <1>5, <1>6, <1>7 DEF vars, Repair, SetPaused, SetColdWake, SetWarm, Rests, Crash, Arrive
<1>8. CASE Dispatching
  BY <1>5, <1>6, <1>8
     DEF Dispatching, dispatchWake, WakeIsWaiting, WakeGoesWarm, WakeFails, WakeMerges, WakeLaunches,
         SendWarm, SetUp, CallWebhook, Report
<1>9. CASE (\E f \in Flight : StartScan(f)) \/ \E p \in Reader : Reading(p)
  BY <1>5, <1>6, <1>9
     DEF StartScan, Reading, BrokerReads, TakeAnswer, TakeReply, DecideReply, ConfirmReply, RepliesTaken
<1>10. CASE Answering
  BY <1>5, <1>6, <1>10
     DEF Answering, NextMessage, BatchEnds, TaskBrief, StartTask, TurnResumes, Tell, SendReply, AckMessage, DropTask
<1>11. CASE TurnCompletes \/ TurnThrows \/ TurnSignedOut \/ TurnAsks \/ AskExpires \/ TurnAborts
  BY <1>5, <1>6, <1>11 DEF TurnCompletes, TurnThrows, TurnSignedOut, TurnAsks, AskExpires, TurnAborts
<1>12. QED BY <1>7, <1>8, <1>9, <1>10, <1>11 DEF Next

\* Marks of different replies fit in a map that keeps one for each of them.
LEMMA MarksFit ==
  ASSUME TakenOK, IsInjective(taken), Cardinality(Replies) <= KeptReplies, NEW m \in Replies, m \notin ToSet(taken)
  PROVE  Len(taken) < KeptReplies
<1> DEFINE all == Append(taken, m)
           n   == Len(taken) + 1
<1>1. taken \in Seq(Replies) /\ n \in Nat
  BY DEF TakenOK
<1>2. all \in [1 .. n -> Replies]
  <2>1. all \in Seq(Replies) /\ Len(all) = n
    BY <1>1
  <2> HIDE DEF all, n
  <2>2. all \in [1 .. Len(all) -> Replies]
    BY <2>1
  <2>3. QED BY <2>1, <2>2
<1>3. IsInjective(all)
  BY <1>1, Appended
<1>4. IsFiniteSet(Replies)
  BY BoundsAssumption, FS_Subset DEF Message
<1> HIDE DEF all
<1>5. all \in Injection(1 .. n, Replies)
  BY <1>2, <1>3 DEF Injection
<1>6. Cardinality(1 .. n) = n
  <2> HIDE DEF n
  <2>1. Cardinality(1 .. n) = IF 1 > n THEN 0 ELSE n - 1 + 1
    BY <1>1, FS_Interval
  <2>2. n >= 1
    BY <1>1 DEF n, TakenOK
  <2>3. QED BY <1>1, <2>1, <2>2
<1>7. Cardinality(1 .. n) <= Cardinality(Replies)
  <2> HIDE DEF n
  <2>1. QED BY <1>4, <1>5, FS_Injection
<1>8. Cardinality(Replies) \in Nat
  BY <1>4, FS_CardinalityType
<1>9. QED BY <1>1, <1>6, <1>7, <1>8, BoundsAssumption

\* Without a restart, and with no more replies than marks, every reply was handed
\* over as often as it is marked.
LEMMA NextHanded == TypeOK /\ HandInv /\ TakenInv /\ HandedInv /\ [Next]_vars => HandedInv'
<1> SUFFICES ASSUME TypeOK, HandInv, TakenInv, HandedInv, [Next]_vars,
                    Cardinality(Replies) <= KeptReplies, "crashes" \notin budget'.met
             PROVE  \A m \in Replies : count'[m].handed = IF m \in ToSet(taken') THEN 1 ELSE 0
  BY DEF HandedInv
<1> DEFINE Handed == \A m \in Replies : count'[m].handed = IF m \in ToSet(taken') THEN 1 ELSE 0
<1> SUFFICES Handed
  OBVIOUS
<1>1. TakenOK /\ DoneOK /\ budget \in Budget
  BY TypeParts
<1>2. \A m \in Replies : count[m].handed = IF m \in ToSet(taken) THEN 1 ELSE 0
  BY FailuresStay DEF HandedInv
<1>3. UNCHANGED <<count, taken>> => Handed
  BY <1>2
<1> HIDE DEF Handed
<1>4. CASE Repair \/ SetPaused \/ SetColdWake \/ SetWarm \/ Rests \/ UNCHANGED vars \/ \E m \in Message : Arrive(m)
  BY <1>3, <1>4 DEF Repair, SetPaused, SetColdWake, SetWarm, Rests, vars, Arrive, flightVars, replyVars, ghosts
<1>5. ~Crash
  BY <1>1, Spent DEF Crash
<1>6. CASE Dispatching
  BY <1>3, <1>6 DEF Dispatching, dispatchWake, SendWarm, SetUp, CallWebhook, Report, replyVars, ghosts
<1>7. CASE \E f \in Flight : StartScan(f)
  BY <1>3, <1>7 DEF StartScan, replyVars, ghosts
<1>8. CASE Answering
  BY <1>3, <1>8
     DEF Answering, NextMessage, BatchEnds, TaskBrief, StartTask, TurnResumes, Tell, SendReply, AckMessage, DropTask,
         relayVars, ghosts
<1>9. CASE TurnCompletes
  <2>1. taken' = taken /\ count' = [count EXCEPT ![Head(mail)]["turns"] = count[Head(mail)]["turns"] + 1]
    BY <1>9 DEF TurnCompletes, Counts, relayVars
  <2>2. \A m \in Replies : count'[m].handed = count[m].handed
    BY <1>1, <2>1 DEF DoneOK, Message
  <2>3. QED BY <1>2, <2>1, <2>2 DEF Handed
<1>10. CASE TurnThrows \/ TurnSignedOut \/ TurnAsks \/ AskExpires \/ TurnAborts
  BY <1>3, <1>10 DEF TurnThrows, TurnSignedOut, TurnAsks, AskExpires, TurnAborts, relayVars, ghosts
<1>11. ASSUME NEW p \in Reader, Reading(p) PROVE Handed
  <2>1. CASE UNCHANGED <<count, taken>>
    BY <1>3, <2>1
  <2>2. CASE TakeReply(p) /\ ~ UNCHANGED <<count, taken>>
    <3> DEFINE n == Head(reader[p].rest)
    <3>1. n \in Replies
      BY <2>2 DEF TakeReply, HandInv
    <3>2. n \notin ToSet(taken) /\ taken' = Remembered(n) /\ Counts(n, "handed")
      BY <2>2 DEF TakeReply, ghosts
    <3> HIDE DEF n
    <3>3. ToSet(taken') = ToSet(taken) \cup {n}
      BY <1>1, <3>1, <3>2, MarksFit, MarkAdded DEF TakenInv
    <3>4. count' = [count EXCEPT ![n]["handed"] = count[n]["handed"] + 1]
      BY <3>2 DEF Counts
    <3>5. \A m \in Replies : count'[m].handed = IF m = n THEN count[m].handed + 1 ELSE count[m].handed
      BY <1>1, <3>1, <3>4 DEF DoneOK, Message
    <3>6. QED BY <1>2, <3>1, <3>2, <3>3, <3>5 DEF Handed
  <2>3. QED BY <1>11, <2>1, <2>2
     DEF Reading, BrokerReads, TakeAnswer, DecideReply, ConfirmReply, RepliesTaken, relayVars, ghosts
<1>12. QED BY <1>4, <1>5, <1>6, <1>7, <1>8, <1>9, <1>10, <1>11 DEF Next

\* However many scans read beside the loop, no reply is handed over twice (the
\* map `taken` of cold-wake.mjs).
THEOREM RepliesHandedOnce == Spec => []HandedOnce
<1>1. Init => HandedInv
  BY NoneLeft DEF Init, HandedInv, Message
<1>2. Inv /\ HandedInv /\ [Next]_vars => HandedInv'
  BY NextHanded DEF Inv
<1>3. HandedInv => HandedOnce
  BY DEF HandedInv, HandedOnce
<1>4. QED BY <1>1, <1>2, <1>3, Invariance, PTL DEF Spec

-----------------------------------------------------------------------------
(* No turn runs twice for a message while nothing fails. *)

\* The step neither brings back a message that has left the loop and the inbox
\* nor loses sight of the one to be acked.
LEMMA StaysAnswered ==
  ASSUME AnsweredInv, NoFailure, arrived \subseteq arrived', \A m \in Message : count'[m].turns = count[m].turns,
         reader'[Loop].at # "dropping", ToSet(inbox') \subseteq ToSet(inbox) \cup (Message \ arrived),
         ToSet(Batch') \subseteq Before, Acked => Acked' /\ mail' = mail
  PROVE  AnsweredInv'
<1>1. ASSUME NEW m \in Message, count'[m].turns > 0
      PROVE  count'[m].turns = 1 /\ m \in arrived' /\ (m \in ToSet(inbox') \cup ToSet(Batch') => Acked' /\ m = Head(mail'))
  <2>1. count[m].turns = 1 /\ m \in arrived /\ (m \in Before => Acked /\ m = Head(mail))
    BY <1>1 DEF AnsweredInv, Before
  <2>2. m \in ToSet(inbox') \cup ToSet(Batch') => m \in Before
    BY <2>1 DEF Before
  <2>3. m \in Before => Acked' /\ m = Head(mail')
    BY <2>1
  <2>4. QED BY <1>1, <2>1, <2>2, <2>3
<1>2. QED BY <1>1 DEF AnsweredInv

\* The turn of a message that is in the batch: it had none.
LEMMA FirstTurn ==
  ASSUME TypeOK, LoopInv, BatchInv, AnsweredInv, NoFailure, TurnCompletes, arrived' = arrived, LoopKept
  PROVE  AnsweredInv'
<1>1. ReaderOK /\ DoneOK /\ mail \in Seq(Message) /\ reader[Loop].at = "running"
  BY TypeParts, LoopReads DEF FlightOK, ReaderOK, mail, TurnCompletes, At
<1>2. mail # <<>> /\ Batch = mail /\ ~Acked
  BY <1>1 DEF LoopInv, MailAt, Batch, Acked
<1> DEFINE n == Head(mail)
<1>3. n \in Message /\ n \in ToSet(mail)
  BY <1>1, <1>2, TailOf
<1>4. \A m \in Message : count[m].turns > 0 => m \in arrived /\ count[m].turns = 1 /\ m \notin Before
  BY <1>2 DEF AnsweredInv, Before
<1>5. reader'[Loop].at \in {"replying", "acking"} /\ mail' = mail
  <2>1. Goes("replying") \/ Goes("acking")
    BY DEF TurnCompletes
  <2>2. QED BY <1>1, <2>1, LoopReads DEF Goes, Hand, ReaderOK, mail
<1>6. Acked' /\ reader'[Loop].at # "dropping"
  BY <1>5 DEF Acked
<1>7. count[n].turns = 0
  <2>1. n \in Before
    BY <1>2, <1>3 DEF Before
  <2>2. count[n].turns \in Nat
    BY <1>1, <1>3 DEF DoneOK
  <2>3. QED BY <1>3, <1>4, <2>1, <2>2
<1>8. \A m \in Message : count'[m].turns = IF m = n THEN 1 ELSE count[m].turns
  <2>1. count' = [count EXCEPT ![n]["turns"] = count[n]["turns"] + 1]
    BY DEF TurnCompletes, Counts
  <2> HIDE DEF n
  <2>2. QED BY <1>1, <1>3, <1>7, <2>1 DEF DoneOK
<1>9. n \in arrived
  BY <1>2, <1>3 DEF BatchInv
<1>10. ToSet(inbox') \cup ToSet(Batch') \subseteq Before
  BY DEF TurnCompletes, LoopKept, Before
<1>11. ASSUME NEW m \in Message, count'[m].turns > 0
       PROVE  count'[m].turns = 1 /\ m \in arrived' /\ (m \in ToSet(inbox') \cup ToSet(Batch') => Acked' /\ m = Head(mail'))
  <2>1. CASE m = n
    BY <1>5, <1>6, <1>8, <1>9, <2>1
  <2>2. CASE m # n
    BY <1>4, <1>8, <1>10, <1>11, <2>2
  <2>3. QED BY <2>1, <2>2
<1>12. QED BY <1>6, <1>11 DEF AnsweredInv

\* The ack of a message: it is neither in the inbox nor in the batch any more.
LEMMA LastAck ==
  ASSUME TypeOK, LoopInv, BoxInv, BatchInv, AnsweredInv, NoFailure, AckMessage, ~Fault, UNCHANGED <<arrived, count>>
  PROVE  AnsweredInv'
<1>1. ReaderOK /\ MailOK /\ mail \in Seq(Message) /\ reader[Loop].at = "acking"
  BY TypeParts, LoopReads DEF FlightOK, ReaderOK, mail, AckMessage, At
<1>2. mail # <<>> /\ Batch = mail
  BY <1>1 DEF LoopInv, MailAt, Batch
<1> DEFINE n == Head(mail)
<1>3. n \notin ToSet(inbox') /\ ToSet(inbox') \subseteq ToSet(inbox)
  BY <1>1, Removed DEF AckMessage, MailOK, BoxInv
<1>4. reader'[Loop].at = "mail" /\ mail' = Tail(mail) /\ Batch' = Tail(mail)
  <2>1. Hand(Loop, "mail", Tail(mail))
    BY DEF AckMessage, NextMail
  <2>2. reader'[Loop].at = "mail" /\ mail' = Tail(mail)
    BY <1>1, <2>1, LoopReads DEF Hand, ReaderOK, mail
  <2>3. QED BY <2>2 DEF Batch, MailAt
<1>5. n \notin ToSet(Batch') /\ ToSet(Batch') \subseteq ToSet(mail)
  BY <1>1, <1>2, <1>4, TailOf DEF BatchInv
<1>6. ASSUME NEW m \in Message, count'[m].turns > 0
      PROVE  count'[m].turns = 1 /\ m \in arrived' /\ m \notin ToSet(inbox') \cup ToSet(Batch')
  <2>1. count[m].turns = 1 /\ m \in arrived /\ (m \in ToSet(inbox) \cup ToSet(mail) => m = n)
    BY <1>2, <1>6 DEF AnsweredInv
  <2>2. QED BY <1>3, <1>5, <2>1
<1>7. QED BY <1>4, <1>6 DEF AnsweredInv

\* Without a failure, a message whose turn ran is the one to be acked next, or is
\* neither in the inbox nor in the batch.
LEMMA NextAnswered ==
  TypeOK /\ HandInv /\ LoopInv /\ BoxInv /\ BatchInv /\ AnsweredInv /\ [Next]_vars => AnsweredInv'
<1> SUFFICES ASSUME TypeOK, HandInv, LoopInv, BoxInv, BatchInv, AnsweredInv, [Next]_vars PROVE AnsweredInv'
  OBVIOUS
<1> SUFFICES ASSUME NoFailure' PROVE AnsweredInv'
  BY DEF AnsweredInv
<1>1. ReaderOK /\ DoneOK /\ MailOK /\ budget \in Budget /\ arrived \subseteq arrived'
  BY TypeParts, OnlyMore DEF FlightOK
<1>2. NoFailure /\ ~Fault /\ ~Crash
  BY <1>1, FailuresStay, Spent DEF NoFailure, Fault, Crash
<1>3. LoopKept /\ ToSet(Batch') \subseteq Before
  BY NextKept DEF LoopKept
<1>4. reader[Loop].at # "dropping"
  BY <1>2 DEF AnsweredInv
<1>5. ASSUME reader'[Loop] = reader[Loop], \A m \in Message : count'[m].turns = count[m].turns,
             ToSet(inbox') \subseteq ToSet(inbox) \cup (Message \ arrived)
      PROVE  AnsweredInv'
  BY <1>1, <1>2, <1>3, <1>4, <1>5, StaysAnswered DEF Acked, mail
<1>6. ASSUME ~Acked, \A m \in Message : count'[m].turns = count[m].turns, ToSet(inbox') \subseteq ToSet(inbox),
             reader'[Loop].at # "dropping"
      PROVE  AnsweredInv'
  BY <1>1, <1>2, <1>3, <1>6, StaysAnswered
<1>7. ASSUME NEW at, NEW rest, Hand(Loop, at, rest) PROVE reader'[Loop].at = at /\ mail' = rest
  BY <1>1, <1>7, LoopReads DEF Hand, ReaderOK, mail
<1>8. Land => reader'[Loop].at # "dropping"
  BY <1>1, LoopReads DEF Land, ReaderOK, Idle
<1>9. UNCHANGED <<reader, count, inbox>> => AnsweredInv'
  BY <1>5
<1>10. CASE Repair \/ SetPaused \/ SetColdWake \/ SetWarm \/ Rests \/ UNCHANGED vars
  BY <1>9, <1>10 DEF Repair, SetPaused, SetColdWake, SetWarm, Rests, vars, flightVars, ghosts, mailVars
<1>11. ASSUME NEW n \in Message, Arrive(n) PROVE AnsweredInv'
  <2>1. n \in Message \ arrived /\ ToSet(inbox') = ToSet(inbox) \cup {n}
    BY <1>1, <1>11, Appended DEF Arrive, MailOK
  <2>2. UNCHANGED <<reader, count>>
    BY <1>11 DEF Arrive, flightVars, ghosts
  <2>3. QED BY <1>5, <2>1, <2>2
<1>12. CASE Dispatching
  <2>1. UNCHANGED <<inbox, count>>
    BY <1>12 DEF Dispatching, dispatchWake, SendWarm, SetUp, CallWebhook, Report, mailVars, ghosts
  <2>2. CASE UNCHANGED reader
    BY <1>9, <2>1, <2>2
  <2>3. CASE (SetUp \/ CallWebhook) /\ ~UNCHANGED reader
    <3>1. ~Acked
      BY <2>3 DEF SetUp, CallWebhook, LoopInv, Acked
    <3>2. reader'[Loop].at # "dropping"
      BY <1>1, <1>8, <2>3, LoopReads DEF SetUp, CallWebhook, ReaderOK
    <3>3. QED BY <1>6, <2>1, <3>1, <3>2
  <2>4. QED BY <1>12, <2>2, <2>3 DEF Dispatching, dispatchWake, SendWarm, Report
<1>13. ASSUME NEW f \in Flight, StartScan(f) PROVE AnsweredInv'
  <2>1. reader'[Loop] = reader[Loop]
    <3>1. UNCHANGED reader \/ Hand(f, "reading", <<>>)
      BY <1>13 DEF StartScan
    <3>2. QED BY <1>1, <3>1, LoopIsNoFlight, LoopReads DEF Hand, ReaderOK
  <2>2. QED BY <1>5, <1>13, <2>1 DEF StartScan, ghosts
<1>14. ASSUME NEW p \in Reader, Reading(p) PROVE AnsweredInv'
  <2>1. \A m \in Message : count'[m].turns = count[m].turns
    <3>1. CASE UNCHANGED count
      BY <3>1
    <3>2. CASE TakeReply(p) /\ ~UNCHANGED count
      <4> DEFINE n == Head(reader[p].rest)
      <4>1. n \in Message /\ count' = [count EXCEPT ![n]["handed"] = count[n]["handed"] + 1]
        BY <3>2 DEF TakeReply, Counts, ghosts, HandInv, Message
      <4> HIDE DEF n
      <4>2. QED BY <1>1, <4>1 DEF DoneOK
    <3>3. QED BY <1>14, <3>1, <3>2
       DEF Reading, BrokerReads, TakeAnswer, DecideReply, ConfirmReply, RepliesTaken, ghosts
  <2>2. ToSet(inbox') \subseteq ToSet(inbox)
    <3>1. inbox' = inbox \/ inbox' = RemoveFirst(inbox, Head(reader[p].rest))
      BY <1>14 DEF Reading, BrokerReads, TakeAnswer, TakeReply, DecideReply, ConfirmReply, RepliesTaken
    <3>2. QED BY <1>1, <3>1, Removed DEF MailOK
  <2>3. CASE IsScan(p)
    <3>1. UNCHANGED reader \/ \E at, rest : Hand(p, at, rest)
      BY <1>14, <2>3 DEF Reading, BrokerReads, TakeAnswer, TakeReply, DecideReply, ConfirmReply, RepliesTaken,
                         GivesUp, NextHand
    <3>2. reader'[Loop] = reader[Loop]
      BY <1>1, <2>3, <3>1, LoopReads DEF Hand, ReaderOK
    <3>3. QED BY <1>5, <2>1, <2>2, <3>2
  <2>4. CASE p = Loop
    <3>1. ~Acked
      BY <1>14, <2>4 DEF Reading, BrokerReads, TakeAnswer, TakeReply, DecideReply, ConfirmReply, RepliesTaken, Acked
    <3>2. Land \/ \E at \in HandAt \cup {"mail"} : \E rest : Hand(Loop, at, rest)
      BY <1>14, <2>4, LoopReads
         DEF Reading, BrokerReads, TakeAnswer, Finished, TakeReply, DecideReply, ConfirmReply, RepliesTaken,
             GivesUp, NextHand, HandAt
    <3>3. reader'[Loop].at # "dropping"
      BY <1>7, <1>8, <3>2 DEF HandAt
    <3>4. QED BY <1>6, <2>1, <2>2, <3>1, <3>3
  <2>5. QED BY <2>3, <2>4, LoopReads
<1>15. CASE NextMessage \/ BatchEnds \/ TaskBrief \/ StartTask \/ TurnResumes \/ Tell \/ TurnAsks \/ AskExpires
  <2>1. ~Acked /\ UNCHANGED <<count, inbox>>
    BY <1>15 DEF NextMessage, BatchEnds, TaskBrief, StartTask, TurnResumes, Tell, TurnAsks, AskExpires, At, Acked,
                 relayVars, ghosts
  <2>2. Land \/ \E at \in {"mail", "reading", "telling", "briefing", "starting", "running", "asking", "acking"} :
                  \E rest : Hand(Loop, at, rest)
    BY <1>15 DEF NextMessage, BatchEnds, TaskBrief, StartTask, TurnResumes, Tell, TurnAsks, AskExpires, Goes, NextMail
  <2>3. reader'[Loop].at # "dropping"
    BY <1>7, <1>8, <2>2
  <2>4. QED BY <1>6, <2>1, <2>3
<1>16. CASE SendReply
  <2>1. Hand(Loop, "acking", mail) /\ UNCHANGED <<count, inbox>> /\ Acked
    BY <1>2, <1>16 DEF SendReply, Goes, At, Acked
  <2>2. reader'[Loop].at = "acking" /\ mail' = mail
    BY <1>7, <2>1
  <2>3. QED BY <1>1, <1>2, <1>3, <2>1, <2>2, StaysAnswered DEF Acked
<1>17. CASE AckMessage
  BY <1>2, <1>17, LastAck DEF AckMessage, relayVars, dispatchVars, ghosts
<1>18. CASE TurnCompletes
  BY <1>2, <1>3, <1>18, FirstTurn DEF TurnCompletes, relayVars, dispatchVars
<1>19. ~(DropTask \/ TurnThrows \/ TurnSignedOut \/ TurnAborts)
  BY <1>2, <1>4 DEF DropTask, TurnThrows, TurnSignedOut, TurnAborts, At
<1>20. QED
  BY <1>2, <1>10, <1>11, <1>12, <1>13, <1>14, <1>15, <1>16, <1>17, <1>18, <1>19 DEF Next, Answering

\* However the wakes merge, come again or find a flight active, no message's turn
\* runs twice without a failing call.
THEOREM TurnsRunOnce == Spec => []AnsweredOnce
<1>1. Init => AnsweredInv
  BY LoopReads DEF Init, AnsweredInv, Idle, Message
<1>2. Inv /\ AnsweredInv /\ [Next]_vars => AnsweredInv'
  BY NextAnswered DEF Inv
<1>3. Inv /\ AnsweredInv => AnsweredOnce
  <2>1. Inv => \A m \in Message : count[m].turns \in Nat
    BY TypeParts DEF Inv, DoneOK
  <2>2. QED BY <2>1 DEF AnsweredInv, AnsweredOnce
<1>4. QED BY <1>1, <1>2, <1>3, Invariance, PTL DEF Spec

\* What the pause is asked for before a turn starts.
LEMMA NextStart == TypeOK /\ LoopInv /\ Next => (At("running")' /\ ~At("running") /\ ~At("asking") => ~paused)
<1> SUFFICES ASSUME TypeOK, LoopInv, Next, At("running")', ~At("running"), ~At("asking"), paused PROVE FALSE
  OBVIOUS
<1>1. ReaderOK /\ TurnOK
  BY TypeParts DEF FlightOK
<1>2. turn'.at = "relay" /\ reader'[Loop].at = "running"
  BY DEF At
<1>3. ~ (UNCHANGED <<reader, turn>>)
  BY DEF At
<1>4. ~Land
  BY <1>1, <1>2, LoopReads DEF Land, ReaderOK, Idle
<1>5. ~ UNCHANGED reader
  <2>1. ASSUME UNCHANGED reader PROVE FALSE
    <3>1. reader[Loop].at = "running"
      BY <1>2, <2>1
    <3>2. turn.at = "relay"
      BY <3>1 DEF LoopInv
    <3>3. QED BY <3>1, <3>2 DEF At
  <2>2. QED BY <2>1
<1>6. ASSUME NEW p \in Reader, NEW at \in HandAt, NEW rest, Hand(p, at, rest) PROVE p # Loop
  BY <1>1, <1>2, <1>6 DEF Hand, ReaderOK, HandAt
<1>7. ASSUME NEW at \in MailAt \cup {"reading"}, NEW rest, at # "running" PROVE ~Hand(Loop, at, rest)
  BY <1>1, <1>2, <1>7, LoopReads DEF Hand, ReaderOK
<1>8. ASSUME reader'[Loop] = reader[Loop] PROVE FALSE
  <2>1. reader[Loop].at = "running"
    BY <1>2, <1>8
  <2>2. turn.at = "relay"
    BY <2>1 DEF LoopInv
  <2>3. QED BY <2>1, <2>2 DEF At
<1>9. ASSUME NEW p \in Reader, NEW at \in HandAt, NEW rest PROVE ~Hand(p, at, rest)
  <2>1. ASSUME Hand(p, at, rest) PROVE FALSE
    <3>1. p # Loop
      BY <1>6, <2>1
    <3>2. reader'[Loop] = reader[Loop]
      BY <1>1, <2>1, <3>1, LoopReads DEF Hand, ReaderOK
    <3>3. QED BY <1>8, <3>2
  <2>2. QED BY <2>1
<1>10. ~ (Repair \/ SetPaused \/ SetColdWake \/ SetWarm \/ Rests \/ Crash \/ \E m \in Message : Arrive(m))
  <2>1. ~ (Repair \/ SetPaused \/ SetColdWake \/ SetWarm \/ \E m \in Message : Arrive(m))
    BY <1>5 DEF Repair, SetPaused, SetColdWake, SetWarm, Arrive, flightVars
  <2>2. ~Rests
    BY <1>5 DEF Rests, vars
  <2>3. ASSUME Crash PROVE FALSE
    <3>1. reader'[Loop] = Idle
      BY <2>3, LoopReads DEF Crash
    <3>2. QED BY <1>2, <3>1 DEF Idle
  <2>4. QED BY <2>1, <2>2, <2>3
<1>11. ~Dispatching
  BY <1>1, <1>2, <1>4, <1>5, LoopReads
     DEF Dispatching, dispatchWake, SendWarm, SetUp, CallWebhook, Report, ReaderOK
<1>12. \A p \in Reader : ~Reading(p)
  <2>1. ASSUME NEW p \in Reader, Reading(p) PROVE FALSE
    <3>1. \A at \in {"idle", "answered", "handing", "deciding", "confirming"} : \A rest : ~Hand(p, at, rest)
      BY <1>9 DEF HandAt
    <3>2. ~NextHand(p) /\ ~GivesUp(p)
      BY <1>4, <3>1 DEF NextHand, GivesUp
    <3>3. ~BrokerReads(p) /\ ~TakeAnswer(p)
      BY <1>4, <3>1, <3>2 DEF BrokerReads, TakeAnswer, Finished
    <3>4. ~TakeReply(p) /\ ~DecideReply(p) /\ ~ConfirmReply(p)
      BY <1>4, <3>1, <3>2 DEF TakeReply, DecideReply, ConfirmReply
    <3>5. p = Loop => ~Hand(p, "mail", turn.batch)
      BY <1>7 DEF MailAt
    <3>6. ~RepliesTaken(p)
      BY <3>1, <3>5, LoopReads DEF RepliesTaken
    <3>7. QED BY <2>1, <3>3, <3>4, <3>6 DEF Reading
  <2>2. QED BY <2>1
<1>13. ~ \E f \in Flight : StartScan(f)
  BY <1>5, <1>9 DEF StartScan, Reader, HandAt
<1>14. ~ (Answering \/ TurnCompletes \/ TurnThrows \/ TurnSignedOut \/ TurnAsks \/ AskExpires \/ TurnAborts)
  <2>1. \A at \in MailAt : Goes(at) => at = "running"
    BY <1>7 DEF Goes
  <2>2. ~NextMail /\ ~Hand(Loop, "reading", <<>>)
    BY <1>7 DEF NextMail, MailAt
  <2>3. ~(NextMessage \/ BatchEnds \/ TaskBrief \/ StartTask)
    BY <1>4, <2>1, <2>2 DEF NextMessage, BatchEnds, TaskBrief, StartTask, MailAt
  <2>4. ~(TurnResumes \/ AskExpires)
    BY DEF TurnResumes, AskExpires
  <2>5. ~(Tell \/ SendReply \/ AckMessage \/ DropTask \/ TurnCompletes \/ TurnThrows \/ TurnSignedOut \/ TurnAsks \/ TurnAborts)
    BY <1>4, <2>1, <2>2
       DEF Tell, SendReply, AckMessage, DropTask, TurnCompletes, TurnThrows, TurnSignedOut, TurnAsks, TurnAborts, MailAt
  <2>6. QED BY <2>3, <2>4, <2>5 DEF Answering
<1>15. QED BY <1>10, <1>11, <1>12, <1>13, <1>14 DEF Next

\* A pause that comes during any await before a turn starts is seen before it
\* starts (runTurn asks again).
THEOREM PauseHolds == Spec => PausedStartsNothing
<1>1. Inv /\ [Next]_vars => [At("running")' /\ ~At("running") /\ ~At("asking") => ~paused]_vars
  BY NextStart DEF Inv
<1>2. QED BY <1>1, Invariance, PTL DEF Spec, PausedStartsNothing
=============================================================================
