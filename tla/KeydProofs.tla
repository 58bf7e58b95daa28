----------------------------- MODULE KeydProofs ------------------------------
(***************************************************************************)
(* Proofs about Keyd, for any connections, grants, keys and Keychains to   *)
(* start from, and any bounds.                                             *)
(*                                                                         *)
(* A request is a thread that may stop between any two accesses to the     *)
(* Keychain.  Progresses says what a step of its handler may do to its     *)
(* locals, and the invariants what its locals still have to do with the    *)
(* Keychain: what it read is there yet because it holds the owner's lock,  *)
(* because an item once there stays, or because a count only goes up.      *)
(***************************************************************************)
EXTENDS Keyd, WellFoundedInduction, FiniteSetTheorems, SequenceTheorems, TLAPS

SeedOps == {"presence", "sign", "attest", "pins_status", "statement_key"}
AskOps  == Imports \cup {"pin", "presence", "sign", "attest", "remove", "app_remove"}

\* Where a request of kind op may be.
Fits(at, op) ==
  /\ at \in Stages \ {"rest"}
  /\ at = "lock" => op \in AskOps
  /\ at = "absent" => op = "app_import_new"
  /\ at = "pinned" => op \in Imports \cup {"pin"}
  /\ at = "record" => op \in {"attest", "pins_status"}
  /\ at \in {"seed", "make", "again", "sign"} => op \in SeedOps
  /\ at = "ask" => op \in AskOps
  /\ at = "pin" => op \in Imports \cup {"pin"}
  /\ at = "put" => op \in Imports
  /\ at = "raise" => op = "attest"
  /\ at = "evict" => op \in {"call", "remove"}
  /\ at = "delete" => op \in {"remove", "app_remove"}
  /\ at \in SoulStages \ {"evict"} => op = "call"

\* TypeOK, but for the sockets and the bounds, which have a part of their own.
Typed ==
  /\ item \in Items
  /\ alien \subseteq {"pin", "owners"}
  /\ conn \in [Conn -> {"new", "open", "busy", "closed", "refused", "lost"}]
  /\ work \in [Conn -> Work]
  /\ ownerLock \in OwnerConn \cup {None}
  /\ seen \subseteq Grant
  /\ clock \in Nat
  /\ spent \in [Grant -> Nat]
  /\ handed \subseteq [of : Seeds, seed : Source]
  /\ attested \subseteq Record

Placed ==
  \A c \in Conn : conn[c] = "busy" =>
    /\ work[c].req \in (IF c \in SoulConn THEN SoulRequest ELSE OwnerRequest)
    /\ Fits(work[c].at, Op(c))

\* Past its first stage a thread whose request locks holds the owner's lock.
LockHeld ==
  \A c \in OwnerConn :
    conn[c] = "busy" /\ Locks(Op(c)) /\ work[c].at \notin {"lock", "answer"} => ownerLock = c

\* A step of c's handler, but for its start and its end.
Handling(c) == (OwnerStep(c) /\ ~TakeLock(c)) \/ SoulStep(c) \/ Refused(c)

\* What such a step makes of its thread.
Progresses(c) ==
  /\ conn[c] = "busy" /\ work[c].at \notin {"lock", "answer", "rest"}
  /\ work'[c] \in Work
  /\ work'[c].req = work[c].req /\ work'[c].now = work[c].now
  /\ work'[c].at # "lock" /\ Fits(work'[c].at, Op(c))
  /\ work' = [work EXCEPT ![c] = work'[c]]
  /\ Unlocks(c, work'[c].at)
  /\ UNCHANGED <<conn, clock>>

\* c goes on, with the locals it has.
GoesOn(c) == \E stage \in Stages \ {"lock", "rest"} : Fits(stage, Op(c)) /\ Goes(c, stage)

-----------------------------------------------------------------------------
(* Requests and locals. *)

\* What an owner's request may be, and name.
LEMMA Requests ==
  ASSUME NEW req \in OwnerRequest
  PROVE  /\ req.op \in AskOps \cup {"pins_status", "statement_key"}
         /\ req.op = "attest" => req.names \in Digest
         /\ req.op = "pin" => req.names \in DaemonKey
         /\ req.op \in Imports => req.names \in DaemonKey \cup {None}
BY DEF OwnerRequest, AskOps, Imports

\* A soul's request is a call with a grant.
LEMMA Calls ==
  ASSUME NEW req \in SoulRequest
  PROVE  req.op = "call" /\ req.names \in Grant
BY DEF SoulRequest

\* The locals of a thread without a request.
LEMMA RestTyped == Rest \in Work
BY KeydAssumption DEF Rest, Work, Stages, Record, NoRecord, Source, Seeds

\* Locals with another stage.
LEMMA WorkAt ==
  ASSUME NEW w \in Work, NEW stage \in Stages
  PROVE  LET v == [w EXCEPT !.at = stage]
         IN  /\ v \in Work /\ v.at = stage
             /\ v.req = w.req /\ v.now = w.now /\ v.seed = w.seed
             /\ v.base = w.base /\ v.saw = w.saw
BY DEF Work

\* Locals with another pin read.
LEMMA WorkSaw ==
  ASSUME NEW w \in Work, NEW x \in DaemonKey \cup {None}
  PROVE  LET v == [w EXCEPT !.saw = x]
         IN  /\ v \in Work /\ v.saw = x
             /\ v.req = w.req /\ v.now = w.now /\ v.seed = w.seed
             /\ v.base = w.base /\ v.at = w.at
BY DEF Work

\* Locals with another record read.
LEMMA WorkBase ==
  ASSUME NEW w \in Work, NEW x \in Record
  PROVE  LET v == [w EXCEPT !.base = x]
         IN  /\ v \in Work /\ v.base = x
             /\ v.req = w.req /\ v.now = w.now /\ v.seed = w.seed
             /\ v.saw = w.saw /\ v.at = w.at
BY DEF Work

\* Locals with another seed.
LEMMA WorkSeed ==
  ASSUME NEW w \in Work, NEW s \in Seeds, NEW x \in Source \cup {None}
  PROVE  LET v == [w EXCEPT !.seed[s] = x]
         IN  /\ v \in Work
             /\ v.seed = [w.seed EXCEPT ![s] = x]
             /\ v.req = w.req /\ v.now = w.now
             /\ v.base = w.base /\ v.saw = w.saw /\ v.at = w.at
BY DEF Work

\* A thread that moves keeps its other locals.
LEMMA Moved ==
  ASSUME NEW c \in Conn, NEW locals \in Work, NEW stage \in Stages,
         Typed, Moves(c, locals, stage)
  PROVE  /\ work'[c] \in Work /\ work'[c].at = stage
         /\ work'[c].req = locals.req /\ work'[c].now = locals.now
         /\ work'[c].seed = locals.seed
         /\ work'[c].base = locals.base /\ work'[c].saw = locals.saw
         /\ work' = [work EXCEPT ![c] = work'[c]]
         /\ Unlocks(c, stage)
<1> DEFINE w == [locals EXCEPT !.at = stage]
<1>1. /\ w \in Work /\ w.at = stage
      /\ w.req = locals.req /\ w.now = locals.now /\ w.seed = locals.seed
      /\ w.base = locals.base /\ w.saw = locals.saw
  BY WorkAt
<1>2. work' = [work EXCEPT ![c] = w] /\ Unlocks(c, stage)
  BY DEF Moves
<1> HIDE DEF w
<1> QED BY <1>1, <1>2 DEF Typed

\* A thread that goes on keeps all its locals but the stage.
LEMMA Goings ==
  ASSUME NEW c \in Conn, Typed, GoesOn(c)
  PROVE  /\ work'[c] \in Work /\ work'[c].at \in Stages \ {"lock", "rest"}
         /\ Fits(work'[c].at, Op(c))
         /\ work'[c].req = work[c].req /\ work'[c].now = work[c].now
         /\ work'[c].seed = work[c].seed
         /\ work'[c].base = work[c].base /\ work'[c].saw = work[c].saw
         /\ work' = [work EXCEPT ![c] = work'[c]]
         /\ Unlocks(c, work'[c].at)
<1>1. work[c] \in Work
  BY DEF Typed
<1>2. PICK stage \in Stages \ {"lock", "rest"} : Fits(stage, Op(c)) /\ Goes(c, stage)
  BY DEF GoesOn
<1> QED BY <1>1, <1>2, Moved DEF Goes

\* Steps that only move their thread on.
PlainStep(c) ==
  \/ FindAbsent(c) \/ Approved(c) \/ WritePin(c) \/ PutKey(c) \/ Sign(c) \/ DeleteKey(c)
  \/ Spend(c) \/ ReadCache(c) \/ ReadKey(c) \/ Minted(c) \/ KeepToken(c) \/ EvictToken(c)
  \/ Refused(c)

\* The requests that come to each stage; WhereFitsMore has the rest.
LEMMA WhereFits ==
  ASSUME NEW op
  PROVE  /\ Fits("answer", op)
         /\ Fits("absent", op) <=> op = "app_import_new"
         /\ Fits("pinned", op) <=> op \in Imports \cup {"pin"}
         /\ Fits("record", op) <=> op \in {"attest", "pins_status"}
         /\ Fits("ask", op) <=> op \in AskOps
         /\ Fits("pin", op) <=> op \in Imports \cup {"pin"}
         /\ Fits("put", op) <=> op \in Imports
         /\ Fits("raise", op) <=> op = "attest"
         /\ Fits("delete", op) <=> op \in {"remove", "app_remove"}
         /\ Fits("evict", op) <=> op \in {"call", "remove"}
<1>1. {"answer", "absent", "pinned", "record", "ask", "pin", "put", "raise", "delete", "evict"}
        \subseteq Stages \ {"lock", "rest"}
  BY DEF Stages, OwnerStages, SoulStages
<1> QED BY <1>1 DEF Fits, SoulStages

\* The stages of seeds, and those of calls.
LEMMA WhereFitsMore ==
  ASSUME NEW op
  PROVE  /\ \A at \in {"seed", "make", "again", "sign"} : Fits(at, op) <=> op \in SeedOps
         /\ \A at \in {"daemon", "spend", "cache", "key", "mint", "keep"} : Fits(at, op) <=> op = "call"
<1>1. {"seed", "make", "again", "sign", "daemon", "spend", "cache", "key", "mint", "keep"}
        \subseteq Stages \ {"lock", "rest"}
  BY DEF Stages, OwnerStages, SoulStages
<1> QED BY <1>1 DEF Fits, SoulStages

\* In what state a handler finds its own thread.
LEMMA Found ==
  ASSUME NEW c \in Conn, NEW stage, Placed, At(c, stage), stage # "rest"
  PROVE  Fits(stage, Op(c))
BY DEF Placed, At

\* A stage of the request is one to go on to.
LEMMA GoesTo ==
  ASSUME NEW c \in Conn, NEW stage, Fits(stage, Op(c)), Goes(c, stage), stage # "lock"
  PROVE  GoesOn(c)
BY DEF GoesOn, Fits

\* Steps without locals of their own go on to a stage of their request.
LEMMA PlainGoesOn ==
  ASSUME NEW c \in Conn, Placed, PlainStep(c)
  PROVE  GoesOn(c)
<1>1. CASE FindAbsent(c)
  <2>1. Goes(c, "pinned") \/ Goes(c, "answer")
    BY <1>1 DEF FindAbsent
  <2>2. Fits("absent", Op(c))
    BY <1>1, Found DEF FindAbsent
  <2> QED BY <2>1, <2>2, GoesTo, WhereFits DEF Imports
<1>2. CASE Approved(c)
  <2>1. Fits("ask", Op(c))
    BY <1>2, Found DEF Approved
  <2>2. Op(c) \in AskOps
    BY <2>1, WhereFits
  <2>3. \/ Op(c) \in {"presence", "sign"} /\ Goes(c, "sign")
        \/ Op(c) = "attest" /\ Goes(c, "raise")
        \/ Op(c) \in Imports \cup {"pin"} /\ Goes(c, "pin")
        \/ Op(c) \in Imports /\ Goes(c, "put")
        \/ Op(c) = "remove" /\ Goes(c, "evict")
        \/ Op(c) = "app_remove" /\ Goes(c, "delete")
    BY <1>2, <2>2 DEF Approved, AskOps
  <2> QED BY <2>3, GoesTo, WhereFits, WhereFitsMore DEF SeedOps
<1>3. CASE WritePin(c)
  <2>1. Fits("pin", Op(c))
    BY <1>3, Found DEF WritePin
  <2>2. Goes(c, "pin") \/ Goes(c, "answer") \/ (Op(c) # "pin" /\ Goes(c, "put"))
    BY <1>3 DEF WritePin
  <2> QED BY <2>1, <2>2, GoesTo, WhereFits
<1>4. CASE PutKey(c) \/ Sign(c) \/ DeleteKey(c) \/ KeepToken(c) \/ Refused(c)
  <2>1. Goes(c, "answer")
    BY <1>4 DEF PutKey, Sign, DeleteKey, KeepToken, Refused
  <2> QED BY <2>1, GoesTo, WhereFits
<1>5. CASE Spend(c)
  <2>1. Fits("spend", Op(c))
    BY <1>5, Found DEF Spend
  <2>2. \/ Goes(c, "answer") \/ Goes(c, "keep")
        \/ Goes(c, "evict") \/ Goes(c, "cache")
    BY <1>5 DEF Spend, AfterSpend
  <2> QED BY <2>1, <2>2, GoesTo, WhereFits, WhereFitsMore
<1>6. CASE ReadCache(c)
  <2>1. Fits("cache", Op(c))
    BY <1>6, Found DEF ReadCache
  <2>2. Goes(c, "answer") \/ Goes(c, "key")
    BY <1>6 DEF ReadCache
  <2> QED BY <2>1, <2>2, GoesTo, WhereFits, WhereFitsMore
<1>7. CASE ReadKey(c)
  <2>1. Fits("key", Op(c))
    BY <1>7, Found DEF ReadKey
  <2>2. Goes(c, "answer") \/ Goes(c, "mint")
    BY <1>7 DEF ReadKey
  <2> QED BY <2>1, <2>2, GoesTo, WhereFits, WhereFitsMore
<1>8. CASE Minted(c)
  <2>1. Fits("mint", Op(c)) /\ Goes(c, "keep")
    BY <1>8, Found DEF Minted
  <2> QED BY <2>1, GoesTo, WhereFitsMore
<1>9. CASE EvictToken(c)
  <2>1. Goes(c, "answer") \/ (Op(c) = "remove" /\ Goes(c, "delete"))
    BY <1>9 DEF EvictToken
  <2> QED BY <2>1, GoesTo, WhereFits
<1> QED
  BY <1>1, <1>2, <1>3, <1>4, <1>5, <1>6, <1>7, <1>8, <1>9 DEF PlainStep

-----------------------------------------------------------------------------
(* What a handler's step does to its thread. *)

\* What keyd takes to be pinned is a key or nothing.
LEMMA PinnedTyped ==
  ASSUME Typed
  PROVE  Pinned \in DaemonKey \cup {None}
BY DEF Typed, Items, Pinned

\* The stored record and the stored seeds.
LEMMA ItemTyped ==
  ASSUME Typed
  PROVE  /\ item.owners \in Record
         /\ \A s \in Seeds : item[s] \in Source \cup {None}
BY DEF Typed, Items, Seeds

\* The seed a thread needs next is one of the two.
LEMMA NeedsSeed ==
  ASSUME NEW c \in Conn
  PROVE  Needs(c) \in Seeds
BY DEF Needs, Seeds

\* Records as they are written.
LEMMA Records ==
  ASSUME NEW c \in Conn, Typed, work[c].req.names \in Digest
  PROVE  /\ NoRecord \in Record /\ Fresh \in Record /\ Raised(c) \in Record
         /\ Fresh.digest = None /\ Fresh.generation = 0 /\ Fresh.era = item.owners.era + 1
<1>1. NoRecord \in Record
  BY DEF NoRecord, Record
<1>2. item.owners.era \in Nat /\ work[c].base.generation \in Nat
  BY DEF Typed, Items, Record, Work
<1>3. Raised(c) \in Record
  BY <1>2 DEF Raised, Record
<1>4. Fresh = [digest |-> None, generation |-> 0, era |-> item.owners.era + 1]
  BY <1>2 DEF Fresh, NoRecord
<1>5. Fresh \in Record
  BY <1>2, <1>4 DEF Record
<1> QED BY <1>1, <1>3, <1>4, <1>5

\* A thread that takes a seed.
LEMMA Holding ==
  ASSUME NEW c \in Conn, NEW x \in Source \cup {None}, Typed, Op(c) \in SeedOps,
         HoldsSeed(c, x)
  PROVE  /\ work'[c] \in Work /\ Fits(work'[c].at, Op(c))
         /\ work'[c].at \in {"seed", "ask", "sign"}
         /\ work'[c].req = work[c].req /\ work'[c].now = work[c].now
         /\ work'[c].seed = [work[c].seed EXCEPT ![Needs(c)] = x]
         /\ work'[c].base = work[c].base /\ work'[c].saw = work[c].saw
         /\ work' = [work EXCEPT ![c] = work'[c]]
         /\ Unlocks(c, work'[c].at)
<1>0. PICK s \in Seeds : s = Needs(c)
  BY NeedsSeed
<1> DEFINE locals == [work[c] EXCEPT !.seed[s] = x]
           stage == IF Op(c) = "statement_key" /\ s = "statement" THEN "seed"
                    ELSE IF Op(c) \in {"presence", "attest", "sign"} THEN "ask" ELSE "sign"
<1>1. /\ locals \in Work
      /\ locals.seed = [work[c].seed EXCEPT ![s] = x]
      /\ locals.req = work[c].req /\ locals.now = work[c].now
      /\ locals.base = work[c].base /\ locals.saw = work[c].saw
  <2>1. work[c] \in Work
    BY DEF Typed
  <2> QED BY <2>1, WorkSeed
<1>2. stage \in {"seed", "ask", "sign"} /\ Fits(stage, Op(c))
  BY WhereFits, WhereFitsMore DEF AskOps
<1>3. stage \in Stages
  BY <1>2 DEF Fits
<1>4. Moves(c, locals, stage)
  BY <1>0 DEF HoldsSeed
<1> HIDE DEF locals, stage
<1> QED BY <1>0, <1>1, <1>2, <1>3, <1>4, Moved

\* Calls come on the souls' socket, all else on the owner's.
LEMMA Asks ==
  ASSUME NEW c \in Conn, Placed, conn[c] = "busy"
  PROVE  /\ Op(c) = "call" => c \in SoulConn /\ work[c].req \in SoulRequest
         /\ Op(c) # "call" => c \in OwnerConn /\ work[c].req \in OwnerRequest
<1>1. CASE c \in SoulConn
  <2>1. work[c].req \in SoulRequest
    BY <1>1 DEF Placed
  <2> QED BY <2>1, <1>1, Calls DEF Op
<1>2. CASE c \notin SoulConn
  <2>1. work[c].req \in OwnerRequest /\ c \in OwnerConn
    BY <1>2 DEF Placed, Conn
  <2> QED BY <2>1, Requests DEF Op, AskOps, Imports
<1> QED BY <1>1, <1>2

\* Every step of a handler progresses, action by action.
LEMMA Progress ==
  ASSUME NEW c \in Conn, Typed, Placed, Handling(c)
  PROVE  Progresses(c)
<1>0. work[c] \in Work
  BY DEF Typed
<1>1. ASSUME PlainStep(c) PROVE Progresses(c)
  <2>1. /\ conn[c] = "busy" /\ work[c].at \notin {"lock", "answer", "rest"}
        /\ UNCHANGED <<conn, clock>>
    BY <1>1 DEF PlainStep, FindAbsent, Approved, WritePin, PutKey, Sign, DeleteKey, Spend, ReadCache,
                ReadKey, Minted, KeepToken, EvictToken, Refused, At, Quietly, channel
  <2>2. GoesOn(c)
    BY <1>1, PlainGoesOn
  <2> QED BY <2>1, <2>2, Goings DEF Progresses
<1>2. CASE ReadPin(c) \/ ReadDaemonKey(c)
  <2> DEFINE locals == [work[c] EXCEPT !.saw = Pinned]
  <2>1. /\ locals \in Work /\ locals.req = work[c].req /\ locals.now = work[c].now
    BY <1>0, WorkSaw, PinnedTyped
  <2>2. /\ conn[c] = "busy" /\ work[c].at \notin {"lock", "answer", "rest"}
        /\ UNCHANGED <<conn, clock>>
    BY <1>2 DEF ReadPin, ReadDaemonKey, At, Quietly, channel
  <2>3. PICK stage \in {"answer", "ask", "spend"} : Moves(c, locals, stage) /\ Fits(stage, Op(c))
    <3>1. CASE ReadPin(c)
      <4>1. Fits("pinned", Op(c))
        BY <3>1, Found DEF ReadPin
      <4>2. Moves(c, locals, "answer") \/ Moves(c, locals, "ask")
        BY <3>1 DEF ReadPin
      <4> QED BY <4>1, <4>2, WhereFits DEF AskOps
    <3>2. CASE ReadDaemonKey(c)
      <4>1. Fits("daemon", Op(c))
        BY <3>2, Found DEF ReadDaemonKey
      <4>2. Moves(c, locals, "answer") \/ Moves(c, locals, "spend")
        BY <3>2 DEF ReadDaemonKey
      <4> QED BY <4>1, <4>2, WhereFits, WhereFitsMore
    <3> QED BY <1>2, <3>1, <3>2
  <2>4. stage \in Stages
    BY <2>3 DEF Fits
  <2> HIDE DEF locals
  <2> QED BY <2>1, <2>2, <2>3, <2>4, Moved DEF Progresses
<1>3. CASE ReadRecord(c)
  <2>1. /\ conn[c] = "busy" /\ work[c].at \notin {"lock", "answer", "rest"}
        /\ UNCHANGED <<conn, clock>>
    BY <1>3 DEF ReadRecord, At, Quietly, channel
  <2>2. Fits("record", Op(c))
    BY <1>3, Found DEF ReadRecord
  <2>3. \/ \E x \in {item.owners, NoRecord} : Moves(c, [work[c] EXCEPT !.base = x], "seed")
        \/ Goes(c, "answer")
    BY <1>3 DEF ReadRecord
  <2>4. CASE Goes(c, "answer")
    BY <2>1, <2>4, WhereFits, GoesTo, Goings DEF Progresses
  <2>5. CASE \E x \in {item.owners, NoRecord} : Moves(c, [work[c] EXCEPT !.base = x], "seed")
    <3>1. PICK x \in {item.owners, NoRecord} : Moves(c, [work[c] EXCEPT !.base = x], "seed")
      BY <2>5
    <3>2. x \in Record
      BY ItemTyped DEF NoRecord, Record
    <3> DEFINE locals == [work[c] EXCEPT !.base = x]
    <3>3. locals \in Work /\ locals.req = work[c].req /\ locals.now = work[c].now
      BY <1>0, <3>2, WorkBase
    <3>4. Fits("seed", Op(c)) /\ "seed" \in Stages
      BY <2>2, WhereFits, WhereFitsMore DEF SeedOps, Fits
    <3>5. Moves(c, locals, "seed")
      BY <3>1
    <3> HIDE DEF locals
    <3> QED BY <2>1, <3>3, <3>4, <3>5, Moved DEF Progresses
  <2> QED BY <2>3, <2>4, <2>5
<1>4. CASE ReadSeed(c) \/ MakeSeed(c) \/ ReadSeedAgain(c)
  <2>1. /\ conn[c] = "busy" /\ work[c].at \in {"seed", "make", "again"}
        /\ UNCHANGED <<conn, clock>>
    BY <1>4 DEF ReadSeed, MakeSeed, ReadSeedAgain, At, Quietly, channel
  <2>2. Op(c) \in SeedOps
    <3>1. \E stage \in {"seed", "make", "again"} : At(c, stage)
      BY <2>1 DEF At
    <3> QED BY <3>1, Found, WhereFitsMore
  <2>3. c \in OwnerConn
    BY <2>1, <2>2, Asks DEF SeedOps
  <2>4. \/ Goes(c, "make") \/ Goes(c, "again")
        \/ \E x \in Source \cup {None} : HoldsSeed(c, x)
    BY <1>4, <2>3, ItemTyped, NeedsSeed DEF ReadSeed, MakeSeed, ReadSeedAgain, Source
  <2>5. CASE Goes(c, "make") \/ Goes(c, "again")
    BY <2>1, <2>2, <2>5, WhereFitsMore, GoesTo, Goings DEF Progresses
  <2>6. CASE \E x \in Source \cup {None} : HoldsSeed(c, x)
    BY <2>1, <2>2, <2>6, Holding DEF Progresses
  <2> QED BY <2>4, <2>5, <2>6
<1>5. CASE RaiseRecord(c)
  <2>1. /\ conn[c] = "busy" /\ work[c].at \notin {"lock", "answer", "rest"}
        /\ UNCHANGED <<conn, clock>>
    BY <1>5 DEF RaiseRecord, At, Quietly, channel
  <2>2. Op(c) = "attest"
    BY <1>5, Found, WhereFits DEF RaiseRecord
  <2>3. work[c].req.names \in Digest
    BY <2>1, <2>2, Asks, Requests DEF Op
  <2>4. Goes(c, "raise") \/ Moves(c, [work[c] EXCEPT !.base = Raised(c)], "sign")
    BY <1>5 DEF RaiseRecord
  <2>5. CASE Goes(c, "raise")
    BY <2>1, <2>2, <2>5, WhereFits, GoesTo, Goings DEF Progresses
  <2>6. CASE Moves(c, [work[c] EXCEPT !.base = Raised(c)], "sign")
    <3> DEFINE locals == [work[c] EXCEPT !.base = Raised(c)]
    <3>1. locals \in Work /\ locals.req = work[c].req /\ locals.now = work[c].now
      BY <1>0, <2>3, Records, WorkBase
    <3>2. Fits("sign", Op(c)) /\ "sign" \in Stages
      BY <2>2, WhereFitsMore DEF SeedOps, Fits
    <3>3. Moves(c, locals, "sign")
      BY <2>6
    <3> HIDE DEF locals
    <3> QED BY <2>1, <3>1, <3>2, <3>3, Moved DEF Progresses
  <2> QED BY <2>4, <2>5, <2>6
<1> QED
  BY <1>1, <1>2, <1>3, <1>4, <1>5 DEF Handling, OwnerStep, SoulStep, PlainStep

-----------------------------------------------------------------------------
(* What a handler's step does to the Keychain. *)

Same(i) ==
  /\ i \in Items
  /\ \A s \in Seeds : i[s] = item[s]
  /\ i.pin = item.pin /\ i.owners = item.owners /\ i.app = item.app

\* The Keychain with another pin.
LEMMA SetPin ==
  ASSUME item \in Items, NEW x \in DaemonKey \cup {None}
  PROVE  LET i == [item EXCEPT !.pin = x]
         IN  /\ i \in Items /\ \A s \in Seeds : i[s] = item[s]
             /\ i.pin = x /\ i.owners = item.owners /\ i.app = item.app
BY DEF Items, Seeds

\* The Keychain with another record of the owner's keys.
LEMMA SetOwners ==
  ASSUME item \in Items, NEW x \in Record
  PROVE  LET i == [item EXCEPT !.owners = x]
         IN  /\ i \in Items /\ \A s \in Seeds : i[s] = item[s]
             /\ i.pin = item.pin /\ i.owners = x /\ i.app = item.app
BY DEF Items, Seeds

\* The Keychain with another App-level key.
LEMMA SetApp ==
  ASSUME item \in Items, NEW x \in Source \cup {None}
  PROVE  LET i == [item EXCEPT !.app = x]
         IN  /\ i \in Items /\ \A s \in Seeds : i[s] = item[s]
             /\ i.pin = item.pin /\ i.owners = item.owners /\ i.app = x
BY DEF Items, Seeds

\* The Keychain with another seed.
LEMMA SetSeed ==
  ASSUME item \in Items, NEW s \in Seeds, NEW x \in Source \cup {None}
  PROVE  LET i == [item EXCEPT ![s] = x]
         IN  /\ i \in Items /\ \A t \in Seeds : i[t] = IF t = s THEN x ELSE item[t]
             /\ i.pin = item.pin /\ i.owners = item.owners /\ i.app = item.app
BY DEF Items, Seeds

\* The soul's key and the cached token are of no account to the rest.
LEMMA SetOther ==
  ASSUME item \in Items
  PROVE  /\ \A x \in Source \cup {None} : Same([item EXCEPT !.soul = x])
         /\ \A x \in BOOLEAN : Same([item EXCEPT !.cache = x])
         /\ Same(item)
BY DEF Items, Seeds, Same

\* Only these steps of a handler change these items.
Changes(c) ==
  /\ item' \in Items
  /\ alien' \subseteq alien
  /\ \A s \in Seeds : item[s] # None => item'[s] = item[s]
  /\ WritePin(c) \/ (item'.pin = item.pin /\ ("pin" \in alien <=> "pin" \in alien'))
  /\ RaiseRecord(c) \/ (item'.owners = item.owners /\ ("owners" \in alien <=> "owners" \in alien'))
  /\ PutKey(c) \/ DeleteKey(c) \/ item'.app = item.app

\* Every step of a handler changes the Keychain as Changes says.
LEMMA Keeping ==
  ASSUME NEW c \in Conn, Typed, Placed, Handling(c)
  PROVE  Changes(c)
<1>0. item \in Items
  BY DEF Typed
<1>1. ASSUME Same(item'), UNCHANGED alien PROVE Changes(c)
  BY <1>1 DEF Same, Changes
<1>2. CASE UNCHANGED stored
  BY <1>0, <1>1, <1>2, SetOther DEF stored
<1>3. CASE MakeSeed(c)
  <2>1. Fits("make", Op(c)) /\ conn[c] = "busy"
    BY <1>3, Found DEF MakeSeed, At
  <2>2. c \in Source \cup {None}
    BY <2>1, WhereFitsMore, Asks DEF SeedOps, Source
  <2>3. PICK s \in Seeds : s = Needs(c)
    BY NeedsSeed
  <2>4. UNCHANGED alien /\ (UNCHANGED item \/ (item[s] = None /\ item' = [item EXCEPT ![s] = c]))
    BY <1>3, <2>3 DEF MakeSeed
  <2>5. CASE UNCHANGED item
    BY <1>0, <1>1, <2>4, <2>5, SetOther
  <2>6. CASE item[s] = None /\ item' = [item EXCEPT ![s] = c]
    <3>1. /\ item' \in Items /\ \A t \in Seeds : item'[t] = IF t = s THEN c ELSE item[t]
          /\ item'.pin = item.pin /\ item'.owners = item.owners /\ item'.app = item.app
      BY <1>0, <2>2, <2>6, SetSeed
    <3>2. \A t \in Seeds : item[t] # None => item'[t] = item[t]
      BY <2>6, <3>1
    <3> QED BY <2>4, <3>1, <3>2 DEF Changes
  <2> QED BY <2>4, <2>5, <2>6
<1>4. CASE WritePin(c)
  <2>1. Fits("pin", Op(c)) /\ conn[c] = "busy"
    BY <1>4, Found DEF WritePin, At
  <2>2. Op(c) \in Imports \cup {"pin"}
    BY <2>1, WhereFits
  <2>3. work[c].req.names \in DaemonKey \cup {None}
    BY <2>1, <2>2, Asks, Requests DEF Op, Imports
  <2>4. PICK x \in DaemonKey \cup {None} : item' = [item EXCEPT !.pin = x]
    BY <1>4, <2>3 DEF WritePin
  <2>5. alien' = alien \ {"pin"}
    BY <1>4 DEF WritePin
  <2> QED BY <1>0, <1>4, <2>4, <2>5, SetPin DEF Changes
<1>5. CASE RaiseRecord(c)
  <2>1. Op(c) = "attest" /\ conn[c] = "busy"
    BY <1>5, Found, WhereFits DEF RaiseRecord, At
  <2>2. work[c].req.names \in Digest
    BY <2>1, Asks, Requests DEF Op
  <2>3. PICK x \in Record : item' = [item EXCEPT !.owners = x]
    BY <1>5, <2>2, Records DEF RaiseRecord
  <2>4. alien' = alien \ {"owners"}
    BY <1>5 DEF RaiseRecord
  <2> QED BY <1>0, <1>5, <2>3, <2>4, SetOwners DEF Changes
<1>6. CASE PutKey(c) \/ DeleteKey(c)
  <2>1. conn[c] = "busy" /\ Op(c) # "call"
    <3>1. CASE PutKey(c)
      BY <3>1, Found, WhereFits DEF PutKey, At, Imports
    <3>2. CASE DeleteKey(c)
      BY <3>2, Found, WhereFits DEF DeleteKey, At
    <3> QED BY <1>6, <3>1, <3>2
  <2>2. c \in Source \cup {None}
    BY <2>1, Asks DEF Source
  <2>3. UNCHANGED alien
    BY <1>6 DEF PutKey, DeleteKey
  <2>4. \/ UNCHANGED item
        \/ \E x \in Source \cup {None} : item' = [item EXCEPT !.soul = x]
        \/ \E x \in Source \cup {None} : item' = [item EXCEPT !.app = x]
    BY <1>6, <2>2 DEF PutKey, DeleteKey
  <2>5. CASE UNCHANGED item \/ \E x \in Source \cup {None} : item' = [item EXCEPT !.soul = x]
    BY <1>0, <1>1, <2>3, <2>5, SetOther
  <2>6. CASE \E x \in Source \cup {None} : item' = [item EXCEPT !.app = x]
    BY <1>0, <1>6, <2>3, <2>6, SetApp DEF Changes
  <2> QED BY <2>4, <2>5, <2>6
<1>7. CASE KeepToken(c) \/ EvictToken(c)
  <2>1. UNCHANGED alien /\ (UNCHANGED item \/ \E x \in BOOLEAN : item' = [item EXCEPT !.cache = x])
    BY <1>7 DEF KeepToken, EvictToken
  <2> QED BY <1>0, <1>1, <2>1, SetOther
<1>8. CASE Refused(c) \/ FindAbsent(c) \/ ReadPin(c) \/ ReadRecord(c) \/ ReadSeed(c)
           \/ ReadSeedAgain(c) \/ Approved(c) \/ Sign(c) \/ ReadDaemonKey(c) \/ Spend(c)
           \/ ReadCache(c) \/ ReadKey(c) \/ Minted(c)
  BY <1>2, <1>8 DEF Refused, FindAbsent, ReadPin, ReadRecord, ReadSeed, ReadSeedAgain, Approved,
                    Sign, ReadDaemonKey, Spend, ReadCache, ReadKey, Minted, stored
<1> QED
  BY <1>3, <1>4, <1>5, <1>6, <1>7, <1>8 DEF Handling, OwnerStep, SoulStep

\* Only Spend touches the nonces, only Sign what was answered.
LEMMA History ==
  ASSUME NEW c \in Conn, Handling(c)
  PROVE  /\ Spend(c) \/ UNCHANGED <<seen, spent>>
         /\ Sign(c) \/ UNCHANGED <<handed, attested>>
<1>1. CASE Quietly
  BY <1>1 DEF Quietly
<1>2. CASE Spend(c)
  BY <1>2 DEF Spend
<1>3. CASE Sign(c)
  BY <1>3 DEF Sign
<1>4. CASE Refused(c) \/ FindAbsent(c) \/ ReadPin(c) \/ ReadRecord(c) \/ ReadSeed(c)
           \/ MakeSeed(c) \/ ReadSeedAgain(c) \/ Approved(c) \/ WritePin(c) \/ PutKey(c)
           \/ RaiseRecord(c) \/ DeleteKey(c)
  BY <1>1, <1>4 DEF Refused, FindAbsent, ReadPin, ReadRecord, ReadSeed, MakeSeed, ReadSeedAgain,
                    Approved, WritePin, PutKey, RaiseRecord, DeleteKey
<1>5. CASE ReadDaemonKey(c) \/ ReadCache(c) \/ ReadKey(c) \/ Minted(c) \/ KeepToken(c)
           \/ EvictToken(c)
  BY <1>1, <1>5 DEF ReadDaemonKey, ReadCache, ReadKey, Minted, KeepToken, EvictToken
<1> QED BY <1>2, <1>3, <1>4, <1>5 DEF Handling, OwnerStep, SoulStep

-----------------------------------------------------------------------------
(* The other steps. *)

\* No thread moves; none gets a request or loses one.
Calm ==
  /\ UNCHANGED <<work, ownerLock, seen, spent, handed, attested>>
  /\ \A c \in Conn : conn'[c] = "busy" <=> conn[c] = "busy"

\* A connection comes or goes, whatever its thread has to do.
ChannelStep(c) == Connect(c) \/ Closes(c) \/ HangsUp(c)

\* The steps of the system, sorted.
LEMMA Steps ==
  ASSUME [Next]_vars
  PROVE  \/ \E c \in Conn : Handling(c)
         \/ \E c \in Conn : TakeLock(c) \/ Answer(c) \/ ChannelStep(c)
         \/ \E c \in Conn, req \in Request : Claim(c, req)
         \/ Tick \/ Dies \/ KeyAppears
         \/ \E i \in {"pin", "owners"} : LosesControl(i)
         \/ UNCHANGED vars
BY DEF Next, Handles, Handling, OwnerStep, ChannelStep

\* A connection that comes or goes moves no thread.
LEMMA ChannelsAreCalm ==
  ASSUME NEW c \in Conn, ChannelStep(c), conn \in [Conn -> {"new", "open", "busy", "closed", "refused", "lost"}]
  PROVE  Calm /\ UNCHANGED <<stored, clock>>
         /\ conn' \in [Conn -> {"new", "open", "busy", "closed", "refused", "lost"}]
<1>1. CASE Connect(c)
  <2>1. conn[c] = "new" /\ \E s \in {"open", "refused"} : conn' = [conn EXCEPT ![c] = s]
    BY <1>1 DEF Connect
  <2> QED BY <1>1, <2>1 DEF Connect, Calm, handler
<1>2. CASE Closes(c)
  <2>1. conn[c] = "open" /\ conn' = [conn EXCEPT ![c] = "closed"]
    BY <1>2 DEF Closes
  <2> QED BY <1>2, <2>1 DEF Closes, Calm, handler
<1>3. CASE HangsUp(c)
  BY <1>3 DEF HangsUp, Calm, handler
<1> QED BY <1>1, <1>2, <1>3 DEF ChannelStep

\* Neither does the environment.
LEMMA OthersAreCalm ==
  ASSUME Tick \/ KeyAppears \/ (\E i \in {"pin", "owners"} : LosesControl(i)) \/ UNCHANGED vars
  PROVE  Calm /\ conn' = conn
BY DEF Tick, KeyAppears, LosesControl, vars, Calm, handler, channel

-----------------------------------------------------------------------------
(* Types, and where threads are. *)

\* Types are kept.
LEMMA TypedKept ==
  ASSUME Typed, Placed, [Next]_vars
  PROVE  Typed'
<1>1. ASSUME NEW c \in Conn, Handling(c) PROVE Typed'
  <2>1. Progresses(c) /\ Changes(c)
    BY <1>1, Progress, Keeping
  <2>2. work' \in [Conn -> Work] /\ UNCHANGED <<conn, clock>> /\ ownerLock' \in OwnerConn \cup {None}
    BY <2>1 DEF Progresses, Typed, Unlocks
  <2>3. item' \in Items /\ alien' \subseteq {"pin", "owners"}
    BY <2>1 DEF Changes, Typed
  <2>4. seen' \subseteq Grant /\ spent' \in [Grant -> Nat]
    <3>1. CASE Spend(c)
      <4>1. Op(c) = "call" /\ conn[c] = "busy"
        BY <3>1, Found, WhereFitsMore DEF Spend, At
      <4>2. work[c].req.names \in Grant
        BY <4>1, Asks, Calls
      <4>3. PICK g \in Grant : /\ seen' \in {seen, Keeps(work[c].now), Keeps(work[c].now) \cup {g}}
                               /\ spent' = spent \/ spent' = [spent EXCEPT ![g] = @ + 1]
        BY <3>1, <4>2 DEF Spend
      <4> QED BY <4>3 DEF Keeps, Typed
    <3>2. CASE UNCHANGED <<seen, spent>>
      BY <3>2 DEF Typed
    <3> QED BY <1>1, <3>1, <3>2, History
  <2>5. handed' \subseteq [of : Seeds, seed : Source] /\ attested' \subseteq Record
    <3>1. CASE Sign(c)
      <4>1. work[c].seed \in [Seeds -> Source \cup {None}] /\ work[c].base \in Record
        BY DEF Typed, Work
      <4>2. {[of |-> s, seed |-> work[c].seed[s]] : s \in {t \in Seeds : work[c].seed[t] # None}}
              \subseteq [of : Seeds, seed : Source]
        BY <4>1
      <4> QED BY <3>1, <4>1, <4>2 DEF Sign, Typed
    <3>2. CASE UNCHANGED <<handed, attested>>
      BY <3>2 DEF Typed
    <3> QED BY <1>1, <3>1, <3>2, History
  <2> QED BY <2>2, <2>3, <2>4, <2>5 DEF Typed
<1>2. ASSUME NEW c \in Conn, TakeLock(c) PROVE Typed'
  <2>1. c \in OwnerConn
    <3>1. Fits("lock", Op(c)) /\ conn[c] = "busy"
      BY <1>2, Found DEF TakeLock, At
    <3> QED BY <3>1, Asks DEF Fits, AskOps, Imports
  <2>2. Opening(Op(c)) \in Stages
    BY DEF Opening, Stages, OwnerStages
  <2>3. work' = [work EXCEPT ![c] = [work[c] EXCEPT !.at = Opening(Op(c))]]
    BY <1>2 DEF TakeLock, Typed
  <2>4. [work[c] EXCEPT !.at = Opening(Op(c))] \in Work
    BY <2>2, WorkAt DEF Typed
  <2>5. work' \in [Conn -> Work]
    BY <2>3, <2>4 DEF Typed
  <2> QED BY <1>2, <2>1, <2>5 DEF TakeLock, Quietly, stored, channel, Typed
<1>3. ASSUME NEW c \in Conn, Answer(c) PROVE Typed'
  BY <1>3, RestTyped DEF Answer, stored, Typed
<1>4. ASSUME NEW c \in Conn, ChannelStep(c) PROVE Typed'
  BY <1>4, ChannelsAreCalm DEF Calm, stored, Typed
<1>5. ASSUME NEW c \in Conn, NEW req \in Request, Claim(c, req) PROVE Typed'
  <2>1. Entry(req.op) \in Stages
    BY DEF Entry, Opening, Stages, OwnerStages, SoulStages
  <2>2. [Rest EXCEPT !.req = req, !.at = Entry(req.op), !.now = clock] \in Work
    BY <2>1, RestTyped DEF Work, Typed
  <2> QED BY <1>5, <2>2 DEF Claim, stored, Typed
<1>6. CASE Dies
  BY <1>6, RestTyped DEF Dies, stored, Typed
<1>7. CASE Tick
  BY <1>7, OthersAreCalm DEF Tick, stored, Calm, Typed
<1>8. CASE KeyAppears
  BY <1>8, OthersAreCalm, SetApp DEF KeyAppears, Calm, Typed, Source
<1>9. ASSUME NEW i \in {"pin", "owners"}, LosesControl(i) PROVE Typed'
  BY <1>9, OthersAreCalm DEF LosesControl, Calm, Typed
<1>10. CASE UNCHANGED vars
  BY <1>10 DEF vars, Typed
<1> QED
  BY <1>1, <1>2, <1>3, <1>4, <1>5, <1>6, <1>7, <1>8, <1>9, <1>10, Steps

\* The first stage of a request, once it has the lock.
LEMMA Opens ==
  ASSUME NEW op \in AskOps \cup {"pins_status", "statement_key"}
  PROVE  Fits(Opening(op), op) /\ Opening(op) \notin {"lock", "answer", "pin", "raise"}
<1>1. Opening(op) \in {"pinned", "absent", "record", "seed", "ask"}
  BY DEF Opening
<1>2. /\ Opening(op) = "pinned" => op \in Imports \cup {"pin"}
      /\ Opening(op) = "absent" => op = "app_import_new"
      /\ Opening(op) = "record" => op \in {"attest", "pins_status"}
      /\ Opening(op) = "seed" => op \in SeedOps
      /\ Opening(op) = "ask" => op \in AskOps
  BY DEF Opening, Imports, SeedOps, AskOps
<1> QED BY <1>1, <1>2, WhereFits, WhereFitsMore

\* The first stage of a request.
LEMMA Enters ==
  ASSUME NEW req \in Request
  PROVE  Fits(Entry(req.op), req.op) /\ Entry(req.op) # "answer"
<1>1. CASE req \in SoulRequest
  BY <1>1, Calls, WhereFitsMore DEF Entry
<1>2. CASE req \in OwnerRequest
  <2>1. req.op \in AskOps \cup {"pins_status", "statement_key"} /\ req.op # "call"
    BY <1>2, Requests DEF AskOps, Imports
  <2>2. CASE Locks(req.op)
    <3>1. req.op \in AskOps
      BY <2>1, <2>2 DEF Locks
    <3>2. Entry(req.op) = "lock"
      BY <2>1, <2>2 DEF Entry
    <3>3. Fits("lock", req.op)
      BY <3>1 DEF Fits, Stages, OwnerStages, SoulStages
    <3> QED BY <3>2, <3>3
  <2>3. CASE ~Locks(req.op)
    BY <2>1, <2>3, Opens DEF Entry
  <2> QED BY <2>2, <2>3
<1> QED BY <1>1, <1>2 DEF Request

\* Threads stay at stages of their requests.
LEMMA PlacedKept ==
  ASSUME Typed, Placed, [Next]_vars
  PROVE  Placed'
<1>1. ASSUME Calm PROVE Placed'
  BY <1>1 DEF Calm, Placed, Op
<1>2. ASSUME NEW c \in Conn, Handling(c) PROVE Placed'
  <2>1. Progresses(c)
    BY <1>2, Progress
  <2> SUFFICES ASSUME NEW d \in Conn, conn'[d] = "busy"
               PROVE  /\ work'[d].req \in (IF d \in SoulConn THEN SoulRequest ELSE OwnerRequest)
                      /\ Fits(work'[d].at, work'[d].req.op)
    BY DEF Placed, Op
  <2>2. CASE d = c
    BY <2>1, <2>2 DEF Progresses, Placed, Op
  <2>3. CASE d # c
    BY <2>1, <2>3 DEF Progresses, Placed, Op, Typed
  <2> QED BY <2>2, <2>3
<1>3. ASSUME NEW c \in Conn, TakeLock(c) PROVE Placed'
  <2>1. Fits("lock", Op(c)) /\ conn' = conn
    BY <1>3, Found DEF TakeLock, Quietly, channel
  <2>2. Op(c) \in AskOps
    BY <2>1 DEF Fits
  <2>3. Fits(Opening(Op(c)), Op(c))
    BY <2>2, Opens
  <2>4. /\ \A d \in Conn : d # c => work'[d] = work[d]
        /\ work'[c].at = Opening(Op(c)) /\ work'[c].req = work[c].req
    BY <1>3 DEF TakeLock, Typed, Work
  <2> SUFFICES ASSUME NEW d \in Conn, conn'[d] = "busy"
               PROVE  /\ work'[d].req \in (IF d \in SoulConn THEN SoulRequest ELSE OwnerRequest)
                      /\ Fits(work'[d].at, work'[d].req.op)
    BY DEF Placed, Op
  <2> QED BY <2>1, <2>3, <2>4 DEF Placed, Op
<1>4. ASSUME NEW c \in Conn, Answer(c) PROVE Placed'
  <2>1. /\ \A d \in Conn : d # c => work'[d] = work[d] /\ conn'[d] = conn[d]
        /\ conn'[c] # "busy"
    BY <1>4 DEF Answer, Typed
  <2> QED BY <2>1 DEF Placed, Op
<1>5. ASSUME NEW c \in Conn, NEW req \in Request, Claim(c, req) PROVE Placed'
  <2>1. Fits(Entry(req.op), req.op)
    BY Enters
  <2>2. req \in (IF c \in SoulConn THEN SoulRequest ELSE OwnerRequest)
    BY <1>5 DEF Claim
  <2>3. /\ \A d \in Conn : d # c => work'[d] = work[d] /\ conn'[d] = conn[d]
        /\ work'[c].at = Entry(req.op) /\ work'[c].req = req
    BY <1>5, RestTyped DEF Claim, Typed, Work
  <2> SUFFICES ASSUME NEW d \in Conn, conn'[d] = "busy"
               PROVE  /\ work'[d].req \in (IF d \in SoulConn THEN SoulRequest ELSE OwnerRequest)
                      /\ Fits(work'[d].at, work'[d].req.op)
    BY DEF Placed, Op
  <2> QED BY <2>1, <2>2, <2>3 DEF Placed, Op
<1>6. CASE Dies
  BY <1>6 DEF Dies, Placed
<1> QED
  BY <1>1, <1>2, <1>3, <1>4, <1>5, <1>6, Steps, ChannelsAreCalm, OthersAreCalm DEF Typed

\* A thread keeps the owner's lock until it answers.
LEMMA LockKept ==
  ASSUME Typed, Placed, LockHeld, [Next]_vars
  PROVE  LockHeld'
<1>0. None \notin Conn
  BY KeydAssumption
<1>1. ASSUME Calm PROVE LockHeld'
  BY <1>1 DEF Calm, LockHeld, Op, Conn
<1>2. ASSUME NEW c \in Conn, Handling(c) PROVE LockHeld'
  <2>1. Progresses(c)
    BY <1>2, Progress
  <2> SUFFICES ASSUME NEW d \in OwnerConn, conn'[d] = "busy", Locks(work'[d].req.op),
                      work'[d].at \notin {"lock", "answer"}
               PROVE  ownerLock' = d
    BY DEF LockHeld, Op
  <2>2. d \in Conn
    BY DEF Conn
  <2>3. ownerLock' = IF work'[c].at = "answer" /\ ownerLock = c THEN None ELSE ownerLock
    BY <2>1 DEF Progresses, Unlocks
  <2>4. conn[d] = "busy" /\ Locks(Op(d)) /\ work[d].at \notin {"lock", "answer"}
    <3>1. CASE d = c
      BY <2>1, <3>1 DEF Progresses, Op
    <3>2. CASE d # c
      BY <2>1, <2>2, <3>2 DEF Progresses, Op, Typed
    <3> QED BY <3>1, <3>2
  <2>5. ownerLock = d
    BY <2>4 DEF LockHeld
  <2> QED BY <2>3, <2>5
<1>3. ASSUME NEW c \in Conn, TakeLock(c) PROVE LockHeld'
  <2>1. /\ ownerLock = None /\ ownerLock' = c /\ conn' = conn
        /\ \A d \in Conn : d # c => work'[d] = work[d]
    BY <1>3 DEF TakeLock, Quietly, channel, Typed
  <2> QED BY <1>0, <2>1 DEF LockHeld, Op, Conn
<1>4. ASSUME NEW c \in Conn, Answer(c) PROVE LockHeld'
  <2>1. /\ \A d \in Conn : d # c => work'[d] = work[d] /\ conn'[d] = conn[d]
        /\ conn'[c] # "busy" /\ ownerLock' = ownerLock
    BY <1>4 DEF Answer, Typed
  <2> QED BY <2>1 DEF LockHeld, Op, Conn
<1>5. ASSUME NEW c \in Conn, NEW req \in Request, Claim(c, req) PROVE LockHeld'
  <2>1. /\ \A d \in Conn : d # c => work'[d] = work[d] /\ conn'[d] = conn[d]
        /\ work'[c].at = Entry(req.op) /\ work'[c].req = req /\ ownerLock' = ownerLock
    BY <1>5, RestTyped DEF Claim, Typed, Work
  <2>2. c \in OwnerConn /\ Locks(req.op) => Entry(req.op) = "lock"
    <3>1. c \in OwnerConn => req \in OwnerRequest
      BY <1>5, KeydAssumption DEF Claim
    <3>2. req \in OwnerRequest => req.op # "call"
      BY Requests DEF AskOps, Imports
    <3> QED BY <3>1, <3>2 DEF Entry
  <2> QED BY <2>1, <2>2 DEF LockHeld, Op, Conn
<1>6. CASE Dies
  BY <1>6 DEF Dies, LockHeld, Conn
<1> QED
  BY <1>1, <1>2, <1>3, <1>4, <1>5, <1>6, Steps, ChannelsAreCalm, OthersAreCalm DEF Typed

\* Which steps change which locals.
LEMMA Locals ==
  ASSUME NEW c \in Conn, Typed, Placed, Handling(c)
  PROVE  /\ ReadSeed(c) \/ MakeSeed(c) \/ ReadSeedAgain(c) \/ work'[c].seed = work[c].seed
         /\ ReadRecord(c) \/ RaiseRecord(c) \/ work'[c].base = work[c].base
         /\ ReadPin(c) \/ ReadDaemonKey(c) \/ work'[c].saw = work[c].saw
<1>0. work[c] \in Work /\ {"answer", "ask", "spend", "seed", "sign", "raise", "make", "again"} \subseteq Stages
  BY DEF Typed, Stages, OwnerStages, SoulStages
<1>1. CASE PlainStep(c)
  BY <1>1, PlainGoesOn, Goings
<1>2. CASE ReadPin(c) \/ ReadDaemonKey(c)
  <2> DEFINE locals == [work[c] EXCEPT !.saw = Pinned]
  <2>1. /\ locals \in Work /\ locals.seed = work[c].seed /\ locals.base = work[c].base
    BY <1>0, WorkSaw, PinnedTyped
  <2>2. \E stage \in {"answer", "ask", "spend"} : Moves(c, locals, stage)
    BY <1>2 DEF ReadPin, ReadDaemonKey
  <2> HIDE DEF locals
  <2> QED BY <1>0, <1>2, <2>1, <2>2, Moved
<1>3. CASE ReadRecord(c) \/ RaiseRecord(c)
  <2>1. RaiseRecord(c) => work[c].req.names \in Digest
    <3> SUFFICES ASSUME RaiseRecord(c) PROVE work[c].req.names \in Digest
      OBVIOUS
    <3>1. Op(c) = "attest" /\ conn[c] = "busy"
      BY Found, WhereFits DEF RaiseRecord, At
    <3> QED BY <3>1, Asks, Requests DEF Op
  <2>2. \/ \E x \in Record, stage \in {"seed", "sign"} : Moves(c, [work[c] EXCEPT !.base = x], stage)
        \/ \E stage \in {"answer", "raise"} : Goes(c, stage)
    <3>1. CASE ReadRecord(c)
      <4>1. item.owners \in Record /\ NoRecord \in Record
        BY ItemTyped DEF NoRecord, Record
      <4> QED BY <3>1, <4>1 DEF ReadRecord
    <3>2. CASE RaiseRecord(c)
      <4>1. Raised(c) \in Record
        BY <2>1, <3>2, Records
      <4> QED BY <3>2, <4>1 DEF RaiseRecord
    <3> QED BY <1>3, <3>1, <3>2
  <2>3. CASE \E stage \in {"answer", "raise"} : Goes(c, stage)
    BY <1>0, <2>3, Moved DEF Goes
  <2>4. ASSUME NEW x \in Record, NEW stage \in {"seed", "sign"}, Moves(c, [work[c] EXCEPT !.base = x], stage)
        PROVE  work'[c].seed = work[c].seed /\ work'[c].saw = work[c].saw
    <3> DEFINE locals == [work[c] EXCEPT !.base = x]
    <3>1. /\ locals \in Work /\ locals.seed = work[c].seed /\ locals.saw = work[c].saw
      BY <1>0, WorkBase
    <3>2. Moves(c, locals, stage)
      BY <2>4
    <3> HIDE DEF locals
    <3> QED BY <1>0, <3>1, <3>2, Moved
  <2>5. work'[c].seed = work[c].seed /\ work'[c].saw = work[c].saw
    BY <1>0, <2>2, <2>3, <2>4, Moved DEF Goes
  <2> QED BY <1>3, <2>5
<1>4. CASE ReadSeed(c) \/ MakeSeed(c) \/ ReadSeedAgain(c)
  <2>1. Op(c) \in SeedOps /\ c \in OwnerConn
    <3>1. conn[c] = "busy" /\ \E stage \in {"seed", "make", "again"} : At(c, stage)
      BY <1>4 DEF At, ReadSeed, MakeSeed, ReadSeedAgain
    <3>2. Op(c) \in SeedOps
      BY <3>1, Found, WhereFitsMore
    <3> QED BY <3>1, <3>2, Asks DEF SeedOps
  <2>2. \/ \E stage \in {"make", "again"} : Goes(c, stage)
        \/ \E x \in Source \cup {None} : HoldsSeed(c, x)
    BY <1>4, <2>1, ItemTyped, NeedsSeed DEF ReadSeed, MakeSeed, ReadSeedAgain, Source
  <2>3. CASE \E stage \in {"make", "again"} : Goes(c, stage)
    BY <1>0, <1>4, <2>3, Moved DEF Goes
  <2>4. CASE \E x \in Source \cup {None} : HoldsSeed(c, x)
    BY <1>4, <2>1, <2>4, Holding
  <2> QED BY <2>2, <2>3, <2>4
<1> QED
  BY <1>1, <1>2, <1>3, <1>4 DEF Handling, OwnerStep, SoulStep, PlainStep

-----------------------------------------------------------------------------
(* Seeds. *)

\* A seed that a thread holds is the one that is stored.
SeedInv ==
  \A c \in Conn, s \in Seeds : work[c].seed[s] # None => item[s] = work[c].seed[s]

\* A seed that a thread comes to hold is the one stored after the step.
LEMMA SeedsTaken ==
  ASSUME NEW c \in Conn, NEW s \in Seeds, Typed, Placed, Handling(c)
  PROVE  work'[c].seed[s] \in {None, work[c].seed[s], item'[s]}
<1>1. CASE ReadSeed(c) \/ MakeSeed(c) \/ ReadSeedAgain(c)
  <2>1. Op(c) \in SeedOps /\ c \in OwnerConn
    <3>1. conn[c] = "busy" /\ \E stage \in {"seed", "make", "again"} : At(c, stage)
      BY <1>1 DEF At, ReadSeed, MakeSeed, ReadSeedAgain
    <3>2. Op(c) \in SeedOps
      BY <3>1, Found, WhereFitsMore
    <3> QED BY <3>1, <3>2, Asks DEF SeedOps
  <2>2. PICK n \in Seeds : n = Needs(c)
    BY NeedsSeed
  <2>3. work[c].seed \in [Seeds -> Source \cup {None}] /\ work[c] \in Work
    BY DEF Typed, Work
  <2>4. \/ \E stage \in {"make", "again"} : Goes(c, stage)
        \/ HoldsSeed(c, item'[n]) /\ item'[n] \in Source \cup {None}
    <3>1. CASE ReadSeed(c) \/ ReadSeedAgain(c)
      BY <3>1, <2>2, ItemTyped DEF ReadSeed, ReadSeedAgain, stored
    <3>2. CASE MakeSeed(c)
      <4>1. CASE item[n] = None
        <5>1. item' = [item EXCEPT ![n] = c] /\ HoldsSeed(c, c)
          BY <2>2, <3>2, <4>1 DEF MakeSeed
        <5>2. c \in Source \cup {None}
          BY <2>1 DEF Source
        <5>3. item'[n] = c
          BY <5>1, <5>2, SetSeed DEF Typed
        <5> QED BY <5>1, <5>2, <5>3
      <4>2. CASE item[n] # None
        BY <2>2, <3>2, <4>2 DEF MakeSeed
      <4> QED BY <4>1, <4>2
    <3> QED BY <1>1, <3>1, <3>2
  <2>5. CASE \E stage \in {"make", "again"} : Goes(c, stage)
    <3>1. {"make", "again"} \subseteq Stages
      BY DEF Stages, OwnerStages
    <3> QED BY <2>3, <2>5, <3>1, Moved DEF Goes
  <2>6. CASE HoldsSeed(c, item'[n]) /\ item'[n] \in Source \cup {None}
    <3>1. work'[c].seed = [work[c].seed EXCEPT ![n] = item'[n]]
      BY <2>1, <2>2, <2>6, Holding
    <3> QED BY <2>3, <3>1
  <2> QED BY <2>4, <2>5, <2>6
<1>2. CASE work'[c].seed = work[c].seed
  BY <1>2
<1> QED BY <1>1, <1>2, Locals

\* Nothing that is not a handler's step touches a seed.
LEMMA SeedsLeft ==
  ASSUME Typed, KeyAppears \/ UNCHANGED item
  PROVE  \A s \in Seeds : item'[s] = item[s]
<1>1. CASE KeyAppears
  BY <1>1, SetApp DEF KeyAppears, Typed, Source
<1> QED BY <1>1

\* Seeds that are held or were answered stay the stored ones.
LEMMA SeedKept ==
  ASSUME Typed, Placed, SeedInv, OneSeed, [Next]_vars
  PROVE  SeedInv' /\ OneSeed'
<1>1. ASSUME NEW c \in Conn, Handling(c) PROVE SeedInv' /\ OneSeed'
  <2>1. Progresses(c) /\ Changes(c)
    BY <1>1, Progress, Keeping
  <2>2. SeedInv'
    <3> SUFFICES ASSUME NEW d \in Conn, NEW s \in Seeds, work'[d].seed[s] # None
                 PROVE  item'[s] = work'[d].seed[s]
      BY DEF SeedInv
    <3>1. work'[d].seed[s] \in {None, work[d].seed[s], item'[s]}
      BY <1>1, <2>1, SeedsTaken DEF Progresses, Typed
    <3>2. work[d].seed[s] # None => item[s] = work[d].seed[s] /\ item'[s] = item[s]
      BY <2>1 DEF SeedInv, Changes
    <3> QED BY <3>1, <3>2
  <2>3. OneSeed'
    <3>1. ASSUME NEW h \in handed PROVE item'[h.of] = h.seed
      <4>1. h.of \in Seeds /\ h.seed \in Source
        BY DEF Typed
      <4>2. h.seed # None
        BY <4>1, KeydAssumption DEF Source, Conn
      <4> QED BY <2>1, <4>1, <4>2 DEF OneSeed, Changes
    <3>2. CASE Sign(c)
      <4>1. ASSUME NEW s \in Seeds, work[c].seed[s] # None PROVE item'[s] = work[c].seed[s]
        BY <2>1, <4>1 DEF SeedInv, Changes
      <4> QED BY <3>1, <3>2, <4>1 DEF Sign, OneSeed
    <3>3. CASE UNCHANGED <<handed, attested>>
      BY <3>1, <3>3 DEF OneSeed
    <3> QED BY <1>1, <3>2, <3>3, History
  <2> QED BY <2>2, <2>3
<1>2. ASSUME \A c \in Conn : work'[c].seed = work[c].seed \/ \A s \in Seeds : work'[c].seed[s] = None,
             KeyAppears \/ UNCHANGED item, UNCHANGED handed
      PROVE  SeedInv' /\ OneSeed'
  <2>1. \A s \in Seeds : item'[s] = item[s]
    BY <1>2, SeedsLeft
  <2>2. \A h \in handed : h.of \in Seeds
    BY DEF Typed
  <2> QED BY <1>2, <2>1, <2>2 DEF SeedInv, OneSeed
<1>3. \A s \in Seeds : Rest.seed[s] = None
  BY DEF Rest
<1>4. ASSUME NEW c \in Conn, TakeLock(c) PROVE SeedInv' /\ OneSeed'
  <2>1. \A d \in Conn : work'[d].seed = work[d].seed
    BY <1>4 DEF TakeLock, Typed, Work
  <2> QED BY <1>2, <1>4, <2>1 DEF TakeLock, Quietly, stored
<1>5. ASSUME NEW c \in Conn, Answer(c) PROVE SeedInv' /\ OneSeed'
  <2>1. \A d \in Conn : work'[d] = work[d] \/ work'[d] = Rest
    BY <1>5 DEF Answer, Typed
  <2> QED BY <1>2, <1>3, <1>5, <2>1 DEF Answer, stored
<1>6. ASSUME NEW c \in Conn, NEW req \in Request, Claim(c, req) PROVE SeedInv' /\ OneSeed'
  <2>1. \A d \in Conn : work'[d] = work[d] \/ work'[d].seed = Rest.seed
    BY <1>6, RestTyped DEF Claim, Typed, Work
  <2> QED BY <1>2, <1>3, <1>6, <2>1 DEF Claim, stored
<1>7. CASE Dies
  <2>1. \A d \in Conn : work'[d] = Rest
    BY <1>7 DEF Dies
  <2> QED BY <1>2, <1>3, <1>7, <2>1 DEF Dies, stored
<1>8. ASSUME NEW c \in Conn, ChannelStep(c) PROVE SeedInv' /\ OneSeed'
  BY <1>2, <1>8, ChannelsAreCalm DEF Calm, stored, Typed
<1>9. CASE Tick \/ KeyAppears \/ (\E i \in {"pin", "owners"} : LosesControl(i)) \/ UNCHANGED vars
  <2>1. KeyAppears \/ UNCHANGED item
    BY <1>9 DEF Tick, LosesControl, stored, vars
  <2> QED BY <1>2, <1>9, <2>1, OthersAreCalm DEF Calm
<1> QED
  BY <1>1, <1>4, <1>5, <1>6, <1>7, <1>8, <1>9, Steps

-----------------------------------------------------------------------------
(* The owner's record. *)

Agrees(a, b) == a.era = b.era /\ a.generation = b.generation => a.digest = b.digest
Upto(a, b)   == a.era < b.era \/ (a.era = b.era /\ a.generation <= b.generation)
Above(a, b)  == a.era > b.era \/ (a.era = b.era /\ a.generation > b.generation)

\* The records in `known` are of the history of which `last` is the end.
Knows(known, last) ==
  /\ last.generation = 0 <=> last.digest = None
  /\ \A a \in known : (a.generation = 0 => a.digest = None) /\ Upto(a, last) /\ Agrees(a, last)
  /\ \A a, b \in known : Agrees(a, b)

Known    == attested \cup {work[c].base : c \in Conn}
KnownInv == Knows(Known, item.owners)

\* Until it is raised, the record is the one an approval was asked about.
Asked == {"seed", "make", "again", "ask", "raise"}

BaseInv ==
  \A c \in OwnerConn :
    conn[c] = "busy" /\ Op(c) = "attest" /\ work[c].at \in Asked
      => (HasRecord => work[c].base = item.owners)

\* Records that lie on the history of o lie on that of p, when p follows o.
LEMMA Follows ==
  ASSUME NEW K \in SUBSET Record, NEW L \in SUBSET Record, NEW o \in Record, NEW p \in Record,
         Knows(K, o), L \subseteq K \cup {o, p, NoRecord},
         p = o \/ (Above(p, o) /\ (p.generation = 0 <=> p.digest = None))
  PROVE  Knows(L, p)
<1>1. NoRecord.digest = None /\ NoRecord.generation = 0 /\ NoRecord.era = 0
  BY DEF NoRecord
<1>2. \A a \in Record : a.era \in Nat /\ a.generation \in Nat
  BY DEF Record
<1>3. NoRecord \in Record
  BY DEF NoRecord, Record
<1>4. \A a \in K \cup {o, NoRecord} : (a.generation = 0 => a.digest = None) /\ Upto(a, o) /\ Agrees(a, o)
  BY <1>1, <1>2 DEF Knows, Upto, Agrees
<1>5. \A a, b \in K \cup {o, NoRecord} : Agrees(a, b)
  BY <1>1, <1>2, <1>4 DEF Knows, Agrees
<1>6. CASE p = o
  BY <1>4, <1>5, <1>6 DEF Knows
<1>7. CASE Above(p, o) /\ (p.generation = 0 <=> p.digest = None)
  <2>1. \A a \in K \cup {o, NoRecord} : Above(p, a)
    BY <1>2, <1>3, <1>4, <1>7 DEF Above, Upto
  <2>2. \A a \in K \cup {o, NoRecord} : Upto(a, p) /\ Agrees(a, p) /\ Agrees(p, a)
    BY <1>2, <1>3, <2>1 DEF Above, Upto, Agrees
  <2>3. Upto(p, p) /\ Agrees(p, p)
    BY <1>2 DEF Upto, Agrees
  <2> QED BY <1>4, <1>5, <1>7, <2>2, <2>3 DEF Knows
<1> QED BY <1>6, <1>7

\* A handler that raises the record holds the owner's lock.
LEMMA Raiser ==
  ASSUME NEW c \in Conn, Typed, Placed, LockHeld, RaiseRecord(c)
  PROVE  /\ c \in OwnerConn /\ conn[c] = "busy" /\ Op(c) = "attest" /\ work[c].at = "raise"
         /\ ownerLock = c /\ work[c].req.names \in Digest
<1>1. Op(c) = "attest" /\ conn[c] = "busy" /\ work[c].at = "raise"
  BY Found, WhereFits DEF RaiseRecord, At
<1>2. c \in OwnerConn /\ work[c].req \in OwnerRequest
  BY <1>1, Asks
<1>3. ownerLock = c
  BY <1>1, <1>2 DEF LockHeld, Locks
<1> QED BY <1>1, <1>2, <1>3, Requests DEF Op

\* The record as a handler leaves it.
LEMMA Raises ==
  ASSUME NEW c \in Conn, Typed, Placed, LockHeld, BaseInv, KnownInv, RaiseRecord(c)
  PROVE  /\ item'.owners \in Record
         /\ Above(item'.owners, item.owners)
         /\ item'.owners.generation = 0 <=> item'.owners.digest = None
         /\ work'[c].base \in {work[c].base, item'.owners}
         /\ ~HasRecord' \/ work'[c].at \notin Asked
<1>1. /\ c \in OwnerConn /\ conn[c] = "busy" /\ Op(c) = "attest" /\ work[c].at = "raise"
      /\ work[c].req.names \in Digest
  BY Raiser
<1>2. /\ Fresh \in Record /\ Raised(c) \in Record
      /\ Fresh.digest = None /\ Fresh.generation = 0 /\ Fresh.era = item.owners.era + 1
  BY <1>1, Records
<1>3. /\ Raised(c).digest = work[c].req.names
      /\ Raised(c).generation = work[c].base.generation + 1
      /\ Raised(c).era = item.owners.era
  BY DEF Raised
<1>4. /\ item.owners.era \in Nat /\ item.owners.generation \in Nat
      /\ work[c].base.generation \in Nat /\ work[c] \in Work /\ item \in Items
  BY DEF Typed, Items, Record, Work
<1>5. {"raise", "sign"} \subseteq Stages
  BY DEF Stages, OwnerStages
<1>6. CASE "owners" \in alien
  <2>1. item' = [item EXCEPT !.owners = Fresh] /\ Goes(c, "raise")
    BY <1>6 DEF RaiseRecord
  <2>2. item'.owners = Fresh /\ work'[c].base = work[c].base
    BY <1>2, <1>4, <1>5, <2>1, SetOwners, Moved DEF Goes
  <2>3. Above(item'.owners, item.owners)
    BY <1>2, <1>4, <2>2 DEF Above
  <2> QED BY <1>2, <2>2, <2>3 DEF HasRecord
<1>7. CASE "owners" \notin alien
  <2>1. item' = [item EXCEPT !.owners = Raised(c)] /\ Moves(c, [work[c] EXCEPT !.base = Raised(c)], "sign")
    BY <1>7 DEF RaiseRecord
  <2>2. item'.owners = Raised(c)
    BY <1>2, <1>4, <2>1, SetOwners
  <2>3. work'[c].base = Raised(c) /\ work'[c].at = "sign"
    <3> DEFINE locals == [work[c] EXCEPT !.base = Raised(c)]
    <3>1. locals \in Work /\ locals.base = Raised(c)
      BY <1>2, <1>4, WorkBase
    <3>2. Moves(c, locals, "sign")
      BY <2>1
    <3> HIDE DEF locals
    <3> QED BY <1>5, <3>1, <3>2, Moved
  <2>4. item.owners.generation <= work[c].base.generation
    <3>1. CASE item.owners.digest = None
      BY <1>4, <3>1 DEF KnownInv, Knows
    <3>2. CASE item.owners.digest # None
      BY <1>1, <1>4, <1>7, <3>2 DEF BaseInv, HasRecord, Asked
    <3> QED BY <3>1, <3>2
  <2>5. Above(item'.owners, item.owners) /\ item'.owners.generation # 0
    BY <1>3, <1>4, <2>2, <2>4 DEF Above
  <2>6. item'.owners.digest # None
    BY <1>1, <1>3, <2>2, KeydAssumption
  <2> QED BY <1>2, <2>2, <2>3, <2>5, <2>6 DEF Asked
<1> QED BY <1>6, <1>7

\* What a handler's step can make of its thread's record.
LEMMA Bases ==
  ASSUME NEW c \in Conn, Typed, Placed, LockHeld, BaseInv, KnownInv, Handling(c)
  PROVE  work'[c].base \in {work[c].base, item'.owners, NoRecord}
<1>1. CASE RaiseRecord(c)
  BY <1>1, Raises
<1>2. CASE ReadRecord(c)
  <2>1. {"seed", "answer"} \subseteq Stages /\ work[c] \in Work
    BY DEF Stages, OwnerStages, Typed
  <2>2. item.owners \in Record /\ NoRecord \in Record
    BY ItemTyped DEF NoRecord, Record
  <2>3. item' = item
    BY <1>2 DEF ReadRecord, stored
  <2>4. CASE Goes(c, "answer")
    BY <2>1, <2>4, Moved DEF Goes
  <2>5. ASSUME NEW x \in {item.owners, NoRecord}, Moves(c, [work[c] EXCEPT !.base = x], "seed")
        PROVE  work'[c].base \in {item'.owners, NoRecord}
    <3> DEFINE locals == [work[c] EXCEPT !.base = x]
    <3>1. locals \in Work /\ locals.base = x
      BY <2>1, <2>2, WorkBase
    <3>2. Moves(c, locals, "seed")
      BY <2>5
    <3> HIDE DEF locals
    <3> QED BY <2>1, <2>3, <3>1, <3>2, Moved
  <2> QED BY <1>2, <2>4, <2>5 DEF ReadRecord
<1> QED BY <1>1, <1>2, Locals

\* All known records stay on the history of the stored one.
LEMMA KnownKept ==
  ASSUME Typed, Placed, LockHeld, BaseInv, KnownInv, Typed', [Next]_vars
  PROVE  KnownInv'
<1> DEFINE K == Known
           L == attested' \cup {work'[c].base : c \in Conn}
<1>0. /\ K \in SUBSET Record /\ L \in SUBSET Record
      /\ item.owners \in Record /\ item'.owners \in Record
  BY DEF Typed, Items, Work, Known
<1>1. ASSUME L \subseteq K \cup {item.owners, item'.owners, NoRecord},
             \/ item'.owners = item.owners
             \/ /\ Above(item'.owners, item.owners)
                /\ item'.owners.generation = 0 <=> item'.owners.digest = None
      PROVE  KnownInv'
  <2>1. Knows(K, item.owners)
    BY DEF KnownInv
  <2>2. KnownInv' <=> Knows(L, item'.owners)
    BY DEF KnownInv, Known
  <2> HIDE DEF K, L
  <2>3. Knows(L, item'.owners)
    BY <1>0, <1>1, <2>1, Follows
  <2> QED BY <2>2, <2>3
<1>2. ASSUME NEW c \in Conn, Handling(c) PROVE KnownInv'
  <2>1. Progresses(c) /\ Changes(c)
    BY <1>2, Progress, Keeping
  <2>2. \/ item'.owners = item.owners
        \/ /\ Above(item'.owners, item.owners)
           /\ item'.owners.generation = 0 <=> item'.owners.digest = None
    BY <2>1, Raises DEF Changes
  <2>3. \A d \in Conn : work'[d].base \in {work[d].base, item'.owners, NoRecord}
    BY <1>2, <2>1, Bases DEF Progresses, Typed
  <2>4. attested' \subseteq attested \cup {work[c].base}
    BY <1>2, History DEF Sign
  <2>5. L \subseteq K \cup {item.owners, item'.owners, NoRecord}
    BY <2>3, <2>4 DEF Known
  <2> QED BY <1>1, <2>2, <2>5
<1>3. ASSUME \A c \in Conn : work'[c].base \in {work[c].base, NoRecord},
             UNCHANGED attested, item'.owners = item.owners
      PROVE  KnownInv'
  <2>1. L \subseteq K \cup {item.owners, item'.owners, NoRecord}
    BY <1>3 DEF Known
  <2> QED BY <1>1, <1>3, <2>1
<1>4. Rest.base = NoRecord
  BY DEF Rest
<1> HIDE DEF K, L
<1>5. ASSUME NEW c \in Conn, TakeLock(c) PROVE KnownInv'
  <2>1. \A d \in Conn : work'[d].base = work[d].base
    BY <1>5 DEF TakeLock, Typed, Work
  <2> QED BY <1>3, <1>5, <2>1 DEF TakeLock, Quietly, stored
<1>6. ASSUME NEW c \in Conn, Answer(c) PROVE KnownInv'
  <2>1. \A d \in Conn : work'[d] = work[d] \/ work'[d] = Rest
    BY <1>6 DEF Answer, Typed
  <2> QED BY <1>3, <1>4, <1>6, <2>1 DEF Answer, stored
<1>7. ASSUME NEW c \in Conn, NEW req \in Request, Claim(c, req) PROVE KnownInv'
  <2>1. \A d \in Conn : work'[d] = work[d] \/ work'[d].base = Rest.base
    BY <1>7, RestTyped DEF Claim, Typed, Work
  <2> QED BY <1>3, <1>4, <1>7, <2>1 DEF Claim, stored
<1>8. CASE Dies
  <2>1. \A d \in Conn : work'[d] = Rest
    BY <1>8 DEF Dies
  <2> QED BY <1>3, <1>4, <1>8, <2>1 DEF Dies, stored
<1>9. ASSUME NEW c \in Conn, ChannelStep(c) PROVE KnownInv'
  BY <1>3, <1>9, ChannelsAreCalm DEF Calm, stored, Typed
<1>10. CASE Tick \/ KeyAppears \/ (\E i \in {"pin", "owners"} : LosesControl(i)) \/ UNCHANGED vars
  <2>1. KeyAppears \/ UNCHANGED item
    BY <1>10 DEF Tick, LosesControl, stored, vars
  <2>2. item'.owners = item.owners
    BY <2>1, SetApp DEF KeyAppears, Typed, Source
  <2> QED BY <1>3, <1>10, <2>2, OthersAreCalm DEF Calm
<1> QED
  BY <1>2, <1>5, <1>6, <1>7, <1>8, <1>9, <1>10, Steps

\* An approval of keys passes no other stage with the record unread.
LEMMA AskedStays ==
  ASSUME NEW c \in Conn, Typed, Placed, Handling(c), ~ReadRecord(c),
         Op(c) = "attest", work'[c].at \in Asked
  PROVE  work[c].at \in Asked
<1>1. conn[c] = "busy" /\ work[c].at \notin {"lock", "answer", "rest"}
  BY Progress DEF Progresses
<1>2. Fits(work[c].at, "attest")
  BY <1>1 DEF Placed
<1>3. work[c].at \in Asked \cup {"record", "sign"}
  BY <1>1, <1>2 DEF Fits, Stages, OwnerStages, SoulStages, Asked, Imports
<1>4. CASE work[c].at \in {"record", "sign"}
  <2>1. Sign(c) \/ Refused(c)
    BY <1>4 DEF Handling, OwnerStep, SoulStep, At, TakeLock, FindAbsent, ReadPin, ReadRecord,
                ReadSeed, MakeSeed, ReadSeedAgain, Approved, WritePin, PutKey, RaiseRecord,
                DeleteKey, ReadDaemonKey, Spend, ReadCache, ReadKey, Minted, KeepToken, EvictToken
  <2>2. Goes(c, "answer") /\ "answer" \in Stages /\ work[c] \in Work
    BY <2>1 DEF Sign, Refused, Stages, Typed
  <2>3. work'[c].at = "answer"
    BY <2>2, Moved DEF Goes
  <2> QED BY <2>3 DEF Asked
<1> QED BY <1>3, <1>4

\* What an approval was asked about is still stored when it is written.
LEMMA BaseKept ==
  ASSUME Typed, Placed, LockHeld, BaseInv, KnownInv, [Next]_vars
  PROVE  BaseInv'
<1>1. ASSUME NEW c \in Conn, Handling(c) PROVE BaseInv'
  <2>1. Progresses(c) /\ Changes(c)
    BY <1>1, Progress, Keeping
  <2> SUFFICES ASSUME NEW d \in OwnerConn, conn'[d] = "busy", work'[d].req.op = "attest",
                      work'[d].at \in Asked, HasRecord'
               PROVE  work'[d].base = item'.owners
    BY DEF BaseInv, Op
  <2>2. d \in Conn
    BY DEF Conn
  <2>3. CASE d = c
    <3>1. Op(c) = "attest" /\ conn[c] = "busy"
      BY <2>1, <2>3 DEF Progresses, Op
    <3>2. CASE RaiseRecord(c)
      BY <2>3, <3>2, Raises
    <3>3. CASE ReadRecord(c)
      <4>1. item' = item /\ alien' = alien /\ work[c] \in Work /\ item.owners \in Record
            /\ {"seed", "answer"} \subseteq Stages
        BY <3>3, ItemTyped DEF ReadRecord, stored, Typed, Stages, OwnerStages
      <4>2. "owners" \notin alien
        BY <4>1 DEF HasRecord
      <4>3. Moves(c, [work[c] EXCEPT !.base = item.owners], "seed")
        BY <3>3, <4>2 DEF ReadRecord
      <4> DEFINE locals == [work[c] EXCEPT !.base = item.owners]
      <4>4. locals \in Work /\ locals.base = item.owners
        BY <4>1, WorkBase
      <4>5. Moves(c, locals, "seed")
        BY <4>3
      <4> HIDE DEF locals
      <4> QED BY <2>3, <4>1, <4>4, <4>5, Moved
    <3>4. CASE ~RaiseRecord(c) /\ ~ReadRecord(c)
      <4>1. work[c].at \in Asked
        BY <1>1, <2>3, <3>1, <3>4, AskedStays
      <4>2. item'.owners = item.owners /\ work'[c].base = work[c].base
        BY <1>1, <2>1, <3>4, Locals DEF Changes
      <4>3. HasRecord
        BY <2>1, <3>4, <4>2 DEF Changes, HasRecord
      <4> QED BY <2>3, <3>1, <4>1, <4>2, <4>3 DEF BaseInv
    <3> QED BY <3>2, <3>3, <3>4
  <2>4. CASE d # c
    <3>1. work'[d] = work[d] /\ conn[d] = "busy" /\ Op(d) = "attest"
      BY <2>1, <2>2, <2>4 DEF Progresses, Typed, Op
    <3>2. ownerLock = d
      BY <2>4, <3>1 DEF LockHeld, Locks, Asked
    <3>3. ~RaiseRecord(c)
      BY <2>4, <3>2, Raiser
    <3>4. item'.owners = item.owners /\ HasRecord
      BY <2>1, <3>3 DEF Changes, HasRecord
    <3> QED BY <3>1, <3>4 DEF BaseInv
  <2> QED BY <2>3, <2>4
<1>2. ASSUME \A d \in Conn : \/ work'[d] = work[d] /\ (conn'[d] = "busy" <=> conn[d] = "busy")
                             \/ conn'[d] # "busy",
             item'.owners = item.owners, alien \subseteq alien'
      PROVE  BaseInv'
  <2>1. HasRecord' => HasRecord
    BY <1>2 DEF HasRecord
  <2> QED BY <1>2, <2>1 DEF BaseInv, Op, Conn
<1>3. ASSUME Calm, item'.owners = item.owners, alien \subseteq alien' PROVE BaseInv'
  BY <1>2, <1>3 DEF Calm
<1>4. ASSUME NEW c \in Conn, TakeLock(c) PROVE BaseInv'
  <2>1. /\ \A d \in Conn : d # c => work'[d] = work[d]
        /\ work'[c].at = Opening(Op(c)) /\ work'[c].req = work[c].req
        /\ conn' = conn /\ UNCHANGED stored
    BY <1>4 DEF TakeLock, Typed, Work, Quietly, channel
  <2>2. Op(c) = "attest" => work'[c].at \notin Asked
    BY <2>1 DEF Opening, Asked
  <2>3. HasRecord' <=> HasRecord
    BY <2>1 DEF HasRecord, stored
  <2> QED BY <2>1, <2>2, <2>3 DEF BaseInv, Op, Conn, stored
<1>5. ASSUME NEW c \in Conn, Answer(c) PROVE BaseInv'
  <2>1. /\ \A d \in Conn \ {c} : work'[d] = work[d] /\ conn'[d] = conn[d]
        /\ conn'[c] # "busy" /\ UNCHANGED stored
    BY <1>5 DEF Answer, Typed
  <2> QED BY <1>2, <2>1 DEF stored
<1>6. ASSUME NEW c \in Conn, NEW req \in Request, Claim(c, req) PROVE BaseInv'
  <2>1. /\ \A d \in Conn : d # c => work'[d] = work[d] /\ conn'[d] = conn[d]
        /\ work'[c].at = Entry(req.op) /\ work'[c].req = req /\ UNCHANGED stored
    BY <1>6, RestTyped DEF Claim, Typed, Work
  <2>2. req.op = "attest" => work'[c].at \notin Asked
    BY <2>1 DEF Entry, Locks, Asked
  <2>3. HasRecord' <=> HasRecord
    BY <2>1 DEF HasRecord, stored
  <2> QED BY <2>1, <2>2, <2>3 DEF BaseInv, Op, Conn, stored
<1>7. CASE Dies
  <2>1. \A d \in Conn : conn'[d] # "busy"
    BY <1>7 DEF Dies
  <2> QED BY <2>1 DEF BaseInv, Conn
<1>8. ASSUME NEW c \in Conn, ChannelStep(c) PROVE BaseInv'
  BY <1>3, <1>8, ChannelsAreCalm DEF stored, Typed
<1>9. CASE Tick \/ KeyAppears \/ (\E i \in {"pin", "owners"} : LosesControl(i)) \/ UNCHANGED vars
  <2>1. KeyAppears \/ UNCHANGED item
    BY <1>9 DEF Tick, LosesControl, stored, vars
  <2>2. item'.owners = item.owners
    BY <2>1, SetApp DEF KeyAppears, Typed, Source
  <2>3. alien \subseteq alien'
    BY <1>9 DEF Tick, KeyAppears, LosesControl, stored, vars
  <2> QED BY <1>3, <1>9, <2>2, <2>3, OthersAreCalm
<1> QED
  BY <1>1, <1>4, <1>5, <1>6, <1>7, <1>8, <1>9, Steps

-----------------------------------------------------------------------------
(* The pin. *)

PinOps == Imports \cup {"pin"}

\* A request that may write the pin read what is there, and the owner was told.
PinInv ==
  \A c \in OwnerConn :
    conn[c] = "busy" /\ Op(c) \in PinOps /\ work[c].at \in {"ask", "pin"} =>
      /\ StillPinned(c)
      /\ work[c].at = "pin" /\ Op(c) # "pin" => work[c].saw = None

\* Who writes the pin or a key, or deletes one, holds the owner's lock.
LEMMA Writers ==
  ASSUME NEW c \in Conn, Typed, Placed, LockHeld,
         At(c, "pin") \/ At(c, "put") \/ At(c, "delete")
  PROVE  c \in OwnerConn /\ ownerLock = c
<1>1. conn[c] = "busy" /\ work[c].at \in {"pin", "put", "delete"}
  BY DEF At
<1>2. Op(c) \in Imports \cup {"pin", "remove", "app_remove"}
  BY <1>1, Found, WhereFits DEF At
<1>3. c \in OwnerConn /\ Locks(Op(c))
  BY <1>1, <1>2, Asks DEF Imports, Locks
<1> QED BY <1>1, <1>3 DEF LockHeld

\* Only the reading of a pin, its writing and the approval bring a thread to a
\* prompt about it, or past it.
LEMMA AskingStays ==
  ASSUME NEW c \in Conn, Typed, Placed, Handling(c), ~ReadPin(c), ~WritePin(c),
         Op(c) \in PinOps, work'[c].at \in {"ask", "pin"}
  PROVE  Approved(c)
<1>1. conn[c] = "busy" /\ work[c].at \notin {"lock", "answer", "rest"}
  BY Progress DEF Progresses
<1>2. Fits(work[c].at, Op(c))
  BY <1>1 DEF Placed
<1>3. work[c].at \in {"absent", "pinned", "ask", "pin", "put"}
  BY <1>1, <1>2 DEF Fits, Stages, OwnerStages, SoulStages, PinOps, Imports, SeedOps
<1>4. FindAbsent(c) \/ Approved(c) \/ PutKey(c) \/ Refused(c)
  BY <1>3 DEF Handling, OwnerStep, SoulStep, At, TakeLock, FindAbsent, ReadPin, ReadRecord,
              ReadSeed, MakeSeed, ReadSeedAgain, Approved, WritePin, PutKey, RaiseRecord, Sign,
              DeleteKey, ReadDaemonKey, Spend, ReadCache, ReadKey, Minted, KeepToken, EvictToken
<1>5. CASE FindAbsent(c) \/ PutKey(c) \/ Refused(c)
  <2>1. \E stage \in {"pinned", "answer"} : Goes(c, stage)
    BY <1>5 DEF FindAbsent, PutKey, Refused
  <2>2. {"pinned", "answer"} \subseteq Stages /\ work[c] \in Work
    BY DEF Stages, OwnerStages, Typed
  <2>3. work'[c].at \in {"pinned", "answer"}
    BY <2>1, <2>2, Moved DEF Goes
  <2> QED BY <2>3
<1> QED BY <1>4, <1>5

\* The pin that was read is still there when another is written.
LEMMA PinKept ==
  ASSUME Typed, Placed, LockHeld, PinInv, [Next]_vars
  PROVE  PinInv'
<1>1. ASSUME NEW c \in Conn, Handling(c) PROVE PinInv'
  <2>1. Progresses(c) /\ Changes(c)
    BY <1>1, Progress, Keeping
  <2> SUFFICES ASSUME NEW d \in OwnerConn, conn'[d] = "busy", work'[d].req.op \in PinOps,
                      work'[d].at \in {"ask", "pin"}
               PROVE  /\ Pinned' \in {work'[d].saw, None}
                      /\ work'[d].at = "pin" /\ work'[d].req.op # "pin" => work'[d].saw = None
    BY DEF PinInv, Op, StillPinned
  <2>2. d \in Conn
    BY DEF Conn
  <2>3. CASE d = c
    <3>1. Op(c) \in PinOps /\ conn[c] = "busy" /\ work'[d].req.op = Op(c)
      BY <2>1, <2>3 DEF Progresses, Op
    <3>2. work[c] \in Work /\ {"answer", "ask", "pin", "put"} \subseteq Stages
      BY DEF Typed, Stages, OwnerStages
    <3>3. CASE WritePin(c)
      <4>1. "pin" \in alien
        <5> SUFFICES ASSUME "pin" \notin alien PROVE FALSE
          OBVIOUS
        <5>1. \E stage \in {"answer", "put"} : Goes(c, stage)
          BY <3>3 DEF WritePin
        <5>2. work'[c].at \in {"answer", "put"}
          BY <3>2, <5>1, Moved DEF Goes
        <5> QED BY <2>3, <5>2
      <4>2. Goes(c, "pin") /\ item' = [item EXCEPT !.pin = None] /\ alien' = alien \ {"pin"}
        BY <3>3, <4>1 DEF WritePin
      <4>3. work'[c].saw = work[c].saw
        BY <3>2, <4>2, Moved DEF Goes
      <4>4. Pinned' = None
        BY <4>2, SetPin DEF Pinned, Typed
      <4>5. work[c].at = "pin"
        BY <3>3 DEF WritePin, At
      <4> QED BY <2>3, <3>1, <4>3, <4>4, <4>5 DEF PinInv
    <3>4. CASE ReadPin(c)
      <4> DEFINE locals == [work[c] EXCEPT !.saw = Pinned]
      <4>1. locals \in Work /\ locals.saw = Pinned
        BY <3>2, WorkSaw, PinnedTyped
      <4>2. \E stage \in {"answer", "ask"} : Moves(c, locals, stage)
        BY <3>4 DEF ReadPin
      <4> HIDE DEF locals
      <4>3. work'[c].saw = Pinned /\ work'[c].at \in {"answer", "ask"}
        BY <3>2, <4>1, <4>2, Moved
      <4>4. Pinned' = Pinned
        BY <3>4 DEF ReadPin, stored, Pinned
      <4> QED BY <2>3, <4>3, <4>4
    <3>5. CASE ~WritePin(c) /\ ~ReadPin(c)
      <4>1. Approved(c)
        BY <1>1, <2>3, <3>1, <3>5, AskingStays
      <4>2. work[c].at = "ask" /\ UNCHANGED stored
        BY <4>1 DEF Approved, At
      <4>3. Pinned' = Pinned
        BY <4>2 DEF stored, Pinned
      <4>4. (Goes(c, "pin") /\ (Op(c) = "pin" \/ work[c].saw = None)) \/ Goes(c, "put")
        BY <3>1, <4>1 DEF Approved, PinOps, Imports
      <4>5. work'[c].saw = work[c].saw /\ (work'[c].at = "put" \/ Op(c) = "pin" \/ work[c].saw = None)
        BY <3>2, <4>4, Moved DEF Goes
      <4> QED BY <2>3, <3>1, <4>2, <4>3, <4>5 DEF PinInv, StillPinned
    <3> QED BY <3>3, <3>4, <3>5
  <2>4. CASE d # c
    <3>1. work'[d] = work[d] /\ conn[d] = "busy"
      BY <2>1, <2>2, <2>4 DEF Progresses, Typed
    <3>2. ownerLock = d
      BY <3>1 DEF LockHeld, Locks, PinOps, Imports, Op
    <3>3. ~WritePin(c)
      BY <2>4, <3>2, Writers DEF WritePin
    <3>4. Pinned' = Pinned
      BY <2>1, <3>3 DEF Changes, Pinned
    <3> QED BY <3>1, <3>4 DEF PinInv, StillPinned, Op
  <2> QED BY <2>3, <2>4
<1>2. ASSUME \A d \in Conn : \/ work'[d] = work[d] /\ (conn'[d] = "busy" <=> conn[d] = "busy")
                             \/ conn'[d] # "busy"
                             \/ work'[d].at \notin {"ask", "pin"} \/ work'[d].req.op \notin PinOps,
             Pinned' \in {Pinned, None}
      PROVE  PinInv'
  BY <1>2 DEF PinInv, Op, Conn, StillPinned
<1>3. ASSUME NEW c \in Conn, TakeLock(c) PROVE PinInv'
  <2>1. /\ \A d \in Conn : d # c => work'[d] = work[d]
        /\ work'[c].at = Opening(Op(c)) /\ work'[c].req = work[c].req
        /\ conn' = conn /\ UNCHANGED stored
    BY <1>3 DEF TakeLock, Typed, Work, Quietly, channel
  <2>2. Op(c) \in PinOps => work'[c].at \notin {"ask", "pin"}
    BY <2>1 DEF Opening, PinOps, Imports
  <2> QED BY <1>2, <2>1, <2>2 DEF Op, stored, Pinned
<1>4. ASSUME NEW c \in Conn, Answer(c) PROVE PinInv'
  <2>1. /\ \A d \in Conn \ {c} : work'[d] = work[d] /\ conn'[d] = conn[d]
        /\ conn'[c] # "busy" /\ UNCHANGED stored
    BY <1>4 DEF Answer, Typed
  <2> QED BY <1>2, <2>1 DEF stored, Pinned
<1>5. ASSUME NEW c \in Conn, NEW req \in Request, Claim(c, req) PROVE PinInv'
  <2>1. /\ \A d \in Conn : d # c => work'[d] = work[d] /\ conn'[d] = conn[d]
        /\ work'[c].at = Entry(req.op) /\ work'[c].req = req /\ UNCHANGED stored
    BY <1>5, RestTyped DEF Claim, Typed, Work
  <2>2. req.op \in PinOps => work'[c].at \notin {"ask", "pin"}
    BY <2>1 DEF Entry, Locks, PinOps, Imports
  <2> QED BY <1>2, <2>1, <2>2 DEF stored, Pinned
<1>6. CASE Dies
  <2>1. \A d \in Conn : conn'[d] # "busy"
    BY <1>6 DEF Dies
  <2> QED BY <2>1 DEF PinInv, Conn
<1>7. ASSUME NEW c \in Conn, ChannelStep(c) PROVE PinInv'
  BY <1>2, <1>7, ChannelsAreCalm DEF stored, Typed, Calm, Pinned
<1>8. CASE Tick \/ KeyAppears \/ (\E i \in {"pin", "owners"} : LosesControl(i)) \/ UNCHANGED vars
  <2>1. KeyAppears \/ UNCHANGED item
    BY <1>8 DEF Tick, LosesControl, stored, vars
  <2>2. item'.pin = item.pin
    BY <2>1, SetApp DEF KeyAppears, Typed, Source
  <2>3. alien \subseteq alien'
    BY <1>8 DEF Tick, KeyAppears, LosesControl, stored, vars
  <2>4. Pinned' \in {Pinned, None}
    BY <2>2, <2>3 DEF Pinned
  <2> QED BY <1>2, <1>8, <2>4, OthersAreCalm DEF Calm
<1> QED
  BY <1>1, <1>3, <1>4, <1>5, <1>6, <1>7, <1>8, Steps

\* A step that changes an item is the one of its handler.
LEMMA Replaces ==
  ASSUME Typed, Placed, LockHeld, BaseInv, PinInv, [Next]_vars, NEW c \in OwnerConn
  PROVE  /\ At(c, "pin") /\ item'.pin # item.pin =>
              StillPinned(c) /\ (Pinned # None => Op(c) = "pin")
         /\ At(c, "put") /\ Op(c) = "app_import_new" /\ item'.app # item.app => item.app = None
         /\ At(c, "raise") /\ item'.owners # item.owners /\ HasRecord =>
              work[c].base = item.owners
<1>0. c \in Conn
  BY DEF Conn
<1>1. item' = item \/ KeyAppears \/ \E d \in Conn : Handling(d)
  BY Steps, ChannelsAreCalm DEF TakeLock, Quietly, Answer, Claim, Tick, Dies, LosesControl, vars, stored, Typed
<1>2. KeyAppears => item.app = None /\ item'.pin = item.pin /\ item'.owners = item.owners
  BY SetApp DEF KeyAppears, Typed, Source
<1>3. ASSUME At(c, "pin"), item'.pin # item.pin
      PROVE  StillPinned(c) /\ (Pinned # None => Op(c) = "pin")
  <2>1. PICK d \in Conn : WritePin(d)
    BY <1>1, <1>2, <1>3, Keeping DEF Changes
  <2>2. d = c
    BY <1>0, <1>3, <2>1, Writers DEF WritePin
  <2>3. Op(c) \in PinOps /\ conn[c] = "busy" /\ work[c].at = "pin"
    BY <1>0, <1>3, Found, WhereFits DEF PinOps, At
  <2> QED BY <2>3 DEF PinInv, StillPinned
<1>4. ASSUME At(c, "put"), Op(c) = "app_import_new", item'.app # item.app
      PROVE  item.app = None
  <2>1. CASE KeyAppears
    BY <1>2, <2>1
  <2>2. CASE \E d \in Conn : Handling(d)
    <3>1. PICK d \in Conn : PutKey(d) \/ DeleteKey(d)
      BY <1>4, <2>2, Keeping DEF Changes
    <3>2. d = c
      BY <1>0, <1>4, <3>1, Writers DEF PutKey, DeleteKey
    <3>3. PutKey(c)
      BY <1>4, <3>1, <3>2 DEF DeleteKey, At
    <3> QED BY <1>4, <3>3 DEF PutKey
  <2> QED BY <1>1, <1>4, <2>1, <2>2
<1>5. ASSUME At(c, "raise"), item'.owners # item.owners, HasRecord
      PROVE  work[c].base = item.owners
  <2>1. Op(c) = "attest" /\ conn[c] = "busy" /\ work[c].at \in Asked
    BY <1>0, <1>5, Found, WhereFits DEF At, Asked
  <2> QED BY <1>5, <2>1 DEF BaseInv
<1> QED BY <1>3, <1>4, <1>5

-----------------------------------------------------------------------------
(* Grants. *)

\* A clock that was read is not ahead; a spent grant is remembered, or over.
NowInv == \A c \in Conn : work[c].now <= clock

SpentInv == \A g \in Grant : spent[g] > 0 => g \in seen \/ Lifetime[g] <= clock

\* What a step of a handler leaves of the nonces that were spent.
LEMMA SpendKept ==
  ASSUME NEW c \in Conn, Typed, Placed, NowInv, SpentInv, Spend(c), Progresses(c)
  PROVE  /\ SpentInv'
         /\ \A g \in Grant : spent'[g] > spent[g] /\ spent[g] > 0 => Lifetime[g] <= clock
<1>0. clock \in Nat /\ Lifetime \in [Grant -> Nat]
  BY KeydAssumption DEF Typed
<1>1. conn[c] = "busy" /\ work[c].at = "spend" /\ Op(c) = "call" /\ clock' = clock
  BY Found, WhereFitsMore DEF Spend, At, Progresses
<1>2. c \in SoulConn /\ work[c].req.names \in Grant
  BY <1>1, Asks, Calls
<1>3. work[c].now \in Nat /\ work[c].now <= clock
  BY DEF Typed, Work, NowInv
<1>4. PICK g \in Grant : g = work[c].req.names
  BY <1>2
<1>5. ASSUME NEW h \in seen PROVE h \in Keeps(work[c].now) \/ Lifetime[h] <= clock
  BY <1>0, <1>3, <1>5 DEF Keeps, Typed
<1>6. CASE spent' = spent
  <2>1. seen' = seen \/ seen' = Keeps(work[c].now) \/ seen' = Keeps(work[c].now) \cup {g}
    BY <1>4 DEF Spend
  <2>2. SpentInv'
    BY <1>1, <1>5, <1>6, <2>1 DEF SpentInv
  <2>3. \A h \in Grant : ~(spent'[h] > spent[h])
    BY <1>6 DEF Typed
  <2> QED BY <2>2, <2>3
<1>7. CASE spent' # spent
  <2>1. /\ Lifetime[g] > work[c].now /\ g \notin Keeps(work[c].now)
        /\ seen' = Keeps(work[c].now) \cup {g}
        /\ spent' = [spent EXCEPT ![g] = @ + 1]
    BY <1>4, <1>7 DEF Spend
  <2>2. g \notin seen
    BY <2>1 DEF Keeps
  <2>3. g \in seen' /\ \A h \in Grant \ {g} : spent'[h] = spent[h]
    BY <2>1 DEF Typed
  <2>4. \A h \in seen : h \in seen' \/ Lifetime[h] <= clock
    BY <1>5, <2>1
  <2>5. SpentInv'
    BY <1>1, <2>3, <2>4 DEF SpentInv
  <2>6. spent[g] > 0 => Lifetime[g] <= clock
    BY <2>2 DEF SpentInv
  <2>7. \A h \in Grant \ {g} : ~(spent'[h] > spent[h])
    BY <2>3 DEF Typed
  <2> QED BY <2>5, <2>6, <2>7
<1> QED BY <1>6, <1>7

\* Spent grants stay remembered, or over; a grant passes again only once it is
\* over.
LEMMA SpentKept ==
  ASSUME Typed, Placed, NowInv, SpentInv, [Next]_vars
  PROVE  /\ NowInv' /\ SpentInv'
         /\ \A g \in Grant : spent'[g] > spent[g] /\ spent[g] > 0 => Lifetime[g] <= clock
<1> DEFINE Kept ==
      /\ NowInv' /\ SpentInv'
      /\ \A g \in Grant : spent'[g] > spent[g] /\ spent[g] > 0 => Lifetime[g] <= clock
<1>0. clock \in Nat /\ Lifetime \in [Grant -> Nat]
  BY KeydAssumption DEF Typed
<1>1. ASSUME UNCHANGED <<seen, spent>>, clock' \in Nat, clock <= clock',
             \A d \in Conn : work'[d].now \in {work[d].now, clock, 0}
      PROVE  Kept
  <2>1. NowInv'
    <3> SUFFICES ASSUME NEW d \in Conn PROVE work'[d].now <= clock'
      BY DEF NowInv
    <3>1. work[d].now \in Nat /\ work[d].now <= clock
      BY DEF Typed, Work, NowInv
    <3>2. \E now \in Nat : work'[d].now = now /\ now <= clock
      BY <1>0, <1>1, <3>1
    <3> QED BY <1>0, <1>1, <3>2
  <2>2. SpentInv'
    <3> SUFFICES ASSUME NEW g \in Grant, spent[g] > 0 PROVE g \in seen \/ Lifetime[g] <= clock'
      BY <1>1 DEF SpentInv
    <3>1. g \in seen \/ Lifetime[g] <= clock
      BY DEF SpentInv
    <3>2. Lifetime[g] <= clock => Lifetime[g] <= clock'
      BY <1>0, <1>1
    <3> QED BY <3>1, <3>2
  <2>3. \A g \in Grant : spent'[g] = spent[g] /\ spent[g] \in Nat
    BY <1>1 DEF Typed
  <2>4. \A g \in Grant : ~(spent'[g] > spent[g])
    BY <2>3
  <2> QED BY <2>1, <2>2, <2>4
<1>2. ASSUME NEW c \in Conn, Handling(c) PROVE Kept
  <2>1. Progresses(c)
    BY <1>2, Progress
  <2>2. clock' = clock /\ \A d \in Conn : work'[d].now = work[d].now
    BY <2>1 DEF Progresses, Typed
  <2>3. CASE UNCHANGED <<seen, spent>>
    BY <1>0, <1>1, <2>2, <2>3
  <2>4. CASE Spend(c)
    <3>1. NowInv'
      BY <2>2 DEF NowInv
    <3> QED BY <2>1, <2>4, <3>1, SpendKept
  <2> QED BY <1>2, <2>3, <2>4, History
<1>3. ASSUME NEW c \in Conn, TakeLock(c) PROVE Kept
  <2>1. /\ \A d \in Conn : work'[d].now = work[d].now
        /\ clock' = clock /\ UNCHANGED <<seen, spent>>
    BY <1>3 DEF TakeLock, Typed, Work, Quietly
  <2> QED BY <1>0, <1>1, <2>1
<1>4. ASSUME NEW c \in Conn, Answer(c) PROVE Kept
  <2>1. /\ \A d \in Conn \ {c} : work'[d] = work[d]
        /\ work'[c].now = 0
        /\ clock' = clock /\ UNCHANGED <<seen, spent>>
    BY <1>4 DEF Answer, Typed, Rest
  <2> QED BY <1>0, <1>1, <2>1
<1>5. ASSUME NEW c \in Conn, NEW req \in Request, Claim(c, req) PROVE Kept
  <2>1. /\ \A d \in Conn : d # c => work'[d] = work[d]
        /\ work'[c].now = clock
        /\ clock' = clock /\ UNCHANGED <<seen, spent>>
    BY <1>5, RestTyped DEF Claim, Typed, Work
  <2> QED BY <1>0, <1>1, <2>1
<1>6. CASE Dies
  <2>1. /\ \A d \in Conn : work'[d].now = 0
        /\ clock' = clock /\ \A g \in Grant : spent'[g] = 0
    BY <1>6 DEF Dies, Rest
  <2>2. NowInv' /\ SpentInv'
    BY <1>0, <2>1 DEF NowInv, SpentInv
  <2>3. \A g \in Grant : ~(spent'[g] > spent[g])
    BY <2>1 DEF Typed
  <2> QED BY <2>2, <2>3
<1>7. CASE Tick
  <2>1. clock' = clock + 1 /\ UNCHANGED <<work, seen, spent>>
    BY <1>7 DEF Tick, handler
  <2> QED BY <1>0, <1>1, <2>1
<1>8. ASSUME NEW c \in Conn, ChannelStep(c) PROVE Kept
  BY <1>0, <1>1, <1>8, ChannelsAreCalm DEF Typed, Calm
<1>9. CASE KeyAppears \/ (\E i \in {"pin", "owners"} : LosesControl(i)) \/ UNCHANGED vars
  <2>1. clock' = clock
    BY <1>9 DEF KeyAppears, LosesControl, vars
  <2> QED BY <1>0, <1>1, <1>9, <2>1, OthersAreCalm DEF Calm
<1> QED
  BY <1>2, <1>3, <1>4, <1>5, <1>6, <1>7, <1>8, <1>9, Steps

-----------------------------------------------------------------------------
(* The sockets: who has a place. *)

\* A non-empty set of natural numbers has a smallest element.
LEMMA Smallest == ASSUME NEW T, T \subseteq Nat, T # {} PROVE Min(T) \in T
<1> DEFINE R == OpToRel(<, Nat)
<1>1. IsWellFoundedOn(R, Nat)
  BY NatLessThanWellFounded
<1>2. \A x, y \in Nat : <<y, x>> \in R <=> y < x
  BY DEF OpToRel
<1> HIDE DEF R
<1>3. PICK x \in T : \A y \in T : ~ (<<y, x>> \in R)
  BY <1>1, WFMin
<1>4. ASSUME NEW y \in T PROVE x <= y
  <2>1. x \in Nat /\ y \in Nat /\ ~ (y < x)
    BY <1>2, <1>3, <1>4
  <2> QED BY <2>1
<1> QED BY <1>4 DEF Min

\* The list without its n-th connection.
LEMMA Without ==
  ASSUME NEW s \in Seq(Conn), IsInjective(s), NEW n \in 1 .. Len(s)
  PROVE  /\ RemoveAt(s, n) \in Seq(Conn) /\ IsInjective(RemoveAt(s, n))
         /\ ToSet(RemoveAt(s, n)) = ToSet(s) \ {s[n]}
<1> DEFINE u == SubSeq(s, 1, n - 1)
           w == SubSeq(s, n + 1, Len(s))
           r == RemoveAt(s, n)
           at(i) == IF i < n THEN i ELSE i + 1
<1>1. u \in Seq(Conn) /\ Len(u) = n - 1 /\ \A i \in 1 .. (n - 1) : u[i] = s[i]
  BY SubSeqProperties
<1>2. w \in Seq(Conn) /\ Len(w) = Len(s) - n /\ \A i \in 1 .. (Len(s) - n) : w[i] = s[n + i]
  BY SubSeqProperties
<1>3. r = u \o w
  BY DEF RemoveAt
<1> HIDE DEF u, w, r
<1>4. /\ u \o w \in Seq(Conn) /\ Len(u \o w) = Len(u) + Len(w)
      /\ \A i \in 1 .. (Len(u) + Len(w)) : (u \o w)[i] = IF i <= Len(u) THEN u[i] ELSE w[i - Len(u)]
  BY <1>1, <1>2, ConcatProperties
<1>5. r \in Seq(Conn) /\ Len(r) = Len(s) - 1 /\ DOMAIN r = 1 .. Len(r)
  <2>1. Len(s) \in Nat /\ Len(u) + Len(w) = Len(s) - 1
    BY <1>1, <1>2
  <2> QED BY <1>3, <1>4, <2>1
<1>6. ASSUME NEW i \in 1 .. Len(r) PROVE at(i) \in 1 .. Len(s) /\ at(i) # n /\ r[i] = s[at(i)]
  <2>1. r[i] = IF i <= Len(u) THEN u[i] ELSE w[i - Len(u)]
    BY <1>1, <1>2, <1>3, <1>4, <1>5
  <2>2. CASE i < n
    BY <1>1, <1>5, <2>1, <2>2
  <2>3. CASE i >= n
    <3>1. i - (n - 1) \in 1 .. (Len(s) - n) /\ n + (i - (n - 1)) = i + 1
      BY <1>5, <2>3
    <3>2. r[i] = w[i - (n - 1)]
      BY <1>1, <2>1, <2>3
    <3>3. w[i - (n - 1)] = s[n + (i - (n - 1))]
      BY <1>2, <3>1
    <3>4. i \in Int /\ n \in Int /\ ~ (i < n)
      BY <1>5, <2>3
    <3>5. i + 1 \in 1 .. Len(s) /\ i + 1 # n
      BY <1>5, <2>3
    <3> QED BY <3>1, <3>2, <3>3, <3>4, <3>5
  <2> QED BY <2>2, <2>3
<1>7. \A i, j \in 1 .. Len(r) : at(i) = at(j) => i = j
  BY <1>5
<1>8. ASSUME NEW k \in 1 .. Len(s), k # n PROVE \E i \in 1 .. Len(r) : at(i) = k
  <2>1. CASE k < n
    <3>1. k \in 1 .. Len(r) /\ at(k) = k
      BY <1>5, <2>1
    <3> QED BY <3>1
  <2>2. CASE k > n
    <3>1. k - 1 \in 1 .. Len(r) /\ at(k - 1) = k
      BY <1>5, <2>2
    <3> QED BY <3>1
  <2> QED BY <1>8, <2>1, <2>2
<1> HIDE DEF at
<1>9. \A i, j \in 1 .. Len(s) : s[i] = s[j] => i = j
  BY DEF IsInjective
<1>10. IsInjective(r)
  <2>1. \A i, j \in 1 .. Len(r) : r[i] = r[j] => i = j
    BY <1>6, <1>7, <1>9
  <2> QED BY <1>5, <2>1 DEF IsInjective
<1>11. ToSet(r) = ToSet(s) \ {s[n]}
  <2>1. ASSUME NEW i \in 1 .. Len(r) PROVE r[i] \in ToSet(s) /\ r[i] # s[n]
    BY <1>6, <1>9 DEF ToSet
  <2>2. ASSUME NEW k \in 1 .. Len(s), s[k] # s[n] PROVE s[k] \in ToSet(r)
    <3>1. PICK i \in 1 .. Len(r) : at(i) = k
      BY <1>8, <2>2
    <3> QED BY <1>5, <1>6, <3>1 DEF ToSet
  <2>3. ToSet(r) = {r[i] : i \in 1 .. Len(r)} /\ ToSet(s) = {s[k] : k \in 1 .. Len(s)}
    BY <1>5 DEF ToSet
  <2> QED BY <2>1, <2>2, <2>3
<1> QED BY <1>5, <1>10, <1>11 DEF r

\* The list without connection c.
LEMMA Gone ==
  ASSUME NEW s \in Seq(Conn), IsInjective(s), NEW c
  PROVE  /\ RemoveFirst(s, c) \in Seq(Conn) /\ IsInjective(RemoveFirst(s, c))
         /\ ToSet(RemoveFirst(s, c)) = ToSet(s) \ {c}
<1> DEFINE I == {i \in 1 .. Len(s) : s[i] = c}
<1>1. CASE I = {}
  <2>1. RemoveFirst(s, c) = s
    BY <1>1 DEF RemoveFirst
  <2>2. c \notin ToSet(s)
    BY <1>1 DEF ToSet
  <2> QED BY <2>1, <2>2
<1>2. CASE I # {}
  <2>1. Min(I) \in I
    <3> HIDE DEF I
    <3>1. I \subseteq Nat
      BY DEF I
    <3> QED BY <1>2, <3>1, Smallest
  <2>2. RemoveFirst(s, c) = RemoveAt(s, Min(I))
    BY <1>2 DEF RemoveFirst, SelectInSeq
  <2> DEFINE n == Min(I)
  <2>3. n \in 1 .. Len(s) /\ s[n] = c
    BY <2>1
  <2> HIDE DEF n
  <2> QED BY <2>2, <2>3, Without DEF n
<1> QED BY <1>1, <1>2

\* The list with a connection that was not in it.
LEMMA Joined ==
  ASSUME NEW s \in Seq(Conn), IsInjective(s), NEW c \in Conn, c \notin ToSet(s)
  PROVE  /\ Append(s, c) \in Seq(Conn) /\ IsInjective(Append(s, c))
         /\ ToSet(Append(s, c)) = ToSet(s) \cup {c}
<1> DEFINE a == Append(s, c)
<1>0. Len(s) \in Nat /\ DOMAIN s = 1 .. Len(s)
  OBVIOUS
<1>1. /\ a \in Seq(Conn) /\ Len(a) = Len(s) + 1 /\ DOMAIN a = 1 .. Len(a)
      /\ a[Len(s) + 1] = c /\ \A i \in 1 .. Len(s) : a[i] = s[i]
  BY AppendProperties
<1> HIDE DEF a
<1>2. \A i, j \in 1 .. Len(s) : s[i] = s[j] => i = j
  BY <1>0 DEF IsInjective
<1>3. \A i \in 1 .. Len(s) : s[i] # c
  BY <1>0 DEF ToSet
<1>4. \A i \in 1 .. Len(a) : i \in 1 .. Len(s) \/ i = Len(s) + 1
  BY <1>0, <1>1
<1>5. IsInjective(a)
  BY <1>1, <1>2, <1>3, <1>4 DEF IsInjective
<1>6. ToSet(a) = ToSet(s) \cup {c}
  BY <1>0, <1>1, <1>4 DEF ToSet
<1> QED BY <1>1, <1>5, <1>6 DEF a

\* Who has a place on a socket: a list in which each open connection is once, and
\* with it every connection that is being answered.
PlaceInv ==
  /\ registry \in Seq(Conn) /\ IsInjective(registry) /\ IsFiniteSet(ToSet(registry))
  /\ \A c \in ToSet(registry) : conn[c] \in {"open", "busy"}
  /\ \A c \in Conn : conn[c] = "busy" => Registered(c)

\* No socket has more connections than it may.
WithinCapacity ==
  /\ Cardinality(ToSet(registry) \cap SoulConn) <= SoulCapacity
  /\ Cardinality(ToSet(registry) \cap OwnerConn) <= OwnerCapacity

ConnStates == {"new", "open", "busy", "closed", "refused", "lost"}

\* What a step that opens, closes or answers a connection does to the places.
Places(c) ==
  \/ UNCHANGED registry /\ conn[c] = "new" /\ conn' = [conn EXCEPT ![c] = "refused"]
  \/ UNCHANGED registry /\ Registered(c) /\ conn' = [conn EXCEPT ![c] = "busy"]
  \/ /\ registry' = Append(registry, c) /\ ~ Full(c)
     /\ conn[c] = "new" /\ conn' = [conn EXCEPT ![c] = "open"]
  \/ /\ \E i \in 1 .. Len(registry) :
          /\ {c, registry[i]} \subseteq SoulConn /\ conn[registry[i]] # "busy"
          /\ registry' = Append(RemoveAt(registry, i), c)
     /\ conn[c] = "new" /\ conn' = [conn EXCEPT ![c] = "open"]
  \/ /\ registry' = RemoveFirst(registry, c)
     /\ conn' = [conn EXCEPT ![c] = "closed"]
  \/ /\ registry' = Append(RemoveFirst(registry, c), c)
     /\ Registered(c) /\ conn' = [conn EXCEPT ![c] = "open"]

\* Every other step leaves the places alone, or is a death.
LEMMA PlaceSteps ==
  ASSUME Typed, PlaceInv, [Next]_vars
  PROVE  \/ UNCHANGED <<registry, conn>>
         \/ \E c \in Conn : Places(c)
         \/ registry' = <<>> /\ conn' = [c \in Conn |-> IF conn[c] \in {"open", "busy"} THEN "lost" ELSE conn[c]]
<1>1. ASSUME NEW c \in Conn, Handling(c) PROVE UNCHANGED <<registry, conn>>
  <2>1. CASE Quietly
    BY <2>1 DEF Quietly, channel
  <2>2. CASE Spend(c) \/ Sign(c)
    BY <2>2 DEF Spend, Sign, channel
  <2>3. CASE Refused(c) \/ FindAbsent(c) \/ ReadPin(c) \/ ReadRecord(c) \/ ReadSeed(c)
             \/ MakeSeed(c) \/ ReadSeedAgain(c) \/ Approved(c) \/ WritePin(c) \/ PutKey(c)
             \/ RaiseRecord(c) \/ DeleteKey(c)
    BY <2>1, <2>3 DEF Refused, FindAbsent, ReadPin, ReadRecord, ReadSeed, MakeSeed, ReadSeedAgain,
                      Approved, WritePin, PutKey, RaiseRecord, DeleteKey
  <2>4. CASE ReadDaemonKey(c) \/ ReadCache(c) \/ ReadKey(c) \/ Minted(c) \/ KeepToken(c)
             \/ EvictToken(c)
    BY <2>1, <2>4 DEF ReadDaemonKey, ReadCache, ReadKey, Minted, KeepToken, EvictToken
  <2> QED BY <1>1, <2>2, <2>3, <2>4 DEF Handling, OwnerStep, SoulStep
<1>2. ASSUME NEW c \in Conn, TakeLock(c) PROVE UNCHANGED <<registry, conn>>
  BY <1>2 DEF TakeLock, Quietly, channel
<1>3. ASSUME NEW c \in Conn, Answer(c) PROVE Places(c)
  BY <1>3 DEF Answer, Places
<1>4. ASSUME NEW c \in Conn, Connect(c) PROVE Places(c)
  <2>0. conn[c] = "new" /\ c \in Conn /\ conn \in [Conn -> ConnStates]
    BY <1>4 DEF Connect, Typed, ConnStates
  <2>1. CASE ~ Full(c)
    BY <1>4, <2>0, <2>1 DEF Connect, Places
  <2>2. CASE Full(c) /\ Evictable(c) # {}
    <3>1. Evictable(c) \subseteq Nat
      BY DEF Evictable
    <3>2. Min(Evictable(c)) \in Evictable(c)
      BY <2>2, <3>1, Smallest
    <3>3. registry' = Append(RemoveAt(registry, Min(Evictable(c))), c) /\ conn' = [conn EXCEPT ![c] = "open"]
      BY <1>4, <2>2 DEF Connect
    <3> DEFINE i == Min(Evictable(c))
    <3>4. i \in 1 .. Len(registry) /\ {c, registry[i]} \subseteq SoulConn /\ conn[registry[i]] # "busy"
      BY <3>2 DEF Evictable
    <3> HIDE DEF i
    <3> QED BY <2>0, <3>3, <3>4 DEF Places, i
  <2>3. CASE Full(c) /\ ~ (Evictable(c) # {})
    BY <1>4, <2>0, <2>3 DEF Connect, Places
  <2> QED BY <2>1, <2>2, <2>3
<1>5. ASSUME NEW c \in Conn, Closes(c) PROVE Places(c)
  BY <1>5 DEF Closes, Places
<1>6. ASSUME NEW c \in Conn, HangsUp(c) PROVE UNCHANGED <<registry, conn>>
  BY <1>6 DEF HangsUp
<1>7. ASSUME NEW c \in Conn, NEW req \in Request, Claim(c, req) PROVE Places(c)
  BY <1>7 DEF Claim, Places, Typed
<1>8. CASE Tick \/ KeyAppears \/ (\E i \in {"pin", "owners"} : LosesControl(i)) \/ UNCHANGED vars
  BY <1>8 DEF Tick, KeyAppears, LosesControl, vars, channel
<1>9. CASE Dies
  BY <1>9 DEF Dies
<1> QED
  BY <1>1, <1>2, <1>3, <1>4, <1>5, <1>6, <1>7, <1>8, <1>9, Steps DEF ChannelStep

\* Adding to a set and taking from it, as far as a part of it is concerned.
LEMMA Counted ==
  ASSUME NEW R, IsFiniteSet(R), NEW P, NEW x
  PROVE  /\ IsFiniteSet(R \cup {x}) /\ IsFiniteSet(R \ {x})
         /\ Cardinality(R \cap P) \in Nat
         /\ Cardinality((R \ {x}) \cap P) <= Cardinality(R \cap P)
         /\ x \in R \cap P => Cardinality((R \ {x}) \cap P) = Cardinality(R \cap P) - 1
         /\ x \notin P => (R \cup {x}) \cap P = R \cap P
         /\ Cardinality((R \cup {x}) \cap P) <= Cardinality(R \cap P) + 1
<1>1. IsFiniteSet(R \cup {x}) /\ IsFiniteSet(R \ {x})
  BY FS_AddElement, FS_RemoveElement
<1>2. IsFiniteSet(R \cap P)
  BY FS_Subset
<1>3. Cardinality(R \cap P) \in Nat
  BY <1>2, FS_CardinalityType
<1>4. Cardinality((R \cap P) \ {x}) = IF x \in R \cap P THEN Cardinality(R \cap P) - 1 ELSE Cardinality(R \cap P)
  BY <1>2, FS_RemoveElement
<1>5. (R \ {x}) \cap P = (R \cap P) \ {x}
  OBVIOUS
<1>6. Cardinality((R \cap P) \cup {x}) = IF x \in R \cap P THEN Cardinality(R \cap P) ELSE Cardinality(R \cap P) + 1
  BY <1>2, FS_AddElement
<1>7. (R \cup {x}) \cap P = IF x \in P THEN (R \cap P) \cup {x} ELSE R \cap P
  OBVIOUS
<1>8. Cardinality((R \cup {x}) \cap P) <= Cardinality(R \cap P) + 1
  <2> DEFINE n == Cardinality(R \cap P)
             m == Cardinality((R \cup {x}) \cap P)
  <2>1. (R \cup {x}) \cap P \in {(R \cap P) \cup {x}, R \cap P}
    BY <1>7
  <2>2. m = Cardinality((R \cap P) \cup {x}) \/ m = n
    BY <2>1
  <2>3. m = n \/ m = n + 1
    BY <1>6, <2>2
  <2>4. n \in Nat
    BY <1>3
  <2> HIDE DEF n, m
  <2>5. m <= n + 1
    BY <2>3, <2>4
  <2> QED BY <2>5 DEF n, m
<1>9. Cardinality((R \ {x}) \cap P) <= Cardinality(R \cap P)
  BY <1>3, <1>4, <1>5
<1>10. x \in R \cap P => Cardinality((R \ {x}) \cap P) = Cardinality(R \cap P) - 1
  BY <1>4, <1>5
<1> QED BY <1>1, <1>3, <1>7, <1>8, <1>9, <1>10

\* Places, seen as a set, whatever a step does.
LEMMA PlacesKept ==
  ASSUME Typed, PlaceInv, WithinCapacity, NEW c \in Conn, Places(c)
  PROVE  PlaceInv' /\ WithinCapacity'
<1> DEFINE R == ToSet(registry)
<1>0. /\ registry \in Seq(Conn) /\ IsInjective(registry) /\ IsFiniteSet(R) /\ R \subseteq Conn
      /\ conn \in [Conn -> ConnStates]
      /\ \A d \in R : conn[d] \in {"open", "busy"}
      /\ \A d \in Conn : conn[d] = "busy" => d \in R
  BY DEF PlaceInv, Typed, ConnStates, Registered, ToSet
<1>1. SoulCapacity \in Nat /\ OwnerCapacity \in Nat /\ SoulConn \cap OwnerConn = {} /\ Conn = SoulConn \cup OwnerConn
  BY KeydAssumption DEF Conn
<1>2. CASE UNCHANGED registry /\ conn[c] = "new" /\ conn' = [conn EXCEPT ![c] = "refused"]
  <2>1. c \notin R
    BY <1>0, <1>2
  <2> QED BY <1>0, <1>2, <2>1 DEF PlaceInv, WithinCapacity, Registered
<1>3. CASE UNCHANGED registry /\ Registered(c) /\ conn' = [conn EXCEPT ![c] = "busy"]
  BY <1>0, <1>3 DEF PlaceInv, WithinCapacity, Registered
<1>4. CASE registry' = Append(registry, c) /\ ~ Full(c) /\ conn[c] = "new" /\ conn' = [conn EXCEPT ![c] = "open"]
  <2>1. c \notin R
    BY <1>0, <1>4
  <2>2. registry' \in Seq(Conn) /\ IsInjective(registry') /\ ToSet(registry') = R \cup {c}
    BY <1>0, <1>4, <2>1, Joined
  <2> HIDE DEF R
  <2>3. PlaceInv'
    <3>1. IsFiniteSet(R \cup {c})
      BY <1>0, Counted
    <3>2. \A e \in R \cup {c} : conn'[e] \in {"open", "busy"}
      BY <1>0, <1>4
    <3>3. \A e \in Conn : conn'[e] = "busy" => e \in R \cup {c}
      BY <1>0, <1>4
    <3> QED BY <2>2, <3>1, <3>2, <3>3 DEF PlaceInv, Registered
  <2>4. Cardinality(R \cap ChannelOf(c)) \in Nat /\ Cardinality((R \cup {c}) \cap ChannelOf(c)) <= Cardinality(R \cap ChannelOf(c)) + 1
    BY <1>0, Counted
  <2>5. c \notin OwnerConn => (R \cup {c}) \cap OwnerConn = R \cap OwnerConn
    OBVIOUS
  <2>6. c \notin SoulConn => (R \cup {c}) \cap SoulConn = R \cap SoulConn
    OBVIOUS
  <2>7. CASE c \in SoulConn
    <3>1. Cardinality(R \cap SoulConn) < SoulCapacity
      <4>1. ChannelOf(c) = SoulConn /\ ~ (Cardinality(R \cap SoulConn) >= SoulCapacity)
        BY <1>4, <2>7 DEF Full, ChannelOf, R
      <4> QED BY <1>1, <2>4, <4>1
    <3>2. Cardinality((R \cup {c}) \cap SoulConn) <= SoulCapacity
      <4>1. ChannelOf(c) = SoulConn /\ Cardinality((R \cup {c}) \cap SoulConn) \in Nat
        BY <1>0, <2>7, Counted DEF ChannelOf
      <4> QED BY <1>1, <2>4, <3>1, <4>1
    <3>3. c \notin OwnerConn
      BY <1>1, <2>7
    <3> QED BY <2>2, <2>3, <2>5, <3>2, <3>3 DEF WithinCapacity, R
  <2>8. CASE c \notin SoulConn
    <3>1. Cardinality(R \cap OwnerConn) < OwnerCapacity
      <4>1. ChannelOf(c) = OwnerConn /\ ~ (Cardinality(R \cap OwnerConn) >= OwnerCapacity)
        BY <1>4, <2>8 DEF Full, ChannelOf, R
      <4> QED BY <1>1, <2>4, <4>1
    <3>2. Cardinality((R \cup {c}) \cap OwnerConn) <= OwnerCapacity
      <4>1. ChannelOf(c) = OwnerConn /\ Cardinality((R \cup {c}) \cap OwnerConn) \in Nat
        BY <1>0, <2>8, Counted DEF ChannelOf
      <4> QED BY <1>1, <2>4, <3>1, <4>1
    <3> QED BY <2>2, <2>3, <2>6, <2>8, <3>2 DEF WithinCapacity, R
  <2> QED BY <2>7, <2>8
<1>5. ASSUME NEW i \in 1 .. Len(registry), {c, registry[i]} \subseteq SoulConn, conn[registry[i]] # "busy",
             registry' = Append(RemoveAt(registry, i), c),
             conn[c] = "new", conn' = [conn EXCEPT ![c] = "open"]
      PROVE  PlaceInv' /\ WithinCapacity'
  <2> DEFINE d == registry[i]
             s == RemoveAt(registry, i)
  <2>1. s \in Seq(Conn) /\ IsInjective(s) /\ ToSet(s) = R \ {d}
    BY <1>0, Without
  <2>2. d \in R
    BY <1>0 DEF ToSet
  <2>3. c \notin R
    BY <1>0, <1>5
  <2>4. c \in SoulConn /\ d \in SoulConn /\ conn[d] # "busy"
    BY <1>5
  <2>5. registry' = Append(s, c)
    BY <1>5
  <2> HIDE DEF d, s, R
  <2>6. registry' \in Seq(Conn) /\ IsInjective(registry') /\ ToSet(registry') = (R \ {d}) \cup {c}
    BY <1>0, <2>1, <2>3, <2>5, Joined
  <2>7. IsFiniteSet(R \ {d})
    BY <1>0, Counted
  <2>8. IsFiniteSet((R \ {d}) \cup {c})
    BY <2>7, Counted
  <2>9. PlaceInv'
    <3>1. \A e \in (R \ {d}) \cup {c} : conn'[e] \in {"open", "busy"}
      BY <1>0, <1>5
    <3>2. \A e \in Conn : conn'[e] = "busy" => e \in (R \ {d}) \cup {c}
      BY <1>0, <1>5, <2>4
    <3> QED BY <2>6, <2>8, <3>1, <3>2 DEF PlaceInv, Registered
  <2>10. Cardinality(((R \ {d}) \cup {c}) \cap SoulConn) <= SoulCapacity
    <3>1. Cardinality(R \cap SoulConn) \in Nat /\ Cardinality((R \ {d}) \cap SoulConn) = Cardinality(R \cap SoulConn) - 1
      BY <1>0, <2>2, <2>4, Counted
    <3>2. Cardinality(((R \ {d}) \cup {c}) \cap SoulConn) <= Cardinality((R \ {d}) \cap SoulConn) + 1
      BY <2>7, Counted
    <3>3. Cardinality(((R \ {d}) \cup {c}) \cap SoulConn) \in Nat
      BY <2>8, Counted
    <3>4. Cardinality(R \cap SoulConn) <= SoulCapacity
      BY DEF WithinCapacity, R
    <3> QED BY <1>1, <3>1, <3>2, <3>3, <3>4
  <2>11. ((R \ {d}) \cup {c}) \cap OwnerConn = R \cap OwnerConn
    BY <1>1, <2>4
  <2> QED BY <2>6, <2>9, <2>10, <2>11 DEF WithinCapacity, R
<1>6. CASE registry' = RemoveFirst(registry, c) /\ conn' = [conn EXCEPT ![c] = "closed"]
  <2>1. registry' \in Seq(Conn) /\ IsInjective(registry') /\ ToSet(registry') = R \ {c}
    BY <1>0, <1>6, Gone
  <2> HIDE DEF R
  <2>2. IsFiniteSet(R \ {c})
    BY <1>0, Counted
  <2>3. PlaceInv'
    <3>1. \A e \in R \ {c} : conn'[e] \in {"open", "busy"}
      BY <1>0, <1>6
    <3>2. \A e \in Conn : conn'[e] = "busy" => e \in R \ {c}
      BY <1>0, <1>6
    <3> QED BY <2>1, <2>2, <3>1, <3>2 DEF PlaceInv, Registered
  <2>4. ASSUME NEW P, NEW n \in Nat, Cardinality(R \cap P) <= n PROVE Cardinality((R \ {c}) \cap P) <= n
    <3>1. Cardinality(R \cap P) \in Nat /\ Cardinality((R \ {c}) \cap P) <= Cardinality(R \cap P)
      BY <1>0, Counted
    <3>2. Cardinality((R \ {c}) \cap P) \in Nat
      BY <2>2, Counted
    <3> QED BY <2>4, <3>1, <3>2
  <2> QED BY <1>1, <2>1, <2>3, <2>4 DEF WithinCapacity, R
<1>7. CASE registry' = Append(RemoveFirst(registry, c), c) /\ Registered(c) /\ conn' = [conn EXCEPT ![c] = "open"]
  <2> DEFINE s == RemoveFirst(registry, c)
  <2>1. s \in Seq(Conn) /\ IsInjective(s) /\ ToSet(s) = R \ {c}
    BY <1>0, Gone
  <2>2. registry' = Append(s, c) /\ c \in R
    BY <1>7 DEF Registered
  <2> HIDE DEF s, R
  <2>3. registry' \in Seq(Conn) /\ IsInjective(registry') /\ ToSet(registry') = R
    <3>1. c \notin R \ {c} /\ (R \ {c}) \cup {c} = R
      BY <2>2
    <3>2. Append(s, c) \in Seq(Conn) /\ IsInjective(Append(s, c)) /\ ToSet(Append(s, c)) = (R \ {c}) \cup {c}
      BY <2>1, <3>1, Joined
    <3> QED BY <2>2, <3>1, <3>2
  <2>4. \A e \in R : conn'[e] \in {"open", "busy"}
    BY <1>0, <1>7
  <2>5. \A e \in Conn : conn'[e] = "busy" => e \in R
    BY <1>0, <1>7
  <2> QED BY <1>0, <2>3, <2>4, <2>5 DEF PlaceInv, WithinCapacity, Registered, R
<1> QED BY <1>2, <1>3, <1>4, <1>5, <1>6, <1>7 DEF Places

\* An empty list keeps to every capacity.
LEMMA NoPlaces ==
  ASSUME registry = <<>>, \A c \in Conn : conn[c] # "busy"
  PROVE  PlaceInv /\ WithinCapacity
<1>1. ToSet(registry) = {} /\ registry \in Seq(Conn) /\ IsInjective(registry)
  BY DEF ToSet, IsInjective
<1>2. IsFiniteSet({}) /\ Cardinality({}) = 0
  BY FS_EmptySet
<1>3. SoulCapacity \in Nat /\ OwnerCapacity \in Nat
  BY KeydAssumption
<1>4. PlaceInv
  BY <1>1, <1>2 DEF PlaceInv
<1>5. ToSet(registry) \cap SoulConn = {} /\ ToSet(registry) \cap OwnerConn = {}
  BY <1>1
<1>6. WithinCapacity
  <2>1. Cardinality(ToSet(registry) \cap SoulConn) = 0 /\ Cardinality(ToSet(registry) \cap OwnerConn) = 0
    BY <1>2, <1>5
  <2>2. 0 <= SoulCapacity /\ 0 <= OwnerCapacity
    BY <1>3
  <2> QED BY <2>1, <2>2 DEF WithinCapacity
<1> QED BY <1>4, <1>6

\* The bounds and the connections whose client hung up.
LEMMA BoundsKept ==
  ASSUME budget \in [Kinds -> Nat], gone \subseteq Conn, [Next]_vars
  PROVE  budget' \in [Kinds -> Nat] /\ gone' \subseteq Conn
<1>1. ASSUME NEW kind \in Kinds, Spends(kind) PROVE budget' \in [Kinds -> Nat]
  BY <1>1 DEF Spends
<1>2. {"connects", "soul", "owner", "ticks", "deaths", "aliens", "outside", "leaves"} \subseteq Kinds
  BY DEF Kinds
<1>3. ASSUME NEW c \in Conn, Handling(c) PROVE UNCHANGED <<budget, gone>>
  <2>1. CASE Quietly
    BY <2>1 DEF Quietly, channel
  <2>2. CASE Spend(c) \/ Sign(c)
    BY <2>2 DEF Spend, Sign, channel
  <2>3. CASE Refused(c) \/ FindAbsent(c) \/ ReadPin(c) \/ ReadRecord(c) \/ ReadSeed(c)
             \/ MakeSeed(c) \/ ReadSeedAgain(c) \/ Approved(c) \/ WritePin(c) \/ PutKey(c)
             \/ RaiseRecord(c) \/ DeleteKey(c)
    BY <2>1, <2>3 DEF Refused, FindAbsent, ReadPin, ReadRecord, ReadSeed, MakeSeed, ReadSeedAgain,
                      Approved, WritePin, PutKey, RaiseRecord, DeleteKey
  <2>4. CASE ReadDaemonKey(c) \/ ReadCache(c) \/ ReadKey(c) \/ Minted(c) \/ KeepToken(c)
             \/ EvictToken(c)
    BY <2>1, <2>4 DEF ReadDaemonKey, ReadCache, ReadKey, Minted, KeepToken, EvictToken
  <2> QED BY <1>3, <2>2, <2>3, <2>4 DEF Handling, OwnerStep, SoulStep
<1>4. ASSUME NEW c \in Conn, TakeLock(c) \/ Answer(c) PROVE UNCHANGED <<budget, gone>>
  BY <1>4 DEF TakeLock, Answer, Quietly, channel
<1>5. ASSUME NEW c \in Conn, Connect(c) PROVE Spends("connects") /\ UNCHANGED gone
  BY <1>5 DEF Connect
<1>6. ASSUME NEW c \in Conn, Closes(c) PROVE (Spends("leaves") \/ UNCHANGED budget) /\ UNCHANGED gone
  BY <1>6 DEF Closes
<1>7. ASSUME NEW c \in Conn, HangsUp(c) PROVE Spends("leaves") /\ gone' = gone \cup {c}
  BY <1>7 DEF HangsUp
<1>8. ASSUME NEW c \in Conn, NEW req \in Request, Claim(c, req)
      PROVE  (Spends("soul") \/ Spends("owner")) /\ UNCHANGED gone
  BY <1>8 DEF Claim
<1>9. CASE Tick
  BY <1>1, <1>2, <1>9 DEF Tick, channel
<1>10. CASE Dies
  BY <1>1, <1>2, <1>10 DEF Dies
<1>11. CASE KeyAppears
  BY <1>1, <1>2, <1>11 DEF KeyAppears, channel
<1>12. ASSUME NEW i \in {"pin", "owners"}, LosesControl(i) PROVE Spends("aliens") /\ UNCHANGED gone
  BY <1>12 DEF LosesControl, channel
<1>13. CASE UNCHANGED vars
  BY <1>13 DEF vars
<1> QED
  BY <1>1, <1>2, <1>3, <1>4, <1>5, <1>6, <1>7, <1>8, <1>9, <1>10, <1>11, <1>12, <1>13, Steps DEF ChannelStep

\* A request that keyd has begun to act on ends in an answer on a connection that
\* is still open and still counted, unless its client hung up or keyd died.
AnswerIsRead ==
  [][ \A c \in Conn : conn[c] = "busy" /\ conn'[c] # "busy" =>
        \/ conn'[c] = "lost" \/ c \in gone
        \/ conn'[c] = "open" /\ Registered(c)' ]_vars

\* The same of one step and one connection.
LEMMA Reads ==
  ASSUME Typed, Placed, PlaceInv, [Next]_vars, NEW c \in Conn, conn[c] = "busy", conn'[c] # "busy"
  PROVE  \/ conn'[c] = "lost" \/ c \in gone
         \/ conn'[c] = "open" /\ Registered(c)'
<1>1. ASSUME NEW d \in Conn, Handling(d) PROVE FALSE
  BY <1>1, Progress DEF Progresses
<1>2. ASSUME NEW d \in Conn, TakeLock(d) PROVE FALSE
  BY <1>2 DEF TakeLock, Quietly, channel
<1>3. ASSUME NEW d \in Conn, ChannelStep(d) PROVE FALSE
  BY <1>3, ChannelsAreCalm DEF Calm, Typed
<1>4. ASSUME NEW d \in Conn, NEW req \in Request, Claim(d, req) PROVE FALSE
  BY <1>4 DEF Claim, Typed
<1>5. CASE Tick \/ KeyAppears \/ (\E i \in {"pin", "owners"} : LosesControl(i)) \/ UNCHANGED vars
  BY <1>5, OthersAreCalm
<1>6. CASE Dies
  BY <1>6 DEF Dies
<1>7. ASSUME NEW d \in Conn, Answer(d)
      PROVE  c \in gone \/ (conn'[c] = "open" /\ Registered(c)')
  <2>1. d = c
    BY <1>7 DEF Answer, Typed
  <2>2. CASE Registered(c) /\ c \notin gone
    <3>1. conn'[c] = "open" /\ registry' = Append(RemoveFirst(registry, c), c)
      BY <1>7, <2>1, <2>2 DEF Answer, Typed
    <3>2. /\ RemoveFirst(registry, c) \in Seq(Conn) /\ IsInjective(RemoveFirst(registry, c))
          /\ c \notin ToSet(RemoveFirst(registry, c))
      BY Gone DEF PlaceInv
    <3> DEFINE s == RemoveFirst(registry, c)
    <3>3. s \in Seq(Conn) /\ IsInjective(s) /\ c \notin ToSet(s) /\ registry' = Append(s, c)
      BY <3>1, <3>2
    <3> HIDE DEF s
    <3>4. c \in ToSet(registry')
      BY <3>3, Joined
    <3> QED BY <3>1, <3>4 DEF Registered
  <2>3. CASE ~ (Registered(c) /\ c \notin gone)
    <3>1. Registered(c)
      BY DEF PlaceInv
    <3> QED BY <2>3, <3>1
  <2> QED BY <2>2, <2>3
<1> QED
  BY <1>1, <1>2, <1>3, <1>4, <1>5, <1>6, <1>7, Steps

-----------------------------------------------------------------------------
(* The theorems. *)

IInv ==
  /\ Typed /\ Placed /\ LockHeld
  /\ SeedInv /\ OneSeed
  /\ BaseInv /\ KnownInv
  /\ PinInv

\* The parts of the invariant in an initial state.
LEMMA Starting ==
  ASSUME Init
  PROVE  IInv /\ NowInv /\ SpentInv
<1>1. PICK start \in Starts : item = start.items /\ budget = start.budget
  BY DEF Init
<1>2. start.items \in Items
  BY KeydAssumption
<1>3. item.owners.generation = 0 <=> item.owners.digest = None
  BY <1>1, KeydAssumption
<1>4. Typed
  BY <1>1, <1>2, RestTyped DEF Init, Typed
<1>5. \A c \in Conn : conn[c] # "busy" /\ work[c] = Rest
  BY DEF Init
<1>6. Placed /\ LockHeld /\ BaseInv /\ PinInv
  BY <1>5 DEF Placed, LockHeld, BaseInv, PinInv, Conn
<1>7. SeedInv /\ OneSeed
  BY <1>5 DEF SeedInv, OneSeed, Init, Rest
<1>8. KnownInv
  <2>1. Known \subseteq {NoRecord}
    BY <1>5 DEF Known, Init, Rest
  <2>2. item.owners \in Record
    BY <1>4, ItemTyped
  <2>3. NoRecord.digest = None /\ NoRecord.generation = 0 /\ NoRecord.era = 0
    BY DEF NoRecord
  <2>4. item.owners.era \in Nat /\ item.owners.generation \in Nat
    BY <2>2 DEF Record
  <2>5. Upto(NoRecord, item.owners) /\ Agrees(NoRecord, item.owners) /\ Agrees(NoRecord, NoRecord)
    BY <1>3, <2>3, <2>4 DEF Upto, Agrees
  <2> QED BY <1>3, <2>1, <2>3, <2>5 DEF KnownInv, Knows
<1>9. NowInv /\ SpentInv
  BY <1>5 DEF NowInv, SpentInv, Init, Rest
<1> QED BY <1>4, <1>6, <1>7, <1>8, <1>9 DEF IInv

\* The parts of the invariant after a step.
LEMMA Going ==
  ASSUME IInv, [Next]_vars
  PROVE  IInv'
<1>1. Typed' /\ Placed' /\ LockHeld'
  BY TypedKept, PlacedKept, LockKept DEF IInv
<1> QED BY <1>1, SeedKept, BaseKept, KnownKept, PinKept DEF IInv

SocketInv == PlaceInv /\ WithinCapacity /\ budget \in [Kinds -> Nat] /\ gone \subseteq Conn

\* No connections, to start with.
LEMMA SocketStarting == Init => SocketInv
<1> SUFFICES ASSUME Init PROVE SocketInv
  OBVIOUS
<1>1. PICK start \in Starts : item = start.items /\ budget = start.budget
  BY DEF Init
<1>2. budget \in [Kinds -> Nat]
  BY <1>1, KeydAssumption
<1>3. PlaceInv /\ WithinCapacity
  <2>1. registry = <<>> /\ \A c \in Conn : conn[c] # "busy"
    BY DEF Init
  <2> QED BY <2>1, NoPlaces
<1>4. gone = {}
  BY DEF Init
<1> QED BY <1>2, <1>3, <1>4 DEF SocketInv

\* The part about the sockets after a step.
LEMMA SocketGoing == ASSUME IInv, SocketInv, [Next]_vars PROVE SocketInv'
<1>1. budget' \in [Kinds -> Nat] /\ gone' \subseteq Conn
  BY BoundsKept DEF SocketInv
<1>2. Typed /\ PlaceInv /\ WithinCapacity
  BY DEF IInv, SocketInv
<1>3. CASE UNCHANGED <<registry, conn>>
  <2>1. PlaceInv' /\ WithinCapacity'
    BY <1>2, <1>3 DEF PlaceInv, WithinCapacity, Registered
  <2> QED BY <1>1, <2>1 DEF SocketInv
<1>4. CASE \E c \in Conn : Places(c)
  BY <1>1, <1>2, <1>4, PlacesKept DEF SocketInv
<1>5. CASE registry' = <<>> /\ conn' = [c \in Conn |-> IF conn[c] \in {"open", "busy"} THEN "lost" ELSE conn[c]]
  <2>1. \A c \in Conn : conn'[c] # "busy"
    BY <1>5
  <2>2. ToSet(registry') = {} /\ registry' \in Seq(Conn) /\ IsInjective(registry')
    BY <1>5 DEF ToSet, IsInjective
  <2>3. IsFiniteSet({}) /\ Cardinality({}) = 0 /\ SoulCapacity \in Nat /\ OwnerCapacity \in Nat
    BY FS_EmptySet, KeydAssumption
  <2>4. PlaceInv'
    BY <2>1, <2>2, <2>3 DEF PlaceInv
  <2>5. WithinCapacity'
    <3>1. Cardinality(ToSet(registry') \cap SoulConn) = 0 /\ Cardinality(ToSet(registry') \cap OwnerConn) = 0
      BY <2>2, <2>3
    <3>2. 0 <= SoulCapacity /\ 0 <= OwnerCapacity
      BY <2>3
    <3> QED BY <3>1, <3>2 DEF WithinCapacity
  <2> QED BY <1>1, <2>4, <2>5 DEF SocketInv
<1> QED BY <1>2, <1>3, <1>4, <1>5, PlaceSteps

\* All parts of the invariant hold together in every reachable state: what threads,
\* Keychain, pins, seeds and grants say of each other at every stage of a request
\* (server.rs, serve_message, with store.rs and grant.rs under it), and who has a
\* place on the sockets (server.rs, accept and Slot).
THEOREM Invariant == Spec => [](IInv /\ SocketInv)
<1>1. Init => IInv /\ SocketInv
  BY Starting, SocketStarting
<1>2. IInv /\ SocketInv /\ [Next]_vars => (IInv /\ SocketInv)'
  BY Going, SocketGoing
<1> QED BY <1>1, <1>2, PTL DEF Spec

\* The Keychain, the threads, the sockets and histories keep their types, and
\* every thread is at a stage that its request comes to (server.rs, serve_message).
THEOREM TypeCorrect == Spec => [](TypeOK /\ Placed)
<1>1. IInv /\ SocketInv => TypeOK /\ Placed
  BY DEF IInv, SocketInv, PlaceInv, Typed, TypeOK
<1> QED BY <1>1, Invariant, PTL

\* No socket has more connections than its capacity, each once, and a connection
\* whose request is being answered keeps its place, for any number of newcomers
\* that make room for themselves (server.rs, accept, evict_idle and Slot::claim).
THEOREM SocketsHold == Spec => [](PlaceInv /\ WithinCapacity)
<1>1. SocketInv => PlaceInv /\ WithinCapacity
  BY DEF SocketInv
<1> QED BY <1>1, Invariant, PTL

\* An answer goes to a connection that is still there to read it: the part of
\* ClaimedIsAnswered that needs no fairness (server.rs, serve_connection: "busy
\* only from a whole message until its answer is written").
THEOREM AnswersAreRead == Spec => AnswerIsRead
<1>1. IInv /\ SocketInv /\ [Next]_vars =>
        [ \A c \in Conn : conn[c] = "busy" /\ conn'[c] # "busy" =>
            \/ conn'[c] = "lost" \/ c \in gone
            \/ conn'[c] = "open" /\ Registered(c)' ]_vars
  BY Reads DEF IInv, SocketInv
<1> QED BY <1>1, Invariant, PTL DEF Spec, AnswerIsRead

\* A seed that was answered with is the one that is stored, for any number of
\* first uses that race, deaths and prompts (store.rs, `seed`).
THEOREM SeedsAreOne == Spec => []OneSeed
<1>1. IInv => OneSeed
  BY DEF IInv
<1> QED BY <1>1, Invariant, PTL

\* Two attestations of one generation name the same keys, however many requests
\* interleave with an approval (server.rs, owner_pins_attest).
THEOREM AttestationsAgreeAlways == Spec => []AttestationsAgree
<1>1. IInv => AttestationsAgree
  BY DEF IInv, KnownInv, Knows, Known, Agrees, AttestationsAgree
<1> QED BY <1>1, Invariant, PTL

\* An approval replaces what the owner was asked about, for any number of
\* requests of hers at once (server.rs: owner_import, owner_app_import,
\* owner_pin, owner_pins_attest).
THEOREM ApprovalsReplaceWhatWasAsked == Spec => ReplacesWhatWasAsked
<1>1. IInv /\ [Next]_vars =>
        [ \A c \in OwnerConn :
            /\ At(c, "pin") /\ item'.pin # item.pin =>
                 StillPinned(c) /\ (Pinned # None => Op(c) = "pin")
            /\ At(c, "put") /\ Op(c) = "app_import_new" /\ item'.app # item.app => item.app = None
            /\ At(c, "raise") /\ item'.owners # item.owners /\ HasRecord =>
                 work[c].base = item.owners ]_vars
  BY Replaces DEF IInv
<1> QED BY <1>1, Invariant, PTL DEF Spec, ReplacesWhatWasAsked

\* While a grant is alive it passes once, however many calls spend, forget and
\* wait between any two of their steps: no assumption on how long a call takes
\* (grant.rs, Replay; server.rs, call_tool).
THEOREM SpendsOnceWhileAlive == Spec => OnceWhileAlive
<1> DEFINE Inv == NowInv /\ SpentInv
<1>1. Init => Inv
  BY Starting
<1>2. IInv /\ Inv /\ [Next]_vars => Inv'
  BY SpentKept DEF IInv
<1>3. IInv /\ Inv /\ [Next]_vars =>
        [\A g \in Grant : spent'[g] > spent[g] /\ spent[g] > 0 => Lifetime[g] <= clock]_vars
  BY SpentKept DEF IInv
<1> HIDE DEF Inv
<1> QED BY <1>1, <1>2, <1>3, Invariant, PTL DEF Spec, OnceWhileAlive
=============================================================================
