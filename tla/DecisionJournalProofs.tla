------------------------ MODULE DecisionJournalProofs -------------------------
(***************************************************************************)
(* Proofs about DecisionJournal, for any requests, stores, pairs of keys,  *)
(* versions and faults.                                                    *)
(*                                                                         *)
(* Phases are read off the slots, so that most of the argument is about    *)
(* the order in which slots are written (Ordered), and about what a caller *)
(* between two of its steps may still rely on (Placed, Apart).  An         *)
(* operation that only publishes (Publishes) disturbs no other caller,     *)
(* since it takes the lock that a verified entry holds.                    *)
(***************************************************************************)
EXTENDS DecisionJournal, TLAPS

SlotMaps == [Request -> [Slots -> SlotState]]
SavedMaps == [Request -> [op : Op, want : {"on", "off"}, seen : {"on", "off"},
                          version : Nat, keys : Pair \cup {NoPin}]]
RunStates == {Idle} \cup [at : {"read", "verified", "entered", "acted", "ceremony"}, req : Request]

\* Slots are written one after the other, and an entry only over a check
\* and no refusal.
SlotsOrdered(r) ==
    /\ dir[r] # "whole" => \A s \in Slots : Empty(r, s)
    /\ ~Committed(r, "preparation") => \A s \in Slots \ {"preparation"} : Empty(r, s)
    /\ ~Committed(r, "challenge") =>
         \A s \in {"presence", "receipt", "check", "entered"} : Empty(r, s)
    /\ ~Committed(r, "presence") => \A s \in {"receipt", "check", "entered"} : Empty(r, s)
    /\ ~Committed(r, "receipt") => \A s \in {"check", "entered"} : Empty(r, s)
    /\ ~Committed(r, "check") => Empty(r, "entered")
    /\ ~Empty(r, "refused") => Empty(r, "entered")
    /\ ~Committed(r, "entered") => \A s \in {"linked", "completed"} : Empty(r, s)
    /\ ~Uncertain(r) => Empty(r, "observation")
    /\ ~Empty(r, "terminal") => Committed(r, "refused") \/ Committed(r, "entered")

Ordered == \A r \in Request : SlotsOrdered(r)

\* Effects are carried out after an entry, and completed after the effect.
ToldOf(r) ==
    /\ ran[r] \in {0, 1}
    /\ ~Committed(r, "entered") => ran[r] = 0
    /\ ~Empty(r, "completed") => ran[r] = 1
    /\ r \in events => ran[r] = 1

Told == \A r \in Request : ToldOf(r)

\* Callers that hold the population lock for a setting.
Holding(i) ==
  run[i].at \in {"read", "verified", "entered", "acted"} /\ saved[run[i].req].op = "setting"

\* A caller's request is as far as the caller has it.
PlacedAt(i, r) ==
  /\ dir[r] = "whole"
  /\ run[i].at = "verified" => Phase(r) = "released"
  /\ run[i].at = "entered" => Committed(r, "entered") /\ ran[r] = 0
  /\ run[i].at = "acted" => Committed(r, "entered") /\ ran[r] = 1
  /\ run[i].at \in {"verified", "entered"} /\ Holding(i) => census = saved[r].seen

Placed ==
  \A i \in Store, r \in Request : run[i] # Idle /\ run[i].req = r => PlacedAt(i, r)

\* One caller has an effect in hand, one is verified, one holds the census.
Apart ==
  \A i, k \in Store : i # k =>
    /\ run[i].at \in {"entered", "acted"} /\ run[k].at \in {"entered", "acted"} =>
         run[i].req # run[k].req
    /\ ~(run[i].at = "verified" /\ run[k].at = "verified")
    /\ ~(Holding(i) /\ Holding(k))

\* A version is granted once.
Trusted ==
  /\ pin # NoPin => pin.version \in used
  /\ \A r \in Request : saved[r].version \in used \cup {0}
  /\ pin # NoPin => \A r \in Request : saved[r].version = pin.version => r \in steady

Inv == TypeOK /\ Ordered /\ Told /\ Placed /\ Apart /\ Trusted

-----------------------------------------------------------------------------
(* Reading a request. *)

\* A whole request without torn slots is empty or committed in each of them.
LEMMA SlotFacts ==
  ASSUME TypeOK, NEW r \in Request
  PROVE  /\ \A s \in Slots : slot[r][s] \in SlotState
         /\ ~Torn(r) => \A s \in Slots : Empty(r, s) \/ Committed(r, s)
         /\ dir[r] \in {"absent", "orphan", "whole"}
BY DEF TypeOK, Torn, Empty, Committed, SlotState

\* What a phase before the effect says of the slots.
LEMMA EarlyPhase ==
  ASSUME TypeOK, Ordered, NEW r \in Request,
         Phase(r) \in {"admitted", "preparing", "prepared", "authorizing", "released"}
  PROVE  /\ dir[r] = "whole" /\ ~Torn(r) /\ ~Uncertain(r)
         /\ \A s \in {"refused", "entered", "linked", "completed", "observation", "terminal"} : Empty(r, s)
         /\ Phase(r) = "admitted" => Empty(r, "preparation")
         /\ Phase(r) = "preparing" => Committed(r, "preparation") /\ Empty(r, "challenge")
         /\ Phase(r) = "prepared" =>
              /\ Committed(r, "preparation") /\ Committed(r, "challenge")
              /\ \A s \in {"presence", "receipt", "check"} : Empty(r, s)
         /\ Phase(r) = "authorizing" =>
              /\ Committed(r, "preparation") /\ Committed(r, "challenge") /\ Committed(r, "presence")
              /\ Empty(r, "check")
         /\ Phase(r) = "released" =>
              \A s \in {"preparation", "challenge", "presence", "receipt", "check"} : Committed(r, s)
<1>1. dir[r] = "whole" /\ ~Uncertain(r) /\ PreEffect(r) = Phase(r)
  BY SlotFacts DEF Phase
<1>2. ~Torn(r) /\ ~Committed(r, "refused")
  BY <1>1 DEF PreEffect
<1>3. \A s \in Slots : Empty(r, s) \/ Committed(r, s)
  BY <1>2, SlotFacts
<1>4. Empty(r, "refused") /\ Empty(r, "entered")
  BY <1>1, <1>2, <1>3 DEF Uncertain, Slots, Committed, Empty
<1>5. \A s \in {"linked", "completed", "observation", "terminal"} : Empty(r, s)
  BY <1>1, <1>4 DEF Ordered, SlotsOrdered, Committed, Empty
<1>6. /\ Phase(r) = "admitted" => ~Committed(r, "preparation")
      /\ Phase(r) = "preparing" => Committed(r, "preparation") /\ ~Committed(r, "challenge")
      /\ Phase(r) = "prepared" => /\ Committed(r, "challenge") /\ ~Committed(r, "presence")
                                  /\ ~Committed(r, "receipt") /\ ~Committed(r, "check")
      /\ Phase(r) = "authorizing" => /\ Committed(r, "presence") \/ Committed(r, "receipt")
                                     /\ ~Committed(r, "check")
      /\ Phase(r) = "released" => Committed(r, "check")
  BY <1>1 DEF PreEffect
<1>7. Phase(r) = "admitted" => Empty(r, "preparation")
  BY <1>3, <1>6 DEF Slots
<1>8. Phase(r) = "preparing" => Committed(r, "preparation") /\ Empty(r, "challenge")
  BY <1>3, <1>6 DEF Slots
<1>9. Phase(r) = "prepared" =>
        /\ Committed(r, "preparation") /\ Committed(r, "challenge")
        /\ \A s \in {"presence", "receipt", "check"} : Empty(r, s)
  BY <1>3, <1>6 DEF Slots, Ordered, SlotsOrdered, Empty, Committed
<1>10. Phase(r) = "authorizing" =>
        /\ Committed(r, "preparation") /\ Committed(r, "challenge") /\ Committed(r, "presence")
        /\ Empty(r, "check")
  BY <1>3, <1>6 DEF Slots, Ordered, SlotsOrdered, Empty, Committed
<1>11. Phase(r) = "released" =>
        \A s \in {"preparation", "challenge", "presence", "receipt", "check"} : Committed(r, s)
  BY <1>6 DEF Slots, Ordered, SlotsOrdered, Empty, Committed
<1> QED BY <1>1, <1>2, <1>4, <1>5, <1>7, <1>8, <1>9, <1>10, <1>11

\* The phases that end a request.
LEMMA LatePhase ==
  ASSUME TypeOK, Ordered, NEW r \in Request
  PROVE  /\ Phase(r) = "refused" <=>
              dir[r] = "whole" /\ ~Torn(r) /\ Committed(r, "refused")
         /\ Phase(r) \in {"applied", "indeterminate"} <=> dir[r] = "whole" /\ Uncertain(r)
         /\ Phase(r) = "applied" <=> dir[r] = "whole" /\ Uncertain(r) /\ Validates(r)
<1>1. Committed(r, "refused") => ~Uncertain(r)
  BY DEF Ordered, SlotsOrdered, Committed, Empty, Uncertain
<1>2. CASE dir[r] # "whole"
  BY <1>2, SlotFacts DEF Phase
<1>3. CASE dir[r] = "whole" /\ Uncertain(r)
  BY <1>1, <1>3 DEF Phase
<1>4. CASE dir[r] = "whole" /\ ~Uncertain(r)
  <2>1. Phase(r) = PreEffect(r)
    BY <1>4 DEF Phase
  <2>2. /\ PreEffect(r) = "refused" <=> ~Torn(r) /\ Committed(r, "refused")
        /\ PreEffect(r) \notin {"applied", "indeterminate"}
    BY DEF PreEffect
  <2> QED BY <1>4, <2>1, <2>2
<1> QED BY <1>2, <1>3, <1>4

-----------------------------------------------------------------------------
(* Writing. *)

\* Only slots S of r are written.
Touches(r, S) ==
  /\ slot' \in SlotMaps
  /\ \A q \in Request \ {r} : slot'[q] = slot[q]
  /\ \A s \in Slots \ S : slot'[r][s] = slot[r][s]

Rest == poisoned' \subseteq Store /\ faults' \in 0 .. MaxFaults

\* What an operation that publishes one slot does, whether it ends or is interrupted.
LEMMA WritesOne ==
  ASSUME TypeOK, NEW i \in Store, NEW r \in Request, NEW a \in Slots, NEW next,
         Writes(i, r, One(slot[r], a), next)
  PROVE  /\ LockFree(i) /\ Touches(r, {a}) /\ Rest
         /\ \/ run' = [run EXCEPT ![i] = Idle]
            \/ run' = [run EXCEPT ![i] = next] /\ slot'[r][a] = "committed"
<1>1. PICK w \in One(slot[r], a) :
        /\ slot' = [slot EXCEPT ![r] = w.slots]
        /\ run' = [run EXCEPT ![i] = IF w.ok THEN next ELSE Idle]
        /\ poisoned' = IF w.ok THEN poisoned ELSE poisoned \cup {i}
        /\ IF w.ok THEN UNCHANGED faults ELSE faults < MaxFaults /\ faults' = faults + 1
  BY DEF Writes
<1>2. PICK x \in SlotState : w.slots = [slot[r] EXCEPT ![a] = x] /\ (w.ok => x = "committed")
  BY DEF One, SlotState
<1>3. Touches(r, {a}) /\ slot'[r][a] = x
  BY <1>1, <1>2 DEF Touches, SlotMaps, TypeOK
<1>4. Rest
  BY <1>1, JournalBounds DEF Rest, TypeOK
<1>5. LockFree(i)
  BY DEF Writes
<1>6. CASE w.ok
  BY <1>1, <1>2, <1>3, <1>4, <1>5, <1>6
<1>7. CASE ~w.ok
  BY <1>1, <1>3, <1>4, <1>5, <1>7
<1> QED BY <1>6, <1>7

\* The same of two slots: the second is only written over the first.
LEMMA WritesTwo ==
  ASSUME TypeOK, NEW i \in Store, NEW r \in Request, NEW a \in Slots, NEW b \in Slots, a # b,
         Writes(i, r, Two(slot[r], a, b), Idle)
  PROVE  /\ LockFree(i) /\ Touches(r, {a, b}) /\ Rest
         /\ slot'[r][a] = "committed" \/ slot'[r][b] = slot[r][b]
         /\ run' = [run EXCEPT ![i] = Idle]
<1>1. PICK w \in Two(slot[r], a, b) :
        /\ slot' = [slot EXCEPT ![r] = w.slots]
        /\ run' = [run EXCEPT ![i] = IF w.ok THEN Idle ELSE Idle]
        /\ poisoned' = IF w.ok THEN poisoned ELSE poisoned \cup {i}
        /\ IF w.ok THEN UNCHANGED faults ELSE faults < MaxFaults /\ faults' = faults + 1
  BY DEF Writes
<1>2. PICK x \in SlotState, y \in SlotState :
        /\ w.slots = [slot[r] EXCEPT ![a] = x, ![b] = y]
        /\ x = "committed" \/ y = slot[r][b]
  <2>0. slot[r] \in [Slots -> SlotState]
    BY DEF TypeOK
  <2>1. CASE w \in One(slot[r], a) /\ ~w.ok
    <3>1. PICK x \in SlotState : w.slots = [slot[r] EXCEPT ![a] = x]
      BY <2>1 DEF One, SlotState
    <3>2. w.slots = [slot[r] EXCEPT ![a] = x, ![b] = slot[r][b]] /\ slot[r][b] \in SlotState
      BY <2>0, <3>1
    <3> QED BY <2>1, <3>2
  <2>2. CASE w \in One([slot[r] EXCEPT ![a] = "committed"], b)
    <3>1. PICK y \in SlotState : w.slots = [[slot[r] EXCEPT ![a] = "committed"] EXCEPT ![b] = y]
      BY <2>2 DEF One, SlotState
    <3>2. PICK x \in SlotState : x = "committed"
      BY DEF SlotState
    <3>3. w.slots = [slot[r] EXCEPT ![a] = x, ![b] = y]
      BY <2>0, <3>1, <3>2
    <3> QED BY <3>2, <3>3
  <2> QED BY <2>1, <2>2 DEF Two
<1>3. Touches(r, {a, b}) /\ slot'[r][a] = x /\ slot'[r][b] = y
  <2>1. slot \in SlotMaps /\ slot' = [slot EXCEPT ![r] = [slot[r] EXCEPT ![a] = x, ![b] = y]]
    BY <1>1, <1>2 DEF SlotMaps, TypeOK
  <2> QED BY <2>1 DEF Touches, SlotMaps
<1>4. Rest
  BY <1>1, JournalBounds DEF Rest, TypeOK
<1>5. run' = [run EXCEPT ![i] = Idle]
  BY <1>1
<1> QED BY <1>2, <1>3, <1>4, <1>5 DEF Writes

\* A write to some slots of r leaves its others, and other requests, alone.
LEMMA Untouched ==
  ASSUME TypeOK, NEW r \in Request, NEW S, Touches(r, S)
  PROVE  /\ \A s \in Slots \ S : (Empty(r, s)' <=> Empty(r, s)) /\ (Committed(r, s)' <=> Committed(r, s))
         /\ "entered" \notin S => (Uncertain(r)' <=> Uncertain(r))
         /\ \A q \in Request \ {r} : slot'[q] = slot[q]
<1>1. \A s \in Slots \ S : (Empty(r, s)' <=> Empty(r, s)) /\ (Committed(r, s)' <=> Committed(r, s))
  BY DEF Touches, Empty, Committed
<1>2. "entered" \notin S => (Uncertain(r)' <=> Uncertain(r))
  BY DEF Touches, Uncertain, Slots
<1> QED BY <1>1, <1>2 DEF Touches

\* What a request's slots alone say is kept with them.
LEMMA SameRequest ==
  ASSUME NEW r \in Request, dir'[r] = dir[r], slot'[r] = slot[r]
  PROVE  /\ SlotsOrdered(r) => SlotsOrdered(r)'
         /\ \A s \in Slots : (Empty(r, s)' <=> Empty(r, s)) /\ (Committed(r, s)' <=> Committed(r, s))
<1>1. \A s : (Empty(r, s)' <=> Empty(r, s)) /\ (Committed(r, s)' <=> Committed(r, s))
  BY DEF Empty, Committed
<1>2. Uncertain(r)' <=> Uncertain(r)
  BY DEF Uncertain
<1> QED BY <1>1, <1>2 DEF SlotsOrdered

\* A phase is a function of the request.
LEMMA SamePhase ==
  ASSUME NEW r \in Request, UNCHANGED requestVars
  PROVE  Phase(r)' = Phase(r)
<1>1. \A s : (Empty(r, s)' <=> Empty(r, s)) /\ (Committed(r, s)' <=> Committed(r, s))
  BY DEF Empty, Committed, requestVars
<1>2. (Uncertain(r)' <=> Uncertain(r)) /\ (Torn(r)' <=> Torn(r))
  BY DEF Uncertain, Torn, requestVars
<1>3. Validates(r)' <=> Validates(r)
  BY <1>1, <1>2 DEF Validates, EnteredPrefix, requestVars
<1>4. PreEffect(r)' = PreEffect(r)
  BY <1>1, <1>2 DEF PreEffect
<1> QED BY <1>2, <1>3, <1>4 DEF Phase, requestVars

\* The other callers, when one of them moves on and no operation is renamed.
LEMMA Others ==
  ASSUME TypeOK, NEW i \in Store, NEW x, run' = [run EXCEPT ![i] = x],
         \A q \in Request : saved'[q].op = saved[q].op
  PROVE  /\ run'[i] = x
         /\ \A k \in Store \ {i} : run'[k] = run[k] /\ (Holding(k)' <=> Holding(k))
<1>1. run'[i] = x /\ \A k \in Store \ {i} : run'[k] = run[k]
  BY DEF TypeOK
<1>2. \A k \in Store : run[k].at \in {"read", "verified", "entered", "acted"} => run[k].req \in Request
  BY DEF TypeOK, Idle
<1> QED BY <1>1, <1>2 DEF Holding

\* The census is held when some caller holds it.
LEMMA CensusHolders ==
  CensusHeld <=> \E i \in Store : Holding(i)
BY DEF CensusHeld, Holding

\* What a caller's place says of its request.
LEMMA CallerFacts ==
  ASSUME TypeOK, NEW i \in Store, run[i] # Idle
  PROVE  /\ run[i].req \in Request
         /\ run[i].at \in {"read", "verified", "entered", "acted", "ceremony"}
         /\ run[i] = At(run[i].at, run[i].req)
BY DEF TypeOK, At

-----------------------------------------------------------------------------
(* Publications: operations that write slots, but for the entry.           *)

\* The caller is done, and no effect is carried out; what a request's
\* owner saw is only written into one that has no preparation yet.
Publishes(i, r, S) ==
  /\ LockFree(i)
  /\ Touches(r, S)
  /\ Rest
  /\ run' = [run EXCEPT ![i] = Idle]
  /\ UNCHANGED <<trustVars, dir, effectVars>>
  /\ saved' \in SavedMaps
  /\ steady' \subseteq Request
  /\ \A q \in Request : /\ saved'[q].op = saved[q].op
                        /\ saved'[q].seen = saved[q].seen \/ Phase(q) = "admitted"

\* A publication leaves every other caller where it was.
LEMMA PublishKeeps ==
  ASSUME Inv, NEW i \in Store, NEW r \in Request, NEW S, "entered" \notin S,
         Publishes(i, r, S)
  PROVE  TypeOK' /\ Placed' /\ Apart'
<1>1. TypeOK'
  BY DEF Publishes, Rest, Touches, SlotMaps, SavedMaps, Inv, TypeOK, trustVars, effectVars
<1>2. run'[i] = Idle /\ \A k \in Store \ {i} : run'[k] = run[k] /\ (Holding(k)' <=> Holding(k))
  BY Others DEF Publishes, Inv
<1>3. \A q \in Request : Committed(q, "entered") => Committed(q, "entered")' /\ saved'[q].seen = saved[q].seen
  <2> SUFFICES ASSUME NEW q \in Request, Committed(q, "entered")
               PROVE  Committed(q, "entered")' /\ saved'[q].seen = saved[q].seen
    OBVIOUS
  <2>1. Phase(q) # "admitted"
    BY EarlyPhase DEF Inv, Empty, Committed
  <2>2. slot'[q]["entered"] = slot[q]["entered"]
    BY DEF Publishes, Touches, Slots
  <2> QED BY <2>1, <2>2 DEF Publishes, Committed
<1>4. ASSUME NEW k \in Store, run'[k] # Idle
      PROVE  /\ k # i /\ run[k] # Idle /\ run'[k] = run[k] /\ run[k].at # "verified"
             /\ run[k].req \in Request
  BY <1>2, <1>4, CallerFacts DEF Publishes, LockFree, Inv
<1>5. Placed'
  <2> SUFFICES ASSUME NEW k \in Store, NEW q \in Request, run'[k] # Idle, run'[k].req = q
               PROVE  PlacedAt(k, q)'
    BY DEF Placed
  <2>1. UNCHANGED <<dir, ran, census>> /\ PlacedAt(k, q)
    BY <1>4 DEF Publishes, effectVars, Placed, Inv
  <2> QED BY <1>2, <1>3, <1>4, <2>1 DEF PlacedAt
<1>6. Apart'
  BY <1>2, <1>4 DEF Apart, Inv, Holding, Idle
<1> QED BY <1>1, <1>5, <1>6

\* What remains to be shown of a publication is about its own request.
LEMMA PublishStep ==
  ASSUME Inv, NEW i \in Store, NEW r \in Request, NEW S, "entered" \notin S,
         Publishes(i, r, S), SlotsOrdered(r)', Empty(r, "completed")' \/ ran[r] = 1
  PROVE  TypeOK' /\ Ordered' /\ Told' /\ Placed' /\ Apart'
<1>1. Ordered'
  BY SameRequest DEF Publishes, Touches, Inv, Ordered
<1>2. \A q \in Request : /\ Committed(q, "entered")' <=> Committed(q, "entered")
                         /\ q # r => (Empty(q, "completed")' <=> Empty(q, "completed"))
  BY DEF Publishes, Touches, Slots, Committed, Empty
<1>3. UNCHANGED <<ran, events>>
  BY DEF Publishes, effectVars
<1>4. Told'
  BY <1>2, <1>3 DEF Inv, Told, ToldOf
<1> QED BY <1>1, <1>4, PublishKeeps

\* The usual publication changes slots only.
LEMMA PublishOnly ==
  ASSUME Inv, NEW i \in Store, NEW r \in Request, NEW S,
         LockFree(i), Touches(r, S), Rest, run' = [run EXCEPT ![i] = Idle],
         UNCHANGED <<trustVars, dir, saved, effectVars, steady>>
  PROVE  Publishes(i, r, S) /\ Trusted'
BY DEF Publishes, SavedMaps, Inv, TypeOK, Trusted, trustVars

\* A publication of one slot.
LEMMA PublishOne ==
  ASSUME Inv, NEW i \in Store, NEW r \in Request, NEW a \in Slots,
         Writes(i, r, One(slot[r], a), Idle),
         UNCHANGED <<trustVars, dir, saved, effectVars, steady>>
  PROVE  Publishes(i, r, {a}) /\ Trusted' /\ Touches(r, {a})
<1>1. TypeOK
  BY DEF Inv
<1>2. LockFree(i) /\ Touches(r, {a}) /\ Rest /\ run' = [run EXCEPT ![i] = Idle]
  BY <1>1, WritesOne
<1> QED BY <1>2, PublishOnly

\* A publication of two slots.
LEMMA PublishTwo ==
  ASSUME Inv, NEW i \in Store, NEW r \in Request, NEW a \in Slots, NEW b \in Slots, a # b,
         Writes(i, r, Two(slot[r], a, b), Idle),
         UNCHANGED <<trustVars, dir, saved, effectVars, steady>>
  PROVE  /\ Publishes(i, r, {a, b}) /\ Trusted' /\ Touches(r, {a, b})
         /\ slot'[r][a] = "committed" \/ slot'[r][b] = slot[r][b]
<1>1. TypeOK
  BY DEF Inv
<1>2. /\ LockFree(i) /\ Touches(r, {a, b}) /\ Rest
      /\ slot'[r][a] = "committed" \/ slot'[r][b] = slot[r][b]
      /\ run' = [run EXCEPT ![i] = Idle]
  BY <1>1, WritesTwo
<1> QED BY <1>2, PublishOnly

\* A check is saved over the presence and the receipt.
LEMMA CheckKeeps ==
  ASSUME Inv, NEW i \in Store, NEW r \in Request, Check(i, r)
  PROVE  Inv'
<1>1. /\ Phase(r) = "authorizing" /\ Committed(r, "receipt")
      /\ Writes(i, r, One(slot[r], "check"), Idle)
      /\ UNCHANGED <<trustVars, dir, saved, effectVars, steady>>
  BY DEF Check
<1>2. Publishes(i, r, {"check"}) /\ Trusted' /\ Touches(r, {"check"})
  BY <1>1, PublishOne DEF Slots
<1>3. /\ \A s \in {"preparation", "challenge", "presence", "receipt"} : Committed(r, s)'
      /\ \A s \in {"refused", "entered", "linked", "completed", "observation", "terminal"} : Empty(r, s)'
      /\ dir'[r] = "whole"
  BY <1>1, <1>2, EarlyPhase, Untouched DEF Inv, Slots
<1>4. SlotsOrdered(r)'
  BY <1>3 DEF SlotsOrdered
<1> QED BY <1>2, <1>3, <1>4, PublishStep DEF Inv

\* A request that may be refused has no entry, and gets a refusal.
LEMMA RefusalKeeps ==
  ASSUME Inv, NEW i \in Store, NEW r \in Request, Refusable(r),
         Writes(i, r, One(slot[r], "refused"), Idle),
         UNCHANGED <<trustVars, dir, saved, effectVars, steady>>
  PROVE  Inv'
<1>1. Publishes(i, r, {"refused"}) /\ Trusted' /\ Touches(r, {"refused"})
  BY PublishOne DEF Slots
<1>2. /\ \A s \in {"entered", "linked", "completed", "observation", "terminal"} : Empty(r, s)
      /\ dir[r] = "whole" /\ Committed(r, "preparation")
  BY EarlyPhase DEF Refusable, Inv
<1>3. /\ \A s \in {"entered", "linked", "completed", "observation", "terminal"} : Empty(r, s)'
      /\ dir'[r] = "whole" /\ Committed(r, "preparation")'
  BY <1>1, <1>2, Untouched DEF Inv, Slots
<1>4. /\ \A s \in Slots \ {"refused"} : (Empty(r, s)' <=> Empty(r, s)) /\ (Committed(r, s)' <=> Committed(r, s))
      /\ SlotsOrdered(r)
  BY <1>1, Untouched DEF Inv, Ordered
<1>5. SlotsOrdered(r)'
  BY <1>3, <1>4 DEF SlotsOrdered, Slots
<1> QED BY <1>1, <1>3, <1>5, PublishStep DEF Inv

\* An observation is saved while the outcome is uncertain.
LEMMA ObserveKeeps ==
  ASSUME Inv, NEW i \in Store, NEW r \in Request, Observe(i, r)
  PROVE  Inv'
<1>1. /\ Phase(r) = "indeterminate"
      /\ Writes(i, r, One(slot[r], "observation"), Idle)
      /\ UNCHANGED <<trustVars, dir, saved, effectVars, steady>>
  BY DEF Observe
<1>2. Publishes(i, r, {"observation"}) /\ Trusted' /\ Touches(r, {"observation"})
  BY <1>1, PublishOne DEF Slots
<1>3. dir[r] = "whole" /\ Uncertain(r) /\ SlotsOrdered(r)
  BY <1>1, LatePhase DEF Inv, Ordered
<1>4. Committed(r, "preparation")
  BY <1>3 DEF SlotsOrdered, Uncertain, Empty, Slots
<1>5. /\ \A s \in Slots \ {"observation"} : (Empty(r, s)' <=> Empty(r, s)) /\ (Committed(r, s)' <=> Committed(r, s))
      /\ Uncertain(r)' /\ dir'[r] = "whole"
  BY <1>1, <1>2, <1>3, Untouched DEF Inv
<1>6. SlotsOrdered(r)'
  BY <1>3, <1>4, <1>5 DEF SlotsOrdered, Slots
<1>7. Empty(r, "completed")' \/ ran[r] = 1
  BY <1>5 DEF Inv, Told, ToldOf, Slots
<1> QED BY <1>2, <1>6, <1>7, PublishStep DEF Inv

\* A terminal record is saved for a proven outcome.
LEMMA TerminalKeeps ==
  ASSUME Inv, NEW i \in Store, NEW r \in Request,
         Committed(r, "refused") \/ Committed(r, "entered"), dir[r] = "whole",
         Writes(i, r, One(slot[r], "terminal"), Idle),
         UNCHANGED <<trustVars, dir, saved, effectVars, steady>>
  PROVE  Inv'
<1>1. Publishes(i, r, {"terminal"}) /\ Trusted' /\ Touches(r, {"terminal"})
  BY PublishOne DEF Slots
<1>2. SlotsOrdered(r) /\ Committed(r, "preparation")
  BY DEF Inv, Ordered, SlotsOrdered, Committed, Empty, Slots
<1>3. /\ \A s \in Slots \ {"terminal"} : (Empty(r, s)' <=> Empty(r, s)) /\ (Committed(r, s)' <=> Committed(r, s))
      /\ (Uncertain(r)' <=> Uncertain(r)) /\ dir'[r] = "whole"
  BY <1>1, Untouched DEF Inv
<1>4. SlotsOrdered(r)'
  BY <1>2, <1>3 DEF SlotsOrdered, Slots
<1>5. Empty(r, "completed")' \/ ran[r] = 1
  BY <1>3 DEF Inv, Told, ToldOf, Slots
<1> QED BY <1>1, <1>4, <1>5, PublishStep DEF Inv

\* A proven outcome is refused or has an entry.
LEMMA ConcludeKeeps ==
  ASSUME Inv, NEW i \in Store, NEW r \in Request, Conclude(i, r)
  PROVE  Inv'
<1>1. /\ Phase(r) \in {"applied", "refused"}
      /\ Writes(i, r, One(slot[r], "terminal"), Idle)
      /\ UNCHANGED <<trustVars, dir, saved, effectVars, steady>>
  BY DEF Conclude
<1>2. dir[r] = "whole" /\ (Committed(r, "refused") \/ Committed(r, "entered"))
  BY <1>1, LatePhase DEF Inv, Validates, EnteredPrefix
<1> QED BY <1>1, <1>2, TerminalKeeps

\* A first preparation says what the owner is shown, under the version there is.
LEMMA FirstPreparationKeeps ==
  ASSUME Inv, NEW i \in Store, NEW r \in Request, pin # NoPin, Phase(r) = "admitted",
         Writes(i, r, Two(slot[r], "preparation", "challenge"), Idle),
         NEW v \in {"on", "off"},
         saved' = [saved EXCEPT ![r] = [saved[r] EXCEPT !.version = pin.version, !.seen = v]],
         steady' = steady \cup {r},
         UNCHANGED <<trustVars, dir, effectVars>>
  PROVE  Inv'
<1> DEFINE S == {"preparation", "challenge"}
<1>1. /\ LockFree(i) /\ Touches(r, S) /\ Rest
      /\ slot'[r]["preparation"] = "committed" \/ slot'[r]["challenge"] = slot[r]["challenge"]
      /\ run' = [run EXCEPT ![i] = Idle]
  BY WritesTwo DEF Inv, Slots
<1> HIDE DEF S
<1>2. pin.version \in Nat /\ saved \in SavedMaps
  BY DEF Inv, TypeOK, SavedMaps, Pin
<1>3. /\ saved'[r].op = saved[r].op /\ saved'[r].version = pin.version
      /\ saved'[r] \in [op : Op, want : {"on", "off"}, seen : {"on", "off"},
                        version : Nat, keys : Pair \cup {NoPin}]
  BY <1>2 DEF SavedMaps
<1>4. saved' \in SavedMaps /\ \A q \in Request \ {r} : saved'[q] = saved[q]
  BY <1>2, <1>3 DEF SavedMaps
<1>5. \A q \in Request : saved'[q].op = saved[q].op /\ (saved'[q].seen = saved[q].seen \/ Phase(q) = "admitted")
  BY <1>3, <1>4
<1>6. steady' \subseteq Request
  BY DEF Inv, TypeOK
<1>7. Publishes(i, r, S)
  BY <1>1, <1>4, <1>5, <1>6 DEF Publishes
<1>8. Trusted'
  BY <1>3, <1>4 DEF Inv, Trusted, trustVars
<1>9. /\ \A s \in Slots : Empty(r, s)
      /\ dir'[r] = "whole"
  BY EarlyPhase DEF Inv, Ordered, SlotsOrdered, Committed, Empty
<1>10. \A s \in Slots \ S : Empty(r, s)'
  BY <1>1, <1>9, Untouched DEF Inv
<1>11. Committed(r, "preparation")' \/ Empty(r, "challenge")'
  BY <1>1, <1>9 DEF Committed, Empty, Slots
<1>12. SlotsOrdered(r)'
  BY <1>9, <1>10, <1>11 DEF SlotsOrdered, Slots, S
<1>13. Empty(r, "completed")' /\ "entered" \notin S
  BY <1>10 DEF Slots, S
<1> QED BY <1>7, <1>8, <1>12, <1>13, PublishStep DEF Inv

\* A preparation is saved, or its challenge is.
LEMMA PrepareKeeps ==
  ASSUME Inv, NEW i \in Store, NEW r \in Request, Prepare(i, r)
  PROVE  Inv'
<1>1. CASE Phase(r) = "admitted"
  <2>1. PICK v \in {"on", "off"} :
          saved' = [saved EXCEPT ![r] = [saved[r] EXCEPT !.version = pin.version, !.seen = v]]
    BY <1>1 DEF Prepare
  <2>2. /\ pin # NoPin /\ steady' = steady \cup {r} /\ UNCHANGED <<trustVars, dir, effectVars>>
        /\ Writes(i, r, Two(slot[r], "preparation", "challenge"), Idle)
    BY <1>1 DEF Prepare
  <2> QED BY <1>1, <2>1, <2>2, FirstPreparationKeeps
<1>2. CASE Phase(r) = "preparing"
  <2>1. /\ Writes(i, r, One(slot[r], "challenge"), Idle)
        /\ UNCHANGED <<trustVars, dir, saved, effectVars, steady>>
    BY <1>2 DEF Prepare
  <2>2. Publishes(i, r, {"challenge"}) /\ Trusted' /\ Touches(r, {"challenge"})
    BY <2>1, PublishOne DEF Slots
  <2>3. /\ \A s \in {"refused", "entered", "linked", "completed", "observation", "terminal"} : Empty(r, s)
        /\ Committed(r, "preparation") /\ dir[r] = "whole"
        /\ \A s \in {"presence", "receipt", "check"} : Empty(r, s)
    BY <1>2, EarlyPhase DEF Inv, Ordered, SlotsOrdered, Committed, Empty
  <2>4. /\ \A s \in {"refused", "entered", "linked", "completed", "observation", "terminal"} : Empty(r, s)'
        /\ Committed(r, "preparation")' /\ dir'[r] = "whole"
        /\ \A s \in {"presence", "receipt", "check"} : Empty(r, s)'
    BY <2>1, <2>2, <2>3, Untouched DEF Inv, Slots
  <2>5. SlotsOrdered(r)'
    BY <2>4 DEF SlotsOrdered
  <2> QED BY <2>2, <2>4, <2>5, PublishStep DEF Inv
<1> QED BY <1>1, <1>2 DEF Prepare

\* The owner's decision is saved with the keys it was verified against.
LEMMA DecideKeeps ==
  ASSUME Inv, NEW i \in Store, NEW r \in Request, Decide(i, r)
  PROVE  Inv'
<1> DEFINE S == {"presence", "receipt"}
<1>1. /\ pin # NoPin /\ Phase(r) = "prepared"
      /\ Writes(i, r, Two(slot[r], "presence", "receipt"), Idle)
      /\ saved' = [saved EXCEPT ![r] = [saved[r] EXCEPT !.keys = pin.keys]]
      /\ UNCHANGED <<trustVars, dir, effectVars, steady>>
  BY DEF Decide
<1>2. /\ LockFree(i) /\ Touches(r, S) /\ Rest
      /\ slot'[r]["presence"] = "committed" \/ slot'[r]["receipt"] = slot[r]["receipt"]
      /\ run' = [run EXCEPT ![i] = Idle]
  BY <1>1, WritesTwo DEF Inv, Slots
<1> HIDE DEF S
<1>3. pin.keys \in Pair /\ saved \in SavedMaps
  BY <1>1 DEF Inv, TypeOK, SavedMaps, Pin
<1>4. /\ saved'[r].op = saved[r].op /\ saved'[r].version = saved[r].version /\ saved'[r].seen = saved[r].seen
      /\ saved'[r] \in [op : Op, want : {"on", "off"}, seen : {"on", "off"},
                        version : Nat, keys : Pair \cup {NoPin}]
  BY <1>1, <1>3 DEF SavedMaps
<1>5. saved' \in SavedMaps /\ \A q \in Request \ {r} : saved'[q] = saved[q]
  BY <1>1, <1>3, <1>4 DEF SavedMaps
<1>6. \A q \in Request : saved'[q].op = saved[q].op /\ saved'[q].seen = saved[q].seen /\ saved'[q].version = saved[q].version
  BY <1>4, <1>5
<1>7. Publishes(i, r, S)
  BY <1>1, <1>2, <1>5, <1>6 DEF Publishes, Inv, TypeOK
<1>8. Trusted'
  BY <1>1, <1>6 DEF Inv, Trusted, trustVars
<1>9. /\ Committed(r, "preparation") /\ Committed(r, "challenge") /\ dir[r] = "whole"
      /\ \A s \in Slots \ {"preparation", "challenge"} : Empty(r, s)
  BY <1>1, EarlyPhase DEF Inv, Slots
<1>10. /\ Committed(r, "preparation")' /\ Committed(r, "challenge")' /\ dir'[r] = "whole"
       /\ \A s \in Slots \ (S \cup {"preparation", "challenge"}) : Empty(r, s)'
  BY <1>1, <1>2, <1>9, Untouched DEF Inv, Slots, S
<1>11. Committed(r, "presence")' \/ Empty(r, "receipt")'
  BY <1>2, <1>9 DEF Committed, Empty, Slots
<1>12. SlotsOrdered(r)'
  BY <1>10, <1>11 DEF SlotsOrdered, Slots, S
<1>13. Empty(r, "completed")' /\ "entered" \notin S
  BY <1>10 DEF Slots, S
<1> QED BY <1>7, <1>8, <1>12, <1>13, PublishStep DEF Inv

\* What follows an effect that was carried out is saved over its entry.
LEMMA OverAnEntry ==
  ASSUME Inv, NEW i \in Store, NEW r \in Request, NEW S, Publishes(i, r, S), Touches(r, S), Trusted',
         S \subseteq {"linked", "completed", "terminal"},
         Committed(r, "entered"), ran[r] = 1
  PROVE  Inv'
<1>1. /\ \A s \in {"preparation", "challenge", "presence", "receipt", "check"} : Committed(r, s)
      /\ Empty(r, "refused") /\ dir[r] = "whole"
  BY DEF Inv, Ordered, SlotsOrdered, Committed, Empty, Slots
<1>2. /\ \A s \in {"preparation", "challenge", "presence", "receipt", "check", "entered"} : Committed(r, s)'
      /\ Empty(r, "refused")'
  BY <1>1, Untouched DEF Inv, Slots
<1>3. dir'[r] = "whole" /\ Uncertain(r)'
  BY <1>1, <1>2 DEF Publishes, Uncertain, Committed
<1>4. SlotsOrdered(r)'
  BY <1>2, <1>3 DEF SlotsOrdered
<1>5. "entered" \notin S
  OBVIOUS
<1> QED BY <1>4, <1>5, PublishStep DEF Inv

\* An effect is completed by the caller that carried it out.
LEMMA CompleteKeeps ==
  ASSUME Inv, NEW i \in Store, NEW r \in Request, Complete(i, r)
  PROVE  Inv'
<1>1. run[i] = At("acted", r) /\ UNCHANGED <<trustVars, dir, saved, effectVars, steady>>
  BY DEF Complete
<1>2. Committed(r, "entered") /\ ran[r] = 1
  BY <1>1 DEF Inv, Placed, PlacedAt, At, Idle
<1>3. CASE saved[r].op = "setting"
  <2>1. Writes(i, r, One(slot[r], "completed"), Idle)
    BY <1>3 DEF Complete
  <2> QED BY <1>1, <1>2, <2>1, PublishOne, OverAnEntry DEF Slots
<1>4. CASE saved[r].op # "setting"
  <2>1. Writes(i, r, Two(slot[r], "linked", "completed"), Idle)
    BY <1>4 DEF Complete
  <2>2. /\ Publishes(i, r, {"linked", "completed"}) /\ Trusted'
        /\ Touches(r, {"linked", "completed"})
    BY <1>1, <2>1, PublishTwo DEF Slots
  <2> QED BY <1>2, <2>2, OverAnEntry
<1> QED BY <1>3, <1>4

\* A reconciliation completes what the revision journal records.
LEMMA ReconcileKeeps ==
  ASSUME Inv, NEW i \in Store, NEW r \in Request, ReconcileWrite(i, r)
  PROVE  Inv'
<1>1. r \in events /\ UNCHANGED <<trustVars, dir, saved, effectVars, steady>>
  BY DEF ReconcileWrite
<1>2. ran[r] = 1
  BY <1>1 DEF Inv, Told, ToldOf
<1>3. Committed(r, "entered")
  BY <1>2 DEF Inv, Told, ToldOf
<1>4. CASE Writes(i, r, One(slot[r], "terminal"), Idle)
  BY <1>1, <1>2, <1>3, <1>4, PublishOne, OverAnEntry DEF Slots
<1>5. CASE Writes(i, r, Two(slot[r], "completed", "terminal"), Idle)
  <2>2. /\ Publishes(i, r, {"completed", "terminal"}) /\ Trusted'
        /\ Touches(r, {"completed", "terminal"})
    BY <1>1, <1>5, PublishTwo DEF Slots
  <2> QED BY <1>2, <1>3, <2>2, OverAnEntry
<1> QED BY <1>4, <1>5 DEF ReconcileWrite

-----------------------------------------------------------------------------
(* Steps that write no slot.                                               *)

\* The order of the slots is theirs alone.
LEMMA SlotsKept ==
  ASSUME Inv, UNCHANGED <<dir, slot>>
  PROVE  Ordered'
BY SameRequest DEF Inv, Ordered

\* A step that touches neither a request nor an effect: one caller moves on.
LEMMA CallerMoves ==
  ASSUME Inv, NEW i \in Store, NEW x \in RunStates, run' = [run EXCEPT ![i] = x],
         UNCHANGED <<trustVars, requestVars, effectVars, steady>>,
         poisoned' \subseteq Store, faults' \in 0 .. MaxFaults,
         x = Idle \/ \E r \in Request :
           /\ dir[r] = "whole"
           /\ \/ x = At("ceremony", r)
              \/ x = At("read", r) /\ ~CensusHeld
              \/ /\ x = At("verified", r) /\ Phase(r) = "released" /\ LockFree(i)
                 /\ saved[r].op = "setting" => run[i] = At("read", r) /\ census = saved[r].seen
  PROVE  Inv'
<1>1. TypeOK'
  BY DEF Inv, TypeOK, RunStates, requestVars, trustVars, effectVars
<1>2. Ordered' /\ Told' /\ Trusted'
  <2>1. UNCHANGED <<dir, slot, saved, pin, used, ran, events>>
    BY DEF requestVars, trustVars, effectVars
  <2>2. Ordered'
    BY <2>1, SlotsKept
  <2>3. Told'
    BY <2>1 DEF Inv, Told, ToldOf, Committed, Empty
  <2> QED BY <2>1, <2>2, <2>3 DEF Inv, Trusted
<1>3. UNCHANGED <<dir, slot, saved, census, ran>>
  BY DEF requestVars, effectVars
<1>4. run'[i] = x /\ \A k \in Store \ {i} : run'[k] = run[k] /\ (Holding(k)' <=> Holding(k))
  BY <1>3, Others DEF Inv
<1>5. \A q \in Request : Phase(q)' = Phase(q) /\ (Committed(q, "entered")' <=> Committed(q, "entered"))
  BY <1>3, SamePhase DEF Committed
<1>6. ASSUME x # Idle
      PROVE  \E r \in Request :
               /\ x.req = r /\ dir[r] = "whole" /\ x.at \in {"ceremony", "read", "verified"}
               /\ x.at = "read" => ~CensusHeld
               /\ x.at = "verified" =>
                    /\ LockFree(i) /\ Phase(r) = "released"
                    /\ saved[r].op = "setting" => run[i] = At("read", r) /\ census = saved[r].seen
  BY <1>6 DEF At
<1>7. Placed'
  <2> SUFFICES ASSUME NEW k \in Store, NEW q \in Request, run'[k] # Idle, run'[k].req = q
               PROVE  PlacedAt(k, q)'
    BY DEF Placed
  <2>1. CASE k # i
    <3>1. run'[k] = run[k] /\ PlacedAt(k, q)
      BY <1>4, <2>1 DEF Placed, Inv
    <3> QED BY <1>3, <1>4, <1>5, <2>1, <3>1 DEF PlacedAt
  <2>2. CASE k = i
    <3>1. /\ dir[q] = "whole" /\ x.at \in {"ceremony", "read", "verified"}
          /\ x.at = "verified" => Phase(q) = "released" /\ (saved[q].op = "setting" => census = saved[q].seen)
      BY <1>4, <1>6, <2>2
    <3>2. Holding(k)' => saved[q].op = "setting"
      BY <1>3 DEF Holding
    <3> QED BY <1>3, <1>4, <1>5, <2>2, <3>1, <3>2 DEF PlacedAt
  <2> QED BY <2>1, <2>2
<1>8. x.at \notin {"entered", "acted"}
  BY <1>6 DEF Idle
<1>9. x.at = "verified" => LockFree(i)
  BY <1>6 DEF Idle
<1>10. Holding(i)' => Holding(i) \/ \A k \in Store : ~Holding(k)
  <2> SUFFICES ASSUME Holding(i)'
               PROVE  Holding(i) \/ ~CensusHeld
    BY CensusHolders
  <2>1. x # Idle /\ saved[x.req].op = "setting"
    BY <1>3, <1>4 DEF Holding, Idle
  <2>2. x.at = "verified" => run[i] = At("read", x.req)
    BY <1>6, <2>1
  <2>3. x.at = "verified" => Holding(i)
    BY <2>1, <2>2 DEF Holding, At
  <2>4. x.at \in {"read", "verified", "entered", "acted"}
    BY <1>4 DEF Holding
  <2> QED BY <1>6, <1>8, <2>1, <2>3, <2>4
<1>11. Apart'
  <2>1. \A k \in Store \ {i} : ~(Holding(k)' /\ Holding(i)')
    BY <1>4, <1>10 DEF Apart, Inv
  <2>2. \A k \in Store \ {i} : x.at = "verified" => run'[k].at # "verified"
    BY <1>4, <1>9 DEF LockFree
  <2> QED BY <1>4, <1>8, <2>1, <2>2 DEF Apart, Inv
<1> QED BY <1>1, <1>2, <1>7, <1>11 DEF Inv

\* The other steps that write nothing: a store opened again,
LEMMA ReopenKeeps ==
  ASSUME Inv, NEW i \in Store, Reopen(i)
  PROVE  Inv'
<1>1. /\ run' = [run EXCEPT ![i] = Idle]
      /\ UNCHANGED <<trustVars, requestVars, effectVars, steady>>
      /\ poisoned' \subseteq Store /\ faults' \in 0 .. MaxFaults /\ Idle \in RunStates
  BY DEF Reopen, Inv, TypeOK, RunStates
<1> QED BY <1>1, CallerMoves

\* a read of a torn request,
LEMMA StumbleKeeps ==
  ASSUME Inv, NEW i \in Store, NEW r \in Request, Stumble(i, r)
  PROVE  Inv'
<1>1. run' = [run EXCEPT ![i] = Idle]
  BY DEF Stumble, Ready, Inv, TypeOK
<1>2. /\ UNCHANGED <<trustVars, requestVars, effectVars, steady>>
      /\ poisoned' \subseteq Store /\ faults' \in 0 .. MaxFaults /\ Idle \in RunStates
  BY DEF Stumble, Inv, TypeOK, RunStates
<1> QED BY <1>1, <1>2, CallerMoves

\* a verification under the journal lock,
LEMMA VerifiesKeeps ==
  ASSUME Inv, NEW i \in Store, NEW r \in Request, Verifies(i, r),
         saved[r].op = "setting" => run[i] = At("read", r) /\ AsTheOwnerSaw(r)
  PROVE  Inv'
<1>1. /\ run' = [run EXCEPT ![i] = At("verified", r)] /\ At("verified", r) \in RunStates
      /\ UNCHANGED <<trustVars, requestVars, effectVars, steady>>
      /\ poisoned' \subseteq Store /\ faults' \in 0 .. MaxFaults
  BY DEF Verifies, Inv, TypeOK, RunStates, At
<1>2. /\ Phase(r) = "released" /\ LockFree(i)
      /\ saved[r].op = "setting" => run[i] = At("read", r) /\ census = saved[r].seen
  BY DEF Verifies, AsTheOwnerSaw
<1>3. dir[r] = "whole"
  BY <1>2, EarlyPhase DEF Inv
<1> QED BY <1>1, <1>2, <1>3, CallerMoves

\* the population lock taken,
LEMMA StartSettingKeeps ==
  ASSUME Inv, NEW i \in Store, NEW r \in Request, StartSetting(i, r)
  PROVE  Inv'
<1>1. /\ run' = [run EXCEPT ![i] = At("read", r)] /\ At("read", r) \in RunStates
      /\ UNCHANGED <<trustVars, requestVars, effectVars, steady>>
      /\ poisoned' \subseteq Store /\ faults' \in 0 .. MaxFaults
  BY DEF StartSetting, Inv, TypeOK, RunStates, At
<1>2. Phase(r) = "released" /\ ~CensusHeld
  BY DEF StartSetting
<1>3. dir[r] = "whole"
  BY <1>2, EarlyPhase DEF Inv
<1> QED BY <1>1, <1>2, <1>3, CallerMoves

\* and the first read of a reconciliation.
LEMMA ReadReconcilableKeeps ==
  ASSUME Inv, NEW i \in Store, NEW r \in Request, ReadReconcilable(i, r)
  PROVE  Inv'
<1>1. /\ run' = [run EXCEPT ![i] = At("ceremony", r)] /\ At("ceremony", r) \in RunStates
      /\ UNCHANGED <<trustVars, requestVars, effectVars, steady>>
      /\ poisoned' \subseteq Store /\ faults' \in 0 .. MaxFaults
  BY DEF ReadReconcilable, Inv, TypeOK, RunStates, At
<1>2. Committed(r, "entered")
  BY DEF ReadReconcilable, RecordOnly, RecordOnlyApplied, Validates, EnteredPrefix
<1>3. dir[r] = "whole"
  BY <1>2 DEF Inv, Ordered, SlotsOrdered, Committed, Empty, Slots
<1> QED BY <1>1, <1>3, CallerMoves

-----------------------------------------------------------------------------
(* The environment, and admission.                                         *)

\* A local change of the census finds no caller that holds it.
LEMMA LocalSetKeeps ==
  ASSUME Inv, LocalSet
  PROVE  Inv'
<1>1. UNCHANGED <<trustVars, requestVars, events, run, poisoned, ran, steady, faults>> /\ ~CensusHeld
  BY DEF LocalSet
<1>2. TypeOK'
  BY DEF LocalSet, Inv, TypeOK, trustVars, requestVars
<1>3. UNCHANGED <<dir, slot, saved, run, ran, events, pin, used, steady>>
  BY <1>1 DEF requestVars, trustVars
<1>4. Ordered'
  BY <1>3, SlotsKept
<1>5. Told' /\ Trusted'
  BY <1>3 DEF Inv, Told, ToldOf, Trusted, Committed, Empty
<1>6. \A k \in Store : ~Holding(k) /\ ~Holding(k)'
  BY <1>1, <1>3, CensusHolders DEF Holding
<1>7. \A q \in Request : Phase(q)' = Phase(q) /\ (Committed(q, "entered")' <=> Committed(q, "entered"))
  BY <1>1, <1>3, SamePhase DEF Committed
<1>8. Placed'
  BY <1>3, <1>6, <1>7 DEF Placed, PlacedAt, Inv
<1>9. Apart'
  BY <1>3, <1>6 DEF Apart, Inv
<1> QED BY <1>2, <1>4, <1>5, <1>8, <1>9 DEF Inv

\* A grant's version is above every version used before.
LEMMA TrustKeeps ==
  ASSUME Inv, Trust
  PROVE  Inv'
<1>1. UNCHANGED <<requestVars, effectVars, run, poisoned, faults>>
  BY DEF Trust
<1>2. UNCHANGED <<dir, slot, saved, run, ran, events, census, poisoned, faults>>
  BY <1>1 DEF requestVars, effectVars
<1>3. Ordered'
  BY <1>2, SlotsKept
<1>4. Told'
  BY <1>2 DEF Inv, Told, ToldOf, Committed, Empty
<1>5. \A q \in Request : Phase(q)' = Phase(q) /\ (Committed(q, "entered")' <=> Committed(q, "entered"))
  BY <1>1, <1>2, SamePhase DEF Committed
<1>6. \A k \in Store : Holding(k)' <=> Holding(k)
  BY <1>2 DEF Holding
<1>7. Placed' /\ Apart'
  BY <1>2, <1>5, <1>6 DEF Placed, PlacedAt, Apart, Inv
<1>8. CASE Enroll
  <2>1. PICK p \in Pair, v \in 1 .. (Versions - 1) :
          /\ \A u \in used : u < v
          /\ pin' = [version |-> v, keys |-> p]
          /\ used' = used \cup {v}
    BY <1>8 DEF Enroll
  <2>2. steady' \subseteq steady
    BY DEF Trust
  <2>3. v \in Nat /\ v # 0 /\ v \notin used /\ used \subseteq Nat
    BY <2>1, VersionsAssumption DEF Inv, TypeOK
  <2>4. pin' \in Pin /\ pin'.version = v
    BY <2>1, <2>3 DEF Pin
  <2>5. \A q \in Request : saved[q].version # v
    BY <2>3 DEF Inv, Trusted
  <2>6. Trusted'
    BY <1>2, <2>1, <2>4, <2>5 DEF Inv, Trusted
  <2>7. TypeOK'
    BY <1>2, <2>1, <2>2, <2>4 DEF Inv, TypeOK
  <2> QED BY <1>3, <1>4, <1>7, <2>6, <2>7 DEF Inv
<1>9. CASE Withdraw
  <2>1. pin' = NoPin /\ used' = used /\ steady' = {}
    BY <1>9 DEF Withdraw, Trust
  <2>2. Trusted' /\ TypeOK'
    BY <1>2, <2>1 DEF Inv, Trusted, TypeOK
  <2> QED BY <1>3, <1>4, <1>7, <2>2 DEF Inv
<1> QED BY <1>8, <1>9 DEF Trust, TrustNext

\* A request is admitted into a directory that no caller is in.
LEMMA AdmitKeeps ==
  ASSUME Inv, NEW i \in Store, NEW r \in Request, Admit(i, r)
  PROVE  Inv'
<1>1. PICK op \in Op, v \in {"on", "off"} :
        saved' = [saved EXCEPT ![r] = [saved[r] EXCEPT !.op = op, !.want = v]]
  BY DEF Admit
<1>2. /\ dir[r] = "absent" /\ dir' \in [Request -> {"absent", "orphan", "whole"}]
      /\ \A q \in Request \ {r} : dir'[q] = dir[q]
      /\ poisoned' \subseteq Store /\ faults' \in 0 .. MaxFaults
  <2>1. dir[r] = "absent" /\ dir \in [Request -> {"absent", "orphan", "whole"}]
    BY DEF Admit, Inv, TypeOK
  <2>2. dir' = [dir EXCEPT ![r] = "whole"] \/ dir' = [dir EXCEPT ![r] = "orphan"]
    BY DEF Admit
  <2>3. poisoned' \subseteq Store /\ faults' \in 0 .. MaxFaults
    BY JournalBounds DEF Admit, Inv, TypeOK
  <2> QED BY <2>1, <2>2, <2>3
<1>3. UNCHANGED <<pin, used, slot, census, events, ran, run, steady>>
  BY DEF Admit, trustVars, effectVars
<1>4. saved \in SavedMaps
  BY DEF Inv, TypeOK, SavedMaps
<1>5. /\ saved'[r].version = saved[r].version /\ saved'[r].seen = saved[r].seen
      /\ saved'[r] \in [op : Op, want : {"on", "off"}, seen : {"on", "off"},
                        version : Nat, keys : Pair \cup {NoPin}]
  BY <1>1, <1>4 DEF SavedMaps
<1>6. saved' \in SavedMaps /\ \A q \in Request \ {r} : saved'[q] = saved[q]
  BY <1>1, <1>4, <1>5 DEF SavedMaps
<1>7. TypeOK'
  BY <1>2, <1>3, <1>6 DEF Inv, TypeOK, SavedMaps
<1>8. \A s \in Slots : Empty(r, s)
  BY <1>2 DEF Inv, Ordered, SlotsOrdered
<1>9. Ordered'
  <2>1. \A s \in Slots : Empty(r, s)'
    BY <1>3, <1>8 DEF Empty
  <2>2. SlotsOrdered(r)'
    BY <2>1 DEF SlotsOrdered, Slots, Empty
  <2> QED BY <1>2, <1>3, <2>2, SameRequest DEF Inv, Ordered
<1>10. Told'
  BY <1>3 DEF Inv, Told, ToldOf, Committed, Empty
<1>11. Trusted'
  BY <1>3, <1>5, <1>6 DEF Inv, Trusted
<1>12. ASSUME NEW k \in Store, run[k] # Idle
       PROVE  run[k].req \in Request \ {r} /\ run[k].at # "verified"
  BY <1>2, <1>12, CallerFacts DEF Inv, Placed, PlacedAt, Admit, Ready, LockFree
<1>13. \A k \in Store : Holding(k)' <=> Holding(k)
  BY <1>3, <1>6, <1>12 DEF Holding, Idle
<1>14. Placed'
  <2> SUFFICES ASSUME NEW k \in Store, NEW q \in Request, run'[k] # Idle, run'[k].req = q
               PROVE  PlacedAt(k, q)'
    BY DEF Placed
  <2>1. PlacedAt(k, q) /\ q # r /\ run[k].at # "verified" /\ run'[k] = run[k]
    BY <1>3, <1>12 DEF Placed, Inv
  <2>2. Committed(q, "entered")' <=> Committed(q, "entered")
    BY <1>3 DEF Committed
  <2> QED BY <1>2, <1>3, <1>6, <1>13, <2>1, <2>2 DEF PlacedAt
<1>15. Apart'
  BY <1>3, <1>13 DEF Apart, Inv
<1> QED BY <1>7, <1>9, <1>10, <1>11, <1>14, <1>15 DEF Inv

-----------------------------------------------------------------------------
(* The entry and the effect.                                               *)

\* The store that verified a request is the only one that writes, and the
\* entry is the first that is saved of an effect.
LEMMA EnterKeeps ==
  ASSUME Inv, NEW i \in Store, NEW r \in Request, Enter(i, r)
  PROVE  Inv'
<1> DEFINE x == run'[i]
<1>1. /\ run[i] = At("verified", r)
      /\ Writes(i, r, One(slot[r], "entered"), At("entered", r))
      /\ UNCHANGED <<trustVars, dir, saved, effectVars, steady>>
  BY DEF Enter, Spends
<1>2. /\ LockFree(i) /\ Touches(r, {"entered"}) /\ Rest
      /\ \/ run' = [run EXCEPT ![i] = Idle]
         \/ run' = [run EXCEPT ![i] = At("entered", r)] /\ slot'[r]["entered"] = "committed"
  BY <1>1, WritesOne DEF Inv, Slots
<1>3. /\ PlacedAt(i, r) /\ Phase(r) = "released"
      /\ Holding(i) => census = saved[r].seen
      /\ Holding(i) <=> saved[r].op = "setting"
  BY <1>1 DEF Inv, Placed, PlacedAt, At, Idle, Holding
<1>4. /\ \A s \in {"preparation", "challenge", "presence", "receipt", "check"} : Committed(r, s)
      /\ \A s \in {"refused", "entered", "linked", "completed", "observation", "terminal"} : Empty(r, s)
      /\ dir[r] = "whole"
  BY <1>3, EarlyPhase DEF Inv
<1>5. /\ \A s \in {"preparation", "challenge", "presence", "receipt", "check"} : Committed(r, s)'
      /\ \A s \in {"refused", "linked", "completed", "observation", "terminal"} : Empty(r, s)'
      /\ dir'[r] = "whole"
  BY <1>1, <1>2, <1>4, Untouched DEF Inv, Slots
<1>6. UNCHANGED <<pin, used, dir, saved, census, events, ran, steady>>
  BY <1>1 DEF trustVars, effectVars
<1>7. TypeOK'
  <2>1. run' \in [Store -> RunStates]
    BY <1>2 DEF Inv, TypeOK, RunStates, At
  <2> QED BY <1>2, <1>6, <2>1 DEF Inv, TypeOK, RunStates, Rest, Touches, SlotMaps
<1>8. Ordered'
  <2>1. SlotsOrdered(r)'
    BY <1>5 DEF SlotsOrdered
  <2> QED BY <1>2, <1>6, <2>1, SameRequest DEF Touches, Inv, Ordered
<1>9. ran[r] = 0 /\ ~Committed(r, "entered")
  BY <1>4 DEF Inv, Told, ToldOf, Committed, Empty
<1>10. \A q \in Request \ {r} : /\ Committed(q, "entered")' <=> Committed(q, "entered")
                                /\ Empty(q, "completed")' <=> Empty(q, "completed")
  BY <1>2 DEF Touches, Committed, Empty
<1>11. Told'
  <2> SUFFICES ASSUME NEW q \in Request
               PROVE  ToldOf(q)'
    BY DEF Told
  <2>1. CASE q = r
    BY <1>5, <1>6, <1>9, <2>1 DEF ToldOf, Inv, Told
  <2>2. CASE q # r
    BY <1>6, <1>10, <2>2 DEF ToldOf, Inv, Told
  <2> QED BY <2>1, <2>2
<1>12. Trusted'
  BY <1>6 DEF Inv, Trusted
<1>13. \A k \in Store \ {i} : run'[k] = run[k] /\ (Holding(k)' <=> Holding(k))
  <2>1. \A q \in Request : saved'[q].op = saved[q].op
    BY <1>6
  <2>2. CASE run' = [run EXCEPT ![i] = Idle]
    BY <2>1, <2>2, Others DEF Inv
  <2>3. CASE run' = [run EXCEPT ![i] = At("entered", r)]
    BY <2>1, <2>3, Others DEF Inv
  <2> QED BY <1>2, <2>2, <2>3
<1>14. /\ x = Idle \/ x = At("entered", r)
       /\ x = At("entered", r) => Committed(r, "entered")'
  BY <1>2 DEF Inv, TypeOK, Committed, Idle, At
<1>15. ASSUME NEW k \in Store \ {i}, NEW q \in Request, run[k] # Idle, run[k].req = q
       PROVE  /\ PlacedAt(k, q) /\ run[k].at # "verified"
              /\ run[k].at \in {"entered", "acted"} => q # r
  <2>1. PlacedAt(k, q)
    BY <1>15 DEF Inv, Placed
  <2> QED BY <1>2, <1>9, <2>1 DEF PlacedAt, LockFree
<1>16. Placed'
  <2> SUFFICES ASSUME NEW k \in Store, NEW q \in Request, run'[k] # Idle, run'[k].req = q
               PROVE  PlacedAt(k, q)'
    BY DEF Placed
  <2>1. CASE k # i
    <3>1. /\ PlacedAt(k, q) /\ run'[k] = run[k] /\ run[k].at # "verified"
          /\ run[k].at \in {"entered", "acted"} => q # r
      BY <1>13, <1>15, <2>1
    <3> QED BY <1>6, <1>10, <1>13, <2>1, <3>1 DEF PlacedAt
  <2>2. CASE k = i
    <3>1. q = r /\ run'[k] = At("entered", r) /\ Committed(r, "entered")'
      BY <1>14, <2>2 DEF At
    <3>2. Holding(k)' => Holding(i)
      BY <1>3, <1>6, <3>1 DEF Holding, At
    <3> QED BY <1>3, <1>4, <1>6, <1>9, <3>1, <3>2 DEF PlacedAt, At
  <2> QED BY <2>1, <2>2
<1>17. Apart'
  <2>1. Holding(i)' => Holding(i)
    BY <1>3, <1>6, <1>14 DEF Holding, At, Idle
  <2>2. \A k \in Store \ {i} : ~(Holding(k)' /\ Holding(i)')
    BY <1>13, <2>1 DEF Apart, Inv
  <2>3. \A k \in Store \ {i} : run[k].at \in {"entered", "acted"} => run[k].req # r
    BY <1>15, CallerFacts DEF Inv, Idle
  <2>4. x.at \notin {"verified", "acted"} /\ (x.at = "entered" => x.req = r)
    BY <1>14 DEF At, Idle
  <2> QED BY <1>13, <2>2, <2>3, <2>4 DEF Apart, Inv
<1> QED BY <1>7, <1>8, <1>11, <1>12, <1>16, <1>17 DEF Inv

\* The caller that entered carries the effect out, once, or drops it; no
\* other caller has the same request in hand, or relies on the census.
LEMMA EffectStep ==
  ASSUME Inv, NEW i \in Store, NEW r \in Request, NEW x \in RunStates,
         run[i] = At("entered", r), run' = [run EXCEPT ![i] = x],
         x = Idle \/ (x = At("acted", r) /\ TakesEffect(r)),
         TakesEffect(r) \/ UNCHANGED effectVars,
         faults' \in 0 .. MaxFaults,
         UNCHANGED <<trustVars, requestVars, poisoned, steady>>
  PROVE  Inv'
<1>1. UNCHANGED <<pin, used, dir, slot, saved, poisoned, steady>>
  BY DEF trustVars, requestVars
<1>2. Committed(r, "entered") /\ ran[r] = 0 /\ dir[r] = "whole"
  BY DEF Inv, Placed, PlacedAt, At, Idle
<1>3. /\ ran' \in [Request -> Nat] /\ events' \subseteq Request
      /\ \A q \in Request \ {r} : ran'[q] = ran[q] /\ (q \in events' <=> q \in events)
      /\ TakesEffect(r) => ran'[r] = 1
      /\ ~TakesEffect(r) => ran'[r] = 0 /\ (r \in events' <=> r \in events)
  <2>1. CASE TakesEffect(r)
    BY <1>2, <2>1 DEF TakesEffect, Inv, TypeOK
  <2>2. CASE ~TakesEffect(r)
    BY <1>2, <2>2 DEF effectVars, Inv, TypeOK
  <2> QED BY <2>1, <2>2
<1>4. /\ census' \in {"on", "off", "gone"}
      /\ census' = census \/ saved[r].op = "setting"
  <2>1. saved[r].want \in {"on", "off"}
    BY DEF Inv, TypeOK
  <2> QED BY <2>1 DEF TakesEffect, effectVars, Inv, TypeOK
<1>5. TypeOK'
  BY <1>1, <1>3, <1>4 DEF Inv, TypeOK, RunStates
<1>6. Ordered'
  BY <1>1, SlotsKept
<1>7. \A q \in Request : /\ Committed(q, "entered")' <=> Committed(q, "entered")
                         /\ Empty(q, "completed")' <=> Empty(q, "completed")
                         /\ Phase(q)' = Phase(q)
  BY <1>1, SamePhase DEF Committed, Empty, requestVars
<1>8. Told'
  <2> SUFFICES ASSUME NEW q \in Request
               PROVE  ToldOf(q)'
    BY DEF Told
  <2>1. ToldOf(q)
    BY DEF Inv, Told
  <2>2. CASE q # r
    BY <1>3, <1>7, <2>1, <2>2 DEF ToldOf
  <2>3. CASE q = r
    BY <1>2, <1>3, <1>7, <2>1, <2>3 DEF ToldOf
  <2> QED BY <2>2, <2>3
<1>9. Trusted'
  BY <1>1 DEF Inv, Trusted
<1>10. run'[i] = x /\ \A k \in Store \ {i} : run'[k] = run[k] /\ (Holding(k)' <=> Holding(k))
  BY <1>1, Others DEF Inv
<1>11. saved[r].op = "setting" <=> Holding(i)
  BY DEF Holding, At
<1>12. \A k \in Store \ {i} : Holding(k) => census' = census
  BY <1>4, <1>11 DEF Inv, Apart
<1>13. \A k \in Store \ {i} : run[k].at \in {"entered", "acted"} => run[k].req # r
  BY DEF Inv, Apart, At
<1>14. x = At("acted", r) => ran'[r] = 1
  BY <1>3 DEF At, Idle
<1>15. Placed'
  <2> SUFFICES ASSUME NEW k \in Store, NEW q \in Request, run'[k] # Idle, run'[k].req = q
               PROVE  PlacedAt(k, q)'
    BY DEF Placed
  <2>1. CASE k # i
    <3>1. PlacedAt(k, q) /\ run'[k] = run[k] /\ (Holding(k)' <=> Holding(k))
      BY <1>10, <2>1 DEF Inv, Placed
    <3>2. run[k].at \in {"entered", "acted"} => ran'[q] = ran[q]
      BY <1>3, <1>13, <2>1, <3>1
    <3> QED BY <1>1, <1>7, <1>12, <2>1, <3>1, <3>2 DEF PlacedAt
  <2>2. CASE k = i
    <3>1. q = r /\ run'[k] = At("acted", r)
      BY <1>10, <2>2 DEF At
    <3> QED BY <1>1, <1>2, <1>7, <1>10, <1>14, <2>2, <3>1 DEF PlacedAt, At
  <2> QED BY <2>1, <2>2
<1>16. Apart'
  <2>1. Holding(i)' => Holding(i)
    BY <1>1, <1>10, <1>11 DEF Holding, At, Idle
  <2>2. \A k \in Store \ {i} : ~(Holding(k)' /\ Holding(i)')
    BY <1>10, <2>1 DEF Apart, Inv
  <2>3. x.at # "verified" /\ (x.at \in {"entered", "acted"} => x.req = r)
    BY DEF At, Idle
  <2> QED BY <1>10, <1>13, <2>2, <2>3 DEF Apart, Inv
<1> QED BY <1>5, <1>6, <1>8, <1>9, <1>15, <1>16 DEF Inv

\* The effect is carried out and its caller told,
LEMMA CarryOutKeeps ==
  ASSUME Inv, NEW i \in Store, NEW r \in Request, CarryOut(i, r)
  PROVE  Inv'
<1>1. At("acted", r) \in RunStates /\ faults' \in 0 .. MaxFaults
  BY DEF RunStates, At, CarryOut, Inv, TypeOK
<1> QED BY <1>1, EffectStep DEF CarryOut

\* or something is thrown, whether it was or not.
LEMMA EffectFailsKeeps ==
  ASSUME Inv, NEW i \in Store, NEW r \in Request, EffectFails(i, r)
  PROVE  Inv'
<1>1. Idle \in RunStates /\ faults' \in 0 .. MaxFaults
  BY JournalBounds DEF RunStates, EffectFails, Inv, TypeOK
<1> QED BY <1>1, EffectStep DEF EffectFails

-----------------------------------------------------------------------------
(* The invariant.                                                          *)

\* Nothing is saved and nobody calls at first.
LEMMA InvInit ==
  Init => Inv
<1> SUFFICES ASSUME Init
             PROVE  Inv
  OBVIOUS
<1>1. TypeOK
  <2>1. [op |-> "setting", want |-> "off", seen |-> "on", version |-> 0, keys |-> NoPin]
          \in [op : Op, want : {"on", "off"}, seen : {"on", "off"}, version : Nat, keys : Pair \cup {NoPin}]
    BY DEF Op
  <2> QED BY <2>1, JournalBounds DEF Init, TrustInit, TypeOK, SlotState
<1>2. /\ \A i \in Store : run[i] = Idle
      /\ \A r \in Request : /\ \A s \in Slots : slot[r][s] = "empty"
                            /\ ran[r] = 0 /\ saved[r].version = 0
      /\ events = {} /\ pin = NoPin
  BY DEF Init, TrustInit
<1>3. Ordered
  BY <1>2 DEF Ordered, SlotsOrdered, Empty, Committed, Slots
<1>4. Told
  BY <1>2 DEF Told, ToldOf, Empty, Committed, Slots
<1>5. Placed /\ Apart /\ Trusted
  BY <1>2 DEF Placed, Apart, Holding, Idle, Trusted
<1> QED BY <1>1, <1>3, <1>4, <1>5 DEF Inv

\* Every step keeps the invariant.
LEMMA InvNext ==
  Inv /\ [Next]_vars => Inv'
<1> SUFFICES ASSUME Inv, [Next]_vars
             PROVE  Inv'
  OBVIOUS
<1>1. ASSUME NEW i \in Store, NEW r \in Request, Verify(i, r)
      PROVE  Inv'
  BY <1>1, VerifiesKeeps DEF Verify
<1>2. ASSUME NEW i \in Store, NEW r \in Request, VerifySetting(i, r)
      PROVE  Inv'
  BY <1>2, VerifiesKeeps DEF VerifySetting
<1>3. ASSUME NEW i \in Store, NEW r \in Request, RefusePreEffect(i, r)
      PROVE  Inv'
  BY <1>3, RefusalKeeps DEF RefusePreEffect
<1>4. ASSUME NEW i \in Store, NEW r \in Request, RefuseSetting(i, r)
      PROVE  Inv'
  BY <1>4, RefusalKeeps DEF RefuseSetting
<1>5. CASE UNCHANGED vars
  <2>1. UNCHANGED <<pin, used, dir, slot, saved, census, events, run, poisoned, ran, steady, faults>>
    BY <1>5 DEF vars
  <2>2. UNCHANGED requestVars
    BY <2>1 DEF requestVars
  <2>3. TypeOK' /\ Told' /\ Trusted'
    BY <2>1 DEF Inv, TypeOK, Told, ToldOf, Trusted, Committed, Empty
  <2>4. Ordered'
    BY <2>1, SlotsKept
  <2>5. \A q \in Request : Phase(q)' = Phase(q) /\ (Committed(q, "entered")' <=> Committed(q, "entered"))
    BY <2>1, <2>2, SamePhase DEF Committed
  <2>6. \A k \in Store : Holding(k)' <=> Holding(k)
    BY <2>1 DEF Holding
  <2>7. Placed' /\ Apart'
    BY <2>1, <2>5, <2>6 DEF Placed, PlacedAt, Apart, Inv
  <2> QED BY <2>3, <2>4, <2>7 DEF Inv
<1> QED
  BY <1>1, <1>2, <1>3, <1>4, <1>5, AdmitKeeps, PrepareKeeps, DecideKeeps, CheckKeeps, ObserveKeeps,
     ConcludeKeeps, StumbleKeeps, EnterKeeps, StartSettingKeeps, CarryOutKeeps, EffectFailsKeeps,
     CompleteKeeps, ReadReconcilableKeeps, ReconcileKeeps, ReopenKeeps, LocalSetKeeps, TrustKeeps
  DEF Next

\* So it always holds.
LEMMA Invariance ==
  Spec => []Inv
<1> QED BY InvInit, InvNext, PTL DEF Spec

\* The variables are of their types, whoever does what (TypeOK).
THEOREM TypeCorrect ==
  Spec => []TypeOK
<1>1. Inv => TypeOK
  BY DEF Inv
<1> QED BY <1>1, Invariance, PTL

\* An effect is carried out at most once, never when its refusal is saved and
\* always when it is applied; and what is saved can be read (JournalIsTrue).
THEOREM JournalTruth ==
  Spec => []JournalIsTrue
<1>1. ASSUME Inv, NEW r \in Request
      PROVE  /\ ran[r] <= 1
             /\ Committed(r, "refused") => ran[r] = 0
             /\ Phase(r) = "applied" => ran[r] = 1
  <2>1. ToldOf(r) /\ SlotsOrdered(r)
    BY <1>1 DEF Inv, Told, Ordered
  <2>2. Committed(r, "refused") => ~Committed(r, "entered")
    BY <2>1 DEF SlotsOrdered, Committed, Empty
  <2>3. Phase(r) = "applied" => ~Empty(r, "completed")
    BY <1>1, LatePhase DEF Inv, Validates, Committed, Empty
  <2> QED BY <2>1, <2>2, <2>3 DEF ToldOf
<1>2. ASSUME Inv, NEW r \in Request, ~Torn(r), ~Uncertain(r)
      PROVE  /\ \A s \in {"completed", "observation", "linked"} : Empty(r, s)
             /\ Committed(r, "terminal") => Committed(r, "refused")
             /\ Empty(r, "preparation") => \A s \in Slots : Empty(r, s)
             /\ Empty(r, "challenge") => \A s \in {"presence", "receipt", "check"} : Empty(r, s)
             /\ Committed(r, "check") => Committed(r, "presence") /\ Committed(r, "receipt")
  <2>1. SlotsOrdered(r)
    BY <1>2 DEF Inv, Ordered
  <2>2. ~Committed(r, "entered")
    BY <1>2 DEF Uncertain, Committed
  <2> QED BY <1>2, <2>1, <2>2 DEF SlotsOrdered, Committed, Empty
<1>3. Inv => JournalIsTrue
  BY <1>1, <1>2 DEF JournalIsTrue, OutcomeIsTrue, NeverCorrupt
<1> QED BY <1>3, Invariance, PTL

-----------------------------------------------------------------------------
(* What a step may not do.                                                 *)

\* What a step does to the directory, the entry and the refusal of a request.
Minds(r) ==
  /\ dir[r] = "whole" => dir'[r] = "whole"
  /\ slot'[r]["entered"] = slot[r]["entered"] \/ \E i \in Store : run[i] = At("verified", r)
  /\ slot'[r]["refused"] = slot[r]["refused"] \/ Refusable(r)

\* A write minds the entry and the refusal if it touches neither, or may.
LEMMA TouchMinds ==
  ASSUME NEW r \in Request, NEW S, Touches(r, S), UNCHANGED dir,
         "entered" \in S => \E i \in Store : run[i] = At("verified", r),
         "refused" \in S => Refusable(r)
  PROVE  \A q \in Request : Minds(q)
BY DEF Touches, Minds, Slots

\* So does a step that writes nothing.
LEMMA KeptMinds ==
  ASSUME UNCHANGED <<dir, slot>>
  PROVE  \A q \in Request : Minds(q)
BY DEF Minds

\* And every step there is.
LEMMA StepMinds ==
  ASSUME Inv, [Next]_vars, NEW r \in Request
  PROVE  Minds(r)
<1> DEFINE Goal == \A q \in Request : Minds(q)
<1> SUFFICES Goal
  OBVIOUS
<1>1. TypeOK
  BY DEF Inv
<1>2. ASSUME NEW i \in Store, NEW q \in Request, Admit(i, q)
      PROVE  Goal
  BY <1>1, <1>2 DEF Admit, Minds, TypeOK
<1>3. ASSUME NEW i \in Store, NEW q \in Request, Prepare(i, q)
      PROVE  Goal
  <2>1. UNCHANGED dir
    BY <1>3 DEF Prepare
  <2>2. CASE Writes(i, q, Two(slot[q], "preparation", "challenge"), Idle)
    <3>1. Touches(q, {"preparation", "challenge"})
      BY <1>1, <2>2, WritesTwo DEF Slots
    <3> QED BY <2>1, <3>1, TouchMinds
  <2>3. CASE Writes(i, q, One(slot[q], "challenge"), Idle)
    <3>1. Touches(q, {"challenge"})
      BY <1>1, <2>3, WritesOne DEF Slots
    <3> QED BY <2>1, <3>1, TouchMinds
  <2> QED BY <1>3, <2>2, <2>3 DEF Prepare
<1>4. ASSUME NEW i \in Store, NEW q \in Request, Decide(i, q)
      PROVE  Goal
  <2>1. Writes(i, q, Two(slot[q], "presence", "receipt"), Idle) /\ UNCHANGED dir
    BY <1>4 DEF Decide
  <2>2. Touches(q, {"presence", "receipt"})
    BY <1>1, <2>1, WritesTwo DEF Slots
  <2> QED BY <2>1, <2>2, TouchMinds
<1>5. ASSUME NEW i \in Store, NEW q \in Request, NEW a \in {"check", "observation", "terminal", "completed"},
             Writes(i, q, One(slot[q], a), Idle), UNCHANGED dir
      PROVE  Goal
  <2>1. Touches(q, {a})
    BY <1>1, <1>5, WritesOne DEF Slots
  <2> QED BY <1>5, <2>1, TouchMinds
<1>6. ASSUME NEW i \in Store, NEW q \in Request, Refusable(q),
             Writes(i, q, One(slot[q], "refused"), Idle), UNCHANGED dir
      PROVE  Goal
  <2>1. Touches(q, {"refused"})
    BY <1>1, <1>6, WritesOne DEF Slots
  <2> QED BY <1>6, <2>1, TouchMinds
<1>7. ASSUME NEW i \in Store, NEW q \in Request, Enter(i, q)
      PROVE  Goal
  <2>1. /\ run[i] = At("verified", q) /\ UNCHANGED dir
        /\ Writes(i, q, One(slot[q], "entered"), At("entered", q))
    BY <1>7 DEF Enter, Spends
  <2>2. Touches(q, {"entered"})
    BY <1>1, <2>1, WritesOne DEF Slots
  <2> QED BY <2>1, <2>2, TouchMinds
<1>8. ASSUME NEW i \in Store, NEW q \in Request, Complete(i, q)
      PROVE  Goal
  <2>1. CASE Writes(i, q, Two(slot[q], "linked", "completed"), Idle)
    <3>1. Touches(q, {"linked", "completed"}) /\ UNCHANGED dir
      BY <1>1, <1>8, <2>1, WritesTwo DEF Slots, Complete
    <3> QED BY <3>1, TouchMinds
  <2> QED BY <1>5, <1>8, <2>1 DEF Complete
<1>9. ASSUME NEW i \in Store, NEW q \in Request, ReconcileWrite(i, q)
      PROVE  Goal
  <2>1. CASE Writes(i, q, Two(slot[q], "completed", "terminal"), Idle)
    <3>1. Touches(q, {"completed", "terminal"}) /\ UNCHANGED dir
      BY <1>1, <1>9, <2>1, WritesTwo DEF Slots, ReconcileWrite
    <3> QED BY <3>1, TouchMinds
  <2> QED BY <1>5, <1>9, <2>1 DEF ReconcileWrite
<1>10. ASSUME UNCHANGED requestVars
       PROVE  Goal
  <2>1. UNCHANGED <<dir, slot>>
    BY <1>10 DEF requestVars
  <2> QED BY <2>1, KeptMinds
<1>11. CASE LocalSet \/ Trust \/ (\E i \in Store : Reopen(i)) \/ UNCHANGED vars
  BY <1>10, <1>11 DEF LocalSet, Trust, Reopen, vars, requestVars
<1>12. ASSUME NEW i \in Store, NEW q \in Request,
              \/ Stumble(i, q) \/ Verifies(i, q) \/ StartSetting(i, q)
              \/ CarryOut(i, q) \/ EffectFails(i, q) \/ ReadReconcilable(i, q)
       PROVE  Goal
  BY <1>10, <1>12 DEF Stumble, Verifies, StartSetting, CarryOut, EffectFails, ReadReconcilable
<1> HIDE DEF Goal
<1>13. ASSUME NEW i \in Store, NEW q \in Request, Check(i, q) \/ Observe(i, q) \/ Conclude(i, q)
       PROVE  Goal
  BY <1>5, <1>13 DEF Check, Observe, Conclude
<1>14. ASSUME NEW i \in Store, NEW q \in Request, RefusePreEffect(i, q) \/ RefuseSetting(i, q)
       PROVE  Goal
  BY <1>6, <1>14 DEF RefusePreEffect, RefuseSetting
<1>15. ASSUME NEW i \in Store, NEW q \in Request, Verify(i, q) \/ VerifySetting(i, q)
       PROVE  Goal
  BY <1>12, <1>15 DEF Verify, VerifySetting
<1> QED BY <1>2, <1>3, <1>4, <1>7, <1>8, <1>9, <1>11, <1>12, <1>13, <1>14, <1>15 DEF Next

\* A request that may have entered stays so, and a refused one is never
\* entered (OverIsOver).
THEOREM OverStaysOver ==
  Spec => OverIsOver
<1>1. ASSUME Inv, [Next]_vars, NEW r \in Request
      PROVE  /\ Phase(r) \in {"applied", "indeterminate"} => Phase(r)' \in {"applied", "indeterminate"}
             /\ Phase(r) = "refused" => Phase(r)' \in {"refused", "unsupported"}
  <2>1. Minds(r) /\ Inv'
    BY <1>1, StepMinds, InvNext
  <2>2. ASSUME NEW i \in Store, run[i] = At("verified", r)
        PROVE  Phase(r) = "released"
    BY <1>1, <2>2 DEF Inv, Placed, PlacedAt, At, Idle
  <2>3. CASE Phase(r) \in {"applied", "indeterminate"}
    <3>1. dir[r] = "whole" /\ Uncertain(r)
      BY <1>1, <2>3, LatePhase DEF Inv
    <3>2. slot'[r]["entered"] = slot[r]["entered"] /\ dir'[r] = "whole"
      BY <2>1, <2>2, <2>3, <3>1 DEF Minds
    <3>3. Uncertain(r)'
      BY <3>1, <3>2 DEF Uncertain
    <3>4. Phase(r)' \in {"applied", "indeterminate"}
      BY <3>2, <3>3 DEF Phase
    <3> QED BY <2>3, <3>4
  <2>4. CASE Phase(r) = "refused"
    <3>1. dir[r] = "whole" /\ Committed(r, "refused") /\ Empty(r, "entered")
      BY <1>1, <2>4, LatePhase DEF Inv, Ordered, SlotsOrdered, Committed, Empty
    <3>2. /\ slot'[r]["entered"] = slot[r]["entered"] /\ slot'[r]["refused"] = slot[r]["refused"]
          /\ dir'[r] = "whole"
      BY <2>1, <2>2, <2>4, <3>1 DEF Minds, Refusable
    <3>3. ~Uncertain(r)' /\ Committed(r, "refused")'
      BY <3>1, <3>2 DEF Uncertain, Committed, Empty
    <3>4. Phase(r)' = PreEffect(r)'
      BY <3>2, <3>3 DEF Phase
    <3>5. PreEffect(r)' \in {"refused", "unsupported"}
      BY <3>3 DEF PreEffect
    <3> QED BY <2>4, <3>4, <3>5
  <2> QED BY <2>3, <2>4
<1>2. Inv /\ [Next]_vars =>
        [\A r \in Request :
          /\ Phase(r) \in {"applied", "indeterminate"} => Phase(r)' \in {"applied", "indeterminate"}
          /\ Phase(r) = "refused" => Phase(r)' \in {"refused", "unsupported"}]_vars
  BY <1>1
<1> QED BY <1>2, Invariance, PTL DEF Spec, OverIsOver

\* An effect is carried out by the caller that entered its request.
LEMMA EffectsAreEntered ==
  ASSUME Inv, [Next]_vars
  PROVE  \/ UNCHANGED ran
         \/ \E i \in Store, q \in Request : run[i] = At("entered", q) /\ TakesEffect(q)
<1>1. CASE UNCHANGED vars
  BY <1>1 DEF vars
<1>2. CASE LocalSet \/ Trust \/ \E i \in Store : Reopen(i)
  BY <1>2 DEF LocalSet, Trust, Reopen, effectVars
<1>3. ASSUME NEW i \in Store, NEW q \in Request,
             \/ Admit(i, q) \/ Prepare(i, q) \/ Decide(i, q) \/ Check(i, q) \/ RefusePreEffect(i, q)
             \/ Observe(i, q) \/ Conclude(i, q) \/ Stumble(i, q) \/ Verify(i, q) \/ Enter(i, q)
      PROVE  UNCHANGED ran
  BY <1>3 DEF Admit, Prepare, Decide, Check, RefusePreEffect, Observe, Conclude, Stumble,
              Verify, Verifies, Enter, effectVars
<1>4. ASSUME NEW i \in Store, NEW q \in Request,
             \/ StartSetting(i, q) \/ VerifySetting(i, q) \/ RefuseSetting(i, q)
             \/ Complete(i, q) \/ ReadReconcilable(i, q) \/ ReconcileWrite(i, q)
      PROVE  UNCHANGED ran
  BY <1>4 DEF StartSetting, VerifySetting, Verifies, RefuseSetting, Complete, ReadReconcilable,
              ReconcileWrite, effectVars
<1>5. ASSUME NEW i \in Store, NEW q \in Request, CarryOut(i, q) \/ EffectFails(i, q)
      PROVE  UNCHANGED ran \/ (run[i] = At("entered", q) /\ TakesEffect(q))
  BY <1>5 DEF CarryOut, EffectFails, effectVars
<1> QED BY <1>1, <1>2, <1>3, <1>4, <1>5 DEF Next

\* A setting is made on the census its owner saw (SetsWhatTheOwnerSaw).
THEOREM SetsAsSeen ==
  Spec => SetsWhatTheOwnerSaw
<1>1. ASSUME Inv, [Next]_vars, NEW r \in Request, ran'[r] > ran[r], saved[r].op = "setting"
      PROVE  census = saved[r].seen
  <2>1. ran[r] \in Nat /\ ran \in [Request -> Nat]
    BY <1>1 DEF Inv, TypeOK
  <2>2. PICK i \in Store, q \in Request : run[i] = At("entered", q) /\ TakesEffect(q)
    BY <1>1, <2>1, EffectsAreEntered
  <2>3. q = r
    BY <1>1, <2>1, <2>2 DEF TakesEffect
  <2>4. Holding(i) /\ PlacedAt(i, r)
    BY <1>1, <2>2, <2>3 DEF Holding, At, Idle, Inv, Placed
  <2> QED BY <2>2, <2>3, <2>4 DEF PlacedAt, At
<1>2. Inv /\ [Next]_vars =>
        [\A r \in Request :
          ran'[r] > ran[r] /\ saved[r].op = "setting" => census = saved[r].seen]_vars
  BY <1>1
<1> QED BY <1>2, Invariance, PTL DEF Spec, SetsWhatTheOwnerSaw

\* A caller comes to a verified request by verifying it.
LEMMA VerifiedByVerifying ==
  ASSUME Inv, [Next]_vars, NEW r \in Request, NEW k \in Store,
         run'[k] = At("verified", r), run[k] # run'[k]
  PROVE  TrustStillHolds(r)
<1>1. ASSUME NEW i \in Store, NEW x, run' = [run EXCEPT ![i] = x]
      PROVE  x = At("verified", r)
  BY <1>1 DEF Inv, TypeOK
<1>2. CASE UNCHANGED vars
  BY <1>2 DEF vars
<1>3. CASE LocalSet \/ Trust
  BY <1>3 DEF LocalSet, Trust
<1>4. ASSUME NEW i \in Store, Reopen(i)
      PROVE  TrustStillHolds(r)
  BY <1>1, <1>4 DEF Reopen, Idle, At
<1>5. ASSUME NEW i \in Store, NEW q \in Request, Admit(i, q) \/ Stumble(i, q)
      PROVE  TrustStillHolds(r)
  BY <1>5 DEF Admit, Stumble
<1>6. ASSUME NEW i \in Store, NEW q \in Request, NEW outcomes, NEW next \in {Idle, At("entered", q)},
             Writes(i, q, outcomes, next)
      PROVE  FALSE
  <2>1. PICK w \in outcomes : run' = [run EXCEPT ![i] = IF w.ok THEN next ELSE Idle]
    BY <1>6 DEF Writes
  <2>2. (IF w.ok THEN next ELSE Idle) \in {Idle, At("entered", q)}
    OBVIOUS
  <2> QED BY <1>1, <2>1, <2>2 DEF Idle, At
<1>7. ASSUME NEW i \in Store, NEW q \in Request, Enter(i, q)
      PROVE  FALSE
  BY <1>6, <1>7 DEF Enter, Spends
<1>8. ASSUME NEW i \in Store, NEW q \in Request, Verifies(i, q)
      PROVE  TrustStillHolds(r)
  BY <1>1, <1>8 DEF Verifies, At
<1>9. ASSUME NEW i \in Store, NEW q \in Request,
             \/ StartSetting(i, q) \/ CarryOut(i, q) \/ EffectFails(i, q) \/ ReadReconcilable(i, q)
      PROVE  FALSE
  BY <1>1, <1>9 DEF StartSetting, CarryOut, EffectFails, ReadReconcilable, Idle, At
<1>10. ASSUME NEW i \in Store, NEW q \in Request,
              \/ Prepare(i, q) \/ Decide(i, q) \/ Check(i, q) \/ RefusePreEffect(i, q) \/ Observe(i, q)
              \/ Conclude(i, q) \/ RefuseSetting(i, q) \/ Complete(i, q) \/ ReconcileWrite(i, q)
       PROVE  FALSE
  BY <1>6, <1>10 DEF Prepare, Decide, Check, RefusePreEffect, Observe, Conclude, RefuseSetting,
                     Complete, ReconcileWrite
<1> QED BY <1>2, <1>3, <1>4, <1>5, <1>7, <1>8, <1>9, <1>10 DEF Next, Verify, VerifySetting

\* A request is verified, and then entered, under the trust it was prepared
\* under (EntersUnderItsTrust).
THEOREM TrustedEntry ==
  Spec => EntersUnderItsTrust
<1>1. ASSUME Inv, [Next]_vars, NEW r \in Request, NEW i \in Store,
             run'[i] = At("verified", r), run[i] # run'[i]
      PROVE  r \in steady
  BY <1>1, VerifiedByVerifying DEF TrustStillHolds, Inv, Trusted
<1>2. ASSUME Inv, [Next]_vars, NEW r \in Request, Empty(r, "entered"), slot'[r]["entered"] # "empty"
      PROVE  \E i \in Store : run[i] = At("verified", r)
  BY <1>2, StepMinds DEF Minds, Empty
<1>3. Inv /\ [Next]_vars =>
        [\A r \in Request :
          /\ \A i \in Store : run'[i] = At("verified", r) /\ run[i] # run'[i] => r \in steady
          /\ Empty(r, "entered") /\ slot'[r]["entered"] # "empty" =>
                \E i \in Store : run[i] = At("verified", r)]_vars
  BY <1>1, <1>2
<1> QED BY <1>3, Invariance, PTL DEF Spec, EntersUnderItsTrust
=============================================================================
