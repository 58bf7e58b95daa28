-------------------------------- MODULE Keyd --------------------------------
(***************************************************************************)
(* The key custody service (keyd/src): a process with two sockets, one for *)
(* the souls and one for their owner, and one thread per connection.  The  *)
(* threads share the Keychain, item by item, the nonces already spent and  *)
(* the owner's prompt.  A socket admits so many connections; a full souls' *)
(* socket makes room by closing the connection that was idle the longest.  *)
(*                                                                         *)
(* A step is one access to the Keychain, one critical section, one prompt  *)
(* or one exchange with GitHub, so that threads interleave between any two *)
(* of them.  One App and one soul: items of others are other items.        *)
(***************************************************************************)
EXTENDS Naturals, Sequences, FiniteSets, SequencesExt

CONSTANTS
  SoulConn,       \* connections to the souls' socket, numbered as they come
  OwnerConn,      \* connections to the owner's socket
  SoulCapacity,   \* LIMITS.soul_connections
  OwnerCapacity,  \* LIMITS.owner_connections
  Grant,          \* grants the daemon signs, each with a nonce of its own
  Lifetime,       \* [Grant -> its `exp`]
  Tool,           \* [Grant -> the tool it is for]
  Scope,          \* [Grant -> its `keyScope`]
  DaemonKey,      \* keys a daemon signs grants with
  Signer,         \* [Grant -> the key it is signed with]
  Digest,         \* sets of statement keys the owner may approve
  MaxClock,       \* bound: the clock stops
  Starts,         \* Keychains to start from, with bounds on what happens next
  Elsewhere,      \* the maker of a key or a seed that is from before, or not keyd's
  None

Conn == SoulConn \cup OwnerConn

CacheTools == {"token_cache_get", "token_cache_put", "token_cache_evict"}
Tools      == CacheTools \cup {"credential", "git_credential"}
Imports    == {"import", "app_import", "app_import_new"}
Seeds      == {"presence", "statement"}

\* Owner requests: the daemon key an import or a pin names, the set attested.
OwnerRequest ==
  [op : {"presence", "sign", "pins_status", "statement_key", "remove", "app_remove"},
   names : {None}]
    \cup [op : Imports, names : DaemonKey \cup {None}]
    \cup [op : {"pin"}, names : DaemonKey]
    \cup [op : {"attest"}, names : Digest]

SoulRequest == [op : {"call"}, names : Grant]
Request     == OwnerRequest \cup SoulRequest

\* The owner's record of statement keys.  `era` is history: how often the
\* count began anew over a record keyd could not vouch for.
Record   == [digest : Digest \cup {None}, generation : Nat, era : Nat]
NoRecord == [digest |-> None, generation |-> 0, era |-> 0]

\* A seed is named after the connection whose thread drew it, a key after the
\* one that imported it.
Source == OwnerConn \cup {Elsewhere}

\* What keyd keeps in the Keychain.
Items == [pin       : DaemonKey \cup {None},
          owners    : Record,
          presence  : Source \cup {None},
          statement : Source \cup {None},
          soul      : Source \cup {None},
          app       : Source \cup {None},
          cache     : BOOLEAN]

OwnerStages == {"lock", "absent", "pinned", "record", "seed", "make", "again", "ask",
                "pin", "put", "raise", "evict", "delete", "sign"}
SoulStages  == {"daemon", "spend", "cache", "key", "mint", "keep", "evict"}
Stages      == OwnerStages \cup SoulStages \cup {"rest", "answer"}

\* A thread's locals: its request, where it is, the clock it read, the pin and
\* the record it read, the seeds it holds.
Work == [req : Request \cup {None}, at : Stages, now : Nat,
         saw : DaemonKey \cup {None}, base : Record,
         seed : [Seeds -> Source \cup {None}]]

Rest == [req |-> None, at |-> "rest", now |-> 0, saw |-> None, base |-> NoRecord,
         seed |-> [s \in Seeds |-> None]]

\* What the environment does, each so many times.
Kinds == {"connects", "soul", "owner", "ticks", "deaths", "aliens", "outside", "leaves"}

ASSUME KeydAssumption ==
  /\ SoulConn \subseteq Nat /\ OwnerConn \subseteq Nat /\ SoulConn \cap OwnerConn = {}
  /\ SoulCapacity \in Nat \ {0}
  /\ OwnerCapacity \in Nat \ {0}
  /\ Lifetime \in [Grant -> Nat]
  /\ Tool \in [Grant -> Tools]
  /\ Scope \in [Grant -> {"soul", "app"}]
  /\ Signer \in [Grant -> DaemonKey]
  /\ MaxClock \in Nat
  /\ Starts \subseteq [items : Items, budget : [Kinds -> Nat]]
  /\ \A s \in Starts : s.items.owners.generation = 0 <=> s.items.owners.digest = None
  /\ None \notin Conn \cup DaemonKey \cup Digest \cup Request \cup {Elsewhere}
  /\ Elsewhere \notin Conn

VARIABLES
  item,       \* the Keychain
  alien,      \* items whose access keyd finds is not its own any more
  registry,   \* open connections, the least recently active first
  conn,       \* how far each connection is
  work,       \* each connection's thread
  ownerLock,  \* the connection whose thread holds `owner_lock`, or None
  seen,       \* `Replay`: grants spent and not yet forgotten
  clock,
  budget,     \* what is left of the bounds
  gone,       \* busy connections whose client hung up
  spent,      \* history: how often this process let each grant through
  handed,     \* history: seeds whose signature or public half was answered
  attested    \* history: records of the owner's keys that were attested

channel == <<registry, conn, gone>>
handler == <<work, ownerLock, seen, spent, handed, attested>>
stored  == <<item, alien>>
vars    == <<item, alien, registry, conn, work, ownerLock, seen, clock, budget, gone,
             spent, handed, attested>>

TypeOK ==
  /\ item \in Items
  /\ alien \subseteq {"pin", "owners"}
  /\ registry \in Seq(Conn)
  /\ conn \in [Conn -> {"new", "open", "busy", "closed", "refused", "lost"}]
  /\ work \in [Conn -> Work]
  /\ ownerLock \in OwnerConn \cup {None}
  /\ seen \subseteq Grant
  /\ clock \in Nat
  /\ budget \in [Kinds -> Nat]
  /\ gone \subseteq Conn
  /\ spent \in [Grant -> Nat]
  /\ handed \subseteq [of : Seeds, seed : Source]
  /\ attested \subseteq Record

Init ==
  /\ \E start \in Starts : item = start.items /\ budget = start.budget
  /\ alien = {}
  /\ registry = <<>>
  /\ conn = [c \in Conn |-> "new"]
  /\ work = [c \in Conn |-> Rest]
  /\ ownerLock = None
  /\ seen = {}
  /\ clock = 0
  /\ gone = {}
  /\ spent = [g \in Grant |-> 0]
  /\ handed = {}
  /\ attested = {}

Spends(kind) == budget[kind] > 0 /\ budget' = [budget EXCEPT ![kind] = @ - 1]

-----------------------------------------------------------------------------
(* The two sockets: accept, claim, answer, close. *)

Registered(c) == c \in ToSet(registry)
ChannelOf(c)  == IF c \in SoulConn THEN SoulConn ELSE OwnerConn
Full(c)       == Cardinality(ToSet(registry) \cap ChannelOf(c))
                   >= (IF c \in SoulConn THEN SoulCapacity ELSE OwnerCapacity)

\* Seeded bug: a connection that is being answered may be closed too.
AnyOpen(c) == {i \in 1 .. Len(registry) : c \in SoulConn /\ registry[i] \in SoulConn}

\* evict_idle: where the connections are that may be closed to make room.
Evictable(c) ==
  {i \in 1 .. Len(registry) :
     c \in SoulConn /\ registry[i] \in SoulConn /\ conn[registry[i]] # "busy"}

\* The thread of a connection that was evicted finds out at its next message.
Connect(c) ==
  /\ conn[c] = "new"
  /\ \A d \in ChannelOf(c) : conn[d] = "new" => c <= d
  /\ Spends("connects")
  /\ IF ~Full(c)
     THEN /\ conn' = [conn EXCEPT ![c] = "open"]
          /\ registry' = Append(registry, c)
     ELSE IF Evictable(c) # {}
     THEN /\ conn' = [conn EXCEPT ![c] = "open"]
          /\ registry' = Append(RemoveAt(registry, Min(Evictable(c))), c)
     ELSE /\ conn' = [conn EXCEPT ![c] = "refused"]
          /\ UNCHANGED registry
  /\ UNCHANGED <<stored, handler, clock, gone>>

\* A deadline, the end of the stream, or no thread to serve it; a connection
\* that was evicted is at its end.
Closes(c) ==
  /\ conn[c] = "open"
  /\ IF Registered(c) THEN Spends("leaves") ELSE UNCHANGED budget
  /\ conn' = [conn EXCEPT ![c] = "closed"]
  /\ registry' = RemoveFirst(registry, c)
  /\ UNCHANGED <<stored, handler, clock, gone>>

-----------------------------------------------------------------------------
(* A request's handler. *)

At(c, stage) == conn[c] = "busy" /\ work[c].at = stage
Op(c)        == work[c].req.op

\* A handler's guard on `owner_lock` goes when the handler returns.
Unlocks(c, stage) ==
  ownerLock' = IF stage = "answer" /\ ownerLock = c THEN None ELSE ownerLock

\* c's thread goes on to `stage`, with `locals` as its locals.
Moves(c, locals, stage) ==
  /\ work' = [work EXCEPT ![c] = [locals EXCEPT !.at = stage]]
  /\ Unlocks(c, stage)

Goes(c, stage) == Moves(c, work[c], stage)

\* Seeded bug: an approval of the owner's keys waits for nobody.
LocksAllButAttest(op) == op \notin {"pins_status", "statement_key", "attest"}

\* Requests that hold `owner_lock`, across the owner's prompt too.
Locks(op) == op \notin {"pins_status", "statement_key"}

Opening(op) ==
  IF op \in {"import", "app_import", "pin"} THEN "pinned"
  ELSE IF op = "app_import_new" THEN "absent"
  ELSE IF op \in {"attest", "pins_status"} THEN "record"
  ELSE IF op \in {"presence", "sign", "statement_key"} THEN "seed"
  ELSE "ask"

Entry(op) ==
  IF op = "call" THEN "daemon" ELSE IF Locks(op) THEN "lock" ELSE Opening(op)

\* A whole message has arrived on a connection nobody evicted.
Claim(c, req) ==
  /\ conn[c] = "open"
  /\ Registered(c)
  /\ IF c \in SoulConn THEN req \in SoulRequest /\ Spends("soul")
                       ELSE req \in OwnerRequest /\ Spends("owner")
  /\ conn' = [conn EXCEPT ![c] = "busy"]
  /\ work' = [work EXCEPT ![c] = [Rest EXCEPT !.req = req, !.at = Entry(req.op), !.now = clock]]
  /\ UNCHANGED <<stored, registry, ownerLock, seen, clock, gone, spent, handed, attested>>

\* The answer is written, if there is still somebody to read it.
Answer(c) ==
  /\ At(c, "answer")
  /\ IF Registered(c) /\ c \notin gone
     THEN /\ conn' = [conn EXCEPT ![c] = "open"]
          /\ registry' = Append(RemoveFirst(registry, c), c)
     ELSE /\ conn' = [conn EXCEPT ![c] = "closed"]
          /\ registry' = RemoveFirst(registry, c)
  /\ work' = [work EXCEPT ![c] = Rest]
  /\ UNCHANGED <<stored, ownerLock, seen, clock, budget, gone, spent, handed, attested>>

\* What a step of a handler leaves alone, whatever it does to the Keychain.
Quietly == UNCHANGED <<channel, seen, clock, budget, spent, handed, attested>>

\* The owner declines or cannot be asked, GitHub or the Keychain fails, a
\* payload or a token has lapsed, git asks for another host.
Refused(c) ==
  /\ conn[c] = "busy"
  /\ work[c].at \notin {"lock", "answer", "rest"}
  /\ ~(At(c, "evict") /\ Op(c) = "remove")
  /\ Goes(c, "answer")
  /\ Quietly /\ UNCHANGED stored

-----------------------------------------------------------------------------
(* The owner's requests. *)

TakeLock(c) ==
  /\ At(c, "lock")
  /\ ownerLock = None
  /\ work' = [work EXCEPT ![c].at = Opening(Op(c))]
  /\ ownerLock' = c
  /\ Quietly /\ UNCHANGED stored

\* An import that may only create looks whether there is something already.
FindAbsent(c) ==
  /\ At(c, "absent")
  /\ Goes(c, IF item.app = None THEN "pinned" ELSE "answer")
  /\ Quietly /\ UNCHANGED stored

\* pinned_key: an item keyd does not control is no pin.
Pinned == IF "pin" \in alien THEN None ELSE item.pin

\* import_pin and owner_pin: what is pinned decides what the owner is asked.
ReadPin(c) ==
  /\ At(c, "pinned")
  /\ LET names   == work[c].req.names
         refused == IF Op(c) = "pin" THEN Pinned = names
                    ELSE IF Pinned = None THEN names = None
                    ELSE names \notin {None, Pinned}
     IN  Moves(c, [work[c] EXCEPT !.saw = Pinned], IF refused THEN "answer" ELSE "ask")
  /\ Quietly /\ UNCHANGED stored

\* owner_pins: the record counts from the start again if keyd cannot vouch for
\* it; a status of it is then refused.
ReadRecord(c) ==
  /\ At(c, "record")
  /\ IF "owners" \notin alien
     THEN Moves(c, [work[c] EXCEPT !.base = item.owners], "seed")
     ELSE IF Op(c) = "attest"
     THEN Moves(c, [work[c] EXCEPT !.base = NoRecord], "seed")
     ELSE Goes(c, "answer")
  /\ Quietly /\ UNCHANGED stored

\* The seed a thread needs next.
Needs(c) ==
  IF Op(c) \in {"sign", "statement_key"} /\ work[c].seed["statement"] = None
  THEN "statement" ELSE "presence"

HoldsSeed(c, s) ==
  LET locals == [work[c] EXCEPT !.seed[Needs(c)] = s]
  IN  Moves(c, locals,
            IF Op(c) = "statement_key" /\ Needs(c) = "statement" THEN "seed"
            ELSE IF Op(c) \in {"presence", "attest", "sign"} THEN "ask" ELSE "sign")

ReadSeed(c) ==
  /\ At(c, "seed")
  /\ IF item[Needs(c)] = None THEN Goes(c, "make") ELSE HoldsSeed(c, item[Needs(c)])
  /\ Quietly /\ UNCHANGED stored

\* Seeded bug: the drawn seed is written, whatever is there by now.
MakeSeedAnyway(c) ==
  /\ At(c, "make")
  /\ item' = [item EXCEPT ![Needs(c)] = c]
  /\ HoldsSeed(c, c)
  /\ Quietly /\ UNCHANGED alien

\* The drawn seed is added, if there is still none.
MakeSeed(c) ==
  /\ At(c, "make")
  /\ IF item[Needs(c)] = None
     THEN item' = [item EXCEPT ![Needs(c)] = c] /\ HoldsSeed(c, c)
     ELSE UNCHANGED item /\ Goes(c, "again")
  /\ Quietly /\ UNCHANGED alien

\* Another first use came first: its seed is the one.
ReadSeedAgain(c) ==
  /\ At(c, "again")
  /\ HoldsSeed(c, item[Needs(c)])
  /\ Quietly /\ UNCHANGED stored

\* The owner approves what keyd told her; the prompt may take minutes.
Approved(c) ==
  /\ At(c, "ask")
  /\ Goes(c, IF Op(c) \in {"presence", "sign"} THEN "sign"
             ELSE IF Op(c) = "attest" THEN "raise"
             ELSE IF Op(c) = "pin" \/ (Op(c) \in Imports /\ work[c].saw = None) THEN "pin"
             ELSE IF Op(c) \in Imports THEN "put"
             ELSE IF Op(c) = "remove" THEN "evict" ELSE "delete")
  /\ Quietly /\ UNCHANGED stored

\* replace: an item keyd does not control is deleted, then made anew.
WritePin(c) ==
  /\ At(c, "pin")
  /\ IF "pin" \in alien
     THEN /\ item' = [item EXCEPT !.pin = None]
          /\ Goes(c, "pin")
     ELSE /\ item' = [item EXCEPT !.pin = work[c].req.names]
          /\ Goes(c, IF Op(c) = "pin" THEN "answer" ELSE "put")
  /\ alien' = alien \ {"pin"}
  /\ Quietly

\* Seeded bug: a create-only import writes like any other.
PutKeyAnyway(c) ==
  /\ At(c, "put")
  /\ item' = IF Op(c) = "import" THEN [item EXCEPT !.soul = c] ELSE [item EXCEPT !.app = c]
  /\ Goes(c, "answer")
  /\ Quietly /\ UNCHANGED alien

\* The key is written and read back; a create-only import only adds it.
PutKey(c) ==
  /\ At(c, "put")
  /\ item' = IF Op(c) = "import" THEN [item EXCEPT !.soul = c]
             ELSE IF Op(c) = "app_import_new" /\ item.app # None THEN item
             ELSE [item EXCEPT !.app = c]
  /\ Goes(c, "answer")
  /\ Quietly /\ UNCHANGED alien

\* The next record, once one that keyd does not control is deleted.
Fresh == [NoRecord EXCEPT !.era = item.owners.era + 1]
Raised(c) == [digest     |-> work[c].req.names,
              generation |-> work[c].base.generation + 1,
              era        |-> item.owners.era]

RaiseRecord(c) ==
  /\ At(c, "raise")
  /\ IF "owners" \in alien
     THEN /\ item' = [item EXCEPT !.owners = Fresh]
          /\ Goes(c, "raise")
     ELSE /\ item' = [item EXCEPT !.owners = Raised(c)]
          /\ Moves(c, [work[c] EXCEPT !.base = Raised(c)], "sign")
  /\ alien' = alien \ {"owners"}
  /\ Quietly

\* The thread answers a signature, or a public half, of every seed it holds.
Sign(c) ==
  /\ At(c, "sign")
  /\ handed' = handed \cup {[of |-> s, seed |-> work[c].seed[s]] :
                              s \in {t \in Seeds : work[c].seed[t] # None}}
  /\ attested' = IF Op(c) \in {"attest", "pins_status"} THEN attested \cup {work[c].base}
                 ELSE attested
  /\ Goes(c, "answer")
  /\ UNCHANGED <<stored, channel, seen, clock, budget, spent>>

DeleteKey(c) ==
  /\ At(c, "delete")
  /\ item' = IF Op(c) = "remove" THEN [item EXCEPT !.soul = None] ELSE [item EXCEPT !.app = None]
  /\ Goes(c, "answer")
  /\ Quietly /\ UNCHANGED alien

OwnerStep(c) ==
  \/ TakeLock(c) \/ FindAbsent(c) \/ ReadPin(c) \/ ReadRecord(c)
  \/ ReadSeed(c) \/ MakeSeed(c) \/ ReadSeedAgain(c) \/ Approved(c)
  \/ WritePin(c) \/ PutKey(c) \/ RaiseRecord(c) \/ Sign(c) \/ DeleteKey(c)

-----------------------------------------------------------------------------
(* The souls' calls. *)

ReadDaemonKey(c) ==
  /\ At(c, "daemon")
  /\ Moves(c, [work[c] EXCEPT !.saw = Pinned], IF Pinned = None THEN "answer" ELSE "spend")
  /\ Quietly /\ UNCHANGED stored

\* Seeded bug: a nonce is forgotten one tick before its grant has expired.
KeepsTooShort(now) == {g \in seen : Lifetime[g] > now + 1}

\* `retain`: what is still worth remembering at `now`.
Keeps(now) == {g \in seen : Lifetime[g] > now}

AfterSpend(tool) ==
  IF tool = "token_cache_put" THEN "keep" ELSE IF tool = "token_cache_evict" THEN "evict" ELSE "cache"

\* grant::verify, under the lock of the nonces, by the clock read at the start.
Spend(c) ==
  /\ At(c, "spend")
  /\ LET g     == work[c].req.names
         now   == work[c].now
         valid == Signer[g] = work[c].saw /\ Lifetime[g] > now
     IN  IF valid /\ g \notin Keeps(now)
         THEN /\ seen' = Keeps(now) \cup {g}
              /\ spent' = [spent EXCEPT ![g] = @ + 1]
              /\ Goes(c, AfterSpend(Tool[g]))
         ELSE /\ seen' = IF valid THEN Keeps(now) ELSE seen
              /\ UNCHANGED spent
              /\ Goes(c, "answer")
  /\ UNCHANGED <<stored, channel, clock, budget, handed, attested>>

\* A cached token serves while it has some life left.
ReadCache(c) ==
  /\ At(c, "cache")
  /\ \/ item.cache /\ Goes(c, "answer")
     \/ Goes(c, IF Tool[work[c].req.names] \in CacheTools THEN "answer" ELSE "key")
  /\ Quietly /\ UNCHANGED stored

\* The grant says which key; the other is never looked at.
ReadKey(c) ==
  /\ At(c, "key")
  /\ LET held == IF Scope[work[c].req.names] = "app" THEN item.app # None ELSE item.soul # None
     IN  Goes(c, IF held THEN "mint" ELSE "answer")
  /\ Quietly /\ UNCHANGED stored

Minted(c) ==
  /\ At(c, "mint")
  /\ Goes(c, "keep")
  /\ Quietly /\ UNCHANGED stored

KeepToken(c) ==
  /\ At(c, "keep")
  /\ item' = [item EXCEPT !.cache = TRUE]
  /\ Goes(c, "answer")
  /\ Quietly /\ UNCHANGED alien

\* An eviction, by a call or by the removal of the soul's key, which goes on
\* though the eviction fails.
EvictToken(c) ==
  /\ At(c, "evict")
  /\ \/ item' = [item EXCEPT !.cache = FALSE]
     \/ Op(c) = "remove" /\ UNCHANGED item
  /\ Goes(c, IF Op(c) = "remove" THEN "delete" ELSE "answer")
  /\ Quietly /\ UNCHANGED alien

SoulStep(c) ==
  \/ ReadDaemonKey(c) \/ Spend(c) \/ ReadCache(c) \/ ReadKey(c) \/ Minted(c)
  \/ KeepToken(c) \/ EvictToken(c)

-----------------------------------------------------------------------------
(* The environment. *)

\* Time passes, whatever the threads are at.
Tick ==
  /\ clock < MaxClock
  /\ Spends("ticks")
  /\ clock' = clock + 1
  /\ UNCHANGED <<stored, channel, handler>>

\* The process dies, with its threads and all it remembers, and is started again.
Dies ==
  /\ Spends("deaths")
  /\ registry' = <<>>
  /\ conn' = [c \in Conn |-> IF conn[c] \in {"open", "busy"} THEN "lost" ELSE conn[c]]
  /\ work' = [c \in Conn |-> Rest]
  /\ ownerLock' = None
  /\ seen' = {}
  /\ spent' = [g \in Grant |-> 0]
  /\ UNCHANGED <<stored, clock, gone, handed, attested>>

\* keyd finds that the access to an item is no longer its own alone.
LosesControl(i) ==
  /\ IF i = "pin" THEN item.pin # None ELSE item.owners.digest # None
  /\ i \notin alien
  /\ Spends("aliens")
  /\ alien' = alien \cup {i}
  /\ UNCHANGED <<item, channel, handler, clock>>

\* An App-level key comes from elsewhere, as while the owner is being asked.
KeyAppears ==
  /\ item.app = None
  /\ Spends("outside")
  /\ item' = [item EXCEPT !.app = Elsewhere]
  /\ UNCHANGED <<alien, channel, handler, clock>>

HangsUp(c) ==
  /\ conn[c] = "busy"
  /\ c \notin gone
  /\ Spends("leaves")
  /\ gone' = gone \cup {c}
  /\ UNCHANGED <<stored, registry, conn, handler, clock>>

Handles(c) == OwnerStep(c) \/ SoulStep(c) \/ Refused(c) \/ Answer(c)

Next ==
  \/ \E c \in Conn :
       \/ Connect(c) \/ Closes(c) \/ HangsUp(c) \/ Handles(c)
       \/ \E req \in Request : Claim(c, req)
  \/ Tick \/ Dies \/ KeyAppears
  \/ \E i \in {"pin", "owners"} : LosesControl(i)

Spec == Init /\ [][Next]_vars

\* A thread that has a request goes on with it; a prompt times out.
FairSpec == Spec /\ \A c \in Conn : WF_vars(Handles(c))

-----------------------------------------------------------------------------
(* What keyd promises. *)

\* A process of keyd lets a grant through once: "keyd spends each grant nonce
\* once" (docs/keyd-protocol.md:720).  Not so: a call that read the clock before
\* its grant's end (server.rs:152) and reaches the lock of the nonces after it
\* (171) may find that another call made keyd forget the nonce meanwhile
\* (grant.rs:86).
SpentOnce == \A g \in Grant : spent[g] <= 1

\* While a grant is alive it passes once, however its calls, the calls of others
\* that make keyd forget, and the clock interleave: whoever passes it again does
\* so past its end (grant.rs, Replay; server.rs:152-171).
OnceWhileAlive ==
  [][\A g \in Grant : spent'[g] > spent[g] /\ spent[g] > 0 => Lifetime[g] <= clock]_vars

\* No caller is handed a key keyd will not sign with: first uses that race, a
\* death between any two steps and calls without the owner's lock all end up
\* with the seed that is stored (store.rs, `seed`).
OneSeed == \A h \in handed : item[h.of] = h.seed

\* Two attestations of one generation of the owner's keys are of the same keys,
\* whether given with an approval, after it or across a death; only a record
\* keyd lost control of starts the count anew (server.rs, owner_pins_attest).
AttestationsAgree ==
  \A a, b \in attested :
    a.era = b.era /\ a.generation = b.generation => a.digest = b.digest

\* Still what it was when the owner was asked, as far as keyd controls it.
StillPinned(c) == Pinned \in {work[c].saw, None}

\* There is a record of the owner's keys, which keyd controls.
HasRecord == "owners" \notin alien /\ item.owners.digest # None

\* What an approval replaces is what the owner was asked about: a pin replaced
\* is the pin she was told of, an import never replaces one, a create-only
\* import replaces no key, however it came, and an approved set of keys follows
\* the one before (server.rs: owner_import, owner_app_import, owner_pin,
\* owner_pins_attest, all under `owner_lock` across the prompt).
ReplacesWhatWasAsked ==
  [][ \A c \in OwnerConn :
        /\ At(c, "pin") /\ item'.pin # item.pin =>
             StillPinned(c) /\ (Pinned # None => Op(c) = "pin")
        /\ At(c, "put") /\ Op(c) = "app_import_new" /\ item'.app # item.app => item.app = None
        /\ At(c, "raise") /\ item'.owners # item.owners /\ HasRecord =>
             work[c].base = item.owners ]_vars

\* A request keyd has begun to act on is answered, unless its client hangs up or
\* keyd dies: no eviction takes its connection, and no lock is held for ever
\* (server.rs, `claim` and evict_idle).
ClaimedIsAnswered ==
  \A c \in Conn : conn[c] = "busy" ~> conn[c] \in {"open", "lost"} \/ c \in gone
=============================================================================
