------------------------------ MODULE FileLock ------------------------------
(***************************************************************************)
(* The directory lock every store of this repository is guarded by         *)
(* (file-lock.mjs): `withLock` acquires a lock directory by an exclusive   *)
(* mkdir, stamps an owner file into it, runs one operation and releases;   *)
(* `reclaimStaleLock` takes over a directory older than STALE_LOCK_MS;     *)
(* `withTakeover` is the mutex directory both of them change the lock      *)
(* under.                                                                  *)
(*                                                                         *)
(* Every file-system call is one step, so the processes interleave between *)
(* any two of them.  Time appears only as the two ages the code compares:  *)
(* a directory is `old` once its mtime is past the staleness window.  What *)
(* may outlast a window, and where a process may die, are constants.       *)
(***************************************************************************)
EXTENDS Naturals

CONSTANTS
  Proc,            \* processes that share one lock path
  Inode,           \* inode numbers the file system hands out, and reuses
  KeepLiveOwners,  \* the keepLiveOwners option of withLock
  SlowPhases,      \* phases that may outlast the staleness window
  CrashPhases,     \* phases a process may die in
  PidsReused,      \* processes whose pid looks alive after they died
  MaxCalls,        \* bound: calls of withLock by one process
  NoLock,          \* no directory at the lock path
  NoMutex,         \* no directory at `<lock>.takeover`
  NoToken,         \* no readable owner file
  NoInode          \* nothing judged yet

Phases == {"waiting", "stamp", "operation", "takeover"}

\* `lockOwnerToken()`: unique to one call of withLock, and naming its process.
Token == [pid : Proc, uuid : Nat]

\* `maker` is a history value: the call whose mkdir created the directory.
Directory == [ino : Inode, old : BOOLEAN, owner : Token \cup {NoToken}, maker : Token]

\* `by` is a history value: the process whose mkdir created the mutex.
Mutex == [by : Proc, old : BOOLEAN]

ASSUME FileLockAssumption ==
  /\ KeepLiveOwners \in BOOLEAN
  /\ SlowPhases \subseteq Phases
  /\ CrashPhases \subseteq Phases
  /\ PidsReused \subseteq Proc
  /\ MaxCalls \in Nat
  /\ NoLock \notin Directory
  /\ NoMutex \notin Mutex
  /\ NoToken \notin Token
  /\ NoInode \notin Inode

VARIABLES
  lock,      \* the directory at the lock path, or NoLock
  takeover,  \* the directory at `<lock>.takeover`, or NoMutex
  pc,        \* where each process is inside withLock
  call,      \* each process's current call of withLock
  seen,      \* the inode a waiter judged stale (`observed`)
  moved      \* the directory a reclaimer renamed away, or NoLock

vars == <<lock, takeover, pc, call, seen, moved>>

OwnToken(p) == [pid |-> p, uuid |-> call[p]]

Waiting   == {"idle", "try", "stat", "want_reclaim", "collect_reclaim"}
Stamping  == {"stamp", "stamp_failed"}
Holding   == {"operation", "want_release", "collect_release"}
InMutex   == {"reclaim_stat", "reclaim_owner", "reclaim_rename", "reclaim_moved",
              "reclaim_drop", "release_check", "release_drop"}

Phase(p) ==
  IF pc[p] \in Stamping THEN "stamp"
  ELSE IF pc[p] \in Holding THEN "operation"
  ELSE IF pc[p] \in InMutex THEN "takeover"
  ELSE "waiting"

TypeOK ==
  /\ lock \in Directory \cup {NoLock}
  /\ takeover \in Mutex \cup {NoMutex}
  /\ pc \in [Proc -> Waiting \cup Stamping \cup Holding \cup InMutex \cup {"dead"}]
  /\ call \in [Proc -> Nat]
  /\ seen \in [Proc -> Inode \cup {NoInode}]
  /\ moved \in [Proc -> Directory \cup {NoLock}]

Init ==
  /\ lock = NoLock
  /\ takeover = NoMutex
  /\ pc = [p \in Proc |-> "idle"]
  /\ call = [p \in Proc |-> 0]
  /\ seen = [p \in Proc |-> NoInode]
  /\ moved = [p \in Proc |-> NoLock]

Go(p, from, to) ==
  /\ pc[p] = from
  /\ pc' = [pc EXCEPT ![p] = to]

-----------------------------------------------------------------------------
(* Acquiring: withLock's attempt loop. *)

Begin(p) ==
  /\ call[p] < MaxCalls
  /\ Go(p, "idle", "try")
  /\ call' = [call EXCEPT ![p] = @ + 1]
  /\ UNCHANGED <<lock, takeover, seen, moved>>

\* A new directory's inode may be one the file system used before, but not one
\* of a directory that still exists under another name.
MkdirLock(p) ==
  /\ lock = NoLock
  /\ Go(p, "try", "stamp")
  /\ \E i \in {j \in Inode : \A q \in Proc : moved[q] # NoLock => moved[q].ino # j} :
       lock' = [ino |-> i, old |-> FALSE, owner |-> NoToken, maker |-> OwnToken(p)]
  /\ UNCHANGED <<takeover, call, seen, moved>>

MkdirLockExists(p) ==
  /\ lock # NoLock
  /\ Go(p, "try", "stat")
  /\ UNCHANGED <<lock, takeover, call, seen, moved>>

LockIsOld == lock # NoLock /\ lock.old

StatLockFresh(p) ==
  /\ ~LockIsOld
  /\ Go(p, "stat", "try")
  /\ UNCHANGED <<lock, takeover, call, seen, moved>>

StatLockStale(p) ==
  /\ LockIsOld
  /\ Go(p, "stat", "want_reclaim")
  /\ seen' = [seen EXCEPT ![p] = lock.ino]
  /\ UNCHANGED <<lock, takeover, call, moved>>

\* 200 attempts: "timed out waiting for ...".
AcquireTimesOut(p) ==
  /\ lock # NoLock
  /\ Go(p, "try", "idle")
  /\ UNCHANGED <<lock, takeover, call, seen, moved>>

\* The owner file is written at the path, into whatever directory is there.
\* Creating it refreshes the directory's mtime; overwriting one does not.
Stamp(p) ==
  /\ lock # NoLock
  /\ Go(p, "stamp", "operation")
  /\ lock' = [lock EXCEPT !.owner = OwnToken(p),
                          !.old = lock.old /\ lock.owner # NoToken]
  /\ UNCHANGED <<takeover, call, seen, moved>>

\* The write fails: no directory there (ENOENT), or any other I/O error.
StampFails(p) ==
  /\ Go(p, "stamp", "stamp_failed")
  /\ UNCHANGED <<lock, takeover, call, seen, moved>>

RemoveUnstamped(p) ==
  /\ Go(p, "stamp_failed", "idle")
  /\ lock' = NoLock
  /\ UNCHANGED <<takeover, call, seen, moved>>

EndOperation(p) ==
  /\ Go(p, "operation", "want_release")
  /\ UNCHANGED <<lock, takeover, call, seen, moved>>

-----------------------------------------------------------------------------
(* The takeover mutex: withTakeover, entered to reclaim or to release. *)

MkdirTakeover(p) ==
  /\ takeover = NoMutex
  /\ \/ Go(p, "want_reclaim", "reclaim_stat")
     \/ Go(p, "want_release", "release_check")
  /\ takeover' = [by |-> p, old |-> FALSE]
  /\ UNCHANGED <<lock, call, seen, moved>>

StatTakeoverStale(p) ==
  /\ takeover # NoMutex
  /\ takeover.old
  /\ \/ Go(p, "want_reclaim", "collect_reclaim")
     \/ Go(p, "want_release", "collect_release")
  /\ UNCHANGED <<lock, takeover, call, seen, moved>>

\* The removal trusts the stat before it: it takes whatever is there now.
CollectTakeover(p) ==
  /\ \/ Go(p, "collect_reclaim", "want_reclaim")
     \/ Go(p, "collect_release", "want_release")
  /\ takeover' = NoMutex
  /\ UNCHANGED <<lock, call, seen, moved>>

\* withTakeover returns false after 200 attempts, the last of which found the
\* mutex held and fresh: a reclaim is retried, a release is given up and its
\* lock directory stays.
TakeoverTimesOut(p) ==
  /\ takeover # NoMutex
  /\ ~takeover.old
  /\ \/ Go(p, "want_reclaim", "try")
     \/ Go(p, "want_release", "idle")
  /\ UNCHANGED <<lock, takeover, call, seen, moved>>

DropTakeover(p) ==
  /\ \/ Go(p, "reclaim_drop", "try")
     \/ Go(p, "release_drop", "idle")
  /\ takeover' = NoMutex
  /\ UNCHANGED <<lock, call, seen, moved>>

-----------------------------------------------------------------------------
(* Reclaiming and releasing, under the mutex. *)

\* Seeded bugs: nobody is alive; an owner that cannot be read is.
NobodyAlive(token) == FALSE
UnreadableAlive(token) == token = NoToken \/ pc[token.pid] # "dead"

\* lockOwnerAlive(parseLockOwner(token)): no readable token is no live owner.
OwnerAlive(token) ==
  /\ token # NoToken
  /\ pc[token.pid] # "dead" \/ token.pid \in PidsReused

ReclaimStat(p) ==
  /\ IF LockIsOld /\ lock.ino = seen[p]
     THEN Go(p, "reclaim_stat", IF KeepLiveOwners THEN "reclaim_owner" ELSE "reclaim_rename")
     ELSE Go(p, "reclaim_stat", "reclaim_drop")
  /\ UNCHANGED <<lock, takeover, call, seen, moved>>

ReclaimReadOwner(p) ==
  /\ Go(p, "reclaim_owner",
        IF lock # NoLock /\ OwnerAlive(lock.owner) THEN "reclaim_drop" ELSE "reclaim_rename")
  /\ UNCHANGED <<lock, takeover, call, seen, moved>>

\* The rename moves whatever is at the path; with nothing there it throws.
ReclaimRename(p) ==
  /\ Go(p, "reclaim_rename", IF lock = NoLock THEN "reclaim_drop" ELSE "reclaim_moved")
  /\ moved' = [moved EXCEPT ![p] = lock]
  /\ lock' = NoLock
  /\ UNCHANGED <<takeover, call, seen>>

\* What was moved is removed if it is what was judged, else put back; the
\* rename back fails (ENOTEMPTY) over a directory that already has an owner.
ReclaimSettle(p) ==
  /\ Go(p, "reclaim_moved", "reclaim_drop")
  /\ lock' = IF moved[p].ino # seen[p] /\ (lock = NoLock \/ lock.owner = NoToken)
             THEN moved[p] ELSE lock
  /\ moved' = [moved EXCEPT ![p] = NoLock]
  /\ UNCHANGED <<takeover, call, seen>>

Release(p) ==
  /\ Go(p, "release_check", "release_drop")
  /\ lock' = IF lock # NoLock /\ lock.owner = OwnToken(p) THEN NoLock ELSE lock
  /\ UNCHANGED <<takeover, call, seen, moved>>

-----------------------------------------------------------------------------
(* The environment: death and the passing of the two windows. *)

Crash(p) ==
  /\ pc[p] # "dead"
  /\ Phase(p) \in CrashPhases
  /\ pc' = [pc EXCEPT ![p] = "dead"]
  /\ UNCHANGED <<lock, takeover, call, seen, moved>>

\* The call that made the lock directory still runs.
MakerLives(d) ==
  /\ call[d.maker.pid] = d.maker.uuid
  /\ Phase(d.maker.pid) # "waiting"

LockAges ==
  /\ lock # NoLock
  /\ ~lock.old
  /\ MakerLives(lock) => Phase(lock.maker.pid) \in SlowPhases
  /\ lock' = [lock EXCEPT !.old = TRUE]
  /\ UNCHANGED <<takeover, pc, call, seen, moved>>

TakeoverAges ==
  /\ takeover # NoMutex
  /\ ~takeover.old
  /\ pc[takeover.by] \in InMutex => "takeover" \in SlowPhases
  /\ takeover' = [takeover EXCEPT !.old = TRUE]
  /\ UNCHANGED <<lock, pc, call, seen, moved>>

Acquire(p) ==
  \/ MkdirLock(p) \/ MkdirLockExists(p) \/ StatLockFresh(p) \/ StatLockStale(p)
  \/ Stamp(p) \/ RemoveUnstamped(p)

Takeover(p) ==
  \/ MkdirTakeover(p) \/ StatTakeoverStale(p) \/ CollectTakeover(p) \/ DropTakeover(p)
  \/ ReclaimStat(p) \/ ReclaimReadOwner(p) \/ ReclaimRename(p) \/ ReclaimSettle(p)
  \/ Release(p)

Step(p) == Acquire(p) \/ EndOperation(p) \/ Takeover(p)

Next ==
  \/ \E p \in Proc :
       \/ Begin(p) \/ Step(p)
       \/ StampFails(p) \/ AcquireTimesOut(p) \/ TakeoverTimesOut(p)
       \/ Crash(p)
  \/ LockAges
  \/ TakeoverAges

Spec == Init /\ [][Next]_vars

\* A running withLock call keeps executing, and both windows do pass.  Nothing
\* makes a caller call again, give up, crash or meet an I/O error.
Fairness ==
  /\ \A p \in Proc : WF_vars(Step(p))
  /\ WF_vars(LockAges)
  /\ WF_vars(TakeoverAges)

FairSpec == Spec /\ Fairness

-----------------------------------------------------------------------------
(* What the lock promises. *)

\* The conditions under which it promises it: a process reaches its owner file
\* and leaves the mutex within the two windows, never dies holding the mutex,
\* and an operation outlasts the window only under keepLiveOwners.
Timely ==
  /\ "stamp" \notin SlowPhases
  /\ "takeover" \notin SlowPhases \cup CrashPhases
  /\ "operation" \in SlowPhases => KeepLiveOwners

\* No two calls are inside their operation at once: the reason withLock exists
\* (file-lock.mjs:18-33).
MutualExclusion ==
  \A p, q \in Proc : pc[p] = "operation" /\ pc[q] = "operation" => p = q

\* A call inside its operation still has its directory, with its own token, at
\* the lock path: nobody reclaimed it, released it or overwrote its owner file
\* (file-lock.mjs:36 and 251-254).
HolderKeepsLock ==
  \A p \in Proc : pc[p] = "operation" => lock # NoLock /\ lock.owner = OwnToken(p)

\* A live-owner lock is reclaimed only from an owner that is gone: what a
\* reclaimer renamed away was not made by a call that still runs
\* (file-lock.mjs:36).
ReclaimedOnlyFromGone ==
  \A p \in Proc : moved[p] # NoLock => ~MakerLives(moved[p])

\* While the mutex is held nothing can replace the lock, so what a reclaimer
\* renames is what it inspected (file-lock.mjs:29-33 and 199).
RenamesWhatItInspected ==
  \A p \in Proc : pc[p] = "reclaim_moved" => moved[p].ino = seen[p]

\* A lock left behind by a dead process does not block the others for good:
\* if someone keeps trying, the directory is eventually gone or reclaimed.
CrashedOwnerIsReclaimed ==
  \A p, q \in Proc :
    /\ lock # NoLock
    /\ lock.maker.pid = p
    /\ pc[p] = "dead"
    /\ pc[q] \in {"try", "stat"}
    ~> \/ lock = NoLock
       \/ lock.maker.pid # p
       \/ pc[q] \in {"idle", "dead"}
=============================================================================
