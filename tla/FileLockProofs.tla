--------------------------- MODULE FileLockProofs ---------------------------
(***************************************************************************)
(* For any number of processes, inodes and calls: under `Timely`, the      *)
(* directory lock is mutually exclusive, a running operation keeps its     *)
(* directory, and a reclaimer only ever moves the directory it inspected,  *)
(* made by a call that is gone.                                            *)
(*                                                                         *)
(* Mutual exclusion alone is not inductive.  The argument is the one in    *)
(* the source's comment: the mutex has one holder (MutexInv), what a       *)
(* reclaimer judged under it stays true until it renames (ReclaimInv), and *)
(* each holder's directory is its own (HoldInv), because whoever could     *)
(* have made it old or unowned is excluded by Timely.                      *)
(***************************************************************************)
EXTENDS FileLock, TLAPS

\* Between the stamp and the release's removal, a call owns its directory.
Owning == {"operation", "want_release", "release_check"}

\* The mutex has exactly one holder, is never old, and is never collected.
MutexInv ==
  /\ takeover # NoMutex => ~takeover.old /\ pc[takeover.by] \in InMutex
  /\ \A p \in Proc :
       /\ pc[p] \in InMutex => takeover # NoMutex /\ takeover.by = p
       /\ pc[p] \notin {"collect_reclaim", "collect_release"}

\* A call that stamps or owns sees its own directory at the path.
HoldInv ==
  \A p \in Proc :
    /\ pc[p] \in Stamping =>
         lock # NoLock /\ lock.maker = OwnToken(p) /\ ~lock.old /\ lock.owner = NoToken
    /\ pc[p] \in Owning =>
         /\ lock # NoLock /\ lock.maker = OwnToken(p) /\ lock.owner = OwnToken(p)
         /\ lock.old => KeepLiveOwners

\* A directory was made by an earlier call, or by one past its attempt loop.
Spent(d) ==
  /\ d.maker.uuid \leq call[d.maker.pid]
  /\ d.maker.uuid = call[d.maker.pid] =>
       pc[d.maker.pid] \in Stamping \cup Owning \cup {"release_drop", "idle", "dead"}

MakerInv ==
  /\ lock # NoLock => Spent(lock)
  /\ \A q \in Proc : moved[q] # NoLock => Spent(moved[q])

\* What a reclaimer judged under the mutex is still true, and what it moved is
\* what it judged.
ReclaimInv ==
  \A q \in Proc :
    /\ pc[q] = "reclaim_owner" => LockIsOld /\ lock.ino = seen[q] /\ KeepLiveOwners
    /\ pc[q] = "reclaim_rename" =>
         /\ LockIsOld
         /\ lock.ino = seen[q]
         /\ KeepLiveOwners => ~OwnerAlive(lock.owner)
    /\ IF pc[q] = "reclaim_moved"
       THEN moved[q] # NoLock /\ moved[q].ino = seen[q] /\ ~MakerLives(moved[q])
       ELSE moved[q] = NoLock

IInv == TypeOK /\ MutexInv /\ HoldInv /\ MakerInv /\ ReclaimInv

-----------------------------------------------------------------------------
(* What the phases mean, once and for all. *)

\* The phases, as sets of places in the code.
LEMMA PhaseFacts ==
  ASSUME NEW p \in Proc
  PROVE  /\ Phase(p) = "stamp" <=> pc[p] \in Stamping
         /\ Phase(p) = "operation" <=> pc[p] \in Holding
         /\ Phase(p) = "takeover" <=> pc[p] \in InMutex
         /\ Phase(p) = "waiting" <=> pc[p] \notin Stamping \cup Holding \cup InMutex
BY DEF Phase, Stamping, Holding, InMutex

\* Nobody has the lock or the mutex.
LEMMA InitIInv == Init => IInv
BY FileLockAssumption
   DEF Init, IInv, TypeOK, MutexInv, HoldInv, MakerInv, ReclaimInv, Waiting, Stamping,
       Owning, InMutex, Holding



\* The lock directory has one maker, so it has one holder.
LEMMA SoleHolder ==
  ASSUME HoldInv, NEW p \in Proc, NEW q \in Proc,
         pc[p] \in Stamping \cup Owning, pc[q] \in Stamping \cup Owning
  PROVE  p = q
<1>1. OwnToken(p) = OwnToken(q)
  BY DEF HoldInv
<1>2. QED
  BY <1>1 DEF OwnToken

\* Types are kept.
LEMMA NextTypeOK == TypeOK /\ [Next]_vars => TypeOK'
<1> SUFFICES ASSUME TypeOK, [Next]_vars PROVE TypeOK'
  OBVIOUS
<1> USE FileLockAssumption DEF LockIsOld, TypeOK, Waiting, Stamping, Holding, InMutex, Directory, Mutex, Token, OwnToken, Go
<1>1. ASSUME NEW p \in Proc, Begin(p) PROVE TypeOK'
  BY <1>1 DEF Begin
<1>2. ASSUME NEW p \in Proc, MkdirLock(p) PROVE TypeOK'
  BY <1>2 DEF MkdirLock
<1>3. ASSUME NEW p \in Proc, MkdirLockExists(p) PROVE TypeOK'
  BY <1>3 DEF MkdirLockExists
<1>4. ASSUME NEW p \in Proc, StatLockFresh(p) PROVE TypeOK'
  BY <1>4 DEF StatLockFresh
<1>5. ASSUME NEW p \in Proc, StatLockStale(p) PROVE TypeOK'
  BY <1>5 DEF StatLockStale
<1>6. ASSUME NEW p \in Proc, Stamp(p) PROVE TypeOK'
  BY <1>6 DEF Stamp
<1>7. ASSUME NEW p \in Proc, RemoveUnstamped(p) PROVE TypeOK'
  BY <1>7 DEF RemoveUnstamped
<1>8. ASSUME NEW p \in Proc, EndOperation(p) PROVE TypeOK'
  BY <1>8 DEF EndOperation
<1>9. ASSUME NEW p \in Proc, MkdirTakeover(p) PROVE TypeOK'
  BY <1>9 DEF MkdirTakeover
<1>10. ASSUME NEW p \in Proc, StatTakeoverStale(p) PROVE TypeOK'
  BY <1>10 DEF StatTakeoverStale
<1>11. ASSUME NEW p \in Proc, CollectTakeover(p) PROVE TypeOK'
  BY <1>11 DEF CollectTakeover
<1>12. ASSUME NEW p \in Proc, DropTakeover(p) PROVE TypeOK'
  BY <1>12 DEF DropTakeover
<1>13. ASSUME NEW p \in Proc, ReclaimStat(p) PROVE TypeOK'
  BY <1>13 DEF ReclaimStat
<1>14. ASSUME NEW p \in Proc, ReclaimReadOwner(p) PROVE TypeOK'
  BY <1>14 DEF ReclaimReadOwner
<1>15. ASSUME NEW p \in Proc, ReclaimRename(p) PROVE TypeOK'
  BY <1>15 DEF ReclaimRename
<1>16. ASSUME NEW p \in Proc, ReclaimSettle(p) PROVE TypeOK'
  BY <1>16 DEF ReclaimSettle
<1>17. ASSUME NEW p \in Proc, Release(p) PROVE TypeOK'
  BY <1>17 DEF Release
<1>18. ASSUME NEW p \in Proc, StampFails(p) PROVE TypeOK'
  BY <1>18 DEF StampFails
<1>19. ASSUME NEW p \in Proc, AcquireTimesOut(p) PROVE TypeOK'
  BY <1>19 DEF AcquireTimesOut
<1>20. ASSUME NEW p \in Proc, TakeoverTimesOut(p) PROVE TypeOK'
  BY <1>20 DEF TakeoverTimesOut
<1>21. ASSUME NEW p \in Proc, Crash(p) PROVE TypeOK'
  BY <1>21 DEF Crash
<1>22. ASSUME LockAges PROVE TypeOK'
  BY <1>22 DEF LockAges
<1>23. ASSUME TakeoverAges PROVE TypeOK'
  BY <1>23 DEF TakeoverAges
<1>24. CASE UNCHANGED vars
  BY <1>24 DEF vars
<1>25. QED
  BY <1>1, <1>2, <1>3, <1>4, <1>5, <1>6, <1>7, <1>8, <1>9, <1>10, <1>11, <1>12, <1>13, <1>14, <1>15, <1>16, <1>17, <1>18, <1>19, <1>20, <1>21, <1>22, <1>23, <1>24 DEF Next, Step, Acquire, Takeover

\* The mutex has one holder, and is never collected from one.
LEMMA NextMutexInv == Timely /\ IInv /\ [Next]_vars => MutexInv'
<1> SUFFICES ASSUME Timely, IInv, [Next]_vars PROVE MutexInv'
  OBVIOUS
<1> USE FileLockAssumption
    DEF IInv, TypeOK, MutexInv, InMutex, Go, Mutex, Waiting, Stamping, Holding
<1>1. ASSUME NEW p \in Proc, Begin(p) PROVE MutexInv'
  BY <1>1 DEF Begin
<1>2. ASSUME NEW p \in Proc, MkdirLock(p) PROVE MutexInv'
  BY <1>2 DEF MkdirLock
<1>3. ASSUME NEW p \in Proc, MkdirLockExists(p) PROVE MutexInv'
  BY <1>3 DEF MkdirLockExists
<1>4. ASSUME NEW p \in Proc, StatLockFresh(p) PROVE MutexInv'
  BY <1>4 DEF StatLockFresh
<1>5. ASSUME NEW p \in Proc, StatLockStale(p) PROVE MutexInv'
  BY <1>5 DEF StatLockStale
<1>6. ASSUME NEW p \in Proc, Stamp(p) PROVE MutexInv'
  BY <1>6 DEF Stamp
<1>7. ASSUME NEW p \in Proc, RemoveUnstamped(p) PROVE MutexInv'
  BY <1>7 DEF RemoveUnstamped
<1>8. ASSUME NEW p \in Proc, EndOperation(p) PROVE MutexInv'
  BY <1>8 DEF EndOperation
<1>9. ASSUME NEW p \in Proc, MkdirTakeover(p) PROVE MutexInv'
  <2>1. takeover' \in Mutex /\ takeover'.by = p /\ ~takeover'.old
    BY <1>9 DEF MkdirTakeover
  <2>2. takeover' # NoMutex
    BY <2>1
  <2>3. pc'[p] \in InMutex /\ \A q \in Proc : q # p => pc'[q] = pc[q]
    BY <1>9 DEF MkdirTakeover
  <2>4. QED
    BY <1>9, <2>1, <2>2, <2>3 DEF MkdirTakeover
<1>10. ASSUME NEW p \in Proc, StatTakeoverStale(p) PROVE MutexInv'
  BY <1>10 DEF StatTakeoverStale
<1>11. ASSUME NEW p \in Proc, CollectTakeover(p) PROVE MutexInv'
  BY <1>11 DEF CollectTakeover
<1>12. ASSUME NEW p \in Proc, DropTakeover(p) PROVE MutexInv'
  BY <1>12 DEF DropTakeover
<1>13. ASSUME NEW p \in Proc, ReclaimStat(p) PROVE MutexInv'
  BY <1>13 DEF ReclaimStat
<1>14. ASSUME NEW p \in Proc, ReclaimReadOwner(p) PROVE MutexInv'
  BY <1>14 DEF ReclaimReadOwner
<1>15. ASSUME NEW p \in Proc, ReclaimRename(p) PROVE MutexInv'
  BY <1>15 DEF ReclaimRename
<1>16. ASSUME NEW p \in Proc, ReclaimSettle(p) PROVE MutexInv'
  BY <1>16 DEF ReclaimSettle
<1>17. ASSUME NEW p \in Proc, Release(p) PROVE MutexInv'
  BY <1>17 DEF Release
<1>18. ASSUME NEW p \in Proc, StampFails(p) PROVE MutexInv'
  BY <1>18 DEF StampFails
<1>19. ASSUME NEW p \in Proc, AcquireTimesOut(p) PROVE MutexInv'
  BY <1>19 DEF AcquireTimesOut
<1>20. ASSUME NEW p \in Proc, TakeoverTimesOut(p) PROVE MutexInv'
  BY <1>20 DEF TakeoverTimesOut
<1>21. ASSUME NEW p \in Proc, Crash(p) PROVE MutexInv'
  BY <1>21, PhaseFacts DEF Crash, Timely
<1>22. ASSUME LockAges PROVE MutexInv'
  BY <1>22 DEF LockAges, Timely
<1>23. ASSUME TakeoverAges PROVE MutexInv'
  BY <1>23 DEF TakeoverAges, Timely
<1>24. CASE UNCHANGED vars
  BY <1>24 DEF vars
<1>25. QED
  BY <1>1, <1>2, <1>3, <1>4, <1>5, <1>6, <1>7, <1>8, <1>9, <1>10, <1>11, <1>12, <1>13, <1>14, <1>15, <1>16, <1>17, <1>18, <1>19, <1>20, <1>21, <1>22, <1>23, <1>24 DEF Next, Step, Acquire, Takeover

\* Who stamps or owns sees its own directory.
LEMMA NextHoldInv == Timely /\ IInv /\ [Next]_vars => HoldInv'
<1> SUFFICES ASSUME Timely, IInv, [Next]_vars PROVE HoldInv'
  OBVIOUS
<1> USE FileLockAssumption
    DEF IInv, TypeOK, MutexInv, HoldInv, ReclaimInv, LockIsOld, OwnerAlive, InMutex, Go, Owning, Waiting, Stamping,
        Holding, OwnToken, Directory, Mutex, Token
<1>1. ASSUME NEW p \in Proc, Begin(p) PROVE HoldInv'
  BY <1>1 DEF Begin
<1>2. ASSUME NEW p \in Proc, MkdirLock(p) PROVE HoldInv'
  <2>1. lock = NoLock /\ lock' # NoLock
    <3>1. lock' \in Directory
      BY <1>2 DEF MkdirLock
    <3>2. QED
      BY <1>2, <3>1 DEF MkdirLock
  <2>2. /\ lock'.maker = OwnToken(p) /\ lock'.owner = NoToken /\ ~lock'.old
        /\ call' = call
    BY <1>2 DEF MkdirLock
  <2>3. \A q \in Proc : q # p => pc'[q] = pc[q] /\ pc[q] \notin Stamping \cup Owning
    BY <1>2, <2>1 DEF MkdirLock
  <2>4. pc'[p] = "stamp"
    BY <1>2 DEF MkdirLock
  <2>5. QED
    BY <2>1, <2>2, <2>3, <2>4
<1>3. ASSUME NEW p \in Proc, MkdirLockExists(p) PROVE HoldInv'
  BY <1>3 DEF MkdirLockExists
<1>4. ASSUME NEW p \in Proc, StatLockFresh(p) PROVE HoldInv'
  BY <1>4 DEF StatLockFresh
<1>5. ASSUME NEW p \in Proc, StatLockStale(p) PROVE HoldInv'
  BY <1>5 DEF StatLockStale
<1>6. ASSUME NEW p \in Proc, Stamp(p) PROVE HoldInv'
  <2>1. lock # NoLock /\ lock' = [lock EXCEPT !.owner = OwnToken(p), !.old = FALSE]
    BY <1>6 DEF Stamp
  <2>2. lock' \in Directory /\ lock'.owner = OwnToken(p) /\ lock'.maker = OwnToken(p) /\ ~lock'.old
    BY <1>6, <2>1 DEF Stamp
  <2>3. lock' # NoLock /\ call' = call
    BY <1>6, <2>2 DEF Stamp
  <2>4. \A q \in Proc : q # p => pc'[q] = pc[q] /\ pc[q] \notin Stamping \cup Owning
    BY <1>6, <2>1, SoleHolder DEF Stamp
  <2>5. pc'[p] = "operation"
    BY <1>6 DEF Stamp
  <2>6. QED
    BY <2>2, <2>3, <2>4, <2>5
<1>7. ASSUME NEW p \in Proc, RemoveUnstamped(p) PROVE HoldInv'
  <2>1. \A q \in Proc : q # p => pc'[q] = pc[q] /\ pc[q] \notin Stamping \cup Owning
    BY <1>7, SoleHolder DEF RemoveUnstamped
  <2>2. pc'[p] = "idle"
    BY <1>7 DEF RemoveUnstamped
  <2>3. QED
    BY <2>1, <2>2
<1>8. ASSUME NEW p \in Proc, EndOperation(p) PROVE HoldInv'
  BY <1>8 DEF EndOperation
<1>9. ASSUME NEW p \in Proc, MkdirTakeover(p) PROVE HoldInv'
  BY <1>9 DEF MkdirTakeover
<1>10. ASSUME NEW p \in Proc, StatTakeoverStale(p) PROVE HoldInv'
  BY <1>10 DEF StatTakeoverStale
<1>11. ASSUME NEW p \in Proc, CollectTakeover(p) PROVE HoldInv'
  BY <1>11 DEF CollectTakeover
<1>12. ASSUME NEW p \in Proc, DropTakeover(p) PROVE HoldInv'
  BY <1>12 DEF DropTakeover
<1>13. ASSUME NEW p \in Proc, ReclaimStat(p) PROVE HoldInv'
  BY <1>13 DEF ReclaimStat
<1>14. ASSUME NEW p \in Proc, ReclaimReadOwner(p) PROVE HoldInv'
  BY <1>14 DEF ReclaimReadOwner
<1>15. ASSUME NEW p \in Proc, ReclaimRename(p) PROVE HoldInv'
  <2>1. LockIsOld /\ (KeepLiveOwners => ~OwnerAlive(lock.owner))
    BY <1>15 DEF ReclaimRename
  <2>2. \A q \in Proc : pc[q] \notin Stamping
    BY <2>1
  <2>3. ASSUME NEW q \in Proc, pc[q] \in Owning PROVE FALSE
    <3>1. lock.owner = OwnToken(q) /\ KeepLiveOwners
      BY <2>1, <2>3
    <3>2. OwnerAlive(OwnToken(q))
      BY <2>3
    <3>3. QED
      BY <2>1, <3>1, <3>2
  <2>4. \A q \in Proc : pc'[q] \notin Stamping \cup Owning
    BY <1>15, <2>2, <2>3 DEF ReclaimRename
  <2>5. QED
    BY <2>4
<1>16. ASSUME NEW p \in Proc, ReclaimSettle(p) PROVE HoldInv'
  BY <1>16 DEF ReclaimSettle
<1>17. ASSUME NEW p \in Proc, Release(p) PROVE HoldInv'
  BY <1>17 DEF Release
<1>18. ASSUME NEW p \in Proc, StampFails(p) PROVE HoldInv'
  BY <1>18 DEF StampFails
<1>19. ASSUME NEW p \in Proc, AcquireTimesOut(p) PROVE HoldInv'
  BY <1>19 DEF AcquireTimesOut
<1>20. ASSUME NEW p \in Proc, TakeoverTimesOut(p) PROVE HoldInv'
  BY <1>20 DEF TakeoverTimesOut
<1>21. ASSUME NEW p \in Proc, Crash(p) PROVE HoldInv'
  BY <1>21 DEF Crash
<1>22. ASSUME LockAges PROVE HoldInv'
  <2>1. /\ lock # NoLock /\ lock' = [lock EXCEPT !.old = TRUE]
        /\ pc' = pc /\ call' = call
    BY <1>22 DEF LockAges
  <2>2. /\ lock' \in Directory /\ lock'.owner = lock.owner /\ lock'.maker = lock.maker
        /\ lock'.old
    BY <2>1
  <2>3. lock' # NoLock
    BY <2>2
  <2>4. ASSUME NEW q \in Proc, pc[q] \in Stamping \cup Owning
        PROVE  pc[q] \in Owning /\ KeepLiveOwners
    <3>1. lock.maker = OwnToken(q)
      BY <2>4
    <3>2. Phase(q) \in {"stamp", "operation", "takeover"}
      BY <2>4, PhaseFacts
    <3>3. Phase(q) \in SlowPhases
      BY <1>22, <3>1, <3>2 DEF LockAges, MakerLives
    <3>4. Phase(q) = "operation"
      BY <3>2, <3>3 DEF Timely
    <3>5. QED
      BY <2>4, <3>3, <3>4, PhaseFacts DEF Timely
  <2>5. QED
    BY <2>1, <2>2, <2>3, <2>4
<1>23. ASSUME TakeoverAges PROVE HoldInv'
  BY <1>23 DEF TakeoverAges
<1>24. CASE UNCHANGED vars
  BY <1>24 DEF vars
<1>25. QED
  BY <1>1, <1>2, <1>3, <1>4, <1>5, <1>6, <1>7, <1>8, <1>9, <1>10, <1>11, <1>12, <1>13, <1>14, <1>15, <1>16, <1>17, <1>18, <1>19, <1>20, <1>21, <1>22, <1>23, <1>24 DEF Next, Step, Acquire, Takeover


\* Directories were made by calls that have got that far.
LEMMA NextMakerInv == Timely /\ IInv /\ [Next]_vars => MakerInv'
<1> SUFFICES ASSUME Timely, IInv, [Next]_vars PROVE MakerInv'
  OBVIOUS
<1> USE FileLockAssumption
    DEF IInv, TypeOK, MutexInv, HoldInv, MakerInv, Spent, LockIsOld, InMutex, Go, Owning, Waiting, Stamping,
        Holding, OwnToken, Directory, Mutex, Token
<1>1. ASSUME NEW p \in Proc, Begin(p) PROVE MakerInv'
  BY <1>1 DEF Begin
<1>2. ASSUME NEW p \in Proc, MkdirLock(p) PROVE MakerInv'
  BY <1>2 DEF MkdirLock
<1>3. ASSUME NEW p \in Proc, MkdirLockExists(p) PROVE MakerInv'
  BY <1>3 DEF MkdirLockExists
<1>4. ASSUME NEW p \in Proc, StatLockFresh(p) PROVE MakerInv'
  BY <1>4 DEF StatLockFresh
<1>5. ASSUME NEW p \in Proc, StatLockStale(p) PROVE MakerInv'
  BY <1>5 DEF StatLockStale
<1>6. ASSUME NEW p \in Proc, Stamp(p) PROVE MakerInv'
  BY <1>6 DEF Stamp
<1>7. ASSUME NEW p \in Proc, RemoveUnstamped(p) PROVE MakerInv'
  BY <1>7 DEF RemoveUnstamped
<1>8. ASSUME NEW p \in Proc, EndOperation(p) PROVE MakerInv'
  BY <1>8 DEF EndOperation
<1>9. ASSUME NEW p \in Proc, MkdirTakeover(p) PROVE MakerInv'
  BY <1>9 DEF MkdirTakeover
<1>10. ASSUME NEW p \in Proc, StatTakeoverStale(p) PROVE MakerInv'
  BY <1>10 DEF StatTakeoverStale
<1>11. ASSUME NEW p \in Proc, CollectTakeover(p) PROVE MakerInv'
  BY <1>11 DEF CollectTakeover
<1>12. ASSUME NEW p \in Proc, DropTakeover(p) PROVE MakerInv'
  BY <1>12 DEF DropTakeover
<1>13. ASSUME NEW p \in Proc, ReclaimStat(p) PROVE MakerInv'
  BY <1>13 DEF ReclaimStat
<1>14. ASSUME NEW p \in Proc, ReclaimReadOwner(p) PROVE MakerInv'
  BY <1>14 DEF ReclaimReadOwner
<1>15. ASSUME NEW p \in Proc, ReclaimRename(p) PROVE MakerInv'
  BY <1>15 DEF ReclaimRename
<1>16. ASSUME NEW p \in Proc, ReclaimSettle(p) PROVE MakerInv'
  BY <1>16 DEF ReclaimSettle
<1>17. ASSUME NEW p \in Proc, Release(p) PROVE MakerInv'
  BY <1>17 DEF Release
<1>18. ASSUME NEW p \in Proc, StampFails(p) PROVE MakerInv'
  BY <1>18 DEF StampFails
<1>19. ASSUME NEW p \in Proc, AcquireTimesOut(p) PROVE MakerInv'
  BY <1>19 DEF AcquireTimesOut
<1>20. ASSUME NEW p \in Proc, TakeoverTimesOut(p) PROVE MakerInv'
  BY <1>20 DEF TakeoverTimesOut
<1>21. ASSUME NEW p \in Proc, Crash(p) PROVE MakerInv'
  BY <1>21 DEF Crash
<1>22. ASSUME LockAges PROVE MakerInv'
  BY <1>22 DEF LockAges
<1>23. ASSUME TakeoverAges PROVE MakerInv'
  BY <1>23 DEF TakeoverAges
<1>24. CASE UNCHANGED vars
  BY <1>24 DEF vars
<1>25. QED
  BY <1>1, <1>2, <1>3, <1>4, <1>5, <1>6, <1>7, <1>8, <1>9, <1>10, <1>11, <1>12, <1>13, <1>14, <1>15, <1>16, <1>17, <1>18, <1>19, <1>20, <1>21, <1>22, <1>23, <1>24 DEF Next, Step, Acquire, Takeover


\* What a reclaimer found under the mutex is still so when it renames.
LEMMA NextReclaimInv == Timely /\ IInv /\ [Next]_vars => ReclaimInv'
<1> SUFFICES ASSUME Timely, IInv, [Next]_vars PROVE ReclaimInv'
  OBVIOUS
<1> USE FileLockAssumption
    DEF IInv, TypeOK, MutexInv, HoldInv, MakerInv, ReclaimInv, Spent, LockIsOld, OwnerAlive, MakerLives, Phase, InMutex, Go, Owning, Waiting, Stamping,
        Holding, OwnToken, Directory, Mutex, Token
<1>1. ASSUME NEW p \in Proc, Begin(p) PROVE ReclaimInv'
  BY <1>1 DEF Begin
<1>2. ASSUME NEW p \in Proc, MkdirLock(p) PROVE ReclaimInv'
  BY <1>2 DEF MkdirLock
<1>3. ASSUME NEW p \in Proc, MkdirLockExists(p) PROVE ReclaimInv'
  BY <1>3 DEF MkdirLockExists
<1>4. ASSUME NEW p \in Proc, StatLockFresh(p) PROVE ReclaimInv'
  BY <1>4 DEF StatLockFresh
<1>5. ASSUME NEW p \in Proc, StatLockStale(p) PROVE ReclaimInv'
  BY <1>5 DEF StatLockStale
<1>6. ASSUME NEW p \in Proc, Stamp(p) PROVE ReclaimInv'
  BY <1>6 DEF Stamp
<1>7. ASSUME NEW p \in Proc, RemoveUnstamped(p) PROVE ReclaimInv'
  <2>1. ~LockIsOld /\ \A q \in Proc : pc[q] \notin {"reclaim_owner", "reclaim_rename"}
    BY <1>7 DEF RemoveUnstamped
  <2>2. pc'[p] = "idle" /\ \A q \in Proc : q # p => pc'[q] = pc[q]
    BY <1>7 DEF RemoveUnstamped
  <2>3. moved' = moved /\ call' = call /\ seen' = seen
    BY <1>7 DEF RemoveUnstamped
  <2>4. \A q \in Proc : moved[q] # NoLock /\ ~MakerLives(moved[q]) => ~MakerLives(moved[q])'
    BY <2>2, <2>3
  <2>5. ASSUME NEW q \in Proc
        PROVE  IF pc'[q] = "reclaim_moved"
               THEN moved'[q] # NoLock /\ moved'[q].ino = seen'[q] /\ ~MakerLives(moved[q])'
               ELSE moved'[q] = NoLock
    <3>1. CASE q = p
      BY <1>7, <2>2, <2>3, <3>1 DEF RemoveUnstamped
    <3>2. CASE q # p
      BY <2>2, <2>3, <2>4, <3>2
    <3>3. QED
      BY <3>1, <3>2
  <2>6. \A q \in Proc : pc'[q] \notin {"reclaim_owner", "reclaim_rename"}
    BY <2>1, <2>2
  <2>7. QED
    BY <2>5, <2>6
<1>8. ASSUME NEW p \in Proc, EndOperation(p) PROVE ReclaimInv'
  BY <1>8 DEF EndOperation
<1>9. ASSUME NEW p \in Proc, MkdirTakeover(p) PROVE ReclaimInv'
  BY <1>9 DEF MkdirTakeover
<1>10. ASSUME NEW p \in Proc, StatTakeoverStale(p) PROVE ReclaimInv'
  BY <1>10 DEF StatTakeoverStale
<1>11. ASSUME NEW p \in Proc, CollectTakeover(p) PROVE ReclaimInv'
  BY <1>11 DEF CollectTakeover
<1>12. ASSUME NEW p \in Proc, DropTakeover(p) PROVE ReclaimInv'
  BY <1>12 DEF DropTakeover
<1>13. ASSUME NEW p \in Proc, ReclaimStat(p) PROVE ReclaimInv'
  BY <1>13 DEF ReclaimStat
<1>14. ASSUME NEW p \in Proc, ReclaimReadOwner(p) PROVE ReclaimInv'
  BY <1>14 DEF ReclaimReadOwner
<1>15. ASSUME NEW p \in Proc, ReclaimRename(p) PROVE ReclaimInv'
  BY <1>15 DEF ReclaimRename
<1>16. ASSUME NEW p \in Proc, ReclaimSettle(p) PROVE ReclaimInv'
  BY <1>16 DEF ReclaimSettle
<1>17. ASSUME NEW p \in Proc, Release(p) PROVE ReclaimInv'
  BY <1>17 DEF Release
<1>18. ASSUME NEW p \in Proc, StampFails(p) PROVE ReclaimInv'
  BY <1>18 DEF StampFails
<1>19. ASSUME NEW p \in Proc, AcquireTimesOut(p) PROVE ReclaimInv'
  BY <1>19 DEF AcquireTimesOut
<1>20. ASSUME NEW p \in Proc, TakeoverTimesOut(p) PROVE ReclaimInv'
  BY <1>20 DEF TakeoverTimesOut
<1>21. ASSUME NEW p \in Proc, Crash(p) PROVE ReclaimInv'
  <2>1. pc'[p] = "dead" /\ \A q \in Proc : q # p => pc'[q] = pc[q]
    BY <1>21 DEF Crash
  <2>2. UNCHANGED <<lock, takeover, call, seen, moved>>
    BY <1>21 DEF Crash
  <2>3. pc[p] \notin InMutex
    BY <1>21, PhaseFacts DEF Crash, Timely
  <2>4. \A q \in Proc : moved[q] # NoLock /\ ~MakerLives(moved[q]) => ~MakerLives(moved[q])'
    BY <2>1, <2>2
  <2>5. lock # NoLock /\ ~OwnerAlive(lock.owner) => ~OwnerAlive(lock.owner)'
    BY <2>1, <2>2
  <2>6. QED
    BY <2>1, <2>2, <2>3, <2>4, <2>5
<1>22. ASSUME LockAges PROVE ReclaimInv'
  BY <1>22 DEF LockAges
<1>23. ASSUME TakeoverAges PROVE ReclaimInv'
  BY <1>23 DEF TakeoverAges
<1>24. CASE UNCHANGED vars
  BY <1>24 DEF vars
<1>25. QED
  BY <1>1, <1>2, <1>3, <1>4, <1>5, <1>6, <1>7, <1>8, <1>9, <1>10, <1>11, <1>12, <1>13, <1>14, <1>15, <1>16, <1>17, <1>18, <1>19, <1>20, <1>21, <1>22, <1>23, <1>24 DEF Next, Step, Acquire, Takeover

-----------------------------------------------------------------------------
(* The theorems. *)

\* The inductive invariant holds in every behaviour of withLock callers.
THEOREM Invariance == ASSUME Timely PROVE Spec => []IInv
<1>1. Init => IInv
  BY InitIInv
<1>2. IInv /\ [Next]_vars => IInv'
  BY NextTypeOK, NextMutexInv, NextHoldInv, NextMakerInv, NextReclaimInv DEF IInv
<1>3. QED
  BY <1>1, <1>2, PTL DEF Spec

\* Every variable keeps its type, whatever is slow and wherever processes die.
THEOREM TypeCorrect == Spec => []TypeOK
<1>1. Init => TypeOK
  BY InitIInv DEF IInv
<1>2. QED
  BY <1>1, NextTypeOK, PTL DEF Spec

\* No two calls of withLock run their operations at once (file-lock.mjs:18-33).
THEOREM Exclusion == ASSUME Timely PROVE Spec => []MutualExclusion
<1>1. IInv => MutualExclusion
  BY SoleHolder DEF IInv, MutualExclusion, Owning
<1>2. QED
  BY <1>1, Invariance, PTL

\* A running operation's directory stays at the path with its owner token
\* (file-lock.mjs:36 and 251-254).
THEOREM HolderKeeps == ASSUME Timely PROVE Spec => []HolderKeepsLock
<1>1. IInv => HolderKeepsLock
  BY DEF IInv, HoldInv, HolderKeepsLock, Owning
<1>2. QED
  BY <1>1, Invariance, PTL

\* What a reclaimer moves away was made by a call that is gone, and is the
\* directory it inspected (file-lock.mjs:29-36).
THEOREM ReclaimIsSound ==
  ASSUME Timely PROVE Spec => [](ReclaimedOnlyFromGone /\ RenamesWhatItInspected)
<1>1. IInv => ReclaimedOnlyFromGone /\ RenamesWhatItInspected
  BY DEF IInv, ReclaimInv, ReclaimedOnlyFromGone, RenamesWhatItInspected
<1>2. QED
  BY <1>1, Invariance, PTL

=============================================================================
