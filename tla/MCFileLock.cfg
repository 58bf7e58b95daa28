SPECIFICATION FairSpec
CONSTANTS
  p1 = p1
  p2 = p2
  i1 = i1
  i2 = i2
  Proc = {p1, p2}
  Inode = {i1, i2}
  KeepLiveOwners = TRUE
  SlowPhases = {"operation"}
  CrashPhases = {"waiting", "stamp", "operation", "takeover"}
  PidsReused = {}
  NoLock = NoLock
  NoMutex = NoMutex
  NoToken = NoToken
  NoInode = NoInode
  MaxCalls = 2
INVARIANTS
  MutualExclusion
  ReclaimedOnlyFromGone
PROPERTIES
  CrashedOwnerIsReclaimed
CHECK_DEADLOCK FALSE
