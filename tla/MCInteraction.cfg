SPECIFICATION FairSpec
CONSTANTS
  i1 = i1
  i2 = i2
  q1 = q1
  q2 = q2
  Invocation = {i1}
  Proposal = {q1, q2}
  Turn = Turn
  Owner = Owner
  NoHolder = NoHolder
  DaemonAskers = {Turn, Owner}
  MaxCrashes = 2
  MaxFaults = 1
INVARIANTS
  ExecutorStartsOnce
  NothingStranded
PROPERTIES
  SubmittedEnds
  ImplementsJobService
  ApprovalReachesLiveExecution
CHECK_DEADLOCK FALSE
