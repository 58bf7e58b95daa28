SPECIFICATION FairSpec
CONSTANTS
  i1 = i1
  i2 = i2
  q1 = q1
  q2 = q2
  Invocation = {i1}
  Proposal = {q1}
  Turn = Turn
  Owner = Owner
  NoHolder = NoHolder
  DaemonAskers = {Turn}
  MaxCrashes = 1
  MaxFaults = 0
PROPERTIES
  RestartCompletes
CHECK_DEADLOCK FALSE
