SPECIFICATION FairSpec
CONSTANTS
  d1 = d1
  d2 = d2
  s1 = s1
  s2 = s2
  Daemon = {d1, d2}
  Soul = {s1}
  MaxConcurrent = 1
  Groups = TRUE
  NoRow = NoRow
  NoFlight = NoFlight
  NoRun = NoRun
  MaxRuns = 2
  MaxChanges = 2
  MaxFaults = 1
  MaxBoots = 2
INVARIANTS
  LeaseHolds
  ResultsKeepToTheirRegistration
  QuarantineIsNoticed
PROPERTIES
  EndsAreTrue
  AttemptIsSettled
CHECK_DEADLOCK FALSE
