SPECIFICATION ControlsSpec
CONSTANTS
  w1 = w1
  w2 = w2
  t1 = t1
  s1 = s1
  s2 = s2
  click = click
  look = look
  Wake = {w1, w2}
  Interactive = {t1}
  Session = {s1, s2}
  Tool = {click, look}
  ComputerUse = {click, look}
  Unasked = {look}
  NoTurn = NoTurn
  NoLease = NoLease
  r1 = r1
  i1 = i1
  i2 = i2
  p1 = p1
  Request = {r1}
  Store = {i1, i2}
  Pair = {p1}
  Versions = 4
  Limit = 2
  NoPin = NoPin
  None = None
  MaxFaults = 2
SYMMETRY Symmetry
INVARIANTS
  PausedMeansStopping
  ComputerUseOffStops
  BusyUntilSettled
  JournalIsTrue
PROPERTIES
  GrantedUnderItsLease
  OverIsOver
  SetsWhatTheOwnerSaw
  EntersUnderItsTrust
CHECK_DEADLOCK FALSE
