SPECIFICATION Spec
CONSTANTS
  d1 = d1
  d2 = d2
  k1 = k1
  k2 = k2
  g1 = g1
  g2 = g2
  g3 = g3
  SoulConn = {1, 2, 3}
  OwnerConn = {11, 12}
  SoulCapacity = 2
  OwnerCapacity = 2
  Grant = {g1, g2, g3}
  Lifetime <- MCLifetime
  Tool <- MCTool
  Scope <- MCScope
  DaemonKey = {d1, d2}
  Signer <- MCSigner
  Digest = {k1, k2}
  MaxClock = 2
  Starts <- LateStarts
  Elsewhere = Elsewhere
  None = None
INVARIANTS
  SpentOnce
CHECK_DEADLOCK FALSE
