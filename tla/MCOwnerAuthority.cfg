SPECIFICATION AuthoritySpec
CONSTANTS
  k1 = k1
  k2 = k2
  k3 = k3
  w1 = w1
  w2 = w2
  Key = {k1, k2, k3}
  Writer = {w1, w2}
  Versions = 5
  None = None
  MaxFaults = 2
  MaxRotations = 1
  g1 = g1
  g2 = g2
  c1 = c1
  c2 = c2
  c3 = c3
  Grant = {g1, g2}
  Call = {c1, c2, c3}
  NoGrant = NoGrant
INVARIANTS
  ReadsBack
  SpentOnce
PROPERTIES
  RepairableIsRepaired
  ImplementsTrustAuthority
  ActsOnlyOnLiveGrants
CHECK_DEADLOCK FALSE
