CONSTANTS
  r1 = r1
  r2 = r2
  r3 = r3
  k1 = k1
  k2 = k2
  Req = {r1, r2, r3}
  Wants <- Requests
  None = None
  Key = {k1, k2}
  CacheMax = 1
  MaxGen = 1
SPECIFICATION RegistryFairSpec
INVARIANTS
  NoCloseUnderOperation
  NothingLeaks
PROPERTIES
  EverythingEnds
CHECK_DEADLOCK FALSE
