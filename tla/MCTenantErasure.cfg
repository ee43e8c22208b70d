SPECIFICATION Spec
CONSTANTS
  Run = {e1, e2}
  NoRun = NoRun
  RelRun = {n1, n2}
  Unusable = {n2}
  Event = {x1}
  MaxEpoch = 2
SYMMETRY Perms
INVARIANTS
  NoOrphanArtifacts
  AuditTrailAgrees
PROPERTIES
  ReceiptsTrue
  FailClosedDeletesNothing
CHECK_DEADLOCK FALSE
