CONSTANTS
  Run = {n1}
  NoRun = NoRun
  w1 = w1
  w2 = w2
  Worker = {w1, w2}
  MaxAttempts = 2
  Lease = 2
  Backoff = 1
  Skew <- MCSkew
  Batches = 2
  MaxEpoch = 0
  MaxRequeue = 1
SPECIFICATION Spec
CHECK_DEADLOCK FALSE
INVARIANTS
  CompletedMeansAllEffects
  
PROPERTIES
  JobsKept
