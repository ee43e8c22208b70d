CONSTANTS
  Run = {n1}
  NoRun = NoRun
  w1 = w1
  w2 = w2
  Worker = {w1}
  MaxAttempts = 2
  Lease = 1
  Backoff = 1
  Skew <- NoSkew
  Batches = 1
  MaxEpoch = 1
  MaxRequeue = 1
SPECIFICATION FairSpec
CHECK_DEADLOCK FALSE
INVARIANTS
  NoStaleWork

  
  
