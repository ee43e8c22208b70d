SPECIFICATION WorkerFairSpec
CONSTANTS
  Run = {n1}
  NoRun = NoRun
  Stopper = {c1}
  MaxWrites = 3
  MaxGen = 0
  MaxEpoch = 1
PROPERTIES
  TransientFailureRetried
CHECK_DEADLOCK FALSE
