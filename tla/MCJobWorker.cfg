SPECIFICATION WorkerFairSpec
CONSTANTS
  Run = {n1}
  NoRun = NoRun
  Stopper = {c1, c2}
  MaxWrites = 3
  MaxGen = 2
  MaxEpoch = 2
INVARIANTS
  TimerAgrees
PROPERTIES
  
  StaleCallNeverStarts
  
CHECK_DEADLOCK FALSE
