SPECIFICATION FairSpec
CONSTANTS
  Run = {r1, r2}
  NoRun = NoRun
  Writer = {w1, w2}
  MaxEpoch = 2
  MaxSerial = 2
INVARIANTS
  NoStaleData
  OneCompletionPerEpoch
PROPERTIES
  GateNeverRewinds
  ImplementsAtomicErasure
  
CHECK_DEADLOCK FALSE
