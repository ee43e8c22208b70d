CONSTANTS
  Run = {n1}
  NoRun = NoRun
  k1 = k1
  b1 = b1
  b2 = b2
  Item = {1, 2, 3}
  Rival = 4
  Key = {k1}
  NoKey = NoKey
  Body = {b1, b2}
  Batch <- AnyBatch
  MaxEpoch = 1
SPECIFICATION FairSpec
CHECK_DEADLOCK FALSE
INVARIANTS
  
  ErasedBatchGone
PROPERTIES
  BatchEnds
