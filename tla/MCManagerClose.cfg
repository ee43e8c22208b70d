CONSTANTS
  c1 = c1
  c2 = c2
  c3 = c3
  Call = {c1, c2, c3}
  Barrier = {c1}
  MaxDepth = 2
  MaxSync = 1
  Access = {a1, a2, a3}
  Untokened = {a2}
  flushThreshold = 2
  APPLIED_BATCHES_WINDOW = 2
  MaxFault = 1
  MaxErase = 1
  MaxChange = 3
  MaxLoss = 3
SPECIFICATION FairSpec
CHECK_DEADLOCK FALSE
INVARIANTS
  DepthCounts
  
  CloseLosesNothing
  
PROPERTIES
  AllSettle
