CONSTANTS
  Run = {n1}
  NoRun = NoRun
  Call = {c1, c2}
  NoCall = NoCall
  k1 = k1
  b1 = b1
  b2 = b2
  Key = {k1}
  NoKey = NoKey
  Body = {b1, b2}
  Request <- Requests
  Outside = TRUE
  MaxEpoch = 1
SPECIFICATION FairSpec
CHECK_DEADLOCK FALSE
INVARIANTS
  KeyedWritesHold
  TextFollowsEvent
PROPERTIES
  EventuallyProjected
