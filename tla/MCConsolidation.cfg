CONSTANTS
  Run = {n1}
  NoRun = NoRun
  Caller = {c1, c2}
  NoCaller = NoCaller
  e1 = e1
  e2 = e2
  Event = {e1, e2}
  Kind <- Kinds
  Inference = Inference
  MaxUpdate = 2
  MaxFault = 1
  MaxEpoch = 1
SPECIFICATION FairSpec
INVARIANTS
  RunsHonest
  NoStaleFacts

  
  
