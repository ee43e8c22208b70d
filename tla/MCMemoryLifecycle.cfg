CONSTANTS
  Call = {c1, c2, c3, c4}
  None = None
  Piece = {a, x}
  Bad = {x}
  Seed = Seed
  MaxFault = 2
  MaxEpoch = 1
SPECIFICATION Spec
SYMMETRY Symmetry
INVARIANTS
  HistoryComplete
PROPERTIES
  NoLostUpdate
  ReviewHolds
CHECK_DEADLOCK FALSE
