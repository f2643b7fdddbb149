SPECIFICATION Spec
CONSTANTS
  Assets = {sol}
  PairSize = 3
  Lot <- CoarsePerp
  Horizon = 1
  EnforcesReduceOnly = TRUE
  LeavesRemainders = FALSE
  Doubts = {}
  None = None
INVARIANT ShortfallsAreReported
CHECK_DEADLOCK TRUE
