SPECIFICATION Spec
CONSTANTS
  Assets = {sol}
  PairSize = 2
  Lot <- FineLots
  Horizon = 1
  EnforcesReduceOnly = TRUE
  LeavesRemainders = FALSE
  Doubts = {"empty"}
  None = None
INVARIANT UnwindsAreExecutable
CHECK_DEADLOCK TRUE
