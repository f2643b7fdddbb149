SPECIFICATION HistorySpec
CONSTANTS
  Assets = {sol}
  PairSize = 2
  Lot <- FineLots
  Horizon = 1
  EnforcesReduceOnly = TRUE
  LeavesRemainders = FALSE
  Doubts = {}
  None = None
INVARIANT CreditsOnlyHeldLegs
CHECK_DEADLOCK TRUE
