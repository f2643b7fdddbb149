SPECIFICATION MCSpec
CONSTANTS
  Assets = {sol, eth}
  PairSize = 2
  Lot <- FineLots
  Horizon = 1
  EnforcesReduceOnly = TRUE
  LeavesRemainders = TRUE
  Doubts = {"empty", "resting", "unavailable"}
  None = None
  Slots = {1, 2, 3}
  Syncs = {s1}
  Entries <- MCEntries
  Postings <- MCPostings
  Window = 1
  MaxPosts = 2
  Months = {1, 2, 3}
  Categories = {"food"}
  Spending = {2}
  Earning = {3}
  Budgets = {1}
SYMMETRY AssetSymmetry
INVARIANTS
  BooksTypeOK
  DivergenceIsParked TradesOnMatchedBook NothingPassedOver
  GroupsStandTogether EnvelopesHoldTheCash
PROPERTIES
  ReconciledIsLocked ImportsAccountForAllOnce
CHECK_DEADLOCK TRUE
