SPECIFICATION FairSpec
CONSTANTS
  Schedulers = {s1, s2}
  Frail = {s1}
  Live = {2, 3}
  Replayed = {1}
  MaxCalls = 2
  MaxRivals = 2
  None = None
INVARIANTS TypeOK AloneUnlessLeaseLost NothingDoubled
PROPERTIES OutcomesAreFinal SettlesOnOneScheduler DueCallsAreScored
