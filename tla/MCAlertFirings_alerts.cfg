SPECIFICATION FairSpec
CONSTANTS
  Notes = {1, 2}
  Workers = {w1}
  MaxAttempts = 1
  Batch = 1
  MaxCrashes = 1
  MaxLapses = 0
  MaxAge = 0
  Claims = {1, 2}
  Publisher <- MCPublisher
  Above = {1, 2}
  Evaluators = {e1, e2}
INVARIANTS
  TypeOK
  EachFiringQueuedOnce
PROPERTIES
  CrossingFires
  FiringIsSettled
CHECK_DEADLOCK FALSE
