SPECIFICATION QueueSpec
CONSTANTS
  Notes = {1, 2}
  Workers = {w1, w2}
  MaxAttempts = 2
  Batch = 1
  MaxCrashes = 1
  MaxLapses = 1
  MaxAge = 2
INVARIANTS
  QueueTypeOK
  OneSenderUnlessLapsed
  AttemptsAreBounded
PROPERTIES
  DeliversAtLeastOnce
  QueuedIsSettled
CHECK_DEADLOCK FALSE
