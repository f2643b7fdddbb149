SPECIFICATION FairSpec
CONSTANTS
  cheap = cheap
  dear = dear
  model = model
  None = None
  Facts = {price}
  Workers = {w1}
  Sources = {cheap, dear}
  Candidates <- CheapThenDear
  Answers <- AlwaysDown
  MaxAttempts = 2
PROPERTY HopelessGapIsGivenUp
CHECK_DEADLOCK TRUE
