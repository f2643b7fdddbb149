SPECIFICATION FairSpec
CONSTANTS
  cheap = cheap
  dear = dear
  model = model
  None = None
  Facts = {price}
  Workers = {w1, w2}
  Sources = {cheap, model}
  Candidates <- CheapThenModel
  Answers <- AnyAnswer
  MaxAttempts = 2
INVARIANTS TypeOK RowsConsistent AttemptsExplain
PROPERTIES HolderOwnsRow SuppliableGetsCovered
CHECK_DEADLOCK TRUE
