SPECIFICATION MCSpec
CONSTANTS
  Predictions = {1, 2}
  Runners = {r1, r2}
  Sizes = {1, 2}
  Resized = {1}
  Ceiling = 2
  None = None
  MaxCalls = 2
  Quantities = {1, 3, 4}
  Step = 2
  PriceMoves = FALSE
  Processes = {api, scheduler}
  Tokens = {1, 2, 3, 4, 5, 6, 7, 8}
  MaxEvents = 1
SYMMETRY RunnerSymmetry
INVARIANTS
  TypeOK SentAtMostOnce TerminalOrdersAreTruthful OneSenderPerOrder BookedIsExecuted
  PartsTypeOK OneOrderPerKey
  OneRotationAtATime StoredTokenIsGood
PROPERTIES NoTradingAroundUnsettled TradesOnce AnswersHonestly
CHECK_DEADLOCK TRUE
