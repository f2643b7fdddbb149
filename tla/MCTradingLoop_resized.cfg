SPECIFICATION Spec
CONSTANTS
  Predictions = {1}
  Runners = {r1}
  Sizes = {1, 2}
  Ceiling = 1
  None = None
INVARIANT ShortfallIsReal
CHECK_DEADLOCK TRUE
