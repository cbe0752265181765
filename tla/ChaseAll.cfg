SPECIFICATION FairSpec
CONSTANTS
  Target = 3
  Tolerance = 1
  Prices = {1, 2}
  HasDuration = TRUE
  MaxIterations = 4
  MaxPending = 2
  Troubled = TRUE
INVARIANTS
  NeverOverstates
  NoOverfillBeforeExpiry
  FilledMeansDone
PROPERTIES
  Returns
CHECK_DEADLOCK FALSE
