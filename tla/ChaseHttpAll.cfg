SPECIFICATION FairSpec
CONSTANTS
  Target = 2
  Prices = {1, 2, 3, 4}
  HasDuration = TRUE
  MaxIterations = 3
INVARIANTS
  ReplacesOnlyOnMoves
PROPERTIES
  KeepsAnOrderOut
  Returns
CHECK_DEADLOCK FALSE
