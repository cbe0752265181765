SPECIFICATION FairSpec
CONSTANTS
  Assets = {a, b}
  a = a
  b = b
  MaxCommands = 3
  MaxRuns = 2
INVARIANTS
  HandlesAllInOrder
  AppliesInOrderOnce
  ListensToAllAssets
PROPERTIES
  WeakDelYields
  AppliesEventually
CHECK_DEADLOCK FALSE
