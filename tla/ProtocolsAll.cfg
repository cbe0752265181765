SPECIFICATION FairSpec
CONSTANTS
  ProtocolIds = {"p", "q"}
  Mixes <- MCMixes
  Prices = {4, 5, 7, 8}
  Start = 2
  Increment = 4
  MaxFactor = 6
  Percent = 2
  FeedCap = 1
  OrdersCap = 2
INVARIANTS
  ToldIsWanted
PROPERTIES
  StopsLoosenOnlyWhenHit
  TellsOrEnds
CHECK_DEADLOCK FALSE
