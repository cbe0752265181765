SPECIFICATION FairSpec
CONSTANTS
  Positions = {p1}
  RequestCap = 1
  FillCap = 2
  PositionFillCap = 2
  OrderKinds = {"Market", "StopMarket"}
  LastStage = "acquisition"
  MaxFills = 3
  MaxUpdates = 3
  RuntimeMayPanic = FALSE
INVARIANTS
  HubOutlivesPositions
PROPERTIES
  EventuallySettled
  DeliversFillsEventually
CHECK_DEADLOCK FALSE
