SPECIFICATION Spec
CONSTANTS
  Positions = {p1}
  RequestCap = 2
  FillCap = 2
  PositionFillCap = 3
  OrderKinds = {"Market"}
  LastStage = "followup"
  MaxFills = 2
  MaxUpdates = 1
  RuntimeMayPanic = FALSE
INVARIANT
  HubOutlivesPositions
CHECK_DEADLOCK FALSE
