SPECIFICATION Spec
CONSTANTS
  Positions = {p1, p2}
  RequestCap = 2
  FillCap = 2
  PositionFillCap = 2
  OrderKinds = {"Market", "Limit"}
  LastStage = "acquisition"
  MaxFills = 3
  MaxUpdates = 1
  RuntimeMayPanic = TRUE
INVARIANTS
  TypeOK
  KeyInv
  AcceptedAskerUpToDate
  NeverStuckBehind
PROPERTIES
  DeliversFills
  KeepsContract
CHECK_DEADLOCK FALSE
