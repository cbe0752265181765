SPECIFICATION Spec
CONSTANTS
  Feeds = {f, g}
  Prices = {1, 2}
  Parameters <- MCParameters
  StreamCap = 1
INVARIANTS
  TopIsBest
PROPERTIES
  DesiredIsLatest
CHECK_DEADLOCK FALSE
