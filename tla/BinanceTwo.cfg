SPECIFICATION Spec
CONSTANTS
  OrderNames = {a, b}
  Qty = 1
  HubCap = 1
  TempCap = 1
  MAX_CONNECTION_FAILURES = 2
  MaxBatches = 2
  MaxReports = 1
  MaxFaults = 1
INVARIANTS
  OpenOrdersTracked
PROPERTIES
  KeepsContract
CHECK_DEADLOCK FALSE
