SPECIFICATION FairSpec
CONSTANTS
  OrderNames = {a}
  Qty = 2
  HubCap = 1
  TempCap = 1
  MAX_CONNECTION_FAILURES = 3
  MaxBatches = 2
  MaxReports = 6
  MaxFaults = 1
PROPERTIES
  NoExecutionToldTwice
  RuntimeKeepsServing
  EveryExecutionReported
CHECK_DEADLOCK FALSE
