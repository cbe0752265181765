SPECIFICATION FairSpec
CONSTANTS
  Whole = 1
  Protocols = {"m", "s", "t"}
  TypeOf <- MCTypeOf
  Updates <- MCUpdates
  Side = "Sell"
  Target = 4
  MinQty = 1
  MaxUpdates = 3
  Step = 2
  MaxFaults = 1
INVARIANTS
  NoOverbuy
  BooksNeverUnderstate
  RequestWithinLeft
PROPERTIES
  BuysIfMarketFills
CHECK_DEADLOCK FALSE
