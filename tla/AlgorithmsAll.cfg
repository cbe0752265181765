SPECIFICATION AlgorithmsSpec
CONSTANTS
  Whole = 8
  Percents = {2, 4, 6, 8}
  MaxSlots = 3
  Notionals = {512, 1024, 2048}
  FillSizes = {0, 512}
  MinQties = {100, 256, 500, 512}
  Amounts = {700000, 1234500}
  Biases = {1, 10}
  Moves = {0, 1, 2, 3}
  History = 6
  LnMul <- MCLnMul
  RunTimes = 3
  MaxFetches = 3
  Window = 3
  Timeframes <- MCTimeframes
INVARIANTS
  MatchesDefinition
  LayersStepDown
  LossAtStopBounded
  EmaOfMoves
CHECK_DEADLOCK FALSE
