CONSTANTS
  InputSize = 2
  KeyBufferSize = 2
  DrainBoundary = 1
  Careful = TRUE
  MaxCalls = 4
  MaxKeys = 4
  MaxWinch = 1
  MaxSuspends = 2
SPECIFICATION FairSpec
INVARIANTS KeysInOrder
PROPERTIES CallsReachTheTerminal WaitsEnd
CHECK_DEADLOCK FALSE
