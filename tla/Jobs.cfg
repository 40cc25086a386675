CONSTANTS
  a = a
  b = b
  Job = {a, b}
  TermSets <- MCTermSets
  Lists <- MCLists
  MaxOutput = 1
  MaxWaits = 2
  MaxDepth = 4
  OnStdout = {b}
  Careful = TRUE
  NULL = NULL
SPECIFICATION LiveSpec
INVARIANTS PointersAreLive ExitIsLast JobWaitTells
PROPERTY ImplementsLife WaitsReturn
CHECK_DEADLOCK FALSE
