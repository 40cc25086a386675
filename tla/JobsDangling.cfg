CONSTANTS
  a = a
  b = b
  Job = {a, b}
  TermSets <- MCTermSets
  Lists <- MCLists
  MaxOutput = 1
  MaxWaits = 2
  MaxDepth = 4
  OnStdout = {b}
  Careful = FALSE
  NULL = NULL
SPECIFICATION Spec
INVARIANT StatusPointersAreLive
CHECK_DEADLOCK FALSE
