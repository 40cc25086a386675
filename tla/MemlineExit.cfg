CONSTANTS
  DataSize = 3
  PtrMax = 2
  Files <- MCFiles
  Sizes = {1, 2}
  MaxLines = 7
  Plans <- MCPlans
SPECIFICATION Spec
CHECK_DEADLOCK FALSE
INVARIANT ExitIsRecovered
