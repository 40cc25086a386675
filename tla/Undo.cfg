CONSTANTS
  Plans <- MCPlans
  MaxLines = 2
  MaxNew = 1
SPECIFICATION Spec
INVARIANTS TreeIsSound TextIsOfPosition NotModifiedIsWritten JumpsArrive
