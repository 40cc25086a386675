CONSTANTS
  a = a
  b = b
  Proc = {a, b}
  Setups <- MCSetups
SPECIFICATION LiveSpec
INVARIANTS RefcountIsExact FreedOnce KillTimerIsArmed
PROPERTY StopEndsInExit ImplementsLife
CHECK_DEADLOCK FALSE
