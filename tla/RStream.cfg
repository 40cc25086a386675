CONSTANTS
  Byte = {1, 2, 3, 4, 5}
  Capacity = 3
  MaxBytes = 5
  NewLines = {2}
  Setups <- MCSetups
  NoByte = NoByte
SPECIFICATION LiveSpec
CHECK_DEADLOCK FALSE
INVARIANTS CountsAreExact ShownInOrder FreedLast
PROPERTY EverythingIsShown
