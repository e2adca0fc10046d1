\* Nothing but the 10 seconds of the drain timer.
SPECIFICATION Spec
CONSTANTS
  Path = {p1}
  Slot = {s1}
  None = None
  MaxSaves = 1
  MaxId = 1
  MaxStarts = 1
  CanCrash = FALSE
  CanFail = FALSE
  CanTimeOut = TRUE
INVARIANTS
  StopsForAReason
CHECK_DEADLOCK FALSE
