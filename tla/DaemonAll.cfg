\* One path saved twice, two producers at once, two starts: signals, failing
\* statements, drain timeouts and crashes at every point.
SPECIFICATION FairSpec
CONSTANTS
  Path = {p1}
  Slot = {s1, s2}
  None = None
  MaxSaves = 2
  MaxId = 2
  MaxStarts = 2
  CanCrash = TRUE
  CanFail = TRUE
  CanTimeOut = TRUE
INVARIANTS
  TypeOK
  CleanStop
  AcknowledgedIsKept
  GoneIsLogged
  LoggedAtMostOnce
PROPERTIES
  AcknowledgedGetsProcessed
CHECK_DEADLOCK FALSE
