\* One save, a clean restart.
SPECIFICATION FairSpec
CONSTANTS
  Path = {p1}
  Slot = {s1}
  None = None
  MaxSaves = 1
  MaxId = 1
  MaxStarts = 2
  CanCrash = FALSE
  CanFail = FALSE
  CanTimeOut = FALSE
PROPERTIES
  SavesGetProcessed
CHECK_DEADLOCK FALSE
