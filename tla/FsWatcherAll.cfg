\* One path with four saves, enough for a Reset during each of two callbacks;
\* Enqueue may fail.
SPECIFICATION FairSpec
CONSTANTS
  Path = {p1}
  Timer = {t1, t2}
  Slot = {s1, s2}
  None = None
  Delay = 2
  MaxEvents = 4
  CanFail = TRUE
INVARIANTS
  TypeOK
  NoSaveForgotten
  AtMostOncePerSave
PROPERTIES
  SavesGetEnqueued
CHECK_DEADLOCK FALSE
