\* One note with three versions, three starts: failing and corrupt rows, a
\* shutdown with and without the drain timer, and an end of the process at
\* every point.
SPECIFICATION FairSpec
CONSTANTS
  Path = {p1}
  Links <- MCLinks
  None = None
  MaxVer = 3
  MaxEntry = 3
  MaxStarts = 3
  CanFail = TRUE
  CanCorrupt = TRUE
  CanTimeOut = TRUE
INVARIANTS
  TypeOK
  CleanIsCached
  FlushedOnShutdown
  MtimeTellsContent
  BuiltIndexIsCurrent
PROPERTIES
  EntriesGetCached
CHECK_DEADLOCK FALSE
