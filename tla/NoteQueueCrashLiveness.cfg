\* One worker that may die while it holds an entry and then starts again.
SPECIFICATION FairSpec
CONSTANTS
  Path = {p1, p2}
  Mtime = {1}
  Worker = {w1}
  None = None
  MaxId = 3
  LastPos = 3
  CanCrash = TRUE
PROPERTIES
  EveryNoteReached
