\* Three paths, two workers whose processes may die and are started again.
SPECIFICATION FairSpec
CONSTANTS
  Path = {p1, p2, p3}
  Mtime = {1, 2}
  Worker = {w1, w2}
  None = None
  MaxId = 4
  LastPos = 4
  CanCrash = TRUE
INVARIANTS
  TypeOK
  PendingUnique
  PositionsDistinct
  HeldConsistent
PROPERTIES
  NoOvertaking
  KeepsPromise
  WaitingGetsTaken
