\* Two paths and two mtimes: one is saved again in front of the other.
SPECIFICATION Spec
CONSTANTS
  Path = {p1, p2}
  Mtime = {1, 2}
  Worker = {w1}
  None = None
  MaxId = 2
  LastPos = 2
  CanCrash = FALSE
PROPERTIES
  ResavedGoesToBack
