\* A save during the work is enough; no worker dies.
SPECIFICATION Spec
CONSTANTS
  Path = {p1, p2}
  Mtime = {1}
  Worker = {w1, w2}
  None = None
  MaxId = 2
  LastPos = 2
  CanCrash = FALSE
SYMMETRY Symmetry
INVARIANTS
  GiveBackSucceeds
