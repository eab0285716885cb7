CONSTANTS
  Jobs = {j1, j2, j3}
  Ids = {i1, i2}
  Second = 2
  Interval = 1
  Day = 3
  MaxDelay = 1
  MaxHits = 1
  MaxTime = 4
SPECIFICATION Spec
SYMMETRY Symmetry
INVARIANT RemovedIsGone
