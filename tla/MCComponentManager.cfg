CONSTANTS
  N = 3
  Blocking = {1, 2}
  Deaf = {}
  Owners = {owner}
SPECIFICATION Spec
INVARIANTS TypeOK WaitersAreLast
PROPERTIES LateStopsReturn ShutdownEnds
CHECK_DEADLOCK FALSE
