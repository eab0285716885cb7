CONSTANTS
  N = 4
  Blocking = {1}
  Deaf = {2}
  Owners = {}
SPECIFICATION Spec
PROPERTY ShutdownEnds
CHECK_DEADLOCK FALSE
