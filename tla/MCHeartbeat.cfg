CONSTANTS
  Interval = 2
  Timeout = 7
  RetryCount = 2
  Second = 1
  Answered = {0, 1}
  Rtt = 3
  Jitter = 1
  MaxTime = 30
SPECIFICATION Spec
INVARIANTS TypeOK ResponsiveIsAlive SilenceIsBounded
CHECK_DEADLOCK FALSE
