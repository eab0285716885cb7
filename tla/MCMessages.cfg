CONSTANTS
  Conns = {c1, c2}
  Requests = {r1, r2}
  Broadcasts = {b1}
  QueueCap = 2
  Burst = 3
  MaxRefills = 1
SPECIFICATION Spec
SYMMETRY Symmetry
INVARIANTS TypeOK OneReplyPerRequest RepliesNumbered SharedBudget
CHECK_DEADLOCK FALSE
