CONSTANTS
  Senders = {s1}
  Closers = {c1}
  QueueCap = 1
  MaxCalls = 2
SPECIFICATION Spec
INVARIANTS TypeOK NoDoubleClose GaugeDownWhenClosed LossCounted DeliveredInOrder
PROPERTIES OnlyLateSendsAccepted CloseReleasesAll ImplementsContract ImplementsLife HeartbeatGaugeDown
CHECK_DEADLOCK FALSE
