CONSTANTS
  Lengths = {25, 26, 28, 29}
  MaxPacketSize = 28
  MaxFrames = 2
SPECIFICATION Spec
INVARIANTS TypeOK ReceivedInOrder RefusedWithReason CleanEndCutsNothing
PROPERTY ArrivedIsReturned
CHECK_DEADLOCK FALSE
