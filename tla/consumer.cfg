SPECIFICATION Spec
CONSTANTS
  Bad = {2}
  Count = 2
  QueueMax = 1
  MaxEntries = 5
  MaxFaults = 2
INVARIANTS HandedOnceInOrder PendingIsInHand
PROPERTY EventuallyAcked
CHECK_DEADLOCK FALSE
