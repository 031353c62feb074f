SPECIFICATION Spec
CONSTANTS
  Key = {k1, k2}
  WindowS = 2
  QueueMax = 1
  MaxEvents = 3
  MaxTs = 4
  MaxNow = 6
INVARIANTS
  CountedOnce
  OwnWindow
PROPERTIES LossOfOwnFlush EventuallyFlushed
