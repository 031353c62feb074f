SPECIFICATION Spec
CONSTANTS
  MaxBytes = 5
  Vendor = {palo_alto, fortigate}
  QueueMax = 2
  MaxBatch = 2
  MaxMsgs = 4
INVARIANT OwnMessagesNotSkipped
CHECK_DEADLOCK FALSE
