SPECIFICATION Spec
CONSTANTS
  MaxBytes = 5
  Vendor = {palo_alto, fortigate}
  QueueMax = 2
  MaxBatch = 2
  MaxMsgs = 4
INVARIANTS AccountedFor FramingIsExact
PROPERTIES QueueDrains FullBatchLeaves
CHECK_DEADLOCK FALSE
