SPECIFICATION Spec
CONSTANTS
  Bucket = {0, 5, 10}
  QueueMax = 1
  BatchSize = 2
  MaxFlows = 3
INVARIANTS OncePerBranch DeltasInOrder LastNotBehindChannel
PROPERTIES WriterDrains NewerBucketCloses
CHECK_DEADLOCK FALSE
