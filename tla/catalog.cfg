SPECIFICATION EditSpec
CONSTANTS
  PoolSize = 2
  MaxChanges = 3
  MaxTasks = 3
  MaxFailures = 1
  Editor = {e1, e2}
  Id = {1, 2}
  Pattern = {p1, p2}
  Gone = Gone
  MaxEdits = 3
INVARIANT EditsTakeEffect
PROPERTY EveryChangeTakesEffect
CHECK_DEADLOCK FALSE
