SPECIFICATION Spec
CONSTANTS
  Workers = {1, 2, 3, 4}
  Requests = {r1, r2, r3}
  poolSize = 2
  warmSize = 1
  queueMax = 2
  elastic = TRUE
  MaxStartFailures = 1
INVARIANTS ExclusiveLease CeilingHolds QueueSound QueueHasServer
CHECK_DEADLOCK FALSE
