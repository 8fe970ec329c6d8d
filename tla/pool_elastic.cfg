CONSTANTS
  r1 = r1
  Lanes <- OneLane
  Workers = {1, 2, 3, 4, 5, 6}
  Requests = {r1, r2, r3}
  NoWorker = NoWorker
  Home <- OneHome
  Lender <- OneLender
  poolSize <- OnePool
  warmSize <- OneWarm
  queueMax <- OneQueue
  elastic = TRUE
  Primed <- NoLane
  MaxStartFailures = 0
SYMMETRY Symmetry
SPECIFICATION Spec
CHECK_DEADLOCK FALSE
INVARIANTS TypeOK ExclusiveLease LeaseKeptAlive CeilingRespected QueueSound QueueHasServer
PROPERTIES NoBypass
