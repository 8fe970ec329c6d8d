\* Two lanes of one worker, a start that fails, under the event loop's fairness.
CONSTANTS
  r1 = r1
  Lanes <- TwoLanes
  Workers = {1, 2, 3, 4, 5}
  Requests = {r1, r2}
  NoWorker = NoWorker
  Home <- TwoHome
  Lender <- TwoLender
  poolSize <- TwoPool
  warmSize <- TwoPool
  queueMax <- TwoQueue
  elastic = FALSE
  Primed <- TwoLanes
  MaxStartFailures = 1
SPECIFICATION FairSpec
CHECK_DEADLOCK FALSE
PROPERTIES CallsSettle ShutdownDrains
