SPECIFICATION FairSpec
CONSTANTS
  Sessions = {1, 2, 3, 4, 5}
  MaxRuns = 4
  MaxOptions = 2
CHECK_DEADLOCK FALSE
INVARIANTS OwnOutput OneRunPerSession
PROPERTIES RunsSettle GetsPrepared
