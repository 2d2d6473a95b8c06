SPECIFICATION FairSpec
CONSTANTS
  Jobs = {j1, j2, j3}
  Concurrency = 2
INVARIANTS TypeOK SlotsAccounted  LastPickup
PROPERTIES StartReturns StopEnds
CHECK_DEADLOCK FALSE
