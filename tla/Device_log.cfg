SPECIFICATION FairSpec
CONSTANTS
  r1 = r1
  Slots = {r1}
  NR_SEGMENT = 2
  SEGMENT_SIZE = 4
  GRAIN_UNIT = 2
  Lens = {2, 3}
  QSIZE = 4
  RING = 2
  NR_EVENTS = 2
  MAX_PAIR = 5
INVARIANTS TypeOK ExtentsExact PairsIntact ReadsReturnPair PoolsExact PoolsOutlastRequests
PROPERTIES CallbacksRun
CHECK_DEADLOCK FALSE
