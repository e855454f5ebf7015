SPECIFICATION FairSpec
CONSTANTS
  h1 = h1
  h2 = h2
  Handlers = {h1, h2}
  Route <- RouteTwo
  NR_KEY = 8
  CLIENT_QDEPTH = 5
  NR_BATCH = 2
  NR_ACK = 2
  MAX_NETREQ_BUF = 5
  QDEPTH = 2
  QSIZE = 4
  SOCK_ACKS = 5
INVARIANTS TypeOK ResourcesSuffice NoLostWakeup FlyingExact OneHolder
  SemaphoreExact AcksInOrder NothingStranded
PROPERTIES LoadFinishes
CHECK_DEADLOCK FALSE
