SPECIFICATION FairSpec
CONSTANTS
  c1 = c1
  c2 = c2
  Clients = {c1, c2}
  LISTEN = LISTEN
  Interrupted = {c1}
  StdinAtEnd = {c2}
  NUM_DEV = 2
  Route <- RouteTwo
  NR_KEY = 2
  CLIENT_QDEPTH = 2
  NR_BATCH = 1
  MAX_NETREQ_BUF = 2
  QDEPTH = 2
INVARIANTS TypeOK AcceptReady NothingStranded RequestsConserved AcksToTheirClient EndsOnlyByCause
PROPERTIES ClientFinishes
CHECK_DEADLOCK FALSE
