SPECIFICATION FairSpec
CONSTANTS
  k1 = k1
  k2 = k2
  k3 = k3
  k4 = k4
  Keys = {k1, k2, k3}
  Hash <- HashOfKeys
  NR_ENTRY = 4
  MAX_HOP = 2
  Writers = {r1, r2}
  Readers = {r1}
  SEGMENT_PAIRS = 2
  StaleReads = TRUE
  MAX_PBA = 3
INVARIANTS TypeOK Neighbourhood PbaUnique
PROPERTIES MovesOutward Responds
CHECK_DEADLOCK FALSE
