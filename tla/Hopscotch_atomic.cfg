SPECIFICATION Spec
CONSTANTS
  k1 = k1
  k2 = k2
  k3 = k3
  k4 = k4
  Keys = {k1, k2, k3}
  Hash <- HashOfKeys
  NR_ENTRY = 4
  MAX_HOP = 2
  Writers = {w1, w2}
  Readers = {g1}
  SEGMENT_PAIRS = 2
  StaleReads = TRUE
  MAX_PBA = 3
INVARIANTS NoDuplicates NoLostSet
PROPERTIES ImplementsKVStore
CHECK_DEADLOCK FALSE
