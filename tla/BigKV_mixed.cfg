SPECIFICATION Spec
CONSTANTS
  k1 = k1
  k2 = k2
  k3 = k3
  k4 = k4
  Keys = {k1, k2, k3}
  hash_high <- HashHigh
  hash_low <- HashLow
  NR_BUCKET = 2
  BUCKETS_IN_PART = 2
  NR_SET = 2
  PART_TABLE_ENTRYS = 4
  MAX_HOP = 2
  Writers = {w1, w2}
  Readers = {g1}
  SEGMENT_RECORDS = 3
  StaleReads = TRUE
  OldTables <- Earlier
  Overlap = TRUE
  MAX_PBA = 4
INVARIANTS TypeOK LruExact CachedOnce
SYMMETRY WriterSymmetry
CHECK_DEADLOCK FALSE
