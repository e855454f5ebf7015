SPECIFICATION Spec
CONSTANTS
  k1 = k1
  k2 = k2
  k3 = k3
  k4 = k4
  Keys = {k1, k2, k4}
  hash_high <- HashHigh
  hash_low <- HashLow
  NR_BUCKET = 2
  BUCKETS_IN_PART = 2
  NR_SET = 1
  PART_TABLE_ENTRYS = 4
  MAX_HOP = 2
  Writers = {r1, r2}
  Readers = {r1, r2}
  SEGMENT_RECORDS = 3
  StaleReads = TRUE
  OldTables <- Unused
  Overlap = FALSE
  MAX_PBA = 4
INVARIANTS NothingLost TablesSound CleanIsWritten
PROPERTIES ImplementsKVStore
SYMMETRY WriterSymmetry
CHECK_DEADLOCK FALSE
