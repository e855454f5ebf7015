SPECIFICATION Spec
CONSTANTS
  k1 = k1
  k2 = k2
  k3 = k3
  k4 = k4
  Keys = {k1, k2, k3}
  hash_high <- HashHigh
  hash_low <- HashLow
  NR_BUCKET = 2
  BUCKETS_IN_PART = 2
  NR_SET = 1
  PART_TABLE_ENTRYS = 4
  MAX_HOP = 2
  Writers = {w1}
  Readers = {g1}
  SEGMENT_RECORDS = 2
  StaleReads = FALSE
  OldTables <- Zeros
  Overlap = TRUE
  MAX_PBA = 7
PROPERTIES NotExistingKey
CHECK_DEADLOCK FALSE
