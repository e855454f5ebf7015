---------------------------- MODULE BigKVProofs ----------------------------
(***************************************************************************)
(* Theorems about BigKV, for every number of keys, requests, buckets, ways *)
(* and cells.                                                              *)
(***************************************************************************)
EXTENDS BigKV, BigKVTableProofs

-----------------------------------------------------------------------------
(* Keys and the log. *)

\* Where a key belongs.
LEMMA KeyPlace ==
    ASSUME NEW k \in Keys
    PROVE  /\ hash_low[k] \in Nat /\ hash_low[k] # 0
           /\ bucket_idx(k) \in Buckets
           /\ part_idx(k) \in Parts
           /\ bucket_idx(k) \in PartBuckets(part_idx(k))
  <1>1. /\ NR_BUCKET \in Nat \ {0} /\ BUCKETS_IN_PART \in Nat \ {0}
        /\ NR_BUCKET % BUCKETS_IN_PART = 0 /\ hash_high[k] \in Nat
        /\ hash_low[k] \in Nat /\ hash_low[k] # 0
    BY BigKVTableAssumption
  <1>2. bucket_idx(k) \in Buckets
    BY <1>1 DEF bucket_idx, Buckets
  <1>3. PICK m \in Nat : m = NR_BUCKET \div BUCKETS_IN_PART
    BY <1>1
  <1>4. NR_BUCKET = m * BUCKETS_IN_PART /\ m # 0
    BY <1>1, <1>3, Z3
  <1>5. PICK b \in Nat : b = bucket_idx(k) /\ b < NR_BUCKET
    BY <1>1, <1>2 DEF Buckets
  <1>6. b \div BUCKETS_IN_PART \in 0..(m - 1)
    BY <1>1, <1>4, <1>5, Positions
  <1>7. part_idx(k) \in Parts
    BY <1>3, <1>5, <1>6 DEF part_idx, Parts
  <1> QED
    BY <1>1, <1>2, <1>7 DEF PartBuckets, part_idx

\* Different keys have different fingerprints.
LEMMA SameKey ==
    ASSUME NEW k1 \in Keys, NEW k2 \in Keys, hash_low[k1] = hash_low[k2]
    PROVE  k1 = k2
  BY BigKVTableAssumption

\* Record n of log lg is a pair of key k, or a table.
IsPair(lg, n, k) == n \in 1..Len(lg) /\ lg[n] = Pair(k)
IsTable(lg, n)   == n \in 1..Len(lg) /\ lg[n].kind = "table"

\* The log only grows.
Grows(l2, lg) ==
    /\ lg \in Seq(Records) /\ l2 \in Seq(Records)
    /\ Len(lg) <= Len(l2)
    /\ \A n \in 1..Len(lg) : l2[n] = lg[n]

\* A log that is left alone.
LEMMA SameGrows ==
    ASSUME NEW lg \in Seq(Records)
    PROVE  Grows(lg, lg)
  BY DEF Grows

\* A record appended is at the new end, and nothing else changes.
LEMMA AppendGrows ==
    ASSUME NEW lg \in Seq(Records), NEW x \in Records
    PROVE  /\ Grows(Append(lg, x), lg)
           /\ Len(Append(lg, x)) = Len(lg) + 1
           /\ Append(lg, x)[Len(lg) + 1] = x
           /\ Len(lg) + 1 \in 1..Len(Append(lg, x)) /\ Len(lg) + 1 # PBA_INVALID
           /\ Len(lg) + 1 \in Nat
  BY DEF Grows, PBA_INVALID

\* Pairs and tables stay where they are, and have valid addresses.
LEMMA KeptByGrowth ==
    ASSUME NEW lg, NEW l2, Grows(l2, lg), NEW n
    PROVE  /\ \A k : IsPair(lg, n, k) => IsPair(l2, n, k)
           /\ IsTable(lg, n) => IsTable(l2, n) /\ l2[n] = lg[n]
           /\ \A k : IsPair(lg, n, k) => n \in Nat /\ n # PBA_INVALID
           /\ IsTable(lg, n) => n \in Nat /\ n # PBA_INVALID
  BY DEF Grows, IsPair, IsTable, PBA_INVALID

\* A record is a pair or a table, and can be told by its kind.
LEMMA RecordKinds ==
    /\ \A k \in Keys : Pair(k) \in Records /\ Pair(k).kind = "pair" /\ Pair(k).key = k
    /\ \A t \in [Cells -> TableEntry] :
          TableOf(t) \in Records /\ TableOf(t).kind = "table" /\ TableOf(t).entry = t
    /\ \A x \in Records : x.kind = "table" => x.entry \in [Cells -> TableEntry]
    /\ \A k1, k2 : Pair(k1) = Pair(k2) => k1 = k2
  <1>1. \A k \in Keys : Pair(k) \in Records /\ Pair(k).kind = "pair" /\ Pair(k).key = k
    BY DEF Pair, Records
  <1>2. \A t \in [Cells -> TableEntry] :
          TableOf(t) \in Records /\ TableOf(t).kind = "table" /\ TableOf(t).entry = t
    BY DEF TableOf, Records
  <1>3. \A x \in Records : x.kind = "table" => x.entry \in [Cells -> TableEntry]
    BY DEF Records
  <1>4. ASSUME NEW k1, NEW k2, Pair(k1) = Pair(k2) PROVE k1 = k2
    <2>1. Pair(k1).key = k1 /\ Pair(k2).key = k2
      BY DEF Pair
    <2> QED
      BY <1>4, <2>1
  <1> QED
    BY <1>1, <1>2, <1>3, <1>4

-----------------------------------------------------------------------------
(* The invariant of the index and its requests, for every mix of requests. *)

\* 1 when a read has overtaken a write.  From then on (m = 1 below) nothing is
\* known of what addresses lead to and of what tables hold.
Doubt == IF misread THEN 1 ELSE 0

\* Buckets are in order, and an entry points to a pair of its key.
Leads(m, lg, n, k) == n \in Nat /\ n # PBA_INVALID /\ (m = 1 \/ IsPair(lg, n, k))

Refers(lg, pba, fp) == \E k \in Keys : IsPair(lg, pba, k) /\ hash_low[k] = fp

Cached(m, bk, lg) ==
    /\ DOMAIN bk = Buckets /\ bk \in [Buckets -> [Ways -> CacheEntry]]
    /\ \A b \in Buckets :
          /\ BucketGood(bk[b])
          /\ \A i \in Occupied(bk[b]) :
                \E k \in Keys : /\ Leads(m, lg, bk[b][i].pba, k)
                                /\ bucket_idx(k) = b
                                /\ hash_low[k] = bk[b][i].fingerprint

\* So do the tables.
TableRefs(lg, t) ==
    \A c \in Cells : t[c].pba # PBA_INVALID => Refers(lg, t[c].pba, t[c].fingerprint)

TableFit(m, lg, t) ==
    t \in [Cells -> TableEntry] /\ (m = 1 \/ (TableGood(t) /\ TableRefs(lg, t)))

Tables(m, lg) ==
    \A n \in 1..Len(lg) : lg[n].kind = "table" => TableFit(m, lg, lg[n].entry)

Partitions(pt, lg) ==
    /\ pt \in [Parts -> [flying: BOOLEAN, pba: Nat]]
    /\ \A p \in Parts : pt[p].pba # PBA_INVALID => IsTable(lg, pt[p].pba)

\* What a request has read or is reading.
HasRead(m, lg, rec) ==
    /\ IsTable(lg, rec.pba) /\ rec.buf \in [Cells -> TableEntry]
    /\ m = 1 \/ rec.buf = lg[rec.pba].entry

HasNothing(rec) == rec.pba = PBA_INVALID /\ rec.buf = NoTable

RequestGood(m, lg, rec) ==
    /\ rec.st = "queued" =>
          rec.read_step = "INIT" /\ rec.write_step = "INIT" /\ HasNothing(rec)
    /\ rec.st = "reading table" =>
          IsTable(lg, rec.pba) \/ (rec.type = "GET" /\ rec.pba = PBA_INVALID)
    /\ rec.st = "reading pair" => rec.type = "GET" /\ Leads(m, lg, rec.pba, rec.key)
    /\ rec.st = "retried" /\ rec.type = "GET" =>
          \/ rec.read_step = "UPDATE_TABLE" /\ HasRead(m, lg, rec)
          \/ rec.read_step = "KEY_MISMATCH" /\ m = 1
    /\ rec.st = "retried" /\ rec.type = "SET" =>
          IF rec.write_step = "WRITE_PTABLE" THEN HasRead(m, lg, rec)
                                             ELSE HasNothing(rec)

Requests(m, rq, lg) == \A r \in Reqs : RequestGood(m, lg, rq[r])

\* The queues hold the requests of their state, each once.
QueueInv ==
    /\ \A i \in 1..Len(req_q) : req[req_q[i]].st = "queued"
    /\ \A i \in 1..Len(retry_q) : req[retry_q[i]].st = "retried"
    /\ \A i, j \in 1..Len(req_q) : req_q[i] = req_q[j] => i = j
    /\ \A i, j \in 1..Len(retry_q) : retry_q[i] = retry_q[j] => i = j
    /\ \A r \in Reqs : req[r].st = "retried" =>
          \E i \in 1..Len(retry_q) : retry_q[i] = r

IndexInv ==
    /\ TypeOK
    /\ Cached(Doubt, bucket, log)
    /\ Tables(Doubt, log)
    /\ Partitions(part, log)
    /\ Requests(Doubt, req, log)
    /\ QueueInv

-----------------------------------------------------------------------------
(* How the parts of the invariant survive what the operations do. *)

\* A growing log keeps what an entry points to,
LEMMA RefersKept ==
    ASSUME NEW lg, NEW l2, Grows(l2, lg), NEW pba, NEW fp, Refers(lg, pba, fp)
    PROVE  Refers(l2, pba, fp)
  BY KeptByGrowth DEF Refers

\* what the cache points to,
LEMMA CachedKept ==
    ASSUME NEW lg, NEW l2, Grows(l2, lg), NEW bk, NEW m, Cached(m, bk, lg)
    PROVE  Cached(m, bk, l2)
  <1>1. \A n, k : Leads(m, lg, n, k) => Leads(m, l2, n, k)
    BY KeptByGrowth DEF Leads
  <1> QED
    BY <1>1, Zenon DEF Cached

\* the tables of the partitions,
LEMMA PartitionsKept ==
    ASSUME NEW lg, NEW l2, Grows(l2, lg), NEW pt, Partitions(pt, lg)
    PROVE  Partitions(pt, l2)
  BY KeptByGrowth DEF Partitions

\* and what a request has read.
LEMMA RequestKept ==
    ASSUME NEW lg, NEW l2, Grows(l2, lg), NEW rec, NEW m, RequestGood(m, lg, rec)
    PROVE  RequestGood(m, l2, rec)
  <1>1. Leads(m, lg, rec.pba, rec.key) => Leads(m, l2, rec.pba, rec.key)
    BY KeptByGrowth DEF Leads
  <1>2. HasRead(m, lg, rec) => HasRead(m, l2, rec)
    BY KeptByGrowth DEF HasRead
  <1>3. IsTable(lg, rec.pba) => IsTable(l2, rec.pba)
    BY KeptByGrowth
  <1> QED
    BY <1>1, <1>2, <1>3 DEF RequestGood

\* Once a read has overtaken a write, less is claimed.
LEMMA LessKnown ==
    ASSUME NEW m, NEW lg
    PROVE  /\ \A bk : Cached(m, bk, lg) => Cached(1, bk, lg)
           /\ Tables(m, lg) => Tables(1, lg)
           /\ \A rec : RequestGood(m, lg, rec) => RequestGood(1, lg, rec)
  <1>1. \A n, k : Leads(m, lg, n, k) => Leads(1, lg, n, k)
    BY DEF Leads
  <1>2. \A bk : Cached(m, bk, lg) => Cached(1, bk, lg)
    BY <1>1, Zenon DEF Cached
  <1>3. Tables(m, lg) => Tables(1, lg)
    BY DEF Tables, TableFit
  <1>4. ASSUME NEW rec, RequestGood(m, lg, rec) PROVE RequestGood(1, lg, rec)
    <2>1. HasRead(m, lg, rec) => HasRead(1, lg, rec)
      BY DEF HasRead
    <2> QED
      BY <1>1, <1>4, <2>1 DEF RequestGood
  <1> QED
    BY <1>2, <1>3, <1>4

\* A pair or a sound table is added to the log.
LEMMA TablesKept ==
    ASSUME NEW lg \in Seq(Records), NEW m, Tables(m, lg), NEW x \in Records,
           x.kind = "table" => TableFit(m, lg, x.entry)
    PROVE  Tables(m, Append(lg, x))
  <1> DEFINE l2 == Append(lg, x)
  <1>1. /\ Grows(l2, lg) /\ Len(l2) = Len(lg) + 1 /\ l2[Len(lg) + 1] = x
    BY AppendGrows
  <1>2. ASSUME NEW t, TableFit(m, lg, t) PROVE TableFit(m, l2, t)
    <2>1. TableRefs(lg, t) => TableRefs(l2, t)
      BY <1>1, RefersKept DEF TableRefs
    <2> QED
      BY <1>2, <2>1 DEF TableFit
  <1> HIDE DEF l2
  <1>3. ASSUME NEW n \in 1..Len(l2), l2[n].kind = "table"
        PROVE  TableFit(m, l2, l2[n].entry)
    <2>1. CASE n = Len(lg) + 1
      BY <1>1, <1>2, <1>3, <2>1
    <2>2. CASE n # Len(lg) + 1
      <3>1. n \in 1..Len(lg)
        BY <1>1, <2>2
      <3>2. l2[n] = lg[n]
        BY <1>1, <3>1 DEF Grows
      <3> QED
        BY <1>2, <1>3, <3>1, <3>2 DEF Tables
    <2> QED
      BY <2>1, <2>2
  <1> QED
    BY <1>3 DEF Tables, l2

\* A hit only changes the LRU bits of its bucket.
LEMMA CachedTouch ==
    ASSUME NEW bk, NEW lg, NEW m, Cached(m, bk, lg), NEW b \in Buckets, NEW i \in Occupied(bk[b])
    PROVE  Cached(m, [bk EXCEPT ![b] = touch(@, i)], lg)
  <1> DEFINE b2 == [bk EXCEPT ![b] = touch(bk[b], i)]
  <1>1. BucketGood(bk[b])
    BY DEF Cached
  <1>2. /\ BucketGood(touch(bk[b], i))
        /\ \A j \in Ways :
              /\ touch(bk[b], i)[j].fingerprint = bk[b][j].fingerprint
              /\ touch(bk[b], i)[j].dirty_bit = bk[b][j].dirty_bit
              /\ touch(bk[b], i)[j].pba = bk[b][j].pba
    BY <1>1, TouchGood
  <1>3. /\ DOMAIN b2 = Buckets /\ b2[b] = touch(bk[b], i)
        /\ \A a \in Buckets \ {b} : b2[a] = bk[a]
    BY DEF Cached
  <1>4. b2 \in [Buckets -> [Ways -> CacheEntry]]
    BY <1>2 DEF Cached, BucketGood
  <1> HIDE DEF b2
  <1>5. ASSUME NEW a \in Buckets
        PROVE  /\ BucketGood(b2[a])
               /\ \A j \in Ways : /\ b2[a][j].fingerprint = bk[a][j].fingerprint
                                  /\ b2[a][j].pba = bk[a][j].pba
    BY <1>2, <1>3 DEF Cached
  <1>6. Cached(m, b2, lg)
    BY <1>3, <1>4, <1>5 DEF Cached, Occupied
  <1> QED
    BY <1>6 DEF b2

\* Filling the entry that get_target_entry gives keeps every bucket in order.
LEMMA CachedFill ==
    ASSUME NEW bk, NEW lg, NEW m, Cached(m, bk, lg), NEW k \in Keys, NEW i,
           i = get_target_entry(bk[bucket_idx(k)], hash_low[k]), i # 0,
           NEW dirty \in BOOLEAN, NEW pba \in Nat, Leads(m, lg, pba, k)
    PROVE  /\ Cached(m, [bk EXCEPT ![bucket_idx(k)] = fill(@, i, hash_low[k], dirty, pba)], lg)
           /\ Filled(fill(bk[bucket_idx(k)], i, hash_low[k], dirty, pba),
                     bk[bucket_idx(k)], i, hash_low[k], dirty, pba)
  <1>0. PICK b \in Buckets : b = bucket_idx(k)
    BY KeyPlace
  <1>00. PICK fp \in Nat : fp = hash_low[k] /\ fp # 0
    BY KeyPlace
  <1> DEFINE f  == fill(bk[b], i, fp, dirty, pba)
             b2 == [bk EXCEPT ![b] = f]
  <1>1. BucketGood(bk[b])
    BY DEF Cached
  <1>2. Filled(f, bk[b], i, fp, dirty, pba)
    BY <1>0, <1>00, <1>1, FillGood DEF Leads
  <1> HIDE DEF f
  <1>3. /\ DOMAIN b2 = Buckets /\ b2[b] = f
        /\ \A a \in Buckets \ {b} : b2[a] = bk[a]
    BY DEF Cached
  <1>4. b2 \in [Buckets -> [Ways -> CacheEntry]]
    BY <1>2 DEF Cached, BucketGood, Filled
  <1> HIDE DEF b2
  <1>5. ASSUME NEW a \in Buckets PROVE BucketGood(b2[a])
    BY <1>2, <1>3 DEF Cached, Filled
  <1>6. ASSUME NEW a \in Buckets, NEW j \in Occupied(b2[a])
        PROVE  \E l \in Keys : /\ Leads(m, lg, b2[a][j].pba, l)
                               /\ bucket_idx(l) = a
                               /\ hash_low[l] = b2[a][j].fingerprint
    <2>1. CASE a # b
      BY <1>3, <1>6, <2>1 DEF Cached
    <2>2. CASE a = b /\ j = i
      BY <1>0, <1>00, <1>2, <1>3, <1>6, <2>2 DEF Filled
    <2>3. CASE a = b /\ j # i
      <3>1. /\ j \in Occupied(bk[b]) /\ f[j].pba = bk[b][j].pba
            /\ f[j].fingerprint = bk[b][j].fingerprint
        BY <1>2, <1>3, <1>6, <2>3 DEF Filled, Occupied
      <3> QED
        BY <1>3, <2>3, <3>1 DEF Cached
    <2> QED
      BY <2>1, <2>2, <2>3
  <1>7. Cached(m, b2, lg)
    BY <1>3, <1>4, <1>5, <1>6 DEF Cached
  <1>8. [bk EXCEPT ![bucket_idx(k)] = fill(@, i, hash_low[k], dirty, pba)] = b2
    BY <1>0, <1>00 DEF b2, f
  <1> QED
    BY <1>0, <1>00, <1>2, <1>7, <1>8 DEF f

\* So does clearing the dirty bits after a table was written.
LEMMA CachedCleaned ==
    ASSUME NEW bk, NEW lg, NEW m, Cached(m, bk, lg), NEW p
    PROVE  Cached(m, Cleaned(bk, p), lg)
  <1> DEFINE b2 == Cleaned(bk, p)
  <1>1. ASSUME NEW b \in Buckets
        PROVE  /\ BucketGood(b2[b])
               /\ \A i \in Ways : /\ b2[b][i].fingerprint = bk[b][i].fingerprint
                                  /\ b2[b][i].pba = bk[b][i].pba
    <2>1. BucketGood(bk[b])
      BY DEF Cached
    <2> QED
      BY <2>1, CleanedGood
  <1>2. DOMAIN b2 = Buckets
    BY DEF Cleaned
  <1>3. b2 \in [Buckets -> [Ways -> CacheEntry]]
    <2>1. b2 = [b \in Buckets |-> b2[b]]
      BY DEF Cleaned
    <2> HIDE DEF b2
    <2> QED
      BY <1>1, <2>1 DEF BucketGood
  <1> HIDE DEF b2
  <1>4. ASSUME NEW b \in Buckets, NEW i \in Occupied(b2[b])
        PROVE  \E k \in Keys : /\ Leads(m, lg, b2[b][i].pba, k)
                               /\ bucket_idx(k) = b
                               /\ hash_low[k] = b2[b][i].fingerprint
    <2>1. i \in Ways /\ b2[b][i].pba = bk[b][i].pba
      BY <1>1, <1>4 DEF Occupied
    <2>2. i \in Occupied(bk[b])
      BY <1>4, <2>1 DEF Occupied
    <2> QED
      BY <1>1, <2>1, <2>2 DEF Cached
  <1>5. Cached(m, b2, lg)
    BY <1>1, <1>2, <1>3, <1>4 DEF Cached
  <1> QED
    BY <1>5 DEF b2

\* The table that update_part_table makes refers to pairs.
LEMMA UpdatedRefs ==
    ASSUME NEW bk, NEW lg, NEW m, Cached(m, bk, lg), m # 1,
           NEW t, TableGood(t), TableRefs(lg, t),
           NEW p \in Parts, update_part_table(t, bk, p) # NoTable
    PROVE  /\ TableGood(update_part_table(t, bk, p))
           /\ TableRefs(lg, update_part_table(t, bk, p))
  <1> DEFINE t2 == update_part_table(t, bk, p)
  <1>1. \A b \in Buckets : BucketGood(bk[b])
    BY DEF Cached
  <1>2. /\ TableGood(t2)
        /\ \A fp \in Nat \ {0} :
              \/ \E b \in PartBuckets(p), i \in Ways :
                    /\ bk[b][i].dirty_bit
                    /\ bk[b][i].fingerprint = fp
                    /\ get_match_entry_f(t2, fp) = bk[b][i].pba
              \/ get_match_entry_f(t2, fp) = get_match_entry_f(t, fp)
    BY <1>1, UpdatePartTable
  <1> HIDE DEF t2
  <1>3. ASSUME NEW c \in Cells, t2[c].pba # PBA_INVALID
        PROVE  Refers(lg, t2[c].pba, t2[c].fingerprint)
    <2>1. PICK fp : fp = t2[c].fingerprint
      OBVIOUS
    <2>2. fp \in Nat \ {0}
      BY <1>2, <1>3, <2>1 DEF TableGood, TableEntry
    <2>3. get_match_entry_f(t2, fp) = t2[c].pba
      BY <1>2, <1>3, <2>1, TableFinds
    <2>4. ASSUME NEW b \in PartBuckets(p), NEW i \in Ways,
                 bk[b][i].dirty_bit, bk[b][i].fingerprint = fp,
                 get_match_entry_f(t2, fp) = bk[b][i].pba
          PROVE  Refers(lg, t2[c].pba, t2[c].fingerprint)
      <3>1. b \in Buckets
        BY DEF PartBuckets
      <3>2. i \in Occupied(bk[b])
        BY <1>1, <2>4, <3>1 DEF BucketGood, UnusedClear, Occupied
      <3> QED
        BY <2>1, <2>3, <2>4, <3>1, <3>2 DEF Cached, Refers, Leads
    <2>5. ASSUME get_match_entry_f(t2, fp) = get_match_entry_f(t, fp)
          PROVE  Refers(lg, t2[c].pba, t2[c].fingerprint)
      <3>1. get_match_entry_f(t, fp) # PBA_INVALID
        BY <1>3, <2>3, <2>5
      <3>2. PICK d \in Cells : /\ t[d].fingerprint = fp
                               /\ t[d].pba # PBA_INVALID
                               /\ get_match_entry_f(t, fp) = t[d].pba
        BY <2>2, <3>1, TableMatch
      <3>3. Refers(lg, t[d].pba, t[d].fingerprint)
        BY <3>2 DEF TableRefs
      <3> QED
        BY <2>1, <2>3, <2>5, <3>2, <3>3
    <2> QED
      BY <1>2, <2>2, <2>4, <2>5
  <1> QED
    BY <1>2, <1>3 DEF TableRefs, t2

\* The table that update_part_table makes is one, and refers to pairs if the
\* one before did.
LEMMA UpdatedFit ==
    ASSUME NEW bk, NEW lg, NEW m, Cached(m, bk, lg), NEW t, TableFit(m, lg, t),
           NEW p \in Parts, update_part_table(t, bk, p) # NoTable
    PROVE  TableFit(m, lg, update_part_table(t, bk, p))
  <1>1. update_part_table(t, bk, p) \in [Cells -> TableEntry]
    BY UpdateIsTable DEF Cached, TableFit
  <1>2. m # 1 => /\ TableGood(update_part_table(t, bk, p))
                 /\ TableRefs(lg, update_part_table(t, bk, p))
    BY UpdatedRefs DEF TableFit
  <1> QED
    BY <1>1, <1>2 DEF TableFit

\* What a table answers leads to the key, and is a pair of the key if the table
\* is sound.
LEMMA AnswerLeads ==
    ASSUME NEW lg, NEW t, NEW m, TableFit(m, lg, t), NEW k \in Keys,
           get_match_entry_f(t, hash_low[k]) # PBA_INVALID
    PROVE  Leads(m, lg, get_match_entry_f(t, hash_low[k]), k)
  <1>0. get_match_entry_f(t, hash_low[k]) \in Nat
    BY KeyPlace, AnswerIsNat DEF TableFit
  <1> SUFFICES ASSUME m # 1 PROVE IsPair(lg, get_match_entry_f(t, hash_low[k]), k)
    BY <1>0 DEF Leads
  <1>00. TableGood(t) /\ TableRefs(lg, t)
    BY DEF TableFit
  <1>1. PICK c \in Cells : /\ t[c].fingerprint = hash_low[k]
                           /\ t[c].pba # PBA_INVALID
                           /\ get_match_entry_f(t, hash_low[k]) = t[c].pba
    BY <1>00, KeyPlace, TableMatch
  <1>2. Refers(lg, t[c].pba, t[c].fingerprint)
    BY <1>00, <1>1 DEF TableRefs
  <1> QED
    BY <1>1, <1>2, SameKey DEF Refers

\* An empty table points nowhere.
LEMMA EmptyTableFit ==
    ASSUME NEW m, NEW lg
    PROVE  TableFit(m, lg, EmptyTable)
  <1>1. TableRefs(lg, EmptyTable)
    BY DEF TableRefs, EmptyTable
  <1> QED
    BY <1>1, EmptyTableGood DEF TableFit, TableGood

-----------------------------------------------------------------------------
(* Records of requests. *)

\* A read may be racy or not.
LEMMA RacesIs ==
    ASSUME NEW p
    PROVE  \E b \in BOOLEAN : b = Races(p)
  <1>1. CASE Races(p)
    BY <1>1
  <1>2. CASE ~Races(p)
    BY <1>2, Zenon DEF Races
  <1> QED
    BY <1>1, <1>2

\* A read that is submitted is under way, or lost.
LEMMA AioReadIs ==
    ASSUME NEW rec \in ReqRecord, NEW rec2 \in aio_read(rec)
    PROVE  /\ rec2 \in ReqRecord /\ rec2.type = rec.type /\ rec2.key = rec.key
           /\ rec2.pba = rec.pba /\ rec2.st \in {rec.st, "lost"}
  <1>1. PICK b \in BOOLEAN : b = Races(rec.pba)
    BY RacesIs
  <1>2. rec2 = [rec EXCEPT !.racy = b] \/ rec2 = [rec EXCEPT !.st = "lost"]
    BY <1>1 DEF aio_read
  <1>3. CASE rec2 = [rec EXCEPT !.racy = b]
    BY <1>3 DEF ReqRecord
  <1>4. CASE rec2 = [rec EXCEPT !.st = "lost"]
    BY <1>4 DEF ReqRecord, States
  <1> QED
    BY <1>2, <1>3, <1>4

\* The rest of a record when its read of a table is submitted.
TableRead(lg, rec2, rec, p) ==
    /\ rec2 \in ReqRecord
    /\ rec2.type = rec.type /\ rec2.key = rec.key /\ rec2.pba = p
    /\ \/ rec2.st \in {"reading table", "lost"}
       \/ /\ rec2.st = "retried" /\ p # PBA_INVALID
          /\ rec2.write_step = "WRITE_PTABLE" /\ rec2.read_step = "UPDATE_TABLE"
          /\ rec2.buf \in [Cells -> TableEntry] /\ rec2.buf = lg[p].entry

\* The request whose read of a table is done has the table.
LEMMA TableReadIs ==
    ASSUME NEW rec \in ReqRecord, NEW t \in [Cells -> TableEntry]
    PROVE  /\ cb_part_table_read(rec, t) \in ReqRecord
           /\ cb_part_table_read(rec, t).type = rec.type
           /\ cb_part_table_read(rec, t).key = rec.key
           /\ cb_part_table_read(rec, t).pba = rec.pba
           /\ cb_part_table_read(rec, t).buf = t
           /\ cb_part_table_read(rec, t).st = "retried"
           /\ cb_part_table_read(rec, t).write_step = "WRITE_PTABLE"
           /\ cb_part_table_read(rec, t).read_step = "UPDATE_TABLE"
  BY DEF cb_part_table_read, ReqRecord, States, WriteSteps, ReadSteps

\* The table at an address.
LEMMA EntryIsTable ==
    ASSUME NEW lg \in Seq(Records), NEW n, IsTable(lg, n)
    PROVE  lg[n].entry \in [Cells -> TableEntry]
  <1>1. lg[n] \in Records /\ lg[n].kind = "table"
    BY DEF IsTable
  <1> QED
    BY <1>1, RecordKinds

\* The read of a table leaves the request otherwise alone.
LEMMA ReadTableIs ==
    ASSUME NEW rec \in ReqRecord, NEW p \in Nat, log \in Seq(Records),
           p # PBA_INVALID => IsTable(log, p), NEW rec2 \in ReadTable(rec, p)
    PROVE  TableRead(log, rec2, rec, p)
  <1>0. PICK r1 : r1 = [rec EXCEPT !.st = "reading table", !.pba = p]
    OBVIOUS
  <1>1. /\ r1 \in ReqRecord /\ r1.type = rec.type /\ r1.key = rec.key /\ r1.pba = p
        /\ r1.st = "reading table"
    BY <1>0 DEF ReqRecord, States
  <1>2. CASE ~is_staged(p)
    <2>1. rec2 \in aio_read(r1)
      BY <1>0, <1>2 DEF ReadTable
    <2> QED
      BY <1>1, <2>1, AioReadIs DEF TableRead
  <1>3. CASE is_staged(p)
    <2>1. rec2 = cb_part_table_read(r1, log[p].entry)
      BY <1>0, <1>3 DEF ReadTable
    <2>2. p # PBA_INVALID
      BY <1>3 DEF is_staged
    <2>3. PICK t \in [Cells -> TableEntry] : t = log[p].entry
      BY <2>2, EntryIsTable
    <2>4. rec2 = cb_part_table_read(r1, t)
      BY <2>1, <2>3
    <2>5. /\ rec2 \in ReqRecord /\ rec2.type = r1.type /\ rec2.key = r1.key
          /\ rec2.pba = r1.pba /\ rec2.buf = t /\ rec2.st = "retried"
          /\ rec2.write_step = "WRITE_PTABLE" /\ rec2.read_step = "UPDATE_TABLE"
      BY <1>1, <2>4, TableReadIs
    <2> QED
      BY <1>1, <2>2, <2>3, <2>5 DEF TableRead
  <1> QED
    BY <1>2, <1>3

\* What is left with a request that reads a table.
LEMMA TableReadGood ==
    ASSUME NEW m, NEW lg, NEW rec2, NEW rec, NEW p, TableRead(lg, rec2, rec, p),
           IsTable(lg, p) \/ (rec.type = "GET" /\ p = PBA_INVALID)
    PROVE  RequestGood(m, lg, rec2) /\ rec2 \in ReqRecord /\ rec2.st # "queued"
  <1>1. rec2.st = "retried" => HasRead(m, lg, rec2)
    BY DEF TableRead, HasRead, IsTable, PBA_INVALID
  <1>2. rec2.st \in {"reading table", "lost", "retried"}
    BY DEF TableRead
  <1> QED
    BY <1>1, <1>2 DEF TableRead, RequestGood

\* The parts of a request that was acknowledged.
LEMMA EndReqIs ==
    ASSUME NEW rec \in ReqRecord, NEW v \in Nat
    PROVE  /\ net_end_req(rec, v) \in ReqRecord
           /\ net_end_req(rec, v).st = "idle"
           /\ net_end_req(rec, v).type = rec.type
           /\ net_end_req(rec, v).key = rec.key
  BY DEF net_end_req, ReqRecord, States, WriteSteps, ReadSteps

\* The read of a pair ends the request, or is under way, or lost.  The keys
\* differ only after a read has overtaken a write.
PairRead(m, lg, rec2, rec) ==
    /\ rec2 \in ReqRecord /\ rec2.type = rec.type /\ rec2.key = rec.key
    /\ \/ rec2.st \in {"idle", "lost"}
       \/ rec2.st = "reading pair" /\ Leads(m, lg, rec2.pba, rec2.key)
       \/ rec2.st = "retried" /\ rec2.read_step = "KEY_MISMATCH" /\ m = 1

\* The comparison of the keys.
LEMMA KeyCmpIs ==
    ASSUME NEW rec \in ReqRecord, NEW m, NEW lg, NEW match \in BOOLEAN, match \/ m = 1
    PROVE  PairRead(m, lg, cb_keycmp(rec, match), rec) /\ cb_keycmp(rec, match).st # "reading pair"
  <1>0. rec.pba \in Nat
    BY DEF ReqRecord
  <1>1. CASE match
    <2>1. cb_keycmp(rec, match) = net_end_req(rec, rec.pba)
      BY <1>1 DEF cb_keycmp
    <2> QED
      BY <1>0, <2>1, EndReqIs DEF PairRead
  <1>2. CASE ~match
    <2>1. PICK rec2 : rec2 = [rec EXCEPT !.st = "retried", !.read_step = "KEY_MISMATCH",
                                         !.pba = 0, !.racy = FALSE]
      OBVIOUS
    <2>2. cb_keycmp(rec, match) = rec2
      BY <1>2, <2>1 DEF cb_keycmp
    <2>3. /\ rec2 \in ReqRecord /\ rec2.type = rec.type /\ rec2.key = rec.key
          /\ rec2.st = "retried" /\ rec2.read_step = "KEY_MISMATCH"
      BY <2>1 DEF ReqRecord, States, ReadSteps
    <2> QED
      BY <1>2, <2>2, <2>3 DEF PairRead
  <1> QED
    BY <1>1, <1>2

\* An address that leads to a key is not that of another pair.
LEMMA LeadsIs ==
    ASSUME NEW m, NEW p, NEW k, Leads(m, log, p, k)
    PROVE  \E match \in BOOLEAN : match = IsPairOf(p, k) /\ (match \/ m = 1)
  <1>1. CASE IsPairOf(p, k)
    BY <1>1
  <1>2. CASE ~IsPairOf(p, k)
    BY <1>2 DEF Leads, IsPair, IsPairOf
  <1> QED
    BY <1>1, <1>2

\* The read of a pair.
LEMMA ReadPairIs ==
    ASSUME NEW rec \in ReqRecord, NEW p \in Nat, NEW m, Leads(m, log, p, rec.key),
           NEW rec2 \in ReadPair(rec, p)
    PROVE  PairRead(m, log, rec2, rec)
  <1>0. PICK r1 : r1 = [rec EXCEPT !.st = "reading pair", !.pba = p, !.buf = NoTable]
    OBVIOUS
  <1>1. /\ r1 \in ReqRecord /\ r1.type = rec.type /\ r1.key = rec.key /\ r1.pba = p
        /\ r1.st = "reading pair"
    BY <1>0 DEF ReqRecord, States
  <1>2. CASE ~is_staged(p)
    <2>1. rec2 \in aio_read(r1)
      BY <1>0, <1>2 DEF ReadPair
    <2> QED
      BY <1>1, <2>1, AioReadIs DEF PairRead
  <1>3. CASE is_staged(p)
    <2>1. rec2 = cb_keycmp(r1, IsPairOf(p, rec.key))
      BY <1>0, <1>3 DEF ReadPair
    <2>2. PICK match \in BOOLEAN : match = IsPairOf(p, rec.key) /\ (match \/ m = 1)
      BY LeadsIs
    <2>3. rec2 = cb_keycmp(r1, match)
      BY <2>1, <2>2
    <2>4. PairRead(m, log, rec2, r1)
      BY <1>1, <2>2, <2>3, KeyCmpIs
    <2> QED
      BY <1>1, <2>4 DEF PairRead
  <1> QED
    BY <1>2, <1>3

\* What is left with a GET that reads a pair.
LEMMA PairReadGood ==
    ASSUME NEW m, NEW lg, NEW l2, Grows(l2, lg), NEW rec2, NEW rec, rec.type = "GET",
           PairRead(m, lg, rec2, rec)
    PROVE  RequestGood(m, l2, rec2) /\ rec2 \in ReqRecord /\ rec2.st # "queued"
  <1>1. RequestGood(m, lg, rec2)
    BY DEF PairRead, RequestGood
  <1> QED
    BY <1>1, RequestKept DEF PairRead

-----------------------------------------------------------------------------
(* Queues. *)

\* Of the request that the handler thread runs: its state, and that no retried
\* request waits when a new one runs.
LEMMA Dispatched ==
    ASSUME IndexInv, NEW r, get_next_request(r)
    PROVE  /\ r \in Reqs
           /\ req[r] \in ReqRecord
           /\ req[r].st \in {"queued", "retried"}
           /\ req[r].st = "queued" => \A q \in Reqs : req[q].st # "retried"
  <1>0. req_q \in Seq(Reqs) /\ retry_q \in Seq(Reqs) /\ req \in [Reqs -> ReqRecord]
    BY DEF IndexInv, TypeOK
  <1>1. CASE retry_q # << >>
    <2>1. r = Head(retry_q)
      BY <1>1 DEF get_next_request, RetriedFirst
    <2>2. 1 \in 1..Len(retry_q) /\ r = retry_q[1] /\ r \in Reqs
      BY <1>0, <1>1, <2>1
    <2>3. req[r].st = "retried"
      BY <2>2 DEF IndexInv, QueueInv
    <2> QED
      BY <1>0, <2>2, <2>3
  <1>2. CASE retry_q = << >>
    <2>1. req_q # << >> /\ r = Head(req_q)
      BY <1>2 DEF get_next_request, RetriedFirst
    <2>2. 1 \in 1..Len(req_q) /\ r = req_q[1] /\ r \in Reqs
      BY <1>0, <2>1
    <2>3. req[r].st = "queued"
      BY <2>2 DEF IndexInv, QueueInv
    <2>4. \A i : i \notin 1..Len(retry_q)
      BY <1>2
    <2>5. \A q \in Reqs : req[q].st # "retried"
      BY <2>4 DEF IndexInv, QueueInv
    <2> QED
      BY <1>0, <2>2, <2>3, <2>5
  <1> QED
    BY <1>1, <1>2

\* The rest of a queue.
LEMMA TailIs ==
    ASSUME NEW S, NEW q \in Seq(S), q # << >>
    PROVE  /\ Tail(q) \in Seq(S)
           /\ Len(Tail(q)) = Len(q) - 1
           /\ Len(q) \in Nat /\ Len(q) >= 1
           /\ \A i \in 1..Len(Tail(q)) : Tail(q)[i] = q[i + 1] /\ i + 1 \in 1..Len(q)
  OBVIOUS

\* The positions of a queue and of the queue with one request more.
LEMMA AppendIs ==
    ASSUME NEW S, NEW q \in Seq(S), NEW x \in S
    PROVE  /\ Append(q, x) \in Seq(S)
           /\ Len(Append(q, x)) = Len(q) + 1 /\ Len(q) \in Nat
           /\ \A i \in 1..Len(q) : Append(q, x)[i] = q[i] /\ i \in 1..Len(Append(q, x))
           /\ Append(q, x)[Len(q) + 1] = x
           /\ \A i \in 1..Len(Append(q, x)) : i \in 1..Len(q) \/ i = Len(q) + 1
  OBVIOUS

\* What is left of the queues when r has been taken.
LEMMA RestIs ==
    ASSUME IndexInv, NEW r, get_next_request(r)
    PROVE  /\ req_q' \in Seq(Reqs) /\ RetryRest \in Seq(Reqs)
           /\ \A i \in 1..Len(req_q') : req[req_q'[i]].st = "queued" /\ req_q'[i] # r
           /\ \A i, j \in 1..Len(req_q') : req_q'[i] = req_q'[j] => i = j
           /\ \A i \in 1..Len(RetryRest) :
                 req[RetryRest[i]].st = "retried" /\ RetryRest[i] # r
           /\ \A i, j \in 1..Len(RetryRest) : RetryRest[i] = RetryRest[j] => i = j
           /\ \A q \in Reqs \ {r} : req[q].st = "retried" =>
                 \E i \in 1..Len(RetryRest) : RetryRest[i] = q
  <1>0. req_q \in Seq(Reqs) /\ retry_q \in Seq(Reqs) /\ req \in [Reqs -> ReqRecord]
    BY DEF IndexInv, TypeOK
  <1>1. QueueInv
    BY DEF IndexInv
  <1>2. CASE retry_q # << >>
    <2>1. r = Head(retry_q) /\ req_q' = req_q /\ RetryRest = Tail(retry_q)
      BY <1>2 DEF get_next_request, RetriedFirst, RetryRest
    <2>2. 1 \in 1..Len(retry_q) /\ r = retry_q[1]
      BY <1>0, <1>2, <2>1
    <2>3. req[r].st = "retried"
      BY <1>1, <2>2 DEF QueueInv
    <2>4. \A i \in 1..Len(req_q') : req[req_q'[i]].st = "queued" /\ req_q'[i] # r
      BY <1>1, <2>1, <2>3 DEF QueueInv
    <2>5. \A i, j \in 1..Len(req_q') : req_q'[i] = req_q'[j] => i = j
      BY <1>1, <2>1 DEF QueueInv
    <2>6. PICK q : q = Tail(retry_q)
      OBVIOUS
    <2>7. /\ q \in Seq(Reqs) /\ Len(q) = Len(retry_q) - 1
          /\ Len(retry_q) \in Nat /\ Len(retry_q) >= 1
          /\ \A i \in 1..Len(q) : q[i] = retry_q[i + 1] /\ i + 1 \in 1..Len(retry_q)
      BY <1>0, <1>2, <2>6, TailIs
    <2>8. ASSUME NEW i \in 1..Len(q) PROVE req[q[i]].st = "retried" /\ q[i] # r
      <3>1. q[i] = retry_q[i + 1] /\ i + 1 \in 1..Len(retry_q) /\ i + 1 # 1
        BY <2>7
      <3> QED
        BY <1>1, <2>2, <3>1 DEF QueueInv
    <2>9. ASSUME NEW i \in 1..Len(q), NEW j \in 1..Len(q), q[i] = q[j] PROVE i = j
      <3>1. /\ retry_q[i + 1] = retry_q[j + 1]
            /\ i + 1 \in 1..Len(retry_q) /\ j + 1 \in 1..Len(retry_q)
        BY <2>7, <2>9
      <3>2. i + 1 = j + 1
        BY <1>1, <3>1 DEF QueueInv
      <3> QED
        BY <3>2
    <2>10. ASSUME NEW s \in Reqs \ {r}, req[s].st = "retried"
           PROVE  \E i \in 1..Len(q) : q[i] = s
      <3>1. PICK i \in 1..Len(retry_q) : retry_q[i] = s
        BY <1>1, <2>10 DEF QueueInv
      <3>2. i # 1
        BY <2>2, <3>1
      <3>3. i - 1 \in 1..Len(q) /\ (i - 1) + 1 = i
        BY <2>7, <3>2
      <3> QED
        BY <2>7, <3>1, <3>3
    <2>11. RetryRest = q /\ req_q' \in Seq(Reqs)
      BY <1>0, <2>1, <2>6
    <2> QED
      BY <2>4, <2>5, <2>7, <2>8, <2>9, <2>10, <2>11
  <1>3. CASE retry_q = << >>
    <2>1. req_q # << >> /\ r = Head(req_q) /\ req_q' = Tail(req_q) /\ RetryRest = retry_q
      BY <1>3 DEF get_next_request, RetriedFirst, RetryRest
    <2>2. 1 \in 1..Len(req_q) /\ r = req_q[1]
      BY <1>0, <2>1
    <2>3. \A i : i \notin 1..Len(RetryRest)
      BY <1>3, <2>1
    <2>4. PICK q : q = Tail(req_q)
      OBVIOUS
    <2>5. /\ q \in Seq(Reqs) /\ Len(q) = Len(req_q) - 1
          /\ \A i \in 1..Len(q) : q[i] = req_q[i + 1] /\ i + 1 \in 1..Len(req_q)
      BY <1>0, <2>1, <2>4, TailIs
    <2>6. ASSUME NEW i \in 1..Len(q) PROVE req[q[i]].st = "queued" /\ q[i] # r
      <3>1. q[i] = req_q[i + 1] /\ i + 1 \in 1..Len(req_q) /\ i + 1 # 1
        BY <2>5
      <3> QED
        BY <1>1, <2>2, <3>1 DEF QueueInv
    <2>7. ASSUME NEW i \in 1..Len(q), NEW j \in 1..Len(q), q[i] = q[j] PROVE i = j
      <3>1. req_q[i + 1] = req_q[j + 1] /\ i + 1 \in 1..Len(req_q) /\ j + 1 \in 1..Len(req_q)
        BY <2>5, <2>7
      <3>2. i + 1 = j + 1
        BY <1>1, <3>1 DEF QueueInv
      <3> QED
        BY <3>2
    <2>8. \A s \in Reqs : req[s].st # "retried"
      BY <1>1, <2>1, <2>3 DEF QueueInv
    <2> QED
      BY <1>0, <2>1, <2>3, <2>4, <2>5, <2>6, <2>7, <2>8
  <1> QED
    BY <1>2, <1>3

\* The end of every call of the index.
LEMMA ProceedKeeps ==
    ASSUME IndexInv, NEW r \in Reqs, NEW rec \in ReqRecord, rec.st # "queued",
           NEW q \in Seq(Reqs), Proceed(r, rec, q),
           \A i \in 1..Len(q) : req[q[i]].st = "retried" /\ q[i] # r,
           \A i, j \in 1..Len(q) : q[i] = q[j] => i = j,
           \A s \in Reqs \ {r} : req[s].st = "retried" => \E i \in 1..Len(q) : q[i] = s,
           req_q' \in Seq(Reqs),
           \A i \in 1..Len(req_q') : req[req_q'[i]].st = "queued" /\ req_q'[i] # r,
           \A i, j \in 1..Len(req_q') : req_q'[i] = req_q'[j] => i = j
    PROVE  /\ req' \in [Reqs -> ReqRecord] /\ retry_q' \in Seq(Reqs) /\ QueueInv'
           /\ req'[r] = rec /\ \A s \in Reqs \ {r} : req'[s] = req[s]
  <1>0. req \in [Reqs -> ReqRecord]
    BY DEF IndexInv, TypeOK
  <1>1. /\ req' \in [Reqs -> ReqRecord]
        /\ req'[r] = rec /\ \A s \in Reqs \ {r} : req'[s] = req[s]
    BY <1>0 DEF Proceed
  <1>2. retry_q' = IF rec.st = "retried" THEN Append(q, r) ELSE q
    BY DEF Proceed
  <1>3. ASSUME NEW i \in 1..Len(q) PROVE q[i] \in Reqs /\ req'[q[i]].st = "retried"
    <2>1. q[i] \in Reqs
      OBVIOUS
    <2> QED
      BY <1>1, <2>1
  <1>4. ASSUME NEW i \in 1..Len(req_q') PROVE req'[req_q'[i]].st = "queued"
    <2>1. req_q'[i] \in Reqs
      OBVIOUS
    <2> QED
      BY <1>1, <2>1
  <1>5. CASE rec.st # "retried"
    <2>1. retry_q' = q
      BY <1>2, <1>5
    <2>2. \A s \in Reqs : req'[s].st = "retried" => \E i \in 1..Len(q) : q[i] = s
      BY <1>1, <1>5
    <2> QED
      BY <1>1, <1>3, <1>4, <2>1, <2>2 DEF QueueInv
  <1>6. CASE rec.st = "retried"
    <2>1. PICK q2 : q2 = Append(q, r)
      OBVIOUS
    <2>2. retry_q' = q2
      BY <1>2, <1>6, <2>1
    <2>3. /\ q2 \in Seq(Reqs) /\ Len(q2) = Len(q) + 1 /\ Len(q) \in Nat
          /\ \A i \in 1..Len(q) : q2[i] = q[i] /\ i \in 1..Len(q2)
          /\ q2[Len(q) + 1] = r
          /\ \A i \in 1..Len(q2) : i \in 1..Len(q) \/ i = Len(q) + 1
      BY <2>1, AppendIs
    <2>4. \A i \in 1..Len(q2) : req'[q2[i]].st = "retried"
      BY <1>1, <1>3, <1>6, <2>3
    <2>5. ASSUME NEW i \in 1..Len(q2), NEW j \in 1..Len(q2), q2[i] = q2[j] PROVE i = j
      <3>1. CASE i \in 1..Len(q) /\ j \in 1..Len(q)
        BY <2>3, <2>5, <3>1
      <3>2. CASE i = Len(q) + 1 /\ j \in 1..Len(q)
        BY <2>3, <2>5, <3>2
      <3>3. CASE j = Len(q) + 1 /\ i \in 1..Len(q)
        BY <2>3, <2>5, <3>3
      <3>4. CASE i = Len(q) + 1 /\ j = Len(q) + 1
        BY <3>4
      <3> QED
        BY <2>3, <3>1, <3>2, <3>3, <3>4
    <2>6. ASSUME NEW s \in Reqs, req'[s].st = "retried"
          PROVE  \E i \in 1..Len(q2) : q2[i] = s
      <3>1. CASE s = r
        <4>1. Len(q) + 1 \in 1..Len(q2)
          BY <2>3
        <4> QED
          BY <2>3, <3>1, <4>1
      <3>2. CASE s # r
        <4>1. PICK i \in 1..Len(q) : q[i] = s
          BY <1>1, <2>6, <3>2
        <4> QED
          BY <2>3, <4>1
      <3> QED
        BY <3>1, <3>2
    <2> QED
      BY <1>1, <1>4, <2>2, <2>3, <2>4, <2>5, <2>6 DEF QueueInv
  <1> QED
    BY <1>5, <1>6

\* A call of the handler thread keeps the invariant if what it leaves does.
LEMMA CallKeeps ==
    ASSUME IndexInv, NEW r, get_next_request(r), NEW rec \in ReqRecord,
           rec.st # "queued", Proceed(r, rec, RetryRest), aborted' \in BOOLEAN,
           flushing' \in SUBSET Nat, misread' = misread,
           Grows(log', log), Tables(Doubt, log'), Cached(Doubt, bucket', log'),
           Partitions(part', log'), RequestGood(Doubt, log', rec)
    PROVE  IndexInv'
  <1>1. r \in Reqs
    BY Dispatched
  <1>2. /\ req' \in [Reqs -> ReqRecord] /\ retry_q' \in Seq(Reqs) /\ QueueInv'
        /\ req'[r] = rec /\ \A s \in Reqs \ {r} : req'[s] = req[s]
    BY <1>1, RestIs, ProceedKeeps
  <1>3. req_q' \in Seq(Reqs)
    BY RestIs
  <1>4. TypeOK'
    <2>1. misread' \in BOOLEAN
      BY DEF IndexInv, TypeOK
    <2> QED
      BY <1>2, <1>3, <2>1 DEF TypeOK, Grows, Cached, Partitions
  <1>5. ASSUME NEW s \in Reqs PROVE RequestGood(Doubt, log', req'[s])
    <2>1. CASE s = r
      BY <1>2, <2>1
    <2>2. CASE s # r
      BY <1>2, <2>2, RequestKept DEF IndexInv, Requests
    <2> QED
      BY <2>1, <2>2
  <1>6. Doubt' = Doubt
    BY DEF Doubt
  <1> QED
    BY <1>2, <1>4, <1>5, <1>6 DEF IndexInv, Requests

-----------------------------------------------------------------------------
(* Every step keeps the invariant. *)

\* A record appended to the log; the write of a full segment is submitted.
LEMMA NextPba ==
    ASSUME IndexInv, NEW x, get_next_pba(x)
    PROVE  log' = Append(log, x) /\ flushing' \in SUBSET Nat
  <1>1. flushing \in SUBSET Nat /\ Len(log) \in Nat /\ SEGMENT_RECORDS \in Nat \ {0}
    BY BigKVAssumption DEF IndexInv, TypeOK
  <1>2. Len(log) > 0 => Segment(Len(log)) \in Nat
    BY <1>1 DEF Segment
  <1> QED
    BY <1>1, <1>2 DEF get_next_pba, aio_write

\* What the handler finds in a SET that it takes,
LEMMA SetDispatched ==
    ASSUME IndexInv, NEW r, get_next_request(r), req[r].type = "SET"
    PROVE  /\ req[r].key \in Keys /\ req[r].pba \in Nat
           /\ req[r].write_step = "WRITE_PTABLE" =>
                 req[r].st = "retried" /\ HasRead(Doubt, log, req[r])
           /\ req[r].write_step # "WRITE_PTABLE" => HasNothing(req[r])
           /\ req[r].st = "queued" => req[r].write_step = "INIT"
  <1>1. r \in Reqs /\ req[r] \in ReqRecord /\ req[r].st \in {"queued", "retried"}
    BY Dispatched
  <1>2. RequestGood(Doubt, log, req[r])
    BY <1>1 DEF IndexInv, Requests
  <1> QED
    BY <1>1, <1>2 DEF RequestGood, ReqRecord

\* and in a GET.
LEMMA GetDispatched ==
    ASSUME IndexInv, NEW r, get_next_request(r), req[r].type = "GET"
    PROVE  /\ req[r].key \in Keys /\ req[r].pba \in Nat
           /\ req[r].read_step = "UPDATE_TABLE" =>
                 req[r].st = "retried" /\ HasRead(Doubt, log, req[r])
           /\ req[r].read_step # "UPDATE_TABLE" => req[r].st = "queued" \/ Doubt = 1
  <1>1. r \in Reqs /\ req[r] \in ReqRecord /\ req[r].st \in {"queued", "retried"}
    BY Dispatched
  <1>2. RequestGood(Doubt, log, req[r])
    BY <1>1 DEF IndexInv, Requests
  <1> QED
    BY <1>1, <1>2 DEF RequestGood, ReqRecord

\* A table in the log is in order.
LEMMA BufferGood ==
    ASSUME IndexInv, NEW n, IsTable(log, n)
    PROVE  TableFit(Doubt, log, log[n].entry)
  BY DEF IndexInv, IsTable, Tables

\* So is the one a request has read.
LEMMA HeldFit ==
    ASSUME IndexInv, NEW rec, HasRead(Doubt, log, rec)
    PROVE  TableFit(Doubt, log, rec.buf)
  <1>1. CASE Doubt = 1
    BY <1>1 DEF HasRead, TableFit
  <1>2. CASE Doubt # 1
    BY <1>2, BufferGood DEF HasRead
  <1> QED
    BY <1>1, <1>2

\* The table that a write-back makes is in order, whether the partition had
\* one before or not.
LEMMA NewTableGood ==
    ASSUME IndexInv, NEW r, req[r].key \in Keys,
           HasNothing(req[r]) \/ HasRead(Doubt, log, req[r]), NewTable(r) # NoTable
    PROVE  TableFit(Doubt, log, NewTable(r))
  <1>1. PICK t : t = IF req[r].buf = NoTable THEN EmptyTable ELSE req[r].buf
    OBVIOUS
  <1>2. TableFit(Doubt, log, t)
    BY <1>1, EmptyTableFit, HeldFit DEF HasNothing
  <1>3. part_idx(req[r].key) \in Parts
    BY KeyPlace
  <1>4. NewTable(r) = update_part_table(t, bucket, part_idx(req[r].key))
    BY <1>1 DEF NewTable
  <1> QED
    BY <1>2, <1>3, <1>4, UpdatedFit DEF IndexInv

\* write_ptable appends the table and points the partition at it.
LEMMA WriteTableIs ==
    ASSUME IndexInv, NEW p \in Parts, NEW t \in [Cells -> TableEntry],
           TableFit(Doubt, log, t), NEW flying \in BOOLEAN, write_ptable(p, t, flying)
    PROVE  /\ Grows(log', log) /\ Tables(Doubt, log') /\ Partitions(part', log')
           /\ flushing' \in SUBSET Nat
           /\ log' = Append(log, TableOf(t))
           /\ IsTable(log', Len(log) + 1) /\ log'[Len(log) + 1].entry = t
           /\ Len(log) + 1 \in Nat /\ Len(log) + 1 # PBA_INVALID
           /\ part'[p].flying = flying /\ part'[p].pba = Len(log) + 1
           /\ \A q \in Parts \ {p} : part'[q] = part[q]
  <1>0. log \in Seq(Records) /\ part \in [Parts -> [flying: BOOLEAN, pba: Nat]]
    BY DEF IndexInv, TypeOK
  <1>1. /\ TableOf(t) \in Records /\ TableOf(t).kind = "table" /\ TableOf(t).entry = t
    BY RecordKinds
  <1>2. log' = Append(log, TableOf(t)) /\ flushing' \in SUBSET Nat
    BY NextPba DEF write_ptable
  <1>3. /\ Grows(log', log) /\ log'[Len(log) + 1] = TableOf(t)
        /\ Len(log) + 1 \in 1..Len(log') /\ Len(log) + 1 # PBA_INVALID
        /\ Len(log) + 1 \in Nat
    BY <1>0, <1>1, <1>2, AppendGrows
  <1>4. Tables(Doubt, log')
    BY <1>0, <1>1, <1>2, TablesKept DEF IndexInv
  <1>5. IsTable(log', Len(log) + 1) /\ log'[Len(log) + 1].entry = t
    BY <1>1, <1>3 DEF IsTable
  <1>6. PICK n \in Nat : n = Len(log) + 1
    BY <1>3
  <1>7. part' = [part EXCEPT ![p] = [flying |-> flying, pba |-> n]]
    BY <1>6 DEF write_ptable
  <1>8. /\ part' \in [Parts -> [flying: BOOLEAN, pba: Nat]]
        /\ part'[p] = [flying |-> flying, pba |-> n]
        /\ \A q \in Parts \ {p} : part'[q] = part[q]
    BY <1>0, <1>7
  <1>9. part'[p].flying = flying /\ part'[p].pba = n
    BY <1>8
  <1>10. Partitions(part, log')
    BY <1>3, PartitionsKept DEF IndexInv
  <1>11. Partitions(part', log')
    BY <1>5, <1>6, <1>8, <1>9, <1>10 DEF Partitions
  <1> QED
    BY <1>2, <1>3, <1>4, <1>5, <1>6, <1>8, <1>9, <1>11

\* The records of the other requests stay.
Others(r) == r \in Reqs /\ \A s \in Reqs \ {r} : req'[s] = req[s]

\* The handler changes the request it has taken and no other.
LEMMA OthersStay ==
    ASSUME IndexInv, NEW r \in Reqs, NEW rec, NEW q, Proceed(r, rec, q)
    PROVE  Others(r) /\ req'[r] = rec
  BY DEF IndexInv, TypeOK, Proceed, Others

\* A SET of a marked partition goes back to the retry queue.
LEMMA WaitStep ==
    ASSUME IndexInv, NEW r, SetWait(r)
    PROVE  /\ IndexInv' /\ Others(r)
           /\ req'[r].type = "SET" /\ req'[r].key = req[r].key
           /\ req'[r].st = "retried" /\ req'[r].write_step = "INIT"
  <1>1. /\ get_next_request(r) /\ req[r].type = "SET" /\ req[r].write_step = "INIT"
        /\ Proceed(r, [req[r] EXCEPT !.st = "retried"], RetryRest)
        /\ UNCHANGED <<bucket, part, log, flushing, aborted, misread>>
    BY DEF SetWait
  <1>2. r \in Reqs /\ req[r] \in ReqRecord
    BY <1>1, Dispatched
  <1>3. req[r].pba = PBA_INVALID /\ req[r].buf = NoTable /\ req[r].key \in Keys
    BY <1>1, SetDispatched DEF HasNothing
  <1>4. PICK rec : rec = [req[r] EXCEPT !.st = "retried"]
    OBVIOUS
  <1>5. /\ rec \in ReqRecord /\ rec.st = "retried" /\ rec.type = "SET"
        /\ rec.write_step = "INIT" /\ rec.pba = PBA_INVALID /\ rec.key = req[r].key
        /\ rec.buf = NoTable
    BY <1>1, <1>2, <1>3, <1>4 DEF ReqRecord, States
  <1>6. RequestGood(Doubt, log, rec)
    BY <1>5 DEF RequestGood, HasNothing
  <1>7. Grows(log, log)
    BY SameGrows DEF IndexInv, TypeOK
  <1>8. /\ aborted' \in BOOLEAN /\ flushing' \in SUBSET Nat /\ misread' = misread
        /\ Grows(log', log) /\ Tables(Doubt, log')
        /\ Cached(Doubt, bucket', log') /\ Partitions(part', log') /\ RequestGood(Doubt, log', rec)
    BY <1>1, <1>6, <1>7 DEF IndexInv, TypeOK
  <1>9. IndexInv'
    BY <1>1, <1>4, <1>5, <1>8, CallKeeps
  <1> QED
    BY <1>1, <1>2, <1>4, <1>5, <1>9, OthersStay

\* The entry to fill is one of the bucket, if there is one.
LEMMA TargetType ==
    ASSUME IndexInv, NEW r, req[r].key \in Keys
    PROVE  /\ BucketGood(bucket[bucket_idx(req[r].key)])
           /\ Target(r) # 0 => Target(r) \in Ways
  <1>1. BucketGood(bucket[bucket_idx(req[r].key)])
    BY KeyPlace DEF IndexInv, Cached
  <1> QED
    BY <1>1, KeyPlace, TargetEntry DEF Target

\* A SET that has an entry appends its pair and fills the entry, dirty.
LEMMA FillStep ==
    ASSUME IndexInv, NEW r, SetFill(r)
    PROVE  /\ IndexInv' /\ Others(r)
           /\ req'[r].type = "SET" /\ req'[r].st = "idle"
           /\ log' = Append(log, Pair(req[r].key)) /\ Len(log) + 1 \in Nat
           /\ part' = part
           /\ bucket' = [bucket EXCEPT ![bucket_idx(req[r].key)] =
                            fill(@, Target(r), hash_low[req[r].key], TRUE, Len(log) + 1)]
           /\ Filled(bucket'[bucket_idx(req[r].key)], bucket[bucket_idx(req[r].key)],
                     Target(r), hash_low[req[r].key], TRUE, Len(log) + 1)
  <1>0. PICK k, b, i, n : /\ k = req[r].key /\ b = bucket_idx(k) /\ i = Target(r)
                          /\ n = Len(log) + 1
    OBVIOUS
  <1>1. /\ get_next_request(r) /\ req[r].type = "SET" /\ i # 0
        /\ log' = Append(log, Pair(k)) /\ flushing' \in SUBSET Nat
        /\ bucket' = [bucket EXCEPT ![b] = fill(@, i, hash_low[k], TRUE, n)]
        /\ Proceed(r, net_end_req(req[r], n), RetryRest)
        /\ UNCHANGED <<part, aborted, misread>>
    BY <1>0, NextPba DEF SetFill, SetLooksUp
  <1>2. r \in Reqs /\ req[r] \in ReqRecord
    BY <1>1, Dispatched
  <1>3. k \in Keys
    BY <1>0, <1>1, SetDispatched
  <1>4. Pair(k) \in Records /\ Pair(k).kind = "pair"
    BY <1>3, RecordKinds
  <1>5. log \in Seq(Records)
    BY DEF IndexInv, TypeOK
  <1>6. /\ Grows(log', log) /\ log'[n] = Pair(k) /\ n \in 1..Len(log')
        /\ n # PBA_INVALID /\ n \in Nat
    BY <1>0, <1>1, <1>4, <1>5, AppendGrows
  <1>7. PICK rec : rec = net_end_req(req[r], n)
    OBVIOUS
  <1>8. rec \in ReqRecord /\ rec.st = "idle" /\ rec.type = "SET"
    BY <1>1, <1>2, <1>6, <1>7, EndReqIs
  <1>9. RequestGood(Doubt, log', rec)
    BY <1>8 DEF RequestGood
  <1>10. Tables(Doubt, log')
    BY <1>1, <1>4, <1>5, TablesKept DEF IndexInv
  <1>11. Cached(Doubt, bucket, log')
    BY <1>6, CachedKept DEF IndexInv
  <1>12. Leads(Doubt, log', n, k)
    BY <1>6 DEF IsPair, Leads
  <1>13. i = get_target_entry(bucket[bucket_idx(k)], hash_low[k])
    BY <1>0 DEF Target
  <1>14. /\ Cached(Doubt, [bucket EXCEPT ![bucket_idx(k)] = fill(@, i, hash_low[k], TRUE, n)], log')
         /\ Filled(fill(bucket[bucket_idx(k)], i, hash_low[k], TRUE, n),
                   bucket[bucket_idx(k)], i, hash_low[k], TRUE, n)
    BY <1>1, <1>3, <1>6, <1>11, <1>12, <1>13, CachedFill
  <1>15. Cached(Doubt, bucket', log')
    BY <1>0, <1>1, <1>14
  <1>16. bucket'[b] = fill(bucket[b], i, hash_low[k], TRUE, n)
    <2>1. b \in Buckets /\ DOMAIN bucket = Buckets
      BY <1>0, <1>3, KeyPlace DEF IndexInv, TypeOK
    <2> QED
      BY <1>1, <2>1
  <1>17. Partitions(part', log') /\ aborted' \in BOOLEAN
    BY <1>1, <1>6, PartitionsKept DEF IndexInv, TypeOK
  <1>18. IndexInv'
    BY <1>1, <1>6, <1>7, <1>8, <1>9, <1>10, <1>15, <1>17, CallKeeps
  <1>19. Others(r) /\ req'[r] = rec
    BY <1>1, <1>2, <1>7, OthersStay
  <1> QED
    BY <1>0, <1>1, <1>6, <1>8, <1>14, <1>16, <1>18, <1>19

\* A SET without one marks the partition and reads its table.
LEMMA ReadTableStep ==
    ASSUME IndexInv, NEW r, SetReadTable(r)
    PROVE  /\ IndexInv' /\ Others(r)
           /\ part[part_idx(req[r].key)].pba # PBA_INVALID
           /\ TableRead(log, req'[r], req[r], part[part_idx(req[r].key)].pba)
           /\ bucket' = bucket /\ log' = log
           /\ \A q \in Parts : part'[q].pba = part[q].pba
           /\ part'[part_idx(req[r].key)].flying
           /\ \A q \in Parts \ {part_idx(req[r].key)} : part'[q] = part[q]
  <1>0. PICK p : p = part_idx(req[r].key)
    OBVIOUS
  <1>1. /\ get_next_request(r) /\ req[r].type = "SET" /\ part[p].pba # PBA_INVALID
        /\ part' = [part EXCEPT ![p].flying = TRUE]
        /\ \E rec \in ReadTable(req[r], part[p].pba) : Proceed(r, rec, RetryRest)
        /\ UNCHANGED <<bucket, log, flushing, aborted, misread>>
    BY <1>0 DEF SetReadTable, SetLooksUp
  <1>2. r \in Reqs /\ req[r] \in ReqRecord
    BY <1>1, Dispatched
  <1>3. p \in Parts
    BY <1>0, <1>1, SetDispatched, KeyPlace
  <1>4. part \in [Parts -> [flying: BOOLEAN, pba: Nat]] /\ Partitions(part, log)
    BY DEF IndexInv, TypeOK
  <1>5. /\ part' \in [Parts -> [flying: BOOLEAN, pba: Nat]]
        /\ part'[p].flying /\ \A q \in Parts \ {p} : part'[q] = part[q]
        /\ \A q \in Parts : part'[q].pba = part[q].pba
    BY <1>1, <1>3, <1>4
  <1>6. PICK a \in Nat : a = part[p].pba
    BY <1>3, <1>4
  <1>7. PICK rec \in ReadTable(req[r], a) : Proceed(r, rec, RetryRest)
    BY <1>1, <1>6
  <1>9. IsTable(log, a) /\ log \in Seq(Records)
    BY <1>1, <1>3, <1>4, <1>6 DEF Partitions, IndexInv, TypeOK
  <1>8. TableRead(log, rec, req[r], a)
    BY <1>2, <1>7, <1>9, ReadTableIs
  <1>10. RequestGood(Doubt, log, rec) /\ rec \in ReqRecord /\ rec.st # "queued"
    BY <1>8, <1>9, TableReadGood
  <1>11. Grows(log, log)
    BY SameGrows DEF IndexInv, TypeOK
  <1>12. /\ aborted' \in BOOLEAN /\ flushing' \in SUBSET Nat /\ misread' = misread
        /\ Grows(log', log) /\ Tables(Doubt, log')
         /\ Cached(Doubt, bucket', log') /\ RequestGood(Doubt, log', rec)
    BY <1>1, <1>10, <1>11 DEF IndexInv, TypeOK
  <1>13. Partitions(part', log')
    BY <1>1, <1>4, <1>5 DEF Partitions
  <1>14. IndexInv'
    BY <1>1, <1>6, <1>7, <1>10, <1>12, <1>13, CallKeeps
  <1>15. Others(r) /\ req'[r] = rec
    BY <1>1, <1>2, <1>6, <1>7, OthersStay
  <1> QED
    BY <1>0, <1>1, <1>5, <1>6, <1>8, <1>14, <1>15

\* The SET that has its table writes it with the dirty entries and unmarks
\* the partition.
LEMMA WriteTableStep ==
    ASSUME IndexInv, NEW r, SetWriteTable(r)
    PROVE  /\ IndexInv' /\ Others(r) /\ req[r].key \in Keys
           /\ req'[r].type = "SET" /\ req'[r].key = req[r].key
           /\ req'[r].st = "retried" /\ req'[r].write_step = "WRITE_KV"
           /\ TableFit(Doubt, log, NewTable(r)) /\ NewTable(r) # NoTable
           /\ log' = Append(log, TableOf(NewTable(r)))
           /\ IsTable(log', Len(log) + 1) /\ log'[Len(log) + 1].entry = NewTable(r)
           /\ Grows(log', log)
           /\ ~part'[part_idx(req[r].key)].flying
           /\ part'[part_idx(req[r].key)].pba = Len(log) + 1
           /\ Len(log) + 1 # PBA_INVALID
           /\ \A q \in Parts \ {part_idx(req[r].key)} : part'[q] = part[q]
           /\ bucket' = Cleaned(bucket, part_idx(req[r].key))
  <1>0. PICK p : p = part_idx(req[r].key)
    OBVIOUS
  <1>1. /\ get_next_request(r) /\ req[r].type = "SET" /\ NewTable(r) # NoTable
        /\ write_ptable(p, NewTable(r), FALSE) /\ bucket' = Cleaned(bucket, p)
        /\ Proceed(r, [req[r] EXCEPT !.st = "retried", !.write_step = "WRITE_KV",
                                     !.pba = 0, !.buf = NoTable], RetryRest)
        /\ UNCHANGED <<aborted, misread>>
    BY <1>0 DEF SetWriteTable, SetHasTable, SetLooksUp
  <1>2. r \in Reqs /\ req[r] \in ReqRecord
    BY <1>1, Dispatched
  <1>3. /\ req[r].key \in Keys
        /\ HasNothing(req[r]) \/ HasRead(Doubt, log, req[r])
    BY <1>1, SetDispatched
  <1>4. p \in Parts
    BY <1>0, <1>3, KeyPlace
  <1>5. PICK t : t = NewTable(r)
    OBVIOUS
  <1>6. TableFit(Doubt, log, t) /\ t \in [Cells -> TableEntry]
    BY <1>1, <1>3, <1>5, NewTableGood DEF TableFit
  <1>7. /\ Grows(log', log) /\ Tables(Doubt, log') /\ Partitions(part', log')
        /\ flushing' \in SUBSET Nat
        /\ log' = Append(log, TableOf(t))
        /\ IsTable(log', Len(log) + 1) /\ log'[Len(log) + 1].entry = t
        /\ Len(log) + 1 \in Nat /\ Len(log) + 1 # PBA_INVALID
        /\ ~part'[p].flying /\ part'[p].pba = Len(log) + 1
        /\ \A q \in Parts \ {p} : part'[q] = part[q]
    <2>1. write_ptable(p, t, FALSE)
      BY <1>1, <1>5
    <2> QED
      BY <1>4, <1>6, <2>1, WriteTableIs
  <1>8. PICK rec : rec = [req[r] EXCEPT !.st = "retried", !.write_step = "WRITE_KV",
                                        !.pba = 0, !.buf = NoTable]
    OBVIOUS
  <1>9. /\ rec \in ReqRecord /\ rec.st = "retried" /\ rec.write_step = "WRITE_KV"
        /\ rec.pba = PBA_INVALID /\ rec.type = "SET" /\ rec.key = req[r].key
        /\ rec.buf = NoTable
    BY <1>1, <1>2, <1>8 DEF ReqRecord, States, WriteSteps, PBA_INVALID
  <1>10. RequestGood(Doubt, log', rec)
    BY <1>9 DEF RequestGood, HasNothing
  <1>11. Cached(Doubt, bucket', log') /\ aborted' \in BOOLEAN
    BY <1>1, <1>7, CachedCleaned, CachedKept DEF IndexInv, TypeOK
  <1>12. IndexInv'
    BY <1>1, <1>7, <1>8, <1>9, <1>10, <1>11, CallKeeps
  <1>13. Others(r) /\ req'[r] = rec
    BY <1>1, <1>2, <1>8, OthersStay
  <1> QED
    BY <1>0, <1>1, <1>3, <1>5, <1>6, <1>7, <1>9, <1>12, <1>13

\* The state of a GET after the read of a pair.
PairSt(m, st) == st \in {"idle", "reading pair", "lost"} \/ (m = 1 /\ st = "retried")

\* A GET that hits touches the entry and reads the pair.
LEMMA CachedStep ==
    ASSUME IndexInv, NEW r, GetCached(r)
    PROVE  /\ IndexInv' /\ Others(r) /\ req[r].key \in Keys
           /\ req[r].type = "GET" /\ req'[r].type = "GET"
           /\ PairSt(Doubt, req'[r].st)
           /\ part' = part /\ log' = log
           /\ Match(r) \in Occupied(bucket[bucket_idx(req[r].key)])
           /\ bucket' = [bucket EXCEPT ![bucket_idx(req[r].key)] = touch(@, Match(r))]
  <1>0. PICK k, b, i : k = req[r].key /\ b = bucket_idx(k) /\ i = Match(r)
    OBVIOUS
  <1>1. /\ get_next_request(r) /\ req[r].type = "GET" /\ i # 0
        /\ bucket' = [bucket EXCEPT ![b] = touch(@, i)]
        /\ \E rec \in ReadPair(req[r], bucket[b][i].pba) : Proceed(r, rec, RetryRest)
        /\ UNCHANGED <<part, log, flushing, aborted, misread>>
    BY <1>0 DEF GetCached
  <1>2. r \in Reqs /\ req[r] \in ReqRecord
    BY <1>1, Dispatched
  <1>3. k \in Keys
    BY <1>0, <1>1, GetDispatched
  <1>4. b \in Buckets
    BY <1>0, <1>3, KeyPlace
  <1>5. i \in Occupied(bucket[b]) /\ bucket[b][i].fingerprint = hash_low[k]
    <2>1. i = get_match_entry(bucket[b], hash_low[k])
      BY <1>0 DEF Match
    <2> QED
      BY <1>1, <2>1, MatchEntry
  <1>6. PICK a : a = bucket[b][i].pba
    OBVIOUS
  <1>7. Leads(Doubt, log, a, k)
    <2>1. Cached(Doubt, bucket, log)
      BY DEF IndexInv
    <2>2. PICK l \in Keys : Leads(Doubt, log, a, l) /\ hash_low[l] = hash_low[k]
      BY <1>4, <1>5, <1>6, <2>1 DEF Cached
    <2> QED
      BY <1>3, <2>2, SameKey
  <1>8. a \in Nat
    BY <1>7 DEF Leads
  <1>9. PICK rec \in ReadPair(req[r], a) : Proceed(r, rec, RetryRest)
    BY <1>1, <1>6
  <1>10. PairRead(Doubt, log, rec, req[r])
    BY <1>0, <1>2, <1>7, <1>8, <1>9, ReadPairIs
  <1>12. Grows(log, log)
    BY SameGrows DEF IndexInv, TypeOK
  <1>11. RequestGood(Doubt, log, rec) /\ rec \in ReqRecord /\ rec.st # "queued"
    BY <1>1, <1>10, <1>12, PairReadGood
  <1>13. /\ aborted' \in BOOLEAN /\ flushing' \in SUBSET Nat /\ misread' = misread
        /\ Grows(log', log) /\ Tables(Doubt, log')
         /\ Partitions(part', log') /\ RequestGood(Doubt, log', rec)
    BY <1>1, <1>11, <1>12 DEF IndexInv, TypeOK
  <1>14. Cached(Doubt, bucket', log')
    BY <1>1, <1>4, <1>5, CachedTouch DEF IndexInv
  <1>15. IndexInv'
    BY <1>1, <1>9, <1>11, <1>13, <1>14, CallKeeps
  <1>16. Others(r) /\ req'[r] = rec
    BY <1>2, <1>9, OthersStay
  <1>17. PairSt(Doubt, rec.st) /\ rec.type = "GET"
    BY <1>1, <1>10 DEF PairRead, PairSt
  <1> QED
    BY <1>0, <1>1, <1>3, <1>5, <1>15, <1>16, <1>17

\* A GET that misses reads the partition's table.
LEMMA GetReadStep ==
    ASSUME IndexInv, NEW r, GetReadTable(r)
    PROVE  /\ IndexInv' /\ Others(r) /\ req[r].key \in Keys
           /\ req[r].type = "GET"
           /\ TableRead(log, req'[r], req[r], part[part_idx(req[r].key)].pba)
           /\ UNCHANGED <<bucket, part, log>>
           /\ Match(r) = 0
  <1>0. PICK p : p = part_idx(req[r].key)
    OBVIOUS
  <1>1. /\ get_next_request(r) /\ req[r].type = "GET" /\ Match(r) = 0
        /\ \E rec \in ReadTable(req[r], part[p].pba) : Proceed(r, rec, RetryRest)
        /\ UNCHANGED <<bucket, part, log, flushing, aborted, misread>>
    BY <1>0 DEF GetReadTable
  <1>2. r \in Reqs /\ req[r] \in ReqRecord
    BY <1>1, Dispatched
  <1>3. req[r].key \in Keys /\ p \in Parts
    BY <1>0, <1>1, GetDispatched, KeyPlace
  <1>4. part \in [Parts -> [flying: BOOLEAN, pba: Nat]] /\ Partitions(part, log)
    BY DEF IndexInv, TypeOK
  <1>5. PICK a \in Nat : a = part[p].pba
    BY <1>3, <1>4
  <1>6. PICK rec \in ReadTable(req[r], a) : Proceed(r, rec, RetryRest)
    BY <1>1, <1>5
  <1>8. (a # PBA_INVALID => IsTable(log, a)) /\ log \in Seq(Records)
    BY <1>3, <1>4, <1>5 DEF Partitions, IndexInv, TypeOK
  <1>7. TableRead(log, rec, req[r], a)
    BY <1>2, <1>6, <1>8, ReadTableIs
  <1>9. RequestGood(Doubt, log, rec) /\ rec \in ReqRecord /\ rec.st # "queued"
    BY <1>1, <1>7, <1>8, TableReadGood
  <1>10. Grows(log, log)
    BY SameGrows DEF IndexInv, TypeOK
  <1>11. /\ aborted' \in BOOLEAN /\ flushing' \in SUBSET Nat /\ misread' = misread
        /\ Grows(log', log) /\ Tables(Doubt, log')
         /\ Cached(Doubt, bucket', log') /\ RequestGood(Doubt, log', rec) /\ Partitions(part', log')
    BY <1>1, <1>9, <1>10 DEF IndexInv, TypeOK
  <1>12. IndexInv'
    BY <1>1, <1>5, <1>6, <1>9, <1>11, CallKeeps
  <1>13. Others(r) /\ req'[r] = rec
    BY <1>1, <1>2, <1>5, <1>6, OthersStay
  <1> QED
    BY <1>0, <1>1, <1>3, <1>5, <1>7, <1>12, <1>13

\* A GET whose key is not in the table it read ends.
LEMMA MissStep ==
    ASSUME IndexInv, NEW r, GetMiss(r)
    PROVE  /\ IndexInv' /\ Others(r)
           /\ req[r].type = "GET" /\ req'[r].type = "GET" /\ req'[r].st = "idle"
           /\ UNCHANGED <<bucket, part, log>>
  <1>1. /\ get_next_request(r) /\ req[r].type = "GET"
        /\ Proceed(r, net_end_req(req[r], 0), RetryRest)
        /\ UNCHANGED <<bucket, part, log, flushing, aborted, misread>>
    BY DEF GetMiss
  <1>2. r \in Reqs /\ req[r] \in ReqRecord
    BY <1>1, Dispatched
  <1>3. PICK rec : rec = net_end_req(req[r], 0)
    OBVIOUS
  <1>4. rec \in ReqRecord /\ rec.st = "idle" /\ rec.type = "GET"
    BY <1>1, <1>2, <1>3, EndReqIs
  <1>5. RequestGood(Doubt, log, rec)
    BY <1>4 DEF RequestGood
  <1>6. Grows(log, log)
    BY SameGrows DEF IndexInv, TypeOK
  <1>7. /\ aborted' \in BOOLEAN /\ flushing' \in SUBSET Nat /\ misread' = misread
        /\ Grows(log', log) /\ Tables(Doubt, log')
        /\ Cached(Doubt, bucket', log') /\ RequestGood(Doubt, log', rec) /\ Partitions(part', log')
    BY <1>1, <1>5, <1>6 DEF IndexInv, TypeOK
  <1>8. IndexInv'
    BY <1>1, <1>3, <1>4, <1>7, CallKeeps
  <1> QED
    BY <1>1, <1>2, <1>3, <1>4, <1>8, OthersStay

\* What a GET finds in the table it has read.
LEMMA FoundIs ==
    ASSUME IndexInv, NEW r, get_next_request(r), req[r].type = "GET",
           req[r].read_step = "UPDATE_TABLE", Found(r) # PBA_INVALID
    PROVE  /\ r \in Reqs /\ req[r] \in ReqRecord /\ req[r].key \in Keys
           /\ req[r].st = "retried" /\ HasRead(Doubt, log, req[r])
           /\ Leads(Doubt, log, Found(r), req[r].key) /\ Found(r) \in Nat
  <1>1. r \in Reqs /\ req[r] \in ReqRecord
    BY Dispatched
  <1>2. req[r].key \in Keys /\ req[r].st = "retried" /\ HasRead(Doubt, log, req[r])
    BY GetDispatched
  <1>3. TableFit(Doubt, log, req[r].buf)
    BY <1>2, HeldFit
  <1>4. Found(r) = get_match_entry_f(req[r].buf, hash_low[req[r].key])
    BY DEF Found
  <1>5. Leads(Doubt, log, Found(r), req[r].key)
    BY <1>2, <1>3, <1>4, AnswerLeads
  <1> QED
    BY <1>1, <1>2, <1>5 DEF Leads

\* A GET that found its key in the table fills a clean entry.
LEMMA LoadStep ==
    ASSUME IndexInv, NEW r, GetLoad(r)
    PROVE  /\ IndexInv' /\ Others(r) /\ req[r].key \in Keys
           /\ req[r].type = "GET" /\ req[r].st = "retried"
           /\ req[r].read_step = "UPDATE_TABLE"
           /\ req'[r].type = "GET" /\ PairSt(Doubt, req'[r].st)
           /\ part' = part /\ log' = log
           /\ HasRead(Doubt, log, req[r])
           /\ Found(r) # PBA_INVALID /\ Leads(Doubt, log, Found(r), req[r].key)
           /\ Target(r) # 0
           /\ bucket' = [bucket EXCEPT ![bucket_idx(req[r].key)] =
                            fill(@, Target(r), hash_low[req[r].key], FALSE, Found(r))]
  <1>0. PICK k, b, i, a : /\ k = req[r].key /\ b = bucket_idx(k) /\ i = Target(r)
                          /\ a = Found(r)
    OBVIOUS
  <1>1. /\ get_next_request(r) /\ req[r].type = "GET" /\ i # 0 /\ a # PBA_INVALID
        /\ req[r].read_step = "UPDATE_TABLE"
        /\ bucket' = [bucket EXCEPT ![b] = fill(@, i, hash_low[k], FALSE, a)]
        /\ \E rec \in ReadPair(req[r], a) : Proceed(r, rec, RetryRest)
        /\ UNCHANGED <<part, log, flushing, aborted, misread>>
    BY <1>0 DEF GetLoad
  <1>2. /\ r \in Reqs /\ req[r] \in ReqRecord /\ k \in Keys /\ req[r].st = "retried"
        /\ Leads(Doubt, log, a, k) /\ a \in Nat /\ HasRead(Doubt, log, req[r])
    BY <1>0, <1>1, FoundIs
  <1>3. i = get_target_entry(bucket[b], hash_low[k])
    BY <1>0 DEF Target
  <1>4. Cached(Doubt, bucket, log)
    BY DEF IndexInv
  <1>5. Cached(Doubt, bucket', log)
    BY <1>0, <1>1, <1>2, <1>3, <1>4, CachedFill
  <1>6. PICK rec \in ReadPair(req[r], a) : Proceed(r, rec, RetryRest)
    BY <1>1
  <1>7. PairRead(Doubt, log, rec, req[r])
    BY <1>0, <1>2, <1>6, ReadPairIs
  <1>9. Grows(log, log)
    BY SameGrows DEF IndexInv, TypeOK
  <1>8. RequestGood(Doubt, log, rec) /\ rec \in ReqRecord /\ rec.st # "queued"
    BY <1>1, <1>7, <1>9, PairReadGood
  <1>10. /\ aborted' \in BOOLEAN /\ flushing' \in SUBSET Nat /\ misread' = misread
        /\ Grows(log', log) /\ Tables(Doubt, log')
         /\ Partitions(part', log') /\ RequestGood(Doubt, log', rec) /\ Cached(Doubt, bucket', log')
    BY <1>1, <1>5, <1>8, <1>9 DEF IndexInv, TypeOK
  <1>11. IndexInv'
    BY <1>1, <1>6, <1>8, <1>10, CallKeeps
  <1>12. Others(r) /\ req'[r] = rec
    BY <1>2, <1>6, OthersStay
  <1>13. PairSt(Doubt, rec.st) /\ rec.type = "GET"
    BY <1>1, <1>7 DEF PairRead, PairSt
  <1> QED
    BY <1>0, <1>1, <1>2, <1>11, <1>12, <1>13

\* A GET without an entry to fill writes the dirty entries back first.
LEMMA LoadWriteStep ==
    ASSUME IndexInv, NEW r, GetLoadWrite(r)
    PROVE  /\ IndexInv' /\ Others(r) /\ req[r].key \in Keys
           /\ req[r].type = "GET" /\ req[r].st = "retried"
           /\ req[r].read_step = "UPDATE_TABLE"
           /\ req'[r].type = "GET" /\ PairSt(Doubt, req'[r].st)
           /\ TableFit(Doubt, log, NewTable(r)) /\ NewTable(r) # NoTable
           /\ log' = Append(log, TableOf(NewTable(r)))
           /\ IsTable(log', Len(log) + 1) /\ log'[Len(log) + 1].entry = NewTable(r)
           /\ Grows(log', log)
           /\ part'[part_idx(req[r].key)].flying = part[part_idx(req[r].key)].flying
           /\ part'[part_idx(req[r].key)].pba = Len(log) + 1
           /\ Len(log) + 1 # PBA_INVALID
           /\ \A q \in Parts \ {part_idx(req[r].key)} : part'[q] = part[q]
           /\ Found(r) # PBA_INVALID /\ Leads(Doubt, log, Found(r), req[r].key)
           /\ Target(r) = 0 /\ HasRead(Doubt, log, req[r])
           /\ get_target_entry(Cleaned(bucket, part_idx(req[r].key))[bucket_idx(req[r].key)],
                               hash_low[req[r].key]) # 0
           /\ bucket' = [Cleaned(bucket, part_idx(req[r].key))
                            EXCEPT ![bucket_idx(req[r].key)] =
                               fill(@, get_target_entry(@, hash_low[req[r].key]),
                                    hash_low[req[r].key], FALSE, Found(r))]
  <1>0. PICK k, b, p, a : /\ k = req[r].key /\ b = bucket_idx(k) /\ p = part_idx(k)
                          /\ a = Found(r)
    OBVIOUS
  <1>00. PICK clean : clean = Cleaned(bucket, p)
    OBVIOUS
  <1>1. /\ get_next_request(r) /\ req[r].type = "GET" /\ a # PBA_INVALID
        /\ req[r].read_step = "UPDATE_TABLE" /\ Target(r) = 0
        /\ NewTable(r) # NoTable
        /\ write_ptable(p, NewTable(r), part[p].flying)
        /\ \E rec \in ReadPair(req[r], a) : Proceed(r, rec, RetryRest)
        /\ UNCHANGED <<aborted, misread>>
    BY <1>0 DEF GetLoadWrite
  <1>2. bucket' = [clean EXCEPT ![b] =
                      fill(clean[b], get_target_entry(clean[b], hash_low[k]),
                           hash_low[k], FALSE, a)]
    BY <1>0, <1>00 DEF GetLoadWrite
  <1>3. /\ r \in Reqs /\ req[r] \in ReqRecord /\ k \in Keys /\ req[r].st = "retried"
        /\ Leads(Doubt, log, a, k) /\ a \in Nat /\ HasRead(Doubt, log, req[r])
    BY <1>0, <1>1, FoundIs
  <1>4. p \in Parts /\ b \in Buckets /\ b \in PartBuckets(p) /\ hash_low[k] \in Nat
        /\ hash_low[k] # 0
    BY <1>0, <1>3, KeyPlace
  <1>5. PICK t : t = NewTable(r)
    OBVIOUS
  <1>6. TableFit(Doubt, log, t) /\ t \in [Cells -> TableEntry]
    BY <1>0, <1>1, <1>3, <1>5, NewTableGood DEF TableFit
  <1>7. part[p].flying \in BOOLEAN
    BY <1>4 DEF IndexInv, TypeOK
  <1>8. /\ Grows(log', log) /\ Tables(Doubt, log') /\ Partitions(part', log')
        /\ flushing' \in SUBSET Nat
        /\ log' = Append(log, TableOf(t))
        /\ IsTable(log', Len(log) + 1) /\ log'[Len(log) + 1].entry = t
        /\ Len(log) + 1 \in Nat /\ Len(log) + 1 # PBA_INVALID
        /\ part'[p].flying = part[p].flying /\ part'[p].pba = Len(log) + 1
        /\ \A q \in Parts \ {p} : part'[q] = part[q]
    <2>1. PICK fl \in BOOLEAN : fl = part[p].flying
      BY <1>7
    <2>2. write_ptable(p, t, fl)
      BY <1>1, <1>5, <2>1
    <2> QED
      BY <1>4, <1>6, <2>1, <2>2, WriteTableIs
  <1>9. Cached(Doubt, clean, log')
    BY <1>00, <1>8, CachedCleaned, CachedKept DEF IndexInv
  <1>10. PICK i : i = get_target_entry(clean[b], hash_low[k])
    OBVIOUS
  <1>11. i # 0
    <2>1. BucketGood(bucket[b])
      BY <1>4 DEF IndexInv, Cached
    <2>2. BucketGood(clean[b]) /\ \A j \in Ways : ~clean[b][j].dirty_bit
      BY <1>00, <1>4, <2>1, CleanedGood
    <2> QED
      BY <1>4, <1>10, <2>2, CleanHasTarget
  <1>12. Leads(Doubt, log', a, k)
    BY <1>3, <1>8, KeptByGrowth DEF Leads
  <1>13. bucket' = [clean EXCEPT ![bucket_idx(k)] = fill(@, i, hash_low[k], FALSE, a)]
    BY <1>0, <1>2, <1>10
  <1>14. Cached(Doubt, bucket', log')
    BY <1>0, <1>1, <1>3, <1>9, <1>10, <1>11, <1>12, <1>13, CachedFill
  <1>15. PICK rec \in ReadPair(req[r], a) : Proceed(r, rec, RetryRest)
    BY <1>1
  <1>16. PairRead(Doubt, log, rec, req[r])
    BY <1>0, <1>3, <1>15, ReadPairIs
  <1>17. RequestGood(Doubt, log', rec) /\ rec \in ReqRecord /\ rec.st # "queued"
    BY <1>1, <1>8, <1>16, PairReadGood
  <1>18. aborted' \in BOOLEAN
    BY <1>1 DEF IndexInv, TypeOK
  <1>19. IndexInv'
    BY <1>1, <1>8, <1>14, <1>15, <1>16, <1>17, <1>18, CallKeeps
  <1>20. Others(r) /\ req'[r] = rec
    BY <1>3, <1>15, OthersStay
  <1>21. bucket' = [clean EXCEPT ![b] = fill(@, get_target_entry(@, hash_low[k]),
                                             hash_low[k], FALSE, a)]
    BY <1>2
  <1>22. /\ get_target_entry(clean[b], hash_low[k]) # 0
    BY <1>10, <1>11
  <1>23. req'[r].type = "GET" /\ PairSt(Doubt, req'[r].st)
    BY <1>1, <1>16, <1>20 DEF PairRead, PairSt
  <1> QED
    BY <1>0, <1>00, <1>1, <1>3, <1>5, <1>6, <1>8, <1>19, <1>20, <1>21, <1>22, <1>23

\* A new request.
LEMMA SubmitStep ==
    ASSUME IndexInv, NEW r \in Reqs, NEW type \in {"GET", "SET"}, NEW k \in Keys,
           Submit(r, type, k)
    PROVE  /\ IndexInv' /\ Others(r)
           /\ req'[r].type = type /\ req'[r].st = "queued"
           /\ req[r].st = "idle"
           /\ UNCHANGED <<bucket, part, log>>
  <1>0. /\ req \in [Reqs -> ReqRecord] /\ log \in Seq(Records) /\ req_q \in Seq(Reqs)
        /\ QueueInv
    BY DEF IndexInv, TypeOK
  <1>1. PICK n : n = Len(PairsIn(log))
    OBVIOUS
  <1>2. n \in Nat
    BY <1>0, <1>1 DEF PairsIn
  <1>3. PICK rec : rec = [type |-> type, key |-> k, st |-> "queued", read_step |-> "INIT",
                          write_step |-> "INIT", pba |-> 0, racy |-> FALSE,
                          buf |-> NoTable, floor |-> n, val |-> 0]
    OBVIOUS
  <1>4. /\ rec \in ReqRecord /\ rec.st = "queued" /\ rec.read_step = "INIT"
        /\ rec.write_step = "INIT" /\ HasNothing(rec) /\ rec.type = type
    BY <1>2, <1>3 DEF ReqRecord, States, ReadSteps, WriteSteps, PBA_INVALID, HasNothing
  <1>5. /\ req' = [req EXCEPT ![r] = rec] /\ req_q' = Append(req_q, r)
        /\ UNCHANGED <<bucket, part, log, flushing, retry_q, aborted, misread>>
        /\ req[r].st = "idle"
    BY <1>1, <1>3 DEF Submit
  <1>6. /\ req' \in [Reqs -> ReqRecord] /\ req'[r] = rec
        /\ \A s \in Reqs \ {r} : req'[s] = req[s]
    BY <1>0, <1>4, <1>5
  <1>7. RequestGood(Doubt, log, rec)
    BY <1>4 DEF RequestGood
  <1>8. Requests(Doubt, req', log)
    BY <1>6, <1>7 DEF IndexInv, Requests
  <1>9. PICK q2 : q2 = Append(req_q, r)
    OBVIOUS
  <1>10. /\ q2 \in Seq(Reqs) /\ Len(q2) = Len(req_q) + 1 /\ Len(req_q) \in Nat
         /\ \A i \in 1..Len(req_q) : q2[i] = req_q[i] /\ i \in 1..Len(q2)
         /\ q2[Len(req_q) + 1] = r
         /\ \A i \in 1..Len(q2) : i \in 1..Len(req_q) \/ i = Len(req_q) + 1
    BY <1>0, <1>9, AppendIs
  <1>11. ASSUME NEW i \in 1..Len(req_q)
         PROVE  req_q[i] \in Reqs /\ req_q[i] # r /\ req'[req_q[i]].st = "queued"
    <2>1. req_q[i] \in Reqs
      BY <1>0
    <2>2. req[req_q[i]].st = "queued"
      BY <1>0 DEF QueueInv
    <2> QED
      BY <1>5, <1>6, <2>1, <2>2
  <1>12. \A i \in 1..Len(q2) : req'[q2[i]].st = "queued"
    BY <1>4, <1>6, <1>10, <1>11
  <1>13. ASSUME NEW i \in 1..Len(q2), NEW j \in 1..Len(q2), q2[i] = q2[j] PROVE i = j
    <2>1. CASE i \in 1..Len(req_q) /\ j \in 1..Len(req_q)
      BY <1>0, <1>10, <1>13, <2>1 DEF QueueInv
    <2>2. CASE i = Len(req_q) + 1 /\ j \in 1..Len(req_q)
      BY <1>10, <1>11, <1>13, <2>2
    <2>3. CASE j = Len(req_q) + 1 /\ i \in 1..Len(req_q)
      BY <1>10, <1>11, <1>13, <2>3
    <2>4. CASE i = Len(req_q) + 1 /\ j = Len(req_q) + 1
      BY <2>4
    <2> QED
      BY <1>10, <2>1, <2>2, <2>3, <2>4
  <1>14. ASSUME NEW i \in 1..Len(retry_q) PROVE req'[retry_q[i]].st = "retried"
    <2>1. retry_q[i] \in Reqs
      BY DEF IndexInv, TypeOK
    <2>2. req[retry_q[i]].st = "retried"
      BY <1>0 DEF QueueInv
    <2> QED
      BY <1>5, <1>6, <2>1, <2>2
  <1>15. ASSUME NEW s \in Reqs, req'[s].st = "retried"
         PROVE  \E i \in 1..Len(retry_q) : retry_q[i] = s
    BY <1>0, <1>4, <1>6, <1>15 DEF QueueInv
  <1>16. QueueInv'
    <2>1. req_q' = q2 /\ retry_q' = retry_q
      BY <1>5, <1>9
    <2> QED
      BY <1>0, <1>12, <1>13, <1>14, <1>15, <2>1 DEF QueueInv
  <1>17. TypeOK'
    BY <1>5, <1>6, <1>9, <1>10 DEF IndexInv, TypeOK
  <1>18. IndexInv'
    <2>1. Doubt' = Doubt
      BY <1>5 DEF Doubt
    <2> QED
      BY <1>5, <1>8, <1>16, <1>17, <2>1 DEF IndexInv
  <1> QED
    BY <1>4, <1>5, <1>6, <1>18 DEF Others

\* The aborts.
LEMMA AbortStep ==
    ASSUME IndexInv, NEW r, InsertError(r) \/ ReadError(r)
    PROVE  IndexInv' /\ UNCHANGED <<bucket, part, log, req, retry_q>>
  <1>1. /\ UNCHANGED <<bucket, part, log, flushing, req, retry_q, misread>>
        /\ aborted' = TRUE
    BY DEF InsertError, ReadError
  <1>2. /\ req_q' \in Seq(Reqs)
        /\ \A i \in 1..Len(req_q') : req[req_q'[i]].st = "queued"
        /\ \A i, j \in 1..Len(req_q') : req_q'[i] = req_q'[j] => i = j
    <2>1. CASE ReadError(r)
      <3>1. req_q' = req_q
        BY <2>1 DEF ReadError
      <3> QED
        BY <3>1 DEF IndexInv, TypeOK, QueueInv
    <2>2. CASE InsertError(r)
      <3>1. get_next_request(r)
        BY <2>2 DEF InsertError
      <3> QED
        BY <3>1, RestIs
    <2> QED
      BY <2>1, <2>2
  <1>3. QueueInv'
    BY <1>1, <1>2 DEF IndexInv, QueueInv
  <1>4. TypeOK'
    BY <1>1, <1>2 DEF IndexInv, TypeOK
  <1>5. Doubt' = Doubt
    BY <1>1 DEF Doubt
  <1> QED
    BY <1>1, <1>3, <1>4, <1>5 DEF IndexInv

\* The write of a segment is done.
LEMMA FlushStep ==
    ASSUME IndexInv, NEW s, FlushDone(s)
    PROVE  IndexInv' /\ UNCHANGED <<bucket, part, log, req, retry_q>>
  <1>1. /\ UNCHANGED <<bucket, part, log, req, req_q, retry_q, aborted, misread>>
        /\ flushing' \in SUBSET Nat
    BY DEF FlushDone, IndexInv, TypeOK
  <1>2. QueueInv'
    BY <1>1 DEF IndexInv, QueueInv
  <1>3. TypeOK'
    BY <1>1 DEF IndexInv, TypeOK
  <1>4. Doubt' = Doubt
    BY <1>1 DEF Doubt
  <1> QED
    BY <1>1, <1>2, <1>3, <1>4 DEF IndexInv

\* What a racy read finds of a table is a table.
LEMMA TornIsTable ==
    ASSUME IndexInv, NEW p, IsTable(log, p), NEW t \in Torn(p)
    PROVE  t \in [Cells -> TableEntry]
  <1>1. log[p].entry \in [Cells -> TableEntry]
    BY EntryIsTable DEF IndexInv, TypeOK
  <1>2. PICK e : e = log[p].entry
    OBVIOUS
  <1>3. PICK S \in SUBSET Cells, o \in OldTables :
          t = [c \in Cells |-> IF c \in S THEN o[c] ELSE e[c]]
    BY <1>2 DEF Torn
  <1>4. o \in [Cells -> TableEntry]
    BY BigKVAssumption
  <1> QED
    BY <1>1, <1>2, <1>3, <1>4

\* How a read that is done leaves its request, when m says whether a read has
\* overtaken a write by now.
AfterRead(m, rec, old) ==
    /\ rec \in ReqRecord /\ rec.type = old.type /\ rec.key = old.key
    /\ RequestGood(m, log, rec)
    /\ \/ /\ old.st = "reading table" /\ old.pba # PBA_INVALID
          /\ rec.pba = old.pba /\ rec.st = "retried" /\ rec.write_step = "WRITE_PTABLE"
       \/ /\ old.st = "reading pair" /\ old.type = "GET"
          /\ rec.st \in {"idle", "lost"} \/ (rec.st = "retried" /\ m = 1)

\* The read of a table is done: the request has the table, or what a racy read
\* has found.
LEMMA TableDone ==
    ASSUME IndexInv, NEW r \in Reqs, req[r].st = "reading table",
           req[r].pba # PBA_INVALID, NEW t \in [Cells -> TableEntry], NEW m,
           m = 1 \/ t = log[req[r].pba].entry, NEW rec, rec = cb_part_table_read(req[r], t)
    PROVE  AfterRead(m, rec, req[r])
  <1>1. req[r] \in ReqRecord /\ RequestGood(Doubt, log, req[r])
    BY DEF IndexInv, TypeOK, Requests
  <1>2. /\ rec \in ReqRecord /\ rec.type = req[r].type /\ rec.key = req[r].key
        /\ rec.pba = req[r].pba /\ rec.buf = t /\ rec.st = "retried"
        /\ rec.write_step = "WRITE_PTABLE" /\ rec.read_step = "UPDATE_TABLE"
    BY <1>1, TableReadIs
  <1>3. IsTable(log, req[r].pba)
    BY <1>1 DEF RequestGood
  <1>4. HasRead(m, log, rec)
    BY <1>2, <1>3 DEF HasRead
  <1>5. RequestGood(m, log, rec)
    BY <1>2, <1>3, <1>4 DEF RequestGood
  <1> QED
    BY <1>2, <1>5 DEF AfterRead

\* The read of a pair is done.
LEMMA PairDone ==
    ASSUME IndexInv, NEW r \in Reqs, req[r].st = "reading pair", NEW m,
           NEW match \in BOOLEAN, match \/ m = 1, NEW rec, rec = cb_keycmp(req[r], match)
    PROVE  AfterRead(m, rec, req[r])
  <1>1. /\ req[r] \in ReqRecord /\ RequestGood(Doubt, log, req[r])
        /\ log \in Seq(Records)
    BY DEF IndexInv, TypeOK, Requests
  <1>2. req[r].type = "GET"
    BY <1>1 DEF RequestGood
  <1>3. PairRead(m, log, rec, req[r]) /\ rec.st # "reading pair"
    BY <1>1, KeyCmpIs
  <1>4. RequestGood(m, log, rec)
    BY <1>1, <1>2, <1>3, PairReadGood, SameGrows
  <1> QED
    BY <1>2, <1>3, <1>4 DEF PairRead, AfterRead

\* The cases of the poller's step.
LEMMA DoneCases ==
    ASSUME IndexInv, NEW r \in Reqs, ReadDone(r)
    PROVE  \E rec : /\ Proceed(r, rec, retry_q) /\ AfterRead(Doubt', rec, req[r])
                    /\ misread' \in BOOLEAN /\ (Doubt' = Doubt \/ Doubt' = 1)
  <1>0. misread \in BOOLEAN /\ RequestGood(Doubt, log, req[r]) /\ log \in Seq(Records)
    BY DEF IndexInv, TypeOK, Requests
  <1>1. misread' = misread => misread' \in BOOLEAN /\ Doubt' = Doubt
    BY <1>0 DEF Doubt
  <1>2. misread' = TRUE => misread' \in BOOLEAN /\ Doubt' = 1
    BY DEF Doubt
  <1>3. CASE /\ req[r].st = "reading table" /\ req[r].pba # PBA_INVALID
             /\ Proceed(r, cb_part_table_read(req[r], log[req[r].pba].entry), retry_q)
             /\ misread' = misread
    <2>1. IsTable(log, req[r].pba)
      BY <1>0, <1>3 DEF RequestGood
    <2>2. PICK t \in [Cells -> TableEntry] : t = log[req[r].pba].entry
      BY <1>0, <2>1, EntryIsTable
    <2>3. PICK rec : rec = cb_part_table_read(req[r], t)
      OBVIOUS
    <2>4. AfterRead(Doubt, rec, req[r])
      BY <1>3, <2>2, <2>3, TableDone
    <2> QED
      BY <1>1, <1>3, <2>2, <2>3, <2>4
  <1>4. ASSUME NEW t \in Torn(req[r].pba),
               req[r].st = "reading table", req[r].pba # PBA_INVALID,
               Proceed(r, cb_part_table_read(req[r], t), retry_q), misread' = TRUE
        PROVE  \E rec : /\ Proceed(r, rec, retry_q) /\ AfterRead(Doubt', rec, req[r])
                        /\ misread' \in BOOLEAN /\ (Doubt' = Doubt \/ Doubt' = 1)
    <2>1. IsTable(log, req[r].pba)
      BY <1>0, <1>4 DEF RequestGood
    <2>2. t \in [Cells -> TableEntry]
      BY <1>4, <2>1, TornIsTable
    <2>3. PICK rec : rec = cb_part_table_read(req[r], t)
      OBVIOUS
    <2>4. AfterRead(1, rec, req[r])
      BY <1>4, <2>2, <2>3, TableDone
    <2> QED
      BY <1>2, <1>4, <2>3, <2>4
  <1>5. CASE /\ req[r].st = "reading pair"
             /\ Proceed(r, cb_keycmp(req[r], IsPairOf(req[r].pba, req[r].key)), retry_q)
             /\ misread' = misread
    <2>1. Leads(Doubt, log, req[r].pba, req[r].key)
      BY <1>0, <1>5 DEF RequestGood
    <2>2. PICK match \in BOOLEAN :
            match = IsPairOf(req[r].pba, req[r].key) /\ (match \/ Doubt = 1)
      BY <2>1, LeadsIs
    <2>3. PICK rec : rec = cb_keycmp(req[r], match)
      OBVIOUS
    <2>4. AfterRead(Doubt, rec, req[r])
      BY <1>5, <2>2, <2>3, PairDone
    <2>5. Proceed(r, rec, retry_q)
      BY <1>5, <2>2, <2>3
    <2> QED
      BY <1>1, <1>5, <2>4, <2>5
  <1>6. ASSUME NEW match \in BOOLEAN, req[r].st = "reading pair",
               Proceed(r, cb_keycmp(req[r], match), retry_q), misread' = TRUE
        PROVE  \E rec : /\ Proceed(r, rec, retry_q) /\ AfterRead(Doubt', rec, req[r])
                        /\ misread' \in BOOLEAN /\ (Doubt' = Doubt \/ Doubt' = 1)
    <2>1. PICK rec : rec = cb_keycmp(req[r], match)
      OBVIOUS
    <2>2. AfterRead(1, rec, req[r])
      BY <1>6, <2>1, PairDone
    <2> QED
      BY <1>2, <1>6, <2>1, <2>2
  <1> QED
    BY <1>3, <1>4, <1>5, <1>6 DEF ReadDone

\* The poller.
LEMMA DoneStep ==
    ASSUME IndexInv, NEW r \in Reqs, ReadDone(r)
    PROVE  /\ IndexInv' /\ Others(r) /\ UNCHANGED <<bucket, part, log>>
           /\ AfterRead(Doubt', req'[r], req[r]) /\ req[r].st # "retried"
           /\ Doubt' = Doubt \/ Doubt' = 1
  <1>0. /\ req \in [Reqs -> ReqRecord] /\ req[r] \in ReqRecord /\ QueueInv
        /\ retry_q \in Seq(Reqs) /\ req_q \in Seq(Reqs)
    BY DEF IndexInv, TypeOK
  <1>1. UNCHANGED <<bucket, part, log, flushing, req_q, aborted>>
    BY DEF ReadDone
  <1>2. PICK rec : /\ Proceed(r, rec, retry_q) /\ AfterRead(Doubt', rec, req[r])
                   /\ misread' \in BOOLEAN /\ (Doubt' = Doubt \/ Doubt' = 1)
    BY DoneCases
  <1>20. /\ rec \in ReqRecord /\ rec.st # "queued" /\ RequestGood(Doubt', log, rec)
         /\ req[r].st # "retried" /\ req[r].st # "queued"
    BY <1>2 DEF AfterRead
  <1>3. \A i \in 1..Len(retry_q) : req[retry_q[i]].st = "retried" /\ retry_q[i] # r
    BY <1>0, <1>20 DEF QueueInv
  <1>4. \A i \in 1..Len(req_q') : req[req_q'[i]].st = "queued" /\ req_q'[i] # r
    BY <1>0, <1>1, <1>20 DEF QueueInv
  <1>5. /\ \A i, j \in 1..Len(retry_q) : retry_q[i] = retry_q[j] => i = j
        /\ \A s \in Reqs \ {r} : req[s].st = "retried" =>
              \E i \in 1..Len(retry_q) : retry_q[i] = s
        /\ \A i, j \in 1..Len(req_q') : req_q'[i] = req_q'[j] => i = j
        /\ req_q' \in Seq(Reqs)
    BY <1>0, <1>1 DEF QueueInv
  <1>6. /\ req' \in [Reqs -> ReqRecord] /\ retry_q' \in Seq(Reqs) /\ QueueInv'
        /\ req'[r] = rec /\ \A s \in Reqs \ {r} : req'[s] = req[s]
    BY <1>0, <1>2, <1>20, <1>3, <1>4, <1>5, ProceedKeeps
  <1>7. /\ Cached(Doubt', bucket, log) /\ Tables(Doubt', log)
        /\ \A s \in Reqs : RequestGood(Doubt', log, req[s]) 
    BY <1>2, LessKnown DEF IndexInv, Requests
  <1>8. Requests(Doubt', req', log)
    BY <1>20, <1>6, <1>7 DEF Requests
  <1>9. TypeOK'
    BY <1>1, <1>2, <1>5, <1>6 DEF IndexInv, TypeOK
  <1>10. IndexInv'
    BY <1>1, <1>6, <1>7, <1>8, <1>9 DEF IndexInv
  <1> QED
    BY <1>1, <1>2, <1>20, <1>6, <1>10 DEF Others

\* The invariant holds of the empty index.
LEMMA IndexInit == Init => IndexInv
  <1> SUFFICES ASSUME Init PROVE IndexInv
    OBVIOUS
  <1>1. /\ bucket = [b \in Buckets |-> EmptyBucket] /\ log = << >>
        /\ part = [p \in Parts |-> [flying |-> FALSE, pba |-> PBA_INVALID]]
        /\ req_q = << >> /\ retry_q = << >> /\ aborted = FALSE
    BY DEF Init
  <1>2. EmptyBucket \in [Ways -> CacheEntry] /\ BucketGood(EmptyBucket)
    BY EmptyBucketGood DEF BucketGood
  <1>3. Occupied(EmptyBucket) = {}
    BY DEF Occupied, EmptyBucket
  <1>4. Cached(Doubt, bucket, log)
    BY <1>1, <1>2, <1>3 DEF Cached
  <1>5. Tables(Doubt, log)
    BY <1>1 DEF Tables
  <1>50. flushing = {} /\ misread = FALSE
    BY DEF Init
  <1>6. Partitions(part, log)
    BY <1>1 DEF Partitions, PBA_INVALID
  <1>7. PICK k0 \in Keys : k0 = CHOOSE k \in Keys : TRUE
    BY BigKVAssumption
  <1>8. PICK rec : rec = [type |-> "GET", key |-> k0, st |-> "idle", read_step |-> "INIT",
                          write_step |-> "INIT", pba |-> 0, racy |-> FALSE,
                          buf |-> NoTable, floor |-> 0, val |-> 0]
    OBVIOUS
  <1>9. req = [r \in Reqs |-> rec]
    BY <1>7, <1>8 DEF Init
  <1>10. rec \in ReqRecord /\ rec.st = "idle"
    BY <1>8 DEF ReqRecord, States, ReadSteps, WriteSteps
  <1>11. req \in [Reqs -> ReqRecord] /\ \A r \in Reqs : req[r].st = "idle"
    BY <1>9, <1>10
  <1>12. Requests(Doubt, req, log)
    BY <1>11 DEF Requests, RequestGood
  <1>13. QueueInv
    BY <1>1, <1>11 DEF QueueInv
  <1>14. TypeOK
    <2>1. aborted \in BOOLEAN /\ misread \in BOOLEAN /\ flushing \in SUBSET Nat
      BY <1>1, <1>50, Zenon
    <2>2. req_q \in Seq(Reqs) /\ retry_q \in Seq(Reqs) /\ log \in Seq(Records)
      BY <1>1
    <2>3. /\ bucket \in [Buckets -> [Ways -> CacheEntry]]
          /\ part \in [Parts -> [flying: BOOLEAN, pba: Nat]]
      BY <1>4, <1>6 DEF Cached, Partitions
    <2> QED
      BY <1>11, <2>1, <2>2, <2>3 DEF TypeOK
  <1> QED
    BY <1>4, <1>5, <1>6, <1>12, <1>13, <1>14 DEF IndexInv

\* Every step keeps the invariant.
LEMMA IndexStep == IndexInv /\ [Next]_vars => IndexInv'
  <1> SUFFICES ASSUME IndexInv, [Next]_vars PROVE IndexInv'
    OBVIOUS
  <1>1. ASSUME NEW r \in Reqs, NEW type \in {"GET", "SET"}, NEW k \in Keys,
               Submit(r, type, k)
        PROVE  IndexInv'
    BY <1>1, SubmitStep
  <1>2. ASSUME NEW r \in Reqs, bigkv_index_set(r) PROVE IndexInv'
    BY <1>2, WaitStep, FillStep, ReadTableStep, WriteTableStep DEF bigkv_index_set
  <1>3. ASSUME NEW r \in Reqs, bigkv_index_get(r) PROVE IndexInv'
    BY <1>3, CachedStep, GetReadStep, MissStep, LoadStep, LoadWriteStep
       DEF bigkv_index_get
  <1>4. ASSUME NEW r \in Reqs, InsertError(r) \/ ReadError(r) PROVE IndexInv'
    BY <1>4, AbortStep
  <1>5. ASSUME NEW r \in Reqs, ReadDone(r) PROVE IndexInv'
    BY <1>5, DoneStep
  <1>6. ASSUME NEW s \in flushing, FlushDone(s) PROVE IndexInv'
    BY <1>6, FlushStep
  <1>7. CASE UNCHANGED vars
    <2>1. Doubt' = Doubt
      BY <1>7 DEF vars, Doubt
    <2> QED
      BY <1>7, <2>1 DEF vars, IndexInv, TypeOK, QueueInv
  <1> QED
    BY <1>1, <1>2, <1>3, <1>4, <1>5, <1>6, <1>7 DEF Next, Handler

\* The inductive invariant of the index for every mix of SETs and GETs, with
\* reads that overtake writes and reads that are lost: buckets in LRU order,
\* partitions lead to tables, the queues hold what they should; and, until the
\* first read that overtakes a write, tables in probing order and all addresses
\* those of pairs of the right key.
THEOREM IndexInvariant == Spec => []IndexInv
  BY IndexInit, IndexStep, PTL DEF Spec

\* The types of the index.
THEOREM TypesHold == Spec => []TypeOK
  <1>1. IndexInv => TypeOK
    BY DEF IndexInv
  <1> QED
    BY <1>1, IndexInvariant, PTL

\* A full bucket always has exactly one entry to evict, after any sequence of
\* hits, fills and loads.
THEOREM LruHolds == Spec => []LruExact
  <1>1. IndexInv => LruExact
    <2> SUFFICES ASSUME IndexInv, NEW b \in Buckets
                 PROVE  /\ \A i, j \in Used(b) :
                              bucket[b][i].lru_bit = bucket[b][j].lru_bit => i = j
                        /\ \A i \in Used(b), j \in Ways \ Used(b) :
                              bucket[b][j].lru_bit = LRU_MAX
                        /\ Used(b) = Ways => \E i \in Ways : bucket[b][i].lru_bit = LRU_MAX
      BY DEF LruExact
    <2>1. BucketGood(bucket[b])
      BY DEF IndexInv, Cached
    <2>2. Used(b) = Occupied(bucket[b])
      BY DEF Used, Occupied
    <2>3. Used(b) = Ways => \E i \in Ways : bucket[b][i].lru_bit = LRU_MAX
      BY <2>1, <2>2, FullHasOldest
    <2> QED
      BY <2>1, <2>2, <2>3 DEF BucketGood, LruOrder, UnusedClear, Occupied
  <1> QED
    BY <1>1, IndexInvariant, PTL

\* A key is cached at most once and in its own bucket, although a GET that
\* loads an address and a SET of the same key may overlap, and a read may
\* overtake a write; until one does, with the address of one of its pairs.
THEOREM CachedOnceHolds == Spec => []CachedOnce
  <1>1. IndexInv => CachedOnce
    <2> SUFFICES ASSUME IndexInv, NEW b \in Buckets, NEW i \in Used(b)
                 PROVE  /\ \E k \in Keys : /\ bucket_idx(k) = b
                                           /\ hash_low[k] = bucket[b][i].fingerprint
                                           /\ ~misread => IsPairOf(bucket[b][i].pba, k)
                        /\ \A j \in Used(b) :
                              bucket[b][j].fingerprint = bucket[b][i].fingerprint => i = j
      BY DEF CachedOnce
    <2>1. BucketGood(bucket[b])
      BY DEF IndexInv, Cached
    <2>2. Used(b) = Occupied(bucket[b])
      BY DEF Used, Occupied
    <2>3. PICK k \in Keys : /\ Leads(Doubt, log, bucket[b][i].pba, k)
                            /\ bucket_idx(k) = b
                            /\ hash_low[k] = bucket[b][i].fingerprint
      BY <2>2 DEF IndexInv, Cached
    <2>4. ~misread => IsPairOf(bucket[b][i].pba, k)
      BY <2>3 DEF Leads, Doubt, IsPair, IsPairOf
    <2> QED
      BY <2>1, <2>2, <2>3, <2>4 DEF BucketGood, Distinct
  <1> QED
    BY <1>1, IndexInvariant, PTL

\* Until a read overtakes a write, every partition table on the device has each
\* fingerprint once, where a search finds it, with the address of a pair of
\* that key, after any number of rewrites by SETs and GETs that overlap.
THEOREM TablesHold == Spec => []TablesSound
  <1>1. IndexInv => TablesSound
    <2> SUFFICES ASSUME IndexInv, ~misread, NEW n \in 1..Len(log), log[n].kind = "table",
                        NEW c \in Cells, NEW d \in Cells,
                        log[n].entry[c].pba # PBA_INVALID
                 PROVE  /\ \E k \in Keys :
                              /\ IsPairOf(log[n].entry[c].pba, k)
                              /\ hash_low[k] = log[n].entry[c].fingerprint
                              /\ get_match_entry_f(log[n].entry, hash_low[k])
                                    = log[n].entry[c].pba
                        /\ log[n].entry[d].fingerprint = log[n].entry[c].fingerprint
                              => c = d
      BY DEF TablesSound
    <2>1. PICK t : t = log[n].entry
      OBVIOUS
    <2>2. TableGood(t) /\ TableRefs(log, t)
      <3>1. TableFit(Doubt, log, t)
        BY <2>1 DEF IndexInv, Tables
      <3> QED
        BY <3>1 DEF TableFit, Doubt
    <2>3. PICK k \in Keys : IsPair(log, t[c].pba, k) /\ hash_low[k] = t[c].fingerprint
      BY <2>1, <2>2 DEF TableRefs, Refers
    <2>4. get_match_entry_f(t, hash_low[k]) = t[c].pba
      BY <2>1, <2>2, <2>3, TableFinds
    <2>5. t[d].fingerprint = t[c].fingerprint => c = d
      BY <2>1, <2>2 DEF TableGood
    <2> QED
      BY <2>1, <2>3, <2>4, <2>5 DEF IsPair, IsPairOf
  <1> QED
    BY <1>1, IndexInvariant, PTL

-----------------------------------------------------------------------------
(* The mark of a partition. *)

\* SET r of partition p has found it marked, or looks for an entry again after
\* writing the table.
WaitsFor(r, p) ==
    /\ req[r].type = "SET" /\ part_idx(req[r].key) = p
    /\ req[r].st = "retried" /\ req[r].write_step = "INIT"

LooksAgain(r, p) ==
    /\ req[r].type = "SET" /\ part_idx(req[r].key) = p
    /\ req[r].st = "retried" /\ req[r].write_step = "WRITE_KV"

NoDirty(bk, p) == \A b \in PartBuckets(p), i \in Ways : ~bk[b][i].dirty_bit

\* New requests run only when the retry queue is empty, so that at most one
\* SET waits at any time.  When a SET looks for an entry again the partition
\* is not marked, nobody else does so, and a SET that waits and is served
\* before it finds an entry without a rewrite, because none is dirty.
MarkInv ==
    /\ MarkExact
    /\ \A p1, p2 \in Parts, r1, r2 \in Reqs :
          WaitsFor(r1, p1) /\ WaitsFor(r2, p2) => r1 = r2
    /\ \A p \in Parts, r1, r2 \in Reqs :
          LooksAgain(r1, p) /\ LooksAgain(r2, p) => r1 = r2
    /\ \A p \in Parts, r \in Reqs : LooksAgain(r, p) =>
          /\ ~part[p].flying
          /\ part[p].pba # PBA_INVALID
          /\ NoDirty(bucket, p) \/ \A s \in Reqs : ~WaitsFor(s, p)

\* Partitions have their own buckets.
LEMMA PartsApart ==
    ASSUME NEW p, NEW q, p # q, NEW b \in PartBuckets(p)
    PROVE  b \notin PartBuckets(q) /\ b \in Buckets
  BY DEF PartBuckets

\* Requests that are left alone keep their part in the marking.
LEMMA OthersRoles ==
    ASSUME NEW r, Others(r), NEW s \in Reqs \ {r}, NEW p
    PROVE  /\ HasTable(s, p)' <=> HasTable(s, p)
           /\ WaitsFor(s, p)' <=> WaitsFor(s, p)
           /\ LooksAgain(s, p)' <=> LooksAgain(s, p)
  BY DEF Others, HasTable, WaitsFor, LooksAgain

\* A step that changes nobody's part in the rewriting of tables, no mark, and
\* makes no entry dirty.
LEMMA MarkKept ==
    ASSUME MarkInv,
           \A s \in Reqs, p \in Parts :
               /\ HasTable(s, p)' <=> HasTable(s, p)
               /\ WaitsFor(s, p)' => WaitsFor(s, p)
               /\ LooksAgain(s, p)' => LooksAgain(s, p),
           \A p \in Parts :
               /\ part'[p].flying <=> part[p].flying
               /\ part[p].pba # PBA_INVALID => part'[p].pba # PBA_INVALID
               /\ NoDirty(bucket, p) => NoDirty(bucket', p)
    PROVE  MarkInv'
  <1>1. MarkExact'
    BY DEF MarkInv, MarkExact
  <1>2. \A p1, p2 \in Parts, r1, r2 \in Reqs :
            WaitsFor(r1, p1)' /\ WaitsFor(r2, p2)' => r1 = r2
    BY DEF MarkInv
  <1>3. \A p \in Parts, r1, r2 \in Reqs :
            LooksAgain(r1, p)' /\ LooksAgain(r2, p)' => r1 = r2
    BY DEF MarkInv
  <1>4. ASSUME NEW p \in Parts, NEW r \in Reqs, LooksAgain(r, p)'
        PROVE  /\ ~part'[p].flying
               /\ part'[p].pba # PBA_INVALID
               /\ NoDirty(bucket', p) \/ \A s \in Reqs : ~WaitsFor(s, p)'
    BY <1>4 DEF MarkInv
  <1> QED
    BY <1>1, <1>2, <1>3, <1>4 DEF MarkInv

\* A GET plays no part in it.
LEMMA GetRoles ==
    ASSUME NEW r, Others(r), req[r].type = "GET", req'[r].type = "GET"
    PROVE  \A s \in Reqs, p \in Parts :
               /\ HasTable(s, p)' <=> HasTable(s, p)
               /\ WaitsFor(s, p)' => WaitsFor(s, p)
               /\ LooksAgain(s, p)' => LooksAgain(s, p)
  <1>1. ASSUME NEW s \in Reqs, NEW p \in Parts
        PROVE  /\ HasTable(s, p)' <=> HasTable(s, p)
               /\ WaitsFor(s, p)' => WaitsFor(s, p)
               /\ LooksAgain(s, p)' => LooksAgain(s, p)
    <2>1. CASE s = r
      BY <2>1 DEF HasTable, WaitsFor, LooksAgain
    <2>2. CASE s # r
      BY <2>2, OthersRoles
    <2> QED
      BY <2>1, <2>2
  <1> QED
    BY <1>1

\* The marks stay exact when a SET has to wait,
LEMMA MarkWait ==
    ASSUME IndexInv, MarkInv, NEW r, SetWait(r)
    PROVE  MarkInv'
  <1>0. PICK p : p = part_idx(req[r].key)
    OBVIOUS
  <1>1. /\ get_next_request(r) /\ req[r].type = "SET" /\ req[r].write_step = "INIT"
        /\ UNCHANGED <<bucket, part>>
    BY DEF SetWait
  <1>2. /\ r \in Reqs /\ req[r].st \in {"queued", "retried"}
        /\ req[r].st = "queued" => \A q \in Reqs : req[q].st # "retried"
    BY <1>1, Dispatched
  <1>3. p \in Parts
    BY <1>0, <1>1, SetDispatched, KeyPlace
  <1>4. /\ Others(r) /\ req'[r].type = "SET" /\ req'[r].key = req[r].key
        /\ req'[r].st = "retried" /\ req'[r].write_step = "INIT"
    BY WaitStep
  <1>5. ASSUME NEW q PROVE ~HasTable(r, q) /\ ~HasTable(r, q)' /\ ~LooksAgain(r, q)'
    BY <1>1, <1>2, <1>4 DEF HasTable, LooksAgain
  <1>6. CASE req[r].st = "retried"
    <2>1. \A q : WaitsFor(r, q)' <=> WaitsFor(r, q)
      BY <1>1, <1>4, <1>6 DEF WaitsFor
    <2>2. \A s \in Reqs, q \in Parts :
               /\ HasTable(s, q)' <=> HasTable(s, q)
               /\ WaitsFor(s, q)' => WaitsFor(s, q)
               /\ LooksAgain(s, q)' => LooksAgain(s, q)
      BY <1>4, <1>5, <2>1, OthersRoles
    <2> QED
      BY <1>1, <2>2, MarkKept
  <1>7. CASE req[r].st = "queued"
    <2>1. \A s \in Reqs : \A q : ~WaitsFor(s, q) /\ ~LooksAgain(s, q)
      BY <1>2, <1>7 DEF WaitsFor, LooksAgain
    <2>2. \A s \in Reqs, q \in Parts :
               /\ HasTable(s, q)' <=> HasTable(s, q)
               /\ WaitsFor(s, q)' => s = r
               /\ ~LooksAgain(s, q)'
      BY <1>4, <1>5, <2>1, OthersRoles
    <2>3. MarkExact'
      BY <1>1, <2>2 DEF MarkInv, MarkExact
    <2> QED
      BY <2>2, <2>3 DEF MarkInv
  <1> QED
    BY <1>2, <1>6, <1>7

\* The roles of a SET that looks for an entry: it has no table; it is new, and
\* nobody waits, or it has waited, or it looks again.
LEMMA LookerRole ==
    ASSUME IndexInv, NEW r, get_next_request(r), SetLooksUp(r)
    PROVE  /\ r \in Reqs /\ part_idx(req[r].key) \in Parts /\ req[r].key \in Keys
           /\ \A q : ~HasTable(r, q)
           /\ \A q : q # part_idx(req[r].key) => ~WaitsFor(r, q) /\ ~LooksAgain(r, q)
           /\ \/ \A s \in Reqs : \A q : ~WaitsFor(s, q) /\ ~LooksAgain(s, q)
              \/ WaitsFor(r, part_idx(req[r].key))
              \/ LooksAgain(r, part_idx(req[r].key))
           /\ ~LooksAgain(r, part_idx(req[r].key)) => ~part[part_idx(req[r].key)].flying
  <1>1. /\ r \in Reqs /\ req[r].st \in {"queued", "retried"}
        /\ req[r].st = "queued" => \A q \in Reqs : req[q].st # "retried"
    BY Dispatched
  <1>2. /\ req[r].type = "SET" /\ req[r].write_step \in {"INIT", "WRITE_KV"}
        /\ req[r].write_step = "INIT" => ~part[part_idx(req[r].key)].flying
    BY DEF SetLooksUp
  <1>3. req[r].key \in Keys /\ (req[r].st = "queued" => req[r].write_step = "INIT")
    BY <1>2, SetDispatched
  <1>4. part_idx(req[r].key) \in Parts
    BY <1>3, KeyPlace
  <1>5. \A q : ~HasTable(r, q)
    BY <1>1, <1>2 DEF HasTable
  <1>6. \A q : q # part_idx(req[r].key) => ~WaitsFor(r, q) /\ ~LooksAgain(r, q)
    BY DEF WaitsFor, LooksAgain
  <1>7. CASE req[r].st = "queued"
    <2>1. \A s \in Reqs : \A q : ~WaitsFor(s, q) /\ ~LooksAgain(s, q)
      BY <1>1, <1>7 DEF WaitsFor, LooksAgain
    <2> QED
      BY <1>1, <1>2, <1>3, <1>4, <1>5, <1>6, <1>7, <2>1
  <1>8. CASE req[r].st = "retried"
    <2>1. req[r].write_step = "INIT" => WaitsFor(r, part_idx(req[r].key))
      BY <1>2, <1>8 DEF WaitsFor
    <2>2. req[r].write_step = "WRITE_KV" => LooksAgain(r, part_idx(req[r].key))
      BY <1>2, <1>8 DEF LooksAgain
    <2> QED
      BY <1>1, <1>2, <1>3, <1>4, <1>5, <1>6, <2>1, <2>2
  <1> QED
    BY <1>1, <1>7, <1>8

\* When it finds none, the partition is not marked, and nobody else looks again.
LEMMA LookerAlone ==
    ASSUME IndexInv, MarkInv, NEW r, get_next_request(r), SetLooksUp(r), Target(r) = 0
    PROVE  /\ ~part[part_idx(req[r].key)].flying
           /\ \A s \in Reqs \ {r} : ~LooksAgain(s, part_idx(req[r].key))
  <1>0. PICK p : p = part_idx(req[r].key)
    OBVIOUS
  <1>1. /\ r \in Reqs /\ p \in Parts /\ req[r].key \in Keys
        /\ \/ \A s \in Reqs : \A q : ~WaitsFor(s, q) /\ ~LooksAgain(s, q)
           \/ WaitsFor(r, p)
           \/ LooksAgain(r, p)
        /\ ~LooksAgain(r, p) => ~part[p].flying
    BY <1>0, LookerRole
  <1>2. ~part[p].flying
    BY <1>1 DEF MarkInv
  <1>3. ~NoDirty(bucket, p)
    <2>1. PICK b : b = bucket_idx(req[r].key)
      OBVIOUS
    <2>2. /\ b \in PartBuckets(p) /\ hash_low[req[r].key] \in Nat
          /\ hash_low[req[r].key] # 0 /\ b \in Buckets
      BY <1>0, <1>1, <2>1, KeyPlace
    <2>3. BucketGood(bucket[b])
      BY <2>2 DEF IndexInv, Cached
    <2>4. get_target_entry(bucket[b], hash_low[req[r].key]) = 0
      BY <2>1 DEF Target
    <2>5. ~ \A j \in Ways : ~bucket[b][j].dirty_bit
      BY <2>2, <2>3, <2>4, CleanHasTarget
    <2> QED
      BY <2>2, <2>5 DEF NoDirty
  <1>4. ASSUME NEW s \in Reqs \ {r}, LooksAgain(s, p) PROVE FALSE
    <2>1. NoDirty(bucket, p) \/ \A s2 \in Reqs : ~WaitsFor(s2, p)
      BY <1>1, <1>4 DEF MarkInv
    <2>2. ~WaitsFor(r, p)
      BY <1>1, <1>3, <2>1
    <2>3. LooksAgain(r, p)
      BY <1>1, <1>4, <2>2
    <2> QED
      BY <1>1, <1>4, <2>3 DEF MarkInv
  <1> QED
    BY <1>0, <1>2, <1>4

\* when it fills an entry,
LEMMA MarkFill ==
    ASSUME IndexInv, MarkInv, NEW r, SetFill(r)
    PROVE  MarkInv'
  <1>0. PICK p : p = part_idx(req[r].key)
    OBVIOUS
  <1>1. get_next_request(r) /\ SetLooksUp(r) /\ part' = part
    BY DEF SetFill
  <1>2. /\ r \in Reqs /\ p \in Parts /\ req[r].key \in Keys
        /\ \A q : ~HasTable(r, q)
        /\ \A q : q # p => ~WaitsFor(r, q) /\ ~LooksAgain(r, q)
        /\ \/ \A s \in Reqs : \A q : ~WaitsFor(s, q) /\ ~LooksAgain(s, q)
           \/ WaitsFor(r, p)
           \/ LooksAgain(r, p)
    BY <1>0, <1>1, LookerRole
  <1>3. /\ Others(r) /\ req'[r].type = "SET" /\ req'[r].st = "idle"
        /\ bucket' = [bucket EXCEPT ![bucket_idx(req[r].key)] =
                         fill(@, Target(r), hash_low[req[r].key], TRUE, Len(log) + 1)]
    BY FillStep
  <1>4. \A q : ~HasTable(r, q)' /\ ~WaitsFor(r, q)' /\ ~LooksAgain(r, q)'
    BY <1>3 DEF HasTable, WaitsFor, LooksAgain
  <1>5. \A s \in Reqs, q \in Parts :
            /\ HasTable(s, q)' <=> HasTable(s, q)
            /\ WaitsFor(s, q)' => WaitsFor(s, q) /\ s # r
            /\ LooksAgain(s, q)' => LooksAgain(s, q) /\ s # r
    BY <1>2, <1>3, <1>4, OthersRoles
  <1>6. ASSUME NEW q \in Parts, q # p, NoDirty(bucket, q) PROVE NoDirty(bucket', q)
    <2>1. PICK b0 : b0 = bucket_idx(req[r].key)
      OBVIOUS
    <2>2. b0 \in PartBuckets(p)
      BY <1>0, <1>2, <2>1, KeyPlace
    <2>3. b0 \notin PartBuckets(q)
      BY <1>6, <2>2, PartsApart
    <2>4. \A b \in PartBuckets(q) : bucket'[b] = bucket[b]
      <3>1. \A b \in PartBuckets(q) : b # b0 /\ b \in Buckets
        BY <2>3 DEF PartBuckets
      <3>2. DOMAIN bucket = Buckets
        BY DEF IndexInv, TypeOK
      <3> QED
        BY <1>3, <2>1, <3>1, <3>2
    <2> QED
      BY <1>6, <2>4 DEF NoDirty
  <1>7. MarkExact'
    BY <1>1, <1>5 DEF MarkInv, MarkExact
  <1>8. \A p1, p2 \in Parts, r1, r2 \in Reqs :
            WaitsFor(r1, p1)' /\ WaitsFor(r2, p2)' => r1 = r2
    BY <1>5 DEF MarkInv
  <1>9. \A q \in Parts, r1, r2 \in Reqs :
            LooksAgain(r1, q)' /\ LooksAgain(r2, q)' => r1 = r2
    BY <1>5 DEF MarkInv
  <1>10. ASSUME NEW q \in Parts, NEW w \in Reqs, LooksAgain(w, q)'
         PROVE  /\ ~part'[q].flying
                /\ part'[q].pba # PBA_INVALID
                /\ NoDirty(bucket', q) \/ \A s \in Reqs : ~WaitsFor(s, q)'
    <2>1. LooksAgain(w, q) /\ w # r
      BY <1>5, <1>10
    <2>2. /\ ~part[q].flying /\ part[q].pba # PBA_INVALID
          /\ NoDirty(bucket, q) \/ \A s \in Reqs : ~WaitsFor(s, q)
      BY <2>1 DEF MarkInv
    <2>3. CASE q # p
      BY <1>1, <1>5, <1>6, <2>2, <2>3
    <2>4. CASE q = p
      <3>1. WaitsFor(r, p)
        BY <1>2, <2>1, <2>4 DEF MarkInv
      <3>2. \A s \in Reqs : ~WaitsFor(s, q)'
        BY <1>2, <1>5, <3>1 DEF MarkInv
      <3> QED
        BY <1>1, <2>2, <3>2
    <2> QED
      BY <2>3, <2>4
  <1> QED
    BY <1>7, <1>8, <1>9, <1>10 DEF MarkInv

\* when it marks the partition to read its table,
LEMMA MarkRead ==
    ASSUME IndexInv, MarkInv, NEW r, SetReadTable(r)
    PROVE  MarkInv'
  <1>0. PICK p : p = part_idx(req[r].key)
    OBVIOUS
  <1>1. get_next_request(r) /\ SetLooksUp(r) /\ Target(r) = 0 /\ req[r].type = "SET"
    BY DEF SetReadTable, SetLooksUp
  <1>2. r \in Reqs /\ p \in Parts /\ \A q : ~HasTable(r, q)
    BY <1>0, <1>1, LookerRole
  <1>3. ~part[p].flying /\ \A s \in Reqs \ {r} : ~LooksAgain(s, p)
    BY <1>0, <1>1, LookerAlone
  <1>4. /\ Others(r) /\ TableRead(log, req'[r], req[r], part[p].pba)
        /\ bucket' = bucket /\ \A q \in Parts : part'[q].pba = part[q].pba
        /\ part'[p].flying /\ \A q \in Parts \ {p} : part'[q] = part[q]
    BY <1>0, ReadTableStep
  <1>5. \A q : /\ HasTable(r, q)' <=> q = p
               /\ ~WaitsFor(r, q)' /\ ~LooksAgain(r, q)'
    BY <1>0, <1>1, <1>4 DEF TableRead, HasTable, WaitsFor, LooksAgain
  <1>6. \A s \in Reqs, q \in Parts :
            /\ HasTable(s, q)' <=> HasTable(s, q) \/ (s = r /\ q = p)
            /\ WaitsFor(s, q)' => WaitsFor(s, q)
            /\ LooksAgain(s, q)' => LooksAgain(s, q) /\ s # r
    BY <1>2, <1>4, <1>5, OthersRoles
  <1>7. \A s \in Reqs : ~HasTable(s, p)
    BY <1>2, <1>3 DEF MarkInv, MarkExact
  <1>8. MarkExact'
    <2> SUFFICES ASSUME NEW q \in Parts
                 PROVE  /\ part'[q].flying <=> \E s \in Reqs : HasTable(s, q)'
                        /\ \A r1, r2 \in Reqs : HasTable(r1, q)' /\ HasTable(r2, q)' => r1 = r2
      BY DEF MarkExact
    <2>1. CASE q = p
      BY <1>2, <1>4, <1>6, <1>7, <2>1
    <2>2. CASE q # p
      BY <1>4, <1>6, <2>2 DEF MarkInv, MarkExact
    <2> QED
      BY <2>1, <2>2
  <1>9. \A p1, p2 \in Parts, r1, r2 \in Reqs :
            WaitsFor(r1, p1)' /\ WaitsFor(r2, p2)' => r1 = r2
    BY <1>6 DEF MarkInv
  <1>10. \A q \in Parts, r1, r2 \in Reqs :
            LooksAgain(r1, q)' /\ LooksAgain(r2, q)' => r1 = r2
    BY <1>6 DEF MarkInv
  <1>11. ASSUME NEW q \in Parts, NEW w \in Reqs, LooksAgain(w, q)'
         PROVE  /\ ~part'[q].flying
                /\ part'[q].pba # PBA_INVALID
                /\ NoDirty(bucket', q) \/ \A s \in Reqs : ~WaitsFor(s, q)'
    <2>1. LooksAgain(w, q) /\ w # r
      BY <1>6, <1>11
    <2>2. q # p
      BY <1>3, <2>1
    <2> QED
      BY <1>4, <1>6, <2>1, <2>2 DEF MarkInv
  <1> QED
    BY <1>8, <1>9, <1>10, <1>11 DEF MarkInv

\* and when it writes the table and takes the mark off.
LEMMA MarkWrite ==
    ASSUME IndexInv, MarkInv, NEW r, SetWriteTable(r)
    PROVE  MarkInv'
  <1>0. PICK p : p = part_idx(req[r].key)
    OBVIOUS
  <1>1. get_next_request(r) /\ SetHasTable(r) /\ req[r].type = "SET"
    BY DEF SetWriteTable, SetHasTable
  <1>2. /\ Others(r) /\ req[r].key \in Keys /\ r \in Reqs
        /\ req'[r].type = "SET" /\ req'[r].key = req[r].key
        /\ req'[r].st = "retried" /\ req'[r].write_step = "WRITE_KV"
        /\ ~part'[p].flying /\ part'[p].pba # PBA_INVALID
        /\ \A q \in Parts \ {p} : part'[q] = part[q]
        /\ bucket' = Cleaned(bucket, p)
    BY <1>0, WriteTableStep DEF Others
  <1>3. p \in Parts
    BY <1>0, <1>2, KeyPlace
  <1>4. /\ \A s \in Reqs \ {r} : ~HasTable(s, p) /\ ~LooksAgain(s, p)
        /\ \A q \in Parts \ {p} : ~HasTable(r, q)
    <2>1. CASE req[r].write_step = "WRITE_PTABLE"
      <3>1. HasTable(r, p)
        BY <1>0, <1>1, <2>1, SetDispatched DEF HasTable
      <3>2. part[p].flying /\ \A s \in Reqs : HasTable(s, p) => s = r
        BY <1>2, <1>3, <3>1 DEF MarkInv, MarkExact
      <3>3. \A s \in Reqs : ~LooksAgain(s, p)
        BY <1>3, <3>2 DEF MarkInv
      <3>4. \A q \in Parts \ {p} : ~HasTable(r, q)
        BY <1>0 DEF HasTable
      <3> QED
        BY <3>2, <3>3, <3>4
    <2>2. CASE SetLooksUp(r) /\ Target(r) = 0
      <3>1. ~part[p].flying /\ \A s \in Reqs \ {r} : ~LooksAgain(s, p)
        BY <1>0, <1>1, <2>2, LookerAlone
      <3>2. \A s \in Reqs : ~HasTable(s, p)
        BY <1>3, <3>1 DEF MarkInv, MarkExact
      <3>3. \A q \in Parts \ {p} : ~HasTable(r, q)
        BY <1>0 DEF HasTable
      <3> QED
        BY <3>1, <3>2, <3>3
    <2> QED
      BY <1>1, <2>1, <2>2 DEF SetHasTable
  <1>5. \A q : /\ ~HasTable(r, q)' /\ ~WaitsFor(r, q)'
               /\ LooksAgain(r, q)' => q = p
    BY <1>0, <1>2 DEF HasTable, WaitsFor, LooksAgain
  <1>6. \A s \in Reqs, q \in Parts :
            /\ HasTable(s, q)' <=> HasTable(s, q) /\ q # p
            /\ WaitsFor(s, q)' => WaitsFor(s, q)
            /\ LooksAgain(s, q)' => (IF q = p THEN s = r ELSE LooksAgain(s, q))
    BY <1>2, <1>4, <1>5, OthersRoles
  <1>7. \A b \in Buckets : BucketGood(bucket[b])
    BY DEF IndexInv, Cached
  <1>8. NoDirty(bucket', p)
    <2>1. ASSUME NEW b \in PartBuckets(p), NEW i \in Ways PROVE ~bucket'[b][i].dirty_bit
      <3>1. b \in Buckets
        BY DEF PartBuckets
      <3> QED
        BY <1>2, <1>7, <3>1, CleanedGood
    <2> QED
      BY <2>1 DEF NoDirty
  <1>9. ASSUME NEW q \in Parts, q # p, NoDirty(bucket, q) PROVE NoDirty(bucket', q)
    <2>1. ASSUME NEW b \in PartBuckets(q) PROVE bucket'[b] = bucket[b]
      <3>1. b \in Buckets /\ b \notin PartBuckets(p)
        BY <1>9, PartsApart
      <3> QED
        BY <1>2, <1>7, <3>1, CleanedGood
    <2> QED
      BY <1>9, <2>1 DEF NoDirty
  <1>10. MarkExact'
    <2> SUFFICES ASSUME NEW q \in Parts
                 PROVE  /\ part'[q].flying <=> \E s \in Reqs : HasTable(s, q)'
                        /\ \A r1, r2 \in Reqs : HasTable(r1, q)' /\ HasTable(r2, q)' => r1 = r2
      BY DEF MarkExact
    <2>1. CASE q = p
      BY <1>2, <1>6, <2>1
    <2>2. CASE q # p
      BY <1>2, <1>6, <2>2 DEF MarkInv, MarkExact
    <2> QED
      BY <2>1, <2>2
  <1>11. \A p1, p2 \in Parts, r1, r2 \in Reqs :
            WaitsFor(r1, p1)' /\ WaitsFor(r2, p2)' => r1 = r2
    BY <1>6 DEF MarkInv
  <1>12. ASSUME NEW q \in Parts, NEW r1 \in Reqs, NEW r2 \in Reqs,
                LooksAgain(r1, q)', LooksAgain(r2, q)'
         PROVE  r1 = r2
    BY <1>6, <1>12 DEF MarkInv
  <1>13. ASSUME NEW q \in Parts, NEW w \in Reqs, LooksAgain(w, q)'
         PROVE  /\ ~part'[q].flying
                /\ part'[q].pba # PBA_INVALID
                /\ NoDirty(bucket', q) \/ \A s \in Reqs : ~WaitsFor(s, q)'
    <2>1. CASE q = p
      BY <1>2, <1>8, <2>1
    <2>2. CASE q # p
      <3>1. /\ ~part[q].flying /\ part[q].pba # PBA_INVALID
            /\ NoDirty(bucket, q) \/ \A s \in Reqs : ~WaitsFor(s, q)
        BY <1>6, <1>13, <2>2 DEF MarkInv
      <3> QED
        BY <1>2, <1>6, <1>9, <2>2, <3>1
    <2> QED
      BY <2>1, <2>2
  <1> QED
    BY <1>10, <1>11, <1>12, <1>13 DEF MarkInv

\* A hit leaves addresses and dirty bits as they are.
SameEntries(b2, bk) ==
    \A b \in Buckets, i \in Ways :
        /\ b2[b][i].fingerprint = bk[b][i].fingerprint
        /\ b2[b][i].dirty_bit = bk[b][i].dirty_bit
        /\ b2[b][i].pba = bk[b][i].pba

\* A hit changes no entry but for its age.
LEMMA TouchIs ==
    ASSUME NEW bk, NEW lg, NEW m, Cached(m, bk, lg), NEW b \in Buckets,
           NEW i \in Occupied(bk[b]), NEW b2, b2 = [bk EXCEPT ![b] = touch(@, i)]
    PROVE  SameEntries(b2, bk)
  <1>1. BucketGood(bk[b]) /\ DOMAIN bk = Buckets
    BY DEF Cached
  <1>2. PICK t : t = touch(bk[b], i)
    OBVIOUS
  <1>3. \A j \in Ways : /\ t[j].fingerprint = bk[b][j].fingerprint
                        /\ t[j].dirty_bit = bk[b][j].dirty_bit
                        /\ t[j].pba = bk[b][j].pba
    BY <1>1, <1>2, TouchGood
  <1>4. b2[b] = t /\ \A a \in Buckets \ {b} : b2[a] = bk[a]
    BY <1>1, <1>2
  <1> QED
    BY <1>3, <1>4 DEF SameEntries

\* A fill changes one entry of the key's bucket.
FilledIn(b2, bk, k, dirty, pba) ==
    /\ \A a \in Buckets \ {bucket_idx(k)} : b2[a] = bk[a]
    /\ \E i : Filled(b2[bucket_idx(k)], bk[bucket_idx(k)], i, hash_low[k], dirty, pba)

\* Filling replaces one entry and no other of the key.
LEMMA FillIs ==
    ASSUME NEW bk, NEW lg, NEW m, Cached(m, bk, lg), NEW k \in Keys, NEW i,
           i = get_target_entry(bk[bucket_idx(k)], hash_low[k]), i # 0,
           NEW dirty \in BOOLEAN, NEW pba, Leads(m, lg, pba, k), NEW b2,
           b2 = [bk EXCEPT ![bucket_idx(k)] = fill(@, i, hash_low[k], dirty, pba)]
    PROVE  FilledIn(b2, bk, k, dirty, pba)
  <1>1. pba \in Nat
    BY DEF Leads
  <1>2. Filled(fill(bk[bucket_idx(k)], i, hash_low[k], dirty, pba),
               bk[bucket_idx(k)], i, hash_low[k], dirty, pba)
    BY <1>1, CachedFill
  <1>3. PICK b \in Buckets : b = bucket_idx(k)
    BY KeyPlace
  <1>4. PICK f : f = fill(bk[b], i, hash_low[k], dirty, pba)
    OBVIOUS
  <1>5. b2 = [bk EXCEPT ![b] = f] /\ DOMAIN bk = Buckets
    BY <1>3, <1>4 DEF Cached
  <1>6. b2[b] = f /\ \A a \in Buckets \ {b} : b2[a] = bk[a]
    BY <1>5
  <1> QED
    BY <1>2, <1>3, <1>4, <1>6 DEF FilledIn

\* Steps that make no entry dirty.
NoNewDirty(b2, bk) ==
    \A b \in Buckets, i \in Ways : b2[b][i].dirty_bit => bk[b][i].dirty_bit

\* No entry gets dirty by a hit,
LEMMA SameNoNew ==
    ASSUME NEW bk, NEW b2, SameEntries(b2, bk)
    PROVE  NoNewDirty(b2, bk)
  BY DEF SameEntries, NoNewDirty

\* by loading a clean one,
LEMMA LoadNoNew ==
    ASSUME NEW bk, NEW b2, NEW k, NEW pba, FilledIn(b2, bk, k, FALSE, pba)
    PROVE  NoNewDirty(b2, bk)
  <1>0. PICK b0 : b0 = bucket_idx(k)
    OBVIOUS
  <1>1. PICK i : Filled(b2[b0], bk[b0], i, hash_low[k], FALSE, pba)
    BY <1>0 DEF FilledIn
  <1>2. ASSUME NEW b \in Buckets, NEW j \in Ways, b2[b][j].dirty_bit
        PROVE  bk[b][j].dirty_bit
    <2>1. CASE b # b0
      BY <1>0, <1>2, <2>1 DEF FilledIn
    <2>2. CASE b = b0
      <3>1. j # i
        BY <1>1, <1>2, <2>2 DEF Filled
      <3> QED
        BY <1>1, <1>2, <2>2, <3>1 DEF Filled
    <2> QED
      BY <2>1, <2>2
  <1> QED
    BY <1>2 DEF NoNewDirty

\* or by a write-back.
LEMMA CleanedNoNew ==
    ASSUME NEW bk, NEW lg, NEW m, Cached(m, bk, lg), NEW p
    PROVE  NoNewDirty(Cleaned(bk, p), bk)
  <1>1. ASSUME NEW b \in Buckets, NEW i \in Ways, Cleaned(bk, p)[b][i].dirty_bit
        PROVE  bk[b][i].dirty_bit
    <2>1. BucketGood(bk[b])
      BY DEF Cached
    <2>2. /\ b \notin PartBuckets(p) => Cleaned(bk, p)[b] = bk[b]
          /\ b \in PartBuckets(p) => ~Cleaned(bk, p)[b][i].dirty_bit
      BY <2>1, CleanedGood
    <2> QED
      BY <1>1, <2>2
  <1> QED
    BY <1>1 DEF NoNewDirty

\* A partition without dirty entries stays one.
LEMMA NoDirtyKept ==
    ASSUME NEW bk, NEW b2, NoNewDirty(b2, bk), NEW p, NoDirty(bk, p)
    PROVE  NoDirty(b2, p)
  BY DEF NoNewDirty, NoDirty, PartBuckets

\* What a GET does to buckets and partitions.
LEMMA GetEffect ==
    ASSUME IndexInv, NEW r, bigkv_index_get(r)
    PROVE  /\ Others(r) /\ req[r].type = "GET" /\ req'[r].type = "GET"
           /\ NoNewDirty(bucket', bucket)
           /\ \A p \in Parts : /\ part'[p].flying = part[p].flying
                               /\ part[p].pba # PBA_INVALID => part'[p].pba # PBA_INVALID
  <1>0. Cached(Doubt, bucket, log)
    BY DEF IndexInv
  <1>1. CASE GetCached(r)
    <2>1. /\ Others(r) /\ req[r].type = "GET" /\ req'[r].type = "GET" /\ part' = part
          /\ req[r].key \in Keys
          /\ Match(r) \in Occupied(bucket[bucket_idx(req[r].key)])
          /\ bucket' = [bucket EXCEPT ![bucket_idx(req[r].key)] = touch(@, Match(r))]
      BY <1>1, CachedStep
    <2>2. bucket_idx(req[r].key) \in Buckets
      BY <2>1, KeyPlace
    <2>3. SameEntries(bucket', bucket)
      BY <1>0, <2>1, <2>2, TouchIs
    <2> QED
      BY <2>1, <2>3, SameNoNew
  <1>2. CASE GetReadTable(r) \/ GetMiss(r)
    <2>1. /\ Others(r) /\ req[r].type = "GET" /\ req'[r].type = "GET"
          /\ part' = part /\ bucket' = bucket
      <3>1. CASE GetReadTable(r)
        BY <3>1, GetReadStep DEF TableRead
      <3>2. CASE GetMiss(r)
        BY <3>2, MissStep
      <3> QED
        BY <1>2, <3>1, <3>2
    <2> QED
      BY <2>1 DEF NoNewDirty
  <1>3. CASE GetLoad(r)
    <2>1. /\ Others(r) /\ req[r].type = "GET" /\ req'[r].type = "GET" /\ part' = part
          /\ req[r].key \in Keys /\ Leads(Doubt, log, Found(r), req[r].key) /\ Target(r) # 0
          /\ bucket' = [bucket EXCEPT ![bucket_idx(req[r].key)] =
                            fill(@, Target(r), hash_low[req[r].key], FALSE, Found(r))]
      BY <1>3, LoadStep
    <2>2. Target(r) = get_target_entry(bucket[bucket_idx(req[r].key)], hash_low[req[r].key])
      BY DEF Target
    <2>3. FilledIn(bucket', bucket, req[r].key, FALSE, Found(r))
      BY <1>0, <2>1, <2>2, FillIs
    <2> QED
      BY <2>1, <2>3, LoadNoNew
  <1>4. CASE GetLoadWrite(r)
    <2>0. PICK k, p, clean : /\ k = req[r].key /\ p = part_idx(k)
                             /\ clean = Cleaned(bucket, p)
      OBVIOUS
    <2>1. /\ Others(r) /\ req[r].type = "GET" /\ req'[r].type = "GET"
          /\ k \in Keys /\ Leads(Doubt, log, Found(r), k)
          /\ part'[p].flying = part[p].flying /\ part'[p].pba # PBA_INVALID
          /\ \A q \in Parts \ {p} : part'[q] = part[q]
          /\ get_target_entry(clean[bucket_idx(k)], hash_low[k]) # 0
          /\ bucket' = [clean EXCEPT ![bucket_idx(k)] =
                           fill(@, get_target_entry(@, hash_low[k]),
                                hash_low[k], FALSE, Found(r))]
      BY <1>4, <2>0, LoadWriteStep
    <2>2. Cached(Doubt, clean, log) /\ NoNewDirty(clean, bucket)
      BY <1>0, <2>0, CachedCleaned, CleanedNoNew
    <2>3. PICK i : i = get_target_entry(clean[bucket_idx(k)], hash_low[k])
      OBVIOUS
    <2>4. bucket' = [clean EXCEPT ![bucket_idx(k)] = fill(@, i, hash_low[k], FALSE, Found(r))]
      BY <2>1, <2>3
    <2>5. FilledIn(bucket', clean, k, FALSE, Found(r))
      <3>1. PICK a, m : a = Found(r) /\ m = Doubt
        OBVIOUS
      <3>2. /\ Cached(m, clean, log) /\ Leads(m, log, a, k) /\ k \in Keys
            /\ i # 0 /\ bucket' = [clean EXCEPT ![bucket_idx(k)] =
                                      fill(@, i, hash_low[k], FALSE, a)]
        BY <2>1, <2>2, <2>3, <2>4, <3>1
      <3>3. FilledIn(bucket', clean, k, FALSE, a)
        BY <2>3, <3>2, FillIs
      <3> QED
        BY <3>1, <3>3
    <2>6. NoNewDirty(bucket', clean)
      BY <2>5, LoadNoNew
    <2>7. NoNewDirty(bucket', bucket)
      BY <2>2, <2>6 DEF NoNewDirty
    <2> QED
      BY <2>1, <2>7
  <1> QED
    BY <1>1, <1>2, <1>3, <1>4 DEF bigkv_index_get

\* Nothing is marked at first.
LEMMA MarkInit == Init => MarkInv
  <1> SUFFICES ASSUME Init PROVE MarkInv
    OBVIOUS
  <1>1. \A r \in Reqs : req[r].st = "idle"
    BY DEF Init
  <1>2. \A p \in Parts : ~part[p].flying
    BY DEF Init
  <1>3. \A r \in Reqs : \A p : ~HasTable(r, p) /\ ~WaitsFor(r, p) /\ ~LooksAgain(r, p)
    BY <1>1 DEF HasTable, WaitsFor, LooksAgain
  <1> QED
    BY <1>2, <1>3 DEF MarkInv, MarkExact

\* Steps that leave buckets, partitions and requests alone.
LEMMA MarkSame ==
    ASSUME MarkInv, UNCHANGED <<bucket, part, req>>
    PROVE  MarkInv'
  <1>1. \A s \in Reqs, p \in Parts :
            /\ HasTable(s, p)' <=> HasTable(s, p)
            /\ WaitsFor(s, p)' => WaitsFor(s, p)
            /\ LooksAgain(s, p)' => LooksAgain(s, p)
    BY DEF HasTable, WaitsFor, LooksAgain
  <1>2. bucket' = bucket /\ part' = part
    OBVIOUS
  <1> QED
    BY <1>1, <1>2, MarkKept

\* Every step keeps the marks exact.
LEMMA MarkStep == IndexInv /\ MarkInv /\ [Next]_vars => MarkInv'
  <1> SUFFICES ASSUME IndexInv, MarkInv, [Next]_vars PROVE MarkInv'
    OBVIOUS
  <1>1. ASSUME NEW r \in Reqs, NEW type \in {"GET", "SET"}, NEW k \in Keys,
               Submit(r, type, k)
        PROVE  MarkInv'
    <2>1. /\ Others(r) /\ req'[r].st = "queued" /\ req[r].st = "idle"
          /\ UNCHANGED <<bucket, part, log>>
      BY <1>1, SubmitStep
    <2>2. \A p : /\ ~HasTable(r, p) /\ ~HasTable(r, p)'
                 /\ ~WaitsFor(r, p)' /\ ~LooksAgain(r, p)'
      BY <2>1 DEF HasTable, WaitsFor, LooksAgain
    <2>3. \A s \in Reqs, p \in Parts :
               /\ HasTable(s, p)' <=> HasTable(s, p)
               /\ WaitsFor(s, p)' => WaitsFor(s, p)
               /\ LooksAgain(s, p)' => LooksAgain(s, p)
      BY <2>1, <2>2, OthersRoles
    <2> QED
      BY <2>1, <2>3, MarkKept
  <1>2. ASSUME NEW r \in Reqs, bigkv_index_set(r) PROVE MarkInv'
    BY <1>2, MarkWait, MarkFill, MarkRead, MarkWrite DEF bigkv_index_set
  <1>3. ASSUME NEW r \in Reqs, bigkv_index_get(r) PROVE MarkInv'
    <2>1. /\ Others(r) /\ req[r].type = "GET" /\ req'[r].type = "GET"
          /\ NoNewDirty(bucket', bucket)
          /\ \A p \in Parts : /\ part'[p].flying = part[p].flying
                              /\ part[p].pba # PBA_INVALID => part'[p].pba # PBA_INVALID
      BY <1>3, GetEffect
    <2>2. \A s \in Reqs, p \in Parts :
               /\ HasTable(s, p)' <=> HasTable(s, p)
               /\ WaitsFor(s, p)' => WaitsFor(s, p)
               /\ LooksAgain(s, p)' => LooksAgain(s, p)
      BY <2>1, GetRoles
    <2>3. \A p \in Parts : NoDirty(bucket, p) => NoDirty(bucket', p)
      BY <2>1, NoDirtyKept
    <2> QED
      BY <2>1, <2>2, <2>3, MarkKept
  <1>4. ASSUME NEW r \in Reqs, InsertError(r) \/ ReadError(r) PROVE MarkInv'
    <2>1. UNCHANGED <<bucket, part, log, req, retry_q>>
      BY <1>4, AbortStep
    <2> QED
      BY <2>1, MarkSame
  <1>5. ASSUME NEW r \in Reqs, ReadDone(r) PROVE MarkInv'
    <2>1. /\ Others(r) /\ UNCHANGED <<bucket, part, log>>
          /\ req'[r].type = req[r].type /\ req'[r].key = req[r].key
          /\ \/ req[r].st = "reading table" /\ req'[r].st = "retried"
                /\ req'[r].write_step = "WRITE_PTABLE"
             \/ req[r].type = "GET"
      BY <1>5, DoneStep DEF AfterRead
    <2>2. \A p : /\ HasTable(r, p)' <=> HasTable(r, p)
                 /\ ~WaitsFor(r, p)' /\ ~LooksAgain(r, p)'
      BY <2>1 DEF HasTable, WaitsFor, LooksAgain
    <2>3. \A s \in Reqs, p \in Parts :
               /\ HasTable(s, p)' <=> HasTable(s, p)
               /\ WaitsFor(s, p)' => WaitsFor(s, p)
               /\ LooksAgain(s, p)' => LooksAgain(s, p)
      BY <2>1, <2>2, OthersRoles
    <2> QED
      BY <2>1, <2>3, MarkKept
  <1>6. ASSUME NEW s \in flushing, FlushDone(s) PROVE MarkInv'
    BY <1>6, FlushStep, MarkSame
  <1>7. CASE UNCHANGED vars
    BY <1>7, MarkSame DEF vars
  <1> QED
    BY <1>1, <1>2, <1>3, <1>4, <1>5, <1>6, <1>7 DEF Next, Handler

\* At most one SET at a time rewrites the table of a partition, and the mark
\* of the partition says exactly when, although a SET that looks for an entry
\* again does not look at the mark.  It does not depend on what reads find; a
\* SET whose read is lost has the mark for ever.
THEOREM MarkHolds == Spec => []MarkExact
  <1>1. MarkInv => MarkExact
    BY DEF MarkInv
  <1>2. Spec => []MarkInv
    BY MarkInit, MarkStep, IndexInvariant, PTL DEF Spec
  <1> QED
    BY <1>1, <1>2, PTL

-----------------------------------------------------------------------------
(* SETs only, or GETs only: nothing is lost. *)

\* Address n is the newest pair of key k, or 0 when k has none.
IsNewest(lg, k, n) ==
    /\ n = PBA_INVALID \/ IsPair(lg, n, k)
    /\ \A m : IsPair(lg, m, k) => m <= n

\* What the table of partition p has for fp.
TableHas(pt, lg, p, fp) ==
    IF pt[p].pba = PBA_INVALID THEN PBA_INVALID
                               ELSE get_match_entry_f(lg[pt[p].pba].entry, fp)

\* A key has one newest pair.
LEMMA NewestUnique ==
    ASSUME NEW lg \in Seq(Records), NEW k, NEW n1, IsNewest(lg, k, n1),
           NEW n2, IsNewest(lg, k, n2)
    PROVE  n1 = n2
  BY DEF IsNewest, IsPair, PBA_INVALID

\* Newest is what IsNewest says.
LEMMA NewestIs ==
    ASSUME log \in Seq(Records), NEW k, NEW n, IsNewest(log, k, n)
    PROVE  Newest(k) = n
  <1> DEFINE ns == {m \in 1..Len(log) : IsPairOf(m, k)}
  <1>1. Newest(k) = IF ns = {} THEN PBA_INVALID ELSE Max(ns)
    BY DEF Newest
  <1>2. \A m : m \in ns <=> IsPair(log, m, k)
    BY DEF IsPair, IsPairOf
  <1>3. \A m \in ns : m \in Nat /\ m # 0
    OBVIOUS
  <1> HIDE DEF ns
  <1>4. CASE n = PBA_INVALID
    <2>1. ns = {}
      BY <1>2, <1>3, <1>4 DEF IsNewest, PBA_INVALID
    <2> QED
      BY <1>1, <1>4, <2>1
  <1>5. CASE n # PBA_INVALID
    <2>1. n \in ns /\ \A m \in ns : m <= n
      BY <1>2, <1>5 DEF IsNewest
    <2>2. Max(ns) = CHOOSE x \in ns : \A y \in ns : x >= y
      BY DEF Max
    <2>3. \A x \in ns : (\A y \in ns : x >= y) => x = n
      BY <1>3, <2>1
    <2>4. \A y \in ns : n >= y
      BY <1>3, <2>1
    <2>5. PICK top : top = CHOOSE x \in ns : \A y \in ns : x >= y
      OBVIOUS
    <2>6. top \in ns /\ \A y \in ns : top >= y
      BY <2>1, <2>4, <2>5
    <2> QED
      BY <1>1, <2>1, <2>2, <2>3, <2>5, <2>6
  <1> QED
    BY <1>4, <1>5

\* A record that is no pair of k leaves the newest pair of k.
LEMMA NewestKept ==
    ASSUME NEW lg \in Seq(Records), NEW x \in Records, NEW k, x # Pair(k),
           NEW n, IsNewest(lg, k, n)
    PROVE  IsNewest(Append(lg, x), k, n)
  <1> DEFINE l2 == Append(lg, x)
  <1>1. /\ Grows(l2, lg) /\ Len(l2) = Len(lg) + 1 /\ l2[Len(lg) + 1] = x
    BY AppendGrows
  <1> HIDE DEF l2
  <1>2. ASSUME NEW m, IsPair(l2, m, k) PROVE IsPair(lg, m, k)
    BY <1>1, <1>2 DEF IsPair, Grows
  <1>3. n = PBA_INVALID \/ IsPair(l2, n, k)
    BY <1>1, KeptByGrowth DEF IsNewest
  <1>4. IsNewest(l2, k, n)
    BY <1>2, <1>3 DEF IsNewest
  <1> QED
    BY <1>4 DEF l2

\* A pair just appended is its key's newest.
LEMMA NewestAdded ==
    ASSUME NEW lg \in Seq(Records), NEW k \in Keys
    PROVE  IsNewest(Append(lg, Pair(k)), k, Len(lg) + 1)
  <1>1. Pair(k) \in Records
    BY RecordKinds
  <1> DEFINE l2 == Append(lg, Pair(k))
  <1>2. /\ Len(l2) = Len(lg) + 1 /\ l2[Len(lg) + 1] = Pair(k)
        /\ Len(lg) + 1 \in 1..Len(l2) /\ Len(lg) \in Nat
    BY <1>1, AppendGrows
  <1> HIDE DEF l2
  <1>3. IsNewest(l2, k, Len(lg) + 1)
    BY <1>2 DEF IsNewest, IsPair
  <1> QED
    BY <1>3 DEF l2

\* The cached address of a key is its newest pair; the table has the newest
\* pair of a key that is not cached; and what the table has for a clean entry.
HitsNewest(bk, lg) ==
    \A k \in Keys, i \in Ways :
        bk[bucket_idx(k)][i].fingerprint = hash_low[k] =>
            IsNewest(lg, k, bk[bucket_idx(k)][i].pba)

MissesNewest(bk, pt, lg) ==
    \A k \in Keys :
        (\A i \in Ways : bk[bucket_idx(k)][i].fingerprint # hash_low[k]) =>
            IsNewest(lg, k, TableHas(pt, lg, part_idx(k), hash_low[k]))

CleanWritten(bk, pt, lg) ==
    \A b \in Buckets, i \in Ways :
        bk[b][i].pba # PBA_INVALID /\ ~bk[b][i].dirty_bit =>
            TableHas(pt, lg, b \div BUCKETS_IN_PART, bk[b][i].fingerprint) = bk[b][i].pba

Sound(bk, pt, lg) ==
    HitsNewest(bk, lg) /\ MissesNewest(bk, pt, lg) /\ CleanWritten(bk, pt, lg)

\* Where a fingerprint of a key can be cached.
LEMMA CachedAt ==
    ASSUME NEW bk, NEW lg, Cached(0, bk, lg), NEW b \in Buckets, NEW i \in Ways,
           NEW k \in Keys, bk[b][i].fingerprint = hash_low[k]
    PROVE  /\ b = bucket_idx(k) /\ bk[b][i].pba # PBA_INVALID
           /\ IsPair(lg, bk[b][i].pba, k)
           /\ \A j \in Ways : bk[b][j].fingerprint = hash_low[k] => j = i
  <1>0. BucketGood(bk[b]) /\ hash_low[k] # 0
    BY KeyPlace DEF Cached
  <1>1. \A j \in Ways : bk[b][j].fingerprint = hash_low[k] => j \in Occupied(bk[b])
    BY <1>0 DEF BucketGood, UnusedClear, Occupied
  <1>2. i \in Occupied(bk[b])
    BY <1>1
  <1>3. PICK l \in Keys : /\ IsPair(lg, bk[b][i].pba, l) /\ bucket_idx(l) = b
                          /\ hash_low[l] = bk[b][i].fingerprint
    BY <1>2 DEF Cached, Leads
  <1>4. l = k
    BY <1>3, SameKey
  <1> QED
    BY <1>0, <1>1, <1>2, <1>3, <1>4 DEF BucketGood, Distinct, Occupied

\* The key of a used entry.
LEMMA KeyAt ==
    ASSUME NEW bk, NEW lg, Cached(0, bk, lg), NEW b \in Buckets, NEW i \in Ways,
           bk[b][i].pba # PBA_INVALID
    PROVE  \E k \in Keys : /\ bk[b][i].fingerprint = hash_low[k] /\ bucket_idx(k) = b
                           /\ part_idx(k) = b \div BUCKETS_IN_PART
  <1>1. i \in Occupied(bk[b])
    BY DEF Occupied
  <1> QED
    BY <1>1 DEF Cached, part_idx

\* The table of a partition stays where it is when the log grows.
LEMMA TableHasKept ==
    ASSUME NEW pt, NEW lg, NEW l2, Partitions(pt, lg), Grows(l2, lg), NEW p \in Parts, NEW fp
    PROVE  TableHas(pt, l2, p, fp) = TableHas(pt, lg, p, fp)
  <1>1. CASE pt[p].pba = PBA_INVALID
    BY <1>1 DEF TableHas
  <1>2. CASE pt[p].pba # PBA_INVALID
    <2>1. IsTable(lg, pt[p].pba)
      BY <1>2 DEF Partitions
    <2>2. l2[pt[p].pba] = lg[pt[p].pba]
      BY <2>1 DEF IsTable, Grows
    <2> QED
      BY <1>2, <2>2 DEF TableHas
  <1> QED
    BY <1>1, <1>2

\* A bucket belongs to a partition.
LEMMA BucketPart ==
    ASSUME NEW b \in Buckets
    PROVE  b \div BUCKETS_IN_PART \in Parts
  <1>1. /\ NR_BUCKET \in Nat \ {0} /\ BUCKETS_IN_PART \in Nat \ {0}
        /\ NR_BUCKET % BUCKETS_IN_PART = 0
    BY BigKVTableAssumption
  <1>2. PICK m \in Nat : m = NR_BUCKET \div BUCKETS_IN_PART
    BY <1>1
  <1>3. NR_BUCKET = m * BUCKETS_IN_PART /\ m # 0
    BY <1>1, <1>2, Z3
  <1>4. b \in Nat /\ b < NR_BUCKET
    BY <1>1 DEF Buckets
  <1>5. b \div BUCKETS_IN_PART \in 0..(m - 1)
    BY <1>1, <1>3, <1>4, Positions
  <1> QED
    BY <1>2, <1>5 DEF Parts

\* A hit changes nothing that is found.
LEMMA SoundTouch ==
    ASSUME NEW bk, NEW pt, NEW lg, Sound(bk, pt, lg), NEW b2, SameEntries(b2, bk)
    PROVE  Sound(b2, pt, lg)
  <1>0. \A k \in Keys : bucket_idx(k) \in Buckets
    BY KeyPlace
  <1>1. HitsNewest(b2, lg)
    BY <1>0 DEF Sound, HitsNewest, SameEntries
  <1>2. MissesNewest(b2, pt, lg)
    BY <1>0 DEF Sound, MissesNewest, SameEntries
  <1>3. CleanWritten(b2, pt, lg)
    <2> SUFFICES ASSUME NEW b \in Buckets, NEW i \in Ways,
                        b2[b][i].pba # PBA_INVALID, ~b2[b][i].dirty_bit
                 PROVE  TableHas(pt, lg, b \div BUCKETS_IN_PART, b2[b][i].fingerprint)
                            = b2[b][i].pba
      BY DEF CleanWritten
    <2>1. /\ b2[b][i].pba = bk[b][i].pba /\ b2[b][i].fingerprint = bk[b][i].fingerprint
          /\ ~bk[b][i].dirty_bit
      BY DEF SameEntries
    <2> QED
      BY <2>1 DEF Sound, CleanWritten
  <1> QED
    BY <1>1, <1>2, <1>3 DEF Sound

\* An entry that a fill replaces, unless it is the key's own, is clean: the
\* table has what it had.
LEMMA SoundEvict ==
    ASSUME NEW bk, NEW pt, NEW lg, Sound(bk, pt, lg), Cached(0, bk, lg), NEW b2,
           NEW k \in Keys, NEW dirty, NEW pba, FilledIn(b2, bk, k, dirty, pba),
           NEW l \in Keys, l # k,
           \A j \in Ways : b2[bucket_idx(l)][j].fingerprint # hash_low[l]
    PROVE  IsNewest(lg, l, TableHas(pt, lg, part_idx(l), hash_low[l]))
  <1>0. PICK b : b = bucket_idx(l)
    OBVIOUS
  <1>1. b \in Buckets /\ part_idx(l) = b \div BUCKETS_IN_PART
    BY <1>0, KeyPlace DEF part_idx
  <1>2. CASE \A j \in Ways : bk[b][j].fingerprint # hash_low[l]
    BY <1>0, <1>2 DEF Sound, MissesNewest
  <1>3. CASE \E j \in Ways : bk[b][j].fingerprint = hash_low[l]
    <2>1. PICK j \in Ways : bk[b][j].fingerprint = hash_low[l]
      BY <1>3
    <2>2. bk[b][j].pba # PBA_INVALID
      BY <1>1, <2>1, CachedAt
    <2>3. b = bucket_idx(k)
      BY <1>0, <1>1, <2>1 DEF FilledIn
    <2>4. PICK i : Filled(b2[b], bk[b], i, hash_low[k], dirty, pba)
      BY <2>3 DEF FilledIn
    <2>5. j = i
      BY <1>0, <2>1, <2>4 DEF Filled
    <2>6. hash_low[l] # hash_low[k]
      BY SameKey
    <2>7. ~bk[b][j].dirty_bit
      BY <2>1, <2>2, <2>4, <2>5, <2>6 DEF Filled
    <2>8. TableHas(pt, lg, part_idx(l), hash_low[l]) = bk[b][j].pba
      BY <1>1, <2>1, <2>2, <2>7 DEF Sound, CleanWritten
    <2>9. IsNewest(lg, l, bk[b][j].pba)
      BY <1>0, <2>1 DEF Sound, HitsNewest
    <2> QED
      BY <2>8, <2>9
  <1> QED
    BY <1>2, <1>3

\* The entries that a fill leaves.
LEMMA FilledEntry ==
    ASSUME NEW bk, NEW b2, NEW k, NEW dirty, NEW pba, FilledIn(b2, bk, k, dirty, pba),
           NEW b \in Buckets, NEW j \in Ways
    PROVE  \/ /\ b = bucket_idx(k) /\ b2[b][j].fingerprint = hash_low[k]
              /\ b2[b][j].pba = pba /\ b2[b][j].dirty_bit = dirty
           \/ /\ b2[b][j].fingerprint = bk[b][j].fingerprint
              /\ b2[b][j].pba = bk[b][j].pba
              /\ b2[b][j].dirty_bit = bk[b][j].dirty_bit
              /\ b = bucket_idx(k) => bk[b][j].fingerprint # hash_low[k]
  <1>1. CASE b # bucket_idx(k)
    BY <1>1 DEF FilledIn
  <1>2. CASE b = bucket_idx(k)
    <2>1. PICK i : Filled(b2[b], bk[b], i, hash_low[k], dirty, pba)
      BY <1>2 DEF FilledIn
    <2>2. CASE j = i
      BY <1>2, <2>1, <2>2 DEF Filled
    <2>3. CASE j # i
      BY <2>1, <2>3 DEF Filled
    <2> QED
      BY <2>2, <2>3
  <1> QED
    BY <1>1, <1>2

\* The key has an entry after a fill.
LEMMA FilledHas ==
    ASSUME NEW bk, NEW b2, NEW k, NEW dirty, NEW pba, FilledIn(b2, bk, k, dirty, pba)
    PROVE  \E i \in Ways : b2[bucket_idx(k)][i].fingerprint = hash_low[k]
  BY DEF FilledIn, Filled

\* A GET caches what the table has.
LEMMA SoundLoad ==
    ASSUME NEW bk, NEW pt, NEW lg, Sound(bk, pt, lg), Cached(0, bk, lg), NEW b2,
           NEW k \in Keys, NEW pba, FilledIn(b2, bk, k, FALSE, pba),
           IsNewest(lg, k, pba), TableHas(pt, lg, part_idx(k), hash_low[k]) = pba
    PROVE  Sound(b2, pt, lg)
  <1>0. PICK dirty : ~dirty /\ FilledIn(b2, bk, k, dirty, pba)
    OBVIOUS
  <1>1. ASSUME NEW l \in Keys, NEW i \in Ways,
               b2[bucket_idx(l)][i].fingerprint = hash_low[l]
        PROVE  IsNewest(lg, l, b2[bucket_idx(l)][i].pba)
    <2>0. PICK b \in Buckets : b = bucket_idx(l)
      BY KeyPlace
    <2>1. CASE b2[b][i].fingerprint = hash_low[k] /\ b2[b][i].pba = pba
      <3>1. l = k
        BY <1>1, <2>0, <2>1, SameKey
      <3> QED
        BY <2>0, <2>1, <3>1
    <2>2. CASE /\ b2[b][i].fingerprint = bk[b][i].fingerprint
               /\ b2[b][i].pba = bk[b][i].pba
      BY <1>1, <2>0, <2>2 DEF Sound, HitsNewest
    <2> QED
      BY <1>0, <2>1, <2>2, FilledEntry
  <1>2. ASSUME NEW l \in Keys,
               \A j \in Ways : b2[bucket_idx(l)][j].fingerprint # hash_low[l]
        PROVE  IsNewest(lg, l, TableHas(pt, lg, part_idx(l), hash_low[l]))
    <2>1. l # k
      BY <1>0, <1>2, FilledHas
    <2> QED
      BY <1>0, <1>2, <2>1, SoundEvict
  <1>3. ASSUME NEW b \in Buckets, NEW i \in Ways,
               b2[b][i].pba # PBA_INVALID, ~b2[b][i].dirty_bit
        PROVE  TableHas(pt, lg, b \div BUCKETS_IN_PART, b2[b][i].fingerprint)
                   = b2[b][i].pba
    <2>1. CASE /\ b = bucket_idx(k) /\ b2[b][i].fingerprint = hash_low[k]
               /\ b2[b][i].pba = pba
      BY <2>1 DEF part_idx
    <2>2. CASE /\ b2[b][i].fingerprint = bk[b][i].fingerprint
               /\ b2[b][i].pba = bk[b][i].pba
               /\ b2[b][i].dirty_bit = bk[b][i].dirty_bit
      BY <1>3, <2>2 DEF Sound, CleanWritten
    <2> QED
      BY <1>0, <2>1, <2>2, FilledEntry
  <1> QED
    BY <1>1, <1>2, <1>3 DEF Sound, HitsNewest, MissesNewest, CleanWritten

\* A SET adds a pair and points its entry there.
LEMMA SoundFill ==
    ASSUME NEW bk, NEW pt, NEW lg \in Seq(Records), Sound(bk, pt, lg), Cached(0, bk, lg),
           Partitions(pt, lg), NEW k \in Keys, NEW b2, NEW n, n = Len(lg) + 1,
           NEW dirty, FilledIn(b2, bk, k, dirty, n),
           \A i \in Ways : b2[bucket_idx(k)][i].fingerprint = hash_low[k] =>
                               b2[bucket_idx(k)][i].dirty_bit
    PROVE  Sound(b2, pt, Append(lg, Pair(k)))
  <1> DEFINE l2 == Append(lg, Pair(k))

  <1>1. Pair(k) \in Records
    BY RecordKinds
  <1>2. Grows(l2, lg)
    BY <1>1, AppendGrows
  <1>3. IsNewest(l2, k, n)
    BY NewestAdded
  <1>4. ASSUME NEW l \in Keys, l # k, NEW m, IsNewest(lg, l, m) PROVE IsNewest(l2, l, m)
    <2>1. Pair(k) # Pair(l)
      BY <1>4, RecordKinds
    <2> QED
      BY <1>1, <1>4, <2>1, NewestKept
  <1> HIDE DEF l2
  <1>5. ASSUME NEW l \in Keys, NEW i \in Ways,
               b2[bucket_idx(l)][i].fingerprint = hash_low[l]
        PROVE  IsNewest(l2, l, b2[bucket_idx(l)][i].pba)
    <2>0. PICK b \in Buckets : b = bucket_idx(l)
      BY KeyPlace
    <2>1. CASE b2[b][i].fingerprint = hash_low[k] /\ b2[b][i].pba = n
      <3>1. l = k
        BY <1>5, <2>0, <2>1, SameKey
      <3> QED
        BY <1>3, <2>0, <2>1, <3>1
    <2>2. CASE /\ b2[b][i].fingerprint = bk[b][i].fingerprint
               /\ b2[b][i].pba = bk[b][i].pba
               /\ b = bucket_idx(k) => bk[b][i].fingerprint # hash_low[k]
      <3>1. l # k
        BY <1>5, <2>0, <2>2
      <3>2. IsNewest(lg, l, bk[b][i].pba)
        BY <1>5, <2>0, <2>2 DEF Sound, HitsNewest
      <3> QED
        BY <1>4, <2>0, <2>2, <3>1, <3>2
    <2> QED
      BY <2>1, <2>2, FilledEntry
  <1>6. ASSUME NEW l \in Keys,
               \A j \in Ways : b2[bucket_idx(l)][j].fingerprint # hash_low[l]
        PROVE  IsNewest(l2, l, TableHas(pt, l2, part_idx(l), hash_low[l]))
    <2>1. l # k
      BY <1>6, FilledHas
    <2>2. IsNewest(lg, l, TableHas(pt, lg, part_idx(l), hash_low[l]))
      BY <1>6, <2>1, SoundEvict
    <2>3. TableHas(pt, l2, part_idx(l), hash_low[l]) = TableHas(pt, lg, part_idx(l), hash_low[l])
      BY <1>2, KeyPlace, TableHasKept
    <2> QED
      BY <1>4, <2>1, <2>2, <2>3
  <1>7. ASSUME NEW b \in Buckets, NEW i \in Ways,
               b2[b][i].pba # PBA_INVALID, ~b2[b][i].dirty_bit
        PROVE  TableHas(pt, l2, b \div BUCKETS_IN_PART, b2[b][i].fingerprint)
                   = b2[b][i].pba
    <2>1. /\ b2[b][i].fingerprint = bk[b][i].fingerprint
          /\ b2[b][i].pba = bk[b][i].pba
          /\ b2[b][i].dirty_bit = bk[b][i].dirty_bit
      BY <1>7, FilledEntry
    <2>2. TableHas(pt, lg, b \div BUCKETS_IN_PART, bk[b][i].fingerprint) = bk[b][i].pba
      BY <1>7, <2>1 DEF Sound, CleanWritten
    <2> QED
      BY <1>2, <2>1, <2>2, BucketPart, TableHasKept
  <1>8. Sound(b2, pt, l2)
    BY <1>5, <1>6, <1>7 DEF Sound, HitsNewest, MissesNewest, CleanWritten
  <1> QED
    BY <1>8 DEF l2

\* The table of partition p is rewritten with its dirty entries.
LEMMA SoundWrite ==
    ASSUME NEW bk, NEW pt, NEW lg \in Seq(Records), Sound(bk, pt, lg), Cached(0, bk, lg),
           Partitions(pt, lg), Tables(0, lg), NEW p \in Parts, NEW t,
           t = IF pt[p].pba = PBA_INVALID THEN EmptyTable ELSE lg[pt[p].pba].entry,
           NEW t2, t2 = update_part_table(t, bk, p), t2 # NoTable,
           NEW l2, l2 = Append(lg, TableOf(t2)),
           NEW pt2, pt2[p].pba = Len(lg) + 1, \A q \in Parts \ {p} : pt2[q] = pt[q]
    PROVE  Sound(Cleaned(bk, p), pt2, l2)
  <1> DEFINE b2 == Cleaned(bk, p)
  <1>0. \A b \in Buckets : BucketGood(bk[b])
    BY DEF Cached
  <1>1. TableGood(t)
    BY EmptyTableGood DEF Partitions, IsTable, Tables, TableFit
  <1>2. /\ TableGood(t2)
        /\ \A fp \in Nat \ {0} :
              \/ \E b \in PartBuckets(p), i \in Ways :
                    /\ bk[b][i].dirty_bit
                    /\ bk[b][i].fingerprint = fp
                    /\ get_match_entry_f(t2, fp) = bk[b][i].pba
              \/ /\ \A b \in PartBuckets(p), i \in Ways :
                       bk[b][i].dirty_bit => bk[b][i].fingerprint # fp
                 /\ get_match_entry_f(t2, fp) = get_match_entry_f(t, fp)
    BY <1>0, <1>1, UpdatePartTable
  <1>3. TableOf(t2) \in Records /\ TableOf(t2).kind = "table" /\ TableOf(t2).entry = t2
    BY <1>2, RecordKinds DEF TableGood
  <1>4. /\ Grows(l2, lg) /\ l2[Len(lg) + 1] = TableOf(t2) /\ Len(lg) + 1 # PBA_INVALID
    BY <1>3, AppendGrows
  <1>5. ASSUME NEW l \in Keys, NEW n, IsNewest(lg, l, n) PROVE IsNewest(l2, l, n)
    <2>1. TableOf(t2) # Pair(l)
      BY <1>3, RecordKinds
    <2> QED
      BY <1>3, <1>5, <2>1, NewestKept
  <1>6. ASSUME NEW fp \in Nat, fp # 0
        PROVE  TableHas(pt, lg, p, fp) = get_match_entry_f(t, fp)
    <2>1. CASE pt[p].pba = PBA_INVALID
      <3>1. t = EmptyTable
        BY <2>1
      <3>2. \A c \in Cells : t[c].fingerprint # fp
        BY <1>6, <3>1, EmptyTableGood
      <3>3. get_match_entry_f(t, fp) = PBA_INVALID
        BY <1>6, <3>2, TableMisses
      <3> QED
        BY <2>1, <3>3 DEF TableHas
    <2>2. CASE pt[p].pba # PBA_INVALID
      BY <2>2 DEF TableHas
    <2> QED
      BY <2>1, <2>2
  <1>7. \A fp : TableHas(pt2, l2, p, fp) = get_match_entry_f(t2, fp)
    <2>1. pt2[p].pba # PBA_INVALID /\ l2[pt2[p].pba].entry = t2
      BY <1>3, <1>4
    <2> QED
      BY <2>1 DEF TableHas
  <1>8. ASSUME NEW q \in Parts \ {p}, NEW fp
        PROVE  TableHas(pt2, l2, q, fp) = TableHas(pt, lg, q, fp)
    <2>1. TableHas(pt2, l2, q, fp) = TableHas(pt, l2, q, fp)
      BY DEF TableHas
    <2> QED
      BY <1>4, <2>1, TableHasKept
  <1>9. ASSUME NEW b \in Buckets, NEW i \in Ways
        PROVE  /\ b2[b][i].fingerprint = bk[b][i].fingerprint
               /\ b2[b][i].pba = bk[b][i].pba
               /\ b \notin PartBuckets(p) => b2[b] = bk[b]
    BY <1>0, CleanedGood
  <1> HIDE DEF b2
  <1>10. ASSUME NEW l \in Keys, NEW i \in Ways,
                b2[bucket_idx(l)][i].fingerprint = hash_low[l]
         PROVE  IsNewest(l2, l, b2[bucket_idx(l)][i].pba)
    <2>1. PICK b \in Buckets : b = bucket_idx(l)
      BY KeyPlace
    <2>2. IsNewest(lg, l, bk[b][i].pba)
      BY <1>9, <1>10, <2>1 DEF Sound, HitsNewest
    <2> QED
      BY <1>5, <1>9, <2>1, <2>2
  <1>11. ASSUME NEW l \in Keys,
                \A j \in Ways : b2[bucket_idx(l)][j].fingerprint # hash_low[l]
         PROVE  IsNewest(l2, l, TableHas(pt2, l2, part_idx(l), hash_low[l]))
    <2>1. PICK b \in Buckets : b = bucket_idx(l)
      BY KeyPlace
    <2>2. \A j \in Ways : bk[b][j].fingerprint # hash_low[l]
      BY <1>9, <1>11, <2>1
    <2>3. IsNewest(lg, l, TableHas(pt, lg, part_idx(l), hash_low[l]))
      BY <2>1, <2>2 DEF Sound, MissesNewest
    <2>4. PICK fp \in Nat : fp = hash_low[l] /\ fp # 0
      BY KeyPlace
    <2>5. TableHas(pt2, l2, part_idx(l), fp) = TableHas(pt, lg, part_idx(l), fp)
      <3>1. CASE part_idx(l) # p
        BY <1>8, <3>1, KeyPlace
      <3>2. CASE part_idx(l) = p
        <4>1. ASSUME NEW a \in PartBuckets(p), NEW i \in Ways, bk[a][i].fingerprint = fp
              PROVE  FALSE
          <5>1. a \in Buckets
            BY DEF PartBuckets
          <5>2. a = b
            BY <2>1, <2>4, <4>1, <5>1, CachedAt
          <5> QED
            BY <2>2, <2>4, <4>1, <5>2
        <4>2. get_match_entry_f(t2, fp) = get_match_entry_f(t, fp)
          BY <1>2, <2>4, <4>1
        <4> QED
          BY <1>6, <1>7, <2>4, <3>2, <4>2
      <3> QED
        BY <3>1, <3>2
    <2> QED
      BY <1>5, <2>3, <2>4, <2>5
  <1>12. ASSUME NEW b \in Buckets, NEW i \in Ways,
                b2[b][i].pba # PBA_INVALID, ~b2[b][i].dirty_bit
         PROVE  TableHas(pt2, l2, b \div BUCKETS_IN_PART, b2[b][i].fingerprint)
                    = b2[b][i].pba
    <2>0. PICK fp, a : fp = bk[b][i].fingerprint /\ a = bk[b][i].pba
      OBVIOUS
    <2>1. b2[b][i].fingerprint = fp /\ b2[b][i].pba = a /\ a # PBA_INVALID
      BY <1>9, <1>12, <2>0
    <2>2. PICK k \in Keys : fp = hash_low[k] /\ bucket_idx(k) = b
      BY <2>0, <2>1, KeyAt
    <2>3. fp \in Nat /\ fp # 0
      BY <2>2, KeyPlace
    <2>4. CASE b \notin PartBuckets(p)
      <3>1. ~bk[b][i].dirty_bit
        BY <1>9, <1>12, <2>4
      <3>2. TableHas(pt, lg, b \div BUCKETS_IN_PART, fp) = a
        BY <2>0, <2>1, <3>1 DEF Sound, CleanWritten
      <3>3. b \div BUCKETS_IN_PART \in Parts \ {p}
        BY <2>4, BucketPart DEF PartBuckets
      <3> QED
        BY <1>8, <2>1, <3>2, <3>3
    <2>5. CASE b \in PartBuckets(p)
      <3>1. b \div BUCKETS_IN_PART = p
        BY <2>5 DEF PartBuckets
      <3>2. ASSUME NEW d \in PartBuckets(p), NEW j \in Ways, bk[d][j].fingerprint = fp
            PROVE  bk[d][j].pba = a
        <4>1. d \in Buckets
          BY DEF PartBuckets
        <4>2. d = b
          BY <2>2, <3>2, <4>1, CachedAt
        <4>3. \A h \in Ways : bk[b][h].fingerprint = hash_low[k] => h = i
          BY <2>0, <2>2, CachedAt
        <4>4. j = i
          BY <2>2, <3>2, <4>2, <4>3
        <4> QED
          BY <2>0, <4>2, <4>4
      <3>3. get_match_entry_f(t2, fp) = a
        <4>1. ASSUME NEW d \in PartBuckets(p), NEW j \in Ways,
                     bk[d][j].fingerprint = fp, get_match_entry_f(t2, fp) = bk[d][j].pba
              PROVE  get_match_entry_f(t2, fp) = a
          BY <3>2, <4>1
        <4>2. ASSUME ~bk[b][i].dirty_bit,
                     get_match_entry_f(t2, fp) = get_match_entry_f(t, fp)
              PROVE  get_match_entry_f(t2, fp) = a
          <5>1. TableHas(pt, lg, p, fp) = a
            BY <2>0, <2>1, <3>1, <4>2 DEF Sound, CleanWritten
          <5> QED
            BY <1>6, <2>3, <4>2, <5>1
        <4> QED
          BY <1>2, <2>0, <2>3, <2>5, <4>1, <4>2
      <3> QED
        BY <1>7, <2>1, <3>1, <3>3
    <2> QED
      BY <2>4, <2>5
  <1>13. Sound(b2, pt2, l2)
    BY <1>10, <1>11, <1>12 DEF Sound, HitsNewest, MissesNewest, CleanWritten
  <1> QED
    BY <1>13 DEF b2

\* A request that has a table, or is reading one.  While no read has overtaken
\* a write, what it has is the table at its address.
Holds(rec) == rec.st \in {"reading table", "retried"} /\ rec.pba # PBA_INVALID

\* The table of a SET is the partition's.  The one of a GET has the newest pair
\* of its key, which no SET can change now; the partition may have got another
\* table since, but then it has no dirty entries and this one is not written.
GetFresh(bk, pt, lg, rec) ==
    /\ IsNewest(lg, rec.key, get_match_entry_f(lg[rec.pba].entry, hash_low[rec.key]))
    /\ \A i \in Ways : bk[bucket_idx(rec.key)][i].fingerprint = hash_low[rec.key] =>
                           ~bk[bucket_idx(rec.key)][i].dirty_bit
    /\ rec.pba = pt[part_idx(rec.key)].pba \/ NoDirty(bk, part_idx(rec.key))

Fresh(bk, pt, lg, rec) ==
    Holds(rec) => IF rec.type = "SET" THEN rec.pba = pt[part_idx(rec.key)].pba
                                      ELSE GetFresh(bk, pt, lg, rec)

SameType ==
    \A r, s \in Reqs : req[r].st # "idle" /\ req[s].st # "idle" => req[r].type = req[s].type

SafeInv ==
    /\ Sound(bucket, part, log)
    /\ SameType
    /\ \A r \in Reqs : Fresh(bucket, part, log, req[r])

\* Requests in flight keep being all SETs or all GETs.
LEMMA TypesKept ==
    ASSUME SameType, NEW r, Others(r), req[r].st # "idle", req'[r].type = req[r].type
    PROVE  SameType'
  BY DEF SameType, Others

\* A step that leaves the index alone and the request without a table.
LEMMA SafeQuiet ==
    ASSUME SafeInv, NEW r, Others(r), UNCHANGED <<bucket, part, log>>, SameType',
           Fresh(bucket, part, log, req'[r])
    PROVE  SafeInv'
  <1>1. \A s \in Reqs : Fresh(bucket, part, log, req'[s])
    BY DEF SafeInv, Others
  <1>2. bucket' = bucket /\ part' = part /\ log' = log
    OBVIOUS
  <1>3. Sound(bucket', part', log') /\ \A s \in Reqs : Fresh(bucket', part', log', req'[s])
    BY <1>1, <1>2 DEF SafeInv
  <1> QED
    BY <1>3 DEF SafeInv

\* The others have the type of the request that runs.
LEMMA OthersType ==
    ASSUME SafeInv, NEW r \in Reqs, req[r].st # "idle", NEW s \in Reqs, Holds(req[s])
    PROVE  req[s].type = req[r].type
  BY DEF SafeInv, SameType, Holds

\* A SET that waits leaves the index alone.
LEMMA SafeWait ==
    ASSUME IndexInv, SafeInv, NEW r, SetWait(r)
    PROVE  SafeInv'
  <1>1. /\ get_next_request(r) /\ req[r].type = "SET" /\ UNCHANGED <<bucket, part, log>>
    BY DEF SetWait
  <1>2. r \in Reqs /\ req[r].st # "idle"
    BY <1>1, Dispatched
  <1>3. /\ IndexInv' /\ Others(r) /\ req'[r].type = "SET"
        /\ req'[r].st = "retried" /\ req'[r].write_step = "INIT"
    BY WaitStep
  <1>4. RequestGood(Doubt', log', req'[r])
    BY <1>2, <1>3 DEF IndexInv, Requests
  <1>5. ~Holds(req'[r])
    BY <1>3, <1>4 DEF RequestGood, HasNothing, Holds
  <1>6. SameType'
    BY <1>1, <1>2, <1>3, TypesKept DEF SafeInv
  <1>7. Fresh(bucket, part, log, req'[r])
    BY <1>5 DEF Fresh
  <1> QED
    BY <1>1, <1>3, <1>6, <1>7, SafeQuiet

\* A SET that fills an entry makes its pair the newest and the entry dirty.
LEMMA SafeFill ==
    ASSUME IndexInv, Doubt = 0, SafeInv, NEW r, SetFill(r)
    PROVE  SafeInv'
  <1>0. PICK k, n : k = req[r].key /\ n = Len(log) + 1
    OBVIOUS
  <1>1. get_next_request(r) /\ req[r].type = "SET" /\ Target(r) # 0
    BY DEF SetFill, SetLooksUp
  <1>2. r \in Reqs /\ req[r].st # "idle" /\ k \in Keys
    BY <1>0, <1>1, Dispatched, SetDispatched
  <1>3. /\ Others(r) /\ req'[r].type = "SET" /\ req'[r].st = "idle"
        /\ log' = Append(log, Pair(k)) /\ part' = part
        /\ bucket' = [bucket EXCEPT ![bucket_idx(k)] =
                         fill(@, Target(r), hash_low[k], TRUE, n)]
    BY <1>0, FillStep
  <1>4. /\ log \in Seq(Records) /\ Cached(0, bucket, log) /\ Partitions(part, log)
    BY DEF IndexInv, TypeOK
  <1>5. Pair(k) \in Records
    BY <1>2, RecordKinds
  <1>6. /\ Grows(log', log) /\ Leads(0, log', n, k)
    BY <1>0, <1>3, <1>4, <1>5, AppendGrows DEF IsPair, Leads
  <1>7. Cached(0, bucket, log')
    BY <1>4, <1>6, CachedKept
  <1>8. Target(r) = get_target_entry(bucket[bucket_idx(k)], hash_low[k])
    BY <1>0 DEF Target
  <1>9. FilledIn(bucket', bucket, k, TRUE, n)
    BY <1>1, <1>2, <1>3, <1>6, <1>7, <1>8, FillIs
  <1>10. \A i \in Ways : bucket'[bucket_idx(k)][i].fingerprint = hash_low[k] =>
                             bucket'[bucket_idx(k)][i].dirty_bit
    BY <1>9 DEF FilledIn, Filled
  <1>11. PICK dirty : FilledIn(bucket', bucket, k, dirty, n)
    BY <1>9
  <1>12. Sound(bucket', part', log')
    BY <1>0, <1>2, <1>3, <1>4, <1>10, <1>11, SoundFill DEF SafeInv
  <1>13. SameType'
    BY <1>1, <1>2, <1>3, TypesKept DEF SafeInv
  <1>14. ASSUME NEW s \in Reqs PROVE Fresh(bucket', part', log', req'[s])
    <2>1. CASE s = r
      BY <1>3, <2>1 DEF Fresh, Holds
    <2>2. CASE s # r
      <3>1. req'[s] = req[s]
        BY <1>3, <2>2 DEF Others
      <3>2. Holds(req[s]) => req[s].type = "SET"
        BY <1>1, <1>2, OthersType
      <3>3. Fresh(bucket, part, log, req[s])
        BY DEF SafeInv
      <3> QED
        BY <1>3, <3>1, <3>2, <3>3 DEF Fresh
    <2> QED
      BY <2>1, <2>2
  <1> QED
    BY <1>12, <1>13, <1>14 DEF SafeInv

\* A SET that reads its partition's table has the current one.
LEMMA SafeRead ==
    ASSUME IndexInv, SafeInv, NEW r, SetReadTable(r)
    PROVE  SafeInv'
  <1>0. PICK p : p = part_idx(req[r].key)
    OBVIOUS
  <1>1. get_next_request(r) /\ req[r].type = "SET"
    BY DEF SetReadTable, SetLooksUp
  <1>2. r \in Reqs /\ req[r].st # "idle" /\ req[r].key \in Keys
    BY <1>1, Dispatched, SetDispatched
  <1>3. /\ IndexInv' /\ Others(r) /\ TableRead(log, req'[r], req[r], part[p].pba)
        /\ bucket' = bucket /\ log' = log
        /\ \A q \in Parts : part'[q].pba = part[q].pba
    BY <1>0, ReadTableStep
  <1>4. p \in Parts /\ \A l \in Keys : part_idx(l) \in Parts
    BY <1>0, <1>2, KeyPlace
  <1>5. SameType'
    BY <1>1, <1>2, <1>3, TypesKept DEF SafeInv, TableRead
  <1>6. ASSUME NEW q \in Parts, NEW fp PROVE TableHas(part', log', q, fp) = TableHas(part, log, q, fp)
    BY <1>3 DEF TableHas
  <1>7. Sound(bucket', part', log')
    <2>1. HitsNewest(bucket', log')
      BY <1>3 DEF SafeInv, Sound
    <2>2. MissesNewest(bucket', part', log')
      <3> SUFFICES ASSUME NEW l \in Keys,
                          \A i \in Ways : bucket[bucket_idx(l)][i].fingerprint # hash_low[l]
                   PROVE  IsNewest(log, l, TableHas(part', log', part_idx(l), hash_low[l]))
        BY <1>3 DEF MissesNewest
      <3>1. IsNewest(log, l, TableHas(part, log, part_idx(l), hash_low[l]))
        BY DEF SafeInv, Sound, MissesNewest
      <3> QED
        BY <1>4, <1>6, <3>1
    <2>3. CleanWritten(bucket', part', log')
      <3> SUFFICES ASSUME NEW b \in Buckets, NEW i \in Ways,
                          bucket[b][i].pba # PBA_INVALID, ~bucket[b][i].dirty_bit
                   PROVE  TableHas(part', log', b \div BUCKETS_IN_PART,
                                   bucket[b][i].fingerprint) = bucket[b][i].pba
        BY <1>3 DEF CleanWritten
      <3>1. TableHas(part, log, b \div BUCKETS_IN_PART, bucket[b][i].fingerprint)
                = bucket[b][i].pba
        BY DEF SafeInv, Sound, CleanWritten
      <3> QED
        BY <1>6, <3>1, BucketPart
    <2> QED
      BY <2>1, <2>2, <2>3 DEF Sound
  <1>8. ASSUME NEW s \in Reqs PROVE Fresh(bucket', part', log', req'[s])
    <2>1. CASE s = r
      BY <1>0, <1>1, <1>3, <1>4, <2>1 DEF Fresh, TableRead
    <2>2. CASE s # r
      <3>1. req'[s] = req[s]
        BY <1>3, <2>2 DEF Others
      <3>2. Holds(req[s]) => req[s].type = "SET"
        BY <1>1, <1>2, OthersType
      <3>3. Fresh(bucket, part, log, req[s])
        BY DEF SafeInv
      <3>4. part_idx(req[s].key) \in Parts
        BY <1>4 DEF IndexInv, TypeOK, ReqRecord
      <3> QED
        BY <1>3, <3>1, <3>2, <3>3, <3>4 DEF Fresh
    <2> QED
      BY <2>1, <2>2
  <1> QED
    BY <1>5, <1>7, <1>8 DEF SafeInv

\* What a request writes back to is the table at its address.
LEMMA BufferIs ==
    ASSUME NEW rec, HasNothing(rec) \/ HasRead(0, log, rec)
    PROVE  (IF rec.buf = NoTable THEN EmptyTable ELSE rec.buf)
               = (IF rec.pba = PBA_INVALID THEN EmptyTable ELSE log[rec.pba].entry)
  <1>1. CASE HasNothing(rec)
    BY <1>1 DEF HasNothing
  <1>2. CASE HasRead(0, log, rec)
    <2>1. rec.buf = log[rec.pba].entry /\ rec.pba # PBA_INVALID
      BY <1>2 DEF HasRead, IsTable, PBA_INVALID
    <2>2. rec.buf # NoTable
      BY <1>2, TableIsTable DEF HasRead
    <2> QED
      BY <2>1, <2>2
  <1> QED
    BY <1>1, <1>2

\* The table that a SET writes continues the partition's.
LEMMA SafeWrite ==
    ASSUME IndexInv, Doubt = 0, MarkInv, SafeInv, NEW r, SetWriteTable(r)
    PROVE  SafeInv'
  <1>0. PICK p : p = part_idx(req[r].key)
    OBVIOUS
  <1>1. get_next_request(r) /\ req[r].type = "SET" /\ SetHasTable(r)
    BY DEF SetWriteTable, SetHasTable
  <1>2. /\ r \in Reqs /\ req[r].st # "idle" /\ req[r].key \in Keys
        /\ req[r].write_step = "WRITE_PTABLE" =>
              req[r].st = "retried" /\ HasRead(0, log, req[r])
        /\ req[r].write_step # "WRITE_PTABLE" => HasNothing(req[r])
    BY <1>1, Dispatched, SetDispatched
  <1>3. p \in Parts /\ \A l \in Keys : part_idx(l) \in Parts
    BY <1>0, <1>2, KeyPlace
  <1>4. /\ IndexInv' /\ Others(r)
        /\ req'[r].type = "SET" /\ req'[r].st = "retried"
        /\ req'[r].write_step = "WRITE_KV" /\ NewTable(r) # NoTable
        /\ log' = Append(log, TableOf(NewTable(r)))
        /\ part'[p].pba = Len(log) + 1
        /\ \A q \in Parts \ {p} : part'[q] = part[q]
        /\ bucket' = Cleaned(bucket, p)
    BY <1>0, WriteTableStep
  <1>5. /\ req[r].pba = part[p].pba
        /\ \A s \in Reqs \ {r} : req[s].type = "SET" /\ Holds(req[s]) =>
                                     part_idx(req[s].key) # p
    <2>1. ASSUME NEW s \in Reqs, req[s].type = "SET", Holds(req[s])
          PROVE  /\ HasTable(s, part_idx(req[s].key))
                 /\ req[s].pba = part[part_idx(req[s].key)].pba
                 /\ req[s].pba # PBA_INVALID
      <3>1. RequestGood(0, log, req[s])
        BY DEF IndexInv, Requests
      <3>2. HasTable(s, part_idx(req[s].key))
        BY <2>1, <3>1 DEF RequestGood, HasNothing, Holds, HasTable
      <3>3. Fresh(bucket, part, log, req[s])
        BY DEF SafeInv
      <3> QED
        BY <2>1, <3>2, <3>3 DEF Fresh, Holds
    <2>2. CASE req[r].write_step = "WRITE_PTABLE"
      <3>1. IsTable(log, req[r].pba) /\ req[r].pba # PBA_INVALID
        BY <1>2, <2>2 DEF HasRead, IsTable, PBA_INVALID
      <3>2. Holds(req[r])
        BY <1>2, <2>2, <3>1 DEF Holds
      <3>3. HasTable(r, p) /\ req[r].pba = part[p].pba
        BY <1>0, <1>1, <1>2, <2>1, <3>2
      <3>4. \A s \in Reqs : HasTable(s, p) => s = r
        BY <1>2, <1>3, <3>3 DEF MarkInv, MarkExact
      <3> QED
        BY <2>1, <3>3, <3>4
    <2>3. CASE req[r].write_step # "WRITE_PTABLE"
      <3>1. part[p].pba = PBA_INVALID /\ req[r].pba = PBA_INVALID
        BY <1>0, <1>1, <1>2, <2>3 DEF SetHasTable, HasNothing
      <3> QED
        BY <2>1, <3>1
    <2> QED
      BY <2>2, <2>3
  <1>6. PICK t, t2 :
          /\ t = IF part[p].pba = PBA_INVALID THEN EmptyTable ELSE log[part[p].pba].entry
          /\ t2 = NewTable(r)
    OBVIOUS
  <1>7. t2 = update_part_table(t, bucket, p)
    <2>1. HasNothing(req[r]) \/ HasRead(0, log, req[r])
      BY <1>2
    <2> QED
      BY <1>0, <1>5, <1>6, <2>1, BufferIs DEF NewTable
  <1>8. /\ log \in Seq(Records) /\ Cached(0, bucket, log) /\ Partitions(part, log)
        /\ Tables(0, log) /\ Sound(bucket, part, log)
    BY DEF IndexInv, TypeOK, SafeInv
  <1>9. Sound(Cleaned(bucket, p), part', log')
    BY <1>3, <1>4, <1>6, <1>7, <1>8, SoundWrite
  <1>10. Sound(bucket', part', log')
    BY <1>4, <1>9
  <1>11. SameType'
    BY <1>1, <1>2, <1>4, TypesKept DEF SafeInv
  <1>12. ASSUME NEW s \in Reqs PROVE Fresh(bucket', part', log', req'[s])
    <2>1. CASE s = r
      <3>1. RequestGood(Doubt', log', req'[r])
        BY <1>2, <1>4 DEF IndexInv, Requests
      <3>2. ~Holds(req'[r])
        BY <1>4, <3>1 DEF RequestGood, HasNothing, Holds
      <3> QED
        BY <2>1, <3>2 DEF Fresh
    <2>2. CASE s # r
      <3>1. req'[s] = req[s]
        BY <1>4, <2>2 DEF Others
      <3>2. Holds(req[s]) => req[s].type = "SET" /\ part_idx(req[s].key) # p
        BY <1>1, <1>2, <1>5, <2>2, OthersType
      <3>3. Fresh(bucket, part, log, req[s])
        BY DEF SafeInv
      <3>4. part_idx(req[s].key) \in Parts
        BY <1>3 DEF IndexInv, TypeOK, ReqRecord
      <3> QED
        BY <1>4, <3>1, <3>2, <3>3, <3>4 DEF Fresh
    <2> QED
      BY <2>1, <2>2
  <1> QED
    BY <1>10, <1>11, <1>12 DEF SafeInv

\* A GET that has a table keeps its claim while other GETs run.
LEMMA GetFreshKept ==
    ASSUME NEW bk, NEW pt, NEW lg, NEW b2, NEW pt2, NEW l2, NEW rec,
           GetFresh(bk, pt, lg, rec), IsTable(lg, rec.pba), rec.key \in Keys,
           Grows(l2, lg),
           \A n : IsNewest(lg, rec.key, n) => IsNewest(l2, rec.key, n),
           NoNewDirty(b2, bk),
           \A i \in Ways : b2[bucket_idx(rec.key)][i].fingerprint = hash_low[rec.key] =>
               \/ ~b2[bucket_idx(rec.key)][i].dirty_bit
               \/ b2[bucket_idx(rec.key)][i].fingerprint = bk[bucket_idx(rec.key)][i].fingerprint,
           \/ pt2[part_idx(rec.key)].pba = pt[part_idx(rec.key)].pba
           \/ NoDirty(b2, part_idx(rec.key))
    PROVE  GetFresh(b2, pt2, l2, rec)
  <1>1. l2[rec.pba] = lg[rec.pba]
    BY KeptByGrowth
  <1>2. IsNewest(l2, rec.key, get_match_entry_f(l2[rec.pba].entry, hash_low[rec.key]))
    BY <1>1 DEF GetFresh
  <1>3. bucket_idx(rec.key) \in Buckets
    BY KeyPlace
  <1>4. \A i \in Ways : b2[bucket_idx(rec.key)][i].fingerprint = hash_low[rec.key] =>
                            ~b2[bucket_idx(rec.key)][i].dirty_bit
    BY <1>3 DEF GetFresh, NoNewDirty
  <1>5. rec.pba = pt2[part_idx(rec.key)].pba \/ NoDirty(b2, part_idx(rec.key))
    BY NoDirtyKept DEF GetFresh
  <1> QED
    BY <1>2, <1>4, <1>5 DEF GetFresh

\* Entries keep their fingerprint, or become clean.
CleanOrSame(b2, bk) ==
    \A b \in Buckets, i \in Ways :
        ~b2[b][i].dirty_bit \/ b2[b][i].fingerprint = bk[b][i].fingerprint

\* Loading changes entries to clean ones only.
LEMMA LoadCleanOrSame ==
    ASSUME NEW bk, NEW b2, NEW k, NEW pba, FilledIn(b2, bk, k, FALSE, pba)
    PROVE  CleanOrSame(b2, bk)
  <1>0. PICK b0 : b0 = bucket_idx(k)
    OBVIOUS
  <1>1. PICK i : Filled(b2[b0], bk[b0], i, hash_low[k], FALSE, pba)
    BY <1>0 DEF FilledIn
  <1>2. ASSUME NEW b \in Buckets, NEW j \in Ways
        PROVE  ~b2[b][j].dirty_bit \/ b2[b][j].fingerprint = bk[b][j].fingerprint
    <2>1. CASE b # b0
      BY <1>0, <2>1 DEF FilledIn
    <2>2. CASE b = b0 /\ j = i
      BY <1>1, <2>2 DEF Filled
    <2>3. CASE b = b0 /\ j # i
      BY <1>1, <2>3 DEF Filled
    <2> QED
      BY <2>1, <2>2, <2>3
  <1> QED
    BY <1>2 DEF CleanOrSame

\* The other requests when a GET runs.
LEMMA OthersFresh ==
    ASSUME IndexInv, Doubt = 0, SafeInv, NEW r, Others(r), req[r].type = "GET", req[r].st # "idle",
           Grows(log', log), NoNewDirty(bucket', bucket), CleanOrSame(bucket', bucket),
           \A k \in Keys : \A n : IsNewest(log, k, n) => IsNewest(log', k, n),
           \A p \in Parts : part'[p].pba = part[p].pba \/ NoDirty(bucket', p),
           NEW s \in Reqs, s # r
    PROVE  Fresh(bucket', part', log', req'[s])
  <1>1. req'[s] = req[s] /\ r \in Reqs
    BY DEF Others
  <1>2. CASE ~Holds(req[s])
    BY <1>1, <1>2 DEF Fresh
  <1>3. CASE Holds(req[s])
    <2>0. PICK rec : rec = req[s]
      OBVIOUS
    <2>1. rec.type = "GET"
      BY <1>1, <1>3, <2>0, OthersType
    <2>2. rec \in ReqRecord /\ RequestGood(0, log, rec)
      BY <2>0 DEF IndexInv, TypeOK, Requests
    <2>3. rec.key \in Keys /\ rec.type # "SET"
      BY <2>1, <2>2 DEF ReqRecord
    <2>4. IsTable(log, rec.pba)
      <3>1. CASE rec.st = "reading table"
        BY <1>3, <2>0, <2>2, <3>1 DEF Holds, RequestGood
      <3>2. CASE rec.st = "retried"
        BY <2>1, <2>2, <3>2 DEF RequestGood, HasRead
      <3> QED
        BY <1>3, <2>0, <3>1, <3>2 DEF Holds
    <2>5. GetFresh(bucket, part, log, rec)
      BY <1>3, <2>0, <2>3 DEF SafeInv, Fresh
    <2>6. bucket_idx(rec.key) \in Buckets /\ part_idx(rec.key) \in Parts
      BY <2>3, KeyPlace
    <2>7. /\ \A i \in Ways : \/ ~bucket'[bucket_idx(rec.key)][i].dirty_bit
                             \/ bucket'[bucket_idx(rec.key)][i].fingerprint
                                   = bucket[bucket_idx(rec.key)][i].fingerprint
          /\ \/ part'[part_idx(rec.key)].pba = part[part_idx(rec.key)].pba
             \/ NoDirty(bucket', part_idx(rec.key))
          /\ \A n : IsNewest(log, rec.key, n) => IsNewest(log', rec.key, n)
      BY <2>3, <2>6 DEF CleanOrSame
    <2>8. GetFresh(bucket', part', log', rec)
      BY <2>3, <2>4, <2>5, <2>7, GetFreshKept
    <2> QED
      BY <1>1, <2>0, <2>3, <2>8 DEF Fresh
  <1> QED
    BY <1>2, <1>3

\* A GET that reads a pair holds no table.
LEMMA PairStIs ==
    ASSUME NEW m, NEW st, PairSt(m, st), m = 0
    PROVE  st \in {"idle", "reading pair", "lost"}
  <1>1. m # 1
    OBVIOUS
  <1> QED
    BY <1>1, Zenon DEF PairSt

\* A hit keeps what is safe,
LEMMA SafeCached ==
    ASSUME IndexInv, Doubt = 0, SafeInv, NEW r, GetCached(r)
    PROVE  SafeInv'
  <1>1. get_next_request(r)
    BY DEF GetCached
  <1>2. r \in Reqs /\ req[r].st # "idle"
    BY <1>1, Dispatched
  <1>3. /\ Others(r) /\ req[r].key \in Keys
        /\ req[r].type = "GET" /\ req'[r].type = "GET"
        /\ PairSt(0, req'[r].st)
        /\ part' = part /\ log' = log
        /\ Match(r) \in Occupied(bucket[bucket_idx(req[r].key)])
        /\ bucket' = [bucket EXCEPT ![bucket_idx(req[r].key)] = touch(@, Match(r))]
    BY CachedStep
  <1>4. Cached(0, bucket, log) /\ bucket_idx(req[r].key) \in Buckets
    BY <1>3, KeyPlace DEF IndexInv
  <1>5. SameEntries(bucket', bucket)
    BY <1>3, <1>4, TouchIs
  <1>6. NoNewDirty(bucket', bucket) /\ CleanOrSame(bucket', bucket)
    BY <1>5, SameNoNew DEF SameEntries, CleanOrSame
  <1>7. Sound(bucket', part', log')
    BY <1>3, <1>5, SoundTouch DEF SafeInv
  <1>8. Grows(log', log)
    BY <1>3, SameGrows DEF IndexInv, TypeOK
  <1>9. ASSUME NEW s \in Reqs PROVE Fresh(bucket', part', log', req'[s])
    <2>1. CASE s = r
      <3>1. req'[r].st \in {"idle", "reading pair", "lost"}
        BY <1>3, PairStIs
      <3> QED
        BY <2>1, <3>1 DEF Fresh, Holds
    <2>2. CASE s # r
      BY <1>2, <1>3, <1>6, <1>8, <2>2, OthersFresh
    <2> QED
      BY <2>1, <2>2
  <1>10. SameType'
    BY <1>2, <1>3, TypesKept DEF SafeInv
  <1> QED
    BY <1>7, <1>9, <1>10 DEF SafeInv

\* The table that a GET starts to read has the newest pair of its key, because
\* the bucket does not have the key.
LEMMA SafeGetRead ==
    ASSUME IndexInv, SafeInv, NEW r, GetReadTable(r)
    PROVE  SafeInv'
  <1>0. PICK k, b, p : k = req[r].key /\ b = bucket_idx(k) /\ p = part_idx(k)
    OBVIOUS
  <1>1. get_next_request(r)
    BY DEF GetReadTable
  <1>2. r \in Reqs /\ req[r].st # "idle"
    BY <1>1, Dispatched
  <1>3. /\ Others(r) /\ k \in Keys /\ req[r].type = "GET"
        /\ TableRead(log, req'[r], req[r], part[p].pba)
        /\ UNCHANGED <<bucket, part, log>> /\ Match(r) = 0
    BY <1>0, GetReadStep
  <1>4. b \in Buckets /\ hash_low[k] # 0
    BY <1>0, <1>3, KeyPlace
  <1>5. \A i \in Ways : bucket[b][i].fingerprint # hash_low[k]
    <2>1. BucketGood(bucket[b])
      BY <1>4 DEF IndexInv, Cached
    <2>2. get_match_entry(bucket[b], hash_low[k]) = 0
      BY <1>0, <1>3 DEF Match
    <2>3. \A i \in Occupied(bucket[b]) : bucket[b][i].fingerprint # hash_low[k]
      BY <2>2, MatchEntry
    <2> QED
      BY <1>4, <2>1, <2>3 DEF BucketGood, UnusedClear, Occupied
  <1>6. IsNewest(log, k, TableHas(part, log, p, hash_low[k]))
    BY <1>0, <1>3, <1>5 DEF SafeInv, Sound, MissesNewest
  <1>7. Fresh(bucket, part, log, req'[r])
    <2>0. PICK rec : rec = req'[r]
      OBVIOUS
    <2>1. rec.type = "GET" /\ rec.key = k /\ rec.pba = part[p].pba
      BY <1>0, <1>3, <2>0 DEF TableRead
    <2>2. ASSUME Holds(rec) PROVE GetFresh(bucket, part, log, rec)
      <3>1. part[p].pba # PBA_INVALID
        BY <2>1, <2>2 DEF Holds
      <3>2. TableHas(part, log, p, hash_low[k])
                = get_match_entry_f(log[rec.pba].entry, hash_low[k])
        BY <2>1, <3>1 DEF TableHas
      <3> QED
        BY <1>0, <1>5, <1>6, <2>1, <3>2 DEF GetFresh
    <2> QED
      BY <2>0, <2>1, <2>2 DEF Fresh
  <1>8. SameType'
    BY <1>2, <1>3, TypesKept DEF SafeInv, TableRead
  <1> QED
    BY <1>3, <1>7, <1>8, SafeQuiet

\* and so does a miss.
LEMMA SafeMiss ==
    ASSUME IndexInv, SafeInv, NEW r, GetMiss(r)
    PROVE  SafeInv'
  <1>1. get_next_request(r)
    BY DEF GetMiss
  <1>2. r \in Reqs /\ req[r].st # "idle"
    BY <1>1, Dispatched
  <1>3. /\ Others(r) /\ req[r].type = "GET" /\ req'[r].type = "GET" /\ req'[r].st = "idle"
        /\ UNCHANGED <<bucket, part, log>>
    BY MissStep
  <1>4. Fresh(bucket, part, log, req'[r])
    BY <1>3 DEF Fresh, Holds
  <1>5. SameType'
    BY <1>2, <1>3, TypesKept DEF SafeInv
  <1> QED
    BY <1>3, <1>4, <1>5, SafeQuiet

\* What a GET that has its table knows.
LEMMA LoaderKnows ==
    ASSUME IndexInv, Doubt = 0, SafeInv, NEW r, get_next_request(r), req[r].type = "GET",
           req[r].read_step = "UPDATE_TABLE", Found(r) # PBA_INVALID
    PROVE  /\ IsNewest(log, req[r].key, Found(r))
           /\ GetFresh(bucket, part, log, req[r])
  <1>1. /\ r \in Reqs /\ req[r].key \in Keys
        /\ req[r].st = "retried" /\ HasRead(0, log, req[r])
    BY FoundIs
  <1>2. Holds(req[r]) /\ req[r].buf = log[req[r].pba].entry
    BY <1>1 DEF HasRead, Holds, IsTable, PBA_INVALID
  <1>3. GetFresh(bucket, part, log, req[r])
    BY <1>1, <1>2 DEF SafeInv, Fresh
  <1> QED
    BY <1>2, <1>3 DEF GetFresh, Found

\* A GET loads the newest pair of its key, which the table it read has.
LEMMA SafeLoad ==
    ASSUME IndexInv, Doubt = 0, SafeInv, NEW r, GetLoad(r)
    PROVE  SafeInv'
  <1>0. PICK k, b, p : k = req[r].key /\ b = bucket_idx(k) /\ p = part_idx(k)
    OBVIOUS
  <1>1. get_next_request(r)
    BY DEF GetLoad
  <1>2. r \in Reqs /\ req[r].st # "idle"
    BY <1>1, Dispatched
  <1>3. /\ Others(r) /\ k \in Keys /\ req[r].type = "GET" /\ req'[r].type = "GET"
        /\ req[r].read_step = "UPDATE_TABLE"
        /\ PairSt(0, req'[r].st) /\ part' = part /\ log' = log
        /\ Found(r) # PBA_INVALID /\ Leads(0, log, Found(r), k) /\ Target(r) # 0
        /\ bucket' = [bucket EXCEPT ![bucket_idx(k)] =
                         fill(@, Target(r), hash_low[k], FALSE, Found(r))]
    BY <1>0, LoadStep
  <1>4. IsNewest(log, k, Found(r)) /\ GetFresh(bucket, part, log, req[r])
    BY <1>0, <1>1, <1>3, LoaderKnows
  <1>5. /\ log \in Seq(Records) /\ Cached(0, bucket, log) /\ Sound(bucket, part, log)
        /\ b \in Buckets /\ p = b \div BUCKETS_IN_PART
    BY <1>0, <1>3, KeyPlace DEF IndexInv, TypeOK, SafeInv, part_idx
  <1>6. IsNewest(log, k, TableHas(part, log, p, hash_low[k]))
    <2>1. CASE \A i \in Ways : bucket[b][i].fingerprint # hash_low[k]
      BY <1>0, <1>3, <1>5, <2>1 DEF Sound, MissesNewest
    <2>2. CASE \E i \in Ways : bucket[b][i].fingerprint = hash_low[k]
      <3>1. PICK i \in Ways : bucket[b][i].fingerprint = hash_low[k]
        BY <2>2
      <3>2. ~bucket[b][i].dirty_bit
        BY <1>0, <1>4, <3>1 DEF GetFresh
      <3>3. bucket[b][i].pba # PBA_INVALID
        BY <1>3, <1>5, <3>1, CachedAt
      <3>4. TableHas(part, log, p, hash_low[k]) = bucket[b][i].pba
        BY <1>5, <3>1, <3>2, <3>3 DEF Sound, CleanWritten
      <3>5. IsNewest(log, k, bucket[b][i].pba)
        BY <1>0, <1>3, <1>5, <3>1 DEF Sound, HitsNewest
      <3> QED
        BY <3>4, <3>5
    <2> QED
      BY <2>1, <2>2
  <1>7. TableHas(part, log, p, hash_low[k]) = Found(r)
    BY <1>4, <1>5, <1>6, NewestUnique
  <1>8. Target(r) = get_target_entry(bucket[bucket_idx(k)], hash_low[k])
    BY <1>0 DEF Target
  <1>9. FilledIn(bucket', bucket, k, FALSE, Found(r))
    BY <1>3, <1>5, <1>8, FillIs
  <1>10. Sound(bucket', part', log')
    BY <1>0, <1>3, <1>4, <1>5, <1>7, <1>9, SoundLoad
  <1>11. NoNewDirty(bucket', bucket) /\ CleanOrSame(bucket', bucket)
    BY <1>9, LoadNoNew, LoadCleanOrSame
  <1>12. Grows(log', log)
    BY <1>3, <1>5, SameGrows
  <1>13. ASSUME NEW s \in Reqs PROVE Fresh(bucket', part', log', req'[s])
    <2>1. CASE s = r
      <3>1. req'[r].st \in {"idle", "reading pair", "lost"}
        BY <1>3, PairStIs
      <3> QED
        BY <2>1, <3>1 DEF Fresh, Holds
    <2>2. CASE s # r
      BY <1>2, <1>3, <1>11, <1>12, <2>2, OthersFresh
    <2> QED
      BY <2>1, <2>2
  <1>14. SameType'
    BY <1>2, <1>3, TypesKept DEF SafeInv
  <1> QED
    BY <1>10, <1>13, <1>14 DEF SafeInv

\* A GET writes back only the partition's own table: there is a dirty entry.
LEMMA SafeLoadWrite ==
    ASSUME IndexInv, Doubt = 0, SafeInv, NEW r, GetLoadWrite(r)
    PROVE  SafeInv'
  <1>0. PICK k, b, p, clean, a :
          /\ k = req[r].key /\ b = bucket_idx(k) /\ p = part_idx(k)
          /\ clean = Cleaned(bucket, p) /\ a = Found(r)
    OBVIOUS
  <1>1. get_next_request(r)
    BY DEF GetLoadWrite
  <1>2. r \in Reqs /\ req[r].st # "idle"
    BY <1>1, Dispatched
  <1>3. /\ Others(r) /\ k \in Keys /\ req[r].type = "GET" /\ req'[r].type = "GET"
        /\ req[r].read_step = "UPDATE_TABLE"
        /\ PairSt(0, req'[r].st) /\ NewTable(r) # NoTable
        /\ log' = Append(log, TableOf(NewTable(r))) /\ Grows(log', log)
        /\ part'[p].pba = Len(log) + 1 /\ \A q \in Parts \ {p} : part'[q] = part[q]
        /\ a # PBA_INVALID /\ Leads(0, log, a, k) /\ Target(r) = 0
        /\ TableFit(0, log, NewTable(r)) /\ HasRead(0, log, req[r])
        /\ get_target_entry(clean[b], hash_low[k]) # 0
    BY <1>0, LoadWriteStep
  <1>4. bucket' = [clean EXCEPT ![bucket_idx(k)] =
                      fill(@, get_target_entry(@, hash_low[k]), hash_low[k], FALSE, a)]
    BY <1>0, LoadWriteStep
  <1>5. IsNewest(log, k, a) /\ GetFresh(bucket, part, log, req[r])
    BY <1>0, <1>1, <1>3, LoaderKnows
  <1>6. /\ log \in Seq(Records) /\ Cached(0, bucket, log) /\ Sound(bucket, part, log)
        /\ Partitions(part, log) /\ Tables(0, log)
    BY DEF IndexInv, TypeOK, SafeInv
  <1>7. /\ b \in Buckets /\ b \in PartBuckets(p) /\ p \in Parts
        /\ hash_low[k] \in Nat /\ hash_low[k] # 0
    BY <1>0, <1>3, KeyPlace
  <1>8. BucketGood(bucket[b])
    BY <1>6, <1>7 DEF Cached
  <1>9. /\ \A j \in Ways : bucket[b][j].fingerprint # hash_low[k]
        /\ \E j \in Ways : bucket[b][j].dirty_bit
    <2>1. get_target_entry(bucket[b], hash_low[k]) = 0
      BY <1>0, <1>3 DEF Target
    <2> QED
      BY <1>7, <1>8, <2>1, TargetEntry
  <1>10. req[r].pba = part[p].pba
    BY <1>0, <1>5, <1>7, <1>9 DEF GetFresh, NoDirty
  <1>11. PICK t, t2 :
           /\ t = IF part[p].pba = PBA_INVALID THEN EmptyTable ELSE log[part[p].pba].entry
           /\ t2 = NewTable(r)
    OBVIOUS
  <1>12. t2 = update_part_table(t, bucket, p)
    BY <1>0, <1>3, <1>10, <1>11, BufferIs DEF NewTable
  <1>13. Sound(clean, part', log')
    <2>1. NewTable(r) # NoTable /\ log' = Append(log, TableOf(t2)) /\ t2 # NoTable
      BY <1>3, <1>11
    <2>2. part'[p].pba = Len(log) + 1 /\ \A q \in Parts \ {p} : part'[q] = part[q]
      BY <1>3
    <2>3. Sound(Cleaned(bucket, p), part', log')
      BY <1>6, <1>7, <1>11, <1>12, <2>1, <2>2, SoundWrite
    <2> QED
      BY <1>0, <2>3
  <1>14. /\ Cached(0, clean, log') /\ NoNewDirty(clean, bucket)
    BY <1>0, <1>3, <1>6, CachedCleaned, CachedKept, CleanedNoNew
  <1>15. /\ \A q \in Buckets, j \in Ways : clean[q][j].fingerprint = bucket[q][j].fingerprint
         /\ NoDirty(clean, p)
    <2>1. ASSUME NEW q \in Buckets, NEW j \in Ways
          PROVE  /\ clean[q][j].fingerprint = bucket[q][j].fingerprint
                 /\ q \in PartBuckets(p) => ~clean[q][j].dirty_bit
      <3>1. BucketGood(bucket[q])
        BY <1>6 DEF Cached
      <3> QED
        BY <1>0, <3>1, CleanedGood
    <2> QED
      BY <2>1 DEF NoDirty, PartBuckets
  <1>16. \A l \in Keys : \A n : IsNewest(log, l, n) => IsNewest(log', l, n)
    <2>1. /\ TableOf(NewTable(r)) \in Records
          /\ \A l \in Keys : TableOf(NewTable(r)) # Pair(l)
      <3>1. NewTable(r) \in [Cells -> TableEntry]
        BY <1>3 DEF TableFit
      <3> QED
        BY <3>1, RecordKinds
    <2> QED
      BY <1>3, <1>6, <2>1, NewestKept
  <1>17. IsNewest(log', k, TableHas(part', log', p, hash_low[k]))
    <2>1. \A j \in Ways : clean[bucket_idx(k)][j].fingerprint # hash_low[k]
      BY <1>0, <1>7, <1>9, <1>15
    <2>2. MissesNewest(clean, part', log')
      BY <1>13 DEF Sound
    <2> QED
      BY <1>0, <1>3, <2>1, <2>2 DEF MissesNewest
  <1>18. log' \in Seq(Records)
    BY <1>3 DEF Grows
  <1>19. TableHas(part', log', p, hash_low[k]) = a /\ IsNewest(log', k, a)
    BY <1>3, <1>5, <1>16, <1>17, <1>18, NewestUnique
  <1>20. PICK i : i = get_target_entry(clean[bucket_idx(k)], hash_low[k]) /\ i # 0
    BY <1>0, <1>3
  <1>21. bucket' = [clean EXCEPT ![bucket_idx(k)] = fill(@, i, hash_low[k], FALSE, a)]
    BY <1>4, <1>20
  <1>22. Leads(0, log', a, k)
    BY <1>3, KeptByGrowth DEF Leads
  <1>23. FilledIn(bucket', clean, k, FALSE, a)
    BY <1>3, <1>14, <1>20, <1>21, <1>22, FillIs
  <1>24. Sound(bucket', part', log')
    BY <1>0, <1>3, <1>13, <1>14, <1>19, <1>23, SoundLoad
  <1>25. NoNewDirty(bucket', clean) /\ CleanOrSame(bucket', clean)
    BY <1>23, LoadNoNew, LoadCleanOrSame
  <1>26. NoNewDirty(bucket', bucket) /\ CleanOrSame(bucket', bucket)
    BY <1>14, <1>15, <1>25 DEF NoNewDirty, CleanOrSame
  <1>27. \A q \in Parts : part'[q].pba = part[q].pba \/ NoDirty(bucket', q)
    BY <1>3, <1>15, <1>25, NoDirtyKept
  <1>28. ASSUME NEW s \in Reqs PROVE Fresh(bucket', part', log', req'[s])
    <2>1. CASE s = r
      <3>1. req'[r].st \in {"idle", "reading pair", "lost"}
        BY <1>3, PairStIs
      <3> QED
        BY <2>1, <3>1 DEF Fresh, Holds
    <2>2. CASE s # r
      BY <1>2, <1>3, <1>16, <1>26, <1>27, <2>2, OthersFresh
    <2> QED
      BY <2>1, <2>2
  <1>29. SameType'
    BY <1>2, <1>3, TypesKept DEF SafeInv
  <1> QED
    BY <1>24, <1>28, <1>29 DEF SafeInv

\* Nothing is stored and no table held at first.
LEMMA SafeInit == Init => SafeInv
  <1> SUFFICES ASSUME Init PROVE SafeInv
    OBVIOUS
  <1>1. /\ bucket = [b \in Buckets |-> EmptyBucket] /\ log = << >>
        /\ part = [p \in Parts |-> [flying |-> FALSE, pba |-> PBA_INVALID]]
        /\ \A r \in Reqs : req[r].st = "idle"
    BY DEF Init
  <1>2. \A b \in Buckets, i \in Ways : /\ bucket[b][i].fingerprint = 0
                                       /\ bucket[b][i].pba = PBA_INVALID
    BY <1>1 DEF EmptyBucket
  <1>3. \A k \in Keys : /\ bucket_idx(k) \in Buckets /\ part_idx(k) \in Parts
                        /\ hash_low[k] # 0
    BY KeyPlace
  <1>4. HitsNewest(bucket, log)
    BY <1>2, <1>3 DEF HitsNewest
  <1>5. \A p \in Parts : \A fp : TableHas(part, log, p, fp) = PBA_INVALID
    BY <1>1 DEF TableHas
  <1>6. \A n, k : ~IsPair(log, n, k)
    BY <1>1 DEF IsPair
  <1>7. MissesNewest(bucket, part, log)
    BY <1>3, <1>5, <1>6 DEF MissesNewest, IsNewest
  <1>8. CleanWritten(bucket, part, log)
    BY <1>2 DEF CleanWritten
  <1> QED
    BY <1>1, <1>4, <1>7, <1>8 DEF SafeInv, Sound, SameType, Fresh, Holds

\* A read that has overtaken a write is not forgotten.
LEMMA MisreadStays ==
    ASSUME IndexInv, [Next]_vars, ~misread'
    PROVE  ~misread
  <1>1. CASE UNCHANGED misread
    BY <1>1
  <1>2. CASE misread' = TRUE
    BY <1>2
  <1>3. UNCHANGED misread \/ misread' = TRUE
    <2>1. ASSUME NEW r \in Reqs, NEW type \in {"GET", "SET"}, NEW k \in Keys,
                 Submit(r, type, k)
          PROVE  UNCHANGED misread
      BY <2>1 DEF Submit
    <2>2. ASSUME NEW r \in Reqs, Handler(r) PROVE UNCHANGED misread
      BY <2>2 DEF Handler, bigkv_index_set, bigkv_index_get, InsertError, SetWait, SetFill,
                  SetReadTable, SetWriteTable, GetCached, GetReadTable, GetMiss, GetLoad,
                  GetLoadWrite
    <2>3. ASSUME NEW r \in Reqs, ReadDone(r) \/ ReadError(r)
          PROVE  UNCHANGED misread \/ misread' = TRUE
      BY <2>3 DEF ReadDone, ReadError
    <2>4. ASSUME NEW s \in flushing, FlushDone(s) PROVE UNCHANGED misread
      BY <2>4 DEF FlushDone
    <2>5. CASE UNCHANGED vars
      BY <2>5 DEF vars
    <2> QED
      BY <2>1, <2>2, <2>3, <2>4, <2>5 DEF Next
  <1> QED
    BY <1>1, <1>2, <1>3

\* Without overlap every step keeps the invariant, up to a read that overtakes
\* a write.
LEMMA SafeStep ==
    ASSUME ~Overlap
    PROVE  IndexInv /\ MarkInv /\ (~misread => SafeInv) /\ [Next]_vars
               => (~misread' => SafeInv')
  <1> SUFFICES ASSUME IndexInv, MarkInv, ~misread => SafeInv, [Next]_vars, ~misread'
               PROVE  SafeInv'
    OBVIOUS
  <1>0. ~misread /\ SafeInv
    BY MisreadStays
  <1>00. Doubt = 0 /\ Doubt' = 0
    BY <1>0 DEF Doubt
  <1>1. ASSUME NEW r \in Reqs, NEW type \in {"GET", "SET"}, NEW k \in Keys,
               Submit(r, type, k)
        PROVE  SafeInv'
    <2>1. /\ Others(r) /\ req'[r].type = type /\ req'[r].st = "queued"
          /\ UNCHANGED <<bucket, part, log>>
      BY <1>1, SubmitStep
    <2>2. \A q \in Reqs : req[q].st = "idle" \/ req[q].type = type
      BY <1>1 DEF Submit
    <2>3. SameType'
      BY <2>1, <2>2 DEF SameType, Others
    <2>4. Fresh(bucket, part, log, req'[r])
      BY <2>1 DEF Fresh, Holds
    <2> QED
      BY <1>0, <2>1, <2>3, <2>4, SafeQuiet
  <1>2. ASSUME NEW r \in Reqs, bigkv_index_set(r) PROVE SafeInv'
    BY <1>0, <1>00, <1>2, SafeWait, SafeFill, SafeRead, SafeWrite DEF bigkv_index_set
  <1>3. ASSUME NEW r \in Reqs, bigkv_index_get(r) PROVE SafeInv'
    BY <1>0, <1>00, <1>3, SafeCached, SafeGetRead, SafeMiss, SafeLoad, SafeLoadWrite
       DEF bigkv_index_get
  <1>4. ASSUME UNCHANGED <<bucket, part, log, req>> PROVE SafeInv'
    BY <1>0, <1>4 DEF SafeInv, SameType
  <1>5. ASSUME NEW r \in Reqs, InsertError(r) \/ ReadError(r) PROVE SafeInv'
    BY <1>4, <1>5, AbortStep
  <1>6. ASSUME NEW r \in Reqs, ReadDone(r) PROVE SafeInv'
    <2>00. PICK m : m = Doubt' /\ m # 1
      BY <1>00
    <2>0. Others(r) /\ UNCHANGED <<bucket, part, log>> /\ AfterRead(m, req'[r], req[r])
      BY <1>6, <2>00, DoneStep
    <2>1. /\ Others(r) /\ UNCHANGED <<bucket, part, log>>
          /\ req'[r].type = req[r].type /\ req'[r].key = req[r].key
          /\ \/ req[r].st = "reading table" /\ req[r].pba # PBA_INVALID
                /\ req'[r].pba = req[r].pba /\ req'[r].st = "retried"
             \/ req[r].st = "reading pair" /\ req'[r].st \in {"idle", "lost"}
      BY <2>00, <2>0, Zenon DEF AfterRead
    <2>2. Fresh(bucket, part, log, req[r])
      BY <1>0 DEF SafeInv
    <2>3. Fresh(bucket, part, log, req'[r])
      BY <2>1, <2>2 DEF Fresh, Holds, GetFresh
    <2>4. SameType'
      BY <1>0, <2>1, TypesKept DEF SafeInv
    <2> QED
      BY <1>0, <2>1, <2>3, <2>4, SafeQuiet
  <1>7. ASSUME NEW s \in flushing, FlushDone(s) PROVE SafeInv'
    BY <1>4, <1>7, FlushStep
  <1>8. CASE UNCHANGED vars
    BY <1>4, <1>8 DEF vars
  <1> QED
    BY <1>1, <1>2, <1>3, <1>5, <1>6, <1>7, <1>8 DEF Next, Handler

\* The index leads to the newest pair of every key, for SETs only or GETs only,
\* and the table that a request has or waits for is not out of date, up to the
\* first read that overtakes a write, with reads that are lost.
THEOREM SafeInvariant ==
    ASSUME ~Overlap
    PROVE  Spec => [](~misread => SafeInv)
  <1>1. IndexInv /\ MarkInv /\ (~misread => SafeInv) /\ [Next]_vars
            => (~misread => SafeInv)'
    BY SafeStep
  <1>2. Spec => []MarkInv
    BY MarkInit, MarkStep, IndexInvariant, PTL DEF Spec
  <1> QED
    BY <1>1, <1>2, SafeInit, IndexInvariant, PTL DEF Spec

\* No acknowledged SET is lost, whatever is evicted, written back and loaded
\* in between, when SETs and GETs are not in flight together, up to the first
\* read that overtakes a write.
THEOREM NothingLostHolds ==
    ASSUME ~Overlap
    PROVE  Spec => []NothingLost
  <1>1. IndexInv /\ (~misread => SafeInv) => NothingLost
    <2> SUFFICES ASSUME IndexInv, SafeInv, NEW k \in Keys PROVE Indexed(k) = Newest(k)
      BY DEF NothingLost
    <2>0. PICK b, i, p : /\ b = bucket_idx(k) /\ p = part_idx(k)
                         /\ i = get_match_entry(bucket[b], hash_low[k])
      OBVIOUS
    <2>1. /\ log \in Seq(Records) /\ Sound(bucket, part, log) /\ BucketGood(bucket[b])
          /\ hash_low[k] # 0
      BY <2>0, KeyPlace DEF IndexInv, TypeOK, SafeInv, Cached
    <2>2. Indexed(k) = IF i # 0 THEN bucket[b][i].pba
                       ELSE TableHas(part, log, p, hash_low[k])
      BY <2>0 DEF Indexed, TableHas
    <2>3. CASE i # 0
      <3>1. i \in Ways /\ bucket[b][i].fingerprint = hash_low[k]
        BY <2>0, <2>3, MatchEntry DEF Occupied
      <3>2. IsNewest(log, k, bucket[b][i].pba)
        BY <2>0, <2>1, <3>1 DEF Sound, HitsNewest
      <3> QED
        BY <2>1, <2>2, <2>3, <3>2, NewestIs
    <2>4. CASE i = 0
      <3>1. \A j \in Occupied(bucket[b]) : bucket[b][j].fingerprint # hash_low[k]
        <4>1. get_match_entry(bucket[b], hash_low[k]) = 0
          BY <2>0, <2>4
        <4> QED
          BY <4>1, MatchEntry
      <3>2. \A j \in Ways : bucket[b][j].fingerprint # hash_low[k]
        BY <2>1, <3>1 DEF BucketGood, UnusedClear, Occupied
      <3>3. IsNewest(log, k, TableHas(part, log, p, hash_low[k]))
        BY <2>0, <2>1, <3>2 DEF Sound, MissesNewest
      <3> QED
        BY <2>1, <2>2, <2>4, <3>3, NewestIs
    <2> QED
      BY <2>3, <2>4
  <1> QED
    BY <1>1, SafeInvariant, IndexInvariant, PTL

\* An entry that is not dirty is in the partition's table, so that
\* get_target_entry may give it away, up to the first read that overtakes a
\* write.
THEOREM CleanIsWrittenHolds ==
    ASSUME ~Overlap
    PROVE  Spec => []CleanIsWritten
  <1>1. (~misread => SafeInv) => CleanIsWritten
    <2> SUFFICES ASSUME SafeInv, NEW b \in Buckets, NEW i \in Used(b),
                        ~bucket[b][i].dirty_bit
                 PROVE  /\ part[b \div BUCKETS_IN_PART].pba # PBA_INVALID
                        /\ get_match_entry_f(log[part[b \div BUCKETS_IN_PART].pba].entry,
                                             bucket[b][i].fingerprint) = bucket[b][i].pba
      BY DEF CleanIsWritten
    <2>1. i \in Ways /\ bucket[b][i].pba # PBA_INVALID
      BY DEF Used
    <2>2. TableHas(part, log, b \div BUCKETS_IN_PART, bucket[b][i].fingerprint)
              = bucket[b][i].pba
      BY <2>1 DEF SafeInv, Sound, CleanWritten
    <2> QED
      BY <2>1, <2>2 DEF TableHas
  <1> QED
    BY <1>1, SafeInvariant, PTL
=============================================================================
