------------------------------- MODULE BigKV -------------------------------
(***************************************************************************)
(* One handler running the bigkv index (the default build, -DBIGKV):       *)
(* src/bigkv_index.c driven by the dispatch of src/handler.c, on the log-  *)
(* structured device of src/device.c and src/aio.c.                        *)
(*                                                                         *)
(* A SET only touches its bucket unless the entry to be evicted is dirty:  *)
(* then the partition's table is read, all dirty entries of the partition  *)
(* are added to it and it is written to a new place.  A GET that misses    *)
(* its bucket looks into the partition's table and caches what it finds.   *)
(* The handler thread runs these steps; the poller thread finishes reads   *)
(* and puts the request back.  In between, other requests change buckets   *)
(* and tables.                                                             *)
(*                                                                         *)
(* The device address of the n-th record written is n, and log[n] is that  *)
(* record: a kv-pair, of which the model keeps the key, or a partition     *)
(* table.  The records of the segment being filled are still in memory     *)
(* (is_staged); a full segment is written asynchronously (flushing), and   *)
(* nothing makes a read wait for that write to finish.  A read that        *)
(* io_submit refuses is not tried again.                                   *)
(***************************************************************************)
EXTENDS BigKVTable

CONSTANTS Writers, Readers, \* requests of the pool that may carry SETs, GETs
          SEGMENT_RECORDS,  \* records per segment
          StaleReads,       \* may a read overtake its segment's own write?
          OldTables,        \* what such a read may find instead of a table
          Overlap,          \* may SETs and GETs be in flight together?
          MAX_PBA           \* bound of the model: SETs stop at this address

ASSUME BigKVAssumption ==
    /\ Keys # {}
    /\ SEGMENT_RECORDS \in Nat \ {0}
    /\ StaleReads \in BOOLEAN
    /\ OldTables \subseteq [Cells -> TableEntry]
    /\ Overlap \in BOOLEAN
    /\ MAX_PBA \in Nat

Reqs == Writers \cup Readers

VARIABLES bucket,   \* the cached entries
          part,     \* struct hash_partition
          log,      \* the records by device address
          flushing, \* segments whose write has been submitted, not finished
          req,      \* [Reqs -> struct request with its struct bi_params]
          req_q,    \* new requests
          retry_q,  \* requests to run again
          aborted,  \* the process called abort()
          misread   \* history: a read has overtaken a write and found
                    \* something else than what was written

vars == <<bucket, part, log, flushing, req, req_q, retry_q, aborted, misread>>

\* What is written to the device.
Records ==
    [kind: {"pair"}, key: Keys] \cup [kind: {"table"}, entry: [Cells -> TableEntry]]

Pair(k)    == [kind |-> "pair", key |-> k]
TableOf(t) == [kind |-> "table", entry |-> t]
PairsIn(l) == SelectSeq(l, LAMBDA rec : rec.kind = "pair")

ReadSteps  == {"INIT", "KEY_MISMATCH", "UPDATE_TABLE"}
WriteSteps == {"INIT", "WRITE_PTABLE", "WRITE_KV"}
States     == {"idle", "queued", "reading table", "reading pair", "retried", "lost"}

\* pba is the address of the read in flight, or where the table in temp_buf
\* (buf) was read; racy says that the read was submitted before the record was
\* on the device.  val is the address answered.  floor is a history variable:
\* the number of pairs that existed when the request was accepted.
ReqRecord == [type: {"GET", "SET"}, key: Keys, st: States, read_step: ReadSteps,
              write_step: WriteSteps, pba: Nat, racy: BOOLEAN,
              buf: [Cells -> TableEntry] \cup {NoTable}, floor: Nat, val: Nat]

Init ==
    /\ bucket = [b \in Buckets |-> EmptyBucket]
    /\ part = [p \in Parts |-> [flying |-> FALSE, pba |-> PBA_INVALID]]
    /\ log = << >>
    /\ flushing = {}
    /\ req = [r \in Reqs |-> [type |-> "GET", key |-> CHOOSE k \in Keys : TRUE,
                              st |-> "idle", read_step |-> "INIT",
                              write_step |-> "INIT", pba |-> 0, racy |-> FALSE,
                              buf |-> NoTable, floor |-> 0, val |-> 0]]
    /\ req_q = << >>
    /\ retry_q = << >>
    /\ aborted = FALSE
    /\ misread = FALSE

-----------------------------------------------------------------------------
(* The device. *)

Segment(p) == (p - 1) \div SEGMENT_RECORDS

\* In memory: the record lies in the part of the segment already filled.
is_staged(p) ==
    /\ p # PBA_INVALID
    /\ p <= Len(log)
    /\ Segment(p) = Segment(Len(log))

\* The write of a full segment is submitted; reap_seg_buf will follow it, or
\* never does if io_submit refuses the write.
aio_write(seg) == flushing' = flushing \cup {seg}

\* Append a record; when the staged segment is full it is written and the next
\* one is staged.
get_next_pba(record) ==
    /\ log' = Append(log, record)
    /\ IF Len(log) > 0 /\ Segment(Len(log) + 1) # Segment(Len(log))
       THEN aio_write(Segment(Len(log)))
       ELSE UNCHANGED flushing

\* A read of p may be done before what belongs there is on the device: the
\* write is under way, or an old table has led to a place not yet in use.
Races(p) ==
    /\ StaleReads
    /\ p # PBA_INVALID
    /\ p > Len(log) \/ Segment(p) \in flushing

\* Submit the read of request rec and leave it with the device.  If io_submit
\* refuses the read, the error is printed and nobody ever hears of the request
\* again.
aio_read(rec) ==
    {[rec EXCEPT !.racy = Races(rec.pba)], [rec EXCEPT !.st = "lost"]}

\* What a read may find at the table p of a segment whose write is under way:
\* in any of the cells what was there before.
Torn(p) ==
    {[c \in Cells |-> IF c \in S THEN t[c] ELSE log[p].entry[c]] :
        S \in SUBSET Cells \ {{}}, t \in OldTables}

-----------------------------------------------------------------------------
(* Requests. *)

\* make_request_from_netreq, add_request_info and forward_req_to_hlr.
Submit(r, type, k) ==
    /\ ~aborted
    /\ req[r].st = "idle"
    /\ \/ type = "SET" /\ r \in Writers /\ Len(log) < MAX_PBA
       \/ type = "GET" /\ r \in Readers
    /\ Overlap \/ \A q \in Reqs : req[q].st = "idle" \/ req[q].type = type
    /\ req' = [req EXCEPT ![r] = [type |-> type, key |-> k, st |-> "queued",
                                  read_step |-> "INIT", write_step |-> "INIT",
                                  pba |-> 0, racy |-> FALSE, buf |-> NoTable,
                                  floor |-> Len(PairsIn(log)), val |-> 0]]
    /\ req_q' = Append(req_q, r)
    /\ UNCHANGED <<bucket, part, log, flushing, retry_q, aborted, misread>>

\* net_end_req: acknowledge with the pair at v.
net_end_req(rec, v) ==
    [rec EXCEPT !.st = "idle", !.read_step = "INIT", !.write_step = "INIT",
                !.pba = 0, !.racy = FALSE, !.buf = NoTable, !.floor = 0, !.val = v]

\* Mutant: new requests go before retried ones.
RetriedFirst_not == req_q = << >> /\ retry_q # << >>

\* Retried requests go before new ones.
RetriedFirst == retry_q # << >>

\* r is the next request of the handler thread, which leaves its queue.
get_next_request(r) ==
    /\ ~aborted
    /\ IF RetriedFirst
       THEN r = Head(retry_q) /\ UNCHANGED req_q
       ELSE req_q # << >> /\ r = Head(req_q) /\ req_q' = Tail(req_q)

RetryRest == IF RetriedFirst THEN Tail(retry_q) ELSE retry_q

\* The request becomes rec, and goes to the end of the retry queue q if it
\* has to run again.
Proceed(r, rec, q) ==
    /\ req' = [req EXCEPT ![r] = rec]
    /\ retry_q' = IF rec.st = "retried" THEN Append(q, r) ELSE q

\* The callback of a read of a table, which is t.
cb_part_table_read(rec, t) ==
    [rec EXCEPT !.st = "retried", !.write_step = "WRITE_PTABLE",
                !.read_step = "UPDATE_TABLE", !.racy = FALSE, !.buf = t]

\* The callback of a read of a pair, which has the key or another one.
cb_keycmp(rec, match) ==
    IF match
    THEN net_end_req(rec, rec.pba)
    ELSE [rec EXCEPT !.st = "retried", !.read_step = "KEY_MISMATCH", !.pba = 0,
                     !.racy = FALSE]

\* dev_abs_read of a table or of a pair: from the staging buffer, with the
\* callback run at once, or from the device.
ReadTable(rec, p) ==
    LET reading == [rec EXCEPT !.st = "reading table", !.pba = p]
    IN  IF is_staged(p) THEN {cb_part_table_read(reading, log[p].entry)}
                        ELSE aio_read(reading)

IsPairOf(p, k) == p \in 1..Len(log) /\ log[p] = Pair(k)

ReadPair(rec, p) ==
    LET reading == [rec EXCEPT !.st = "reading pair", !.pba = p, !.buf = NoTable]
    IN  IF is_staged(p) THEN {cb_keycmp(reading, IsPairOf(p, rec.key))}
                        ELSE aio_read(reading)

-----------------------------------------------------------------------------
(* bigkv_index_set *)

Target(r) == get_target_entry(bucket[bucket_idx(req[r].key)], hash_low[req[r].key])

\* The steps of a SET that look for an entry.
SetLooksUp(r) ==
    /\ req[r].type = "SET"
    /\ \/ req[r].write_step = "INIT" /\ ~part[part_idx(req[r].key)].flying
       \/ req[r].write_step = "WRITE_KV"

\* Another SET has the partition's table: try again later.
SetWait(r) ==
    /\ get_next_request(r)
    /\ req[r].type = "SET"
    /\ req[r].write_step = "INIT"
    /\ part[part_idx(req[r].key)].flying
    /\ Proceed(r, [req[r] EXCEPT !.st = "retried"], RetryRest)
    /\ UNCHANGED <<bucket, part, log, flushing, aborted, misread>>

\* There is an entry: point it at a new pair, write the pair, acknowledge.
SetFill(r) ==
    LET k == req[r].key
        b == bucket_idx(k)
    IN  /\ get_next_request(r)
        /\ SetLooksUp(r)
        /\ Target(r) # 0
        /\ get_next_pba(Pair(k))
        /\ bucket' = [bucket EXCEPT ![b] =
                         fill(@, Target(r), hash_low[k], TRUE, Len(log) + 1)]
        /\ Proceed(r, net_end_req(req[r], Len(log) + 1), RetryRest)
        /\ UNCHANGED <<part, aborted, misread>>

\* The entry to evict is dirty: mark the partition and read its table.  The
\* mark stays when the read is lost.
SetReadTable(r) ==
    LET p == part_idx(req[r].key)
    IN  /\ get_next_request(r)
        /\ SetLooksUp(r)
        /\ Target(r) = 0
        /\ part[p].pba # PBA_INVALID
        /\ part' = [part EXCEPT ![p].flying = TRUE]
        /\ \E rec \in ReadTable(req[r], part[p].pba) : Proceed(r, rec, RetryRest)
        /\ UNCHANGED <<bucket, log, flushing, aborted, misread>>

\* Mutant: the partition stays marked.
write_ptable_keep_flying(p, t, flying) ==
    /\ get_next_pba(TableOf(t))
    /\ part' = [part EXCEPT ![p].pba = Len(log) + 1]

\* Table t of partition p goes to a new place.
write_ptable(p, t, flying) ==
    /\ get_next_pba(TableOf(t))
    /\ part' = [part EXCEPT ![p] = [flying |-> flying, pba |-> Len(log) + 1]]

\* A SET has the table in temp_buf, or there is none yet and it starts one.
SetHasTable(r) ==
    /\ req[r].type = "SET"
    /\ \/ req[r].write_step = "WRITE_PTABLE"
       \/ /\ SetLooksUp(r)
          /\ Target(r) = 0
          /\ part[part_idx(req[r].key)].pba = PBA_INVALID

\* What the request writes: the table it has, with the partition's dirty
\* entries.
NewTable(r) ==
    update_part_table(IF req[r].buf = NoTable THEN EmptyTable ELSE req[r].buf,
                      bucket, part_idx(req[r].key))

\* Write the table, and look for an entry again.
SetWriteTable(r) ==
    LET p == part_idx(req[r].key)
    IN  /\ get_next_request(r)
        /\ SetHasTable(r)
        /\ NewTable(r) # NoTable
        /\ write_ptable(p, NewTable(r), FALSE)
        /\ bucket' = Cleaned(bucket, p)
        /\ Proceed(r, [req[r] EXCEPT !.st = "retried", !.write_step = "WRITE_KV",
                                     !.pba = 0, !.buf = NoTable], RetryRest)
        /\ UNCHANGED <<aborted, misread>>

bigkv_index_set(r) ==
    SetWait(r) \/ SetFill(r) \/ SetReadTable(r) \/ SetWriteTable(r)

-----------------------------------------------------------------------------
(* bigkv_index_get *)

Match(r) == get_match_entry(bucket[bucket_idx(req[r].key)], hash_low[req[r].key])

\* Mutant: only the first cell of the key is looked at.
Found_first_cell(r) ==
    LET e == req[r].buf[Cell(hash_low[req[r].key], 0)]
    IN  IF e.fingerprint = hash_low[req[r].key] THEN e.pba ELSE PBA_INVALID

\* The address that the table read for r has for its key.
Found(r) == get_match_entry_f(req[r].buf, hash_low[req[r].key])

\* The entry is in the bucket: read its pair.
GetCached(r) ==
    LET b == bucket_idx(req[r].key)
    IN  /\ get_next_request(r)
        /\ req[r].type = "GET"
        /\ req[r].read_step # "UPDATE_TABLE"
        /\ Match(r) # 0
        /\ bucket' = [bucket EXCEPT ![b] = touch(@, Match(r))]
        /\ \E rec \in ReadPair(req[r], bucket[b][Match(r)].pba) :
              Proceed(r, rec, RetryRest)
        /\ UNCHANGED <<part, log, flushing, aborted, misread>>

\* It is not: read the partition's table, even if there is none.
GetReadTable(r) ==
    /\ get_next_request(r)
    /\ req[r].type = "GET"
    /\ req[r].read_step # "UPDATE_TABLE"
    /\ Match(r) = 0
    /\ \E rec \in ReadTable(req[r], part[part_idx(req[r].key)].pba) :
          Proceed(r, rec, RetryRest)
    /\ UNCHANGED <<bucket, part, log, flushing, aborted, misread>>

\* The table does not have the key: "Not existing key!"
GetMiss(r) ==
    /\ get_next_request(r)
    /\ req[r].type = "GET"
    /\ req[r].read_step = "UPDATE_TABLE"
    /\ Found(r) = PBA_INVALID
    /\ Proceed(r, net_end_req(req[r], 0), RetryRest)
    /\ UNCHANGED <<bucket, part, log, flushing, aborted, misread>>

\* The table has it: read the pair and cache the address.
GetLoad(r) ==
    LET k == req[r].key
    IN  /\ get_next_request(r)
        /\ req[r].type = "GET"
        /\ req[r].read_step = "UPDATE_TABLE"
        /\ Found(r) # PBA_INVALID
        /\ Target(r) # 0
        /\ bucket' = [bucket EXCEPT ![bucket_idx(k)] =
                         fill(@, Target(r), hash_low[k], FALSE, Found(r))]
        /\ \E rec \in ReadPair(req[r], Found(r)) : Proceed(r, rec, RetryRest)
        /\ UNCHANGED <<part, log, flushing, aborted, misread>>

\* As before, but the entry to evict is dirty: first write the table that was
\* read, with the dirty entries of the partition.
GetLoadWrite(r) ==
    LET k == req[r].key
        p == part_idx(k)
        b == bucket_idx(k)
        clean == Cleaned(bucket, p)
    IN  /\ get_next_request(r)
        /\ req[r].type = "GET"
        /\ req[r].read_step = "UPDATE_TABLE"
        /\ Found(r) # PBA_INVALID
        /\ Target(r) = 0
        /\ NewTable(r) # NoTable
        /\ write_ptable(p, NewTable(r), part[p].flying)
        /\ bucket' = [clean EXCEPT ![b] =
                         fill(@, get_target_entry(clean[b], hash_low[k]),
                              hash_low[k], FALSE, Found(r))]
        /\ \E rec \in ReadPair(req[r], Found(r)) : Proceed(r, rec, RetryRest)
        /\ UNCHANGED <<aborted, misread>>

bigkv_index_get(r) ==
    GetCached(r) \/ GetReadTable(r) \/ GetMiss(r) \/ GetLoad(r) \/ GetLoadWrite(r)

-----------------------------------------------------------------------------
\* "part_table: insert error": an entry has no place in the table.
InsertError(r) ==
    /\ get_next_request(r)
    /\ \/ SetHasTable(r)
       \/ /\ req[r].type = "GET"
          /\ req[r].read_step = "UPDATE_TABLE"
          /\ Found(r) # PBA_INVALID
          /\ Target(r) = 0
    /\ NewTable(r) = NoTable
    /\ aborted' = TRUE
    /\ UNCHANGED <<bucket, part, log, flushing, req, retry_q, misread>>

Handler(r) == bigkv_index_set(r) \/ bigkv_index_get(r) \/ InsertError(r)

\* The poller: a read finishes and its callback runs.  A racy read may find
\* what was on the device before.
ReadDone(r) ==
    /\ ~aborted
    /\ \/ /\ req[r].st = "reading table"
          /\ req[r].pba # PBA_INVALID
          /\ \/ /\ Proceed(r, cb_part_table_read(req[r], log[req[r].pba].entry), retry_q)
                /\ UNCHANGED misread
             \/ /\ req[r].racy
                /\ \E t \in Torn(req[r].pba) :
                      Proceed(r, cb_part_table_read(req[r], t), retry_q)
                /\ misread' = TRUE
       \/ /\ req[r].st = "reading pair"
          /\ \/ /\ Proceed(r, cb_keycmp(req[r], IsPairOf(req[r].pba, req[r].key)), retry_q)
                /\ UNCHANGED misread
             \/ /\ req[r].racy
                /\ \E match \in BOOLEAN : Proceed(r, cb_keycmp(req[r], match), retry_q)
                /\ misread' = TRUE
    /\ UNCHANGED <<bucket, part, log, flushing, req_q, aborted>>

\* The poller: PBA_INVALID lies behind the end of the device, where nothing
\* is read: "aio: Data size error".
ReadError(r) ==
    /\ ~aborted
    /\ req[r].st = "reading table"
    /\ req[r].pba = PBA_INVALID
    /\ aborted' = TRUE
    /\ UNCHANGED <<bucket, part, log, flushing, req, req_q, retry_q, misread>>

\* The write of a segment finishes (callback reap_seg_buf).
FlushDone(s) ==
    /\ ~aborted
    /\ flushing' = flushing \ {s}
    /\ UNCHANGED <<bucket, part, log, req, req_q, retry_q, aborted, misread>>

Next ==
    \/ \E r \in Reqs, type \in {"GET", "SET"}, k \in Keys : Submit(r, type, k)
    \/ \E r \in Reqs : Handler(r)
    \/ \E r \in Reqs : ReadDone(r) \/ ReadError(r)
    \/ \E s \in flushing : FlushDone(s)

Spec == Init /\ [][Next]_vars

\* Both threads spin for ever and the device finishes every read it accepted.
Fairness ==
    /\ WF_vars(\E r \in Reqs : Handler(r))
    /\ \A r \in Reqs : WF_vars(ReadDone(r) \/ ReadError(r))

FairSpec == Spec /\ Fairness

-----------------------------------------------------------------------------
(* Properties of every mix of requests. *)

TypeOK ==
    /\ bucket \in [Buckets -> [Ways -> CacheEntry]]
    /\ part \in [Parts -> [flying: BOOLEAN, pba: Nat]]
    /\ log \in Seq(Records)
    /\ flushing \in SUBSET Nat
    /\ req \in [Reqs -> ReqRecord]
    /\ req_q \in Seq(Reqs)
    /\ retry_q \in Seq(Reqs)
    /\ aborted \in BOOLEAN
    /\ misread \in BOOLEAN

Used(b) == {i \in Ways : bucket[b][i].pba # PBA_INVALID}

\* The LRU bits order the used entries of a bucket, and the unused ones are
\* the oldest: a full bucket always has exactly one entry to evict.  Without
\* one, get_target_entry fails for a clean bucket too, and the loop of
\* bigkv_index_get goes on with a table it has already given away.
LruExact ==
    \A b \in Buckets :
        /\ \A i, j \in Used(b) :
              bucket[b][i].lru_bit = bucket[b][j].lru_bit => i = j
        /\ \A i \in Used(b), j \in Ways \ Used(b) :
              bucket[b][j].lru_bit = LRU_MAX
        /\ Used(b) = Ways => \E i \in Ways : bucket[b][i].lru_bit = LRU_MAX

\* A key is cached at most once, in its own bucket, and with the address of one
\* of its pairs unless a read has overtaken a write.
CachedOnce ==
    \A b \in Buckets : \A i \in Used(b) :
        /\ \E k \in Keys : /\ bucket_idx(k) = b
                           /\ hash_low[k] = bucket[b][i].fingerprint
                           /\ ~misread => IsPairOf(bucket[b][i].pba, k)
        /\ \A j \in Used(b) :
              bucket[b][j].fingerprint = bucket[b][i].fingerprint => i = j

\* SET r has the table of partition p, or is reading it, in order to write it,
\* or its read of the table was lost.
HasTable(r, p) ==
    /\ req[r].type = "SET"
    /\ part_idx(req[r].key) = p
    /\ \/ req[r].st \in {"reading table", "lost"}
       \/ req[r].st = "retried" /\ req[r].write_step = "WRITE_PTABLE"

\* At most one SET at a time rewrites the table of a partition, and the
\* partition is marked exactly while one does, for ever if its read is lost.
\* The mark is only looked at in the first step of a SET: a SET that looks for
\* an entry again after its table was written relies on the order of the retry
\* queue, and a mark that is left behind makes all SETs of the partition spin
\* for ever.
MarkExact ==
    \A p \in Parts :
        /\ part[p].flying <=> \E r \in Reqs : HasTable(r, p)
        /\ \A r1, r2 \in Reqs : HasTable(r1, p) /\ HasTable(r2, p) => r1 = r2

\* As long as no read has overtaken a write, every table written has each
\* fingerprint at most once, with the address of a pair of that key.  A table
\* read too early is merged and written back as it is.
TablesSound ==
    ~misread => \A n \in 1..Len(log) : log[n].kind = "table" =>
        \A c, d \in Cells :
            LET e == log[n].entry[c]
                f == log[n].entry[d]
            IN  e.pba # PBA_INVALID =>
                    /\ \E k \in Keys : /\ IsPairOf(e.pba, k)
                                       /\ hash_low[k] = e.fingerprint
                                       /\ get_match_entry_f(log[n].entry, hash_low[k]) = e.pba
                    /\ f.fingerprint = e.fingerprint => c = d

\* SETs of a partition spin because the read of its table was lost with the
\* mark set.  As retried requests go first, no new request is taken any more.
Spinning ==
    \E q, s \in Reqs :
        /\ req[q].type = "SET" /\ req[q].st = "lost"
        /\ req[s].type = "SET" /\ req[s].st = "retried" /\ req[s].write_step = "INIT"
        /\ part_idx(req[q].key) = part_idx(req[s].key)

\* Every accepted request is answered unless the process aborts or a read was
\* lost, the request's own or one that leaves a partition marked: the SETs that
\* spin through the retry queue while the partition's table is being read get
\* their turn.
Responds ==
    \A r \in Reqs :
        (req[r].st # "idle") ~> (req[r].st \in {"idle", "lost"} \/ aborted \/ Spinning)

-----------------------------------------------------------------------------
(* Properties of requests in flight that are all SETs or all GETs, as long *)
(* as no read has overtaken a write.                                       *)

\* The newest pair of key k, and where the index points for k.
Newest(k) ==
    LET ns == {n \in 1..Len(log) : IsPairOf(n, k)}
    IN  IF ns = {} THEN PBA_INVALID ELSE Max(ns)

Indexed(k) ==
    LET bkt == bucket[bucket_idx(k)]
        i   == get_match_entry(bkt, hash_low[k])
        p   == part[part_idx(k)].pba
    IN  IF i # 0 THEN bkt[i].pba
        ELSE IF p # PBA_INVALID THEN get_match_entry_f(log[p].entry, hash_low[k])
        ELSE PBA_INVALID

\* No acknowledged SET is lost: bucket and partition table together lead to
\* the newest pair of every key, whatever has been evicted and written back.
NothingLost == ~misread => \A k \in Keys : Indexed(k) = Newest(k)

\* An entry that is not dirty may be evicted: the table has it.
CleanIsWritten ==
    ~misread => \A b \in Buckets : \A i \in Used(b) :
        LET e == bucket[b][i]
            p == part[b \div BUCKETS_IN_PART].pba
        IN  ~e.dirty_bit =>
                /\ p # PBA_INVALID
                /\ get_match_entry_f(log[p].entry, e.fingerprint) = e.pba

\* The answers are those of an atomic key-value store, up to the first read
\* that overtakes a write.
Version(p) == Len(PairsIn(SubSeq(log, 1, p)))

KV == INSTANCE KVStore
      WITH history <- [v \in 1..Len(PairsIn(log)) |-> PairsIn(log)[v].key],
           op <- [r \in Reqs |-> [type    |-> req[r].type,
                                  key     |-> req[r].key,
                                  pending |-> req[r].st # "idle",
                                  floor   |-> req[r].floor,
                                  val     |-> Version(req[r].val)]]

ImplementsKVStore == KV!KVInit /\ [][misread' \/ KV!KVNext]_(KV!kvVars)

-----------------------------------------------------------------------------
(* What the repository's texts say and the code does not keep. *)

\* "Not existing key!" (request_handler) is reported only for a key that no
\* acknowledged SET had written when the GET was accepted.
NotExistingKey ==
    [][\A r \in Reqs : GetMiss(r) =>
          \A v \in 1..req[r].floor : PairsIn(log)[v].key # req[r].key]_vars

\* The read of a GET does not end the process: request_handler answers a GET
\* that finds nothing with "Not existing key!".
MissIsAnswered == [][\A r \in Reqs : ~ReadError(r)]_vars
=============================================================================
