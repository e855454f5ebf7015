----------------------------- MODULE BigKVTable -----------------------------
(***************************************************************************)
(* The data structures of src/bigkv_index.c.  A key hashes to a bucket of  *)
(* NR_SET entries in memory, a write-back cache with LRU replacement.      *)
(* BUCKETS_IN_PART buckets form a partition, and every partition has one   *)
(* table on the device, a hash table with linear probing that the evicted  *)
(* entries are looked up in.                                               *)
(***************************************************************************)
EXTENDS Integers, Sequences, FiniteSetsExt

CONSTANTS Keys,
          hash_high,          \* selects the bucket
          hash_low,           \* the fingerprint
          NR_BUCKET,
          BUCKETS_IN_PART,
          NR_SET,             \* entries of a bucket
          PART_TABLE_ENTRYS,
          MAX_HOP             \* entries of a table that a fingerprint may use

\* Fingerprints have 64 bits: the index takes equal ones for equal keys, and
\* 0 is what unused entries carry.
ASSUME BigKVTableAssumption ==
    /\ NR_BUCKET \in Nat \ {0}
    /\ BUCKETS_IN_PART \in Nat \ {0}
    /\ NR_BUCKET % BUCKETS_IN_PART = 0
    /\ NR_SET \in Nat \ {0}
    /\ PART_TABLE_ENTRYS \in Nat \ {0}
    /\ MAX_HOP \in 1..PART_TABLE_ENTRYS
    /\ hash_high \in [Keys -> Nat]
    /\ hash_low \in [Keys -> Nat \ {0}]
    /\ \A k1, k2 \in Keys : hash_low[k1] = hash_low[k2] => k1 = k2

PBA_INVALID == 0             \* addresses of the model start at 1
LRU_MAX     == NR_SET - 1    \* 0x3 for the four entries of the code

Buckets == 0..(NR_BUCKET - 1)
Parts   == 0..(NR_BUCKET \div BUCKETS_IN_PART - 1)
Ways    == 1..NR_SET         \* the entries of a bucket; 0 stands for NULL
Cells   == 0..(PART_TABLE_ENTRYS - 1)

bucket_idx(k) == hash_high[k] % NR_BUCKET
part_idx(k)   == bucket_idx(k) \div BUCKETS_IN_PART

PartBuckets(p) == {b \in Buckets : b \div BUCKETS_IN_PART = p}

\* struct hash_entry without its size.
CacheEntry == [fingerprint: Nat, dirty_bit: BOOLEAN, lru_bit: 0..LRU_MAX, pba: Nat]

\* struct hash_entry_f without its size and its distance, which nobody reads.
TableEntry == [fingerprint: Nat, pba: Nat]

EmptyBucket ==
    [i \in Ways |-> [fingerprint |-> 0, dirty_bit |-> FALSE,
                     lru_bit |-> LRU_MAX, pba |-> PBA_INVALID]]

EmptyTable == [c \in Cells |-> [fingerprint |-> 0, pba |-> PBA_INVALID]]

\* The result of the loops that stop at the first of some ways or hops.
FirstOf(S, none) == IF S = {} THEN none ELSE Min(S)

-----------------------------------------------------------------------------
(* A bucket. *)

get_match_entry(bkt, fp) ==
    FirstOf({i \in Ways : bkt[i].pba # PBA_INVALID /\ bkt[i].fingerprint = fp}, 0)

\* Mutant: a free entry is taken before the key's own.
get_target_entry_free_first(bkt, fp) ==
    LET same == {i \in Ways : bkt[i].fingerprint = fp}
        free == {i \in Ways : bkt[i].pba = PBA_INVALID}
        old  == {i \in Ways : bkt[i].lru_bit = LRU_MAX /\ ~bkt[i].dirty_bit}
    IN  IF free # {} THEN Min(free)
        ELSE IF same # {} THEN Min(same)
        ELSE FirstOf(old, 0)

\* Mutant: the least recently used entry is taken whether it is dirty or not.
get_target_entry_dirty(bkt, fp) ==
    LET same == {i \in Ways : bkt[i].fingerprint = fp}
        free == {i \in Ways : bkt[i].pba = PBA_INVALID}
        old  == {i \in Ways : bkt[i].lru_bit = LRU_MAX}
    IN  IF same # {} THEN Min(same)
        ELSE IF free # {} THEN Min(free)
        ELSE FirstOf(old, 0)

\* The entry to use for fp: its own, a free one, or the least recently used
\* one.  None when that one is dirty.
get_target_entry(bkt, fp) ==
    LET same == {i \in Ways : bkt[i].fingerprint = fp}
        free == {i \in Ways : bkt[i].pba = PBA_INVALID}
        old  == {i \in Ways : bkt[i].lru_bit = LRU_MAX}
    IN  IF same # {} THEN Min(same)
        ELSE IF free # {} THEN Min(free)
        ELSE IF old # {} /\ ~bkt[Min(old)].dirty_bit THEN Min(old)
        ELSE 0

\* Mutant: all other entries age.
touch_all(bkt, i) ==
    [j \in Ways |->
        IF j = i THEN [bkt[j] EXCEPT !.lru_bit = 0]
                 ELSE [bkt[j] EXCEPT !.lru_bit = @ + 1]]

\* Mutant: nobody ages.
touch_none(bkt, i) == [bkt EXCEPT ![i].lru_bit = 0]

\* Entry i is the most recently used; the ones that were more recent age.
touch(bkt, i) ==
    [j \in Ways |->
        IF j = i THEN [bkt[j] EXCEPT !.lru_bit = 0]
        ELSE IF bkt[j].lru_bit < bkt[i].lru_bit
        THEN [bkt[j] EXCEPT !.lru_bit = @ + 1]
        ELSE bkt[j]]

fill(bkt, i, fp, dirty, pba) ==
    [touch(bkt, i) EXCEPT ![i] = [fingerprint |-> fp, dirty_bit |-> dirty,
                                  lru_bit |-> 0, pba |-> pba]]

-----------------------------------------------------------------------------
(* A partition table. *)

Cell(fp, hop) == (fp + hop) % PART_TABLE_ENTRYS
HopRange      == 0..(MAX_HOP - 1)

\* The address that the table has for fp.
get_match_entry_f(t, fp) ==
    LET hops == {h \in HopRange : t[Cell(fp, h)].fingerprint = fp}
    IN  IF hops = {} THEN PBA_INVALID ELSE t[Cell(fp, Min(hops))].pba

\* What the insertion that finds no place leaves: the caller aborts.
NoTable == << >>

\* Mutant: the cell that has the fingerprint already is passed.
insert_to_ptable_twice(t, e) ==
    LET hops == {h \in HopRange : t[Cell(e.fingerprint, h)].pba = PBA_INVALID}
    IN  IF t = NoTable \/ hops = {} THEN NoTable
        ELSE [t EXCEPT ![Cell(e.fingerprint, Min(hops))] =
                 [fingerprint |-> e.fingerprint, pba |-> e.pba]]

insert_to_ptable(t, e) ==
    LET hops == {h \in HopRange :
                   LET c == t[Cell(e.fingerprint, h)]
                   IN  c.pba = PBA_INVALID \/ c.fingerprint = e.fingerprint}
    IN  IF t = NoTable \/ hops = {} THEN NoTable
        ELSE [t EXCEPT ![Cell(e.fingerprint, Min(hops))] =
                 [fingerprint |-> e.fingerprint, pba |-> e.pba]]

\* The entries of partition p, bucket by bucket.
PartEntries(bucket, p) ==
    [n \in 1..(BUCKETS_IN_PART * NR_SET) |->
        bucket[p * BUCKETS_IN_PART + (n - 1) \div NR_SET][((n - 1) % NR_SET) + 1]]

\* Table t after the loop over the first n entries of partition p.
TableAfter(t, bucket, p) ==
    LET entry == PartEntries(bucket, p)
        tab[n \in 0..(BUCKETS_IN_PART * NR_SET)] ==
            IF n = 0 THEN t
            ELSE IF entry[n].dirty_bit THEN insert_to_ptable(tab[n - 1], entry[n])
            ELSE tab[n - 1]
    IN  tab

\* Mutant: only the first bucket of the partition is looked at.
update_part_table_one(t, bucket, p) == TableAfter(t, bucket, p)[NR_SET]

\* Table t with the dirty entries of partition p; they are clean afterwards.
update_part_table(t, bucket, p) ==
    TableAfter(t, bucket, p)[BUCKETS_IN_PART * NR_SET]

Cleaned(bucket, p) ==
    [b \in Buckets |->
        IF b \in PartBuckets(p)
        THEN [i \in Ways |-> [bucket[b][i] EXCEPT !.dirty_bit = FALSE]]
        ELSE bucket[b]]
=============================================================================
