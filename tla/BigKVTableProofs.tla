-------------------------- MODULE BigKVTableProofs --------------------------
(***************************************************************************)
(* What the operations of BigKVTable do, for every number of ways, buckets *)
(* and cells: the LRU order of a bucket, the search and the insertion in a *)
(* partition table, and the loop that adds a partition's dirty entries.    *)
(*                                                                         *)
(* Induction is by the smallest counterexample (SmallestOne).              *)
(***************************************************************************)
EXTENDS BigKVTable, WellFoundedInduction, FiniteSetTheorems, TLAPS

-----------------------------------------------------------------------------
(* Numbers. *)

\* A set of natural numbers that is not empty has a smallest element.
LEMMA SmallestOne ==
    ASSUME NEW S \in SUBSET Nat, S # {}
    PROVE  \E n \in S : \A m \in S : n <= m
  <1>1. IsWellFoundedOn(OpToRel(<, Nat), Nat)
    BY NatLessThanWellFounded
  <1>2. PICK n \in S : \A m \in S : ~(<<m, n>> \in OpToRel(<, Nat))
    BY <1>1, WFMin
  <1>3. ASSUME NEW m \in S PROVE n <= m
    <2>1. m < n => <<m, n>> \in OpToRel(<, Nat)
      BY DEF OpToRel
    <2>2. ~(m < n)
      BY <1>2, <2>1
    <2> QED
      BY <2>2
  <1> QED
    BY <1>3

\* The loops that stop at the first of some positions.
LEMMA MinIsFirst ==
    ASSUME NEW S \in SUBSET Nat, S # {}
    PROVE  Min(S) \in S /\ \A m \in S : Min(S) <= m
  BY SmallestOne DEF Min

\* Positions of ways, cells and hops.
LEMMA Sizes ==
    /\ NR_SET \in Nat /\ NR_SET >= 1 /\ LRU_MAX \in Nat /\ LRU_MAX = NR_SET - 1
    /\ MAX_HOP \in Nat /\ PART_TABLE_ENTRYS \in Nat /\ PART_TABLE_ENTRYS >= 1
    /\ BUCKETS_IN_PART \in Nat /\ BUCKETS_IN_PART >= 1 /\ NR_BUCKET \in Nat
    /\ Ways \in SUBSET Nat /\ 0 \notin Ways /\ HopRange \in SUBSET Nat
  BY BigKVTableAssumption DEF LRU_MAX, Ways, HopRange

\* A probe stays in the table.
LEMMA CellIsCell ==
    ASSUME NEW fp \in Nat, NEW h \in Nat
    PROVE  Cell(fp, h) \in Cells
  BY Sizes DEF Cell, Cells
-----------------------------------------------------------------------------
(* Buckets. *)

Occupied(bkt) == {i \in Ways : bkt[i].pba # PBA_INVALID}

\* Unused entries are as bigkv_index_init leaves them; the LRU bits of the n
\* used ones are 0..n-1 in some order; no fingerprint is there twice.
UnusedClear(bkt) ==
    \A i \in Ways : bkt[i].pba = PBA_INVALID =>
        /\ bkt[i].lru_bit = LRU_MAX
        /\ bkt[i].fingerprint = 0
        /\ ~bkt[i].dirty_bit

LruOrder(bkt) ==
    /\ \A i, j \in Occupied(bkt) : bkt[i].lru_bit = bkt[j].lru_bit => i = j
    /\ \A i \in Occupied(bkt) : bkt[i].lru_bit < Cardinality(Occupied(bkt))

Distinct(bkt) ==
    /\ \A i \in Occupied(bkt) : bkt[i].fingerprint # 0
    /\ \A i, j \in Occupied(bkt) : bkt[i].fingerprint = bkt[j].fingerprint => i = j

BucketGood(bkt) ==
    /\ bkt \in [Ways -> CacheEntry]
    /\ UnusedClear(bkt)
    /\ LruOrder(bkt)
    /\ Distinct(bkt)

\* The number of used entries of a bucket.
LEMMA OccupiedFinite ==
    ASSUME NEW bkt
    PROVE  /\ IsFiniteSet(Ways) /\ Cardinality(Ways) = NR_SET
           /\ IsFiniteSet(Occupied(bkt)) /\ Cardinality(Occupied(bkt)) \in Nat
           /\ Cardinality(Occupied(bkt)) <= NR_SET
           /\ Occupied(bkt) # Ways => Cardinality(Occupied(bkt)) <= LRU_MAX
  <1>1. IsFiniteSet(Ways) /\ Cardinality(Ways) = NR_SET
    BY Sizes, FS_Interval DEF Ways
  <1>2. Occupied(bkt) \subseteq Ways
    BY DEF Occupied
  <1>3. /\ IsFiniteSet(Occupied(bkt)) /\ Cardinality(Occupied(bkt)) <= Cardinality(Ways)
        /\ Cardinality(Occupied(bkt)) = Cardinality(Ways) => Occupied(bkt) = Ways
    BY <1>1, <1>2, FS_Subset
  <1>4. Cardinality(Occupied(bkt)) \in Nat
    BY <1>3, FS_CardinalityType
  <1> QED
    BY <1>1, <1>3, <1>4, Sizes

\* A bucket as bigkv_index_init leaves it.
LEMMA EmptyBucketGood == BucketGood(EmptyBucket)
  BY Sizes DEF EmptyBucket, BucketGood, UnusedClear, LruOrder, Distinct, Occupied,
               CacheEntry, PBA_INVALID

\* A full bucket has an entry with the largest LRU value.
LEMMA FullHasOldest ==
    ASSUME NEW bkt, BucketGood(bkt), Occupied(bkt) = Ways
    PROVE  \E i \in Ways : bkt[i].lru_bit = LRU_MAX
  <1> DEFINE f == [i \in Ways |-> bkt[i].lru_bit]
  <1>1. ASSUME NEW i \in Ways PROVE f[i] \in 0..LRU_MAX
    BY DEF BucketGood, CacheEntry
  <1>2. \A i, j \in Ways : f[i] = f[j] => i = j
    BY DEF BucketGood, LruOrder
  <1>3. f \in Injection(Ways, 0..LRU_MAX)
    BY <1>1, <1>2 DEF Injection, IsInjective
  <1>4. IsFiniteSet(0..LRU_MAX) /\ Cardinality(0..LRU_MAX) = NR_SET
    BY Sizes, FS_Interval
  <1> HIDE DEF f
  <1>5. f \in Surjection(Ways, 0..LRU_MAX)
    BY <1>3, <1>4, OccupiedFinite, FS_Injection
  <1>6. LRU_MAX \in 0..LRU_MAX
    BY Sizes
  <1>7. PICK i \in Ways : f[i] = LRU_MAX
    BY <1>5, <1>6 DEF Surjection
  <1> QED
    BY <1>7 DEF f

\* The entry that get_match_entry finds is the one with the fingerprint.
LEMMA MatchEntry ==
    ASSUME NEW bkt, NEW fp, NEW m, m = get_match_entry(bkt, fp)
    PROVE  /\ m # 0 => m \in Occupied(bkt) /\ bkt[m].fingerprint = fp
           /\ m = 0 => \A i \in Occupied(bkt) : bkt[i].fingerprint # fp
           /\ m \in Nat
  <1> DEFINE S == {i \in Ways : bkt[i].pba # PBA_INVALID /\ bkt[i].fingerprint = fp}
  <1>1. S \in SUBSET Nat /\ 0 \notin S
    BY Sizes
  <1>2. m = FirstOf(S, 0)
    BY DEF get_match_entry
  <1>3. CASE S = {}
    BY <1>2, <1>3 DEF FirstOf, Occupied
  <1>4. CASE S # {}
    <2> HIDE DEF S
    <2>1. m \in S
      BY <1>1, <1>2, <1>4, MinIsFirst DEF FirstOf
    <2> QED
      BY <1>1, <2>1 DEF S, Occupied
  <1> QED
    BY <1>3, <1>4

\* get_match_entry finds a used entry by its fingerprint.
LEMMA MatchUnique ==
    ASSUME NEW bkt, BucketGood(bkt), NEW i \in Occupied(bkt)
    PROVE  get_match_entry(bkt, bkt[i].fingerprint) = i
  <1>1. PICK m : m = get_match_entry(bkt, bkt[i].fingerprint)
    OBVIOUS
  <1>2. m # 0
    BY <1>1, MatchEntry
  <1> QED
    BY <1>1, <1>2, MatchEntry DEF BucketGood, Distinct

\* The entry that get_target_entry chooses: the key's own, a free one, or a
\* clean one of a full bucket.
LEMMA TargetEntry ==
    ASSUME NEW bkt, BucketGood(bkt), NEW fp \in Nat, fp # 0,
           NEW i, i = get_target_entry(bkt, fp)
    PROVE  /\ i # 0 => /\ i \in Ways
                       /\ \A j \in Ways : bkt[j].fingerprint = fp => j = i
                       /\ i \in Occupied(bkt) => bkt[i].fingerprint = fp \/ ~bkt[i].dirty_bit
           /\ i = 0 => /\ \A j \in Ways : bkt[j].fingerprint # fp
                       /\ Occupied(bkt) = Ways
                       /\ \E j \in Ways : bkt[j].dirty_bit
  <1> DEFINE same == {j \in Ways : bkt[j].fingerprint = fp}
             free == {j \in Ways : bkt[j].pba = PBA_INVALID}
             old  == {j \in Ways : bkt[j].lru_bit = LRU_MAX}
  <1>0. i = IF same # {} THEN Min(same)
            ELSE IF free # {} THEN Min(free)
            ELSE IF old # {} /\ ~bkt[Min(old)].dirty_bit THEN Min(old)
            ELSE 0
    BY DEF get_target_entry
  <1>1. same \in SUBSET Nat /\ free \in SUBSET Nat /\ old \in SUBSET Nat
    BY Sizes
  <1>2. 0 \notin Ways
    BY Sizes
  <1>3. CASE same # {}
    <2>1. i = Min(same)
      BY <1>0, <1>3
    <2>2. i \in same
      <3> HIDE DEF same, free, old
      <3> QED
        BY <1>1, <1>3, <2>1, MinIsFirst
    <2>3. \A j \in same : j \in Occupied(bkt)
      BY DEF BucketGood, UnusedClear, Occupied
    <2>4. \A j \in same : j = i
      BY <2>2, <2>3 DEF BucketGood, Distinct
    <2> QED
      BY <1>2, <2>2, <2>4
  <1>4. CASE same = {} /\ free # {}
    <2>1. i = Min(free)
      BY <1>0, <1>4
    <2>2. i \in free
      <3> HIDE DEF same, free, old
      <3> QED
        BY <1>1, <1>4, <2>1, MinIsFirst
    <2> QED
      BY <1>2, <1>4, <2>2 DEF Occupied
  <1>5. CASE same = {} /\ free = {}
    <2>1. Occupied(bkt) = Ways
      BY <1>5 DEF Occupied
    <2>2. old # {}
      BY <2>1, FullHasOldest
    <2>3. Min(old) \in old
      <3> HIDE DEF old
      <3> QED
        BY <1>1, <2>2, MinIsFirst
    <2>4. CASE ~bkt[Min(old)].dirty_bit
      <3>1. i = Min(old)
        BY <1>0, <1>5, <2>2, <2>4
      <3> QED
        BY <1>2, <1>5, <2>3, <2>4, <3>1
    <2>5. CASE bkt[Min(old)].dirty_bit
      <3>1. i = 0
        BY <1>0, <1>5, <2>5
      <3> QED
        BY <1>2, <1>5, <2>1, <2>3, <2>5, <3>1
    <2> QED
      BY <2>4, <2>5
  <1> QED
    BY <1>3, <1>4, <1>5

\* With no dirty entry there is always an entry to use.
LEMMA CleanHasTarget ==
    ASSUME NEW bkt, BucketGood(bkt), NEW fp \in Nat, fp # 0,
           \A j \in Ways : ~bkt[j].dirty_bit
    PROVE  get_target_entry(bkt, fp) # 0
  BY TargetEntry

-----------------------------------------------------------------------------
(* Hits and fills. *)

\* b2 is bkt with entry i the most recently used one; entries but i keep all
\* but their LRU bits.
Aged(b2, bkt, i) ==
    /\ b2 \in [Ways -> CacheEntry]
    /\ b2[i].lru_bit = 0
    /\ \A j \in Ways \ {i} :
          /\ b2[j].fingerprint = bkt[j].fingerprint
          /\ b2[j].dirty_bit = bkt[j].dirty_bit
          /\ b2[j].pba = bkt[j].pba
          /\ b2[j].lru_bit = IF bkt[j].lru_bit < bkt[i].lru_bit
                             THEN bkt[j].lru_bit + 1 ELSE bkt[j].lru_bit

\* A touched entry is the youngest, and those that were younger age by one.
LEMMA TouchAges ==
    ASSUME NEW bkt \in [Ways -> CacheEntry], NEW i \in Ways
    PROVE  /\ Aged(touch(bkt, i), bkt, i)
           /\ touch(bkt, i)[i].fingerprint = bkt[i].fingerprint
           /\ touch(bkt, i)[i].dirty_bit = bkt[i].dirty_bit
           /\ touch(bkt, i)[i].pba = bkt[i].pba
  <1> DEFINE b2 == touch(bkt, i)
  <1>1. ASSUME NEW j \in Ways
        PROVE  b2[j] = IF j = i THEN [bkt[j] EXCEPT !.lru_bit = 0]
                       ELSE IF bkt[j].lru_bit < bkt[i].lru_bit
                       THEN [bkt[j] EXCEPT !.lru_bit = bkt[j].lru_bit + 1]
                       ELSE bkt[j]
    BY DEF touch
  <1>2. ASSUME NEW j \in Ways PROVE b2[j] \in CacheEntry
    <2>1. bkt[j] \in CacheEntry /\ bkt[i] \in CacheEntry
      OBVIOUS
    <2>2. bkt[j].lru_bit \in 0..LRU_MAX /\ bkt[i].lru_bit \in 0..LRU_MAX
      BY <2>1 DEF CacheEntry
    <2>3. bkt[j].lru_bit < bkt[i].lru_bit => bkt[j].lru_bit + 1 \in 0..LRU_MAX
      BY <2>2, Sizes
    <2>4. 0 \in 0..LRU_MAX
      BY Sizes
    <2> QED
      BY <1>1, <2>1, <2>3, <2>4 DEF CacheEntry
  <1>3. b2 \in [Ways -> CacheEntry]
    BY <1>2 DEF touch
  <1>4. ASSUME NEW j \in Ways \ {i}
        PROVE  /\ b2[j].fingerprint = bkt[j].fingerprint
               /\ b2[j].dirty_bit = bkt[j].dirty_bit
               /\ b2[j].pba = bkt[j].pba
               /\ b2[j].lru_bit = IF bkt[j].lru_bit < bkt[i].lru_bit
                                  THEN bkt[j].lru_bit + 1 ELSE bkt[j].lru_bit
    <2>1. bkt[j] \in CacheEntry
      OBVIOUS
    <2> QED
      BY <1>1, <2>1 DEF CacheEntry
  <1>5. /\ b2[i].fingerprint = bkt[i].fingerprint
        /\ b2[i].dirty_bit = bkt[i].dirty_bit
        /\ b2[i].pba = bkt[i].pba
        /\ b2[i].lru_bit = 0
    <2>1. bkt[i] \in CacheEntry
      OBVIOUS
    <2> QED
      BY <1>1, <2>1 DEF CacheEntry
  <1> HIDE DEF b2
  <1>6. Aged(b2, bkt, i)
    BY <1>3, <1>4, <1>5 DEF Aged
  <1> QED
    BY <1>5, <1>6 DEF b2

\* So is a filled one, with its new contents.
LEMMA FillAges ==
    ASSUME NEW bkt \in [Ways -> CacheEntry], NEW i \in Ways, NEW fp \in Nat,
           NEW dirty \in BOOLEAN, NEW pba \in Nat
    PROVE  /\ Aged(fill(bkt, i, fp, dirty, pba), bkt, i)
           /\ fill(bkt, i, fp, dirty, pba)[i].fingerprint = fp
           /\ fill(bkt, i, fp, dirty, pba)[i].dirty_bit = dirty
           /\ fill(bkt, i, fp, dirty, pba)[i].pba = pba
  <1> DEFINE b1 == touch(bkt, i)
             e  == [fingerprint |-> fp, dirty_bit |-> dirty, lru_bit |-> 0, pba |-> pba]
             b2 == fill(bkt, i, fp, dirty, pba)
  <1>1. Aged(b1, bkt, i)
    BY TouchAges
  <1>2. e \in CacheEntry
    BY Sizes DEF CacheEntry
  <1>3. /\ e.fingerprint = fp /\ e.dirty_bit = dirty
        /\ e.lru_bit = 0 /\ e.pba = pba
    OBVIOUS
  <1>4. b2 = [b1 EXCEPT ![i] = e]
    BY DEF fill
  <1> HIDE DEF b1, e, b2
  <1>5. b1 \in [Ways -> CacheEntry]
    BY <1>1 DEF Aged
  <1>6. b2 \in [Ways -> CacheEntry] /\ b2[i] = e /\ \A j \in Ways \ {i} : b2[j] = b1[j]
    BY <1>2, <1>4, <1>5
  <1>7. Aged(b2, bkt, i)
    BY <1>1, <1>3, <1>6 DEF Aged
  <1> QED
    BY <1>3, <1>6, <1>7 DEF b2

\* A bucket stays in order when one entry is used, its own or a new one.
LEMMA AgedGood ==
    ASSUME NEW bkt, BucketGood(bkt), NEW i \in Ways, NEW b2, Aged(b2, bkt, i),
           b2[i].pba # PBA_INVALID, b2[i].fingerprint # 0,
           \A j \in Occupied(bkt) : bkt[j].fingerprint = b2[i].fingerprint => j = i
    PROVE  BucketGood(b2) /\ Occupied(b2) = Occupied(bkt) \cup {i}
  <1>1. Occupied(b2) = Occupied(bkt) \cup {i}
    BY DEF Aged, Occupied
  <1>2. PICK n : n = Cardinality(Occupied(bkt))
    OBVIOUS
  <1>3. PICK m : m = Cardinality(Occupied(b2))
    OBVIOUS
  <1>4. n \in Nat /\ m = IF i \in Occupied(bkt) THEN n ELSE n + 1
    BY <1>1, <1>2, <1>3, OccupiedFinite, FS_AddElement
  <1>5. \A j \in Ways : bkt[j].lru_bit \in Nat /\ bkt[j].lru_bit <= LRU_MAX
    BY Sizes DEF BucketGood, CacheEntry
  <1>6. \A j \in Occupied(bkt) : bkt[j].lru_bit < n
    BY <1>2 DEF BucketGood, LruOrder
  <1>7. i \notin Occupied(bkt) => bkt[i].lru_bit = LRU_MAX /\ n <= LRU_MAX
    <2>1. i \notin Occupied(bkt) => Occupied(bkt) # Ways
      OBVIOUS
    <2> QED
      BY <1>2, <2>1, OccupiedFinite DEF BucketGood, UnusedClear, Occupied
  <1>8. UnusedClear(b2)
    <2> SUFFICES ASSUME NEW j \in Ways, b2[j].pba = PBA_INVALID
                 PROVE  b2[j].lru_bit = LRU_MAX /\ b2[j].fingerprint = 0 /\ ~b2[j].dirty_bit
      BY DEF UnusedClear
    <2>1. j # i
      OBVIOUS
    <2>2. /\ bkt[j].pba = PBA_INVALID
          /\ b2[j].fingerprint = bkt[j].fingerprint
          /\ b2[j].dirty_bit = bkt[j].dirty_bit
          /\ b2[j].lru_bit = IF bkt[j].lru_bit < bkt[i].lru_bit
                             THEN bkt[j].lru_bit + 1 ELSE bkt[j].lru_bit
      BY <2>1 DEF Aged
    <2>3. bkt[j].lru_bit = LRU_MAX /\ bkt[j].fingerprint = 0 /\ ~bkt[j].dirty_bit
      BY <2>2 DEF BucketGood, UnusedClear
    <2>4. ~(bkt[j].lru_bit < bkt[i].lru_bit)
      BY <1>5, <2>3, Sizes
    <2> QED
      BY <2>2, <2>3, <2>4
  <1>9. LruOrder(b2)
    <2>1. ASSUME NEW j \in Occupied(b2), j # i
          PROVE  /\ j \in Occupied(bkt) /\ j \in Ways
                 /\ b2[j].lru_bit = IF bkt[j].lru_bit < bkt[i].lru_bit
                                    THEN bkt[j].lru_bit + 1 ELSE bkt[j].lru_bit
      BY <1>1, <2>1 DEF Aged, Occupied
    <2>2. b2[i].lru_bit = 0
      BY DEF Aged
    <2>3. ASSUME NEW j \in Occupied(b2), j # i
          PROVE  bkt[j].lru_bit # bkt[i].lru_bit
      <3>1. CASE i \in Occupied(bkt)
        BY <2>1, <2>3, <3>1 DEF BucketGood, LruOrder
      <3>2. CASE i \notin Occupied(bkt)
        <4>1. bkt[j].lru_bit < n /\ bkt[j].lru_bit \in Nat
          BY <1>5, <1>6, <2>1, <2>3
        <4> QED
          BY <1>4, <1>7, <3>2, <4>1, Sizes
      <3> QED
        BY <3>1, <3>2
    <2>4. ASSUME NEW j \in Occupied(b2), j # i
          PROVE  b2[j].lru_bit \in Nat /\ b2[j].lru_bit >= 1 /\ b2[j].lru_bit < m
      <3>1. /\ bkt[j].lru_bit \in Nat /\ bkt[i].lru_bit \in Nat
            /\ bkt[j].lru_bit < n /\ bkt[j].lru_bit # bkt[i].lru_bit
        BY <1>5, <1>6, <2>1, <2>3, <2>4
      <3>2. i \in Occupied(bkt) => bkt[i].lru_bit < n
        BY <1>6
      <3> QED
        BY <1>4, <2>1, <2>4, <3>1, <3>2
    <2>5. b2[i].lru_bit < m
      <3>1. i \in Occupied(bkt) => bkt[i].lru_bit < n
        BY <1>6
      <3> QED
        BY <1>4, <1>5, <2>2, <3>1
    <2>6. ASSUME NEW j \in Occupied(b2), NEW l \in Occupied(b2),
                 b2[j].lru_bit = b2[l].lru_bit
          PROVE  j = l
      <3>1. CASE j = i /\ l # i
        BY <2>2, <2>4, <2>6, <3>1
      <3>2. CASE j # i /\ l = i
        BY <2>2, <2>4, <2>6, <3>2
      <3>3. CASE j # i /\ l # i
        <4>1. /\ bkt[j].lru_bit \in Nat /\ bkt[i].lru_bit \in Nat
              /\ bkt[l].lru_bit \in Nat
              /\ bkt[j].lru_bit # bkt[i].lru_bit /\ bkt[l].lru_bit # bkt[i].lru_bit
          BY <1>5, <2>1, <2>3, <3>3
        <4>2. bkt[j].lru_bit = bkt[l].lru_bit
          BY <2>1, <2>6, <3>3, <4>1
        <4> QED
          BY <2>1, <3>3, <4>2 DEF BucketGood, LruOrder
      <3> QED
        BY <3>1, <3>2, <3>3
    <2>7. ASSUME NEW j \in Occupied(b2) PROVE b2[j].lru_bit < m
      BY <2>4, <2>5
    <2> QED
      BY <1>3, <2>6, <2>7 DEF LruOrder
  <1>10. Distinct(b2)
    <2>1. ASSUME NEW j \in Occupied(b2), j # i
          PROVE  /\ j \in Occupied(bkt) /\ b2[j].fingerprint = bkt[j].fingerprint
      BY <1>1, <2>1 DEF Aged, Occupied
    <2> QED
      BY <2>1 DEF BucketGood, Distinct
  <1> QED
    BY <1>1, <1>8, <1>9, <1>10 DEF BucketGood, Aged

\* A hit.
LEMMA TouchGood ==
    ASSUME NEW bkt, BucketGood(bkt), NEW i \in Occupied(bkt)
    PROVE  /\ BucketGood(touch(bkt, i))
           /\ \A j \in Ways :
                 /\ touch(bkt, i)[j].fingerprint = bkt[j].fingerprint
                 /\ touch(bkt, i)[j].dirty_bit = bkt[j].dirty_bit
                 /\ touch(bkt, i)[j].pba = bkt[j].pba
  <1> DEFINE b2 == touch(bkt, i)
  <1>1. i \in Ways /\ bkt \in [Ways -> CacheEntry]
    BY DEF Occupied, BucketGood
  <1>2. /\ Aged(b2, bkt, i)
        /\ b2[i].fingerprint = bkt[i].fingerprint
        /\ b2[i].dirty_bit = bkt[i].dirty_bit
        /\ b2[i].pba = bkt[i].pba
    BY <1>1, TouchAges
  <1> HIDE DEF b2
  <1>3. /\ b2[i].pba # PBA_INVALID /\ b2[i].fingerprint # 0
        /\ \A j \in Occupied(bkt) : bkt[j].fingerprint = b2[i].fingerprint => j = i
    BY <1>2 DEF BucketGood, Distinct, Occupied
  <1>4. BucketGood(b2)
    BY <1>1, <1>2, <1>3, AgedGood
  <1> QED
    BY <1>2, <1>4 DEF Aged, b2

\* A fill of the entry that get_target_entry chose.
Filled(b2, bkt, i, fp, dirty, pba) ==
    /\ BucketGood(b2)
    /\ i \in Ways
    /\ b2[i].fingerprint = fp /\ b2[i].dirty_bit = dirty /\ b2[i].pba = pba
    /\ \A j \in Ways \ {i} :
          /\ bkt[j].fingerprint # fp
          /\ b2[j].fingerprint = bkt[j].fingerprint
          /\ b2[j].dirty_bit = bkt[j].dirty_bit
          /\ b2[j].pba = bkt[j].pba
    /\ bkt[i].pba # PBA_INVALID => bkt[i].fingerprint = fp \/ ~bkt[i].dirty_bit

\* Filling the entry that get_target_entry gives keeps a bucket in order.
LEMMA FillGood ==
    ASSUME NEW bkt, BucketGood(bkt), NEW fp \in Nat, fp # 0,
           NEW i, i = get_target_entry(bkt, fp), i # 0,
           NEW dirty \in BOOLEAN, NEW pba \in Nat, pba # PBA_INVALID
    PROVE  Filled(fill(bkt, i, fp, dirty, pba), bkt, i, fp, dirty, pba)
  <1> DEFINE b2 == fill(bkt, i, fp, dirty, pba)
  <1>1. /\ i \in Ways /\ bkt \in [Ways -> CacheEntry]
        /\ \A j \in Ways : bkt[j].fingerprint = fp => j = i
        /\ i \in Occupied(bkt) => bkt[i].fingerprint = fp \/ ~bkt[i].dirty_bit
    BY TargetEntry DEF BucketGood
  <1>2. /\ Aged(b2, bkt, i)
        /\ b2[i].fingerprint = fp
        /\ b2[i].dirty_bit = dirty
        /\ b2[i].pba = pba
    <2>1. i \in Ways
      BY <1>1
    <2>2. bkt \in [Ways -> CacheEntry]
      BY <1>1
    <2>3. Aged(b2, bkt, i)
      BY <2>1, <2>2, FillAges
    <2>4. b2[i].fingerprint = fp
      BY <2>1, <2>2, FillAges
    <2>5. b2[i].dirty_bit = dirty
      BY <2>1, <2>2, FillAges
    <2>6. b2[i].pba = pba
      BY <2>1, <2>2, FillAges
    <2> QED
      BY <2>3, <2>4, <2>5, <2>6
  <1> HIDE DEF b2
  <1>3. \A j \in Occupied(bkt) : bkt[j].fingerprint = b2[i].fingerprint => j = i
    BY <1>1, <1>2 DEF Occupied
  <1>4. BucketGood(b2)
    BY <1>1, <1>2, <1>3, AgedGood
  <1>5. Filled(b2, bkt, i, fp, dirty, pba)
    BY <1>1, <1>2, <1>4 DEF Filled, Aged, Occupied
  <1> QED
    BY <1>5 DEF b2

\* Writing a partition's table cleans its buckets and changes nothing else.
LEMMA CleanedGood ==
    ASSUME NEW bucket, NEW p, NEW b \in Buckets, BucketGood(bucket[b])
    PROVE  /\ BucketGood(Cleaned(bucket, p)[b])
           /\ b \notin PartBuckets(p) => Cleaned(bucket, p)[b] = bucket[b]
           /\ \A i \in Ways :
                 /\ Cleaned(bucket, p)[b][i].fingerprint = bucket[b][i].fingerprint
                 /\ Cleaned(bucket, p)[b][i].pba = bucket[b][i].pba
                 /\ b \in PartBuckets(p) => ~Cleaned(bucket, p)[b][i].dirty_bit
  <1> DEFINE b2 == Cleaned(bucket, p)[b]
             bkt == bucket[b]
  <1>1. b2 = IF b \in PartBuckets(p)
             THEN [i \in Ways |-> [bkt[i] EXCEPT !.dirty_bit = FALSE]] ELSE bkt
    BY DEF Cleaned
  <1>2. bkt \in [Ways -> CacheEntry] /\ \A i \in Ways : bkt[i] \in CacheEntry
    BY DEF BucketGood
  <1>3. CASE b \notin PartBuckets(p)
    BY <1>1, <1>3
  <1>4. CASE b \in PartBuckets(p)
    <2>1. b2 = [i \in Ways |-> [bkt[i] EXCEPT !.dirty_bit = FALSE]]
      BY <1>1, <1>4
    <2>2. ASSUME NEW i \in Ways
          PROVE  /\ b2[i] \in CacheEntry
                 /\ b2[i].fingerprint = bkt[i].fingerprint
                 /\ b2[i].pba = bkt[i].pba
                 /\ b2[i].lru_bit = bkt[i].lru_bit
                 /\ ~b2[i].dirty_bit
      <3>1. b2[i] = [bkt[i] EXCEPT !.dirty_bit = FALSE] /\ bkt[i] \in CacheEntry
        BY <1>2, <2>1
      <3> HIDE DEF b2, bkt
      <3> QED
        BY <3>1 DEF CacheEntry
    <2>3. b2 \in [Ways -> CacheEntry]
      BY <2>1, <2>2
    <2> HIDE DEF b2
    <2>4. Occupied(b2) = Occupied(bkt)
      BY <2>2 DEF Occupied
    <2>5. BucketGood(bkt)
      OBVIOUS
    <2> HIDE DEF bkt
    <2>6. UnusedClear(b2)
      BY <2>2, <2>5 DEF BucketGood, UnusedClear
    <2>7. \A i \in Occupied(bkt) : i \in Ways
      BY DEF Occupied
    <2>8. LruOrder(b2)
      BY <2>2, <2>4, <2>5, <2>7 DEF BucketGood, LruOrder
    <2>9. Distinct(b2)
      BY <2>2, <2>4, <2>5, <2>7 DEF BucketGood, Distinct
    <2>10. BucketGood(b2)
      BY <2>3, <2>6, <2>8, <2>9 DEF BucketGood
    <2> QED
      BY <1>4, <2>2, <2>10 DEF b2, bkt
  <1> QED
    BY <1>3, <1>4

-----------------------------------------------------------------------------
(* Partition tables. *)

\* Cell c is in use and can be found from the first cell of its fingerprint:
\* all cells before it are in use.
Reachable(t, c) ==
    \E h \in HopRange : /\ c = Cell(t[c].fingerprint, h)
                        /\ \A g \in 0..(h - 1) :
                              t[Cell(t[c].fingerprint, g)].pba # PBA_INVALID

TableGood(t) ==
    /\ t \in [Cells -> TableEntry]
    /\ \A c \in Cells : t[c].pba = PBA_INVALID <=> t[c].fingerprint = 0
    /\ \A c \in Cells : t[c].pba # PBA_INVALID => Reachable(t, c)
    /\ \A c, d \in Cells :
          t[c].fingerprint = t[d].fingerprint /\ t[c].pba # PBA_INVALID => c = d

\* The result of a failed insertion is told from every table.
LEMMA TableIsTable ==
    ASSUME NEW t \in [Cells -> TableEntry]
    PROVE  t # NoTable
  <1>1. 0 \in Cells /\ DOMAIN t = Cells
    BY Sizes DEF Cells
  <1>2. 0 \notin DOMAIN NoTable
    BY DEF NoTable
  <1> QED
    BY <1>1, <1>2

\* The table of a partition that had none.
LEMMA EmptyTableGood ==
    /\ TableGood(EmptyTable)
    /\ \A c \in Cells : EmptyTable[c].fingerprint = 0
  BY DEF EmptyTable, TableGood, TableEntry, PBA_INVALID

\* get_match_entry_f finds the fingerprint wherever it is in the table.
LEMMA TableFinds ==
    ASSUME NEW t, TableGood(t), NEW c \in Cells, t[c].pba # PBA_INVALID
    PROVE  get_match_entry_f(t, t[c].fingerprint) = t[c].pba
  <1>0. PICK fp : fp = t[c].fingerprint
    OBVIOUS
  <1>1. fp \in Nat
    BY <1>0 DEF TableGood, TableEntry
  <1> DEFINE hops == {h \in HopRange : t[Cell(fp, h)].fingerprint = fp}
  <1>2. hops \in SUBSET Nat
    BY Sizes
  <1>3. PICK h \in HopRange : c = Cell(fp, h)
    BY <1>0 DEF TableGood, Reachable
  <1>4. h \in hops
    BY <1>0, <1>3
  <1>5. get_match_entry_f(t, fp) = t[Cell(fp, Min(hops))].pba
    BY <1>4 DEF get_match_entry_f
  <1>6. Min(hops) \in hops
    <2> HIDE DEF hops
    <2> QED
      BY <1>2, <1>4, MinIsFirst
  <1>7. Cell(fp, Min(hops)) \in Cells /\ t[Cell(fp, Min(hops))].fingerprint = fp
    BY <1>1, <1>2, <1>6, CellIsCell
  <1>8. Cell(fp, Min(hops)) = c
    BY <1>0, <1>7 DEF TableGood
  <1> QED
    BY <1>0, <1>5, <1>8

\* A fingerprint that is in no cell is not found.
LEMMA TableMisses ==
    ASSUME NEW t, NEW fp \in Nat, \A c \in Cells : t[c].fingerprint # fp
    PROVE  get_match_entry_f(t, fp) = PBA_INVALID
  <1>1. \A h \in HopRange : Cell(fp, h) \in Cells
    BY Sizes, CellIsCell
  <1> QED
    BY <1>1 DEF get_match_entry_f

\* A search finds a fingerprint exactly when a cell has it.
LEMMA TableMatch ==
    ASSUME NEW t, TableGood(t), NEW fp \in Nat, fp # 0
    PROVE  \/ \E c \in Cells : /\ t[c].fingerprint = fp
                               /\ t[c].pba # PBA_INVALID
                               /\ get_match_entry_f(t, fp) = t[c].pba
           \/ /\ \A c \in Cells : t[c].fingerprint # fp
              /\ get_match_entry_f(t, fp) = PBA_INVALID
  <1>1. ASSUME NEW c \in Cells, t[c].fingerprint = fp
        PROVE  t[c].pba # PBA_INVALID /\ get_match_entry_f(t, fp) = t[c].pba
    <2>1. t[c].pba # PBA_INVALID
      BY <1>1 DEF TableGood
    <2> QED
      BY <1>1, <2>1, TableFinds
  <1> QED
    BY <1>1, TableMisses

\* What the insertion leaves, if it finds a place.
Inserted(t2, t, c, fp, pba) ==
    /\ c \in Cells
    /\ t2 \in [Cells -> TableEntry]
    /\ t2[c].fingerprint = fp /\ t2[c].pba = pba
    /\ \A d \in Cells \ {c} : t2[d] = t[d] /\ t[d].fingerprint # fp
    /\ t[c].pba = PBA_INVALID \/ t[c].fingerprint = fp
    /\ Reachable(t2, c)

\* insert_to_ptable fills one cell: the fingerprint's own, or the first free
\* one on its way.
LEMMA InsertPlace ==
    ASSUME NEW t, TableGood(t), NEW e \in CacheEntry, e.fingerprint # 0,
           e.pba # PBA_INVALID, insert_to_ptable(t, e) # NoTable
    PROVE  \E c \in Cells :
               Inserted(insert_to_ptable(t, e), t, c, e.fingerprint, e.pba)
  <1>0. PICK fp, pba : fp = e.fingerprint /\ pba = e.pba
    OBVIOUS
  <1>1. fp \in Nat /\ pba \in Nat /\ fp # 0 /\ pba # PBA_INVALID
    BY <1>0 DEF CacheEntry
  <1> DEFINE hops == {h \in HopRange : \/ t[Cell(fp, h)].pba = PBA_INVALID
                                       \/ t[Cell(fp, h)].fingerprint = fp}
             h0 == Min(hops)
             c  == Cell(fp, h0)
             t2 == insert_to_ptable(t, e)
  <1>2. hops \in SUBSET Nat /\ \A h \in HopRange : h \in Nat /\ Cell(fp, h) \in Cells
    BY <1>1, Sizes, CellIsCell
  <1>3. /\ t # NoTable /\ hops # {}
        /\ t2 = [t EXCEPT ![c] = [fingerprint |-> fp, pba |-> pba]]
    BY <1>0 DEF insert_to_ptable
  <1> HIDE DEF hops, t2
  <1>4. h0 \in hops /\ \A h \in hops : h0 <= h
    BY <1>2, <1>3, MinIsFirst
  <1> HIDE DEF h0
  <1>5. h0 \in HopRange /\ h0 \in Nat /\ c \in Cells
    BY <1>2, <1>4 DEF hops
  <1>6. t[c].pba = PBA_INVALID \/ t[c].fingerprint = fp
    BY <1>4 DEF hops
  <1>7. ASSUME NEW g \in 0..(h0 - 1)
        PROVE  t[Cell(fp, g)].pba # PBA_INVALID /\ Cell(fp, g) # c
    <2>1. g \in HopRange /\ g < h0 /\ g \in Nat
      BY <1>5, Sizes DEF HopRange
    <2>2. g \notin hops
      BY <1>4, <1>5, <2>1
    <2>3. t[Cell(fp, g)].pba # PBA_INVALID /\ t[Cell(fp, g)].fingerprint # fp
      BY <2>1, <2>2 DEF hops
    <2> QED
      BY <1>6, <2>3
  <1>8. ASSUME NEW d \in Cells \ {c}
        PROVE  t2[d] = t[d] /\ t[d].fingerprint # fp
    <2>1. t2[d] = t[d]
      BY <1>3 DEF TableGood
    <2>2. ASSUME t[d].fingerprint = fp PROVE FALSE
      <3>1. t[d].pba # PBA_INVALID
        BY <1>1, <2>2 DEF TableGood
      <3>2. PICK h \in HopRange : /\ d = Cell(fp, h)
                                  /\ \A g \in 0..(h - 1) :
                                        t[Cell(fp, g)].pba # PBA_INVALID
        BY <2>2, <3>1 DEF TableGood, Reachable
      <3>3. h \in hops
        BY <2>2, <3>2 DEF hops
      <3>4. h0 <= h /\ h \in Nat /\ h # h0
        BY <1>2, <1>4, <3>2, <3>3
      <3>5. h0 \in 0..(h - 1)
        BY <1>5, <3>4
      <3>6. t[c].pba # PBA_INVALID
        BY <3>2, <3>5
      <3>7. t[c].fingerprint = t[d].fingerprint
        BY <1>6, <2>2, <3>6
      <3> QED
        BY <1>5, <3>6, <3>7 DEF TableGood
    <2> QED
      BY <2>1, <2>2
  <1>9. /\ t2[c] = [fingerprint |-> fp, pba |-> pba]
        /\ t2 \in [Cells -> TableEntry]
    BY <1>1, <1>3, <1>5 DEF TableGood, TableEntry
  <1>10. t2[c].fingerprint = fp /\ t2[c].pba = pba
    BY <1>9
  <1>11. Reachable(t2, c)
    <2>1. ASSUME NEW g \in 0..(h0 - 1) PROVE t2[Cell(fp, g)].pba # PBA_INVALID
      <3>1. g \in HopRange
        BY <1>5, Sizes DEF HopRange
      <3>2. Cell(fp, g) \in Cells \ {c}
        BY <1>2, <1>7, <3>1
      <3> QED
        BY <1>7, <1>8, <3>2
    <2> QED
      BY <1>5, <1>10, <2>1 DEF Reachable
  <1>12. Inserted(t2, t, c, fp, pba)
    BY <1>5, <1>6, <1>8, <1>9, <1>10, <1>11 DEF Inserted
  <1> QED
    BY <1>0, <1>5, <1>12 DEF t2

\* The insertion keeps a table in order, and changes what is found for the
\* inserted fingerprint only.
LEMMA InsertGood ==
    ASSUME NEW t, TableGood(t), NEW e \in CacheEntry, e.fingerprint # 0,
           e.pba # PBA_INVALID, insert_to_ptable(t, e) # NoTable
    PROVE  /\ TableGood(insert_to_ptable(t, e))
           /\ get_match_entry_f(insert_to_ptable(t, e), e.fingerprint) = e.pba
           /\ \A fp \in Nat \ {0, e.fingerprint} :
                 get_match_entry_f(insert_to_ptable(t, e), fp) = get_match_entry_f(t, fp)
  <1>0. PICK fp, pba : fp = e.fingerprint /\ pba = e.pba
    OBVIOUS
  <1>1. fp \in Nat /\ pba \in Nat /\ fp # 0 /\ pba # PBA_INVALID
    BY <1>0 DEF CacheEntry
  <1> DEFINE t2 == insert_to_ptable(t, e)
  <1>2. PICK c \in Cells : Inserted(t2, t, c, fp, pba)
    BY <1>0, InsertPlace
  <1> HIDE DEF t2
  <1>3. /\ t2 \in [Cells -> TableEntry] /\ t2[c].fingerprint = fp /\ t2[c].pba = pba
        /\ \A d \in Cells \ {c} : t2[d] = t[d] /\ t[d].fingerprint # fp
        /\ t[c].pba = PBA_INVALID \/ t[c].fingerprint = fp
        /\ Reachable(t2, c)
    BY <1>2 DEF Inserted
  <1>4. ASSUME NEW d \in Cells PROVE t2[d].pba = PBA_INVALID <=> t2[d].fingerprint = 0
    BY <1>1, <1>3 DEF TableGood
  <1>5. ASSUME NEW d \in Cells, t2[d].pba # PBA_INVALID PROVE Reachable(t2, d)
    <2>1. CASE d = c
      BY <1>3, <2>1
    <2>2. CASE d # c
      <3>1. t2[d] = t[d] /\ t[d].pba # PBA_INVALID
        BY <1>3, <1>5, <2>2
      <3>2. t[d].fingerprint \in Nat
        BY DEF TableGood, TableEntry
      <3>3. PICK h \in HopRange : /\ d = Cell(t[d].fingerprint, h)
                                  /\ \A g \in 0..(h - 1) :
                                        t[Cell(t[d].fingerprint, g)].pba # PBA_INVALID
        BY <3>1 DEF TableGood, Reachable
      <3>4. ASSUME NEW g \in 0..(h - 1)
            PROVE  t2[Cell(t[d].fingerprint, g)].pba # PBA_INVALID
        <4>1. Cell(t[d].fingerprint, g) \in Cells
          BY <3>2, CellIsCell, Sizes
        <4> QED
          BY <1>1, <1>3, <3>3, <4>1
      <3> QED
        BY <3>1, <3>3, <3>4 DEF Reachable
    <2> QED
      BY <2>1, <2>2
  <1>6. ASSUME NEW d1 \in Cells, NEW d2 \in Cells,
               t2[d1].fingerprint = t2[d2].fingerprint, t2[d1].pba # PBA_INVALID
        PROVE  d1 = d2
    <2>1. CASE d1 # c /\ d2 # c
      BY <1>3, <1>6, <2>1 DEF TableGood
    <2>2. CASE d1 = c \/ d2 = c
      BY <1>3, <1>6, <2>2
    <2> QED
      BY <2>1, <2>2
  <1>7. TableGood(t2)
    BY <1>3, <1>4, <1>5, <1>6 DEF TableGood
  <1>8. get_match_entry_f(t2, fp) = pba
    BY <1>1, <1>3, <1>7, TableFinds
  <1>9. ASSUME NEW f \in Nat \ {0, fp}
        PROVE  get_match_entry_f(t2, f) = get_match_entry_f(t, f)
    <2>1. f \in Nat /\ f # 0 /\ f # fp
      OBVIOUS
    <2>2. CASE \E d \in Cells : t[d].fingerprint = f
      <3>1. PICK d \in Cells : t[d].fingerprint = f
        BY <2>2
      <3>2. t[d].pba # PBA_INVALID /\ d # c
        BY <1>3, <2>1, <3>1 DEF TableGood
      <3>3. t2[d] = t[d]
        BY <1>3, <3>2
      <3>4. get_match_entry_f(t, f) = t[d].pba
        BY <3>1, <3>2, TableFinds
      <3>5. get_match_entry_f(t2, f) = t2[d].pba
        BY <1>7, <3>1, <3>2, <3>3, TableFinds
      <3> QED
        BY <3>3, <3>4, <3>5
    <2>3. CASE \A d \in Cells : t[d].fingerprint # f
      <3>1. \A d \in Cells : t2[d].fingerprint # f
        BY <1>3, <2>1, <2>3
      <3> QED
        BY <2>1, <2>3, <3>1, TableMisses
    <2> QED
      BY <2>2, <2>3
  <1> QED
    BY <1>0, <1>7, <1>8, <1>9 DEF t2

-----------------------------------------------------------------------------
(* The loop over the entries of a partition. *)

\* The entries of a bucket and the buckets of a partition, counted on.
LEMMA Positions ==
    ASSUME NEW x \in Nat, NEW a \in Nat \ {0}, NEW d \in Nat \ {0}, x < a * d
    PROVE  /\ x \div d \in 0..(a - 1)
           /\ x % d \in 0..(d - 1)
  <1>1. /\ x \div d \in Nat /\ x % d \in Nat /\ x % d < d
        /\ x = (x \div d) * d + (x % d)
    BY Z3
  <1>2. ASSUME NEW q \in Nat, NEW r \in Nat, x = q * d + r, q >= a PROVE FALSE
    <2>1. PICK j \in Nat : q = a + j
      BY <1>2
    <2>2. q * d = a * d + j * d /\ j * d \in Nat /\ a * d \in Nat
      BY <2>1
    <2> QED
      BY <1>2, <2>2
  <1> QED
    BY <1>1, <1>2

\* Quotient and remainder of a position.
LEMMA QuotientIs ==
    ASSUME NEW q \in Nat, NEW r \in Nat, NEW d \in Nat \ {0}, r < d
    PROVE  (q * d + r) \div d = q /\ (q * d + r) % d = r
  <1>1. PICK x \in Nat : x = q * d + r
    OBVIOUS
  <1>2. /\ x \div d \in Nat /\ x % d \in Nat /\ x % d < d
        /\ x = (x \div d) * d + (x % d)
    BY Z3
  <1>3. ASSUME NEW u \in Nat, NEW v \in Nat, v < d, x = u * d + v PROVE u = q /\ v = r
    <2>1. CASE u > q
      <3>1. PICK j \in Nat : u = q + 1 + j
        BY <2>1
      <3>2. u * d = q * d + d + j * d /\ j * d \in Nat /\ q * d \in Nat
        BY <3>1
      <3> QED
        BY <1>1, <1>3, <3>2
    <2>2. CASE q > u
      <3>1. PICK j \in Nat : q = u + 1 + j
        BY <2>2
      <3>2. q * d = u * d + d + j * d /\ j * d \in Nat /\ u * d \in Nat
        BY <3>1
      <3> QED
        BY <1>1, <1>3, <3>2
    <2>3. CASE u = q
      BY <1>1, <1>3, <2>3
    <2> QED
      BY <2>1, <2>2, <2>3
  <1> QED
    BY <1>1, <1>2, <1>3

LastEntry == BUCKETS_IN_PART * NR_SET

\* The loop reaches the entries of the partition's buckets and no others.
LEMMA EntryOf ==
    ASSUME NEW bucket, NEW p \in Parts, NEW n \in 1..LastEntry
    PROVE  \E b \in PartBuckets(p), i \in Ways :
               PartEntries(bucket, p)[n] = bucket[b][i]
  <1> DEFINE q == (n - 1) \div NR_SET
             r == (n - 1) % NR_SET
             b == p * BUCKETS_IN_PART + q
  <1>0. BUCKETS_IN_PART \in Nat \ {0} /\ NR_SET \in Nat \ {0} /\ NR_BUCKET \in Nat
    BY BigKVTableAssumption
  <1>1. LastEntry \in Nat /\ n - 1 \in Nat /\ n - 1 < BUCKETS_IN_PART * NR_SET
    BY <1>0 DEF LastEntry
  <1>2. q \in 0..(BUCKETS_IN_PART - 1) /\ r \in 0..(NR_SET - 1)
    BY <1>0, <1>1, Positions
  <1>3. PartEntries(bucket, p)[n] = bucket[b][r + 1]
    BY DEF PartEntries, LastEntry
  <1> HIDE DEF q, r
  <1>4. r + 1 \in Ways
    BY <1>0, <1>2 DEF Ways
  <1>5. p \in Nat /\ p < NR_BUCKET \div BUCKETS_IN_PART
    BY <1>0 DEF Parts
  <1>6. b \div BUCKETS_IN_PART = p
    BY <1>0, <1>2, <1>5, QuotientIs
  <1>7. b \in Buckets
    <2>1. PICK m \in Nat : m = NR_BUCKET \div BUCKETS_IN_PART
      BY <1>0
    <2>2. NR_BUCKET = m * BUCKETS_IN_PART
      BY <1>0, <2>1, BigKVTableAssumption, Z3
    <2>3. PICK j \in Nat : m = p + 1 + j
      BY <1>5, <2>1
    <2>4. /\ m * BUCKETS_IN_PART = p * BUCKETS_IN_PART + BUCKETS_IN_PART + j * BUCKETS_IN_PART
          /\ j * BUCKETS_IN_PART \in Nat /\ p * BUCKETS_IN_PART \in Nat
      BY <1>0, <1>5, <2>3
    <2> QED
      BY <1>0, <1>2, <2>2, <2>4 DEF Buckets
  <1>8. b \in PartBuckets(p)
    BY <1>6, <1>7 DEF PartBuckets
  <1> QED
    BY <1>3, <1>4, <1>8

\* The loop over a partition's entries comes to each of them.
LEMMA EntryAt ==
    ASSUME NEW bucket, NEW p \in Parts, NEW b \in PartBuckets(p), NEW i \in Ways
    PROVE  \E n \in 1..LastEntry : PartEntries(bucket, p)[n] = bucket[b][i]
  <1>0. BUCKETS_IN_PART \in Nat \ {0} /\ NR_SET \in Nat \ {0} /\ NR_BUCKET \in Nat
    BY BigKVTableAssumption
  <1>1. b \in Nat /\ p \in Nat /\ b \div BUCKETS_IN_PART = p
    BY <1>0 DEF PartBuckets, Buckets, Parts
  <1>2. PICK q \in Nat : q < BUCKETS_IN_PART /\ b = p * BUCKETS_IN_PART + q
    <2>1. /\ b % BUCKETS_IN_PART \in Nat /\ b % BUCKETS_IN_PART < BUCKETS_IN_PART
          /\ b = (b \div BUCKETS_IN_PART) * BUCKETS_IN_PART + (b % BUCKETS_IN_PART)
      BY <1>0, <1>1, Z3
    <2> QED
      BY <1>1, <2>1
  <1>3. PICK r \in Nat : r < NR_SET /\ i = r + 1
    BY <1>0 DEF Ways
  <1> DEFINE n == q * NR_SET + r + 1
  <1>4. n - 1 = q * NR_SET + r /\ n \in Nat
    BY <1>0, <1>2, <1>3
  <1>5. (n - 1) \div NR_SET = q /\ (n - 1) % NR_SET = r
    BY <1>0, <1>3, <1>4, QuotientIs
  <1>6. n \in 1..LastEntry
    <2>1. PICK j \in Nat : BUCKETS_IN_PART = q + 1 + j
      BY <1>0, <1>2
    <2>2. /\ BUCKETS_IN_PART * NR_SET = q * NR_SET + NR_SET + j * NR_SET
          /\ j * NR_SET \in Nat /\ q * NR_SET \in Nat
      BY <1>0, <2>1
    <2> QED
      BY <1>0, <1>3, <1>4, <2>2 DEF LastEntry
  <1>7. PartEntries(bucket, p)[n] =
            bucket[p * BUCKETS_IN_PART + (n - 1) \div NR_SET][((n - 1) % NR_SET) + 1]
    <2> HIDE DEF n
    <2> QED
      BY <1>6 DEF PartEntries, LastEntry
  <1>8. PartEntries(bucket, p)[n] = bucket[b][i]
    BY <1>2, <1>3, <1>5, <1>7
  <1> QED
    BY <1>6, <1>8

\* One round of the loop.
Round(t, e) == IF e.dirty_bit THEN insert_to_ptable(t, e) ELSE t

\* g is the sequence of tables that the first n rounds go through.
Rounds(g, t, bucket, p, n) ==
    g = [i \in 0..n |-> IF i = 0 THEN t
                        ELSE IF PartEntries(bucket, p)[i].dirty_bit
                        THEN insert_to_ptable(g[i - 1], PartEntries(bucket, p)[i])
                        ELSE g[i - 1]]

\* The loop has an end.
LEMMA LastEntryNat == LastEntry \in Nat
  BY Sizes DEF LastEntry

\* A loop of n rounds has its n tables, for every n.
LEMMA RoundsExist ==
    ASSUME NEW t, NEW bucket, NEW p
    PROVE  \A n \in 0..LastEntry : \E g : Rounds(g, t, bucket, p, n)
  <1> DEFINE S == {n \in 0..LastEntry : ~ \E g : Rounds(g, t, bucket, p, n)}
             E(i) == PartEntries(bucket, p)[i]
  <1> SUFFICES ASSUME S # {} PROVE FALSE
    OBVIOUS
  <1>1. PICK n \in S : \A m \in S : n <= m
    <2>1. S \in SUBSET Nat
      BY LastEntryNat
    <2> HIDE DEF S
    <2> QED
      BY <2>1, SmallestOne
  <1>2. n # 0
    <2>1. Rounds([i \in 0..0 |-> t], t, bucket, p, 0)
      BY DEF Rounds
    <2> QED
      BY <2>1
  <1>3. n - 1 \in 0..LastEntry /\ n - 1 \notin S
    BY <1>1, <1>2, LastEntryNat
  <1>4. PICK g : Rounds(g, t, bucket, p, n - 1)
    BY <1>3
  <1>5. n \in Nat /\ n >= 1
    BY <1>2, LastEntryNat
  <1> DEFINE f == [i \in 0..n |-> IF i < n THEN g[i] ELSE Round(g[n - 1], E(n))]
  <1>6. ASSUME NEW i \in 0..n
        PROVE  f[i] = IF i = 0 THEN t ELSE Round(f[i - 1], E(i))
    <2> HIDE DEF E
    <2>1. CASE i = n
      BY <1>5, <2>1
    <2>2. CASE i # n
      <3>1. i \in 0..(n - 1) /\ f[i] = g[i]
        BY <1>5, <2>2
      <3>2. g[i] = IF i = 0 THEN t ELSE Round(g[i - 1], E(i))
        BY <1>4, <3>1 DEF Rounds, Round, E
      <3>3. i # 0 => f[i - 1] = g[i - 1]
        BY <1>5, <3>1
      <3> QED
        BY <3>1, <3>2, <3>3
    <2> QED
      BY <2>1, <2>2
  <1>7. Rounds(f, t, bucket, p, n)
    <2>1. DOMAIN f = 0..n /\ f = [i \in 0..n |-> f[i]]
      OBVIOUS
    <2> HIDE DEF f
    <2> QED
      BY <1>6, <2>1 DEF Rounds, Round
  <1> QED
    BY <1>7

\* The table after n rounds is one round more than after n - 1.
LEMMA LoopUnfolds ==
    ASSUME NEW t, NEW bucket, NEW p
    PROVE  /\ TableAfter(t, bucket, p)[0] = t
           /\ \A n \in 1..LastEntry :
                 TableAfter(t, bucket, p)[n] =
                     Round(TableAfter(t, bucket, p)[n - 1], PartEntries(bucket, p)[n])
  <1>1. PICK g : Rounds(g, t, bucket, p, LastEntry)
    BY RoundsExist, LastEntryNat
  <1>2. Rounds(TableAfter(t, bucket, p), t, bucket, p, LastEntry)
    BY <1>1 DEF TableAfter, Rounds, LastEntry
  <1> DEFINE f == TableAfter(t, bucket, p)
  <1> HIDE DEF f
  <1>3. f = [i \in 0..LastEntry |->
                IF i = 0 THEN t
                ELSE IF PartEntries(bucket, p)[i].dirty_bit
                THEN insert_to_ptable(f[i - 1], PartEntries(bucket, p)[i])
                ELSE f[i - 1]]
    BY <1>2 DEF Rounds, f
  <1>4. f[0] = t
    BY <1>3, LastEntryNat
  <1>5. ASSUME NEW n \in 1..LastEntry
        PROVE  f[n] = Round(f[n - 1], PartEntries(bucket, p)[n])
    <2>1. n \in 0..LastEntry /\ n # 0
      BY LastEntryNat
    <2> QED
      BY <1>3, <2>1 DEF Round
  <1> QED
    BY <1>4, <1>5 DEF f

\* What table t2 has for fp when the first n of the entries have been added
\* to table t.
AddedUpTo(t2, t, entry, n, fp) ==
    \/ \E m \in 1..n : /\ entry[m].dirty_bit
                       /\ entry[m].fingerprint = fp
                       /\ get_match_entry_f(t2, fp) = entry[m].pba
    \/ /\ \A m \in 1..n : entry[m].dirty_bit => entry[m].fingerprint # fp
       /\ get_match_entry_f(t2, fp) = get_match_entry_f(t, fp)

LoopInv(t2, t, entry, n) ==
    t2 # NoTable =>
        /\ TableGood(t2)
        /\ \A fp \in Nat \ {0} : AddedUpTo(t2, t, entry, n, fp)

\* After every round the table is in order and has the dirty entries so far.
LEMMA LoopKeeps ==
    ASSUME NEW t, TableGood(t), NEW bucket, NEW p,
           \A n \in 1..LastEntry :
               /\ PartEntries(bucket, p)[n] \in CacheEntry
               /\ PartEntries(bucket, p)[n].dirty_bit =>
                     /\ PartEntries(bucket, p)[n].fingerprint # 0
                     /\ PartEntries(bucket, p)[n].pba # PBA_INVALID
    PROVE  \A n \in 0..LastEntry :
               LoopInv(TableAfter(t, bucket, p)[n], t, PartEntries(bucket, p), n)
  <1> DEFINE tab == TableAfter(t, bucket, p)
             entry == PartEntries(bucket, p)
             S == {n \in 0..LastEntry : ~LoopInv(tab[n], t, entry, n)}
  <1>0. \A n \in 1..LastEntry :
               /\ entry[n] \in CacheEntry
               /\ entry[n].dirty_bit => entry[n].fingerprint # 0 /\ entry[n].pba # PBA_INVALID
    OBVIOUS
  <1>00. tab[0] = t /\ \A n \in 1..LastEntry : tab[n] = Round(tab[n - 1], entry[n])
    BY LoopUnfolds
  <1> HIDE DEF tab, entry
  <1> SUFFICES ASSUME S # {} PROVE FALSE
    BY DEF tab, entry
  <1>1. PICK n \in S : \A m \in S : n <= m
    <2>1. S \in SUBSET Nat
      BY LastEntryNat
    <2> HIDE DEF S
    <2> QED
      BY <2>1, SmallestOne
  <1>2. n # 0
    <2>1. \A fp : AddedUpTo(t, t, entry, 0, fp)
      BY DEF AddedUpTo
    <2>2. LoopInv(tab[0], t, entry, 0)
      BY <1>00, <2>1 DEF LoopInv
    <2> QED
      BY <2>2
  <1>3. n \in 1..LastEntry /\ n \in Nat /\ n - 1 \in 0..LastEntry /\ n - 1 \notin S
    BY <1>1, <1>2, LastEntryNat
  <1>4. LoopInv(tab[n - 1], t, entry, n - 1)
    BY <1>3
  <1>5. PICK t1, t2, e : t1 = tab[n - 1] /\ t2 = tab[n] /\ e = entry[n]
    OBVIOUS
  <1>6. t2 = Round(t1, e) /\ e \in CacheEntry
    BY <1>0, <1>00, <1>3, <1>5
  <1>7. ~LoopInv(t2, t, entry, n)
    BY <1>5
  <1>8. LoopInv(t1, t, entry, n - 1)
    BY <1>4, <1>5
  <1>9. \A m \in 1..n : m = n \/ m \in 1..(n - 1)
    BY <1>3
  <1>10. \A m \in 1..(n - 1) : m \in 1..n
    BY <1>3
  <1>11. CASE ~e.dirty_bit
    <2>1. t2 = t1
      BY <1>6, <1>11 DEF Round
    <2>2. \A fp : AddedUpTo(t1, t, entry, n - 1, fp) => AddedUpTo(t1, t, entry, n, fp)
      BY <1>5, <1>9, <1>10, <1>11 DEF AddedUpTo
    <2> QED
      BY <1>7, <1>8, <2>1, <2>2 DEF LoopInv
  <1>12. CASE e.dirty_bit
    <2>1. t2 = insert_to_ptable(t1, e) /\ t2 # NoTable
      BY <1>6, <1>7, <1>12 DEF Round, LoopInv
    <2>2. t1 # NoTable
      BY <2>1 DEF insert_to_ptable
    <2>3. TableGood(t1) /\ \A fp \in Nat \ {0} : AddedUpTo(t1, t, entry, n - 1, fp)
      BY <1>8, <2>2 DEF LoopInv
    <2>4. e.fingerprint # 0 /\ e.pba # PBA_INVALID
      BY <1>0, <1>3, <1>5, <1>12
    <2>5. /\ TableGood(t2)
          /\ get_match_entry_f(t2, e.fingerprint) = e.pba
          /\ \A fp \in Nat \ {0, e.fingerprint} :
                 get_match_entry_f(t2, fp) = get_match_entry_f(t1, fp)
      BY <1>6, <2>1, <2>3, <2>4, InsertGood
    <2>6. ASSUME NEW fp \in Nat \ {0} PROVE AddedUpTo(t2, t, entry, n, fp)
      <3>1. CASE fp = e.fingerprint
        <4>1. n \in 1..n
          BY <1>3
        <4> QED
          BY <1>5, <1>12, <2>5, <3>1, <4>1 DEF AddedUpTo
      <3>2. CASE fp # e.fingerprint
        <4>1. get_match_entry_f(t2, fp) = get_match_entry_f(t1, fp)
          BY <2>5, <3>2
        <4>2. AddedUpTo(t1, t, entry, n - 1, fp)
          BY <2>3
        <4> QED
          BY <1>5, <1>9, <1>10, <3>2, <4>1, <4>2 DEF AddedUpTo
      <3> QED
        BY <3>1, <3>2
    <2> QED
      BY <1>7, <2>5, <2>6 DEF LoopInv
  <1> QED
    BY <1>11, <1>12

\* What update_part_table writes: a table in order that has the addresses of
\* the partition's dirty entries, and what it had before for all others.
LEMMA UpdatePartTable ==
    ASSUME NEW t, TableGood(t), NEW bucket, NEW p \in Parts,
           \A b \in Buckets : BucketGood(bucket[b]),
           update_part_table(t, bucket, p) # NoTable
    PROVE  /\ TableGood(update_part_table(t, bucket, p))
           /\ \A fp \in Nat \ {0} :
                 \/ \E b \in PartBuckets(p), i \in Ways :
                       /\ bucket[b][i].dirty_bit
                       /\ bucket[b][i].fingerprint = fp
                       /\ get_match_entry_f(update_part_table(t, bucket, p), fp)
                             = bucket[b][i].pba
                 \/ /\ \A b \in PartBuckets(p), i \in Ways :
                          bucket[b][i].dirty_bit => bucket[b][i].fingerprint # fp
                    /\ get_match_entry_f(update_part_table(t, bucket, p), fp)
                          = get_match_entry_f(t, fp)
  <1> DEFINE entry == PartEntries(bucket, p)
             t2 == update_part_table(t, bucket, p)
  <1>1. ASSUME NEW b \in PartBuckets(p), NEW i \in Ways
        PROVE  /\ bucket[b][i] \in CacheEntry
               /\ bucket[b][i].dirty_bit =>
                     bucket[b][i].fingerprint # 0 /\ bucket[b][i].pba # PBA_INVALID
    <2>1. BucketGood(bucket[b])
      BY DEF PartBuckets
    <2> QED
      BY <2>1 DEF BucketGood, UnusedClear, Distinct, Occupied
  <1>2. \A n \in 1..LastEntry :
            \E b \in PartBuckets(p), i \in Ways : entry[n] = bucket[b][i]
    BY EntryOf
  <1>3. \A b \in PartBuckets(p), i \in Ways :
            \E n \in 1..LastEntry : entry[n] = bucket[b][i]
    BY EntryAt
  <1>4. \A n \in 1..LastEntry :
            /\ entry[n] \in CacheEntry
            /\ entry[n].dirty_bit => entry[n].fingerprint # 0 /\ entry[n].pba # PBA_INVALID
    <2> HIDE DEF entry
    <2> QED
      BY <1>1, <1>2
  <1>5. LastEntry \in 0..LastEntry
    BY LastEntryNat
  <1>6. LoopInv(TableAfter(t, bucket, p)[LastEntry], t, entry, LastEntry)
    BY <1>4, <1>5, LoopKeeps
  <1>7. t2 = TableAfter(t, bucket, p)[LastEntry]
    BY DEF update_part_table, LastEntry
  <1> HIDE DEF entry, t2
  <1>8. TableGood(t2) /\ \A fp \in Nat \ {0} : AddedUpTo(t2, t, entry, LastEntry, fp)
    BY <1>6, <1>7 DEF LoopInv, t2
  <1>9. ASSUME NEW fp \in Nat \ {0}
        PROVE  \/ \E b \in PartBuckets(p), i \in Ways :
                     /\ bucket[b][i].dirty_bit
                     /\ bucket[b][i].fingerprint = fp
                     /\ get_match_entry_f(t2, fp) = bucket[b][i].pba
               \/ /\ \A b \in PartBuckets(p), i \in Ways :
                        bucket[b][i].dirty_bit => bucket[b][i].fingerprint # fp
                  /\ get_match_entry_f(t2, fp) = get_match_entry_f(t, fp)
    <2>1. AddedUpTo(t2, t, entry, LastEntry, fp)
      BY <1>8
    <2>2. CASE \E m \in 1..LastEntry : /\ entry[m].dirty_bit
                                       /\ entry[m].fingerprint = fp
                                       /\ get_match_entry_f(t2, fp) = entry[m].pba
      BY <1>2, <2>2
    <2>3. CASE /\ \A m \in 1..LastEntry : entry[m].dirty_bit => entry[m].fingerprint # fp
               /\ get_match_entry_f(t2, fp) = get_match_entry_f(t, fp)
      BY <1>3, <2>3
    <2> QED
      BY <2>1, <2>2, <2>3 DEF AddedUpTo
  <1> QED
    BY <1>8, <1>9 DEF t2

-----------------------------------------------------------------------------
(* Tables that were read too early: nothing is known but their type. *)

\* What any table answers is an address or PBA_INVALID.
LEMMA AnswerIsNat ==
    ASSUME NEW t \in [Cells -> TableEntry], NEW fp \in Nat
    PROVE  get_match_entry_f(t, fp) \in Nat
  <1> DEFINE hops == {h \in HopRange : t[Cell(fp, h)].fingerprint = fp}
  <1>1. hops \in SUBSET Nat
    BY Sizes
  <1>2. get_match_entry_f(t, fp) = IF hops = {} THEN PBA_INVALID
                                   ELSE t[Cell(fp, Min(hops))].pba
    BY DEF get_match_entry_f
  <1> HIDE DEF hops
  <1>3. CASE hops = {}
    BY <1>2, <1>3 DEF PBA_INVALID
  <1>4. CASE hops # {}
    <2>1. Min(hops) \in Nat
      BY <1>1, <1>4, MinIsFirst
    <2>2. Cell(fp, Min(hops)) \in Cells
      BY <2>1, CellIsCell
    <2> QED
      BY <1>2, <1>4, <2>2 DEF TableEntry
  <1> QED
    BY <1>3, <1>4

\* An insertion that finds a place makes a table of a table.
LEMMA InsertIsTable ==
    ASSUME NEW t \in [Cells -> TableEntry], NEW e \in CacheEntry,
           insert_to_ptable(t, e) # NoTable
    PROVE  insert_to_ptable(t, e) \in [Cells -> TableEntry]
  <1>0. PICK fp, pba : fp = e.fingerprint /\ pba = e.pba
    OBVIOUS
  <1>1. fp \in Nat /\ pba \in Nat
    BY <1>0 DEF CacheEntry
  <1> DEFINE hops == {h \in HopRange : \/ t[Cell(fp, h)].pba = PBA_INVALID
                                       \/ t[Cell(fp, h)].fingerprint = fp}
  <1>2. hops \in SUBSET Nat
    BY Sizes
  <1>3. /\ hops # {}
        /\ insert_to_ptable(t, e) =
              [t EXCEPT ![Cell(fp, Min(hops))] = [fingerprint |-> fp, pba |-> pba]]
    BY <1>0 DEF insert_to_ptable
  <1> HIDE DEF hops
  <1>4. PICK c \in Cells : c = Cell(fp, Min(hops))
    <2>1. Min(hops) \in Nat
      BY <1>2, <1>3, MinIsFirst
    <2> QED
      BY <1>1, <2>1, CellIsCell
  <1>5. [fingerprint |-> fp, pba |-> pba] \in TableEntry
    BY <1>1 DEF TableEntry
  <1> QED
    BY <1>3, <1>4, <1>5

\* So does the loop over the partition.
LEMMA UpdateIsTable ==
    ASSUME NEW t \in [Cells -> TableEntry], NEW bucket, NEW p \in Parts,
           \A b \in Buckets : BucketGood(bucket[b]),
           update_part_table(t, bucket, p) # NoTable
    PROVE  update_part_table(t, bucket, p) \in [Cells -> TableEntry]
  <1> DEFINE tab == TableAfter(t, bucket, p)
             entry == PartEntries(bucket, p)
             S == {n \in 0..LastEntry : ~(tab[n] # NoTable => tab[n] \in [Cells -> TableEntry])}
  <1>1. tab[0] = t /\ \A n \in 1..LastEntry : tab[n] = Round(tab[n - 1], entry[n])
    BY LoopUnfolds
  <1>2. \A n \in 1..LastEntry :
            \E b \in PartBuckets(p), i \in Ways : entry[n] = bucket[b][i]
    BY EntryOf
  <1>3. update_part_table(t, bucket, p) = tab[LastEntry] /\ LastEntry \in 0..LastEntry
    BY LastEntryNat DEF update_part_table, LastEntry
  <1> HIDE DEF tab, entry
  <1>4. \A n \in 1..LastEntry : entry[n] \in CacheEntry
    <2>1. \A b \in PartBuckets(p), i \in Ways : bucket[b][i] \in CacheEntry
      BY DEF PartBuckets, BucketGood
    <2> QED
      BY <1>2, <2>1
  <1>5. S = {}
    <2> SUFFICES ASSUME S # {} PROVE FALSE
      OBVIOUS
    <2>1. PICK n \in S : \A m \in S : n <= m
      <3>1. S \in SUBSET Nat
        BY LastEntryNat
      <3> HIDE DEF S
      <3> QED
        BY <3>1, SmallestOne
    <2>2. n # 0
      BY <1>1
    <2>3. n \in 1..LastEntry /\ n - 1 \in 0..LastEntry /\ n - 1 \notin S
      BY <2>1, <2>2, LastEntryNat
    <2>4. tab[n - 1] # NoTable => tab[n - 1] \in [Cells -> TableEntry]
      BY <2>3
    <2>5. tab[n] # NoTable /\ tab[n] \notin [Cells -> TableEntry]
      BY <2>1
    <2>6. PICK t1, e : t1 = tab[n - 1] /\ e = entry[n]
      OBVIOUS
    <2>7. tab[n] = Round(t1, e) /\ e \in CacheEntry
      BY <1>1, <1>4, <2>3, <2>6
    <2>8. CASE ~e.dirty_bit
      BY <2>4, <2>5, <2>6, <2>7, <2>8 DEF Round
    <2>9. CASE e.dirty_bit
      <3>1. tab[n] = insert_to_ptable(t1, e) /\ insert_to_ptable(t1, e) # NoTable
        BY <2>5, <2>7, <2>9 DEF Round
      <3>2. t1 # NoTable
        BY <3>1 DEF insert_to_ptable
      <3>3. t1 \in [Cells -> TableEntry]
        BY <2>4, <2>6, <3>2
      <3> QED
        BY <2>5, <2>7, <3>1, <3>3, InsertIsTable
    <2> QED
      BY <2>8, <2>9
  <1> QED
    BY <1>3, <1>5
=============================================================================
