---------------------------- MODULE DeviceProofs ----------------------------
(***************************************************************************)
(* Theorems about Device, for any number and size of segments, any lengths *)
(* of pairs, any number of requests and any sizes of pools and ring.       *)
(***************************************************************************)
EXTENDS Device, FiniteSetTheorems, TLAPS

-----------------------------------------------------------------------------
(* Division, for a divisor that is not known. *)

\* A number is its quotient times the divisor plus its remainder.
LEMMA DivMod ==
    ASSUME NEW a \in Nat, NEW b \in Nat \ {0}
    PROVE  /\ a \div b \in Nat
           /\ a % b \in 0..(b - 1)
           /\ a = (a \div b) * b + (a % b)
  OBVIOUS

\* Quotient and remainder are unique.
LEMMA DivModUnique ==
    ASSUME NEW a \in Nat, NEW b \in Nat \ {0}, NEW q \in Nat, NEW r \in 0..(b - 1),
           a = q * b + r
    PROVE  a \div b = q /\ a % b = r
  OBVIOUS

\* Products with a positive number are ordered as the other factors are.
LEMMA MulOrder ==
    ASSUME NEW x \in Int, NEW y \in Int, NEW b \in Nat \ {0}
    PROVE  /\ x * b \in Int
           /\ x * b <= y * b <=> x <= y
           /\ x * b < y * b <=> x < y
           /\ (x + 1) * b = x * b + b
           /\ (x + y) * b = x * b + y * b
  OBVIOUS

\* Whole multiples of the divisor leave the remainder.
LEMMA ModAdd ==
    ASSUME NEW a \in Nat, NEW b \in Nat \ {0}, NEW k \in Nat
    PROVE  (a + k * b) % b = a % b
  <1> DEFINE q == a \div b
             r == a % b
  <1>1. q \in Nat /\ r \in 0..(b - 1) /\ a = q * b + r
    BY DivMod
  <1> HIDE DEF q, r
  <1>2. a + k * b = (q + k) * b + r
    BY <1>1
  <1>3. a + k * b \in Nat /\ q + k \in Nat
    BY <1>1
  <1>4. (a + k * b) % b = r
    BY <1>1, <1>2, <1>3, DivModUnique
  <1> QED
    BY <1>4 DEF r

\* Going round one by one: the remainder of the next number.
LEMMA ModSucc ==
    ASSUME NEW a \in Nat, NEW b \in Nat \ {0}
    PROVE  ((a % b) + 1) % b = (a + 1) % b
  <1> DEFINE q == a \div b
             r == a % b
  <1>1. q \in Nat /\ r \in 0..(b - 1) /\ a = q * b + r
    BY DivMod
  <1> HIDE DEF q, r
  <1>2. r + 1 \in Nat /\ (r + 1) + q * b = a + 1
    BY <1>1
  <1>3. (a + 1) % b = (r + 1) % b
    BY <1>1, <1>2, ModAdd
  <1> QED
    BY <1>3 DEF r

\* Numbers with the same remainder are whole multiples of the divisor apart.
LEMMA SameMod ==
    ASSUME NEW a \in Nat, NEW c \in Nat, NEW b \in Nat \ {0}, a <= c
    PROVE  a % b = c % b <=> (c - a) % b = 0
  <1>1. ASSUME a % b = c % b
        PROVE  (c - a) % b = 0
    <2> DEFINE k == (c \div b) - (a \div b)
    <2>1. a \div b \in Nat /\ c \div b \in Nat /\ k \in Int
      BY DivMod
    <2>2. c - a = k * b
      BY <1>1, <2>1, DivMod
    <2>3. k \in Nat
      BY <1>1, DivMod
    <2> HIDE DEF k
    <2>4. c - a \in Nat /\ 0 \in 0..(b - 1) /\ c - a = k * b + 0
      BY <2>2, <2>3
    <2> QED
      BY <2>3, <2>4, DivModUnique
  <1>2. ASSUME (c - a) % b = 0
        PROVE  a % b = c % b
    <2> DEFINE k == (c - a) \div b
    <2>1. k \in Nat /\ c - a = k * b + 0
      BY <1>2, DivMod
    <2> HIDE DEF k
    <2>2. c = a + k * b
      BY <2>1
    <2> QED
      BY <2>1, <2>2, ModAdd
  <1> QED
    BY <1>1, <1>2

\* Less than two turns apart, they are one turn apart.
LEMMA OneTurn ==
    ASSUME NEW a \in Nat, NEW c \in Nat, NEW b \in Nat \ {0},
           a < c, c <= a + b, a % b = c % b
    PROVE  c = a + b
  <1> DEFINE k == (c - a) \div b
  <1>1. a <= c /\ c - a \in Nat
    OBVIOUS
  <1>2. (c - a) % b = 0
    BY <1>1, SameMod
  <1>3. k \in Nat /\ c - a = k * b
    BY <1>1, <1>2, DivMod
  <1> HIDE DEF k
  <1>4. k # 0
    BY <1>3
  <1>5. k * b <= 1 * b
    BY <1>3
  <1>6. k <= 1
    BY <1>3, <1>5, MulOrder
  <1> QED
    BY <1>3, <1>4, <1>6

\* Grains to bytes.
LEMMA Bytes ==
    ASSUME NEW x \in Nat, NEW y \in Nat, x <= y
    PROVE  x * GRAIN_UNIT <= y * GRAIN_UNIT
  BY DeviceAssumption, MulOrder

-----------------------------------------------------------------------------
(* The geometry of the log, in grains. *)

\* Whole grains that get_next_pba allocates for a pair.
Grains(len) == RoundUp(len) \div GRAIN_UNIT

\* First grain of the segment staged as g.
Base(g) == (g % NR_SEGMENT) * SegGrains

\* A segment is a whole number of grains.
LEMMA SegmentGrains ==
    /\ SegGrains \in Nat \ {0}
    /\ SEGMENT_SIZE = SegGrains * GRAIN_UNIT
  <1>1. SegGrains \in Nat /\ SEGMENT_SIZE = SegGrains * GRAIN_UNIT + 0
    BY DeviceAssumption, DivMod DEF SegGrains
  <1>2. SegGrains # 0
    BY <1>1, DeviceAssumption
  <1> QED
    BY <1>1, <1>2, DeviceAssumption

\* The first and the last byte of a segment, as grains.
LEMMA Addresses ==
    ASSUME NEW s \in Nat
    PROVE  /\ s * SegGrains \in Nat
           /\ start_addr(s) = (s * SegGrains) * GRAIN_UNIT
           /\ end_addr(s) = (s * SegGrains + SegGrains) * GRAIN_UNIT
           /\ end_addr(s) = start_addr(s) + SEGMENT_SIZE
           /\ start_addr(s) \in Nat
           /\ end_addr(s) \in Nat
  <1>1. GRAIN_UNIT \in Nat
    BY DeviceAssumption
  <1>2. s * SegGrains \in Nat
    BY SegmentGrains
  <1>3. s * (SegGrains * GRAIN_UNIT) = (s * SegGrains) * GRAIN_UNIT
    BY <1>1, SegmentGrains
  <1>4. (s + 1) * (SegGrains * GRAIN_UNIT) = (s * SegGrains + SegGrains) * GRAIN_UNIT
    BY <1>1, SegmentGrains
  <1>5. (s * SegGrains + SegGrains) * GRAIN_UNIT
          = (s * SegGrains) * GRAIN_UNIT + SegGrains * GRAIN_UNIT
    BY <1>1, <1>2, SegmentGrains
  <1>6. (s * SegGrains) * GRAIN_UNIT \in Nat /\ SegGrains * GRAIN_UNIT \in Nat
    BY <1>1, <1>2, SegmentGrains
  <1> QED
    BY <1>2, <1>3, <1>4, <1>5, <1>6, SegmentGrains DEF start_addr, end_addr

\* The allocation is in whole grains, holds the pair, and is less than a
\* grain larger.
LEMMA RoundUpExact ==
    ASSUME NEW len \in 1..SEGMENT_SIZE
    PROVE  /\ Grains(len) \in Nat \ {0}
           /\ RoundUp(len) = Grains(len) * GRAIN_UNIT
           /\ len <= RoundUp(len)
           /\ RoundUp(len) < len + GRAIN_UNIT
           /\ len \div GRAIN_UNIT \in Nat
           /\ len \div GRAIN_UNIT <= Grains(len)
  <1> DEFINE q == len \div GRAIN_UNIT
             r == len % GRAIN_UNIT
             G == GRAIN_UNIT
  <1>1. GRAIN_UNIT \in Nat \ {0} /\ SEGMENT_SIZE \in Nat /\ len \in Nat /\ len > 0
    BY DeviceAssumption
  <1>2. q \in Nat /\ r \in 0..(G - 1) /\ len = q * G + r
    BY <1>1, DivMod
  <1>3. RoundUp(len) = IF r # 0 THEN len + (G - r) ELSE len
    BY DEF RoundUp
  <1> HIDE DEF q, r, G
  <1>4. CASE r = 0
    <2>1. RoundUp(len) = q * G + 0 /\ RoundUp(len) = len
      BY <1>1, <1>2, <1>3, <1>4 DEF G
    <2>2. Grains(len) = q
      BY <1>1, <1>2, <2>1, DivModUnique DEF Grains, G
    <2>3. q # 0
      BY <1>1, <1>2, <1>4 DEF G
    <2> QED
      BY <1>1, <1>2, <2>1, <2>2, <2>3 DEF G, q
  <1>5. CASE r # 0
    <2>1. RoundUp(len) = (q + 1) * G + 0 /\ RoundUp(len) = len + (G - r)
      BY <1>1, <1>2, <1>3, <1>5 DEF G
    <2>2. RoundUp(len) \in Nat /\ q + 1 \in Nat
      BY <1>1, <1>2, <2>1 DEF G
    <2>3. Grains(len) = q + 1
      BY <1>1, <1>2, <2>1, <2>2, DivModUnique DEF Grains, G
    <2> QED
      BY <1>1, <1>2, <1>5, <2>1, <2>2, <2>3 DEF G, q
  <1> QED
    BY <1>4, <1>5

\* What fits at its length in bytes, at an aligned address before an aligned
\* end, fits at its length in whole grains.
LEMMA FitsInGrains ==
    ASSUME NEW x \in Nat, NEW e \in Nat, NEW len \in 1..SEGMENT_SIZE,
           x * GRAIN_UNIT + len <= e * GRAIN_UNIT
    PROVE  x + Grains(len) <= e
  <1> DEFINE c == Grains(len)
             G == GRAIN_UNIT
  <1>1. /\ c \in Nat
        /\ c * G < len + G
        /\ len \in Nat
        /\ G \in Nat \ {0}
        /\ x * G + len <= e * G
    BY DeviceAssumption, RoundUpExact
  <1> HIDE DEF c, G
  <1>2. (x + c) * G < (e + 1) * G
    BY <1>1
  <1>3. x + c < e + 1
    BY <1>1, <1>2, MulOrder
  <1> QED
    BY <1>1, <1>3 DEF c

\* The grains of a segment, by number and by place in its buffer.
LEMMA GrainPlace ==
    ASSUME NEW s \in Nat, NEW a \in Nat,
           s * SegGrains <= a, a < s * SegGrains + SegGrains
    PROVE  /\ a \div SegGrains = s
           /\ a % SegGrains = a - s * SegGrains
           /\ a - s * SegGrains \in 0..(SegGrains - 1)
  <1> DEFINE r == a - s * SegGrains
  <1>1. s * SegGrains \in Nat
    BY SegmentGrains
  <1>2. r \in 0..(SegGrains - 1) /\ a = s * SegGrains + r
    BY <1>1, SegmentGrains
  <1> HIDE DEF r
  <1>3. a \div SegGrains = s /\ a % SegGrains = r
    BY <1>2, SegmentGrains, DivModUnique
  <1> QED
    BY <1>2, <1>3 DEF r

\* Every stage of the log lies in the device.
LEMMA BaseInDevice ==
    ASSUME NEW g \in Nat
    PROVE  /\ g % NR_SEGMENT \in Segments
           /\ g % NR_SEGMENT \in Nat
           /\ Base(g) \in Nat
           /\ Base(g) + SegGrains <= NR_SEGMENT * SegGrains
           /\ NR_SEGMENT * SegGrains \in Nat
  <1>1. g % NR_SEGMENT \in 0..(NR_SEGMENT - 1)
    BY DeviceAssumption, DivMod
  <1>2. Base(g) \in Nat /\ NR_SEGMENT * SegGrains \in Nat
    BY <1>1, DeviceAssumption, SegmentGrains DEF Base
  <1>3. (g % NR_SEGMENT) + 1 <= NR_SEGMENT
    BY <1>1, DeviceAssumption
  <1>4. ((g % NR_SEGMENT) + 1) * SegGrains <= NR_SEGMENT * SegGrains
    BY <1>1, <1>3, DeviceAssumption, SegmentGrains, MulOrder
  <1>5. ((g % NR_SEGMENT) + 1) * SegGrains = Base(g) + SegGrains
    BY <1>1, SegmentGrains, MulOrder DEF Base
  <1> QED
    BY <1>1, <1>2, <1>4, <1>5, DeviceAssumption DEF Segments
-----------------------------------------------------------------------------
(* The inductive invariant. *)

\* The types of the log, and where it stands.
LogAt ==
    /\ gen \in Nat
    /\ staged_seg_idx = gen % NR_SEGMENT
    /\ offset \in [Segments -> Nat]
    /\ \A s \in Segments : offset[s] \in start_addr(s)..end_addr(s)
    /\ \A s \in Segments : offset[s] % GRAIN_UNIT = 0
    /\ staged_seg_buf \in Buffers
    /\ pairs \in Seq(Pairs)
    /\ Len(pairs) <= MAX_PAIR

\* A pair lies, with the grains it was rounded up to, in the segment of its
\* generation; before the end of what is allocated if that is the one staged.
Inside(p, g, end) ==
    /\ p.gen <= g
    /\ p.size = p.len \div GRAIN_UNIT
    /\ Base(p.gen) <= p.pba
    /\ p.pba + Grains(p.len) <= Base(p.gen) + SegGrains
    /\ p.gen = g => (p.pba + Grains(p.len)) * GRAIN_UNIT <= end

AllInside ==
    \A n \in 1..Len(pairs) : Inside(pairs[n], gen, offset[staged_seg_idx])

\* The pairs of one generation follow each other without overlap.
Apart ==
    \A n \in 1..Len(pairs) : \A m \in 1..(n - 1) :
        pairs[m].gen = pairs[n].gen => pairs[m].pba + Grains(pairs[m].len) <= pairs[n].pba

\* The segment writes in flight: one for each generation, none performed yet,
\* and a generation that an earlier write of its segment may overtake is spoiled.
WritesInFlight ==
    /\ durable \subseteq 0..(gen - 1)
    /\ spoiled \subseteq 0..(gen - 1)
    /\ IsFiniteSet(submitted)
    /\ \A w \in Writes(submitted) : w.gen < gen /\ w.gen \notin durable
    /\ \A v, w \in Writes(submitted) : v.gen = w.gen => v = w
    /\ \A w \in Writes(submitted) : \A g \in 0..(gen - 1) :
         w.gen < g /\ g % NR_SEGMENT = w.gen % NR_SEGMENT => g \in spoiled

\* A read in flight of a pair that was readable is one from the device.
ReadsInFlight ==
    \A io \in Reads(submitted) :
        /\ io.pair <= Len(pairs)
        /\ io.safe => pairs[io.pair].gen \in durable

\* The first event after its callback has run has left its request.
Waiting(i) == events[i].op = "read" /\ (i = 1 => ~called)

\* The reads in flight belong to different requests, which wait for them.
RequestsWait ==
    /\ \A io \in Reads(submitted) : request[io.req] = "read"
    /\ \A i \in 1..Len(completed) :
         completed[i].op = "read" => request[completed[i].req] = "read"
    /\ \A i \in 1..Len(events) : Waiting(i) => request[events[i].req] = "read"

OneReadEach ==
    /\ \A io1, io2 \in Reads(submitted) : io1.req = io2.req => io1 = io2
    /\ \A i, j \in 1..Len(completed) :
         completed[i].op = "read" /\ completed[j].op = "read" /\ i # j
         => completed[i].req # completed[j].req
    /\ \A i, j \in 1..Len(events) :
         Waiting(i) /\ Waiting(j) /\ i # j => events[i].req # events[j].req
    /\ \A io \in Reads(submitted) : \A i \in 1..Len(completed) :
         completed[i].op = "read" => io.req # completed[i].req
    /\ \A io \in Reads(submitted) : \A i \in 1..Len(events) :
         Waiting(i) => io.req # events[i].req
    /\ \A i \in 1..Len(completed) : \A j \in 1..Len(events) :
         completed[i].op = "read" /\ Waiting(j) => completed[i].req # events[j].req

PoolEmpty == down = "pool" => cb_pool <= 1 \/ iocb_pool < 1

-----------------------------------------------------------------------------
(* The log: set_staged and set_next_segment allocate. *)

\* The pair that get_next_pba places at grain x of the segment staged as g.
LEMMA NewPair ==
    ASSUME NEW g \in Nat, NEW x \in Nat, NEW len \in Lens,
           Base(g) <= x,
           x * GRAIN_UNIT + len <= end_addr(g % NR_SEGMENT)
    PROVE  LET p == Pair(x * GRAIN_UNIT, len, g)
           IN  /\ p \in Pairs
               /\ p.pba = x /\ p.len = len /\ p.gen = g
               /\ p.size = p.len \div GRAIN_UNIT
               /\ Base(g) <= x
               /\ x + Grains(len) <= Base(g) + SegGrains
               /\ (x + Grains(len)) * GRAIN_UNIT = x * GRAIN_UNIT + RoundUp(len)
  <1> DEFINE p == Pair(x * GRAIN_UNIT, len, g)
  <1>1. len \in 1..SEGMENT_SIZE /\ GRAIN_UNIT \in Nat \ {0}
    BY DeviceAssumption
  <1>2. (x * GRAIN_UNIT) \div GRAIN_UNIT = x
    <2>1. x * GRAIN_UNIT \in Nat /\ 0 \in 0..(GRAIN_UNIT - 1)
          /\ x * GRAIN_UNIT = x * GRAIN_UNIT + 0
      BY <1>1
    <2> QED
      BY <1>1, <2>1, DivModUnique
  <1>3. /\ p.pba = x /\ p.len = len /\ p.gen = g
        /\ p.size = len \div GRAIN_UNIT
        /\ p = [pba |-> x, size |-> len \div GRAIN_UNIT, len |-> len, gen |-> g]
    BY <1>2 DEF Pair
  <1>4. /\ Base(g) \in Nat
        /\ g % NR_SEGMENT \in Nat
        /\ end_addr(g % NR_SEGMENT) = (Base(g) + SegGrains) * GRAIN_UNIT
        /\ Base(g) + SegGrains <= NR_SEGMENT * SegGrains
        /\ NR_SEGMENT * SegGrains \in Nat
        /\ SegGrains \in Nat
    BY BaseInDevice, Addresses, SegmentGrains DEF Base
  <1>5. x + Grains(len) <= Base(g) + SegGrains
    <2>1. Base(g) + SegGrains \in Nat
      BY <1>4
    <2> QED
      BY <1>1, <1>4, <2>1, FitsInGrains
  <1>6. (x + Grains(len)) * GRAIN_UNIT = x * GRAIN_UNIT + RoundUp(len)
    BY <1>1, RoundUpExact, MulOrder
  <1>7. p \in Pairs
    <2>1. /\ Grains(len) \in Nat \ {0}
          /\ len \div GRAIN_UNIT \in Nat
          /\ len \div GRAIN_UNIT <= Grains(len)
      BY <1>1, RoundUpExact
    <2>2. x \in 0..(NR_SEGMENT * SegGrains - 1)
      BY <1>4, <1>5, <2>1
    <2>3. len \div GRAIN_UNIT \in 0..SegGrains
      BY <1>4, <1>5, <2>1
    <2> QED
      BY <1>1, <1>3, <2>2, <2>3 DEF Pairs
  <1> QED
    BY <1>3, <1>5, <1>6, <1>7

\* A pair copied into a buffer: the buffer keeps its type.
LEMMA WriteType ==
    ASSUME NEW p, NEW n \in Tags, NEW buf \in Buffers
    PROVE  dev_abs_write(p, n, buf) \in Buffers
  BY DEF dev_abs_write, Buffers

\* offset of a segment is on a grain, between its start and its end.
LEMMA Offset ==
    ASSUME NEW s \in Segments, LogAt
    PROVE  /\ offset[s] \in Nat
           /\ offset[s] \div GRAIN_UNIT \in Nat
           /\ offset[s] = (offset[s] \div GRAIN_UNIT) * GRAIN_UNIT
           /\ s * SegGrains <= offset[s] \div GRAIN_UNIT
           /\ offset[s] \div GRAIN_UNIT <= s * SegGrains + SegGrains
  <1> DEFINE x == offset[s] \div GRAIN_UNIT
  <1>1. GRAIN_UNIT \in Nat \ {0} /\ s \in Nat
    BY DeviceAssumption DEF Segments
  <1>2. offset[s] \in Nat /\ offset[s] % GRAIN_UNIT = 0
        /\ offset[s] >= start_addr(s) /\ offset[s] <= end_addr(s)
    BY <1>1, Addresses DEF LogAt
  <1>3. x \in Nat /\ offset[s] = x * GRAIN_UNIT + (offset[s] % GRAIN_UNIT)
    BY <1>1, <1>2, DivMod
  <1> HIDE DEF x
  <1>4. x \in Nat /\ offset[s] = x * GRAIN_UNIT
    BY <1>1, <1>2, <1>3
  <1>5. /\ s * SegGrains \in Nat
        /\ s * SegGrains + SegGrains \in Nat
        /\ start_addr(s) = (s * SegGrains) * GRAIN_UNIT
        /\ end_addr(s) = (s * SegGrains + SegGrains) * GRAIN_UNIT
    BY <1>1, Addresses, SegmentGrains
  <1>6. /\ (s * SegGrains) * GRAIN_UNIT <= x * GRAIN_UNIT
        /\ x * GRAIN_UNIT <= (s * SegGrains + SegGrains) * GRAIN_UNIT
    BY <1>2, <1>4, <1>5
  <1>7. s * SegGrains <= x /\ x <= s * SegGrains + SegGrains
    BY <1>1, <1>4, <1>5, <1>6, MulOrder
  <1>8. offset[s] \in Nat /\ x \in Nat /\ offset[s] = x * GRAIN_UNIT
    BY <1>2, <1>4
  <1> QED
    BY <1>7, <1>8 DEF x

\* A segment of the log, as set_staged and set_next_segment leave it: a pair
\* at grain x, the end of what is allocated behind it.
LEMMA Allocated ==
    ASSUME NEW s \in Segments, NEW g \in Nat, s = g % NR_SEGMENT, NEW x \in Nat,
           NEW len \in Lens, Base(g) <= x, LogAt,
           x * GRAIN_UNIT + len <= end_addr(s),
           gen' = g, staged_seg_idx' = s, Len(pairs) < MAX_PAIR,
           offset' = [offset EXCEPT ![s] = x * GRAIN_UNIT + RoundUp(len)],
           staged_seg_buf' \in Buffers,
           pairs' = Append(pairs, Pair(x * GRAIN_UNIT, len, g))
    PROVE  /\ LogAt'
           /\ Len(pairs') = Len(pairs) + 1
           /\ \A n \in 1..Len(pairs) : pairs'[n] = pairs[n]
           /\ pairs'[Len(pairs) + 1] = Pair(x * GRAIN_UNIT, len, g)
           /\ Inside(pairs'[Len(pairs) + 1], g, offset'[s])
           /\ offset'[s] = (x + Grains(len)) * GRAIN_UNIT
  <1> DEFINE p == Pair(x * GRAIN_UNIT, len, g)
             y == x + Grains(len)
  <1>1. /\ p \in Pairs
        /\ p.pba = x /\ p.len = len /\ p.gen = g
        /\ p.size = p.len \div GRAIN_UNIT
        /\ y <= Base(g) + SegGrains
        /\ y * GRAIN_UNIT = x * GRAIN_UNIT + RoundUp(len)
    BY NewPair
  <1>2. len \in 1..SEGMENT_SIZE
    BY DeviceAssumption
  <1>3. /\ GRAIN_UNIT \in Nat \ {0}
        /\ y \in Nat
        /\ x <= y
        /\ s \in Nat
        /\ MAX_PAIR \in Nat
    <2>1. Grains(len) \in Nat
      BY <1>2, RoundUpExact
    <2> QED
      BY <2>1, DeviceAssumption DEF Segments
  <1>4. /\ pairs \in Seq(Pairs)
        /\ offset \in [Segments -> Nat]
        /\ \A t \in Segments : offset[t] \in start_addr(t)..end_addr(t)
        /\ \A t \in Segments : offset[t] % GRAIN_UNIT = 0
    BY DEF LogAt
  <1> HIDE DEF p, y
  <1>5. /\ pairs' = Append(pairs, p)
        /\ offset' = [offset EXCEPT ![s] = y * GRAIN_UNIT]
    BY <1>1 DEF p
  <1>6. /\ pairs' \in Seq(Pairs)
        /\ Len(pairs') = Len(pairs) + 1
        /\ \A n \in 1..Len(pairs) : pairs'[n] = pairs[n]
        /\ pairs'[Len(pairs) + 1] = p
    BY <1>1, <1>4, <1>5
  <1>7. y * GRAIN_UNIT \in Nat /\ (y * GRAIN_UNIT) % GRAIN_UNIT = 0
    <2>1. y * GRAIN_UNIT \in Nat /\ 0 \in 0..(GRAIN_UNIT - 1)
          /\ y * GRAIN_UNIT = y * GRAIN_UNIT + 0
      BY <1>3
    <2> QED
      BY <1>3, <2>1, DivModUnique
  <1>8. y * GRAIN_UNIT \in start_addr(s)..end_addr(s)
    <2>1. /\ Base(g) \in Nat /\ SegGrains \in Nat
          /\ start_addr(s) = Base(g) * GRAIN_UNIT
          /\ end_addr(s) = (Base(g) + SegGrains) * GRAIN_UNIT
          /\ start_addr(s) \in Nat /\ end_addr(s) \in Nat
      BY <1>3, BaseInDevice, Addresses, SegmentGrains DEF Base
    <2>2. Base(g) <= y
      BY <1>3, <2>1
    <2>3. start_addr(s) <= y * GRAIN_UNIT
      BY <1>3, <2>1, <2>2, MulOrder
    <2>4. y * GRAIN_UNIT <= end_addr(s)
      <3> DEFINE e == Base(g) + SegGrains
      <3>1. e \in Int /\ y \in Int /\ y <= e /\ end_addr(s) = e * GRAIN_UNIT
        BY <1>1, <1>3, <2>1
      <3> HIDE DEF e
      <3> QED
        BY <1>3, <3>1, MulOrder
    <2> QED
      BY <1>7, <2>1, <2>3, <2>4
  <1>9. /\ offset' \in [Segments -> Nat]
        /\ offset'[s] = y * GRAIN_UNIT
        /\ \A t \in Segments : t # s => offset'[t] = offset[t]
    BY <1>4, <1>5, <1>7
  <1>10. /\ \A t \in Segments : offset'[t] \in start_addr(t)..end_addr(t)
        /\ \A t \in Segments : offset'[t] % GRAIN_UNIT = 0
    BY <1>4, <1>7, <1>8, <1>9
  <1>11. LogAt'
    <2>1. Len(pairs') <= MAX_PAIR
      BY <1>3, <1>4, <1>6
    <2>2. gen' \in Nat /\ staged_seg_idx' = gen' % NR_SEGMENT
      OBVIOUS
    <2> QED
      BY <1>6, <1>9, <1>10, <2>1, <2>2 DEF LogAt
  <1>12. Inside(p, g, offset'[s])
    <2>1. y * GRAIN_UNIT <= offset'[s]
      BY <1>7, <1>9
    <2> QED
      BY <1>1, <2>1 DEF Inside, y
  <1> QED
    BY <1>6, <1>9, <1>11, <1>12 DEF p, y

LogInv == LogAt /\ AllInside /\ Apart

\* Initially the log is empty.
LEMMA LogInit == Init => LogInv
  <1> SUFFICES ASSUME Init PROVE LogInv
    OBVIOUS
  <1>1. NR_SEGMENT \in Nat \ {0} /\ GRAIN_UNIT \in Nat \ {0} /\ MAX_PAIR \in Nat
    BY DeviceAssumption
  <1>2. 0 % NR_SEGMENT = 0
    BY <1>1
  <1>3. ASSUME NEW s \in Segments
        PROVE  /\ offset[s] \in Nat
               /\ offset[s] \in start_addr(s)..end_addr(s)
               /\ offset[s] % GRAIN_UNIT = 0
    <2>1. s \in Nat
      BY DEF Segments
    <2>2. /\ start_addr(s) \in Nat /\ end_addr(s) = start_addr(s) + SEGMENT_SIZE
          /\ s * SegGrains \in Nat
          /\ start_addr(s) = (s * SegGrains) * GRAIN_UNIT + 0
      BY <1>1, <2>1, Addresses
    <2>3. start_addr(s) % GRAIN_UNIT = 0
      BY <1>1, <2>2, DivModUnique
    <2>4. offset[s] = start_addr(s)
      BY DEF Init
    <2>5. SEGMENT_SIZE \in Nat
      BY DeviceAssumption
    <2>6. offset[s] \in Nat /\ offset[s] \in start_addr(s)..end_addr(s)
      BY <2>2, <2>4, <2>5
    <2> QED
      BY <2>3, <2>4, <2>6
  <1>4. staged_seg_buf \in Buffers
    BY <1>1 DEF Init, Buffers, Tags
  <1>5. pairs = << >> /\ pairs \in Seq(Pairs) /\ Len(pairs) = 0 /\ gen = 0
    BY DEF Init
  <1>6. offset \in [Segments -> Nat] /\ staged_seg_idx = 0
    BY <1>3 DEF Init
  <1>7. LogAt
    BY <1>1, <1>2, <1>3, <1>4, <1>5, <1>6 DEF LogAt
  <1> QED
    BY <1>5, <1>7 DEF LogInv, AllInside, Apart

\* set: a pair that fits in the staged segment extends the log.
LEMMA SetStagedLog ==
    ASSUME LogInv, NEW len \in Lens, set_staged(len)
    PROVE  LogInv'
  <1> DEFINE s == staged_seg_idx
             x == offset[s] \div GRAIN_UNIT
             N == Len(pairs)
  <1>1. /\ LogAt /\ AllInside /\ Apart
        /\ gen \in Nat /\ s = gen % NR_SEGMENT /\ s \in Segments
        /\ pairs \in Seq(Pairs) /\ N \in Nat
    <2>1. LogAt /\ AllInside /\ Apart
      BY DEF LogInv
    <2>2. gen \in Nat /\ s = gen % NR_SEGMENT /\ pairs \in Seq(Pairs)
      BY <2>1 DEF LogAt
    <2> QED
      BY <2>1, <2>2, BaseInDevice
  <1>2. /\ offset[s] \in Nat /\ x \in Nat
        /\ offset[s] = x * GRAIN_UNIT
        /\ Base(gen) <= x
    BY <1>1, Offset DEF Base
  <1>3. /\ offset' = [offset EXCEPT ![s] = offset[s] + RoundUp(len)]
        /\ offset[s] + len <= end_addr(s)
        /\ staged_seg_buf' = dev_abs_write(Pair(offset[s], len, gen), N + 1, staged_seg_buf)
        /\ pairs' = Append(pairs, Pair(offset[s], len, gen))
        /\ gen' = gen /\ s' = s /\ N < MAX_PAIR
    BY DEF set_staged, Fits, histVars
  <1>4. staged_seg_buf' \in Buffers
    <2>1. N + 1 \in Tags /\ staged_seg_buf \in Buffers
      BY <1>1, <1>3, DeviceAssumption DEF Tags, LogAt
    <2> QED
      BY <1>3, <2>1, WriteType
  <1> HIDE DEF s, x
  <1>5. /\ LogAt'
        /\ Len(pairs') = N + 1
        /\ \A n \in 1..N : pairs'[n] = pairs[n]
        /\ pairs'[N + 1] = Pair(x * GRAIN_UNIT, len, gen)
        /\ Inside(pairs'[N + 1], gen, offset'[s])
        /\ offset'[s] = (x + Grains(len)) * GRAIN_UNIT
    BY <1>1, <1>2, <1>3, <1>4, Allocated DEF s
  <1> HIDE DEF N
  <1>6. /\ Grains(len) \in Nat /\ GRAIN_UNIT \in Nat \ {0}
        /\ offset'[s] \in Nat /\ offset[s] <= offset'[s]
    <2>1. /\ len \in 1..SEGMENT_SIZE /\ GRAIN_UNIT \in Nat \ {0}
      BY DeviceAssumption
    <2>2. Grains(len) \in Nat
      BY <2>1, RoundUpExact
    <2>3. (x + Grains(len)) * GRAIN_UNIT \in Nat
      BY <1>2, <2>1, <2>2
    <2>4. x * GRAIN_UNIT <= (x + Grains(len)) * GRAIN_UNIT
      BY <1>2, <2>1, <2>2, MulOrder
    <2> QED
      BY <1>2, <1>5, <2>1, <2>2, <2>3, <2>4
  <1>7. ASSUME NEW n \in 1..N
        PROVE  /\ pairs[n] \in Pairs
               /\ pairs[n].pba + Grains(pairs[n].len) \in Nat
               /\ Inside(pairs[n], gen, offset[s])
               /\ (pairs[n].pba + Grains(pairs[n].len)) * GRAIN_UNIT \in Nat
    <2>1. pairs[n] \in Pairs
      BY <1>1 DEF N
    <2>2. pairs[n].len \in 1..SEGMENT_SIZE /\ pairs[n].pba \in Nat
      BY <2>1 DEF Pairs
    <2>3. Grains(pairs[n].len) \in Nat
      BY <2>2, RoundUpExact
    <2>4. pairs[n].pba + Grains(pairs[n].len) \in Nat
      BY <2>2, <2>3
    <2> QED
      BY <1>1, <1>6, <2>1, <2>4 DEF AllInside, N, s
  <1>8. AllInside'
    <2>1. ASSUME NEW n \in 1..N
          PROVE  Inside(pairs[n], gen, offset'[s])
      BY <1>2, <1>6, <1>7 DEF Inside
    <2> QED
      BY <1>1, <1>3, <1>5, <2>1 DEF AllInside, s
  <1>9. Apart'
    <2>1. ASSUME NEW m \in 1..N, pairs[m].gen = gen
          PROVE  pairs[m].pba + Grains(pairs[m].len) <= x
      <3>1. (pairs[m].pba + Grains(pairs[m].len)) * GRAIN_UNIT <= x * GRAIN_UNIT
        BY <1>2, <1>7, <2>1 DEF Inside
      <3> QED
        BY <1>2, <1>6, <1>7, <3>1, MulOrder
    <2>2. pairs'[N + 1].gen = gen /\ pairs'[N + 1].pba = x
      BY <1>1, <1>2, <1>3, <1>5, NewPair
    <2> QED
      BY <1>1, <1>5, <2>1, <2>2 DEF Apart, N
  <1> QED
    BY <1>5, <1>8, <1>9 DEF LogInv

\* set: a pair that does not fit starts the next segment.
LEMMA SetNextSegmentLog ==
    ASSUME LogInv, NEW len \in Lens, set_next_segment(len)
    PROVE  LogInv'
  <1> DEFINE s == (staged_seg_idx + 1) % NR_SEGMENT
             g == gen + 1
             x == Base(g)
             N == Len(pairs)
  <1>1. /\ LogAt /\ AllInside /\ Apart
        /\ gen \in Nat /\ g \in Nat /\ s = g % NR_SEGMENT /\ s \in Segments /\ s \in Nat
        /\ pairs \in Seq(Pairs) /\ N \in Nat
        /\ x \in Nat
    <2>1. LogAt /\ AllInside /\ Apart
      BY DEF LogInv
    <2>2. gen \in Nat /\ staged_seg_idx = gen % NR_SEGMENT /\ pairs \in Seq(Pairs)
      BY <2>1 DEF LogAt
    <2>3. NR_SEGMENT \in Nat \ {0}
      BY DeviceAssumption
    <2>4. ((gen % NR_SEGMENT) + 1) % NR_SEGMENT = (gen + 1) % NR_SEGMENT
      BY <2>3, <2>2, ModSucc
    <2>5. s = g % NR_SEGMENT /\ g \in Nat
      BY <2>2, <2>4
    <2> HIDE DEF g, s
    <2> QED
      BY <2>1, <2>2, <2>5, BaseInDevice
  <1>2. start_addr(s) = x * GRAIN_UNIT
    BY <1>1, Addresses DEF Base
  <1>3. /\ offset' = [offset EXCEPT ![s] = start_addr(s) + RoundUp(len)]
        /\ staged_seg_buf' = dev_abs_write(Pair(start_addr(s), len, g), N + 1,
                                           [i \in DOMAIN staged_seg_buf |-> 0])
        /\ pairs' = Append(pairs, Pair(start_addr(s), len, g))
        /\ gen' = g /\ staged_seg_idx' = s /\ N < MAX_PAIR
    BY DEF set_next_segment, stage_next_segment
  <1>4. staged_seg_buf' \in Buffers
    <2>1. N + 1 \in Tags /\ [i \in DOMAIN staged_seg_buf |-> 0] \in Buffers
      BY <1>1, <1>3, DeviceAssumption DEF Tags, LogAt, Buffers
    <2> QED
      BY <1>3, <2>1, WriteType
  <1>5. x * GRAIN_UNIT + len <= end_addr(s)
    <2>1. /\ end_addr(s) = start_addr(s) + SEGMENT_SIZE
          /\ start_addr(s) \in Nat
          /\ len \in Nat /\ len <= SEGMENT_SIZE
          /\ SEGMENT_SIZE \in Nat
      BY <1>1, Addresses, DeviceAssumption
    <2> QED
      BY <1>2, <2>1
  <1> HIDE DEF s, x, g
  <1>6. Base(g) <= x
    BY <1>1 DEF x
  <1>7. /\ LogAt'
        /\ Len(pairs') = N + 1
        /\ \A n \in 1..N : pairs'[n] = pairs[n]
        /\ pairs'[N + 1] = Pair(x * GRAIN_UNIT, len, g)
        /\ Inside(pairs'[N + 1], g, offset'[s])
    BY <1>1, <1>2, <1>3, <1>4, <1>5, <1>6, Allocated
  <1> HIDE DEF N
  <1>8. ASSUME NEW n \in 1..N
        PROVE  /\ pairs[n].gen \in Nat /\ pairs[n].gen <= gen
               /\ Inside(pairs[n], g, offset'[s])
    <2>1. pairs[n] \in Pairs /\ Inside(pairs[n], gen, offset[staged_seg_idx])
      BY <1>1 DEF AllInside, N
    <2>2. pairs[n].gen \in Nat /\ pairs[n].gen <= gen
      BY <2>1 DEF Inside, Pairs
    <2> QED
      BY <1>1, <2>1, <2>2 DEF Inside, g
  <1>9. AllInside'
    BY <1>1, <1>3, <1>7, <1>8 DEF AllInside
  <1>10. Apart'
    <2>1. pairs'[N + 1].gen = g
      BY <1>1, <1>5, <1>6, <1>7, NewPair
    <2>2. \A n \in 1..N : pairs'[n].gen # g
      BY <1>1, <1>7, <1>8 DEF g
    <2>3. ASSUME NEW n \in 1..Len(pairs'), NEW m \in 1..(n - 1), pairs'[m].gen = pairs'[n].gen
          PROVE  pairs'[m].pba + Grains(pairs'[m].len) <= pairs'[n].pba
      <3>1. n \in 1..(N + 1) /\ m \in 1..N
        BY <1>1, <1>7
      <3>2. CASE n = N + 1
        BY <2>1, <2>2, <2>3, <3>1, <3>2
      <3>3. CASE n # N + 1
        <4>1. n \in 1..Len(pairs)
          BY <1>1, <3>1, <3>3 DEF N
        <4>2. pairs'[m] = pairs[m] /\ pairs'[n] = pairs[n]
          BY <1>7, <3>1, <4>1 DEF N
        <4> QED
          BY <1>1, <2>3, <4>1, <4>2 DEF Apart
      <3> QED
        BY <3>2, <3>3
    <2> QED
      BY <2>3 DEF Apart
  <1> QED
    BY <1>7, <1>9, <1>10 DEF LogInv

\* The other actions leave the log alone.
LEMMA LogFrame ==
    ASSUME LogInv, UNCHANGED <<devVars, pairs, gen>>
    PROVE  LogInv'
  BY DEF LogInv, LogAt, AllInside, Apart, devVars

\* Every step keeps the log: each pair inside its segment, no two on the same
\* grains.
LEMMA LogStep ==
    ASSUME LogInv, [Next]_vars
    PROVE  LogInv'
  <1>1. ASSUME NEW len \in Lens, Set(len)
        PROVE  LogInv'
    BY <1>1, SetStagedLog, SetNextSegmentLog, LogFrame DEF Set, set_crash, histVars
  <1>2. ASSUME NEW r \in Slots, NEW n \in 1..Len(pairs), Read(r, n)
        PROVE  LogInv'
    BY <1>2, LogFrame DEF Read, read_staged, aio_read, read_crash, histVars
  <1>3. ASSUME NEW io \in submitted, perform(io)
        PROVE  LogInv'
    BY <1>3, LogFrame DEF perform
  <1>4. CASE aio_poller \/ data_size_error
    BY <1>4, LogFrame
       DEF aio_poller, io_getevents, run_callback, recycle, data_size_error, histVars
  <1>5. CASE UNCHANGED vars
    BY <1>5, LogFrame DEF vars, histVars
  <1> QED
    BY <1>1, <1>2, <1>3, <1>4, <1>5 DEF Next

\* No pair leaves its segment or touches another one of its generation.
LEMMA LogExtents == LogInv => ExtentsExact
  <1> SUFFICES ASSUME LogInv, NEW n \in 1..Len(pairs)
               PROVE  LET p == pairs[n]
                          s == p.gen % NR_SEGMENT
                      IN  /\ p.pba * GRAIN_UNIT >= start_addr(s)
                          /\ p.pba * GRAIN_UNIT + p.len <= end_addr(s)
                          /\ \A m \in 1..(n - 1) :
                                pairs[m].gen = p.gen =>
                                  pairs[m].pba * GRAIN_UNIT + pairs[m].len <= p.pba * GRAIN_UNIT
                          /\ p.gen = gen => p.pba * GRAIN_UNIT + p.len <= offset[s]
    BY DEF ExtentsExact
  <1> DEFINE p == pairs[n]
             s == p.gen % NR_SEGMENT
  <1>1. LogAt /\ AllInside /\ Apart
    BY DEF LogInv
  <1>2. pairs \in Seq(Pairs) /\ gen \in Nat /\ staged_seg_idx = gen % NR_SEGMENT
    BY <1>1 DEF LogAt
  <1>3. GRAIN_UNIT \in Nat \ {0}
    BY DeviceAssumption
  <1>4. ASSUME NEW m \in 1..Len(pairs)
        PROVE  /\ pairs[m].pba \in Nat /\ pairs[m].len \in Nat /\ pairs[m].gen \in Nat
               /\ pairs[m].pba + Grains(pairs[m].len) \in Nat
               /\ pairs[m].pba * GRAIN_UNIT + pairs[m].len
                    <= (pairs[m].pba + Grains(pairs[m].len)) * GRAIN_UNIT
               /\ pairs[m].pba * GRAIN_UNIT \in Nat
               /\ (pairs[m].pba + Grains(pairs[m].len)) * GRAIN_UNIT \in Nat
    <2> DEFINE l == pairs[m].len
               b == pairs[m].pba
               c == Grains(l)
    <2>1. pairs[m] \in Pairs
      BY <1>2
    <2>2. l \in 1..SEGMENT_SIZE /\ b \in Nat /\ pairs[m].gen \in Nat
      BY <2>1 DEF Pairs
    <2>3. l \in Nat /\ c \in Nat /\ l <= c * GRAIN_UNIT
      BY <2>2, RoundUpExact
    <2> HIDE DEF l, b, c
    <2>4. b * GRAIN_UNIT \in Nat /\ (b + c) * GRAIN_UNIT = b * GRAIN_UNIT + c * GRAIN_UNIT
          /\ c * GRAIN_UNIT \in Nat
      BY <1>3, <2>2, <2>3
    <2> QED
      BY <2>2, <2>3, <2>4 DEF l, b, c
  <1>5. /\ s \in Nat /\ Base(p.gen) \in Nat /\ SegGrains \in Nat
        /\ start_addr(s) = Base(p.gen) * GRAIN_UNIT
        /\ end_addr(s) = (Base(p.gen) + SegGrains) * GRAIN_UNIT
        /\ start_addr(s) \in Nat /\ end_addr(s) \in Nat
    BY <1>4, BaseInDevice, Addresses, SegmentGrains DEF Base
  <1>6. Inside(p, gen, offset[staged_seg_idx])
    BY <1>1 DEF AllInside
  <1>7. p.pba * GRAIN_UNIT >= start_addr(s)
    <2>1. Base(p.gen) <= p.pba /\ p.pba \in Nat
      BY <1>4, <1>6 DEF Inside
    <2>2. Base(p.gen) * GRAIN_UNIT <= p.pba * GRAIN_UNIT
      BY <1>5, <2>1, Bytes
    <2> QED
      BY <1>4, <1>5, <2>2
  <1>8. p.pba * GRAIN_UNIT + p.len <= end_addr(s)
    <2> DEFINE y == p.pba + Grains(p.len)
               e == Base(p.gen) + SegGrains
    <2>1. y <= e /\ y \in Nat /\ e \in Nat
      BY <1>4, <1>5, <1>6 DEF Inside
    <2>2. y * GRAIN_UNIT <= e * GRAIN_UNIT
      <3> HIDE DEF y, e
      <3> QED
        BY <1>3, <2>1, MulOrder
    <2>3. end_addr(s) = e * GRAIN_UNIT
      BY <1>5
    <2>4. p.pba * GRAIN_UNIT + p.len <= y * GRAIN_UNIT /\ y * GRAIN_UNIT \in Nat
          /\ p.pba * GRAIN_UNIT + p.len \in Nat
      BY <1>4
    <2> HIDE DEF y, e
    <2> QED
      BY <1>5, <2>2, <2>3, <2>4
  <1>9. ASSUME NEW m \in 1..(n - 1), pairs[m].gen = p.gen
        PROVE  pairs[m].pba * GRAIN_UNIT + pairs[m].len <= p.pba * GRAIN_UNIT
    <2>1. m \in 1..Len(pairs) /\ pairs[m].pba + Grains(pairs[m].len) <= p.pba
      BY <1>1, <1>2, <1>9 DEF Apart
    <2>2. (pairs[m].pba + Grains(pairs[m].len)) * GRAIN_UNIT <= p.pba * GRAIN_UNIT
      BY <1>4, <2>1, Bytes
    <2>3. /\ pairs[m].pba * GRAIN_UNIT \in Nat /\ pairs[m].len \in Nat
          /\ (pairs[m].pba + Grains(pairs[m].len)) * GRAIN_UNIT \in Nat
          /\ pairs[m].pba * GRAIN_UNIT + pairs[m].len
                <= (pairs[m].pba + Grains(pairs[m].len)) * GRAIN_UNIT
      BY <1>4, <2>1
    <2>4. p.pba * GRAIN_UNIT \in Nat
      BY <1>4
    <2> QED
      BY <2>2, <2>3, <2>4
  <1>10. ASSUME p.gen = gen
         PROVE  p.pba * GRAIN_UNIT + p.len <= offset[s]
    <2>1. s = staged_seg_idx /\ s \in Segments
      BY <1>2, <1>10, BaseInDevice
    <2>2. offset[s] \in Nat
      BY <1>1, <2>1 DEF LogAt
    <2>3. (p.pba + Grains(p.len)) * GRAIN_UNIT <= offset[s]
      BY <1>6, <1>10, <2>1 DEF Inside
    <2> QED
      BY <1>4, <2>2, <2>3
  <1> QED
    BY <1>7, <1>8, <1>9, <1>10

-----------------------------------------------------------------------------
(* I/O in flight. *)

IoType ==
    /\ submitted \in SUBSET Ios
    /\ completed \in Seq(Ios)
    /\ events \in Seq(Ios)
    /\ request \in [Slots -> {"idle", "read", "lost"}]
    /\ called \in BOOLEAN
    /\ called => events # << >>

\* The fields of the requests to the device.
LEMMA IoFields ==
    ASSUME NEW io \in Ios
    PROVE  /\ io.op \in {"write", "read"}
           /\ io.op = "write" => io.gen \in Nat /\ io.buf \in Buffers
           /\ io.op = "read" => io.req \in Slots /\ io.pair \in 1..MAX_PAIR
  BY DEF Ios

\* Writes and reads are made with the fields they are given.
LEMMA IoMade ==
    /\ \A g \in Nat, buf \in Buffers :
         /\ WriteOf(g, buf) \in Ios
         /\ WriteOf(g, buf).op = "write"
         /\ WriteOf(g, buf).gen = g
         /\ WriteOf(g, buf).buf = buf
    /\ \A r \in Slots, n \in 1..MAX_PAIR, safe \in BOOLEAN :
         /\ ReadOf(r, n, safe) \in Ios
         /\ ReadOf(r, n, safe).op = "read"
         /\ ReadOf(r, n, safe).req = r
         /\ ReadOf(r, n, safe).pair = n
         /\ ReadOf(r, n, safe).safe = safe
  BY DEF Ios, WriteOf, ReadOf

\* Readable is true or false.
LEMMA ReadableBoolean ==
    ASSUME NEW p
    PROVE  Readable(p) \in BOOLEAN
  BY DEF Readable

\* Initially nothing is in flight.
LEMMA IoInit == Init => IoType /\ WritesInFlight /\ ReadsInFlight
  <1> SUFFICES ASSUME Init PROVE IoType /\ WritesInFlight /\ ReadsInFlight
    OBVIOUS
  <1>1. submitted = {} /\ completed = << >> /\ events = << >>
        /\ durable = {} /\ spoiled = {}
    BY DEF Init
  <1>2. request \in [Slots -> {"idle", "read", "lost"}] /\ called \in BOOLEAN /\ ~called
    BY DEF Init
  <1> QED
    BY <1>1, <1>2, FS_EmptySet
       DEF IoType, WritesInFlight, ReadsInFlight, Writes, Reads

\* What each action does to the I/O in flight.
LEMMA Submissions ==
    ASSUME LogInv, [Next]_vars
    PROVE  \/ /\ submitted' = submitted
              /\ gen' = gen
           \/ /\ submitted' = submitted
              /\ gen' = gen + 1
              /\ spoiled' = spoiled \cup {gen}
              /\ UNCHANGED <<completed, events, called, request, durable>>
           \/ /\ submitted' = submitted \cup {WriteOf(gen, staged_seg_buf)}
              /\ gen' = gen + 1
              /\ spoiled' = IF Overtakes THEN spoiled \cup {gen} ELSE spoiled
              /\ UNCHANGED <<completed, events, called, request, durable>>
           \/ /\ \E r \in Slots, n \in 1..Len(pairs) :
                    /\ request[r] = "idle"
                    /\ ~is_staged(pairs[n])
                    /\ request' = [request EXCEPT ![r] = "read"]
                    /\ submitted' = submitted \cup {ReadOf(r, n, Readable(pairs[n]))}
              /\ UNCHANGED <<completed, events, called, pairs, gen, spoiled, durable>>
           \/ /\ \E io \in submitted : perform(io)
              /\ gen' = gen
  <1>1. ASSUME NEW len \in Lens, Set(len)
        PROVE  \/ submitted' = submitted /\ gen' = gen
               \/ set_next_segment(len)
    BY <1>1 DEF Set, set_staged, set_crash, histVars, ioVars
  <1>2. ASSUME NEW r \in Slots, NEW n \in 1..Len(pairs), Read(r, n)
        PROVE  \/ submitted' = submitted /\ gen' = gen
               \/ aio_read(r, n) /\ ~ring_full
    BY <1>2 DEF Read, read_staged, aio_read, read_crash, histVars, ioVars
  <1>3. ASSUME NEW io \in submitted, perform(io)
        PROVE  gen' = gen
    BY <1>3 DEF perform
  <1>4. CASE aio_poller \/ data_size_error \/ UNCHANGED vars
    BY <1>4 DEF aio_poller, io_getevents, run_callback, recycle, data_size_error,
                histVars, ioVars, vars
  <1>5. ASSUME NEW len \in Lens, set_next_segment(len)
        PROVE  /\ gen' = gen + 1
               /\ UNCHANGED <<completed, events, called, request, durable>>
               /\ \/ submitted' = submitted /\ spoiled' = spoiled \cup {gen}
                  \/ /\ submitted' = submitted \cup {WriteOf(gen, staged_seg_buf)}
                     /\ spoiled' = IF Overtakes THEN spoiled \cup {gen} ELSE spoiled
    BY <1>5 DEF set_next_segment, aio_write, stage_next_segment
  <1>6. ASSUME NEW r \in Slots, NEW n \in 1..Len(pairs), aio_read(r, n), ~ring_full
        PROVE  /\ request[r] = "idle"
               /\ ~is_staged(pairs[n])
               /\ request' = [request EXCEPT ![r] = "read"]
               /\ submitted' = submitted \cup {ReadOf(r, n, Readable(pairs[n]))}
               /\ UNCHANGED <<completed, events, called, pairs, gen, spoiled, durable>>
    BY <1>6 DEF aio_read
  <1> QED
    BY <1>1, <1>2, <1>3, <1>4, <1>5, <1>6 DEF Next

\* Every step keeps the types of what is in flight.
LEMMA IoTypeStep ==
    ASSUME LogInv, IoType, [Next]_vars
    PROVE  IoType'
  <1>1. /\ gen \in Nat /\ staged_seg_buf \in Buffers
        /\ pairs \in Seq(Pairs) /\ Len(pairs) <= MAX_PAIR
        /\ MAX_PAIR \in Nat
    BY DeviceAssumption DEF LogInv, LogAt
  <1>2. /\ submitted \in SUBSET Ios /\ completed \in Seq(Ios) /\ events \in Seq(Ios)
        /\ request \in [Slots -> {"idle", "read", "lost"}]
    BY DEF IoType
  <1>3. \A n \in 1..Len(pairs) : n \in 1..MAX_PAIR
    BY <1>1
  <1>4. submitted' \in SUBSET Ios
    <2>1. WriteOf(gen, staged_seg_buf) \in Ios
      BY <1>1, IoMade
    <2>2. ASSUME NEW r \in Slots, NEW n \in 1..Len(pairs)
          PROVE  ReadOf(r, n, Readable(pairs[n])) \in Ios
      BY <1>3, IoMade, ReadableBoolean
    <2>3. ASSUME NEW io \in submitted, perform(io)
          PROVE  submitted' \subseteq submitted
      BY <2>3 DEF perform
    <2> QED
      BY <1>2, <2>1, <2>2, <2>3, Submissions
  <1>5. /\ completed' \in Seq(Ios) /\ events' \in Seq(Ios)
        /\ request' \in [Slots -> {"idle", "read", "lost"}]
    <2>1. ASSUME NEW len \in Lens, Set(len)
          PROVE  UNCHANGED <<completed, events, request>>
      BY <2>1 DEF Set, set_staged, set_next_segment, set_crash, ioVars
    <2>2. ASSUME NEW r \in Slots, NEW n \in 1..Len(pairs), Read(r, n)
          PROVE  /\ UNCHANGED <<completed, events>>
                 /\ request' \in [Slots -> {"idle", "read", "lost"}]
      BY <1>2, <2>2 DEF Read, read_staged, aio_read, read_crash, ioVars
    <2>3. ASSUME NEW io \in submitted, perform(io)
          PROVE  /\ completed' = Append(completed, io)
                 /\ UNCHANGED <<events, request>>
      BY <2>3 DEF perform
    <2>4. CASE io_getevents
      <3> DEFINE k == IF Len(completed) < NR_EVENTS THEN Len(completed) ELSE NR_EVENTS
      <3>1. /\ events' = SubSeq(completed, 1, k)
            /\ completed' = SubSeq(completed, k + 1, Len(completed))
            /\ request' = request
        BY <2>4 DEF io_getevents
      <3>2. k \in 0..Len(completed)
        BY <1>2, DeviceAssumption
      <3> HIDE DEF k
      <3> QED
        BY <1>2, <3>1, <3>2
    <2>5. CASE run_callback
      <3>1. UNCHANGED <<completed, events>>
        BY <2>5 DEF run_callback
      <3>2. request' \in [Slots -> {"idle", "read", "lost"}]
        BY <1>2, <2>5 DEF run_callback
      <3> QED
        BY <1>2, <3>1, <3>2
    <2>6. CASE recycle
      <3>1. /\ UNCHANGED <<completed, request>> /\ called /\ events' = Tail(events)
        BY <2>6 DEF recycle
      <3>2. events # << >>
        BY <3>1 DEF IoType
      <3> QED
        BY <1>2, <3>1, <3>2
    <2>7. CASE data_size_error \/ UNCHANGED vars
      BY <1>2, <2>7 DEF data_size_error, vars, ioVars
    <2>8. ASSUME NEW io \in submitted, perform(io)
          PROVE  completed' \in Seq(Ios)
      BY <1>2, <2>3, <2>8
    <2> QED
      BY <1>2, <2>1, <2>2, <2>3, <2>4, <2>5, <2>6, <2>7, <2>8 DEF Next, aio_poller
  <1>6. called' \in BOOLEAN /\ (called' => events' # << >>)
    <2>1. called \in BOOLEAN /\ (called => events # << >>)
      BY DEF IoType
    <2>2. ASSUME NEW len \in Lens, Set(len)
          PROVE  UNCHANGED <<called, events>>
      BY <2>2 DEF Set, set_staged, set_next_segment, set_crash, ioVars
    <2>3. ASSUME NEW r \in Slots, NEW n \in 1..Len(pairs), Read(r, n)
          PROVE  UNCHANGED <<called, events>>
      BY <2>3 DEF Read, read_staged, aio_read, read_crash, ioVars
    <2>4. ASSUME NEW io \in submitted, perform(io)
          PROVE  UNCHANGED <<called, events>>
      BY <2>4 DEF perform
    <2>5. CASE io_getevents
      BY <2>1, <2>5 DEF io_getevents
    <2>6. CASE run_callback
      BY <2>6 DEF run_callback
    <2>7. CASE recycle
      BY <2>7 DEF recycle
    <2>8. CASE data_size_error \/ UNCHANGED vars
      BY <2>1, <2>8 DEF data_size_error, vars, ioVars
    <2> QED
      BY <2>1, <2>2, <2>3, <2>4, <2>5, <2>6, <2>7, <2>8 DEF Next, aio_poller
  <1> QED
    BY <1>4, <1>5, <1>6 DEF IoType

\* The history only grows.
LEMMA HistoryGrows ==
    ASSUME LogInv, [Next]_vars
    PROVE  /\ Len(pairs) <= Len(pairs')
           /\ \A n \in 1..Len(pairs) : pairs'[n] = pairs[n]
           /\ durable \subseteq durable'
           /\ spoiled \subseteq spoiled'
           /\ gen \in Nat /\ gen' \in Nat /\ gen <= gen'
  <1>1. pairs \in Seq(Pairs) /\ gen \in Nat
    BY DEF LogInv, LogAt
  <1>2. ASSUME NEW len \in Lens, Set(len)
        PROVE  /\ pairs' = pairs \/ \E p : pairs' = Append(pairs, p)
               /\ durable' = durable /\ spoiled \subseteq spoiled'
               /\ gen' \in {gen, gen + 1}
    BY <1>2 DEF Set, set_staged, set_next_segment, set_crash, stage_next_segment,
                aio_write, histVars
  <1>3. ASSUME NEW r \in Slots, NEW n \in 1..Len(pairs), Read(r, n)
        PROVE  UNCHANGED <<pairs, durable, spoiled, gen>>
    BY <1>3 DEF Read, read_staged, aio_read, read_crash, histVars
  <1>4. ASSUME NEW io \in submitted, perform(io)
        PROVE  UNCHANGED <<pairs, spoiled, gen>> /\ durable \subseteq durable'
    BY <1>4 DEF perform, perform_write, perform_read
  <1>5. CASE aio_poller \/ data_size_error \/ UNCHANGED vars
    BY <1>1, <1>5
       DEF aio_poller, io_getevents, run_callback, recycle, data_size_error, vars, histVars
  <1>6. ASSUME NEW p, pairs' = Append(pairs, p)
        PROVE  /\ Len(pairs) <= Len(pairs')
               /\ \A n \in 1..Len(pairs) : pairs'[n] = pairs[n]
    BY <1>1, <1>6
  <1>7. CASE \E len \in Lens : Set(len)
    <2>1. PICK len \in Lens : Set(len)
      BY <1>7
    <2>2. gen' \in Nat /\ gen <= gen'
      BY <1>1, <1>2, <2>1
    <2>3. durable \subseteq durable' /\ spoiled \subseteq spoiled'
      BY <1>2, <2>1
    <2>4. CASE pairs' = pairs
      BY <1>1, <2>2, <2>3, <2>4
    <2>5. CASE \E p : pairs' = Append(pairs, p)
      BY <1>1, <1>6, <2>2, <2>3, <2>5
    <2> QED
      BY <1>2, <2>1, <2>4, <2>5
  <1>8. CASE UNCHANGED <<pairs, spoiled, gen>> /\ durable \subseteq durable'
    BY <1>1, <1>8
  <1> QED
    BY <1>3, <1>4, <1>5, <1>7, <1>8 DEF Next

\* A pair of the staged segment is found there by is_staged.
LEMMA StagedHere ==
    ASSUME LogInv, NEW n \in 1..Len(pairs), pairs[n].gen = gen
    PROVE  is_staged(pairs[n])
  <1> DEFINE p == pairs[n]
             s == staged_seg_idx
             y == p.pba + Grains(p.len)
  <1>1. /\ LogAt /\ gen \in Nat /\ s = gen % NR_SEGMENT /\ pairs \in Seq(Pairs)
        /\ Inside(p, gen, offset[s])
    BY DEF LogInv, LogAt, AllInside
  <1>2. /\ s \in Segments /\ s \in Nat
        /\ Base(gen) \in Nat
        /\ start_addr(s) = Base(gen) * GRAIN_UNIT
    BY <1>1, BaseInDevice, Addresses DEF Base
  <1>3. p \in Pairs
    BY <1>1
  <1>4. p.pba \in Nat /\ p.len \in 1..SEGMENT_SIZE
    BY <1>3 DEF Pairs
  <1>5. Grains(p.len) \in Nat \ {0}
    BY <1>4, RoundUpExact
  <1>6. y \in Nat /\ p.pba < y
    BY <1>4, <1>5
  <1>7. Base(gen) <= p.pba /\ y * GRAIN_UNIT <= offset[s]
    BY <1>1 DEF Inside
  <1> HIDE DEF y
  <1>8. p.pba * GRAIN_UNIT < y * GRAIN_UNIT /\ GRAIN_UNIT \in Nat
    BY <1>4, <1>6, DeviceAssumption, MulOrder
  <1>9. Base(gen) * GRAIN_UNIT <= p.pba * GRAIN_UNIT
    BY <1>2, <1>4, <1>7, Bytes
  <1>10. offset[s] \in Nat /\ p.pba * GRAIN_UNIT \in Nat /\ y * GRAIN_UNIT \in Nat
         /\ Base(gen) * GRAIN_UNIT \in Nat
    BY <1>1, <1>2, <1>4, <1>6, <1>8 DEF LogAt
  <1> QED
    BY <1>2, <1>7, <1>8, <1>9, <1>10 DEF is_staged

\* Every step keeps the writes in flight those of different stages that were
\* filled and are not on the device; a later stage of the same segment counts
\* as spoiled until they end.
LEMMA WritesStep ==
    ASSUME LogInv, IoType, WritesInFlight, [Next]_vars
    PROVE  WritesInFlight'
  <1>1. /\ gen \in Nat /\ staged_seg_buf \in Buffers /\ MAX_PAIR \in Nat
        /\ \A n \in 1..Len(pairs) : n \in 1..MAX_PAIR
    BY DeviceAssumption DEF LogInv, LogAt
  <1>2. \A io \in submitted : io \in Ios
    BY DEF IoType
  <1>3. /\ durable \subseteq 0..(gen - 1)
        /\ spoiled \subseteq 0..(gen - 1)
        /\ IsFiniteSet(submitted)
        /\ \A w \in Writes(submitted) : w.gen \in Nat /\ w.gen < gen /\ w.gen \notin durable
        /\ \A v, w \in Writes(submitted) : v.gen = w.gen => v = w
        /\ \A w \in Writes(submitted) : \A g \in 0..(gen - 1) :
             w.gen < g /\ g % NR_SEGMENT = w.gen % NR_SEGMENT => g \in spoiled
    BY <1>2, IoFields DEF WritesInFlight, Writes
  <1>4. ASSUME submitted' = submitted, gen' = gen + 1,
               spoiled' = spoiled \cup {gen}, durable' = durable
        PROVE  WritesInFlight'
    BY <1>1, <1>3, <1>4 DEF WritesInFlight, Writes
  <1>5. ASSUME submitted' = submitted \cup {WriteOf(gen, staged_seg_buf)},
               gen' = gen + 1, durable' = durable,
               spoiled' = IF Overtakes THEN spoiled \cup {gen} ELSE spoiled
        PROVE  WritesInFlight'
    <2> DEFINE u == WriteOf(gen, staged_seg_buf)
    <2>1. u.op = "write" /\ u.gen = gen
      BY <1>1, IoMade
    <2> HIDE DEF u
    <2>2. Writes(submitted)' = Writes(submitted) \cup {u}
      BY <1>5, <2>1 DEF Writes, u
    <2>3. IsFiniteSet(submitted')
      BY <1>3, <1>5, FS_AddElement
    <2>4. durable' \subseteq 0..(gen' - 1) /\ spoiled' \subseteq 0..(gen' - 1)
      BY <1>1, <1>3, <1>5
    <2>5. \A w \in Writes(submitted)' : w.gen < gen' /\ w.gen \notin durable'
      BY <1>1, <1>3, <1>5, <2>1, <2>2
    <2>6. \A v, w \in Writes(submitted)' : v.gen = w.gen => v = w
      BY <1>1, <1>3, <2>1, <2>2
    <2>7. ASSUME NEW w \in Writes(submitted)', NEW g \in 0..(gen' - 1),
                 w.gen < g, g % NR_SEGMENT = w.gen % NR_SEGMENT
          PROVE  g \in spoiled'
      <3>1. g \in Nat /\ g <= gen
        BY <1>1, <1>5, <2>7
      <3>2. w \in Writes(submitted)
        <4>1. w # u
          BY <1>1, <2>1, <2>7, <3>1
        <4> QED
          BY <2>2, <2>7, <4>1
      <3>3. CASE g \in 0..(gen - 1)
        BY <1>3, <1>5, <2>7, <3>2, <3>3
      <3>4. CASE g = gen
        <4>1. (gen - w.gen) % NR_SEGMENT = 0
          <5>1. w.gen \in Nat /\ w.gen <= gen /\ NR_SEGMENT \in Nat \ {0}
                /\ w.gen % NR_SEGMENT = gen % NR_SEGMENT
            BY <1>1, <1>3, <2>7, <3>2, <3>4, DeviceAssumption
          <5> QED
            BY <1>1, <5>1, SameMod
        <4>2. Overtakes
          BY <3>2, <4>1 DEF Overtakes
        <4> QED
          BY <1>5, <3>4, <4>2
      <3> QED
        BY <1>1, <1>5, <2>7, <3>3, <3>4
    <2> QED
      BY <2>3, <2>4, <2>5, <2>6, <2>7 DEF WritesInFlight
  <1>6. ASSUME NEW r \in Slots, NEW n \in 1..Len(pairs),
               submitted' = submitted \cup {ReadOf(r, n, Readable(pairs[n]))},
               UNCHANGED <<gen, spoiled, durable>>
        PROVE  WritesInFlight'
    <2>1. ReadOf(r, n, Readable(pairs[n])).op = "read"
      BY <1>1, IoMade, ReadableBoolean
    <2>2. Writes(submitted)' = Writes(submitted)
      BY <1>6, <2>1 DEF Writes
    <2>3. IsFiniteSet(submitted')
      BY <1>3, <1>6, FS_AddElement
    <2> QED
      BY <1>3, <1>6, <2>2, <2>3 DEF WritesInFlight
  <1>7. ASSUME NEW io \in submitted, perform(io)
        PROVE  WritesInFlight'
    <2>1. submitted' = submitted \ {io} /\ UNCHANGED <<gen, spoiled>>
      BY <1>7 DEF perform
    <2>2. Writes(submitted)' = Writes(submitted) \ {io}
      BY <2>1 DEF Writes
    <2>3. IsFiniteSet(submitted')
      BY <1>3, <2>1, FS_RemoveElement
    <2>4. CASE perform_write(io)
      <3>1. durable' = durable \cup {io.gen} /\ io \in Writes(submitted)
        BY <2>4 DEF perform_write, Writes
      <3>2. durable' \subseteq 0..(gen - 1)
        <4>1. io.gen \in Nat /\ io.gen < gen
          BY <1>3, <3>1
        <4>2. io.gen \in 0..(gen - 1)
          BY <1>1, <4>1
        <4> QED
          BY <1>3, <3>1, <4>2
      <3>3. \A w \in Writes(submitted)' : w.gen \notin durable'
        BY <1>3, <2>2, <3>1
      <3> QED
        BY <1>3, <2>1, <2>2, <2>3, <3>2, <3>3 DEF WritesInFlight
    <2>5. CASE perform_read(io)
      BY <1>3, <2>1, <2>2, <2>3, <2>5 DEF WritesInFlight, perform_read
    <2> QED
      BY <1>7, <2>4, <2>5 DEF perform
  <1>8. ASSUME submitted' = submitted, UNCHANGED <<gen, spoiled, durable>>
        PROVE  WritesInFlight'
    BY <1>8 DEF WritesInFlight, Writes
  <1>9. ASSUME submitted' = submitted, gen' = gen
        PROVE  UNCHANGED <<spoiled, durable>>
    <2>1. ASSUME NEW len \in Lens, Set(len)
          PROVE  UNCHANGED <<spoiled, durable>>
      BY <1>1, <1>9, <2>1 DEF Set, set_staged, set_next_segment, stage_next_segment, set_crash, histVars
    <2>2. ASSUME NEW r \in Slots, NEW n \in 1..Len(pairs), Read(r, n)
          PROVE  UNCHANGED <<spoiled, durable>>
      BY <2>2 DEF Read, read_staged, aio_read, read_crash, histVars
    <2>3. ASSUME NEW io \in submitted, perform(io)
          PROVE  FALSE
      BY <1>9, <2>3 DEF perform
    <2>4. CASE aio_poller \/ data_size_error \/ UNCHANGED vars
      BY <2>4 DEF aio_poller, io_getevents, run_callback, recycle, data_size_error,
                  vars, histVars
    <2> QED
      BY <2>1, <2>2, <2>3, <2>4 DEF Next
  <1> QED
    BY <1>4, <1>5, <1>6, <1>7, <1>8, <1>9, Submissions

\* Every step keeps the reads in flight reads of pairs that exist, on the
\* device when they were readable.
LEMMA ReadsStep ==
    ASSUME LogInv, IoType, ReadsInFlight, [Next]_vars
    PROVE  ReadsInFlight'
  <1>1. /\ pairs \in Seq(Pairs) /\ MAX_PAIR \in Nat
        /\ \A n \in 1..Len(pairs) : n \in 1..MAX_PAIR
    BY DeviceAssumption DEF LogInv, LogAt
  <1>2. /\ Len(pairs) \in Nat /\ Len(pairs') \in Nat
        /\ Len(pairs) <= Len(pairs')
        /\ \A n \in 1..Len(pairs) : pairs'[n] = pairs[n]
        /\ durable \subseteq durable'
    BY <1>1, LogStep, HistoryGrows DEF LogInv, LogAt
  <1>3. ASSUME NEW io \in Reads(submitted)
        PROVE  io.pair <= Len(pairs') /\ (io.safe => pairs'[io.pair].gen \in durable')
    <2>1. io \in Ios /\ io.op = "read"
      BY DEF IoType, Reads
    <2>2. io.pair \in 1..MAX_PAIR /\ io.pair <= Len(pairs)
      BY <2>1, IoFields DEF ReadsInFlight
    <2>3. io.pair \in 1..Len(pairs)
      BY <1>1, <2>2
    <2> QED
      BY <1>2, <2>3 DEF ReadsInFlight
  <1>4. ASSUME NEW r \in Slots, NEW n \in 1..Len(pairs), ~is_staged(pairs[n]),
               submitted' = submitted \cup {ReadOf(r, n, Readable(pairs[n]))},
               UNCHANGED <<pairs, durable>>
        PROVE  ReadsInFlight'
    <2> DEFINE u == ReadOf(r, n, Readable(pairs[n]))
    <2>1. u.op = "read" /\ u.pair = n /\ u.safe = Readable(pairs[n])
      BY <1>1, IoMade, ReadableBoolean
    <2>2. Readable(pairs[n]) => pairs[n].gen \in durable
      BY <1>4, StagedHere DEF Readable
    <2> HIDE DEF u
    <2>3. Reads(submitted)' = Reads(submitted) \cup {u}
      BY <1>4, <2>1 DEF Reads, u
    <2> QED
      BY <1>2, <1>3, <1>4, <2>1, <2>2, <2>3 DEF ReadsInFlight
  <1>5. ASSUME Reads(submitted)' \subseteq Reads(submitted)
        PROVE  ReadsInFlight'
    BY <1>3, <1>5 DEF ReadsInFlight
  <1>6. ASSUME submitted' = submitted \cup {WriteOf(gen, staged_seg_buf)}
        PROVE  Reads(submitted)' \subseteq Reads(submitted)
    <2>1. WriteOf(gen, staged_seg_buf).op = "write"
      BY DEF WriteOf
    <2> QED
      BY <1>6, <2>1 DEF Reads
  <1>7. ASSUME NEW io \in submitted, perform(io)
        PROVE  Reads(submitted)' \subseteq Reads(submitted)
    BY <1>7 DEF perform, Reads
  <1>8. ASSUME submitted' = submitted
        PROVE  Reads(submitted)' \subseteq Reads(submitted)
    BY <1>8 DEF Reads
  <1> QED
    BY <1>4, <1>5, <1>6, <1>7, <1>8, Submissions

-----------------------------------------------------------------------------
(* Contents: what the staging buffer, the writes in flight and the device hold. *)

\* All grains of pair n, which is p, hold it: in a buffer, on the device.
Holds(p, n, buf) == \A i \in InSegment(p) : buf[i] = n
OnDevice(p, n, d) == \A a \in p.pba..(p.pba + p.size - 1) : d[a] = n

DiskType == disk \in [0..(NR_SEGMENT * SegGrains - 1) -> Tags]

ContentInv == DiskType /\ PairsIntact /\ misread = {}

\* The fields of a pair of the log.
LEMMA PairFields ==
    ASSUME LogInv, NEW n \in 1..Len(pairs)
    PROVE  /\ pairs[n].pba \in Nat /\ pairs[n].size \in Nat /\ pairs[n].gen \in Nat
           /\ Grains(pairs[n].len) \in Nat
           /\ pairs[n].size <= Grains(pairs[n].len)
           /\ pairs[n].gen <= gen
           /\ Base(pairs[n].gen) <= pairs[n].pba
           /\ pairs[n].pba + Grains(pairs[n].len) <= Base(pairs[n].gen) + SegGrains
  <1>1. pairs[n] \in Pairs /\ Inside(pairs[n], gen, offset[staged_seg_idx])
    BY DEF LogInv, LogAt, AllInside
  <1>2. pairs[n].pba \in Nat /\ pairs[n].size \in Nat /\ pairs[n].gen \in Nat
        /\ pairs[n].len \in 1..SEGMENT_SIZE
    BY <1>1 DEF Pairs
  <1>3. Grains(pairs[n].len) \in Nat
        /\ pairs[n].len \div GRAIN_UNIT <= Grains(pairs[n].len)
    BY <1>2, RoundUpExact
  <1> QED
    BY <1>1, <1>2, <1>3 DEF Inside

\* Where the grains of a pair are, in its segment and on the device.
LEMMA PairGrains ==
    ASSUME LogInv, NEW n \in 1..Len(pairs),
           NEW a \in pairs[n].pba..(pairs[n].pba + pairs[n].size - 1)
    PROVE  /\ a \in 0..(NR_SEGMENT * SegGrains - 1)
           /\ a \div SegGrains = pairs[n].gen % NR_SEGMENT
           /\ a % SegGrains = a - Base(pairs[n].gen)
           /\ a % SegGrains \in 0..(SegGrains - 1)
  <1> DEFINE g == pairs[n].gen
             s == g % NR_SEGMENT
  <1>1. /\ g \in Nat /\ pairs[n].pba \in Nat /\ pairs[n].size \in Nat
        /\ Base(g) <= pairs[n].pba
        /\ pairs[n].pba + pairs[n].size <= Base(g) + SegGrains
        /\ SegGrains \in Nat
    <2>1. SegGrains \in Nat /\ Base(g) \in Nat
      BY SegmentGrains, BaseInDevice, PairFields
    <2> QED
      BY <2>1, PairFields
  <1>2. /\ s \in Nat /\ Base(g) = s * SegGrains /\ Base(g) \in Nat
        /\ Base(g) + SegGrains <= NR_SEGMENT * SegGrains
        /\ NR_SEGMENT * SegGrains \in Nat
    BY <1>1, BaseInDevice DEF Base
  <1> HIDE DEF g, s
  <1>3. a \in Nat /\ Base(g) <= a /\ a < Base(g) + SegGrains
    BY <1>1, <1>2
  <1>4. /\ a \div SegGrains = s
        /\ a % SegGrains = a - s * SegGrains
        /\ a - s * SegGrains \in 0..(SegGrains - 1)
    BY <1>2, <1>3, GrainPlace
  <1> QED
    BY <1>1, <1>2, <1>3, <1>4 DEF g, s

\* The grains of a pair are grains of a segment.
LEMMA InSegmentType ==
    LogInv => \A n \in 1..Len(pairs) : InSegment(pairs[n]) \subseteq 0..(SegGrains - 1)
  BY PairGrains DEF InSegment

\* Two pairs of one generation share no grain of the buffer.
LEMMA PairsApart ==
    LogInv => \A k \in 1..Len(pairs) : \A m \in 1..(k - 1) :
                pairs[m].gen = pairs[k].gen =>
                  InSegment(pairs[m]) \cap InSegment(pairs[k]) = {}
  <1> SUFFICES ASSUME LogInv, NEW n \in 1..Len(pairs), NEW m \in 1..(n - 1),
                      pairs[m].gen = pairs[n].gen
               PROVE  InSegment(pairs[m]) \cap InSegment(pairs[n]) = {}
    OBVIOUS
  <1>1. Len(pairs) \in Nat
    BY DEF LogInv, LogAt
  <1>2. m \in 1..Len(pairs)
    BY <1>1
  <1>3. pairs[m].pba + pairs[m].size <= pairs[n].pba
    <2>1. pairs[m].pba + Grains(pairs[m].len) <= pairs[n].pba
      BY DEF LogInv, Apart
    <2> QED
      BY <1>2, <2>1, PairFields
  <1>4. SUFFICES ASSUME NEW a \in pairs[m].pba..(pairs[m].pba + pairs[m].size - 1),
                        NEW b \in pairs[n].pba..(pairs[n].pba + pairs[n].size - 1),
                        a % SegGrains = b % SegGrains
                 PROVE  FALSE
    BY DEF InSegment
  <1>5. a - Base(pairs[m].gen) = b - Base(pairs[n].gen)
    BY <1>2, <1>4, PairGrains
  <1>6. Base(pairs[n].gen) \in Nat
    BY PairFields, BaseInDevice
  <1>7. a = b
    BY <1>2, <1>5, <1>6, PairFields
  <1>8. /\ pairs[m].pba \in Nat /\ pairs[m].size \in Nat /\ pairs[n].pba \in Nat
        /\ pairs[n].size \in Nat
    BY <1>2, PairFields
  <1> QED
    BY <1>3, <1>4, <1>7, <1>8

\* No write in flight is for the segment of a pair that is on the device and
\* neither spoiled nor flushed.
LEMMA NoRival ==
    ASSUME LogInv, IoType, WritesInFlight, NEW n \in 1..Len(pairs),
           pairs[n].gen \in durable, pairs[n].gen \notin spoiled, ~Flushed(pairs[n]),
           NEW v \in Writes(submitted),
           v.gen % NR_SEGMENT = pairs[n].gen % NR_SEGMENT
    PROVE  FALSE
  <1> DEFINE g == pairs[n].gen
  <1>1. g \in Nat /\ g \in 0..(gen - 1) /\ gen \in Nat /\ NR_SEGMENT \in Nat \ {0}
    BY PairFields, DeviceAssumption DEF WritesInFlight, LogInv, LogAt
  <1>2. v.gen \in Nat /\ v.gen < gen /\ v.gen # g
    <2>1. v \in Ios /\ v.op = "write"
      BY DEF IoType, Writes
    <2> QED
      BY <2>1, IoFields DEF WritesInFlight
  <1>3. gen <= g + NR_SEGMENT
    BY <1>1 DEF Flushed
  <1>4. CASE v.gen < g
    <2>1. g \in spoiled
      BY <1>1, <1>4 DEF WritesInFlight
    <2> QED
      BY <2>1
  <1>5. CASE g < v.gen
    <2>1. v.gen <= g + NR_SEGMENT
      BY <1>1, <1>2, <1>3
    <2>2. v.gen = g + NR_SEGMENT
      BY <1>1, <1>2, <1>5, <2>1, OneTurn
    <2> QED
      BY <1>1, <1>2, <1>3, <2>2
  <1> QED
    BY <1>1, <1>2, <1>4, <1>5

\* What PairsIntact says of a pair, by where it is.
LEMMA OnDeviceIntact ==
    ASSUME LogInv, IoType, WritesInFlight, PairsIntact, NEW n \in 1..Len(pairs),
           pairs[n].gen \in durable, pairs[n].gen \notin spoiled, ~Flushed(pairs[n])
    PROVE  OnDevice(pairs[n], n, disk)
  <1>1. pairs[n].gen # gen
    BY PairFields DEF WritesInFlight, LogInv, LogAt
  <1>2. \A w \in Writes(submitted) : w.gen # pairs[n].gen
    BY DEF WritesInFlight
  <1> QED
    BY <1>1, <1>2 DEF PairsIntact, OnDevice

\* A pair of the stage being filled is in the staging buffer.
LEMMA StagedIntact ==
    ASSUME LogInv, IoType, WritesInFlight, PairsIntact, NEW n \in 1..Len(pairs),
           pairs[n].gen = gen
    PROVE  Holds(pairs[n], n, staged_seg_buf)
  <1>1. gen \in Nat /\ gen \notin durable /\ gen \notin spoiled /\ NR_SEGMENT \in Nat
    BY DeviceAssumption DEF WritesInFlight, LogInv, LogAt
  <1>2. \A w \in Writes(submitted) : w.gen # gen
    <2>1. ASSUME NEW w \in Writes(submitted)
          PROVE  w.gen \in Nat /\ w.gen < gen
      <3>1. w \in Ios /\ w.op = "write"
        BY DEF IoType, Writes
      <3> QED
        BY <3>1, IoFields DEF WritesInFlight
    <2> QED
      BY <1>1, <2>1
  <1>3. ~Flushed(pairs[n])
    BY <1>1 DEF Flushed
  <1> QED
    BY <1>1, <1>2, <1>3 DEF PairsIntact, Holds, Differs

\* Every step keeps the type of the device's content.
LEMMA DiskStep ==
    ASSUME IoType, DiskType, [Next]_vars
    PROVE  DiskType'
  <1>1. ASSUME NEW io \in submitted, perform_write(io)
        PROVE  DiskType'
    <2>1. io.buf \in Buffers
      BY <1>1, IoFields DEF IoType, perform_write
    <2>2. ASSUME NEW a \in DOMAIN disk
          PROVE  io.buf[a % SegGrains] \in Tags
      <3>1. a \in Nat
        BY DEF DiskType
      <3>2. a % SegGrains \in 0..(SegGrains - 1)
        BY <3>1, SegmentGrains, DivMod
      <3> QED
        BY <2>1, <3>2 DEF Buffers
    <2>3. disk' = [a \in DOMAIN disk |->
                     IF a \div SegGrains = io.gen % NR_SEGMENT
                     THEN io.buf[a % SegGrains] ELSE disk[a]]
      BY <1>1 DEF perform_write
    <2> QED
      BY <2>2, <2>3 DEF DiskType
  <1>2. ASSUME disk' = disk
        PROVE  DiskType'
    BY <1>2 DEF DiskType
  <1>3. ASSUME NEW len \in Lens, Set(len)
        PROVE  disk' = disk
    BY <1>3 DEF Set, set_staged, set_next_segment, set_crash
  <1>4. ASSUME NEW r \in Slots, NEW n \in 1..Len(pairs), Read(r, n)
        PROVE  disk' = disk
    BY <1>4 DEF Read, read_staged, aio_read, read_crash
  <1>5. ASSUME NEW io \in submitted, perform(io)
        PROVE  disk' = disk \/ perform_write(io)
    BY <1>5 DEF perform, perform_read
  <1>6. CASE aio_poller \/ data_size_error \/ UNCHANGED vars
    BY <1>2, <1>6 DEF aio_poller, io_getevents, run_callback, recycle, data_size_error, vars
  <1> QED
    BY <1>1, <1>2, <1>3, <1>4, <1>5, <1>6 DEF Next

\* Where the pair is that set_staged or set_next_segment writes.
LEMMA WriteHolds ==
    ASSUME NEW p, NEW n \in Nat, NEW buf, DOMAIN buf = 0..(SegGrains - 1),
           InSegment(p) \subseteq 0..(SegGrains - 1)
    PROVE  /\ Holds(p, n, dev_abs_write(p, n, buf))
           /\ \A q, m : /\ InSegment(q) \subseteq 0..(SegGrains - 1)
                        /\ InSegment(q) \cap InSegment(p) = {}
                        /\ Holds(q, m, buf)
                        => Holds(q, m, dev_abs_write(p, n, buf))
  BY DEF Holds, dev_abs_write

\* PairsIntact for one pair.
Kept(n) ==
    LET p == pairs[n]
    IN  p.gen \notin spoiled /\ ~Flushed(p) =>
          \/ p.gen = gen /\ Holds(p, n, staged_seg_buf)
          \/ p.gen \in durable /\ OnDevice(p, n, disk)
          \/ \E w \in Writes(submitted) : w.gen = p.gen /\ Holds(p, n, w.buf)

\* PairsIntact, pair by pair.
LEMMA IntactKept == PairsIntact <=> \A n \in 1..Len(pairs) : Kept(n)
  BY DEF PairsIntact, Kept, Holds, OnDevice, Differs

\* A step that touches neither the buffer nor the device keeps the pairs.
LEMMA IntactFrame ==
    ASSUME PairsIntact, UNCHANGED <<devVars, disk, pairs, gen, durable, spoiled>>,
           submitted \subseteq submitted'
    PROVE  PairsIntact'
  <1>1. Writes(submitted) \subseteq Writes(submitted)'
    BY DEF Writes
  <1>2. ASSUME NEW n \in 1..Len(pairs), Kept(n)
        PROVE  Kept(n)'
    BY <1>1, <1>2 DEF Kept, devVars, Flushed
  <1>3. (PairsIntact <=> \A n \in 1..Len(pairs) : Kept(n))'
    BY IntactKept, PTL
  <1> QED
    BY <1>2, <1>3, IntactKept

\* set into the staged segment overwrites no other pair.
LEMMA SetStagedIntact ==
    ASSUME LogInv, IoType, WritesInFlight, PairsIntact, NEW len \in Lens, set_staged(len)
    PROVE  PairsIntact'
  <1> DEFINE N == Len(pairs)
             p == Pair(offset[staged_seg_idx], len, gen)
  <1>1. LogInv'
    BY SetStagedLog
  <1>2. /\ staged_seg_buf' = dev_abs_write(p, N + 1, staged_seg_buf)
        /\ pairs' = Append(pairs, p)
        /\ UNCHANGED <<disk, submitted, gen, durable, spoiled>>
    BY DEF set_staged, ioVars
  <1>3. pairs \in Seq(Pairs) /\ staged_seg_buf \in Buffers /\ N \in Nat
    BY DEF LogInv, LogAt
  <1>4. p.gen = gen
    BY DEF Pair
  <1> HIDE DEF p
  <1>5. /\ Len(pairs') = N + 1
        /\ \A n \in 1..N : pairs'[n] = pairs[n]
        /\ pairs'[N + 1] = p
    BY <1>2, <1>3
  <1> HIDE DEF N
  <1>6. \A n \in 1..(N + 1) : InSegment(pairs'[n]) \subseteq 0..(SegGrains - 1)
    <2>1. (\A n \in 1..Len(pairs) : InSegment(pairs[n]) \subseteq 0..(SegGrains - 1))'
      BY <1>1, InSegmentType, PTL
    <2> QED
      BY <1>5, <2>1 DEF InSegment
  <1>7. DOMAIN staged_seg_buf = 0..(SegGrains - 1)
    BY <1>3 DEF Buffers
  <1>8. (\A k \in 1..Len(pairs) : \A m \in 1..(k - 1) :
           pairs[m].gen = pairs[k].gen =>
             InSegment(pairs[m]) \cap InSegment(pairs[k]) = {})'
    BY <1>1, PairsApart, PTL
  <1>9. ASSUME NEW k \in Nat, k = N + 1
        PROVE  Kept(k)'
    <2>1. Holds(p, k, staged_seg_buf')
      BY <1>2, <1>3, <1>5, <1>6, <1>7, <1>9, WriteHolds DEF N
    <2> QED
      BY <1>2, <1>4, <1>5, <1>9, <2>1 DEF Kept
  <1>10. ASSUME NEW n \in 1..N
        PROVE  Kept(n)'
    <2>1. CASE pairs[n].gen = gen
      <3>1. Holds(pairs[n], n, staged_seg_buf)
        BY <2>1, StagedIntact DEF N
      <3>2. InSegment(pairs[n]) \cap InSegment(p) = {}
        <4>1. N + 1 \in 1..Len(pairs') /\ n \in 1..((N + 1) - 1) /\ n \in 1..Len(pairs')
          BY <1>3, <1>5 DEF N
        <4>2. pairs'[n] = pairs[n] /\ pairs'[N + 1] = p
          BY <1>5
        <4> QED
          BY <1>4, <1>8, <2>1, <4>1, <4>2 DEF InSegment
      <3>3. Holds(pairs[n], n, staged_seg_buf')
        <4>1. N + 1 \in Nat /\ N + 1 \in 1..(N + 1) /\ n \in 1..(N + 1)
          BY <1>3 DEF N
        <4> QED
          BY <1>2, <1>5, <1>6, <1>7, <3>1, <3>2, <4>1, WriteHolds
      <3> QED
        BY <1>2, <1>5, <2>1, <3>3 DEF Kept
    <2>2. CASE pairs[n].gen # gen
      BY <1>2, <1>5, <2>2, IntactKept DEF Kept, N, Flushed
    <2> QED
      BY <2>1, <2>2
  <1>11. (PairsIntact <=> \A n \in 1..Len(pairs) : Kept(n))'
    BY IntactKept, PTL
  <1>12. \A n \in 1..(N + 1) : n \in 1..N \/ (n \in Nat /\ n = N + 1)
    BY <1>3 DEF N
  <1> QED
    BY <1>5, <1>9, <1>10, <1>11, <1>12

\* set into the next segment leaves the pairs of the full one to its write.
LEMMA SetNextSegmentIntact ==
    ASSUME LogInv, IoType, WritesInFlight, PairsIntact, NEW len \in Lens,
           set_next_segment(len)
    PROVE  PairsIntact'
  <1> DEFINE N == Len(pairs)
             s == (staged_seg_idx + 1) % NR_SEGMENT
             p == Pair(start_addr(s), len, gen + 1)
             z == [i \in DOMAIN staged_seg_buf |-> 0]
             u == WriteOf(gen, staged_seg_buf)
  <1>1. LogInv'
    BY SetNextSegmentLog
  <1>2. /\ staged_seg_buf' = dev_abs_write(p, N + 1, z)
        /\ pairs' = Append(pairs, p)
        /\ gen' = gen + 1
        /\ UNCHANGED <<disk, durable>>
        /\ \/ submitted' = submitted /\ spoiled' = spoiled \cup {gen}
           \/ submitted' = submitted \cup {u} /\ spoiled \subseteq spoiled'
    BY DEF set_next_segment, stage_next_segment, aio_write
  <1>3. /\ pairs \in Seq(Pairs) /\ staged_seg_buf \in Buffers /\ N \in Nat
        /\ gen \in Nat /\ NR_SEGMENT \in Nat
    BY DeviceAssumption DEF LogInv, LogAt
  <1>4. /\ p.gen = gen + 1
        /\ u.op = "write" /\ u.gen = gen /\ u.buf = staged_seg_buf
        /\ DOMAIN z = 0..(SegGrains - 1)
    BY <1>3, IoMade DEF Pair, Buffers
  <1> HIDE DEF p, z, u
  <1>5. /\ Len(pairs') = N + 1
        /\ \A n \in 1..N : pairs'[n] = pairs[n]
        /\ pairs'[N + 1] = p
    BY <1>2, <1>3
  <1> HIDE DEF N
  <1>6. InSegment(p) \subseteq 0..(SegGrains - 1)
    <2>1. (\A n \in 1..Len(pairs) : InSegment(pairs[n]) \subseteq 0..(SegGrains - 1))'
      BY <1>1, InSegmentType, PTL
    <2>2. N + 1 \in 1..Len(pairs')
      BY <1>3, <1>5 DEF N
    <2> QED
      BY <1>5, <2>1, <2>2 DEF InSegment
  <1>7. ASSUME NEW k \in Nat, k = N + 1
        PROVE  Kept(k)'
    <2>1. Holds(p, k, staged_seg_buf')
      BY <1>2, <1>4, <1>6, <1>7, WriteHolds
    <2> QED
      BY <1>2, <1>4, <1>5, <1>7, <2>1 DEF Kept
  <1>8. ASSUME NEW n \in 1..N
        PROVE  Kept(n)'
    <2>1. pairs[n].gen \in Nat /\ Kept(n) /\ n \in 1..Len(pairs)
      BY PairFields, IntactKept DEF N
    <2>2. pairs'[n] = pairs[n]
      BY <1>5
    <2>3. SUFFICES ASSUME pairs[n].gen \notin spoiled', ~Flushed(pairs[n])'
                   PROVE  \/ pairs[n].gen \in durable' /\ OnDevice(pairs[n], n, disk')
                          \/ \E w \in Writes(submitted)' :
                               w.gen = pairs[n].gen /\ Holds(pairs[n], n, w.buf)
      BY <2>2 DEF Kept
    <2>4. pairs[n].gen \notin spoiled /\ ~Flushed(pairs[n])
      BY <1>2, <1>3, <2>1, <2>2, <2>3 DEF Flushed
    <2>5. CASE pairs[n].gen = gen
      <3>1. submitted' = submitted \cup {u}
        BY <1>2, <2>3, <2>5
      <3>2. u \in Writes(submitted)'
        BY <1>4, <3>1 DEF Writes
      <3>3. Holds(pairs[n], n, u.buf)
        BY <1>4, <2>1, <2>5, StagedIntact
      <3> QED
        BY <1>4, <2>5, <3>2, <3>3
    <2>6. CASE pairs[n].gen # gen
      <3>1. Writes(submitted) \subseteq Writes(submitted)'
        BY <1>2 DEF Writes
      <3> QED
        BY <1>2, <2>1, <2>4, <2>6, <3>1 DEF Kept
    <2> QED
      BY <2>5, <2>6
  <1>9. (PairsIntact <=> \A n \in 1..Len(pairs) : Kept(n))'
    BY IntactKept, PTL
  <1>10. \A n \in 1..(N + 1) : n \in 1..N \/ (n \in Nat /\ n = N + 1)
    BY <1>3 DEF N
  <1> QED
    BY <1>5, <1>7, <1>8, <1>9, <1>10

\* A write to the device brings the pairs of its stage, and spoils those it
\* wraps over.
LEMMA PerformWriteIntact ==
    ASSUME LogInv, IoType, WritesInFlight, DiskType, PairsIntact,
           NEW io \in submitted, perform(io), perform_write(io)
    PROVE  PairsIntact'
  <1>1. /\ io \in Writes(submitted)
        /\ durable' = durable \cup {io.gen}
        /\ submitted' = submitted \ {io}
        /\ UNCHANGED <<staged_seg_buf, pairs, gen, spoiled>>
        /\ disk' = [a \in DOMAIN disk |->
                      IF a \div SegGrains = io.gen % NR_SEGMENT
                      THEN io.buf[a % SegGrains] ELSE disk[a]]
    BY DEF perform, perform_write, Writes, devVars
  <1>2. Writes(submitted)' = Writes(submitted) \ {io}
    BY <1>1 DEF Writes
  <1>3. DOMAIN disk = 0..(NR_SEGMENT * SegGrains - 1)
    BY DEF DiskType
  <1>4. ASSUME NEW n \in 1..Len(pairs),
               pairs[n].gen \notin spoiled, ~Flushed(pairs[n])
        PROVE  \/ pairs[n].gen = gen /\ Holds(pairs[n], n, staged_seg_buf)
               \/ pairs[n].gen \in durable' /\ OnDevice(pairs[n], n, disk')
               \/ \E w \in Writes(submitted)' :
                    w.gen = pairs[n].gen /\ Holds(pairs[n], n, w.buf)
    <2>1. Kept(n)
      BY IntactKept
    <2>2. CASE pairs[n].gen = gen /\ Holds(pairs[n], n, staged_seg_buf)
      BY <2>2
    <2>3. CASE pairs[n].gen \in durable /\ OnDevice(pairs[n], n, disk)
      <3>1. io.gen % NR_SEGMENT # pairs[n].gen % NR_SEGMENT
        BY <1>1, <1>4, <2>3, NoRival
      <3>2. ASSUME NEW a \in pairs[n].pba..(pairs[n].pba + pairs[n].size - 1)
            PROVE  disk'[a] = n
        <4>1. a \in DOMAIN disk /\ a \div SegGrains = pairs[n].gen % NR_SEGMENT
          BY <1>3, PairGrains
        <4> QED
          BY <1>1, <2>3, <3>1, <4>1 DEF OnDevice
      <3> QED
        BY <1>1, <2>3, <3>2 DEF OnDevice
    <2>4. CASE \E w \in Writes(submitted) :
                 w.gen = pairs[n].gen /\ Holds(pairs[n], n, w.buf)
      <3>1. PICK w \in Writes(submitted) :
                   w.gen = pairs[n].gen /\ Holds(pairs[n], n, w.buf)
        BY <2>4
      <3>2. CASE w = io
        <4>1. ASSUME NEW a \in pairs[n].pba..(pairs[n].pba + pairs[n].size - 1)
              PROVE  disk'[a] = n
          <5>1. a \in DOMAIN disk /\ a \div SegGrains = io.gen % NR_SEGMENT
            BY <1>3, <3>1, <3>2, PairGrains
          <5>2. a % SegGrains \in InSegment(pairs[n])
            BY DEF InSegment
          <5> QED
            BY <1>1, <3>1, <3>2, <5>1, <5>2 DEF Holds
        <4> QED
          BY <1>1, <3>1, <3>2, <4>1 DEF OnDevice
      <3>3. CASE w # io
        BY <1>2, <3>1, <3>3
      <3> QED
        BY <3>2, <3>3
    <2> QED
      BY <1>4, <2>1, <2>2, <2>3, <2>4 DEF Kept
  <1>5. (PairsIntact <=> \A n \in 1..Len(pairs) : Kept(n))'
    BY IntactKept, PTL
  <1>6. ASSUME NEW n \in 1..Len(pairs)
        PROVE  Kept(n)'
    BY <1>1, <1>4 DEF Kept, Flushed
  <1> QED
    BY <1>1, <1>5, <1>6

\* Every step keeps every pair in the buffer, in a write or on the device.
LEMMA IntactStep ==
    ASSUME LogInv, IoType, WritesInFlight, DiskType, PairsIntact, [Next]_vars
    PROVE  PairsIntact'
  <1>1. ASSUME NEW len \in Lens, Set(len)
        PROVE  PairsIntact'
    <2>1. CASE set_crash(len)
      BY <2>1, IntactFrame DEF set_crash, histVars, ioVars
    <2> QED
      BY <1>1, <2>1, SetStagedIntact, SetNextSegmentIntact DEF Set
  <1>2. ASSUME NEW r \in Slots, NEW n \in 1..Len(pairs), Read(r, n)
        PROVE  PairsIntact'
    BY <1>2, IntactFrame DEF Read, read_staged, aio_read, read_crash, histVars, ioVars
  <1>3. ASSUME NEW io \in submitted, perform(io)
        PROVE  PairsIntact'
    <2>1. CASE perform_read(io)
      <3>1. io.op = "read" /\ submitted' = submitted \ {io}
            /\ UNCHANGED <<staged_seg_buf, disk, pairs, gen, durable, spoiled>>
        BY <1>3, <2>1 DEF perform, perform_read, devVars
      <3>2. Writes(submitted)' = Writes(submitted)
        BY <3>1 DEF Writes
      <3>3. ASSUME NEW n \in 1..Len(pairs), Kept(n)
            PROVE  Kept(n)'
        BY <3>1, <3>2, <3>3 DEF Kept, Flushed
      <3>4. (PairsIntact <=> \A n \in 1..Len(pairs) : Kept(n))'
        BY IntactKept, PTL
      <3> QED
        BY <3>1, <3>3, <3>4, IntactKept
    <2> QED
      BY <1>3, <2>1, PerformWriteIntact DEF perform
  <1>4. CASE aio_poller \/ data_size_error \/ UNCHANGED vars
    BY <1>4, IntactFrame
       DEF aio_poller, io_getevents, run_callback, recycle, data_size_error, histVars,
           ioVars, vars
  <1> QED
    BY <1>1, <1>2, <1>3, <1>4 DEF Next

\* A read that is_staged sends to the staging buffer finds its pair there.
LEMMA ReadStagedReturns ==
    ASSUME LogInv, IoType, WritesInFlight, PairsIntact, NEW n \in 1..Len(pairs),
           is_staged(pairs[n]), Readable(pairs[n])
    PROVE  ~Differs(n, staged_seg_buf)
  <1> DEFINE p == pairs[n]
             s == staged_seg_idx
             G == GRAIN_UNIT
  <1>1. CASE p.gen = gen
    BY <1>1, StagedIntact DEF Holds, Differs
  <1>2. CASE p.gen # gen
    <2>1. /\ LogAt /\ gen \in Nat /\ s = gen % NR_SEGMENT
          /\ G \in Nat \ {0} /\ NR_SEGMENT \in Nat \ {0}
      BY DeviceAssumption DEF LogInv, LogAt
    <2>2. /\ p.gen \in Nat /\ p.pba \in Nat /\ p.gen <= gen
          /\ Base(p.gen) <= p.pba
          /\ p.pba < Base(p.gen) + SegGrains
      <3>1. pairs \in Seq(Pairs)
        BY <2>1 DEF LogAt
      <3>2. p \in Pairs
        BY <3>1
      <3>3. p.len \in 1..SEGMENT_SIZE
        BY <3>2 DEF Pairs
      <3>4. Grains(p.len) \in Nat \ {0}
        BY <3>3, RoundUpExact
      <3>5. Base(p.gen) \in Nat /\ SegGrains \in Nat
        BY PairFields, BaseInDevice, SegmentGrains
      <3> QED
        BY <3>4, <3>5, PairFields
    <2>3. /\ s \in Segments /\ s \in Nat
          /\ Base(gen) \in Nat /\ SegGrains \in Nat
          /\ start_addr(s) = Base(gen) * G
          /\ end_addr(s) = (Base(gen) + SegGrains) * G
          /\ Base(gen) = s * SegGrains
      BY <2>1, BaseInDevice, Addresses, SegmentGrains DEF Base
    <2>4. p.pba * G >= Base(gen) * G /\ p.pba * G < offset[s]
      BY <2>3 DEF is_staged
    <2>5. offset[s] \in Nat /\ offset[s] <= end_addr(s) /\ end_addr(s) \in Nat
      BY <2>1, <2>3, Addresses DEF LogAt
    <2>6. Base(gen) <= p.pba /\ p.pba < Base(gen) + SegGrains
      <3> DEFINE e == Base(gen) + SegGrains
                 b == Base(gen)
                 x == p.pba
      <3>1. e \in Nat /\ end_addr(s) = e * G /\ b \in Nat /\ x \in Nat
            /\ x * G >= b * G /\ x * G < offset[s]
        BY <2>2, <2>3, <2>4
      <3> HIDE DEF e, b, x, p, s, G
      <3>2. x * G \in Nat /\ b * G \in Nat /\ e * G \in Nat
        BY <2>1, <3>1
      <3>3. b * G <= x * G /\ x * G < e * G
        BY <2>5, <3>1, <3>2
      <3>4. b <= x /\ x < e
        BY <2>1, <3>1, <3>3, MulOrder
      <3> QED
        BY <3>4 DEF e, b, x, p
    <2>7. gen % NR_SEGMENT = p.gen % NR_SEGMENT
      <3>1. p.pba \div SegGrains = s
        BY <2>2, <2>3, <2>6, GrainPlace
      <3>2. p.gen % NR_SEGMENT \in Nat /\ Base(p.gen) = (p.gen % NR_SEGMENT) * SegGrains
        BY <2>2, BaseInDevice DEF Base
      <3>3. p.pba \div SegGrains = p.gen % NR_SEGMENT
        BY <2>2, <3>2, GrainPlace
      <3> QED
        BY <2>1, <3>1, <3>3
    <2>8. /\ gen <= p.gen + NR_SEGMENT
          /\ gen = p.gen + NR_SEGMENT => p.pba * G >= offset[s]
      BY <1>2, <2>1, <2>2 DEF Readable, Flushed
    <2>9. gen = p.gen + NR_SEGMENT
      <3>1. p.gen < gen /\ p.gen % NR_SEGMENT = gen % NR_SEGMENT
        BY <1>2, <2>1, <2>2, <2>7
      <3> HIDE DEF p
      <3> QED
        BY <2>1, <2>2, <2>8, <3>1, OneTurn
    <2> QED
      BY <2>1, <2>2, <2>4, <2>5, <2>8, <2>9
  <1> QED
    BY <1>1, <1>2

\* A read from the device that was submitted for a readable pair returns it.
LEMMA ReadReturns ==
    ASSUME LogInv, IoType, WritesInFlight, ReadsInFlight, PairsIntact,
           NEW io \in submitted, io.op = "read", io.safe,
           ~Flushed(pairs[io.pair]), pairs[io.pair].gen \notin spoiled,
           NEW a \in pairs[io.pair].pba..(pairs[io.pair].pba + pairs[io.pair].size - 1)
    PROVE  Sees(a) = {io.pair}
  <1> DEFINE n == io.pair
  <1>1. n \in 1..Len(pairs) /\ pairs[n].gen \in durable
    <2>1. io \in Ios /\ io \in Reads(submitted)
      BY DEF IoType, Reads
    <2>2. n \in 1..MAX_PAIR /\ n <= Len(pairs) /\ pairs[n].gen \in durable
      BY <2>1, IoFields DEF ReadsInFlight
    <2>3. Len(pairs) \in Nat /\ MAX_PAIR \in Nat
      BY DeviceAssumption DEF LogInv, LogAt
    <2> QED
      BY <2>2, <2>3
  <1>2. disk[a] = n
    BY <1>1, OnDeviceIntact DEF OnDevice
  <1>3. a \div SegGrains = pairs[n].gen % NR_SEGMENT
    BY <1>1, PairGrains
  <1>4. {v \in Writes(submitted) : v.gen % NR_SEGMENT = a \div SegGrains} = {}
    BY <1>1, <1>3, NoRival
  <1> QED
    BY <1>2, <1>4 DEF Sees

\* No step makes a read return anything but its pair.
LEMMA MisreadStep ==
    ASSUME LogInv, IoType, WritesInFlight, ReadsInFlight, PairsIntact, misread = {},
           [Next]_vars
    PROVE  misread' = {}
  <1>1. ASSUME NEW len \in Lens, Set(len)
        PROVE  misread' = misread
    BY <1>1 DEF Set, set_staged, set_next_segment, set_crash, histVars
  <1>2. ASSUME NEW r \in Slots, NEW n \in 1..Len(pairs), Read(r, n)
        PROVE  misread' = misread
    <2>1. CASE read_staged(r, n)
      BY <2>1, ReadStagedReturns DEF read_staged
    <2> QED
      BY <1>2, <2>1 DEF Read, aio_read, read_crash, histVars
  <1>3. ASSUME NEW io \in submitted, perform(io)
        PROVE  misread' = misread
    <2>1. CASE perform_read(io)
      BY <2>1, ReadReturns DEF perform_read
    <2> QED
      BY <1>3, <2>1 DEF perform, perform_write
  <1>4. CASE aio_poller \/ data_size_error \/ UNCHANGED vars
    BY <1>4 DEF aio_poller, io_getevents, run_callback, recycle, data_size_error,
                histVars, vars
  <1> QED
    BY <1>1, <1>2, <1>3, <1>4 DEF Next

-----------------------------------------------------------------------------
(* Requests: who waits for which read. *)

WaitInv == RequestsWait /\ OneReadEach

\* Initially no request waits for a read.
LEMMA WaitInit == Init => WaitInv
  BY DEF Init, WaitInv, RequestsWait, OneReadEach, Reads

\* A step that leaves the reads and the requests keeps who waits for what.
LEMMA WaitFrame ==
    ASSUME WaitInv, Reads(submitted)' = Reads(submitted),
           UNCHANGED <<completed, events, called, request>>
    PROVE  WaitInv'
  BY DEF WaitInv, RequestsWait, OneReadEach, Waiting

\* aio_read: the request was idle, so that no other read is its own.
LEMMA AioReadWaits ==
    ASSUME LogInv, IoType, WaitInv, NEW r \in Slots, NEW n \in 1..Len(pairs), aio_read(r, n)
    PROVE  WaitInv'
  <1> DEFINE u == ReadOf(r, n, Readable(pairs[n]))
  <1>1. /\ request[r] = "idle" /\ request \in [Slots -> {"idle", "read", "lost"}]
        /\ UNCHANGED <<completed, events, called>>
        /\ \/ request' = [request EXCEPT ![r] = "lost"] /\ submitted' = submitted
           \/ request' = [request EXCEPT ![r] = "read"] /\ submitted' = submitted \cup {u}
    BY DEF aio_read, IoType
  <1>2. u.op = "read" /\ u.req = r
    BY DEF ReadOf
  <1> HIDE DEF u
  <1>3. \/ Reads(submitted)' = Reads(submitted)
        \/ Reads(submitted)' = Reads(submitted) \cup {u} /\ request'[r] = "read"
    BY <1>1, <1>2 DEF Reads
  <1>4. \A q \in Slots : request[q] = "read" => q # r /\ request'[q] = "read"
    BY <1>1
  <1>5. /\ \A io \in Reads(submitted) : io.req \in Slots /\ io.req # r
        /\ \A i \in 1..Len(completed) :
             completed[i].op = "read" => completed[i].req \in Slots /\ completed[i].req # r
        /\ \A i \in 1..Len(events) :
             Waiting(i) => events[i].req \in Slots /\ events[i].req # r
    <2>1. \A io \in Reads(submitted) : io.req \in Slots
      BY IoFields DEF Reads, IoType
    <2>2. \A i \in 1..Len(completed) :
            completed[i].op = "read" => completed[i].req \in Slots
      BY IoFields DEF IoType
    <2>3. \A i \in 1..Len(events) : Waiting(i) => events[i].req \in Slots
      BY IoFields DEF IoType, Waiting
    <2> QED
      BY <1>4, <2>1, <2>2, <2>3 DEF WaitInv, RequestsWait
  <1>6. \A i \in 1..Len(events) : Waiting(i)' => Waiting(i)
    BY <1>1 DEF Waiting
  <1>7. RequestsWait'
    BY <1>1, <1>2, <1>3, <1>4, <1>5, <1>6 DEF WaitInv, RequestsWait
  <1>8. OneReadEach'
    BY <1>1, <1>2, <1>3, <1>5, <1>6 DEF WaitInv, OneReadEach
  <1> QED
    BY <1>7, <1>8 DEF WaitInv

\* The device performs a read: its request goes on waiting for it.
LEMMA PerformWaits ==
    ASSUME IoType, WaitInv, NEW io \in submitted, perform(io)
    PROVE  WaitInv'
  <1> DEFINE N == Len(completed)
  <1>1. /\ submitted' = submitted \ {io} /\ completed' = Append(completed, io)
        /\ UNCHANGED <<events, called, request>>
    BY DEF perform
  <1>2. completed \in Seq(Ios) /\ io \in Ios /\ N \in Nat
    BY DEF IoType
  <1>3. /\ Len(completed') = N + 1
        /\ \A i \in 1..N : completed'[i] = completed[i]
        /\ completed'[N + 1] = io
        /\ \A i \in 1..(N + 1) : i \in 1..N \/ i = N + 1
    BY <1>1, <1>2
  <1>4. Reads(submitted)' = Reads(submitted) \ {io}
    BY <1>1 DEF Reads
  <1>5. io.op = "read" => io \in Reads(submitted)
    BY DEF Reads
  <1>6. \A i \in 1..Len(events) : Waiting(i)' => Waiting(i)
    BY <1>1 DEF Waiting
  <1>7. RequestsWait'
    BY <1>1, <1>3, <1>4, <1>5, <1>6 DEF WaitInv, RequestsWait
  <1>8. OneReadEach'
    <2>1. OneReadEach
      BY DEF WaitInv
    <2>2. \A io1, io2 \in Reads(submitted)' : io1.req = io2.req => io1 = io2
      BY <1>4, <2>1 DEF OneReadEach
    <2>3. \A i, j \in 1..(N + 1) :
            completed'[i].op = "read" /\ completed'[j].op = "read" /\ i # j
            => completed'[i].req # completed'[j].req
      BY <1>3, <1>5, <2>1 DEF OneReadEach
    <2>4. \A i, j \in 1..Len(events) :
            Waiting(i)' /\ Waiting(j)' /\ i # j => events[i].req # events[j].req
      BY <1>6, <2>1 DEF OneReadEach
    <2>5. \A v \in Reads(submitted)' : \A i \in 1..(N + 1) :
            completed'[i].op = "read" => v.req # completed'[i].req
      BY <1>3, <1>4, <1>5, <2>1 DEF OneReadEach
    <2>6. \A v \in Reads(submitted)' : \A i \in 1..Len(events) :
            Waiting(i)' => v.req # events[i].req
      BY <1>4, <1>6, <2>1 DEF OneReadEach
    <2>7. \A i \in 1..(N + 1) : \A j \in 1..Len(events) :
            completed'[i].op = "read" /\ Waiting(j)' => completed'[i].req # events[j].req
      BY <1>3, <1>5, <1>6, <2>1 DEF OneReadEach
    <2>8. events' = events /\ Len(completed') = N + 1
      BY <1>1, <1>3
    <2> HIDE DEF N
    <2> QED
      BY <2>2, <2>3, <2>4, <2>5, <2>6, <2>7, <2>8 DEF OneReadEach
  <1> QED
    BY <1>7, <1>8 DEF WaitInv

\* io_getevents moves reads from the completion queue to the batch.
LEMMA GeteventsWaits ==
    ASSUME IoType, WaitInv, io_getevents
    PROVE  WaitInv'
  <1> DEFINE k == IF Len(completed) < NR_EVENTS THEN Len(completed) ELSE NR_EVENTS
             M == Len(completed) - k
  <1>1. /\ events = << >> /\ completed \in Seq(Ios)
        /\ events' = SubSeq(completed, 1, k)
        /\ completed' = SubSeq(completed, k + 1, Len(completed))
        /\ UNCHANGED <<submitted, called, request>>
    BY DEF io_getevents, IoType
  <1>2. k \in 0..Len(completed)
    BY <1>1, DeviceAssumption
  <1> HIDE DEF k
  <1>3. /\ Len(events') = k
        /\ \A i \in 1..k : i \in 1..Len(completed) /\ events'[i] = completed[i]
        /\ Len(completed') = M
        /\ \A i \in 1..M : i + k \in 1..Len(completed) /\ completed'[i] = completed[i + k]
        /\ \A i, j \in 1..M : i # j => i + k # j + k
        /\ \A i \in 1..k : \A j \in 1..M : i # j + k
    BY <1>1, <1>2
  <1> HIDE DEF M
  <1>4. Reads(submitted)' = Reads(submitted)
    BY <1>1 DEF Reads
  <1>5. \A i \in 1..k : Waiting(i)' => completed[i].op = "read"
    BY <1>3 DEF Waiting
  <1>6. RequestsWait'
    <2>1. \A io \in Reads(submitted)' : request'[io.req] = "read"
      BY <1>1, <1>4 DEF WaitInv, RequestsWait
    <2>2. ASSUME NEW i \in 1..M, completed'[i].op = "read"
          PROVE  request'[completed'[i].req] = "read"
      <3>1. i + k \in 1..Len(completed) /\ completed'[i] = completed[i + k]
        BY <1>3
      <3>2. completed[i + k].op = "read" => request[completed[i + k].req] = "read"
        BY <3>1 DEF WaitInv, RequestsWait
      <3>3. request' = request
        BY <1>1
      <3> QED
        BY <2>2, <3>1, <3>2, <3>3
    <2>3. \A i \in 1..k : Waiting(i)' => request'[events'[i].req] = "read"
      BY <1>1, <1>3, <1>5 DEF WaitInv, RequestsWait
    <2> QED
      BY <1>3, <2>1, <2>2, <2>3 DEF RequestsWait
  <1>7. OneReadEach'
    <2>1. OneReadEach
      BY DEF WaitInv
    <2>2. \A i, j \in 1..M :
            completed'[i].op = "read" /\ completed'[j].op = "read" /\ i # j
            => completed'[i].req # completed'[j].req
      BY <1>3, <2>1 DEF OneReadEach
    <2>3. \A i, j \in 1..k :
            Waiting(i)' /\ Waiting(j)' /\ i # j => events'[i].req # events'[j].req
      BY <1>3, <1>5, <2>1 DEF OneReadEach
    <2>4. \A v \in Reads(submitted) : \A i \in 1..M :
            completed'[i].op = "read" => v.req # completed'[i].req
      BY <1>3, <2>1 DEF OneReadEach
    <2>5. \A v \in Reads(submitted) : \A i \in 1..k : Waiting(i)' => v.req # events'[i].req
      BY <1>3, <1>5, <2>1 DEF OneReadEach
    <2>6. ASSUME NEW i \in 1..M, NEW j \in 1..k, completed'[i].op = "read", Waiting(j)'
          PROVE  completed'[i].req # events'[j].req
      <3>1. /\ i + k \in 1..Len(completed) /\ completed'[i] = completed[i + k]
            /\ j \in 1..Len(completed) /\ events'[j] = completed[j]
            /\ j # i + k
            /\ completed[j].op = "read"
        BY <1>3, <1>5, <2>6
      <3> QED
        BY <2>1, <2>6, <3>1 DEF OneReadEach
    <2>7. \A io1, io2 \in Reads(submitted) : io1.req = io2.req => io1 = io2
      BY <2>1 DEF OneReadEach
    <2> QED
      BY <1>3, <1>4, <2>2, <2>3, <2>4, <2>5, <2>6, <2>7 DEF OneReadEach
  <1> QED
    BY <1>6, <1>7 DEF WaitInv

\* The callback of a read ends the wait of its request only.
LEMMA CallbackWaits ==
    ASSUME IoType, WaitInv, run_callback
    PROVE  WaitInv'
  <1>1. /\ events # << >> /\ ~called /\ called'
        /\ events \in Seq(Ios)
        /\ UNCHANGED <<submitted, completed, events>>
        /\ request \in [Slots -> {"idle", "read", "lost"}]
        /\ request' = IF Head(events).op = "read"
                      THEN [request EXCEPT ![Head(events).req] = "idle"]
                      ELSE request
    BY DEF run_callback, IoType
  <1>2. /\ 1 \in 1..Len(events) /\ Head(events) = events[1]
    BY <1>1
  <1>3. \A q \in Slots : request'[q] # request[q]
                         => events[1].op = "read" /\ q = events[1].req
    BY <1>1, <1>2
  <1>4. \A i \in 1..Len(events) : Waiting(i)' => Waiting(i) /\ i # 1
    BY <1>1 DEF Waiting
  <1>5. events[1].op = "read" => Waiting(1)
    BY <1>1 DEF Waiting
  <1>6. Reads(submitted)' = Reads(submitted)
    BY <1>1 DEF Reads
  <1>7. /\ \A io \in Reads(submitted) : io.req \in Slots
        /\ \A i \in 1..Len(completed) :
             completed[i].op = "read" => completed[i].req \in Slots
        /\ \A i \in 1..Len(events) : Waiting(i) => events[i].req \in Slots
    BY IoFields DEF Reads, IoType, Waiting
  <1>8. RequestsWait'
    <2>1. \A io \in Reads(submitted) : request'[io.req] = "read"
      BY <1>2, <1>3, <1>5, <1>7 DEF WaitInv, RequestsWait, OneReadEach
    <2>2. \A i \in 1..Len(completed) :
            completed[i].op = "read" => request'[completed[i].req] = "read"
      BY <1>2, <1>3, <1>5, <1>7 DEF WaitInv, RequestsWait, OneReadEach
    <2>3. \A i \in 1..Len(events) : Waiting(i)' => request'[events[i].req] = "read"
      BY <1>2, <1>3, <1>4, <1>5, <1>7 DEF WaitInv, RequestsWait, OneReadEach
    <2> QED
      BY <1>1, <1>6, <2>1, <2>2, <2>3 DEF RequestsWait
  <1>9. OneReadEach'
    BY <1>1, <1>4, <1>6 DEF WaitInv, OneReadEach
  <1> QED
    BY <1>8, <1>9 DEF WaitInv

\* The poller is done with an event.
LEMMA RecycleWaits ==
    ASSUME IoType, WaitInv, recycle
    PROVE  WaitInv'
  <1>1. /\ called /\ events # << >> /\ events \in Seq(Ios)
        /\ events' = Tail(events)
        /\ UNCHANGED <<submitted, completed, request>>
    BY DEF recycle, IoType
  <1>2. /\ Len(events') = Len(events) - 1
        /\ \A i \in 1..(Len(events) - 1) :
             i + 1 \in 1..Len(events) /\ i + 1 # 1 /\ events'[i] = events[i + 1]
        /\ \A i, j \in 1..(Len(events) - 1) : i # j => i + 1 # j + 1
    BY <1>1
  <1>3. \A i \in 1..(Len(events) - 1) : Waiting(i)' => Waiting(i + 1)
    BY <1>2 DEF Waiting
  <1>4. Reads(submitted)' = Reads(submitted)
    BY <1>1 DEF Reads
  <1>5. RequestsWait'
    BY <1>1, <1>2, <1>3, <1>4 DEF WaitInv, RequestsWait
  <1>6. OneReadEach'
    BY <1>1, <1>2, <1>3, <1>4 DEF WaitInv, OneReadEach
  <1> QED
    BY <1>5, <1>6 DEF WaitInv

\* Every step keeps the reads in flight those of different requests, which
\* wait for them.
LEMMA WaitStep ==
    ASSUME LogInv, IoType, WaitInv, [Next]_vars
    PROVE  WaitInv'
  <1>1. ASSUME NEW len \in Lens, Set(len)
        PROVE  WaitInv'
    <2>1. /\ UNCHANGED <<completed, events, called, request>>
          /\ submitted' \in {submitted, submitted \cup {WriteOf(gen, staged_seg_buf)}}
      BY <1>1 DEF Set, set_staged, set_next_segment, set_crash, aio_write, ioVars
    <2>2. WriteOf(gen, staged_seg_buf).op = "write"
      BY DEF WriteOf
    <2>3. Reads(submitted)' = Reads(submitted)
      BY <2>1, <2>2 DEF Reads
    <2> QED
      BY <2>1, <2>3, WaitFrame
  <1>2. ASSUME NEW r \in Slots, NEW n \in 1..Len(pairs), Read(r, n)
        PROVE  WaitInv'
    <2>1. CASE read_staged(r, n) \/ read_crash(r, n)
      BY <2>1, WaitFrame DEF read_staged, read_crash, ioVars, Reads
    <2> QED
      BY <1>2, <2>1, AioReadWaits DEF Read
  <1>3. CASE data_size_error \/ UNCHANGED vars
    BY <1>3, WaitFrame DEF data_size_error, vars, ioVars, Reads
  <1> QED
    BY <1>1, <1>2, <1>3, PerformWaits, GeteventsWaits, CallbackWaits, RecycleWaits
       DEF Next, aio_poller

-----------------------------------------------------------------------------
(* The pools of callbacks and iocbs. *)

PoolInv ==
    /\ cb_pool \in Nat /\ iocb_pool \in Nat /\ leaked \in Nat
    /\ down \in {"no", "pool", "error"}
    /\ PoolsExact
    /\ PoolEmpty

\* Initially the pools are full.
LEMMA PoolInit == Init => PoolInv
  <1> SUFFICES ASSUME Init PROVE PoolInv
    OBVIOUS
  <1>1. /\ cb_pool = QSIZE /\ iocb_pool = QSIZE /\ leaked = 0 /\ QSIZE \in Nat
        /\ submitted = {} /\ completed = << >> /\ events = << >> /\ down = "no"
    BY DeviceAssumption DEF Init
  <1>2. Cardinality(submitted) = 0 /\ Len(completed) = 0 /\ Len(events) = 0
    BY <1>1, FS_EmptySet
  <1> QED
    BY <1>1, <1>2 DEF PoolInv, PoolsExact, PoolEmpty

\* A submitted I/O is a new one, so that it is counted.
LEMMA CountSubmitted ==
    ASSUME WritesInFlight, IoType, gen \in Nat, RequestsWait
    PROVE  /\ \A buf \in Buffers :
                Cardinality(submitted \cup {WriteOf(gen, buf)}) = Cardinality(submitted) + 1
           /\ \A r \in Slots, n \in 1..MAX_PAIR, safe \in BOOLEAN :
                request[r] = "idle" =>
                  Cardinality(submitted \cup {ReadOf(r, n, safe)}) = Cardinality(submitted) + 1
           /\ \A io \in submitted :
                Cardinality(submitted \ {io}) = Cardinality(submitted) - 1
           /\ Cardinality(submitted) \in Nat
  <1>1. IsFiniteSet(submitted)
    BY DEF WritesInFlight
  <1>2. ASSUME NEW buf \in Buffers
        PROVE  WriteOf(gen, buf) \notin submitted
    <2>1. WriteOf(gen, buf).op = "write" /\ WriteOf(gen, buf).gen = gen
      BY IoMade
    <2> QED
      BY <2>1 DEF WritesInFlight, Writes
  <1>3. ASSUME NEW r \in Slots, NEW n \in 1..MAX_PAIR, NEW safe \in BOOLEAN,
               request[r] = "idle"
        PROVE  ReadOf(r, n, safe) \notin submitted
    <2>1. ReadOf(r, n, safe).op = "read" /\ ReadOf(r, n, safe).req = r
      BY IoMade
    <2> QED
      BY <1>3, <2>1 DEF RequestsWait, Reads
  <1> QED
    BY <1>1, <1>2, <1>3, FS_AddElement, FS_RemoveElement, FS_CardinalityType

\* Every step keeps the pools' count: what is taken is in flight or leaked.
LEMMA PoolStep ==
    ASSUME LogInv, IoType, WritesInFlight, WaitInv, PoolInv, [Next]_vars
    PROVE  PoolInv'
  <1> DEFINE C == Cardinality(submitted)
             held == C + Len(completed) + Len(events) + leaked
  <1>1. /\ cb_pool \in Nat /\ iocb_pool \in Nat /\ leaked \in Nat
        /\ down \in {"no", "pool", "error"}
        /\ cb_pool + held = QSIZE /\ iocb_pool + held = QSIZE
        /\ PoolEmpty
    BY DEF PoolInv, PoolsExact
  <1>2. /\ gen \in Nat /\ staged_seg_buf \in Buffers /\ QSIZE \in Nat
        /\ \A n \in 1..Len(pairs) : n \in 1..MAX_PAIR
        /\ completed \in Seq(Ios) /\ events \in Seq(Ios)
        /\ RequestsWait
    BY DeviceAssumption DEF LogInv, LogAt, IoType, WaitInv
  <1>3. /\ C \in Nat
        /\ Cardinality(submitted \cup {WriteOf(gen, staged_seg_buf)}) = C + 1
        /\ \A r \in Slots, n \in 1..Len(pairs) :
             request[r] = "idle" =>
               Cardinality(submitted \cup {ReadOf(r, n, Readable(pairs[n]))}) = C + 1
        /\ \A io \in submitted : Cardinality(submitted \ {io}) = C - 1
    BY <1>2, CountSubmitted, ReadableBoolean
  <1>4. /\ Len(completed) \in Nat /\ Len(events) \in Nat /\ C \in Nat
        /\ cb_pool \in Nat /\ iocb_pool \in Nat /\ leaked \in Nat
        /\ cb_pool + held = QSIZE /\ iocb_pool + held = QSIZE
    BY <1>1, <1>2, <1>3
  <1> HIDE DEF C
  <1>5. ASSUME UNCHANGED <<ioVars, poolVars, leaked, down>>
        PROVE  PoolInv'
    BY <1>5 DEF PoolInv, PoolsExact, PoolEmpty, ioVars, poolVars
  <1>6. ASSUME UNCHANGED <<ioVars, poolVars, leaked>>,
               down' = "error" \/ (down' = "pool" /\ (cb_pool <= 1 \/ iocb_pool < 1))
        PROVE  PoolInv'
    BY <1>6 DEF PoolInv, PoolsExact, PoolEmpty, ioVars, poolVars
  <1>7. ASSUME down = "no", down' = "no",
               cb_pool' \in Nat, iocb_pool' \in Nat, leaked' \in Nat,
               cb_pool' + (Cardinality(submitted') + Len(completed') + Len(events') + leaked')
                 = QSIZE,
               iocb_pool' + (Cardinality(submitted') + Len(completed') + Len(events') + leaked')
                 = QSIZE
        PROVE  PoolInv'
    BY <1>7 DEF PoolInv, PoolsExact, PoolEmpty
  <1>8. ASSUME NEW len \in Lens, Set(len)
        PROVE  PoolInv'
    <2>1. CASE set_staged(len)
      BY <1>5, <2>1 DEF set_staged
    <2>2. CASE set_next_segment(len)
      <3>1. /\ down = "no" /\ down' = "no" /\ cb_pool >= 2 /\ iocb_pool >= 1
            /\ cb_pool' = cb_pool - 1 /\ iocb_pool' = iocb_pool - 1
            /\ UNCHANGED <<completed, events>>
            /\ \/ submitted' = submitted /\ leaked' = leaked + 1
               \/ submitted' = submitted \cup {WriteOf(gen, staged_seg_buf)} /\ leaked' = leaked
        BY <2>2 DEF set_next_segment, aio_write
      <3>2. \/ Cardinality(submitted') = C /\ leaked' = leaked + 1
            \/ Cardinality(submitted') = C + 1 /\ leaked' = leaked
        BY <1>3, <3>1 DEF C
      <3>3. Len(completed') = Len(completed) /\ Len(events') = Len(events)
        BY <3>1
      <3>4. /\ cb_pool' \in Nat /\ iocb_pool' \in Nat /\ leaked' \in Nat
            /\ cb_pool' + (Cardinality(submitted') + Len(completed') + Len(events') + leaked')
                 = QSIZE
            /\ iocb_pool' + (Cardinality(submitted') + Len(completed') + Len(events') + leaked')
                 = QSIZE
        <4>1. /\ cb_pool >= 1 /\ iocb_pool >= 1
              /\ cb_pool' = cb_pool - 1 /\ iocb_pool' = iocb_pool - 1
          BY <1>1, <3>1
        <4> QED
          BY <1>4, <3>2, <3>3, <4>1
      <3> QED
        BY <1>7, <3>1, <3>4
    <2>3. CASE set_crash(len)
      <3>1. /\ cb_pool <= 1 \/ iocb_pool < 1
            /\ down' = "pool"
            /\ UNCHANGED <<ioVars, poolVars, leaked>>
        BY <1>1, <2>3 DEF set_crash, histVars
      <3> QED
        BY <1>6, <3>1
    <2> QED
      BY <1>8, <2>1, <2>2, <2>3 DEF Set
  <1>9. ASSUME NEW r \in Slots, NEW n \in 1..Len(pairs), Read(r, n)
        PROVE  PoolInv'
    <2>1. CASE read_staged(r, n)
      BY <1>5, <2>1 DEF read_staged
    <2>2. CASE aio_read(r, n)
      <3>1. /\ down = "no" /\ down' = "no" /\ cb_pool >= 1 /\ iocb_pool >= 1
            /\ cb_pool' = cb_pool - 1 /\ iocb_pool' = iocb_pool - 1
            /\ request[r] = "idle"
            /\ UNCHANGED <<completed, events>>
            /\ \/ submitted' = submitted /\ leaked' = leaked + 1
               \/ /\ submitted' = submitted \cup {ReadOf(r, n, Readable(pairs[n]))}
                  /\ leaked' = leaked
        BY <2>2 DEF aio_read
      <3>2. \/ Cardinality(submitted') = C /\ leaked' = leaked + 1
            \/ Cardinality(submitted') = C + 1 /\ leaked' = leaked
        BY <1>3, <3>1 DEF C
      <3>3. Len(completed') = Len(completed) /\ Len(events') = Len(events)
        BY <3>1
      <3>4. /\ cb_pool' \in Nat /\ iocb_pool' \in Nat /\ leaked' \in Nat
            /\ cb_pool' + (Cardinality(submitted') + Len(completed') + Len(events') + leaked')
                 = QSIZE
            /\ iocb_pool' + (Cardinality(submitted') + Len(completed') + Len(events') + leaked')
                 = QSIZE
        <4>1. /\ cb_pool >= 1 /\ iocb_pool >= 1
              /\ cb_pool' = cb_pool - 1 /\ iocb_pool' = iocb_pool - 1
          BY <1>1, <3>1
        <4> QED
          BY <1>4, <3>2, <3>3, <4>1
      <3> QED
        BY <1>7, <3>1, <3>4
    <2>3. CASE read_crash(r, n)
      <3>1. /\ cb_pool <= 1 \/ iocb_pool < 1
            /\ down' = "pool"
            /\ UNCHANGED <<ioVars, poolVars, leaked>>
        BY <1>1, <2>3 DEF read_crash, histVars
      <3> QED
        BY <1>6, <3>1
    <2> QED
      BY <1>9, <2>1, <2>2, <2>3 DEF Read
  <1>10. ASSUME NEW io \in submitted, perform(io)
        PROVE  PoolInv'
    <2>1. /\ down = "no" /\ down' = "no"
          /\ submitted' = submitted \ {io} /\ completed' = Append(completed, io)
          /\ UNCHANGED <<events, cb_pool, iocb_pool, leaked>>
      BY <1>10 DEF perform, poolVars
    <2>2. Cardinality(submitted') = C - 1 /\ Len(completed') = Len(completed) + 1
      BY <1>2, <1>3, <2>1
    <2>3. Len(events') = Len(events)
      BY <2>1
    <2>4. /\ cb_pool' \in Nat /\ iocb_pool' \in Nat /\ leaked' \in Nat
          /\ cb_pool' + (Cardinality(submitted') + Len(completed') + Len(events') + leaked')
               = QSIZE
          /\ iocb_pool' + (Cardinality(submitted') + Len(completed') + Len(events') + leaked')
               = QSIZE
      BY <1>1, <1>3, <1>4, <2>1, <2>2, <2>3
    <2> QED
      BY <1>7, <2>1, <2>4
  <1>11. CASE io_getevents
    <2> DEFINE k == IF Len(completed) < NR_EVENTS THEN Len(completed) ELSE NR_EVENTS
    <2>1. /\ down = "no" /\ down' = "no" /\ events = << >>
          /\ events' = SubSeq(completed, 1, k)
          /\ completed' = SubSeq(completed, k + 1, Len(completed))
          /\ UNCHANGED <<submitted, cb_pool, iocb_pool, leaked>>
      BY <1>11 DEF io_getevents, poolVars, histVars
    <2>2. k \in 0..Len(completed)
      BY <1>2, DeviceAssumption
    <2> HIDE DEF k
    <2>3. Len(events) = 0 /\ Len(events') = k /\ Len(completed') = Len(completed) - k
      BY <1>2, <2>1, <2>2
    <2> QED
      BY <1>1, <1>2, <1>3, <1>7, <2>1, <2>2, <2>3 DEF C
  <1>12. CASE recycle
    <2>1. /\ down = "no" /\ down' = "no" /\ called
          /\ events' = Tail(events)
          /\ cb_pool' = cb_pool + 1 /\ iocb_pool' = iocb_pool + 1
          /\ UNCHANGED <<submitted, completed, leaked>>
      BY <1>12 DEF recycle, histVars
    <2>2. events # << >>
      BY <2>1 DEF IoType
    <2>3. Len(events') = Len(events) - 1
      BY <1>2, <2>1, <2>2
    <2>4. Len(completed') = Len(completed) /\ Cardinality(submitted') = C
      BY <2>1 DEF C
    <2>5. /\ cb_pool' \in Nat /\ iocb_pool' \in Nat /\ leaked' \in Nat
          /\ cb_pool' + (Cardinality(submitted') + Len(completed') + Len(events') + leaked')
               = QSIZE
          /\ iocb_pool' + (Cardinality(submitted') + Len(completed') + Len(events') + leaked')
               = QSIZE
      <3>1. cb_pool' = cb_pool + 1 /\ iocb_pool' = iocb_pool + 1 /\ leaked' = leaked
        BY <2>1
      <3> QED
        BY <1>4, <2>3, <2>4, <3>1
    <2> QED
      BY <1>7, <2>1, <2>5
  <1>13. CASE run_callback
    <2>1. /\ down = "no" /\ down' = "no"
          /\ UNCHANGED <<submitted, completed, events, cb_pool, iocb_pool, leaked>>
      BY <1>13 DEF run_callback, poolVars, histVars
    <2> QED
      BY <1>1, <1>7, <2>1 DEF C
  <1>14. CASE data_size_error \/ UNCHANGED vars
    BY <1>5, <1>6, <1>14 DEF data_size_error, vars, histVars
  <1> QED
    BY <1>8, <1>9, <1>10, <1>11, <1>12, <1>13, <1>14 DEF Next, aio_poller

\* The sizes of disjoint sets add up.
LEMMA DisjointCount ==
    ASSUME NEW S, NEW T, IsFiniteSet(S), IsFiniteSet(T), S \cap T = {}
    PROVE  /\ IsFiniteSet(S \cup T)
           /\ Cardinality(S) \in Nat /\ Cardinality(T) \in Nat
           /\ Cardinality(S \cup T) = Cardinality(S) + Cardinality(T)
  <1>1. Cardinality(S) \in Nat /\ Cardinality(T) \in Nat
    BY FS_CardinalityType
  <1>2. Cardinality(S \cap T) = 0
    BY FS_EmptySet
  <1>3. /\ IsFiniteSet(S \cup T)
        /\ Cardinality(S \cup T) = Cardinality(S) + Cardinality(T) - Cardinality(S \cap T)
    BY FS_Union
  <1> QED
    BY <1>1, <1>2, <1>3

\* Three disjoint groups of reads, no two for the same request.
LEMMA ThreeGroups ==
    ASSUME NEW R1, NEW R2, NEW R3,
           NEW f1 \in [R1 -> Slots], NEW f2 \in [R2 -> Slots], NEW f3 \in [R3 -> Slots],
           \A x, y \in R1 : f1[x] = f1[y] => x = y,
           \A x, y \in R2 : f2[x] = f2[y] => x = y,
           \A x, y \in R3 : f3[x] = f3[y] => x = y,
           \A x \in R1, y \in R2 : f1[x] # f2[y],
           \A x \in R1, y \in R3 : f1[x] # f3[y],
           \A x \in R2, y \in R3 : f2[x] # f3[y]
    PROVE  Cardinality(R1) + Cardinality(R2) + Cardinality(R3) <= Cardinality(Slots)
  <1> DEFINE A1 == {f1[x] : x \in R1}
             A2 == {f2[x] : x \in R2}
             A3 == {f3[x] : x \in R3}
  <1>1. IsFiniteSet(Slots)
    BY DeviceAssumption
  <1>2. A1 \in SUBSET Slots /\ A2 \in SUBSET Slots /\ A3 \in SUBSET Slots
    OBVIOUS
  <1>3. A1 \cap A2 = {} /\ (A1 \cup A2) \cap A3 = {}
    OBVIOUS
  <1>4. f1 \in Injection(R1, A1) /\ f2 \in Injection(R2, A2) /\ f3 \in Injection(R3, A3)
    <2>1. f1 \in [R1 -> A1] /\ f2 \in [R2 -> A2] /\ f3 \in [R3 -> A3]
      OBVIOUS
    <2> QED
      BY <2>1 DEF Injection, IsInjective
  <1> HIDE DEF A1, A2, A3
  <1>5. IsFiniteSet(A1) /\ IsFiniteSet(A2) /\ IsFiniteSet(A3)
    BY <1>1, <1>2, FS_Subset
  <1>6. /\ IsFiniteSet(R1) /\ Cardinality(R1) <= Cardinality(A1)
        /\ IsFiniteSet(R2) /\ Cardinality(R2) <= Cardinality(A2)
        /\ IsFiniteSet(R3) /\ Cardinality(R3) <= Cardinality(A3)
    BY <1>4, <1>5, FS_Injection
  <1>7. /\ IsFiniteSet(A1 \cup A2)
        /\ Cardinality(A1 \cup A2) = Cardinality(A1) + Cardinality(A2)
    BY <1>3, <1>5, DisjointCount
  <1>8. Cardinality((A1 \cup A2) \cup A3) = Cardinality(A1 \cup A2) + Cardinality(A3)
    BY <1>3, <1>5, <1>7, DisjointCount
  <1>9. Cardinality((A1 \cup A2) \cup A3) <= Cardinality(Slots)
    BY <1>1, <1>2, FS_Subset
  <1>10. /\ Cardinality(A1) \in Nat /\ Cardinality(A2) \in Nat /\ Cardinality(A3) \in Nat
         /\ Cardinality(R1) \in Nat /\ Cardinality(R2) \in Nat /\ Cardinality(R3) \in Nat
         /\ Cardinality(Slots) \in Nat
    BY <1>1, <1>5, <1>6, FS_CardinalityType
  <1> QED
    BY <1>6, <1>7, <1>8, <1>9, <1>10

\* The two kinds of I/O in a queue.
LEMMA SplitQueue ==
    ASSUME NEW q \in Seq(Ios)
    PROVE  LET R == {i \in 1..Len(q) : q[i].op = "read"}
               W == {i \in 1..Len(q) : q[i].op = "write"}
           IN  /\ IsFiniteSet(R) /\ IsFiniteSet(W)
               /\ Cardinality(R) \in Nat /\ Cardinality(W) \in Nat
               /\ Len(q) = Cardinality(W) + Cardinality(R)
  <1> DEFINE R == {i \in 1..Len(q) : q[i].op = "read"}
             W == {i \in 1..Len(q) : q[i].op = "write"}
  <1>1. Len(q) \in Nat
    OBVIOUS
  <1>2. IsFiniteSet(1..Len(q)) /\ Cardinality(1..Len(q)) = Len(q)
    BY <1>1, FS_Interval
  <1>3. 1..Len(q) = W \cup R /\ W \cap R = {}
    <2>1. \A i \in 1..Len(q) : q[i] \in Ios
      OBVIOUS
    <2> QED
      BY <2>1, IoFields
  <1> HIDE DEF R, W
  <1>4. IsFiniteSet(R) /\ IsFiniteSet(W)
    BY <1>2, <1>3, FS_Subset
  <1>5. Cardinality(R) \in Nat /\ Cardinality(W) \in Nat
    BY <1>4, FS_CardinalityType
  <1>6. Cardinality(W \cup R) = Cardinality(W) + Cardinality(R)
    BY <1>3, <1>4, DisjointCount
  <1> QED
    BY <1>2, <1>3, <1>4, <1>5, <1>6 DEF R, W

\* The reads in flight are of different requests, so that the rest of an empty
\* pool is held by writes or leaked.
LEMMA PoolOutlasts ==
    ASSUME IoType, WritesInFlight, WaitInv, PoolInv
    PROVE  PoolsOutlastRequests
  <1> DEFINE R1 == Reads(submitted)
             W1 == Writes(submitted)
             R2 == {i \in 1..Len(completed) : completed[i].op = "read"}
             W2 == {i \in 1..Len(completed) : completed[i].op = "write"}
             R3 == {i \in 1..Len(events) : events[i].op = "read"}
             W3 == {i \in 1..Len(events) : events[i].op = "write"}
             Q3 == {i \in 1..Len(events) : Waiting(i)}
  <1> SUFFICES ASSUME down = "pool"
               PROVE  WritesHeld + leaked >= QSIZE - Cardinality(Slots) - 2
    BY DEF PoolsOutlastRequests
  <1>1. /\ submitted \in SUBSET Ios /\ completed \in Seq(Ios) /\ events \in Seq(Ios)
        /\ IsFiniteSet(submitted)
    BY DEF IoType, WritesInFlight
  <1>2. /\ IsFiniteSet(R1) /\ IsFiniteSet(W1)
        /\ Cardinality(R1) \in Nat /\ Cardinality(W1) \in Nat
        /\ Cardinality(submitted) = Cardinality(W1) + Cardinality(R1)
    <2>1. submitted = W1 \cup R1 /\ W1 \cap R1 = {}
      BY <1>1, IoFields DEF Reads, Writes
    <2> HIDE DEF W1, R1
    <2>2. IsFiniteSet(R1) /\ IsFiniteSet(W1)
      BY <1>1, <2>1, FS_Subset
    <2>3. Cardinality(R1) \in Nat /\ Cardinality(W1) \in Nat
      BY <2>2, FS_CardinalityType
    <2> QED
      BY <2>1, <2>2, <2>3, DisjointCount
  <1>3. /\ Cardinality(R2) \in Nat /\ Cardinality(W2) \in Nat
        /\ Len(completed) = Cardinality(W2) + Cardinality(R2)
    BY <1>1, SplitQueue
  <1>4. /\ IsFiniteSet(R3) /\ Cardinality(R3) \in Nat /\ Cardinality(W3) \in Nat
        /\ Len(events) = Cardinality(W3) + Cardinality(R3)
    BY <1>1, SplitQueue
  <1>5. Cardinality(R3) <= Cardinality(Q3) + 1 /\ Cardinality(Q3) \in Nat
    <2>1. Q3 \subseteq R3 /\ R3 \subseteq Q3 \cup {1}
      BY DEF Waiting
    <2> HIDE DEF Q3, R3
    <2>2. IsFiniteSet(Q3)
      BY <1>4, <2>1, FS_Subset
    <2>3. Cardinality(Q3) \in Nat
      BY <2>2, FS_CardinalityType
    <2>4. IsFiniteSet(Q3 \cup {1}) /\ Cardinality(Q3 \cup {1}) <= Cardinality(Q3) + 1
      BY <2>2, <2>3, FS_AddElement
    <2>5. Cardinality(R3) <= Cardinality(Q3 \cup {1})
      BY <2>1, <2>4, FS_Subset
    <2>6. Cardinality(Q3 \cup {1}) \in Nat
      BY <2>4, FS_CardinalityType
    <2>7. Cardinality(R3) \in Nat
      BY <1>4
    <2> QED
      BY <2>3, <2>4, <2>5, <2>6, <2>7
  <1>6. Cardinality(R1) + Cardinality(R2) + Cardinality(Q3) <= Cardinality(Slots)
    <2> DEFINE f1 == [io \in R1 |-> io.req]
               f2 == [i \in R2 |-> completed[i].req]
               f3 == [i \in Q3 |-> events[i].req]
    <2>1. f1 \in [R1 -> Slots]
      BY <1>1, IoFields DEF Reads
    <2>2. f2 \in [R2 -> Slots]
      BY <1>1, IoFields
    <2>3. f3 \in [Q3 -> Slots]
      BY <1>1, IoFields DEF Waiting
    <2>4. /\ \A x, y \in R1 : f1[x] = f1[y] => x = y
          /\ \A x, y \in R2 : f2[x] = f2[y] => x = y
          /\ \A x, y \in Q3 : f3[x] = f3[y] => x = y
          /\ \A x \in R1, y \in R2 : f1[x] # f2[y]
          /\ \A x \in R1, y \in Q3 : f1[x] # f3[y]
          /\ \A x \in R2, y \in Q3 : f2[x] # f3[y]
      BY DEF WaitInv, OneReadEach
    <2> HIDE DEF f1, f2, f3, R1, R2, Q3
    <2> QED
      BY <2>1, <2>2, <2>3, <2>4, ThreeGroups
  <1>7. WritesHeld = Cardinality(W1) + Cardinality(W2) + Cardinality(W3)
    BY DEF WritesHeld
  <1>8. /\ cb_pool \in Nat /\ iocb_pool \in Nat /\ leaked \in Nat /\ QSIZE \in Nat
        /\ cb_pool <= 1 \/ iocb_pool < 1
        /\ cb_pool + (Cardinality(submitted) + Len(completed) + Len(events) + leaked) = QSIZE
        /\ iocb_pool + (Cardinality(submitted) + Len(completed) + Len(events) + leaked) = QSIZE
    BY DeviceAssumption DEF PoolInv, PoolsExact, PoolEmpty
  <1>9. Cardinality(Slots) \in Nat
    BY DeviceAssumption, FS_CardinalityType
  <1> DEFINE r1 == Cardinality(R1)
             r2 == Cardinality(R2)
             r3 == Cardinality(R3)
             q3 == Cardinality(Q3)
             w1 == Cardinality(W1)
             w2 == Cardinality(W2)
             w3 == Cardinality(W3)
             sl == Cardinality(Slots)
             cs == Cardinality(submitted)
             nc == Len(completed)
             ne == Len(events)
  <1>10. /\ r1 \in Nat /\ r2 \in Nat /\ r3 \in Nat /\ q3 \in Nat
         /\ w1 \in Nat /\ w2 \in Nat /\ w3 \in Nat /\ sl \in Nat
         /\ leaked \in Nat /\ QSIZE \in Nat /\ cb_pool \in Nat /\ iocb_pool \in Nat
         /\ cs = w1 + r1 /\ nc = w2 + r2 /\ ne = w3 + r3
         /\ r3 <= q3 + 1 /\ r1 + r2 + q3 <= sl
         /\ WritesHeld = w1 + w2 + w3
         /\ cb_pool <= 1 \/ iocb_pool < 1
         /\ cb_pool + (cs + nc + ne + leaked) = QSIZE
         /\ iocb_pool + (cs + nc + ne + leaked) = QSIZE
    BY <1>2, <1>3, <1>4, <1>5, <1>6, <1>7, <1>8, <1>9
  <1> HIDE DEF r1, r2, r3, q3, w1, w2, w3, sl, cs, nc, ne
  <1>11. WritesHeld + leaked >= QSIZE - sl - 2
    BY <1>10
  <1> QED
    BY <1>11 DEF sl

-----------------------------------------------------------------------------
(* The theorems. *)

Inv ==
    /\ LogInv
    /\ IoType /\ WritesInFlight /\ ReadsInFlight
    /\ DiskType /\ PairsIntact /\ misread = {}
    /\ WaitInv
    /\ PoolInv

\* The inductive invariant holds initially.
LEMMA InvInit == Init => Inv
  <1> SUFFICES ASSUME Init PROVE Inv
    OBVIOUS
  <1>1. DiskType
    BY DeviceAssumption DEF Init, DiskType, Tags
  <1>2. PairsIntact /\ misread = {}
    BY DEF Init, PairsIntact
  <1> QED
    BY <1>1, <1>2, LogInit, IoInit, WaitInit, PoolInit DEF Inv

\* Every step keeps the inductive invariant.
LEMMA InvStep == Inv /\ [Next]_vars => Inv'
  BY LogStep, IoTypeStep, WritesStep, ReadsStep, DiskStep, IntactStep, MisreadStep,
     WaitStep, PoolStep DEF Inv

\* The inductive invariant of the log, the requests in flight and the pools
\* holds of every state.
THEOREM Invariance == Spec => []Inv
  BY InvInit, InvStep, PTL DEF Spec

\* The inductive invariant implies the types.
LEMMA InvTypes == Inv => TypeOK
  <1> SUFFICES ASSUME Inv PROVE TypeOK
    OBVIOUS
  <1>1. /\ gen \in Nat /\ staged_seg_idx \in Segments
        /\ offset \in [Segments -> Nat]
        /\ \A s \in Segments : offset[s] \in start_addr(s)..end_addr(s)
        /\ staged_seg_buf \in Buffers
        /\ pairs \in Seq(Pairs)
    BY BaseInDevice DEF Inv, LogInv, LogAt
  <1>2. /\ submitted \in SUBSET Ios /\ completed \in Seq(Ios) /\ events \in Seq(Ios)
        /\ called \in BOOLEAN
        /\ request \in [Slots -> {"idle", "read", "lost"}]
    BY DEF Inv, IoType
  <1>3. durable \in SUBSET Nat /\ spoiled \in SUBSET Nat
    BY <1>1 DEF Inv, WritesInFlight
  <1>4. disk \in [0..(NR_SEGMENT * SegGrains - 1) -> Tags] /\ misread \in SUBSET (1..MAX_PAIR)
    BY DEF Inv, DiskType
  <1>5. /\ cb_pool \in 0..QSIZE /\ iocb_pool \in 0..QSIZE /\ leaked \in Nat
        /\ down \in {"no", "pool", "error"}
    <2>1. /\ cb_pool \in Nat /\ iocb_pool \in Nat /\ leaked \in Nat /\ QSIZE \in Nat
          /\ down \in {"no", "pool", "error"} /\ PoolsExact
      BY DeviceAssumption DEF Inv, PoolInv
    <2>2. Cardinality(submitted) \in Nat
      BY FS_CardinalityType DEF Inv, WritesInFlight
    <2>3. Len(completed) \in Nat /\ Len(events) \in Nat
      BY <1>2
    <2> QED
      BY <2>1, <2>2, <2>3 DEF PoolsExact
  <1> QED
    BY <1>1, <1>2, <1>3, <1>4, <1>5 DEF TypeOK

\* Whatever is written and read, no offset leaves its segment, no address the
\* device and no pool its size: get_next_pba, dev_abs_write, aio_read,
\* aio_write and the poller keep the types.
THEOREM TypesHold == Spec => []TypeOK
  BY Invariance, InvTypes, PTL

\* get_next_pba, which tests a length in bytes and allocates whole grains,
\* gives every pair bytes of its own inside the segment that was staged, for
\* all sizes of segments and grains and also after the log has wrapped round.
THEOREM ExtentsHold == Spec => []ExtentsExact
  <1>1. Inv => ExtentsExact
    BY LogExtents DEF Inv
  <1> QED
    BY <1>1, Invariance, PTL

\* Until its segment is used again, a pair is in the staging buffer, in a
\* write in flight or on the device, in whatever order the kernel performs the
\* I/O: only a refused or an overtaken segment write loses one.
THEOREM PairsHold == Spec => []PairsIntact
  <1>1. Inv => PairsIntact
    BY DEF Inv
  <1> QED
    BY <1>1, Invariance, PTL

\* is_staged sends every read to where its pair is: dev_abs_read returns it
\* from the staging buffer, or from the device whatever the handler stages
\* and the kernel writes between the submission and the read.
THEOREM ReadsHold == Spec => []ReadsReturnPair
  <1>1. Inv => ReadsReturnPair
    BY DEF Inv, ReadsReturnPair
  <1> QED
    BY <1>1, Invariance, PTL

\* The handler, which takes callbacks and iocbs, and the poller, which puts
\* them back, lose and double none.
THEOREM PoolsHold == Spec => []PoolsExact
  <1>1. Inv => PoolsExact
    BY DEF Inv, PoolInv
  <1> QED
    BY <1>1, Invariance, PTL

\* The requests that flow control admits cannot empty a pool by themselves:
\* when q_dequeue has returned NULL to make_callback, aio_read or aio_write,
\* segment writes and failed submissions hold the rest of the pool.
THEOREM PoolsOutlast == Spec => []PoolsOutlastRequests
  <1>1. Inv => PoolsOutlastRequests
    BY PoolOutlasts DEF Inv
  <1> QED
    BY <1>1, Invariance, PTL
=============================================================================
