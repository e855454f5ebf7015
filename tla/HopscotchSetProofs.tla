-------------------------- MODULE HopscotchSetProofs --------------------------
(***************************************************************************)
(* Proofs about the hopscotch index with any number of SETs and GETs in    *)
(* flight, up to the step that disturbs it: no key has two entries, no     *)
(* acknowledged SET is lost, and the index implements the key-value store  *)
(* of KVStore.                                                             *)
(*                                                                         *)
(* A search looks at the table in several rounds, between which SETs       *)
(* change it.  What makes it right is that the entry it is due to find is  *)
(* never behind it: Search says so of every request that is away on a read *)
(* or waits for its next round.  A SET is always due to find its key's     *)
(* entry; a GET only when the key had a version as the GET was accepted,   *)
(* because an entry inserted later may well lie behind it.  The insertions *)
(* of Surprises are exactly the ones that would break Search for a SET.    *)
(***************************************************************************)
EXTENDS HopscotchProofs

\* The requests f[q[1]], f[q[2]], ... are in state st, and none is in q twice.
Waits(q, f, st) ==
    /\ \A i \in 1..Len(q) : f[q[i]].st = st
    /\ \A i, j \in 1..Len(q) : q[i] = q[j] => i = j

\* The two queues hold what waits to be taken, each request once.
QueuesExact == Waits(req_q, req, "queued") /\ Waits(retry_q, req, "retried")

\* Slot s of table t has the entry of key k.
Holds(t, l, s, k) == ~IsFree(t, s) /\ l[t[s].pba] = k

\* A key has at most one entry.
OnceIn(t, l) ==
    \A s1, s2 \in Slots : \A k \in Keys :
        Holds(t, l, s1, k) /\ Holds(t, l, s2, k) => s1 = s2

\* Every version has an entry of its key that is not older.
KeptIn(t, l) ==
    \A v \in 1..Len(l) : \E s \in Slots :
        Holds(t, l, s, l[v]) /\ t[s].pba >= v

\* The request has to find its key if it is in the table.
Due(rec, l) ==
    rec.type = "SET" \/ \E v \in 1..rec.floor : l[v] = rec.key

\* The entry in slot s is one that the search has still to come to, or the
\* one that it is reading.
Before(rec, t, l, s) ==
    /\ rec.st = "retried" /\ rec.step = "KEY_MISMATCH" => t[s].neigh_off > rec.offset
    /\ rec.st = "reading" =>
          \/ t[s].neigh_off > rec.offset
          \/ /\ t[s].neigh_off = rec.offset
             /\ rec.pba # PBA_INVALID
             /\ l[rec.pba] = rec.key

\* What is known of the parts of a request.
Shape(rec, l) ==
    /\ rec.floor <= Len(l)
    /\ rec.st = "queued" => rec.step = "INIT"
    /\ rec.st = "retried" => rec.step # "INIT"
    /\ rec.st = "retried" /\ rec.type = "GET" => rec.step = "KEY_MISMATCH"
    /\ rec.st = "reading" => rec.pba <= Len(l)

\* A SET that will find, or has found, the pair of its key will fill a slot
\* that still has the key.
Confirms(rec, t, l) ==
    /\ rec.type = "SET"
    /\ \/ rec.st = "reading" /\ rec.pba # PBA_INVALID /\ l[rec.pba] = rec.key
       \/ rec.st = "retried" /\ rec.step = "KEY_MATCH"
    => Holds(t, l, Slot(idx(rec.key), rec.offset), rec.key)

\* A pair that a GET is reading is not older than the GET, if it is its key's.
ReadsNewest(rec, l) ==
    /\ rec.type = "GET" /\ rec.st = "reading"
    /\ rec.pba # PBA_INVALID /\ l[rec.pba] = rec.key
    => \A w \in (rec.pba + 1)..rec.floor : l[w] # rec.key

Search(rec, t, l) ==
    /\ Shape(rec, l)
    /\ Due(rec, l) => \A s \in Slots : Holds(t, l, s, rec.key) => Before(rec, t, l, s)
    /\ Confirms(rec, t, l)
    /\ ReadsNewest(rec, l)

SearchInv == \A r \in Reqs : Search(req[r], table, log)

\* What holds as long as the index is not disturbed.
CalmInv ==
    /\ OnceIn(table, log)
    /\ KeptIn(table, log)
    /\ SearchInv

AtomicInv ==
    /\ TableInv
    /\ QueuesExact
    /\ ~disturbed => CalmInv

-----------------------------------------------------------------------------
(* What one hopscotch_set does to the table. *)

\* A SET of key k turned table t into w: slot n points at the new pair, the
\* other slots in use are as before, every other entry of w was in t and not
\* farther from its home, every entry of t is still there unless it was the
\* key's own, and either the key had its entry in n or it had none.
Updated(t, w, l, k, n) ==
    /\ w[n].pba = Len(l) + 1
    /\ \A s \in Slots \ {n} : ~IsFree(t, s) => w[s] = t[s]
    /\ \A s \in Slots \ {n} : ~IsFree(w, s) =>
          \E s0 \in Slots : /\ t[s0].pba = w[s].pba
                            /\ t[s0].neigh_off <= w[s].neigh_off
    /\ \A s0 \in Slots : ~IsFree(t, s0) =>
          \/ \E s \in Slots \ {n} : w[s].pba = t[s0].pba
          \/ s0 = n /\ Holds(t, l, n, k)
    /\ \/ /\ Holds(t, l, n, k)
          /\ w[n].neigh_off = t[n].neigh_off
          /\ \A s \in Slots \ {n} : w[s] = t[s]
       \/ \A s \in Slots : ~Holds(t, l, s, k)

\* The update of slot n is not one of the insertions that take the SET rec by
\* surprise.
Expected(rec, t, w, l, k, n) ==
    rec.type = "SET" =>
        \/ Holds(t, l, n, k)
        \/ /\ /\ rec.key = k
              /\ rec.st \in {"reading", "retried"}
              => w[n].neigh_off > rec.offset
           /\ /\ \/ rec.st = "reading"
                 \/ rec.st = "retried" /\ rec.step = "KEY_MATCH"
              /\ n = Slot(idx(rec.key), rec.offset)
              => ~Holds(t, l, n, rec.key)

\* An update in place.
LEMMA ReplaceUpdates ==
    ASSUME NEW t \in [Slots -> Entries], NEW l \in Seq(Keys), NEW k \in Keys,
           NEW off \in Hops, Placed(t, l), Holds(t, l, Slot(idx(k), off), k)
    PROVE  Updated(t, fill_entry(t, Slot(idx(k), off), off, tag(k), Len(l) + 1),
                   l, k, Slot(idx(k), off))
  <1> DEFINE n == Slot(idx(k), off)
             w == fill_entry(t, n, off, tag(k), Len(l) + 1)
  <1>1. /\ idx(k) \in Slots /\ tag(k) \in Tags /\ n \in Slots
        /\ Len(l) + 1 \in Nat
    BY HashInRange, SlotArithmetic
  <1>2. /\ w[n].pba = Len(l) + 1 /\ w[n].neigh_off = off
        /\ \A s \in Slots \ {n} : w[s] = t[s]
    <2>1. /\ w[n] = [neigh_off |-> off, key_fp_tag |-> tag(k), pba |-> Len(l) + 1]
          /\ \A s \in Slots : s # n => w[s] = t[s]
      BY <1>1, FillEntry
    <2> QED
      BY <2>1
  <1>3. t[n].neigh_off \in Hops /\ n = Slot(idx(k), t[n].neigh_off)
    BY <1>1 DEF Placed, Holds, Entries
  <1>4. t[n].neigh_off = off
    BY <1>1, <1>3, SlotArithmetic
  <1>5. \A s \in Slots : t[s].neigh_off \in Nat
    BY DEF Entries, Hops
  <1> HIDE DEF w, n
  <1> QED
    BY <1>1, <1>2, <1>4, <1>5 DEF Updated, IsFree, n, w

\* An insertion, after a displacement if one was needed.
LEMMA InsertUpdates ==
    ASSUME NEW t \in [Slots -> Entries], NEW u \in [Slots -> Entries],
           NEW l \in Seq(Keys), NEW k \in Keys,
           NEW off \in Hops, Placed(t, l),
           \A s \in Slots : ~Holds(t, l, s, k),
           \/ IsFree(t, Slot(idx(k), off)) /\ u = t
           \/ /\ ~IsFree(t, Slot(idx(k), off))
              /\ Displaced(t, u, Slot(idx(k), off))
    PROVE  Updated(t, fill_entry(u, Slot(idx(k), off), off, tag(k), Len(l) + 1),
                   l, k, Slot(idx(k), off))
  <1> DEFINE n == Slot(idx(k), off)
             w == fill_entry(u, n, off, tag(k), Len(l) + 1)
  <1>1. /\ idx(k) \in Slots /\ tag(k) \in Tags /\ n \in Slots
        /\ Len(l) + 1 \in Nat
    BY HashInRange, SlotArithmetic
  <1>2. /\ w[n].pba = Len(l) + 1
        /\ \A s \in Slots \ {n} : w[s] = u[s]
    <2>1. /\ w[n] = [neigh_off |-> off, key_fp_tag |-> tag(k), pba |-> Len(l) + 1]
          /\ \A s \in Slots : s # n => w[s] = u[s]
      BY <1>1, FillEntry
    <2> QED
      BY <2>1
  <1>3. \A s \in Slots : t[s].neigh_off \in Nat
    BY DEF Entries, Hops
  <1>4. CASE IsFree(t, n) /\ u = t
    <2> HIDE DEF w, n
    <2> QED
      BY <1>1, <1>2, <1>3, <1>4 DEF Updated, IsFree, n, w
  <1>5. CASE ~IsFree(t, n) /\ Displaced(t, u, n)
    <2> DEFINE h == ori_idx(t, n)
    <2>1. PICK d \in Hops :
               /\ d > t[n].neigh_off
               /\ IsFree(t, Slot(h, d))
               /\ u = fill_entry(t, Slot(h, d), d, t[n].key_fp_tag, t[n].pba)
      BY <1>5 DEF Displaced
    <2> DEFINE m == Slot(h, d)
    <2>2. l[t[n].pba] \in Keys /\ t[n].neigh_off \in Hops
          /\ n = Slot(idx(l[t[n].pba]), t[n].neigh_off)
      BY <1>1, <1>5 DEF Placed, Entries
    <2>3. h = idx(l[t[n].pba]) /\ h \in Slots
      BY <2>2, HashInRange, SlotArithmetic DEF ori_idx
    <2>4. m \in Slots /\ m # n
      BY <1>5, <2>1, <2>3, SlotArithmetic
    <2>5. /\ u[m].pba = t[n].pba /\ u[m].neigh_off = d
          /\ \A s \in Slots : s # m => u[s] = t[s]
      <3>1. t[n].key_fp_tag \in Tags /\ t[n].pba \in Nat
        BY <1>1 DEF Entries
      <3>2. /\ u[m] = [neigh_off |-> d, key_fp_tag |-> t[n].key_fp_tag,
                       pba |-> t[n].pba]
            /\ \A s \in Slots : s # m => u[s] = t[s]
        BY <2>1, <2>4, <3>1, FillEntry
      <3> QED
        BY <3>2
    <2>6. d \in Nat /\ t[n].neigh_off \in Nat /\ IsFree(t, m)
      BY <1>1, <1>3, <2>1 DEF Hops
    <2> HIDE DEF w, n, m, h
    <2>7. \A s \in Slots \ {n} : ~IsFree(w, s) =>
             \E s0 \in Slots : t[s0].pba = w[s].pba /\ t[s0].neigh_off <= w[s].neigh_off
      <3> SUFFICES ASSUME NEW s \in Slots \ {n}, ~IsFree(w, s)
                   PROVE  \E s0 \in Slots : /\ t[s0].pba = w[s].pba
                                            /\ t[s0].neigh_off <= w[s].neigh_off
        OBVIOUS
      <3>1. CASE s = m
        <4>1. t[n].pba = w[s].pba /\ t[n].neigh_off <= w[s].neigh_off
          BY <1>2, <2>1, <2>5, <2>6, <3>1 DEF n
        <4> QED
          BY <1>1, <4>1
      <3>2. CASE s # m
        BY <1>2, <1>3, <2>5, <3>2
      <3> QED
        BY <3>1, <3>2
    <2>8. \A s0 \in Slots : ~IsFree(t, s0) => \E s \in Slots \ {n} : w[s].pba = t[s0].pba
      <3> SUFFICES ASSUME NEW s0 \in Slots, ~IsFree(t, s0)
                   PROVE  \E s \in Slots \ {n} : w[s].pba = t[s0].pba
        OBVIOUS
      <3>1. CASE s0 = n
        BY <1>2, <2>4, <2>5, <3>1
      <3>2. CASE s0 # n
        <4>1. s0 # m
          BY <2>6
        <4> QED
          BY <1>2, <2>5, <3>2, <4>1
      <3> QED
        BY <3>1, <3>2
    <2>9. \A s \in Slots \ {n} : ~IsFree(t, s) => w[s] = t[s]
      BY <1>2, <2>5, <2>6
    <2> QED
      BY <1>2, <2>7, <2>8, <2>9 DEF Updated, n, w
  <1> QED
    BY <1>4, <1>5

\* No key gets a second entry, and none loses its newest one.
LEMMA UpdatedKeeps ==
    ASSUME NEW t \in [Slots -> Entries], NEW w \in [Slots -> Entries],
           NEW l \in Seq(Keys), NEW k \in Keys, NEW n \in Slots,
           Placed(t, l), UniqueIn(t, Slots), UniqueIn(w, Slots),
           OnceIn(t, l), KeptIn(t, l), Updated(t, w, l, k, n)
    PROVE  OnceIn(w, Append(l, k)) /\ KeptIn(w, Append(l, k))
  <1> DEFINE m == Append(l, k)
  <1>1. /\ Len(m) = Len(l) + 1 /\ m[Len(l) + 1] = k
        /\ \A p \in 1..Len(l) : m[p] = l[p]
        /\ Len(l) \in Nat /\ \A p \in 1..Len(l) : l[p] \in Keys
    OBVIOUS
  <1> HIDE DEF m
  \* An entry of w outside n is an entry of the same key in t.
  <1>2. ASSUME NEW s \in Slots \ {n}, NEW j, Holds(w, m, s, j)
        PROVE  \E s0 \in Slots : /\ t[s0].pba = w[s].pba
                                 /\ Holds(t, l, s0, j)
    <2>1. PICK s0 \in Slots : t[s0].pba = w[s].pba
      BY <1>2 DEF Updated, Holds
    <2>2. ~IsFree(t, s0)
      BY <1>2, <2>1 DEF Holds, IsFree
    <2>3. t[s0].pba \in 1..Len(l)
      BY <2>2 DEF Placed
    <2> QED
      BY <1>1, <1>2, <2>1, <2>2, <2>3 DEF Holds
  \* The SET's key has no entry of w outside n.
  <1>3. ASSUME NEW s \in Slots \ {n}, Holds(w, m, s, k) PROVE FALSE
    <2>1. PICK s0 \in Slots : t[s0].pba = w[s].pba /\ Holds(t, l, s0, k)
      BY <1>2, <1>3
    <2>2. /\ Holds(t, l, n, k)
          /\ \A x \in Slots \ {n} : w[x] = t[x]
      BY <2>1 DEF Updated
    <2>3. s0 = n
      BY <2>1, <2>2 DEF OnceIn
    <2>4. w[s] = t[s] /\ ~IsFree(t, s)
      BY <1>3, <2>2 DEF Holds, IsFree
    <2> QED
      BY <2>1, <2>3, <2>4 DEF UniqueIn
  <1>4. ~IsFree(w, n) /\ m[w[n].pba] = k
    BY <1>1 DEF Updated, IsFree, PBA_INVALID
  <1>5. OnceIn(w, m)
    <2> SUFFICES ASSUME NEW s1 \in Slots, NEW s2 \in Slots, NEW j \in Keys,
                        Holds(w, m, s1, j), Holds(w, m, s2, j)
                 PROVE  s1 = s2
      BY DEF OnceIn
    <2>1. CASE s1 = n \/ s2 = n
      <3>1. j = k
        BY <1>4, <2>1 DEF Holds
      <3> QED
        BY <1>3, <2>1, <3>1
    <2>2. CASE s1 # n /\ s2 # n
      <3>1. PICK a \in Slots : t[a].pba = w[s1].pba /\ Holds(t, l, a, j)
        BY <1>2, <2>2
      <3>2. PICK b \in Slots : t[b].pba = w[s2].pba /\ Holds(t, l, b, j)
        BY <1>2, <2>2
      <3>3. a = b
        BY <3>1, <3>2 DEF OnceIn
      <3> QED
        BY <3>1, <3>2, <3>3 DEF UniqueIn, Holds
    <2> QED
      BY <2>1, <2>2
  <1>6. KeptIn(w, m)
    <2> SUFFICES ASSUME NEW v \in 1..Len(m)
                 PROVE  \E s \in Slots : Holds(w, m, s, m[v]) /\ w[s].pba >= v
      BY DEF KeptIn
    <2>1. CASE m[v] = k
      <3>1. w[n].pba = Len(l) + 1
        BY DEF Updated
      <3> QED
        BY <1>1, <1>4, <2>1, <3>1 DEF Holds
    <2>2. CASE m[v] # k
      <3>1. v \in 1..Len(l) /\ m[v] = l[v]
        BY <1>1, <2>2
      <3>2. PICK s0 \in Slots : Holds(t, l, s0, l[v]) /\ t[s0].pba >= v
        BY <3>1 DEF KeptIn
      <3>3. ~IsFree(t, s0) /\ ~(s0 = n /\ Holds(t, l, n, k))
        BY <2>2, <3>1, <3>2 DEF Holds
      <3>4. PICK s \in Slots : w[s].pba = t[s0].pba
        BY <3>3 DEF Updated
      <3>5. t[s0].pba \in 1..Len(l)
        BY <3>3 DEF Placed
      <3>6. Holds(w, m, s, m[v])
        BY <1>1, <3>1, <3>2, <3>4, <3>5 DEF Holds, IsFree
      <3> QED
        BY <3>2, <3>4, <3>6
    <2> QED
      BY <2>1, <2>2
  <1> QED
    BY <1>5, <1>6 DEF m

-----------------------------------------------------------------------------
(* The searches. *)

\* A request that is under way while a SET changes the table has still before
\* it what it is due to find, and its own slot if it is to fill it.
LEMMA UpdatedSearch ==
    ASSUME NEW t \in [Slots -> Entries], NEW w \in [Slots -> Entries],
           NEW l \in Seq(Keys), NEW k \in Keys, NEW n \in Slots,
           Placed(t, l), KeptIn(t, l), Updated(t, w, l, k, n),
           NEW rec \in ReqRecord, Expected(rec, t, w, l, k, n), Search(rec, t, l)
    PROVE  Search(rec, w, Append(l, k))
  <1> DEFINE m == Append(l, k)
  <1>1. /\ Len(m) = Len(l) + 1 /\ m[Len(l) + 1] = k
        /\ \A p \in 1..Len(l) : m[p] = l[p]
        /\ Len(l) \in Nat
    OBVIOUS
  <1> HIDE DEF m
  <1>2. /\ rec.floor \in Nat /\ rec.pba \in Nat /\ rec.offset \in Nat
        /\ rec.key \in Keys
    BY DEF ReqRecord, Hops
  <1>3. Shape(rec, l) /\ rec.floor <= Len(l)
    BY DEF Search, Shape
  <1>4. Shape(rec, m)
    BY <1>1, <1>2, <1>3 DEF Shape
  <1>6. rec.st = "reading" /\ rec.pba # PBA_INVALID => m[rec.pba] = l[rec.pba]
    BY <1>1, <1>2, <1>3 DEF Shape, PBA_INVALID
  <1>5. Confirms(rec, w, m)
    <2> DEFINE c == Slot(idx(rec.key), rec.offset)
    <2> SUFFICES ASSUME rec.type = "SET",
                        \/ rec.st = "reading" /\ rec.pba # PBA_INVALID
                           /\ m[rec.pba] = rec.key
                        \/ rec.st = "retried" /\ rec.step = "KEY_MATCH"
                 PROVE  Holds(w, m, c, rec.key)
      BY DEF Confirms
    <2>1. Holds(t, l, c, rec.key)
      BY <1>6 DEF Search, Confirms
    <2>2. c \in Slots /\ rec.offset \in Hops
      BY <1>2, HashInRange, SlotArithmetic DEF ReqRecord
    <2>3. t[c].pba \in 1..Len(l)
      BY <2>1, <2>2 DEF Placed, Holds
    <2> HIDE DEF c
    <2>4. CASE c = n
      <3>1. Holds(t, l, n, k)
        BY <2>1, <2>4 DEF Expected, c
      <3>2. rec.key = k
        BY <2>1, <2>4, <3>1 DEF Holds
      <3>3. w[n].pba = Len(l) + 1
        BY DEF Updated
      <3> QED
        BY <1>1, <2>4, <3>2, <3>3 DEF Holds, IsFree, PBA_INVALID
    <2>5. CASE c # n
      <3>1. w[c] = t[c]
        BY <2>1, <2>2, <2>5 DEF Updated, Holds
      <3> QED
        BY <1>1, <2>1, <2>3, <3>1 DEF Holds, IsFree
    <2> QED
      BY <2>4, <2>5
  <1>7. \A v \in 1..rec.floor : m[v] = l[v]
    BY <1>1, <1>2, <1>3
  <1>8. ReadsNewest(rec, m)
    <2> SUFFICES ASSUME rec.type = "GET", rec.st = "reading", rec.pba # PBA_INVALID,
                        m[rec.pba] = rec.key,
                        NEW x \in (rec.pba + 1)..rec.floor
                 PROVE  m[x] # rec.key
      BY DEF ReadsNewest
    <2>1. l[rec.pba] = rec.key /\ m[x] = l[x]
      BY <1>2, <1>6, <1>7
    <2> QED
      BY <2>1 DEF Search, ReadsNewest
  <1>9. ASSUME Due(rec, m), NEW s \in Slots, Holds(w, m, s, rec.key)
        PROVE  Before(rec, w, m, s)
    <2>1. Due(rec, l)
      BY <1>7, <1>9 DEF Due
    <2>2. \A x \in Slots : Holds(t, l, x, rec.key) => Before(rec, t, l, x)
      BY <2>1 DEF Search
    <2>0. CASE s = n /\ ~Holds(t, l, n, k)
      <3>1. rec.key = k
        BY <1>1, <1>9, <2>0 DEF Updated, Holds
      <3>2. \A y \in Slots : ~Holds(t, l, y, k)
        BY <2>0 DEF Updated
      <3>3. rec.type = "SET"
        <4> SUFFICES ASSUME rec.type # "SET" PROVE FALSE
          OBVIOUS
        <4>1. PICK v \in 1..rec.floor : l[v] = rec.key
          BY <2>1 DEF Due
        <4>2. v \in 1..Len(l)
          BY <1>1, <1>2, <1>3
        <4> QED
          BY <3>1, <3>2, <4>1, <4>2 DEF KeptIn
      <3>4. rec.st \in {"reading", "retried"} => w[n].neigh_off > rec.offset
        BY <2>0, <3>1, <3>3 DEF Expected
      <3> QED
        BY <2>0, <3>4 DEF Before
    <2> SUFFICES ASSUME ~(s = n /\ ~Holds(t, l, n, k))
                 PROVE  Before(rec, w, m, s)
      BY <2>0
    <2>3. PICK x \in Slots : Holds(t, l, x, rec.key) /\ t[x].neigh_off <= w[s].neigh_off
      <3>1. CASE s = n
        <4>1. rec.key = k
          BY <1>1, <1>9, <3>1 DEF Updated, Holds
        <4>4. Holds(t, l, n, k) /\ w[n].neigh_off = t[n].neigh_off
          BY <3>1 DEF Updated
        <4>5. t[n].neigh_off \in Nat
          BY DEF Entries, Hops
        <4> QED
          BY <3>1, <4>1, <4>4, <4>5
      <3>2. CASE s # n
        <4>1. PICK x \in Slots : t[x].pba = w[s].pba /\ t[x].neigh_off <= w[s].neigh_off
          BY <1>9, <3>2 DEF Updated, Holds
        <4>2. ~IsFree(t, x)
          BY <1>9, <4>1 DEF Holds, IsFree
        <4>3. t[x].pba \in 1..Len(l)
          BY <4>2 DEF Placed
        <4>4. Holds(t, l, x, rec.key)
          BY <1>1, <1>9, <4>1, <4>2, <4>3 DEF Holds
        <4> QED
          BY <4>1, <4>4
      <3> QED
        BY <3>1, <3>2
    <2>4. Before(rec, t, l, x)
      BY <2>2, <2>3
    <2>5. t[x].neigh_off \in Nat /\ w[s].neigh_off \in Nat
      BY DEF Entries, Hops
    <2>6. rec.st = "retried" /\ rec.step = "KEY_MISMATCH" => w[s].neigh_off > rec.offset
      BY <1>2, <2>3, <2>4, <2>5 DEF Before
    <2>7. rec.st = "reading" => \/ w[s].neigh_off > rec.offset
                                \/ /\ w[s].neigh_off = rec.offset
                                   /\ rec.pba # PBA_INVALID
                                   /\ m[rec.pba] = rec.key
      <3> SUFFICES ASSUME rec.st = "reading"
                   PROVE  \/ w[s].neigh_off > rec.offset
                          \/ /\ w[s].neigh_off = rec.offset
                             /\ rec.pba # PBA_INVALID
                             /\ m[rec.pba] = rec.key
        OBVIOUS
      <3>1. CASE t[x].neigh_off > rec.offset
        BY <1>2, <2>3, <2>5, <3>1
      <3>2. CASE ~(t[x].neigh_off > rec.offset)
        <4>1. /\ t[x].neigh_off = rec.offset /\ rec.pba # PBA_INVALID
              /\ l[rec.pba] = rec.key
          BY <2>4, <3>2 DEF Before
        <4> QED
          BY <1>2, <1>6, <2>3, <2>5, <4>1
      <3> QED
        BY <3>1, <3>2
    <2> QED
      BY <2>6, <2>7 DEF Before
  <1> QED
    BY <1>4, <1>5, <1>8, <1>9 DEF Search, m

\* What find_matching_tag skipped does not carry the tag.
LEMMA MatchIsFirst ==
    ASSUME NEW t, NEW i, NEW off \in Nat, NEW tg, NEW o \in Hops, o >= off,
           t[Slot(i, o)].key_fp_tag = tg
    PROVE  LET m == find_matching_tag(t, i, off, tg)
           IN  m # -1 /\ m <= o
  <1> DEFINE M == {x \in off..(MAX_HOP - 1) : t[Slot(i, x)].key_fp_tag = tg}
  <1>1. o \in M
    BY TableAssumption DEF Hops
  <1>2. M \in SUBSET Nat
    OBVIOUS
  <1>3. Min(M) \in M /\ Min(M) <= o
    BY <1>1, <1>2, MinInSet
  <1>4. find_matching_tag(t, i, off, tg) = Min(M)
    BY <1>1 DEF find_matching_tag
  <1> QED
    BY <1>2, <1>3, <1>4

\* The next round of a request that is due to find its key: the entry, if
\* there is one, is where find_matching_tag stops or beyond.
LEMMA NextRound ==
    ASSUME TypeOK, Placed(table, log), NEW r \in Reqs,
           Search(req[r], table, log), Due(req[r], log),
           req[r].st \in {"queued", "retried"}, req[r].step # "KEY_MATCH",
           NEW s \in Slots, Holds(table, log, s, req[r].key)
    PROVE  MatchOffset(r) # -1 /\ MatchOffset(r) <= table[s].neigh_off
  <1> DEFINE k   == req[r].key
             off == IF req[r].step = "KEY_MISMATCH" THEN req[r].offset + 1 ELSE 0
             o   == table[s].neigh_off
  <1>1. /\ req[r] \in ReqRecord /\ req[r].offset \in Nat /\ k \in Keys
        /\ req[r].step \in Steps
    BY DEF TypeOK, ReqRecord, Hops
  <1>2. off \in Nat
    BY <1>1
  <1>3. o \in Hops /\ o \in Nat
    BY DEF TypeOK, Entries, Hops
  <1>4. s = Slot(idx(k), o) /\ table[s].key_fp_tag = tag(k)
    BY DEF Placed, Holds
  <1>5. o >= off
    <2>1. CASE req[r].step = "KEY_MISMATCH"
      <3>1. req[r].st = "retried"
        BY <2>1 DEF Search, Shape
      <3>2. Before(req[r], table, log, s)
        BY DEF Search
      <3>3. o > req[r].offset
        BY <2>1, <3>1, <3>2 DEF Before
      <3> QED
        BY <1>1, <1>3, <2>1, <3>3
    <2>2. CASE req[r].step # "KEY_MISMATCH"
      BY <1>3, <2>2
    <2> QED
      BY <2>1, <2>2
  <1> HIDE DEF k, off, o
  <1>6. table[Slot(idx(k), o)].key_fp_tag = tag(k)
    BY <1>4
  <1>7. LET x == find_matching_tag(table, idx(k), off, tag(k)) IN x # -1 /\ x <= o
    BY <1>2, <1>3, <1>5, <1>6, MatchIsFirst
  <1>8. MatchOffset(r) = find_matching_tag(table, idx(k), off, tag(k))
    BY DEF MatchOffset, k, off
  <1> QED
    BY <1>7, <1>8 DEF o

\* A request that is in the pool or lost searches for nothing, one that has
\* just been accepted has not begun.
LEMMA RestSearch ==
    ASSUME NEW t, NEW l \in Seq(Keys), NEW rec \in ReqRecord,
           \/ rec.st = "idle" /\ rec.floor = 0
           \/ rec.st = "lost" /\ rec.floor <= Len(l)
           \/ rec.st = "queued" /\ rec.step = "INIT" /\ rec.floor = Len(l)
    PROVE  Search(rec, t, l)
  <1>1. Len(l) \in Nat
    OBVIOUS
  <1>2. Shape(rec, l)
    BY <1>1 DEF Shape
  <1>3. Confirms(rec, t, l) /\ ReadsNewest(rec, l)
    BY DEF Confirms, ReadsNewest
  <1>4. \A s \in Slots : Before(rec, t, l, s)
    BY DEF Before
  <1> QED
    BY <1>2, <1>3, <1>4 DEF Search

\* Phase 1 of both operations: rec is the request r with the read of the next
\* entry that carries its tag.
LEMMA ProbeSearch ==
    ASSUME TypeOK, Placed(table, log), OnceIn(table, log), KeptIn(table, log),
           NEW r \in Reqs, Search(req[r], table, log),
           req[r].st \in {"queued", "retried"}, req[r].step # "KEY_MATCH",
           MatchOffset(r) # -1,
           NEW rec \in ReqRecord, rec.type = req[r].type, rec.key = req[r].key,
           rec.floor = req[r].floor, rec.st = "reading",
           rec.offset = MatchOffset(r),
           rec.pba = table[Slot(idx(rec.key), rec.offset)].pba
    PROVE  Search(rec, table, log)
  <1> DEFINE x == Slot(idx(rec.key), rec.offset)
  <1>1. /\ rec.key \in Keys /\ rec.offset \in Hops /\ rec.pba \in Nat
        /\ rec.floor \in Nat /\ rec.offset \in Nat
        /\ log \in Seq(Keys) /\ Len(log) \in Nat
    BY DEF TypeOK, ReqRecord, Hops
  <1>2. x \in Slots
    BY <1>1, HashInRange, SlotArithmetic
  <1> HIDE DEF x
  <1>3. rec.pba = table[x].pba
    BY DEF x
  <1>4. rec.pba # PBA_INVALID => rec.pba \in 1..Len(log) /\ ~IsFree(table, x)
    BY <1>2, <1>3 DEF Placed, IsFree
  <1>5. Shape(rec, log)
    <2>1. rec.pba <= Len(log)
      BY <1>1, <1>4 DEF PBA_INVALID
    <2>2. rec.floor <= Len(log)
      BY DEF Search, Shape
    <2> QED
      BY <2>1, <2>2 DEF Shape
  <1>6. Confirms(rec, table, log)
    BY <1>3 DEF Confirms, Holds, IsFree, x
  <1>7. ReadsNewest(rec, log)
    <2> SUFFICES ASSUME rec.pba # PBA_INVALID, log[rec.pba] = rec.key,
                        NEW v \in (rec.pba + 1)..rec.floor, log[v] = rec.key
                 PROVE  FALSE
      BY DEF ReadsNewest
    <2>1. v \in 1..Len(log) /\ v > rec.pba
      BY <1>1, <1>5 DEF Shape
    <2>2. PICK s \in Slots : Holds(table, log, s, rec.key) /\ table[s].pba >= v
      BY <2>1 DEF KeptIn
    <2>3. Holds(table, log, x, rec.key)
      BY <1>3, <1>4 DEF Holds
    <2>4. s = x
      BY <1>1, <1>2, <2>2, <2>3 DEF OnceIn
    <2> QED
      BY <1>1, <1>3, <2>1, <2>2, <2>4
  <1>8. ASSUME Due(rec, log), NEW s \in Slots, Holds(table, log, s, rec.key)
        PROVE  Before(rec, table, log, s)
    <2>1. Due(req[r], log)
      BY <1>8 DEF Due
    <2>2. rec.offset <= table[s].neigh_off
      BY <1>8, <2>1, NextRound
    <2>3. table[s].neigh_off \in Nat
      BY DEF TypeOK, Entries, Hops
    <2>4. CASE table[s].neigh_off = rec.offset
      <3>1. s = x
        BY <1>8, <2>4 DEF Placed, Holds, x
      <3> QED
        BY <1>3, <1>8, <2>4, <3>1 DEF Before, Holds, IsFree
    <2>5. CASE table[s].neigh_off # rec.offset
      <3>1. table[s].neigh_off > rec.offset
        BY <1>1, <2>2, <2>3, <2>5
      <3> QED
        BY <3>1 DEF Before
    <2> QED
      BY <2>4, <2>5
  <1> QED
    BY <1>5, <1>6, <1>7, <1>8 DEF Search

\* cb_keycmp when the request is to go on: rec is the request with its read,
\* new the one put into the retry queue.
LEMMA CallbackSearch ==
    ASSUME NEW t, NEW l \in Seq(Keys), NEW rec \in ReqRecord, NEW new \in ReqRecord,
           Search(rec, t, l), rec.st = "reading",
           NEW match \in BOOLEAN,
           match <=> (rec.pba # PBA_INVALID /\ l[rec.pba] = rec.key),
           ~(match /\ rec.type = "GET"),
           new.type = rec.type, new.key = rec.key, new.offset = rec.offset,
           new.floor = rec.floor, new.st = "retried",
           new.step = IF match THEN "KEY_MATCH" ELSE "KEY_MISMATCH"
    PROVE  Search(new, t, l)
  <1>0. rec.type \in {"GET", "SET"}
    BY DEF ReqRecord
  <1>1. Shape(new, l)
    BY DEF Search, Shape
  <1>2. ReadsNewest(new, l)
    BY DEF ReadsNewest
  <1>3. Confirms(new, t, l)
    <2> SUFFICES ASSUME new.type = "SET", new.step = "KEY_MATCH"
                 PROVE  Holds(t, l, Slot(idx(new.key), new.offset), new.key)
      BY DEF Confirms
    <2>1. rec.pba # PBA_INVALID /\ l[rec.pba] = rec.key
      OBVIOUS
    <2> QED
      BY <2>1 DEF Search, Confirms
  <1>4. ASSUME Due(new, l), NEW s \in Slots, Holds(t, l, s, new.key)
        PROVE  Before(new, t, l, s)
    <2>1. Before(rec, t, l, s)
      BY <1>4 DEF Search, Due
    <2>2. CASE match
      BY <2>2 DEF Before
    <2>3. CASE ~match
      BY <2>1, <2>3 DEF Before
    <2> QED
      BY <2>2, <2>3
  <1> QED
    BY <1>1, <1>2, <1>3, <1>4 DEF Search

-----------------------------------------------------------------------------
(* The queues. *)

\* Request r is nowhere in q.
Absent(q, r) == \A i \in 1..Len(q) : q[i] # r

\* A queue does not notice what happens to other requests.
LEMMA WaitsFrame ==
    ASSUME NEW q \in Seq(Reqs), NEW f, NEW g, NEW st, NEW r, Waits(q, f, st),
           Absent(q, r), \A x \in Reqs : x # r => g[x] = f[x]
    PROVE  Waits(q, g, st)
  <1>1. \A i \in 1..Len(q) : q[i] \in Reqs /\ q[i] # r
    BY DEF Absent
  <1> QED
    BY <1>1 DEF Waits

\* A request that is not in a queue can be appended to it.
LEMMA WaitsAppend ==
    ASSUME NEW q \in Seq(Reqs), NEW f, NEW st, NEW r \in Reqs, Waits(q, f, st),
           Absent(q, r), f[r].st = st
    PROVE  Waits(Append(q, r), f, st)
  <1> DEFINE p == Append(q, r)
  <1>1. /\ Len(p) = Len(q) + 1 /\ Len(q) \in Nat /\ p[Len(q) + 1] = r
        /\ \A i \in 1..Len(q) : p[i] = q[i]
    OBVIOUS
  <1> HIDE DEF p
  <1>2. \A i \in 1..Len(p) : i \in 1..Len(q) \/ i = Len(q) + 1
    BY <1>1
  <1> QED
    BY <1>1, <1>2 DEF Waits, Absent, p

\* What is left of a queue without its first request does not have it.
LEMMA WaitsTail ==
    ASSUME NEW q \in Seq(Reqs), q # << >>, NEW f, NEW st, Waits(q, f, st)
    PROVE  /\ Tail(q) \in Seq(Reqs) /\ Waits(Tail(q), f, st)
           /\ Absent(Tail(q), Head(q)) /\ f[Head(q)].st = st
  <1> DEFINE p == Tail(q)
  <1>1. /\ Len(q) \in Nat \ {0} /\ Len(p) = Len(q) - 1 /\ p \in Seq(Reqs)
        /\ \A i \in 1..Len(p) : p[i] = q[i + 1]
        /\ Head(q) = q[1]
    OBVIOUS
  <1> HIDE DEF p
  <1>2. \A i \in 1..Len(p) : i + 1 \in 1..Len(q) /\ i + 1 # 1
    BY <1>1
  <1>3. 1 \in 1..Len(q)
    BY <1>1
  <1>4. \A i \in 1..Len(p) : f[p[i]].st = st /\ p[i] # q[1]
    BY <1>1, <1>2, <1>3 DEF Waits
  <1>5. \A i, j \in 1..Len(p) : p[i] = p[j] => i = j
    <2> TAKE i, j \in 1..Len(p)
    <2> HAVE p[i] = p[j]
    <2>1. i + 1 = j + 1
      BY <1>1, <1>2 DEF Waits
    <2> QED
      BY <2>1
  <1> QED
    BY <1>1, <1>3, <1>4, <1>5 DEF Waits, Absent, p

\* A request whose state is another one is in no queue of the state.
LEMMA WaitsNot ==
    ASSUME NEW q, NEW f, NEW st, Waits(q, f, st), NEW r, f[r].st # st
    PROVE  Absent(q, r)
  BY DEF Waits, Absent

\* The request that the handler takes waited in one of the queues, and is in
\* neither of them afterwards.
LEMMA Taken ==
    ASSUME TypeOK, QueuesExact, NEW r \in Reqs, get_next_request(r)
    PROVE  /\ req[r].st \in {"queued", "retried"}
           /\ ReqRest \in Seq(Reqs) /\ RetryRest \in Seq(Reqs)
           /\ Waits(ReqRest, req, "queued") /\ Absent(ReqRest, r)
           /\ Waits(RetryRest, req, "retried") /\ Absent(RetryRest, r)
  <1>1. /\ req_q \in Seq(Reqs) /\ retry_q \in Seq(Reqs)
        /\ Waits(req_q, req, "queued") /\ Waits(retry_q, req, "retried")
    BY DEF TypeOK, QueuesExact
  <1>2. CASE retry_q = << >>
    <2>1. r = Head(req_q) /\ req_q # << >>
      BY <1>2 DEF get_next_request
    <2>2. /\ Tail(req_q) \in Seq(Reqs) /\ Waits(Tail(req_q), req, "queued")
          /\ Absent(Tail(req_q), r) /\ req[r].st = "queued"
      BY <1>1, <2>1, WaitsTail
    <2>3. ReqRest = Tail(req_q) /\ RetryRest = retry_q
      BY <1>2 DEF ReqRest, RetryRest
    <2>4. Absent(retry_q, r)
      BY <1>1, <2>2, WaitsNot
    <2> QED
      BY <1>1, <2>2, <2>3, <2>4
  <1>3. CASE retry_q # << >>
    <2>1. r = Head(retry_q)
      BY <1>3 DEF get_next_request
    <2>2. /\ Tail(retry_q) \in Seq(Reqs) /\ Waits(Tail(retry_q), req, "retried")
          /\ Absent(Tail(retry_q), r) /\ req[r].st = "retried"
      BY <1>1, <1>3, <2>1, WaitsTail
    <2>3. RetryRest = Tail(retry_q) /\ ReqRest = req_q
      BY <1>3 DEF ReqRest, RetryRest
    <2>4. Absent(req_q, r)
      BY <1>1, <2>2, WaitsNot
    <2> QED
      BY <1>1, <2>2, <2>3, <2>4
  <1> QED
    BY <1>2, <1>3

-----------------------------------------------------------------------------
(* What the steps do to a request. *)

\* A GET is answered with a version of its key that was the newest one at
\* some time since it was accepted, or with none.
Answers(rec, new, l) ==
    /\ rec.type = "GET"
    /\ new.type = "GET" /\ new.key = rec.key /\ new.st = "idle" /\ new.floor = 0
    /\ new.val = 0 \/ (new.val \in 1..Len(l) /\ l[new.val] = rec.key)
    /\ \A w \in (new.val + 1)..rec.floor : l[w] # rec.key

\* A request stays the same one in another state.
GoesOn(rec, new, st) ==
    /\ new.st = st
    /\ new.type = rec.type /\ new.key = rec.key
    /\ new.floor = rec.floor /\ new.val = rec.val

\* The parts of a request that was acknowledged.
LEMMA EndedParts ==
    ASSUME NEW rec \in ReqRecord, NEW v \in Nat
    PROVE  LET new == net_end_req(rec, v)
           IN  /\ new \in ReqRecord /\ new.type = rec.type /\ new.key = rec.key
               /\ new.st = "idle" /\ new.floor = 0 /\ new.val = v
  <1>1. net_end_req(rec, v) \in ReqRecord
    BY EndedRequest
  <1> QED
    BY <1>1 DEF net_end_req, ReqRecord

\* cb_keycmp, for a request rec whose read was that of rd.
LEMMA CallbackEffect ==
    ASSUME TypeOK, NEW r \in Reqs, NEW rec \in ReqRecord, NEW rd \in ReqRecord,
           Search(rd, table, log), rd.st = "reading",
           rec.type = rd.type, rec.key = rd.key, rec.offset = rd.offset,
           rec.floor = rd.floor, rec.pba = rd.pba,
           NEW match \in BOOLEAN,
           match <=> (rd.pba # PBA_INVALID /\ log[rd.pba] = rd.key),
           NEW q, cb_keycmp(r, rec, match, q)
    PROVE  \E new \in ReqRecord :
              /\ req' = [req EXCEPT ![r] = new]
              /\ Search(new, table, log)
              /\ Answers(rec, new, log) \/ GoesOn(rec, new, "retried")
  <1>0. /\ rec.pba \in Nat /\ rec.floor \in Nat /\ rd.pba \in Nat
        /\ log \in Seq(Keys) /\ Len(log) \in Nat
        /\ rec.type \in {"GET", "SET"}
    BY DEF TypeOK, ReqRecord
  <1>1. CASE match /\ rec.type = "GET"
    <2> DEFINE new == net_end_req(rec, rec.pba)
    <2>1. req' = [req EXCEPT ![r] = new]
      BY <1>1 DEF cb_keycmp
    <2>2. /\ new \in ReqRecord /\ new.type = rec.type /\ new.key = rec.key
          /\ new.st = "idle" /\ new.floor = 0 /\ new.val = rec.pba
      BY <1>0, EndedParts
    <2> HIDE DEF new
    <2>3. Search(new, table, log)
      BY <1>0, <2>2, RestSearch
    <2>4. rec.pba \in 1..Len(log) /\ log[rec.pba] = rec.key
      BY <1>0, <1>1 DEF Search, Shape, PBA_INVALID
    <2>5. \A w \in (rec.pba + 1)..rec.floor : log[w] # rec.key
      BY <1>1 DEF Search, ReadsNewest
    <2>6. Answers(rec, new, log)
      BY <1>1, <2>2, <2>4, <2>5 DEF Answers
    <2> QED
      BY <2>1, <2>2, <2>3, <2>6
  <1>2. CASE ~(match /\ rec.type = "GET")
    <2> DEFINE new == [rec EXCEPT !.st = "retried", !.pba = 0, !.racy = FALSE,
                                  !.step = IF match THEN "KEY_MATCH"
                                                    ELSE "KEY_MISMATCH"]
    <2>1. req' = [req EXCEPT ![r] = new]
      BY <1>2 DEF cb_keycmp
    <2>2. new \in ReqRecord
      BY DEF ReqRecord, States, Steps
    <2>3. /\ new.type = rec.type /\ new.key = rec.key /\ new.offset = rec.offset
          /\ new.floor = rec.floor /\ new.val = rec.val /\ new.st = "retried"
      BY DEF ReqRecord
    <2>4. new.step = IF match THEN "KEY_MATCH" ELSE "KEY_MISMATCH"
      BY DEF ReqRecord
    <2> HIDE DEF new
    <2>5. ~(match /\ rd.type = "GET")
      BY <1>2
    <2>6. Search(new, table, log)
      BY <1>0, <2>2, <2>3, <2>4, <2>5, CallbackSearch
    <2>7. GoesOn(rec, new, "retried")
      BY <2>3 DEF GoesOn
    <2> QED
      BY <2>1, <2>2, <2>6, <2>7
  <1> QED
    BY <1>1, <1>2

\* The entry that carries the tag is read: from the staging buffer, with the
\* callback, or from the device.
LEMMA ProbeEffect ==
    ASSUME AtomicInv, ~disturbed, NEW r \in Reqs, Probe(r)
    PROVE  \E new \in ReqRecord :
              /\ req' = [req EXCEPT ![r] = new]
              /\ Search(new, table, log)
              /\ \/ Answers(req[r], new, log)
                 \/ \E st \in {"reading", "lost", "retried"} : GoesOn(req[r], new, st)
  <1> DEFINE off == MatchOffset(r)
             p   == table[Slot(idx(req[r].key), off)].pba
             rec == [req[r] EXCEPT !.offset = off, !.pba = p]
             x   == /\ StaleReads /\ rec.pba # PBA_INVALID
                    /\ Segment(rec.pba) \in flushing
             rd  == [rec EXCEPT !.st = "reading", !.racy = x]
             gone == [rec EXCEPT !.st = "lost", !.racy = x]
  <1>0. /\ TypeOK /\ Placed(table, log) /\ UniqueIn(table, Slots)
        /\ OnceIn(table, log) /\ KeptIn(table, log) /\ QueuesExact
        /\ Search(req[r], table, log)
    BY TableInvIs DEF AtomicInv, CalmInv, SearchInv
  <1>1. /\ get_next_request(r) /\ req[r].step # "KEY_MATCH"
        /\ off # -1 /\ dev_abs_read(r, off)
    BY DEF Probe
  <1>2. /\ req[r] \in ReqRecord /\ req[r].key \in Keys
        /\ req[r].st \in {"queued", "retried"}
    BY <1>0, <1>1, Taken DEF TypeOK, ReqRecord
  <1>3. off \in Hops /\ Slot(idx(req[r].key), off) \in Slots
    BY <1>0, <1>1, <1>2, MatchOffsetType, HashInRange, SlotArithmetic
  <1>4. p \in Nat
    BY <1>0, <1>3 DEF TypeOK, Entries
  <1>5. off = MatchOffset(r) /\ p = table[Slot(idx(req[r].key), off)].pba
    OBVIOUS
  <1>6. IF is_staged(p) THEN cb_keycmp(r, rec, log[p] = rec.key, RetryRest)
                        ELSE aio_read(r, rec)
    BY <1>1 DEF dev_abs_read
  <1> HIDE DEF off, p
  <1>7. /\ rec \in ReqRecord /\ rec.offset = off /\ rec.pba = p
        /\ rec.type = req[r].type /\ rec.key = req[r].key
        /\ rec.floor = req[r].floor /\ rec.val = req[r].val
    BY <1>2, <1>3, <1>4 DEF ReqRecord
  <1>12. x \in BOOLEAN
    BY HopscotchAssumption
  <1>13. ~is_staged(p) => \E st \in {"reading", "lost"} :
                             req' = [req EXCEPT ![r] = [rec EXCEPT !.st = st, !.racy = x]]
    BY <1>6 DEF aio_read
  <1> HIDE DEF rec, x
  <1>8. /\ rd \in ReqRecord /\ rd.offset = off /\ rd.pba = p
        /\ rd.type = req[r].type /\ rd.key = req[r].key
        /\ rd.floor = req[r].floor /\ rd.val = req[r].val
        /\ rd.st = "reading"
    BY <1>7, <1>12 DEF ReqRecord, States
  <1>14. /\ gone \in ReqRecord
         /\ gone.type = req[r].type /\ gone.key = req[r].key
         /\ gone.floor = req[r].floor /\ gone.val = req[r].val
         /\ gone.st = "lost"
    BY <1>7, <1>12 DEF ReqRecord, States
  <1>15. ~is_staged(p) => \/ req' = [req EXCEPT ![r] = rd]
                          \/ req' = [req EXCEPT ![r] = gone]
    BY <1>13
  <1> HIDE DEF rd, gone
  <1>9. Search(rd, table, log)
    BY <1>0, <1>1, <1>2, <1>5, <1>8, ProbeSearch
  <1>10. CASE is_staged(p)
    <2>1. (log[p] = rec.key) \in BOOLEAN
      OBVIOUS
    <2>2. (log[p] = rec.key) <=> (rd.pba # PBA_INVALID /\ log[rd.pba] = rd.key)
      BY <1>7, <1>8, <1>10 DEF is_staged
    <2>3. cb_keycmp(r, rec, log[p] = rec.key, RetryRest)
      BY <1>6, <1>10
    <2>4. PICK match \in BOOLEAN : /\ match <=> (rd.pba # PBA_INVALID /\ log[rd.pba] = rd.key)
                                   /\ cb_keycmp(r, rec, match, RetryRest)
      BY <2>1, <2>2, <2>3
    <2>5. PICK new \in ReqRecord :
              /\ req' = [req EXCEPT ![r] = new]
              /\ Search(new, table, log)
              /\ Answers(rec, new, log) \/ GoesOn(rec, new, "retried")
      BY <1>0, <1>7, <1>8, <1>9, <2>4, CallbackEffect
    <2>6. Answers(rec, new, log) => Answers(req[r], new, log)
      BY <1>7 DEF Answers
    <2>7. GoesOn(rec, new, "retried") => GoesOn(req[r], new, "retried")
      BY <1>7 DEF GoesOn
    <2> QED
      BY <2>5, <2>6, <2>7
  <1>11. CASE ~is_staged(p)
    <2>1. CASE req' = [req EXCEPT ![r] = rd]
      <3>1. GoesOn(req[r], rd, "reading")
        BY <1>8 DEF GoesOn
      <3> QED
        BY <1>8, <1>9, <2>1, <3>1
    <2>2. CASE req' = [req EXCEPT ![r] = gone]
      <3>1. GoesOn(req[r], gone, "lost")
        BY <1>14 DEF GoesOn
      <3>2. gone.floor <= Len(log) /\ log \in Seq(Keys)
        BY <1>0, <1>14 DEF Search, Shape, TypeOK
      <3>3. Search(gone, table, log)
        BY <1>14, <3>2, RestSearch
      <3> QED
        BY <1>14, <2>2, <3>1, <3>3
    <2> QED
      BY <1>11, <1>15, <2>1, <2>2
  <1> QED
    BY <1>10, <1>11

\* The callback of a read from the device that did not overtake a write.
LEMMA ReadEffect ==
    ASSUME AtomicInv, ~disturbed, ~disturbed', NEW r \in Reqs, ReadDone(r)
    PROVE  \E new \in ReqRecord :
              /\ req' = [req EXCEPT ![r] = new]
              /\ Search(new, table, log)
              /\ Answers(req[r], new, log) \/ GoesOn(req[r], new, "retried")
  <1>0. /\ TypeOK /\ Search(req[r], table, log) /\ req[r] \in ReqRecord
        /\ req[r].st = "reading"
    BY TableInvIs DEF AtomicInv, CalmInv, SearchInv, TypeOK, ReadDone
  <1>1. PICK match \in BOOLEAN :
             /\ match <=> (req[r].pba # PBA_INVALID /\ log[req[r].pba] = req[r].key)
             /\ cb_keycmp(r, req[r], match, retry_q)
    BY <1>0 DEF ReadDone
  <1> QED
    BY <1>0, <1>1, CallbackEffect

\* A GET that finds no entry any more had none to find.
LEMMA MissEffect ==
    ASSUME AtomicInv, ~disturbed, NEW r \in Reqs, GetMiss(r)
    PROVE  \E new \in ReqRecord :
              /\ req' = [req EXCEPT ![r] = new]
              /\ Search(new, table, log)
              /\ Answers(req[r], new, log)
              /\ new.val = 0
  <1>0. /\ TypeOK /\ Placed(table, log) /\ KeptIn(table, log) /\ QueuesExact
        /\ Search(req[r], table, log) /\ req[r] \in ReqRecord
        /\ log \in Seq(Keys) /\ Len(log) \in Nat
    BY TableInvIs DEF AtomicInv, CalmInv, SearchInv, TypeOK
  <1>1. /\ get_next_request(r) /\ req[r].type = "GET" /\ MatchOffset(r) = -1
        /\ req' = [req EXCEPT ![r] = net_end_req(req[r], 0)]
    BY DEF GetMiss
  <1>2. req[r].st \in {"queued", "retried"} /\ req[r].step # "KEY_MATCH"
    <2>1. req[r].st \in {"queued", "retried"}
      BY <1>0, <1>1, Taken
    <2> QED
      BY <1>0, <1>1, <2>1 DEF Search, Shape
  <1>3. ASSUME NEW v \in 1..req[r].floor, log[v] = req[r].key PROVE FALSE
    <2>1. v \in 1..Len(log)
      BY <1>0 DEF Search, Shape, ReqRecord
    <2>2. PICK s \in Slots : Holds(table, log, s, req[r].key)
      BY <1>0, <1>3, <2>1 DEF KeptIn
    <2>3. Due(req[r], log)
      BY <1>3 DEF Due
    <2> QED
      BY <1>0, <1>1, <1>2, <2>2, <2>3, NextRound
  <1> DEFINE new == net_end_req(req[r], 0)
  <1>4. /\ new \in ReqRecord /\ new.type = req[r].type /\ new.key = req[r].key
        /\ new.st = "idle" /\ new.floor = 0 /\ new.val = 0
    BY <1>0, EndedParts
  <1> HIDE DEF new
  <1>5. Search(new, table, log)
    BY <1>0, <1>4, RestSearch
  <1>6. Answers(req[r], new, log)
    BY <1>1, <1>3, <1>4 DEF Answers
  <1> QED
    BY <1>1, <1>4, <1>5, <1>6 DEF new

\* A SET ends by updating the table: in place after a confirmed match, or by
\* an insertion when it has found that the key has no entry.
LEMMA SetEffect ==
    ASSUME AtomicInv, ~disturbed, ~disturbed', NEW r \in Reqs,
           SetMatched(r) \/ SetInsert(r)
    PROVE  /\ req[r].type = "SET" /\ req[r].st # "idle"
           /\ log' = Append(log, req[r].key)
           /\ req' = [req EXCEPT ![r] = net_end_req(req[r], Len(log) + 1)]
           /\ \E n \in Slots :
                 /\ Updated(table, table', log, req[r].key, n)
                 /\ \A q \in Reqs \ {r} :
                       Expected(req[q], table, table', log, req[r].key, n)
  <1> DEFINE k == req[r].key
  <1>0. /\ TypeOK /\ Placed(table, log) /\ UniqueIn(table, Slots) /\ QueuesExact
        /\ Search(req[r], table, log) /\ req[r] \in ReqRecord /\ k \in Keys
        /\ table \in [Slots -> Entries]
        /\ log \in Seq(Keys) /\ idx(k) \in Slots
    BY TableInvIs, HashInRange DEF AtomicInv, CalmInv, SearchInv, TypeOK, ReqRecord
  <1>1. get_next_request(r) /\ req[r].type = "SET"
    BY DEF SetMatched, SetInsert
  <1>2. req[r].st \in {"queued", "retried"}
    BY <1>0, <1>1, Taken
  <1>3. CASE SetMatched(r)
    <2>1. /\ req[r].step = "KEY_MATCH"
          /\ FillAndWrite(r, table, req[r].offset)
      BY <1>3 DEF SetMatched
    <2>2. req[r].offset \in Hops
      BY <1>0 DEF ReqRecord
    <2>3. Holds(table, log, Slot(idx(k), req[r].offset), k)
      BY <1>0, <1>1, <1>2, <2>1 DEF Search, Shape, Confirms
    <2>6. \A q \in Reqs : Expected(req[q], table, table', log, k,
                                   Slot(idx(k), req[r].offset))
      BY <2>3 DEF Expected
    <2>4. Slot(idx(k), req[r].offset) \in Slots
      BY <1>0, <2>2, SlotArithmetic
    <2>5. Updated(table, table', log, k, Slot(idx(k), req[r].offset))
      BY <1>0, <2>1, <2>2, <2>3, ReplaceUpdates DEF FillAndWrite
    <2> QED
      BY <1>1, <1>2, <2>1, <2>4, <2>5, <2>6 DEF FillAndWrite, get_next_pba
  <1>4. CASE SetInsert(r)
    <2> DEFINE f == find_free_entry(table, idx(k))
               n == Slot(idx(k), f.offset)
    <2>1. /\ req[r].step # "KEY_MATCH" /\ MatchOffset(r) = -1
          /\ f.offset # -1
          /\ FillAndWrite(r, f.table, f.offset)
          /\ ~Surprises(r, f.offset)
      BY <1>4 DEF SetInsert
    <2>2. \/ f.offset \in Hops /\ IsFree(table, n) /\ f.table = table
          \/ f.offset \in Hops /\ ~IsFree(table, n) /\ Displaced(table, f.table, n)
      BY <1>0, <2>1, FreeEntry
    <2> HIDE DEF f
    <2>3. f.offset \in Hops /\ n \in Slots
      BY <1>0, <2>2, SlotArithmetic
    <2>4. f.table \in [Slots -> Entries]
      BY <1>0, <2>2, <2>3, DisplaceKeeps
    <2>5. \A s \in Slots : ~Holds(table, log, s, k)
      <3>1. Due(req[r], log)
        BY <1>1 DEF Due
      <3> QED
        BY <1>0, <1>2, <2>1, <3>1, NextRound
    <2>6. table' = fill_entry(f.table, n, f.offset, tag(k), Len(log) + 1)
      BY <2>1 DEF FillAndWrite
    <2>7. Updated(table, table', log, k, n)
      BY <1>0, <2>2, <2>3, <2>4, <2>5, <2>6, InsertUpdates
    <2>8. table'[n].neigh_off = f.offset /\ f.offset \in Nat
      <3>1. tag(k) \in Tags /\ Len(log) + 1 \in Nat /\ f.offset \in Nat
        BY <1>0, <2>3, HashInRange DEF Hops
      <3>2. table'[n] = [neigh_off |-> f.offset, key_fp_tag |-> tag(k),
                         pba |-> Len(log) + 1]
        BY <2>3, <2>4, <2>6, <3>1, FillEntry
      <3> QED
        BY <3>1, <3>2
    <2>9. ASSUME NEW q \in Reqs \ {r} PROVE Expected(req[q], table, table', log, k, n)
      <3> SUFFICES ASSUME req[q].type = "SET"
                   PROVE  /\ /\ req[q].key = k
                             /\ req[q].st \in {"reading", "retried"}
                             => table'[n].neigh_off > req[q].offset
                          /\ /\ \/ req[q].st = "reading"
                                \/ req[q].st = "retried" /\ req[q].step = "KEY_MATCH"
                             /\ n = Slot(idx(req[q].key), req[q].offset)
                             => ~Holds(table, log, n, req[q].key)
        BY DEF Expected
      <3>1. req[q].offset \in Nat
        BY <1>0 DEF TypeOK, ReqRecord, Hops
      <3>2. /\ req[q].key = k /\ req[q].st \in {"reading", "retried"}
            => ~(f.offset <= req[q].offset)
        BY <2>1 DEF Surprises
      <3>3. /\ Confirming(q) /\ n = Slot(idx(req[q].key), req[q].offset)
            => ~Holds(table, log, n, req[q].key)
        BY <2>1 DEF Surprises, Holds, Owner
      <3> QED
        BY <2>8, <3>1, <3>2, <3>3 DEF Confirming
    <2> QED
      BY <1>1, <1>2, <2>1, <2>3, <2>7, <2>9 DEF FillAndWrite, get_next_pba
  <1> QED
    BY <1>3, <1>4

-----------------------------------------------------------------------------
(* The invariant. *)

\* The queues after a request was taken and ended, left with the device or
\* put back.
LEMMA HandledQueues ==
    ASSUME TypeOK, QueuesExact, NEW r \in Reqs, get_next_request(r), NEW new,
           req' = [req EXCEPT ![r] = new], req_q' = ReqRest,
           \/ retry_q' = RetryRest
           \/ retry_q' = Append(RetryRest, r) /\ new.st = "retried"
    PROVE  QueuesExact'
  <1>1. /\ ReqRest \in Seq(Reqs) /\ RetryRest \in Seq(Reqs)
        /\ Waits(ReqRest, req, "queued") /\ Absent(ReqRest, r)
        /\ Waits(RetryRest, req, "retried") /\ Absent(RetryRest, r)
    BY Taken
  <1>2. req'[r] = new /\ \A x \in Reqs : x # r => req'[x] = req[x]
    BY DEF TypeOK
  <1>3. Waits(ReqRest, req', "queued") /\ Waits(RetryRest, req', "retried")
    BY <1>1, <1>2, WaitsFrame
  <1>4. Waits(retry_q', req', "retried")
    BY <1>1, <1>2, <1>3, WaitsAppend
  <1> QED
    BY <1>3, <1>4 DEF QueuesExact

\* What a callback does to the retry queue q.
LEMMA CallbackQueue ==
    ASSUME NEW r \in Reqs, NEW rec \in ReqRecord, NEW match, NEW q,
           cb_keycmp(r, rec, match, q)
    PROVE  \E new : /\ req' = [req EXCEPT ![r] = new]
                    /\ \/ retry_q' = q
                       \/ retry_q' = Append(q, r) /\ new.st = "retried"
  <1> DEFINE x == [rec EXCEPT !.st = "retried", !.pba = 0, !.racy = FALSE,
                              !.step = IF match THEN "KEY_MATCH" ELSE "KEY_MISMATCH"]
  <1>1. x.st = "retried"
    BY DEF ReqRecord
  <1>2. CASE match /\ rec.type = "GET"
    BY <1>2 DEF cb_keycmp
  <1>3. CASE ~(match /\ rec.type = "GET")
    <2>1. req' = [req EXCEPT ![r] = x] /\ retry_q' = Append(q, r)
      BY <1>3 DEF cb_keycmp, retry_req_to_hlr
    <2> QED
      BY <1>1, <2>1
  <1> QED
    BY <1>2, <1>3

\* Every step keeps the queues exact, disturbed or not.
LEMMA QueuesStep ==
    ASSUME TypeOK, QueuesExact, [Next]_vars
    PROVE  QueuesExact'
  <1>0. /\ req \in [Reqs -> ReqRecord] /\ req_q \in Seq(Reqs) /\ retry_q \in Seq(Reqs)
        /\ Waits(req_q, req, "queued") /\ Waits(retry_q, req, "retried")
    BY DEF TypeOK, QueuesExact
  <1>1. ASSUME NEW r \in Reqs, NEW type \in {"GET", "SET"}, NEW k \in Keys,
               Submit(r, type, k)
        PROVE  QueuesExact'
    <2>1. PICK new : /\ req' = [req EXCEPT ![r] = new] /\ new.st = "queued"
                     /\ req_q' = Append(req_q, r) /\ retry_q' = retry_q
                     /\ req[r].st = "idle"
      BY <1>1 DEF Submit
    <2>2. Absent(req_q, r) /\ Absent(retry_q, r)
      BY <1>0, <2>1, WaitsNot
    <2>3. req'[r] = new /\ \A x \in Reqs : x # r => req'[x] = req[x]
      BY <1>0, <2>1
    <2>4. Waits(req_q, req', "queued") /\ Waits(retry_q, req', "retried")
      BY <1>0, <2>2, <2>3, WaitsFrame
    <2>5. Waits(Append(req_q, r), req', "queued")
      BY <1>0, <2>1, <2>2, <2>3, <2>4, WaitsAppend
    <2> QED
      BY <2>1, <2>4, <2>5 DEF QueuesExact
  <1>2. ASSUME NEW r \in Reqs, Probe(r) PROVE QueuesExact'
    <2> DEFINE rec == [req[r] EXCEPT !.offset = MatchOffset(r),
                         !.pba = table[Slot(idx(req[r].key), MatchOffset(r))].pba]
    <2>1. /\ get_next_request(r) /\ req_q' = ReqRest
          /\ \/ cb_keycmp(r, rec, log[rec.pba] = rec.key, RetryRest)
             \/ aio_read(r, rec)
      BY <1>0, <1>2 DEF Probe, dev_abs_read, ReqRecord
    <2>2. MatchOffset(r) \in Hops
      BY <1>2, MatchOffsetType DEF Probe
    <2>3. Slot(idx(req[r].key), MatchOffset(r)) \in Slots
      BY <1>0, <2>2, HashInRange, SlotArithmetic DEF ReqRecord
    <2>4. rec \in ReqRecord
      BY <1>0, <2>2, <2>3 DEF ReqRecord, TypeOK, Entries
    <2> HIDE DEF rec
    <2>5. PICK new : /\ req' = [req EXCEPT ![r] = new]
                     /\ \/ retry_q' = RetryRest
                        \/ retry_q' = Append(RetryRest, r) /\ new.st = "retried"
      <3>1. CASE cb_keycmp(r, rec, log[rec.pba] = rec.key, RetryRest)
        BY <2>4, <3>1, CallbackQueue
      <3>2. CASE aio_read(r, rec)
        BY <3>2 DEF aio_read
      <3> QED
        BY <2>1, <3>1, <3>2
    <2> QED
      BY <2>1, <2>5, HandledQueues
  <1>3. ASSUME NEW r \in Reqs, GetMiss(r) \/ SetMatched(r) \/ SetInsert(r)
        PROVE  QueuesExact'
    <2>1. PICK new : /\ req' = [req EXCEPT ![r] = new] /\ req_q' = ReqRest
                     /\ retry_q' = RetryRest /\ get_next_request(r)
      BY <1>3 DEF GetMiss, SetMatched, SetInsert, FillAndWrite
    <2> QED
      BY <2>1, HandledQueues
  <1>4. ASSUME NEW r \in Reqs, ReadDone(r) PROVE QueuesExact'
    <2>1. req_q' = req_q /\ req[r].st = "reading" /\ req[r] \in ReqRecord
          /\ \E match : cb_keycmp(r, req[r], match, retry_q)
      BY <1>0, <1>4 DEF ReadDone
    <2>2. PICK new : /\ req' = [req EXCEPT ![r] = new]
                     /\ \/ retry_q' = retry_q
                        \/ retry_q' = Append(retry_q, r) /\ new.st = "retried"
      BY <2>1, CallbackQueue
    <2>3. Absent(req_q, r) /\ Absent(retry_q, r)
      BY <1>0, <2>1, WaitsNot
    <2>4. req'[r] = new /\ \A x \in Reqs : x # r => req'[x] = req[x]
      BY <1>0, <2>2
    <2>5. Waits(req_q, req', "queued") /\ Waits(retry_q, req', "retried")
      BY <1>0, <2>3, <2>4, WaitsFrame
    <2>6. Waits(retry_q', req', "retried")
      <3>1. CASE retry_q' = retry_q
        BY <2>5, <3>1
      <3>2. CASE retry_q' = Append(retry_q, r) /\ new.st = "retried"
        <4>1. req'[r].st = "retried"
          BY <2>4, <3>2
        <4>2. retry_q \in Seq(Reqs)
          BY <1>0
        <4> QED
          BY <2>3, <2>5, <3>2, <4>1, <4>2, WaitsAppend
      <3> QED
        BY <2>2, <3>1, <3>2
    <2> QED
      BY <2>1, <2>5, <2>6 DEF QueuesExact
  <1>5. CASE UNCHANGED <<req, req_q, retry_q>>
    BY <1>0, <1>5 DEF QueuesExact
  <1>6. ASSUME NEW r \in Reqs, SetAbort(r) PROVE UNCHANGED <<req, req_q, retry_q>>
    BY <1>6 DEF SetAbort
  <1>7. ASSUME NEW s \in flushing, FlushDone(s) PROVE UNCHANGED <<req, req_q, retry_q>>
    BY <1>7 DEF FlushDone
  <1>8. CASE UNCHANGED vars
    BY <1>5, <1>8 DEF vars
  <1> QED
    BY <1>1, <1>2, <1>3, <1>4, <1>5, <1>6, <1>7, <1>8 DEF Next, Handler

\* A step that changes nothing but one request and the queues.
LEMMA RequestStep ==
    ASSUME TypeOK, CalmInv, NEW r \in Reqs, NEW new \in ReqRecord,
           req' = [req EXCEPT ![r] = new], table' = table, log' = log,
           Search(new, table, log)
    PROVE  CalmInv'
  <1>1. req \in [Reqs -> ReqRecord]
    BY DEF TypeOK
  <1>2. req'[r] = new /\ \A x \in Reqs : x # r => req'[x] = req[x]
    BY <1>1
  <1>3. \A x \in Reqs : Search(req'[x], table, log)
    BY <1>2 DEF CalmInv, SearchInv
  <1>4. SearchInv'
    BY <1>3 DEF SearchInv
  <1>5. OnceIn(table, log)' /\ KeptIn(table, log)'
    BY DEF CalmInv
  <1> QED
    BY <1>4, <1>5 DEF CalmInv

\* A step that leaves the index undisturbed keeps what holds until then.
LEMMA CalmStep ==
    ASSUME AtomicInv, TableInv', ~disturbed, ~disturbed', [Next]_vars
    PROVE  CalmInv'
  <1>0. /\ TypeOK /\ Placed(table, log) /\ UniqueIn(table, Slots) /\ QueuesExact
        /\ CalmInv /\ OnceIn(table, log) /\ KeptIn(table, log) /\ SearchInv
        /\ req \in [Reqs -> ReqRecord] /\ table \in [Slots -> Entries]
        /\ log \in Seq(Keys)
    BY TableInvIs DEF AtomicInv, CalmInv, TypeOK
  <1>1. Placed(table', log') /\ UniqueIn(table', Slots)
        /\ table' \in [Slots -> Entries]
    BY DEF TableInv, Neighbourhood, PbaUnique, Placed, UniqueIn, Owner, IsFree, TypeOK
  <1>2. ASSUME NEW r \in Reqs, NEW type \in {"GET", "SET"}, NEW k \in Keys,
               Submit(r, type, k)
        PROVE  CalmInv'
    <2> DEFINE new == [type |-> type, key |-> k, st |-> "queued", step |-> "INIT",
                       offset |-> 0, pba |-> 0, racy |-> FALSE,
                       floor |-> Len(log), val |-> 0]
    <2>1. req' = [req EXCEPT ![r] = new] /\ table' = table /\ log' = log
      BY <1>2 DEF Submit
    <2>2. new \in ReqRecord
      <3>1. Len(log) \in Nat /\ 0 \in Hops
        BY <1>0, TableAssumption DEF Hops
      <3> QED
        BY <3>1 DEF ReqRecord, States, Steps
    <2>3. new.st = "queued" /\ new.step = "INIT" /\ new.floor = Len(log)
      OBVIOUS
    <2> HIDE DEF new
    <2>4. Search(new, table, log)
      BY <1>0, <2>2, <2>3, RestSearch
    <2> QED
      BY <1>0, <2>1, <2>2, <2>4, RequestStep
  <1>3. ASSUME NEW r \in Reqs, Probe(r) PROVE CalmInv'
    <2>1. PICK new \in ReqRecord : /\ req' = [req EXCEPT ![r] = new]
                                   /\ Search(new, table, log)
      BY <1>3, ProbeEffect
    <2>2. table' = table /\ log' = log
      BY <1>3 DEF Probe
    <2> QED
      BY <1>0, <2>1, <2>2, RequestStep
  <1>4. ASSUME NEW r \in Reqs, GetMiss(r) PROVE CalmInv'
    <2>1. PICK new \in ReqRecord : /\ req' = [req EXCEPT ![r] = new]
                                   /\ Search(new, table, log)
      BY <1>4, MissEffect
    <2>2. table' = table /\ log' = log
      BY <1>4 DEF GetMiss
    <2> QED
      BY <1>0, <2>1, <2>2, RequestStep
  <1>5. ASSUME NEW r \in Reqs, SetMatched(r) \/ SetInsert(r) PROVE CalmInv'
    <2> DEFINE new == net_end_req(req[r], Len(log) + 1)
               k   == req[r].key
    <2>1. /\ log' = Append(log, k) /\ req' = [req EXCEPT ![r] = new]
      BY <1>5, SetEffect
    <2>2. PICK n \in Slots :
             /\ Updated(table, table', log, k, n)
             /\ \A q \in Reqs \ {r} : Expected(req[q], table, table', log, k, n)
      BY <1>5, SetEffect
    <2>3. k \in Keys /\ req[r] \in ReqRecord /\ Len(log) + 1 \in Nat
      BY <1>0 DEF ReqRecord
    <2>4. OnceIn(table', log') /\ KeptIn(table', log')
      BY <1>0, <1>1, <2>1, <2>2, <2>3, UpdatedKeeps
    <2>5. new \in ReqRecord /\ new.st = "idle" /\ new.floor = 0
      BY <2>3, EndedParts
    <2> HIDE DEF new, k
    <2>6. req'[r] = new /\ \A x \in Reqs : x # r => req'[x] = req[x]
      BY <1>0, <2>1
    <2>7. log' \in Seq(Keys)
      BY <1>0, <2>1, <2>3
    <2>8. Search(new, table', log')
      BY <2>5, <2>7, RestSearch
    <2>9. ASSUME NEW x \in Reqs, x # r PROVE Search(req'[x], table', log')
      <3>1. req[x] \in ReqRecord /\ Search(req[x], table, log)
        BY <1>0 DEF SearchInv
      <3>2. Expected(req[x], table, table', log, k, n)
        BY <2>2, <2>9
      <3>3. Search(req[x], table', Append(log, k))
        BY <1>0, <1>1, <2>2, <2>3, <3>1, <3>2, UpdatedSearch
      <3> QED
        BY <2>1, <2>6, <2>9, <3>3
    <2>10. \A x \in Reqs : Search(req'[x], table', log')
      BY <2>6, <2>8, <2>9
    <2>11. SearchInv'
      BY <2>10 DEF SearchInv
    <2>12. OnceIn(table, log)' /\ KeptIn(table, log)'
      BY <2>4 DEF OnceIn, KeptIn, Holds, IsFree
    <2> QED
      BY <2>11, <2>12 DEF CalmInv
  <1>6. ASSUME NEW r \in Reqs, ReadDone(r) PROVE CalmInv'
    <2>1. PICK new \in ReqRecord : /\ req' = [req EXCEPT ![r] = new]
                                   /\ Search(new, table, log)
      BY <1>6, ReadEffect
    <2>2. table' = table /\ log' = log
      BY <1>6 DEF ReadDone
    <2> QED
      BY <1>0, <2>1, <2>2, RequestStep
  <1>7. ASSUME UNCHANGED <<table, log, req>> PROVE CalmInv'
    <2>1. SearchInv'
      BY <1>0, <1>7 DEF SearchInv
    <2>2. OnceIn(table, log)' /\ KeptIn(table, log)'
      BY <1>0, <1>7
    <2> QED
      BY <2>1, <2>2 DEF CalmInv
  <1>8. ASSUME NEW r \in Reqs, SetAbort(r) PROVE CalmInv'
    BY <1>7, <1>8 DEF SetAbort
  <1>9. ASSUME NEW s \in flushing, FlushDone(s) PROVE CalmInv'
    BY <1>7, <1>9 DEF FlushDone
  <1>10. CASE UNCHANGED vars
    BY <1>7, <1>10 DEF vars
  <1> QED
    BY <1>2, <1>3, <1>4, <1>5, <1>6, <1>8, <1>9, <1>10 DEF Next, Handler

\* What was disturbed stays so.
LEMMA DisturbedStays ==
    ASSUME [Next]_vars, disturbed
    PROVE  disturbed'
  <1>1. ASSUME NEW r \in Reqs, Handler(r) PROVE disturbed'
    BY <1>1 DEF Handler, Probe, GetMiss, SetMatched, SetInsert, SetAbort
  <1>2. ASSUME NEW r \in Reqs, ReadDone(r) PROVE disturbed'
    BY <1>2 DEF ReadDone
  <1> QED
    BY <1>1, <1>2 DEF Next, Submit, FlushDone, vars

\* Every step keeps the invariant.
LEMMA AtomicStep ==
    ASSUME AtomicInv, [Next]_vars
    PROVE  AtomicInv'
  <1>1. TableInv'
    BY NextKeeps DEF AtomicInv
  <1>2. QueuesExact'
    BY TableInvIs, QueuesStep DEF AtomicInv
  <1>3. ASSUME ~disturbed' PROVE CalmInv'
    <2>1. ~disturbed
      BY <1>3, DisturbedStays
    <2> QED
      BY <1>1, <1>3, <2>1, CalmStep
  <1> QED
    BY <1>1, <1>2, <1>3 DEF AtomicInv

\* The invariant holds at first: nothing is stored and nothing searched for.
LEMMA AtomicInit == Init => AtomicInv
  <1> SUFFICES ASSUME Init PROVE AtomicInv
    OBVIOUS
  <1>1. TableInv /\ TypeOK
    BY InitTable DEF TableInv
  <1>2. log = << >> /\ Len(log) = 0 /\ log \in Seq(Keys)
        /\ req_q = << >> /\ retry_q = << >>
    BY DEF Init
  <1>3. QueuesExact
    BY <1>2 DEF QueuesExact, Waits
  <1>4. ASSUME NEW r \in Reqs
        PROVE  req[r].st = "idle" /\ req[r].floor = 0 /\ req[r] \in ReqRecord
    BY <1>1 DEF Init, TypeOK
  <1>5. SearchInv
    BY <1>2, <1>4, RestSearch DEF SearchInv
  <1>6. \A s \in Slots : IsFree(table, s)
    BY DEF Init, EmptyTable, IsFree
  <1>7. OnceIn(table, log) /\ KeptIn(table, log)
    BY <1>2, <1>6 DEF OnceIn, KeptIn, Holds
  <1> QED
    BY <1>1, <1>3, <1>5, <1>7 DEF AtomicInv, CalmInv

\* AtomicInv holds in every reachable state, with any number of SETs and GETs
\* in flight and reads that overtake writes: its part about keys and searches
\* up to the step that disturbs the index, the rest for ever.
THEOREM AtomicInvariant == Spec => []AtomicInv
  <1>1. AtomicInv /\ [Next]_vars => AtomicInv'
    BY AtomicStep
  <1> QED
    BY <1>1, AtomicInit, PTL DEF Spec

\* No key has two entries as long as no insertion takes another SET by
\* surprise: a SET inserts only after it has looked at every entry that could
\* be its key's, over all its rounds, whatever other SETs do between them.
THEOREM DuplicatesNever == Spec => []NoDuplicates
  <1>1. AtomicInv => NoDuplicates
    <2> SUFFICES ASSUME AtomicInv, ~disturbed, NEW s1 \in Slots, NEW s2 \in Slots,
                        ~IsFree(table, s1), ~IsFree(table, s2), Owner(s1) = Owner(s2)
                 PROVE  s1 = s2
      BY DEF NoDuplicates
    <2>1. Owner(s1) \in Keys
      BY TableInvIs DEF AtomicInv, Placed, TypeOK, Owner
    <2> QED
      BY <2>1 DEF AtomicInv, CalmInv, OnceIn, Holds, Owner
  <1> QED
    BY <1>1, AtomicInvariant, PTL

\* No acknowledged SET is lost, whatever is inserted, replaced and displaced
\* after it, up to the step that disturbs the index.
THEOREM SetsKept == Spec => []NoLostSet
  <1>1. AtomicInv => NoLostSet
    BY DEF AtomicInv, CalmInv, KeptIn, Holds, NoLostSet, Owner
  <1> QED
    BY <1>1, AtomicInvariant, PTL

\* What phase 1 of hopscotch_set says of its read can fail in no other way
\* than by a surprising insertion or an overtaking read: until then the slot
\* about to be overwritten holds the key.
THEOREM ConfirmedHolds == Spec => [](~disturbed => ConfirmedSlotHoldsKey)
  <1>1. AtomicInv => (~disturbed => ConfirmedSlotHoldsKey)
    <2> SUFFICES ASSUME AtomicInv, ~disturbed, NEW r \in Reqs,
                        req[r].st = "retried", req[r].step = "KEY_MATCH"
                 PROVE  LET s == Slot(idx(req[r].key), req[r].offset)
                        IN  ~IsFree(table, s) /\ Owner(s) = req[r].key
      BY DEF ConfirmedSlotHoldsKey
    <2>1. Search(req[r], table, log) /\ req[r].type \in {"GET", "SET"}
      BY TableInvIs DEF AtomicInv, CalmInv, SearchInv, TypeOK, ReqRecord
    <2>2. req[r].type = "SET"
      BY <2>1 DEF Search, Shape
    <2> QED
      BY <2>1, <2>2 DEF Search, Confirms, Holds, Owner
  <1> QED
    BY <1>1, AtomicInvariant, PTL

\* Up to the step that disturbs the index a GET reports "not existing key"
\* only for a key that no acknowledged SET had written when the GET was
\* accepted.
THEOREM MissesRight ==
    Spec => [][~disturbed => \A r \in Reqs : GetMiss(r) =>
                  \A v \in 1..req[r].floor : log[v] # req[r].key]_vars
  <1>1. AtomicInv /\ [Next]_vars
        => [~disturbed => \A r \in Reqs : GetMiss(r) =>
               \A v \in 1..req[r].floor : log[v] # req[r].key]_vars
    <2> SUFFICES ASSUME AtomicInv, ~disturbed, NEW r \in Reqs, GetMiss(r),
                        NEW v \in 1..req[r].floor
                 PROVE  log[v] # req[r].key
      OBVIOUS
    <2>1. PICK new \in ReqRecord : Answers(req[r], new, log) /\ new.val = 0
      BY MissEffect
    <2> QED
      BY <2>1 DEF Answers
  <1> QED
    BY <1>1, AtomicInvariant, PTL DEF Spec

-----------------------------------------------------------------------------
(* The key-value store. *)

\* What a client sees of a request, and of all of them: KVStore's op.
Shown(rec) == [type |-> rec.type, key |-> rec.key, pending |-> rec.st # "idle",
               floor |-> rec.floor, val |-> rec.val]

View(f) == [r \in Reqs |-> Shown(f[r])]

\* A change of one request is a change of what is seen of it.
LEMMA ViewChange ==
    ASSUME NEW f \in [Reqs -> ReqRecord], NEW r \in Reqs, NEW new,
           NEW g, g = [f EXCEPT ![r] = new]
    PROVE  View(g) = [View(f) EXCEPT ![r] = Shown(new)]
  BY DEF View

\* The refined variables.
LEMMA Refined ==
    /\ KV!KVInit <=>
          /\ log = << >>
          /\ View(req) \in [Reqs -> KV!OpRecord]
          /\ \A r \in Reqs : ~View(req)[r].pending /\ View(req)[r].floor = 0
                             /\ View(req)[r].val = 0
    /\ KV!kvVars = <<log, View(req)>>
  BY DEF KV!KVInit, KV!OpRecord, KV!kvVars, View, Shown

\* Steps of KVStore in terms of the view: an accepted request is a call.
LEMMA CallStep ==
    ASSUME NEW r \in Reqs, NEW type, NEW k, req[r].st = "idle", log' = log,
           View(req') = [View(req) EXCEPT ![r] =
                           [type |-> type, key |-> k, pending |-> TRUE,
                            floor |-> Len(log), val |-> 0]]
    PROVE  KV!Call(r, type, k)
  BY DEF KV!Call, View, Shown

\* A SET that ends commits.
LEMMA CommitStep ==
    ASSUME NEW r \in Reqs, req[r].st # "idle", req[r].type = "SET",
           log' = Append(log, req[r].key),
           View(req') = [View(req) EXCEPT ![r] =
                           [View(req)[r] EXCEPT !.pending = FALSE, !.floor = 0,
                                                !.val = Len(log) + 1]]
    PROVE  KV!CommitSet(r)
  BY DEF KV!CommitSet, KV!Answered, View, Shown

\* A GET that ends replies.
LEMMA ReplyStep ==
    ASSUME NEW r \in Reqs, req[r].st # "idle", req[r].type = "GET", log' = log,
           NEW v \in 0..Len(log),
           v = 0 \/ (v \in 1..Len(log) /\ log[v] = req[r].key),
           \A w \in (v + 1)..req[r].floor : log[w] # req[r].key,
           View(req') = [View(req) EXCEPT ![r] =
                           [View(req)[r] EXCEPT !.pending = FALSE, !.floor = 0,
                                                !.val = v]]
    PROVE  KV!ReplyGet(r)
  BY DEF KV!ReplyGet, KV!Current, KV!Answered, View, Shown

\* Operations are the same if their parts are.
LEMMA SameOp ==
    ASSUME NEW o1 \in KV!OpRecord, NEW o2 \in KV!OpRecord, o1.type = o2.type,
           o1.key = o2.key, o1.pending = o2.pending, o1.floor = o2.floor,
           o1.val = o2.val
    PROVE  o1 = o2
  BY DEF KV!OpRecord

\* What is seen of a request that was answered with v.
LEMMA ShownEnded ==
    ASSUME TypeOK, NEW r \in Reqs, NEW new \in ReqRecord, NEW v \in Nat,
           new.type = req[r].type, new.key = req[r].key, new.st = "idle",
           new.floor = 0, new.val = v
    PROVE  Shown(new) = [View(req)[r] EXCEPT !.pending = FALSE, !.floor = 0, !.val = v]
  <1> DEFINE o == View(req)[r]
             a == [o EXCEPT !.pending = FALSE, !.floor = 0, !.val = v]
             b == Shown(new)
  <1>1. o \in KV!OpRecord /\ o.type = req[r].type /\ o.key = req[r].key
    BY DEF TypeOK, View, Shown, KV!OpRecord, ReqRecord
  <1> HIDE DEF o
  <1>2. /\ a \in KV!OpRecord /\ a.type = o.type /\ a.key = o.key
        /\ a.floor = 0 /\ a.val = v
    BY <1>1 DEF KV!OpRecord
  <1>3. ~a.pending
    BY <1>1 DEF KV!OpRecord
  <1>4. /\ b \in KV!OpRecord /\ b.type = new.type /\ b.key = new.key
        /\ b.floor = new.floor /\ b.val = new.val
    BY DEF Shown, KV!OpRecord, ReqRecord
  <1>5. ~b.pending
    BY DEF Shown
  <1> HIDE DEF a, b
  <1>6. a.pending = b.pending
    BY <1>2, <1>3, <1>4, <1>5 DEF KV!OpRecord
  <1>7. a = b
    BY <1>1, <1>2, <1>4, <1>6, SameOp
  <1> QED
    BY <1>7 DEF a, b, o

\* An answer is a reply.
LEMMA AnswersReply ==
    ASSUME TypeOK, NEW r \in Reqs, NEW new \in ReqRecord, req[r].st # "idle",
           req' = [req EXCEPT ![r] = new], log' = log, Answers(req[r], new, log)
    PROVE  KV!ReplyGet(r)
  <1>1. req \in [Reqs -> ReqRecord] /\ Len(log) \in Nat
    BY DEF TypeOK
  <1>2. View(req') = [View(req) EXCEPT ![r] = Shown(new)]
    BY <1>1, ViewChange
  <1>3. /\ req[r].type = "GET" /\ new.type = req[r].type /\ new.key = req[r].key
        /\ new.st = "idle" /\ new.floor = 0 /\ new.val \in 0..Len(log)
        /\ new.val = 0 \/ (new.val \in 1..Len(log) /\ log[new.val] = req[r].key)
        /\ \A w \in (new.val + 1)..req[r].floor : log[w] # req[r].key
    BY <1>1 DEF Answers
  <1>4. Shown(new) = [View(req)[r] EXCEPT !.pending = FALSE, !.floor = 0,
                                          !.val = new.val]
    <2>1. new.val \in Nat
      BY DEF ReqRecord
    <2> QED
      BY <1>3, <2>1, ShownEnded
  <1> QED
    BY <1>2, <1>3, <1>4, ReplyStep

\* A request that goes on looks the same.
LEMMA GoesOnStutters ==
    ASSUME TypeOK, NEW r \in Reqs, NEW new, NEW st \in {"reading", "lost", "retried"},
           req[r].st # "idle", GoesOn(req[r], new, st),
           req' = [req EXCEPT ![r] = new]
    PROVE  View(req') = View(req)
  <1>1. req \in [Reqs -> ReqRecord]
    BY DEF TypeOK
  <1>2. View(req') = [View(req) EXCEPT ![r] = Shown(new)]
    BY <1>1, ViewChange
  <1>3. Shown(new) = Shown(req[r])
    BY DEF Shown, GoesOn
  <1>4. View(req)[r] = Shown(req[r])
    BY DEF View
  <1> QED
    BY <1>2, <1>3, <1>4 DEF View

\* Every step that does not disturb the index is a step of the store or changes
\* nothing that is seen.
LEMMA StoreStep ==
    ASSUME AtomicInv, ~disturbed, ~disturbed', [Next]_vars
    PROVE  KV!KVNext \/ (log' = log /\ View(req') = View(req))
  <1>0. /\ TypeOK /\ QueuesExact /\ req \in [Reqs -> ReqRecord]
    BY TableInvIs DEF AtomicInv, TypeOK
  <1>1. ASSUME NEW r \in Reqs, NEW type \in {"GET", "SET"}, NEW k \in Keys,
               Submit(r, type, k)
        PROVE  KV!KVNext
    <2> DEFINE new == [type |-> type, key |-> k, st |-> "queued", step |-> "INIT",
                       offset |-> 0, pba |-> 0, racy |-> FALSE,
                       floor |-> Len(log), val |-> 0]
    <2>1. req' = [req EXCEPT ![r] = new] /\ log' = log /\ req[r].st = "idle"
      BY <1>1 DEF Submit
    <2>2. Shown(new) = [type |-> type, key |-> k, pending |-> TRUE,
                        floor |-> Len(log), val |-> 0]
      BY DEF Shown
    <2> HIDE DEF new
    <2>3. View(req') = [View(req) EXCEPT ![r] = Shown(new)]
      BY <1>0, <2>1, ViewChange
    <2>4. KV!Call(r, type, k)
      BY <2>1, <2>2, <2>3, CallStep
    <2> QED
      BY <2>4 DEF KV!KVNext
  <1>2. ASSUME NEW r \in Reqs, NEW new \in ReqRecord,
               NEW st \in {"reading", "lost", "retried"}, req[r].st # "idle",
               req' = [req EXCEPT ![r] = new], log' = log,
               Answers(req[r], new, log) \/ GoesOn(req[r], new, st)
        PROVE  KV!KVNext \/ (log' = log /\ View(req') = View(req))
    <2>1. CASE Answers(req[r], new, log)
      <3>1. KV!ReplyGet(r)
        BY <1>0, <1>2, <2>1, AnswersReply
      <3> QED
        BY <3>1 DEF KV!KVNext
    <2>2. CASE GoesOn(req[r], new, st)
      BY <1>0, <1>2, <2>2, GoesOnStutters
    <2> QED
      BY <1>2, <2>1, <2>2
  <1>3. ASSUME NEW r \in Reqs, Probe(r)
        PROVE  KV!KVNext \/ (log' = log /\ View(req') = View(req))
    <2>1. PICK new \in ReqRecord :
              /\ req' = [req EXCEPT ![r] = new]
              /\ \/ Answers(req[r], new, log)
                 \/ \E st \in {"reading", "lost", "retried"} : GoesOn(req[r], new, st)
      BY <1>3, ProbeEffect
    <2>2. log' = log /\ req[r].st # "idle"
      BY <1>0, <1>3, Taken DEF Probe
    <2> QED
      BY <1>2, <2>1, <2>2
  <1>4. ASSUME NEW r \in Reqs, GetMiss(r)
        PROVE  KV!KVNext \/ (log' = log /\ View(req') = View(req))
    <2>1. PICK new \in ReqRecord :
              req' = [req EXCEPT ![r] = new] /\ Answers(req[r], new, log)
      BY <1>4, MissEffect
    <2>2. log' = log /\ req[r].st # "idle"
      BY <1>0, <1>4, Taken DEF GetMiss
    <2> QED
      BY <1>2, <2>1, <2>2
  <1>5. ASSUME NEW r \in Reqs, ReadDone(r)
        PROVE  KV!KVNext \/ (log' = log /\ View(req') = View(req))
    <2>1. PICK new \in ReqRecord :
              /\ req' = [req EXCEPT ![r] = new]
              /\ Answers(req[r], new, log) \/ GoesOn(req[r], new, "retried")
      BY <1>5, ReadEffect
    <2>2. log' = log /\ req[r].st # "idle"
      BY <1>5 DEF ReadDone
    <2> QED
      BY <1>2, <2>1, <2>2
  <1>6. ASSUME NEW r \in Reqs, SetMatched(r) \/ SetInsert(r)
        PROVE  KV!KVNext
    <2> DEFINE new == net_end_req(req[r], Len(log) + 1)
    <2>1. /\ req[r].type = "SET" /\ req[r].st # "idle"
          /\ log' = Append(log, req[r].key)
          /\ req' = [req EXCEPT ![r] = new]
      BY <1>6, SetEffect
    <2>2. req[r] \in ReqRecord /\ Len(log) + 1 \in Nat
      BY <1>0 DEF TypeOK
    <2>3. /\ new \in ReqRecord /\ new.type = req[r].type /\ new.key = req[r].key
          /\ new.st = "idle" /\ new.floor = 0 /\ new.val = Len(log) + 1
      BY <2>2, EndedParts
    <2> HIDE DEF new
    <2>4. View(req') = [View(req) EXCEPT ![r] = Shown(new)]
      BY <1>0, <2>1, ViewChange
    <2>5. Shown(new) = [View(req)[r] EXCEPT !.pending = FALSE, !.floor = 0,
                                            !.val = Len(log) + 1]
      BY <1>0, <2>2, <2>3, ShownEnded
    <2>6. KV!CommitSet(r)
      BY <2>1, <2>4, <2>5, CommitStep
    <2> QED
      BY <2>6 DEF KV!KVNext
  <1>7. CASE UNCHANGED <<log, req>>
    BY <1>7
  <1>8. ASSUME NEW r \in Reqs, SetAbort(r) PROVE UNCHANGED <<log, req>>
    BY <1>8 DEF SetAbort
  <1>9. ASSUME NEW s \in flushing, FlushDone(s) PROVE UNCHANGED <<log, req>>
    BY <1>9 DEF FlushDone
  <1> QED
    BY <1>1, <1>3, <1>4, <1>5, <1>6, <1>7, <1>8, <1>9 DEF Next, Handler, vars

\* The empty index is the empty store.
LEMMA StoreInit == Init => KV!KVInit
  <1> SUFFICES ASSUME Init PROVE KV!KVInit
    OBVIOUS
  <1>1. \A r \in Reqs : /\ req[r].st = "idle" /\ req[r].floor = 0 /\ req[r].val = 0
                        /\ req[r].type = "GET" /\ req[r].key \in Keys
    BY HopscotchAssumption DEF Init
  <1>2. \A r \in Reqs : Shown(req[r]) \in KV!OpRecord
    BY <1>1 DEF Shown, KV!OpRecord
  <1>3. View(req) \in [Reqs -> KV!OpRecord]
    BY <1>2 DEF View
  <1>4. \A r \in Reqs : ~View(req)[r].pending /\ View(req)[r].floor = 0
                        /\ View(req)[r].val = 0
    BY <1>1 DEF View, Shown
  <1>5. log = << >>
    BY DEF Init
  <1> QED
    BY <1>3, <1>4, <1>5, Refined

\* With any number of SETs and GETs in flight, the hopscotch index is an atomic
\* key-value store up to the step that disturbs it.
THEOREM IsKVStore == Spec => ImplementsKVStore
  <1>1. AtomicInv /\ [Next]_vars => [disturbed' \/ KV!KVNext]_(KV!kvVars)
    <2> SUFFICES ASSUME AtomicInv, [Next]_vars, ~disturbed'
                 PROVE  KV!KVNext \/ KV!kvVars' = KV!kvVars
      OBVIOUS
    <2>1. ~disturbed
      BY DisturbedStays
    <2>2. KV!KVNext \/ (log' = log /\ View(req') = View(req))
      BY <2>1, StoreStep
    <2>3. (log' = log /\ View(req') = View(req)) => KV!kvVars' = KV!kvVars
      BY DEF KV!kvVars, View, Shown
    <2> QED
      BY <2>2, <2>3
  <1> QED
    BY <1>1, StoreInit, AtomicInvariant, PTL DEF Spec, ImplementsKVStore
=============================================================================
