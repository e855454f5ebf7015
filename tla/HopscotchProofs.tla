--------------------------- MODULE HopscotchProofs ---------------------------
(***************************************************************************)
(* Proofs about the hopscotch index, for every number of slots, every      *)
(* neighbourhood size, every hash function and any number of concurrent    *)
(* SETs and GETs.                                                          *)
(*                                                                         *)
(* The inductive invariant is TableInv: the types, Neighbourhood and       *)
(* PbaUnique together.  Neither of the last two is inductive alone:        *)
(* displacement copies an entry to a slot computed from its recorded       *)
(* distance (so Neighbourhood needs that distance to be right), and the    *)
(* new address is unused because no entry points past the end of the log   *)
(* (so PbaUnique needs Neighbourhood).                                     *)
(***************************************************************************)
EXTENDS Hopscotch, WellFoundedInduction, TLAPS

TableInv == TypeOK /\ Neighbourhood /\ PbaUnique

-----------------------------------------------------------------------------
(* Smallest and largest elements. *)

\* A non-empty set of naturals has a smallest element, the one Min chooses.
LEMMA MinInSet ==
    ASSUME NEW S \in SUBSET Nat, S # {}
    PROVE  Min(S) \in S /\ \A y \in S : Min(S) <= y
  <1>1. PICK x \in S : \A y \in S : ~(<<y, x>> \in OpToRel(<, Nat))
    BY NatLessThanWellFounded, WFMin
  <1>2. ASSUME NEW y \in S PROVE x <= y
    <2>1. ~(y < x)
      BY <1>1 DEF OpToRel
    <2> QED
      BY <2>1
  <1> QED
    BY <1>2 DEF Min

\* A non-empty set of naturals below a bound has a largest element, the one
\* Max chooses.
LEMMA MaxInSet ==
    ASSUME NEW n \in Nat, NEW S \in SUBSET (0..n), S # {}
    PROVE  Max(S) \in S /\ \A y \in S : Max(S) >= y
  <1> DEFINE T == {n - y : y \in S}
  <1>1. T \in SUBSET Nat /\ T # {}
    <2>1. ASSUME NEW y \in S PROVE n - y \in Nat
      OBVIOUS
    <2> QED
      BY <2>1
  <1>2. Min(T) \in T /\ \A z \in T : Min(T) <= z
    BY <1>1, MinInSet
  <1>3. PICK x \in S : Min(T) = n - x
    BY <1>2
  <1>4. \A y \in S : x >= y
    <2> TAKE y \in S
    <2>1. n - y \in T
      OBVIOUS
    <2>2. n - x <= n - y
      BY <1>2, <1>3, <2>1
    <2> QED
      BY <2>2
  <1> QED
    BY <1>4 DEF Max

-----------------------------------------------------------------------------
(* Slots. *)

\* A neighbourhood wraps round inside the table and has no slot twice.
LEMMA SlotArithmetic ==
    ASSUME NEW i \in Slots
    PROVE  /\ \A o \in Hops : Slot(i, o) \in Slots
           /\ \A o \in Hops : (NR_ENTRY + Slot(i, o) - o) % NR_ENTRY = i
           /\ \A o1, o2 \in Hops : Slot(i, o1) = Slot(i, o2) => o1 = o2
  <1>1. ASSUME NEW o \in Hops
        PROVE  Slot(i, o) = IF i + o < NR_ENTRY THEN i + o ELSE i + o - NR_ENTRY
    BY TableAssumption DEF Slot, Slots, Hops
  <1>2. i % NR_ENTRY = i /\ (i + NR_ENTRY) % NR_ENTRY = i
    BY TableAssumption DEF Slots
  <1>3. ASSUME NEW o \in Hops
        PROVE  (NR_ENTRY + Slot(i, o) - o) % NR_ENTRY = i
    <2>1. CASE i + o < NR_ENTRY
      <3>1. NR_ENTRY + Slot(i, o) - o = i + NR_ENTRY
        BY <1>1, <2>1, TableAssumption DEF Slots, Hops
      <3> QED
        BY <1>2, <3>1
    <2>2. CASE ~(i + o < NR_ENTRY)
      <3>1. NR_ENTRY + Slot(i, o) - o = i
        BY <1>1, <2>2, TableAssumption DEF Slots, Hops
      <3> QED
        BY <1>2, <3>1
    <2> QED
      BY <2>1, <2>2
  <1>4. \A o \in Hops : Slot(i, o) \in Slots
    BY <1>1, TableAssumption DEF Slots, Hops
  <1>5. \A o1, o2 \in Hops : Slot(i, o1) = Slot(i, o2) => o1 = o2
    BY <1>1, TableAssumption DEF Slots, Hops
  <1> QED
    BY <1>3, <1>4, <1>5

\* Home slot and tag of a key are in range.
LEMMA HashInRange ==
    ASSUME NEW k \in Keys
    PROVE  idx(k) \in Slots /\ tag(k) \in Tags
  <1>1. Hash[k] \in Nat /\ NR_ENTRY \in Nat \ {0}
    BY TableAssumption
  <1>2. idx(k) \in Slots
    BY <1>1 DEF idx, Slots
  <1>3. Hash[k] \div NR_ENTRY \in Int
    BY <1>1
  <1>4. tag(k) \in Tags
    BY <1>3 DEF tag, Tags
  <1> QED
    BY <1>2, <1>4

-----------------------------------------------------------------------------
(* The functions of the table. *)

\* find_matching_tag returns an offset of the neighbourhood or -1.
LEMMA MatchInRange ==
    ASSUME NEW t, NEW i, NEW off \in Nat, NEW tg
    PROVE  LET m == find_matching_tag(t, i, off, tg)
           IN  m = -1 \/ (m \in Hops /\ m >= off /\ t[Slot(i, m)].key_fp_tag = tg)
  <1> DEFINE M == {o \in off..(MAX_HOP - 1) : t[Slot(i, o)].key_fp_tag = tg}
  <1>1. CASE M = {}
    BY <1>1 DEF find_matching_tag
  <1>2. CASE M # {}
    <2>1. M \in SUBSET Nat
      OBVIOUS
    <2>2. Min(M) \in M
      BY <1>2, <2>1, MinInSet
    <2>3. find_matching_tag(t, i, off, tg) = Min(M)
      BY <1>2 DEF find_matching_tag
    <2> QED
      BY <2>2, <2>3, TableAssumption DEF Hops
  <1> QED
    BY <1>1, <1>2

\* fill_entry keeps the table a table and changes one slot.
LEMMA FillEntry ==
    ASSUME NEW t \in [Slots -> Entries], NEW s \in Slots, NEW off \in Hops,
           NEW tg \in Tags, NEW p \in Nat
    PROVE  LET u == fill_entry(t, s, off, tg, p)
           IN  /\ u \in [Slots -> Entries]
               /\ u[s] = [neigh_off |-> off, key_fp_tag |-> tg, pba |-> p]
               /\ \A s2 \in Slots : s2 # s => u[s2] = t[s2]
  BY DEF fill_entry, Entries

\* u is t with the entry of slot s copied to a free slot farther from the
\* entry's home.
Displaced(t, u, s) ==
    \E d \in Hops :
        /\ d > t[s].neigh_off
        /\ IsFree(t, Slot(ori_idx(t, s), d))
        /\ u = fill_entry(t, Slot(ori_idx(t, s), d), d, t[s].key_fp_tag, t[s].pba)

\* The nearest offset to which an entry can go is farther from its home.
LEMMA NearestOff ==
    ASSUME NEW t \in [Slots -> Entries], NEW s \in Slots, DisplaceOffs(t, s) # {}
    PROVE  LET d == Min(DisplaceOffs(t, s))
           IN  d \in Hops /\ d > t[s].neigh_off /\ IsFree(t, Slot(ori_idx(t, s), d))
  <1>1. t[s].neigh_off \in Hops
    BY DEF Entries
  <1>2. DisplaceOffs(t, s) \in SUBSET Nat
    BY <1>1, TableAssumption DEF DisplaceOffs, Hops
  <1>3. Min(DisplaceOffs(t, s)) \in DisplaceOffs(t, s)
    BY <1>2, MinInSet
  <1> QED
    BY <1>1, <1>3, TableAssumption DEF DisplaceOffs, Hops

\* What find_free_entry gives: nothing; a free slot of the neighbourhood; or
\* a used slot of it whose entry has just been copied away.
LEMMA FreeEntry ==
    ASSUME NEW t \in [Slots -> Entries], NEW i \in Slots
    PROVE  LET f == find_free_entry(t, i)
               s == Slot(i, f.offset)
           IN  \/ f.offset = -1
               \/ f.offset \in Hops /\ IsFree(t, s) /\ f.table = t
               \/ f.offset \in Hops /\ ~IsFree(t, s) /\ Displaced(t, f.table, s)
  <1> DEFINE f == find_free_entry(t, i)
             F == {o \in Hops : IsFree(t, Slot(i, o))}
             M == {o \in Hops : DisplaceOffs(t, Slot(i, o)) # {}}
  <1>1. CASE F # {}
    <2>1. F \in SUBSET Nat
      BY DEF Hops
    <2>2. Min(F) \in F
      BY <1>1, <2>1, MinInSet
    <2>3. f = [offset |-> Min(F), table |-> t]
      BY <1>1 DEF find_free_entry
    <2> QED
      BY <2>2, <2>3
  <1>2. CASE F = {} /\ M = {}
    BY <1>2 DEF find_free_entry, make_free_entry
  <1>3. CASE F = {} /\ M # {}
    <2> DEFINE o == Max(M)
               s == Slot(i, o)
               D == DisplaceOffs(t, s)
               d == Min(D)
    <2>1. o \in M
      <3>1. M \in SUBSET (0..(MAX_HOP - 1)) /\ MAX_HOP - 1 \in Nat
        BY TableAssumption DEF Hops
      <3> QED
        BY <1>3, <3>1, MaxInSet
    <2>2. o \in Hops /\ D # {} /\ ~IsFree(t, s)
      BY <1>3, <2>1
    <2>3. s \in Slots
      BY <2>2, SlotArithmetic
    <2>4. d \in Hops /\ d > t[s].neigh_off /\ IsFree(t, Slot(ori_idx(t, s), d))
      BY <2>2, <2>3, NearestOff
    <2>5. f = [offset |-> o,
               table  |-> fill_entry(t, Slot(ori_idx(t, s), d), d,
                                     t[s].key_fp_tag, t[s].pba)]
      BY <1>3 DEF find_free_entry, make_free_entry
    <2>6. f.offset = o
          /\ f.table = fill_entry(t, Slot(ori_idx(t, s), d), d,
                                  t[s].key_fp_tag, t[s].pba)
      BY <2>5
    <2> HIDE DEF f, s, d
    <2>7. Displaced(t, f.table, s)
      BY <2>4, <2>6 DEF Displaced
    <2> USE DEF f, s
    <2> QED
      BY <2>2, <2>6, <2>7
  <1> QED
    BY <1>1, <1>2, <1>3

-----------------------------------------------------------------------------
(* The invariant as a relation between a table and a log. *)

Placed(t, l) ==
    \A s \in Slots : ~IsFree(t, s) =>
        /\ t[s].pba \in 1..Len(l)
        /\ s = Slot(idx(l[t[s].pba]), t[s].neigh_off)
        /\ t[s].key_fp_tag = tag(l[t[s].pba])

\* No address is in two of the slots S.
UniqueIn(t, S) ==
    \A s1, s2 \in S : ~IsFree(t, s1) /\ t[s1].pba = t[s2].pba => s1 = s2

\* Pointing one slot of a key's neighbourhood at the pair just appended keeps
\* every entry in its place and, if all other slots were, all addresses
\* distinct.
LEMMA FillKeeps ==
    ASSUME NEW t \in [Slots -> Entries], NEW l \in Seq(Keys), NEW k \in Keys,
           NEW off \in Hops, Placed(t, l),
           UniqueIn(t, Slots \ {Slot(idx(k), off)})
    PROVE  LET u == fill_entry(t, Slot(idx(k), off), off, tag(k), Len(l) + 1)
           IN  /\ u \in [Slots -> Entries]
               /\ Placed(u, Append(l, k))
               /\ UniqueIn(u, Slots)
  <1> DEFINE n == Slot(idx(k), off)
             u == fill_entry(t, n, off, tag(k), Len(l) + 1)
  <1>0. /\ idx(k) \in Slots /\ tag(k) \in Tags /\ n \in Slots
        /\ Len(l) + 1 \in Nat
    BY HashInRange, SlotArithmetic
  <1>1. /\ u \in [Slots -> Entries]
        /\ u[n] = [neigh_off |-> off, key_fp_tag |-> tag(k), pba |-> Len(l) + 1]
        /\ \A s \in Slots : s # n => u[s] = t[s]
    BY <1>0, FillEntry
  <1>2. /\ Len(Append(l, k)) = Len(l) + 1
        /\ Append(l, k)[Len(l) + 1] = k
        /\ \A p \in 1..Len(l) : Append(l, k)[p] = l[p]
    OBVIOUS
  <1> HIDE DEF n, u
  <1>3. Placed(u, Append(l, k))
    <2> SUFFICES ASSUME NEW s \in Slots, ~IsFree(u, s)
                 PROVE  /\ u[s].pba \in 1..Len(Append(l, k))
                        /\ s = Slot(idx(Append(l, k)[u[s].pba]), u[s].neigh_off)
                        /\ u[s].key_fp_tag = tag(Append(l, k)[u[s].pba])
      BY DEF Placed
    <2>1. CASE s = n
      BY <1>0, <1>1, <1>2, <2>1 DEF n
    <2>2. CASE s # n
      <3>1. /\ u[s] = t[s] /\ t[s].pba \in 1..Len(l)
            /\ s = Slot(idx(l[t[s].pba]), t[s].neigh_off)
            /\ t[s].key_fp_tag = tag(l[t[s].pba])
        BY <1>1, <2>2 DEF Placed, IsFree
      <3> QED
        BY <1>2, <3>1
    <2> QED
      BY <2>1, <2>2
  <1>4. UniqueIn(u, Slots)
    <2> SUFFICES ASSUME NEW s1 \in Slots, NEW s2 \in Slots,
                        ~IsFree(u, s1), u[s1].pba = u[s2].pba
                 PROVE  s1 = s2
      BY DEF UniqueIn
    <2>1. \A s \in Slots : s # n => u[s].pba # Len(l) + 1
      BY <1>0, <1>1 DEF Placed, IsFree, PBA_INVALID
    <2>2. CASE s1 = n
      BY <1>1, <2>1, <2>2
    <2>3. CASE s2 = n
      BY <1>1, <2>1, <2>3
    <2>4. CASE s1 # n /\ s2 # n
      BY <1>1, <2>4 DEF UniqueIn, IsFree, n
    <2> QED
      BY <2>2, <2>3, <2>4
  <1> QED
    BY <1>1, <1>3, <1>4 DEF n, u

\* Copying an entry away keeps every entry in its place; the only address in
\* two slots is the one in the slot about to be filled.
LEMMA DisplaceKeeps ==
    ASSUME NEW t \in [Slots -> Entries], NEW l \in Seq(Keys), NEW u,
           NEW s \in Slots, Placed(t, l), UniqueIn(t, Slots),
           ~IsFree(t, s), Displaced(t, u, s)
    PROVE  /\ u \in [Slots -> Entries]
           /\ Placed(u, l)
           /\ UniqueIn(u, Slots \ {s})
  <1> DEFINE h == ori_idx(t, s)
             k == l[t[s].pba]
  <1>1. /\ t[s].neigh_off \in Hops /\ t[s].key_fp_tag \in Tags /\ t[s].pba \in Nat
        /\ t[s].pba \in 1..Len(l)
        /\ s = Slot(idx(k), t[s].neigh_off) /\ t[s].key_fp_tag = tag(k)
    BY DEF Entries, Placed
  <1>2. k \in Keys /\ idx(k) \in Slots
    BY <1>1, HashInRange
  <1>3. h = idx(k)
    BY <1>1, <1>2, SlotArithmetic DEF ori_idx
  <1>4. PICK d \in Hops :
             /\ d > t[s].neigh_off
             /\ IsFree(t, Slot(h, d))
             /\ u = fill_entry(t, Slot(h, d), d, t[s].key_fp_tag, t[s].pba)
    BY DEF Displaced
  <1> DEFINE n == Slot(h, d)
  <1>5. n \in Slots /\ n # s
    BY <1>2, <1>3, <1>4, SlotArithmetic
  <1>6. /\ u \in [Slots -> Entries]
        /\ u[n] = [neigh_off |-> d, key_fp_tag |-> t[s].key_fp_tag, pba |-> t[s].pba]
        /\ \A s2 \in Slots : s2 # n => u[s2] = t[s2]
    BY <1>1, <1>4, <1>5, FillEntry
  <1>7. n = Slot(idx(k), d)
    BY <1>3
  <1> HIDE DEF h, n
  <1>8. Placed(u, l)
    <2> SUFFICES ASSUME NEW x \in Slots, ~IsFree(u, x)
                 PROVE  /\ u[x].pba \in 1..Len(l)
                        /\ x = Slot(idx(l[u[x].pba]), u[x].neigh_off)
                        /\ u[x].key_fp_tag = tag(l[u[x].pba])
      BY DEF Placed
    <2>1. CASE x = n
      BY <1>1, <1>6, <1>7, <2>1
    <2>2. CASE x # n
      BY <1>6, <2>2 DEF Placed, IsFree
    <2> QED
      BY <2>1, <2>2
  <1>9. UniqueIn(u, Slots \ {s})
    BY <1>5, <1>6 DEF UniqueIn, IsFree
  <1> QED
    BY <1>6, <1>8, <1>9

-----------------------------------------------------------------------------
(* The steps of the system. *)

\* TableInv in terms of the relations above.
LEMMA TableInvIs ==
    TableInv <=> TypeOK /\ Placed(table, log) /\ UniqueIn(table, Slots)
  BY DEF TableInv, Neighbourhood, PbaUnique, Placed, UniqueIn, Owner

\* The request get_next_request takes is a request, and what it leaves in the
\* two queues are queues.
LEMMA NextRequest ==
    ASSUME TypeOK, NEW r \in Reqs, get_next_request(r)
    PROVE  ReqRest \in Seq(Reqs) /\ RetryRest \in Seq(Reqs)
  BY DEF TypeOK, get_next_request, ReqRest, RetryRest

\* A request that net_end_req has ended is a request of the pool again.
LEMMA EndedRequest ==
    ASSUME NEW rec \in ReqRecord, NEW v \in Nat
    PROVE  net_end_req(rec, v) \in ReqRecord
  <1>1. 0 \in Hops
    BY TableAssumption DEF Hops
  <1> QED
    BY <1>1 DEF net_end_req, ReqRecord, States, Steps

\* The callback of a read keeps the types.
LEMMA CallbackType ==
    ASSUME TypeOK, NEW r \in Reqs, NEW rec \in ReqRecord, NEW match \in BOOLEAN,
           NEW q \in Seq(Reqs), cb_keycmp(r, rec, match, q)
    PROVE  req' \in [Reqs -> ReqRecord] /\ retry_q' \in Seq(Reqs)
  <1>1. rec.pba \in Nat /\ net_end_req(rec, rec.pba) \in ReqRecord
    BY EndedRequest DEF ReqRecord
  <1>2. [rec EXCEPT !.st = "retried", !.pba = 0, !.racy = FALSE,
                    !.step = IF match THEN "KEY_MATCH" ELSE "KEY_MISMATCH"]
            \in ReqRecord
    BY DEF ReqRecord, States, Steps
  <1>3. req \in [Reqs -> ReqRecord]
    BY DEF TypeOK
  <1>4. retry_req_to_hlr(r, q) \in Seq(Reqs)
    BY DEF retry_req_to_hlr
  <1>5. CASE match /\ rec.type = "GET"
    BY <1>1, <1>3, <1>5 DEF cb_keycmp
  <1>6. CASE ~(match /\ rec.type = "GET")
    BY <1>2, <1>3, <1>4, <1>6 DEF cb_keycmp
  <1> QED
    BY <1>5, <1>6

\* A search position is an offset of the neighbourhood or -1.
LEMMA MatchOffsetType ==
    ASSUME TypeOK, NEW r \in Reqs
    PROVE  MatchOffset(r) \in Hops \cup {-1}
  <1> DEFINE off == IF req[r].step = "KEY_MISMATCH" THEN req[r].offset + 1 ELSE 0
  <1>1. req[r].offset \in Hops
    BY DEF TypeOK, ReqRecord
  <1>2. off \in Nat
    BY <1>1 DEF Hops
  <1> HIDE DEF off
  <1>3. find_matching_tag(table, idx(req[r].key), off, tag(req[r].key))
            \in Hops \cup {-1}
    BY <1>2, MatchInRange
  <1> QED
    BY <1>3 DEF MatchOffset, off

\* Phase 3 of hopscotch_set, on a table t that differs from the current one by
\* at most a displacement out of the slot it fills.
LEMMA FillStep ==
    ASSUME TypeOK, NEW r \in Reqs, get_next_request(r),
           NEW t \in [Slots -> Entries], NEW off \in Hops, Placed(t, log),
           UniqueIn(t, Slots \ {Slot(idx(req[r].key), off)}),
           FillAndWrite(r, t, off), UNCHANGED aborted, disturbed' \in BOOLEAN
    PROVE  TypeOK' /\ Placed(table', log') /\ UniqueIn(table', Slots)
  <1> DEFINE k == req[r].key
  <1>1. /\ req \in [Reqs -> ReqRecord] /\ req[r] \in ReqRecord
        /\ k \in Keys /\ log \in Seq(Keys) /\ Len(log) + 1 \in Nat
    BY DEF TypeOK, ReqRecord
  <1>2. /\ table' = fill_entry(t, Slot(idx(k), off), off, tag(k), Len(log) + 1)
        /\ log' = Append(log, k)
        /\ req' = [req EXCEPT ![r] = net_end_req(req[r], Len(log) + 1)]
        /\ req_q' = ReqRest /\ retry_q' = RetryRest
    BY DEF FillAndWrite, get_next_pba
  <1>3. /\ table' \in [Slots -> Entries] /\ Placed(table', log')
        /\ UniqueIn(table', Slots)
    BY <1>1, <1>2, FillKeeps
  <1>4. log' \in Seq(Keys)
    BY <1>1, <1>2
  <1>5. req' \in [Reqs -> ReqRecord]
    BY <1>1, <1>2, EndedRequest
  <1>6. req_q' \in Seq(Reqs) /\ retry_q' \in Seq(Reqs)
    BY <1>2, NextRequest
  <1>7. flushing' \in SUBSET Nat
    <2>1. CASE Len(log) > 0
      <3>1. Len(log) - 1 \in Nat /\ SEGMENT_PAIRS \in Nat \ {0}
        BY <1>1, <2>1, HopscotchAssumption
      <3>2. Segment(Len(log)) \in Nat
        BY <3>1 DEF Segment
      <3> QED
        BY <3>2 DEF TypeOK, FillAndWrite, get_next_pba, aio_write
    <2>2. CASE ~(Len(log) > 0)
      BY <2>2 DEF TypeOK, FillAndWrite, get_next_pba
    <2> QED
      BY <2>1, <2>2
  <1> QED
    BY <1>3, <1>4, <1>5, <1>6, <1>7 DEF TypeOK

\* hopscotch_set and hopscotch_get keep the invariant.
LEMMA HandlerKeeps ==
    ASSUME TableInv, NEW r \in Reqs, Handler(r)
    PROVE  TableInv'
  <1>0. /\ TypeOK /\ Placed(table, log) /\ UniqueIn(table, Slots)
        /\ table \in [Slots -> Entries] /\ log \in Seq(Keys)
        /\ req \in [Reqs -> ReqRecord] /\ req[r] \in ReqRecord
        /\ req[r].key \in Keys /\ idx(req[r].key) \in Slots
    BY TableInvIs, HashInRange DEF TypeOK, ReqRecord
  <1> SUFFICES TypeOK' /\ Placed(table', log') /\ UniqueIn(table', Slots)
    BY DEF TableInv, Neighbourhood, PbaUnique, Placed, UniqueIn, Owner, IsFree
  <1>1. CASE Probe(r)
    <2> DEFINE off == MatchOffset(r)
               p   == table[Slot(idx(req[r].key), off)].pba
               rec == [req[r] EXCEPT !.offset = off, !.pba = p]
    <2>1. off \in Hops /\ ReqRest \in Seq(Reqs) /\ RetryRest \in Seq(Reqs)
      BY <1>0, <1>1, MatchOffsetType, NextRequest DEF Probe
    <2>2. Slot(idx(req[r].key), off) \in Slots
      BY <1>0, <2>1, SlotArithmetic
    <2>3. p \in Nat
      BY <1>0, <2>2 DEF Entries
    <2> HIDE DEF off, p
    <2>4. rec \in ReqRecord
      BY <1>0, <2>1, <2>3 DEF ReqRecord
    <2>5. req' \in [Reqs -> ReqRecord] /\ retry_q' \in Seq(Reqs)
      <3>0. dev_abs_read(r, off)
        BY <1>1 DEF Probe, off
      <3>1. CASE is_staged(p)
        <4>1. cb_keycmp(r, rec, log[p] = rec.key, RetryRest)
          BY <3>0, <3>1 DEF dev_abs_read, p
        <4>2. (log[p] = rec.key) \in BOOLEAN
          OBVIOUS
        <4> QED
          BY <1>0, <2>1, <2>4, <4>1, <4>2, CallbackType
      <3>2. CASE ~is_staged(p)
        <4> DEFINE x == /\ StaleReads /\ rec.pba # PBA_INVALID
                        /\ Segment(rec.pba) \in flushing
        <4>1. PICK st \in {"reading", "lost"} :
                   req' = [req EXCEPT ![r] = [rec EXCEPT !.st = st, !.racy = x]]
                   /\ retry_q' = RetryRest
          BY <3>0, <3>2 DEF dev_abs_read, aio_read, p
        <4>2. x \in BOOLEAN
          BY HopscotchAssumption
        <4> HIDE DEF x
        <4>3. [rec EXCEPT !.st = st, !.racy = x] \in ReqRecord
          BY <2>4, <4>2 DEF ReqRecord, States
        <4> QED
          BY <1>0, <2>1, <4>1, <4>3
      <3> QED
        BY <3>1, <3>2
    <2>6. /\ req_q' = ReqRest /\ table' = table /\ log' = log
          /\ flushing' = flushing /\ aborted' = aborted /\ disturbed' = disturbed
      BY <1>1 DEF Probe
    <2> QED
      BY <1>0, <2>1, <2>5, <2>6 DEF TypeOK
  <1>2. CASE GetMiss(r)
    <2>1. ReqRest \in Seq(Reqs) /\ RetryRest \in Seq(Reqs)
      BY <1>0, <1>2, NextRequest DEF GetMiss
    <2>2. req' \in [Reqs -> ReqRecord]
      BY <1>0, <1>2, EndedRequest DEF GetMiss
    <2> QED
      BY <1>0, <1>2, <2>1, <2>2 DEF GetMiss, TypeOK
  <1>3. CASE SetMatched(r)
    <2>1. req[r].offset \in Hops
      BY <1>0 DEF ReqRecord
    <2>2. UniqueIn(table, Slots \ {Slot(idx(req[r].key), req[r].offset)})
      BY <1>0 DEF UniqueIn
    <2>3. UNCHANGED aborted /\ disturbed' \in BOOLEAN
      BY <1>0, <1>3 DEF SetMatched, TypeOK
    <2> QED
      BY <1>0, <1>3, <2>1, <2>2, <2>3, FillStep DEF SetMatched
  <1>4. CASE SetInsert(r)
    <2> DEFINE f == find_free_entry(table, idx(req[r].key))
               s == Slot(idx(req[r].key), f.offset)
    <2>1. /\ get_next_request(r) /\ f.offset # -1
          /\ FillAndWrite(r, f.table, f.offset) /\ UNCHANGED aborted
          /\ disturbed' \in BOOLEAN
      BY <1>4 DEF SetInsert
    <2>2. \/ f.offset \in Hops /\ IsFree(table, s) /\ f.table = table
          \/ f.offset \in Hops /\ ~IsFree(table, s) /\ Displaced(table, f.table, s)
      BY <1>0, <2>1, FreeEntry
    <2> HIDE DEF f
    <2>3. f.offset \in Hops /\ s \in Slots
      BY <1>0, <2>2, SlotArithmetic
    <2>4. /\ f.table \in [Slots -> Entries]
          /\ Placed(f.table, log)
          /\ UniqueIn(f.table, Slots \ {s})
      <3>1. CASE f.table = table
        BY <1>0, <3>1 DEF UniqueIn
      <3>2. CASE ~IsFree(table, s) /\ Displaced(table, f.table, s)
        BY <1>0, <2>3, <3>2, DisplaceKeeps
      <3> QED
        BY <2>2, <3>1, <3>2
    <2> QED
      BY <1>0, <2>1, <2>3, <2>4, FillStep
  <1>5. CASE SetAbort(r)
    BY <1>0, <1>5 DEF SetAbort, TypeOK
  <1> QED
    BY <1>1, <1>2, <1>3, <1>4, <1>5 DEF Handler

\* Every step keeps the invariant.
LEMMA NextKeeps == TableInv /\ [Next]_vars => TableInv'
  <1> SUFFICES ASSUME TableInv, [Next]_vars PROVE TableInv'
    OBVIOUS
  <1>0. /\ TypeOK /\ Placed(table, log) /\ UniqueIn(table, Slots)
        /\ req \in [Reqs -> ReqRecord] /\ retry_q \in Seq(Reqs)
    BY TableInvIs DEF TypeOK
  <1>1. ASSUME TypeOK', table' = table, log' = log
        PROVE  TableInv'
    BY <1>0, <1>1 DEF TableInv, Neighbourhood, PbaUnique, Placed, UniqueIn, Owner
  <1>2. ASSUME NEW r \in Reqs, NEW type \in {"GET", "SET"}, NEW k \in Keys,
               Submit(r, type, k)
        PROVE  TableInv'
    <2>1. Len(log) \in Nat
      BY <1>0 DEF TypeOK
    <2>2. [type |-> type, key |-> k, st |-> "queued", step |-> "INIT", offset |-> 0,
           pba |-> 0, racy |-> FALSE, floor |-> Len(log), val |-> 0] \in ReqRecord
      BY <2>1, TableAssumption DEF ReqRecord, States, Steps, Hops
    <2>3. req' \in [Reqs -> ReqRecord] /\ req_q' \in Seq(Reqs)
      BY <1>0, <1>2, <2>2 DEF Submit, TypeOK
    <2> QED
      BY <1>0, <1>1, <1>2, <2>3 DEF Submit, TypeOK
  <1>3. ASSUME NEW r \in Reqs, Handler(r) PROVE TableInv'
    BY <1>3, HandlerKeeps
  <1>4. ASSUME NEW r \in Reqs, ReadDone(r) PROVE TableInv'
    <2>1. PICK match \in BOOLEAN : cb_keycmp(r, req[r], match, retry_q)
      BY <1>4 DEF ReadDone
    <2>2. req[r] \in ReqRecord
      BY <1>0
    <2>3. req' \in [Reqs -> ReqRecord] /\ retry_q' \in Seq(Reqs)
      BY <1>0, <2>1, <2>2, CallbackType
    <2> QED
      BY <1>0, <1>1, <1>4, <2>3 DEF ReadDone, TypeOK
  <1>5. ASSUME NEW s \in flushing, FlushDone(s) PROVE TableInv'
    BY <1>0, <1>1, <1>5 DEF FlushDone, TypeOK
  <1>6. CASE UNCHANGED vars
    BY <1>0, <1>1, <1>6 DEF vars, TypeOK
  <1> QED
    BY <1>2, <1>3, <1>4, <1>5, <1>6 DEF Next

\* The empty table satisfies the invariant.
LEMMA InitTable == Init => TableInv
  <1> SUFFICES ASSUME Init PROVE TableInv
    OBVIOUS
  <1>1. \A s \in Slots : table[s] = [neigh_off |-> 0, key_fp_tag |-> 0, pba |-> 0]
    BY DEF Init, EmptyTable, PBA_INVALID
  <1>2. table \in [Slots -> Entries]
    BY TableAssumption DEF Init, EmptyTable, PBA_INVALID, Entries, Hops, Tags
  <1>3. req \in [Reqs -> ReqRecord]
    <2>1. (CHOOSE k \in Keys : TRUE) \in Keys
      BY HopscotchAssumption
    <2> QED
      BY <2>1, TableAssumption DEF Init, ReqRecord, States, Steps, Hops
  <1>4. TypeOK
    <2>1. log \in Seq(Keys) /\ req_q \in Seq(Reqs) /\ retry_q \in Seq(Reqs)
      BY DEF Init
    <2>2. flushing \in SUBSET Nat /\ aborted \in BOOLEAN /\ disturbed \in BOOLEAN
      BY DEF Init
    <2> QED
      BY <1>2, <1>3, <2>1, <2>2 DEF TypeOK
  <1>5. Neighbourhood /\ PbaUnique
    BY <1>1 DEF Neighbourhood, PbaUnique, IsFree, PBA_INVALID
  <1> QED
    BY <1>4, <1>5 DEF TableInv

\* TableInv holds in every reachable state.
THEOREM TableInvariant == Spec => []TableInv
  BY InitTable, NextKeeps, PTL DEF Spec

\* All variables keep their types: in particular no search position leaves the
\* neighbourhood and no index leaves the table.
THEOREM TypeCorrect == Spec => []TypeOK
  <1>1. TableInv => TypeOK
    BY DEF TableInv
  <1> QED
    BY <1>1, TableInvariant, PTL

\* Every used entry lies where a search for its key looks, however many SETs
\* and GETs are interleaved.
THEOREM EntriesFindable == Spec => []Neighbourhood
  <1>1. TableInv => Neighbourhood
    BY DEF TableInv
  <1> QED
    BY <1>1, TableInvariant, PTL

\* Displacement never leaves two entries for one pair.
THEOREM AddressesUnique == Spec => []PbaUnique
  <1>1. TableInv => PbaUnique
    BY DEF TableInv
  <1> QED
    BY <1>1, TableInvariant, PTL

-----------------------------------------------------------------------------
(* Entries move outward. *)

\* MovesOutward as a relation between the tables before and after a step.
Outward(t, u) ==
    \A s1, s2 \in Slots :
        /\ ~IsFree(t, s1)
        /\ u[s2].pba = t[s1].pba
        => /\ ori_idx(u, s2) = ori_idx(t, s1)
           /\ u[s2].neigh_off >= t[s1].neigh_off

\* A table that is left alone.
LEMMA OutwardSame ==
    ASSUME NEW t \in [Slots -> Entries], UniqueIn(t, Slots)
    PROVE  Outward(t, t)
  <1> SUFFICES ASSUME NEW s1 \in Slots, NEW s2 \in Slots,
                      ~IsFree(t, s1), t[s2].pba = t[s1].pba
               PROVE  ori_idx(t, s2) = ori_idx(t, s1) /\ t[s2].neigh_off >= t[s1].neigh_off
    BY DEF Outward
  <1>1. s1 = s2
    BY DEF UniqueIn
  <1>2. t[s1].neigh_off \in Nat
    BY DEF Entries, Hops
  <1> QED
    BY <1>1, <1>2

\* A displacement out of slot n, or none, followed by the filling of slot n.
LEMMA OutwardFill ==
    ASSUME NEW t \in [Slots -> Entries], NEW l \in Seq(Keys), NEW n \in Slots,
           NEW u \in [Slots -> Entries], NEW off \in Hops, NEW tg \in Tags,
           Placed(t, l), UniqueIn(t, Slots),
           u = t \/ (~IsFree(t, n) /\ Displaced(t, u, n))
    PROVE  Outward(t, fill_entry(u, n, off, tg, Len(l) + 1))
  <1> DEFINE w == fill_entry(u, n, off, tg, Len(l) + 1)
  <1>1. /\ w \in [Slots -> Entries] /\ w[n].pba = Len(l) + 1
        /\ \A s \in Slots : s # n => w[s] = u[s]
    <2>1. Len(l) + 1 \in Nat
      OBVIOUS
    <2>2. /\ w \in [Slots -> Entries]
          /\ w[n] = [neigh_off |-> off, key_fp_tag |-> tg, pba |-> Len(l) + 1]
          /\ \A s \in Slots : s # n => w[s] = u[s]
      BY <2>1, FillEntry
    <2> QED
      BY <2>2
  <1> HIDE DEF w
  <1> SUFFICES ASSUME NEW s1 \in Slots, NEW s2 \in Slots,
                      ~IsFree(t, s1), w[s2].pba = t[s1].pba
               PROVE  ori_idx(w, s2) = ori_idx(t, s1) /\ w[s2].neigh_off >= t[s1].neigh_off
    BY DEF Outward, w
  <1>2. t[s1].pba \in 1..Len(l) /\ Len(l) \in Nat
    BY DEF Placed
  <1>3. s2 # n /\ w[s2] = u[s2]
    BY <1>1, <1>2
  <1>4. CASE u[s2] = t[s2]
    <2>1. s1 = s2
      BY <1>3, <1>4 DEF UniqueIn
    <2>2. t[s1].neigh_off \in Nat
      BY DEF Entries, Hops
    <2> QED
      BY <1>3, <1>4, <2>1, <2>2 DEF ori_idx
  <1>5. CASE u[s2] # t[s2]
    <2>1. ~IsFree(t, n) /\ Displaced(t, u, n)
      BY <1>5
    <2> DEFINE h == ori_idx(t, n)
    <2>2. PICK d \in Hops :
               /\ d > t[n].neigh_off
               /\ u = fill_entry(t, Slot(h, d), d, t[n].key_fp_tag, t[n].pba)
      BY <2>1 DEF Displaced
    <2>3. h \in Slots
      <3>1. t[n].neigh_off \in Int /\ NR_ENTRY \in Nat \ {0} /\ n \in Int
        BY TableAssumption DEF Entries, Hops, Slots
      <3>2. NR_ENTRY + n - t[n].neigh_off \in Int
        BY <3>1
      <3>3. \A x \in Int : x % NR_ENTRY \in 0..(NR_ENTRY - 1)
        BY <3>1
      <3> QED
        BY <3>2, <3>3 DEF ori_idx, Slots
    <2>4. Slot(h, d) \in Slots /\ (NR_ENTRY + Slot(h, d) - d) % NR_ENTRY = h
      BY <2>3, SlotArithmetic
    <2>5. /\ u[Slot(h, d)] = [neigh_off |-> d, key_fp_tag |-> t[n].key_fp_tag,
                              pba |-> t[n].pba]
          /\ \A s \in Slots : s # Slot(h, d) => u[s] = t[s]
      <3>1. t[n].key_fp_tag \in Tags /\ t[n].pba \in Nat
        BY DEF Entries
      <3> QED
        BY <2>2, <2>4, <3>1, FillEntry
    <2>6. s2 = Slot(h, d)
      BY <1>5, <2>5
    <2>7. s1 = n
      BY <1>3, <2>1, <2>5, <2>6 DEF UniqueIn
    <2>8. ori_idx(w, s2) = h
      BY <1>3, <2>4, <2>5, <2>6 DEF ori_idx
    <2>9. w[s2].neigh_off = d /\ t[n].neigh_off \in Nat /\ d \in Nat
      BY <1>3, <2>5, <2>6 DEF Entries, Hops
    <2> QED
      BY <2>2, <2>7, <2>8, <2>9
  <1> QED
    BY <1>4, <1>5

\* hopscotch_set never moves an entry to another home or closer to its own.
THEOREM EntriesMoveOutward == Spec => MovesOutward
  <1>1. TableInv /\ [Next]_vars => Outward(table, table')
    <2> SUFFICES ASSUME TableInv, [Next]_vars PROVE Outward(table, table')
      OBVIOUS
    <2>0. /\ table \in [Slots -> Entries] /\ log \in Seq(Keys)
          /\ Placed(table, log) /\ UniqueIn(table, Slots)
          /\ req \in [Reqs -> ReqRecord]
      BY TableInvIs DEF TypeOK
    <2>1. CASE table' = table
      BY <2>0, <2>1, OutwardSame
    <2>2. ASSUME NEW r \in Reqs, SetMatched(r) PROVE Outward(table, table')
      <3>1. req[r].key \in Keys /\ req[r].offset \in Hops
        BY <2>0 DEF ReqRecord
      <3>2. /\ tag(req[r].key) \in Tags
            /\ Slot(idx(req[r].key), req[r].offset) \in Slots
        BY <3>1, HashInRange, SlotArithmetic
      <3> QED
        BY <2>0, <2>2, <3>1, <3>2, OutwardFill DEF SetMatched, FillAndWrite
    <2>3. ASSUME NEW r \in Reqs, SetInsert(r) PROVE Outward(table, table')
      <3> DEFINE k == req[r].key
                 f == find_free_entry(table, idx(k))
                 s == Slot(idx(k), f.offset)
      <3>1. k \in Keys /\ idx(k) \in Slots /\ tag(k) \in Tags
        BY <2>0, HashInRange DEF ReqRecord
      <3>2. /\ f.offset # -1
            /\ table' = fill_entry(f.table, s, f.offset, tag(k), Len(log) + 1)
        BY <2>3 DEF SetInsert, FillAndWrite
      <3>3. \/ f.offset \in Hops /\ IsFree(table, s) /\ f.table = table
            \/ f.offset \in Hops /\ ~IsFree(table, s) /\ Displaced(table, f.table, s)
        BY <2>0, <3>1, <3>2, FreeEntry
      <3> HIDE DEF f
      <3>4. f.offset \in Hops /\ s \in Slots
        BY <3>1, <3>3, SlotArithmetic
      <3>5. f.table \in [Slots -> Entries]
        BY <2>0, <3>3, <3>4, DisplaceKeeps
      <3> QED
        BY <2>0, <3>1, <3>2, <3>3, <3>4, <3>5, OutwardFill
    <2>4. ASSUME NEW r \in Reqs, ReadDone(r) PROVE table' = table
      BY <2>4 DEF ReadDone
    <2> QED
      BY <2>1, <2>2, <2>3, <2>4
         DEF Next, vars, Handler, Submit, Probe, GetMiss, SetAbort, FlushDone
  <1>2. TableInv /\ [Next]_vars
        => [\A s1, s2 \in Slots :
              /\ ~IsFree(table, s1)
              /\ table'[s2].pba = table[s1].pba
              => /\ ori_idx(table', s2) = ori_idx(table, s1)
                 /\ table'[s2].neigh_off >= table[s1].neigh_off]_vars
    BY <1>1 DEF Outward
  <1> QED
    BY <1>2, TableInvariant, PTL DEF Spec, MovesOutward
=============================================================================
