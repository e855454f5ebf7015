--------------------------- MODULE HopscotchTable ---------------------------
(***************************************************************************)
(* The hash table of src/hopscotch.c and the pure functions on it.  A slot *)
(* holds the entry of struct hash_entry (include/hopscotch.h): neigh_off,  *)
(* the distance from the entry's home slot; key_fp_tag, one byte of the    *)
(* key's hash; pba, where the kv-pair is on the device.  kv_size is left   *)
(* out: pairs have one size, and the only other value it takes, 0 in an    *)
(* entry never filled, is told by pba = PBA_INVALID.                       *)
(***************************************************************************)
EXTENDS Integers, FiniteSetsExt

CONSTANTS Keys,      \* the keys clients use
          Hash,      \* hash_low of every key (src/util.c, hashing_key_128)
          NR_ENTRY,  \* slots of the table
          MAX_HOP    \* size of a key's neighbourhood

ASSUME TableAssumption ==
    /\ Hash \in [Keys -> Nat]
    /\ NR_ENTRY \in Nat \ {0}
    /\ MAX_HOP \in 1..NR_ENTRY

PBA_INVALID == 0   \* device addresses of this model are 1, 2, ...

Slots == 0..(NR_ENTRY - 1)
Hops  == 0..(MAX_HOP - 1)
Tags  == 0..255

Entries == [neigh_off: Hops, key_fp_tag: Tags, pba: Nat]

\* idx and tag of a key: the low IDX_BIT bits of the hash, the byte above.
idx(k) == Hash[k] % NR_ENTRY
tag(k) == (Hash[k] \div NR_ENTRY) % 256

Slot(i, off) == (i + off) % NR_ENTRY

\* calloc and the loop of hopscotch_init: a free entry has tag 0.
EmptyTable ==
    [s \in Slots |-> [neigh_off |-> 0, key_fp_tag |-> 0, pba |-> PBA_INVALID]]

IsFree(t, s) == t[s].pba = PBA_INVALID

\* Mutant: the bound of the loop is off by one.
find_matching_tag_overrun(t, i, off, tg) ==
    LET M == {o \in off..MAX_HOP : t[Slot(i, o)].key_fp_tag = tg}
    IN  IF M = {} THEN -1 ELSE Min(M)

\* The first offset from `off' on whose entry carries the tag; free entries
\* are compared too, so tag 0 matches them.
find_matching_tag(t, i, off, tg) ==
    LET M == {o \in off..(MAX_HOP - 1) : t[Slot(i, o)].key_fp_tag = tg}
    IN  IF M = {} THEN -1 ELSE Min(M)

fill_entry(t, s, off, tg, p) ==
    [t EXCEPT ![s] = [neigh_off |-> off, key_fp_tag |-> tg, pba |-> p]]

\* The home slot of the entry in slot s.
ori_idx(t, s) == (NR_ENTRY + s - t[s].neigh_off) % NR_ENTRY

\* Farther offsets of the same neighbourhood to which the entry in s could go.
DisplaceOffs(t, s) ==
    {d \in (t[s].neigh_off + 1)..(MAX_HOP - 1) : IsFree(t, Slot(ori_idx(t, s), d))}

\* Mutant: the displaced entry keeps its old distance.
make_free_entry_same_off(t, i) ==
    LET M == {o \in Hops : DisplaceOffs(t, Slot(i, o)) # {}}
        o == Max(M)
        e == t[Slot(i, o)]
        d == Min(DisplaceOffs(t, Slot(i, o)))
    IN  IF M = {} THEN [offset |-> -1, table |-> t]
        ELSE [offset |-> o,
              table  |-> fill_entry(t, Slot(ori_idx(t, Slot(i, o)), d),
                                    e.neigh_off, e.key_fp_tag, e.pba)]

\* Mutant: the offset returned is not the one vacated.
make_free_entry_wrong_slot(t, i) ==
    LET M == {o \in Hops : DisplaceOffs(t, Slot(i, o)) # {}}
        o == Max(M)
        e == t[Slot(i, o)]
        d == Min(DisplaceOffs(t, Slot(i, o)))
    IN  IF M = {} THEN [offset |-> -1, table |-> t]
        ELSE [offset |-> 0,
              table  |-> fill_entry(t, Slot(ori_idx(t, Slot(i, o)), d),
                                    d, e.key_fp_tag, e.pba)]

\* Mutant: the entry is not copied before its slot is given away.
make_free_entry_no_copy(t, i) ==
    LET M == {o \in Hops : DisplaceOffs(t, Slot(i, o)) # {}}
    IN  IF M = {} THEN [offset |-> -1, table |-> t]
        ELSE [offset |-> Max(M), table |-> t]

\* The displacing half: the last slot of the neighbourhood whose entry can
\* move is vacated by copying its entry to the nearest free slot of its own
\* neighbourhood.  The copy left behind is overwritten by the caller.
make_free_entry(t, i) ==
    LET M == {o \in Hops : DisplaceOffs(t, Slot(i, o)) # {}}
        o == Max(M)
        e == t[Slot(i, o)]
        d == Min(DisplaceOffs(t, Slot(i, o)))
    IN  IF M = {} THEN [offset |-> -1, table |-> t]
        ELSE [offset |-> o,
              table  |-> fill_entry(t, Slot(ori_idx(t, Slot(i, o)), d),
                                    d, e.key_fp_tag, e.pba)]

\* Offset of a slot for a new entry with home i, and the table after the
\* displacement that may be needed to free it; offset -1 when there is none.
find_free_entry(t, i) ==
    LET F == {o \in Hops : IsFree(t, Slot(i, o))}
    IN  IF F # {} THEN [offset |-> Min(F), table |-> t]
        ELSE make_free_entry(t, i)
=============================================================================
