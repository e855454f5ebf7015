----------------------------- MODULE Hopscotch -----------------------------
(***************************************************************************)
(* One handler running the hopscotch index (built with -DHOPSCOTCH):       *)
(* src/hopscotch.c driven by the dispatch of src/handler.c, on the log-    *)
(* structured device of src/device.c and src/aio.c.                        *)
(*                                                                         *)
(* Two threads share the index.  The handler thread takes the next request *)
(* (retried ones first) and runs hopscotch_set or hopscotch_get on it; the *)
(* poller thread runs the callback of each finished read, which ends the   *)
(* request or puts it back for another round.  A request may therefore be  *)
(* away on a read while the handler changes the table under it.            *)
(*                                                                         *)
(* The device address of the n-th kv-pair is n, and log[n] is the key in   *)
(* it.  Pairs are never rewritten, so an address is also a version of its  *)
(* key.  The pairs of the segment being filled are still in memory         *)
(* (is_staged) and are read without waiting; a full segment is written     *)
(* asynchronously (flushing), and nothing makes a read wait for that write *)
(* to finish.  A read that io_submit refuses is not tried again.           *)
(***************************************************************************)
EXTENDS HopscotchTable, Sequences

CONSTANTS Writers, Readers, \* requests of the pool that may carry SETs, GETs
          SEGMENT_PAIRS,    \* kv-pairs per segment
          StaleReads,       \* may a read overtake its segment's own write?
          MAX_PBA           \* bound of the model: SETs stop at this address

ASSUME HopscotchAssumption ==
    /\ Keys # {}
    /\ SEGMENT_PAIRS \in Nat \ {0}
    /\ StaleReads \in BOOLEAN
    /\ MAX_PBA \in Nat

Reqs == Writers \cup Readers

VARIABLES table,     \* struct hash_table
          log,       \* the kv-pairs by device address
          flushing,  \* segments whose write has been submitted, not finished
          req,       \* [Reqs -> struct request with its struct hop_params]
          req_q,     \* new requests
          retry_q,   \* requests to run again after a read
          aborted,   \* the process called abort()
          disturbed  \* history: an insertion changed the table behind the
                     \* back of another SET, or a read overtook a write

vars == <<table, log, flushing, req, req_q, retry_q, aborted, disturbed>>

Steps  == {"INIT", "KEY_MATCH", "KEY_MISMATCH"}
States == {"idle", "queued", "reading", "retried", "lost"}

\* offset and step are hop_params; pba is the address of the read in flight,
\* racy whether it was submitted before its segment's write had finished;
\* val is the version answered.  floor is a history variable: the versions
\* that existed when the request was accepted.
ReqRecord == [type: {"GET", "SET"}, key: Keys, st: States, step: Steps,
              offset: Hops, pba: Nat, racy: BOOLEAN, floor: Nat, val: Nat]

Init ==
    /\ table = EmptyTable
    /\ log = << >>
    /\ flushing = {}
    /\ req = [r \in Reqs |-> [type |-> "GET", key |-> CHOOSE k \in Keys : TRUE,
                              st |-> "idle", step |-> "INIT", offset |-> 0,
                              pba |-> 0, racy |-> FALSE, floor |-> 0, val |-> 0]]
    /\ req_q = << >>
    /\ retry_q = << >>
    /\ aborted = FALSE
    /\ disturbed = FALSE

-----------------------------------------------------------------------------
(* The device. *)

Segment(p) == (p - 1) \div SEGMENT_PAIRS

\* In memory: the pair lies in the segment being filled.
is_staged(p) == p # PBA_INVALID /\ Segment(p) = Segment(Len(log))

\* The write of a full segment is submitted; reap_seg_buf will follow it, or
\* never does if io_submit refuses the write.
aio_write(seg) == flushing' = flushing \cup {seg}

\* Append a pair; when the staged segment is full it is written and the next
\* one is staged.
get_next_pba(k) ==
    /\ log' = Append(log, k)
    /\ IF Len(log) > 0 /\ Segment(Len(log) + 1) # Segment(Len(log))
       THEN aio_write(Segment(Len(log)))
       ELSE UNCHANGED flushing

-----------------------------------------------------------------------------
(* Requests. *)

\* make_request_from_netreq, add_request_info and forward_req_to_hlr.
Submit(r, type, k) ==
    /\ ~aborted
    /\ req[r].st = "idle"
    /\ \/ type = "SET" /\ r \in Writers /\ Len(log) < MAX_PBA
       \/ type = "GET" /\ r \in Readers
    /\ req' = [req EXCEPT ![r] = [type |-> type, key |-> k, st |-> "queued",
                                  step |-> "INIT", offset |-> 0, pba |-> 0,
                                  racy |-> FALSE, floor |-> Len(log), val |-> 0]]
    /\ req_q' = Append(req_q, r)
    /\ UNCHANGED <<table, log, flushing, retry_q, aborted, disturbed>>

\* net_end_req: acknowledge with version v; the request returns to the pool.
net_end_req(rec, v) ==
    [rec EXCEPT !.st = "idle", !.step = "INIT", !.offset = 0, !.pba = 0,
                !.racy = FALSE, !.floor = 0, !.val = v]

\* r is the next request of the handler thread.
get_next_request(r) ==
    /\ ~aborted
    /\ \/ /\ retry_q # << >>
          /\ r = Head(retry_q)
       \/ /\ retry_q = << >>
          /\ req_q # << >>
          /\ r = Head(req_q)

ReqRest   == IF retry_q = << >> THEN Tail(req_q) ELSE req_q
RetryRest == IF retry_q = << >> THEN retry_q ELSE Tail(retry_q)

\* Put r at the end of the retry queue q, which holds every request there is
\* and is never full.
retry_req_to_hlr(r, q) == Append(q, r)

\* Mutant: an equal tag is taken for an equal key.
cb_keycmp_tag_only(r, rec, match, q) ==
    IF rec.type = "GET"
    THEN /\ req' = [req EXCEPT ![r] = net_end_req(rec, rec.pba)]
         /\ retry_q' = q
    ELSE /\ req' = [req EXCEPT ![r] =
                      [rec EXCEPT !.st = "retried", !.pba = 0, !.racy = FALSE,
                                  !.step = IF match THEN "KEY_MATCH"
                                                    ELSE "KEY_MISMATCH"]]
         /\ retry_q' = retry_req_to_hlr(r, q)

\* Mutant: a SET that finds its key goes on searching.
cb_keycmp_set_goes_on(r, rec, match, q) ==
    IF match /\ rec.type = "GET"
    THEN /\ req' = [req EXCEPT ![r] = net_end_req(rec, rec.pba)]
         /\ retry_q' = q
    ELSE /\ req' = [req EXCEPT ![r] =
                      [rec EXCEPT !.st = "retried", !.pba = 0, !.racy = FALSE,
                                  !.step = "KEY_MISMATCH"]]
         /\ retry_q' = retry_req_to_hlr(r, q)

\* The callback of a read: a GET that found its key ends, anything else is
\* put at the end of the retry queue q.
cb_keycmp(r, rec, match, q) ==
    IF match /\ rec.type = "GET"
    THEN /\ req' = [req EXCEPT ![r] = net_end_req(rec, rec.pba)]
         /\ retry_q' = q
    ELSE /\ req' = [req EXCEPT ![r] =
                      [rec EXCEPT !.st = "retried", !.pba = 0, !.racy = FALSE,
                                  !.step = IF match THEN "KEY_MATCH"
                                                    ELSE "KEY_MISMATCH"]]
         /\ retry_q' = retry_req_to_hlr(r, q)

\* Submit a read and leave the request with the device.  If io_submit refuses
\* the read, the error is printed and nobody ever hears of the request again.
aio_read(r, rec) ==
    /\ \E st \in {"reading", "lost"} :
          req' = [req EXCEPT ![r] =
                    [rec EXCEPT !.st = st,
                                !.racy = StaleReads /\ rec.pba # PBA_INVALID
                                         /\ Segment(rec.pba) \in flushing]]
    /\ retry_q' = RetryRest

\* Read the pair of the entry at offset off: from the staging buffer, with
\* the callback run at once, or from the device.
dev_abs_read(r, off) ==
    LET p   == table[Slot(idx(req[r].key), off)].pba
        rec == [req[r] EXCEPT !.offset = off, !.pba = p]
    IN  IF is_staged(p)
        THEN cb_keycmp(r, rec, log[p] = rec.key, RetryRest)
        ELSE aio_read(r, rec)

\* Mutant: the search resumes at the entry already compared.
MatchOffset_same(r) ==
    find_matching_tag(table, idx(req[r].key),
                      IF req[r].step = "KEY_MISMATCH" THEN req[r].offset ELSE 0,
                      tag(req[r].key))

\* Phase 1: where the next entry with the key's tag is.
MatchOffset(r) ==
    find_matching_tag(table, idx(req[r].key),
                      IF req[r].step = "KEY_MISMATCH" THEN req[r].offset + 1 ELSE 0,
                      tag(req[r].key))

\* Phase 3: point the entry at a new pair, write it to the staging buffer and
\* acknowledge.
FillAndWrite(r, t, off) ==
    LET k == req[r].key
    IN  /\ table' = fill_entry(t, Slot(idx(k), off), off, tag(k), Len(log) + 1)
        /\ get_next_pba(k)
        /\ req' = [req EXCEPT ![r] = net_end_req(req[r], Len(log) + 1)]
        /\ req_q' = ReqRest
        /\ retry_q' = RetryRest

-----------------------------------------------------------------------------
(* The handler thread. *)

\* hopscotch_get, hopscotch_set: an entry carries the tag; read its pair.
Probe(r) ==
    /\ get_next_request(r)
    /\ req[r].step # "KEY_MATCH"
    /\ MatchOffset(r) # -1
    /\ dev_abs_read(r, MatchOffset(r))
    /\ req_q' = ReqRest
    /\ UNCHANGED <<table, log, flushing, aborted, disturbed>>

\* hopscotch_get: no entry is left, "not existing key".
GetMiss(r) ==
    /\ get_next_request(r)
    /\ req[r].type = "GET"
    /\ MatchOffset(r) = -1
    /\ req' = [req EXCEPT ![r] = net_end_req(req[r], 0)]
    /\ req_q' = ReqRest
    /\ retry_q' = RetryRest
    /\ UNCHANGED <<table, log, flushing, aborted, disturbed>>

\* hopscotch_set: the pair read at the saved offset is this key's.
SetMatched(r) ==
    /\ get_next_request(r)
    /\ req[r].type = "SET"
    /\ req[r].step = "KEY_MATCH"
    /\ FillAndWrite(r, table, req[r].offset)
    /\ UNCHANGED <<aborted, disturbed>>

\* The key whose pair the entry in slot s points to.
Owner(s) == log[table[s].pba]

\* SET q is away to confirm that the entry at its offset is its key's, or has
\* just done so.
Confirming(q) ==
    \/ req[q].st = "reading"
    \/ req[q].st = "retried" /\ req[q].step = "KEY_MATCH"

\* What no step looks at: an insertion at offset off by SET r takes another
\* SET by surprise, because that one is past off in its search for the same
\* key, or because its key's entry is the one that is displaced from there.
Surprises(r, off) ==
    \E q \in Reqs \ {r} :
        /\ req[q].type = "SET"
        /\ \/ /\ req[q].key = req[r].key
              /\ req[q].st \in {"reading", "retried"}
              /\ off <= req[q].offset
           \/ LET s == Slot(idx(req[r].key), off)
              IN  /\ Confirming(q)
                  /\ s = Slot(idx(req[q].key), req[q].offset)
                  /\ ~IsFree(table, s)
                  /\ Owner(s) = req[q].key

\* hopscotch_set: the key is new and there is, or can be made, a free entry.
SetInsert(r) ==
    LET f == find_free_entry(table, idx(req[r].key))
    IN  /\ get_next_request(r)
        /\ req[r].type = "SET"
        /\ req[r].step # "KEY_MATCH"
        /\ MatchOffset(r) = -1
        /\ f.offset # -1
        /\ FillAndWrite(r, f.table, f.offset)
        /\ disturbed' = (disturbed \/ Surprises(r, f.offset))
        /\ UNCHANGED aborted

\* hopscotch_set: "Insert error: Need to resize the table".
SetAbort(r) ==
    /\ get_next_request(r)
    /\ req[r].type = "SET"
    /\ req[r].step # "KEY_MATCH"
    /\ MatchOffset(r) = -1
    /\ find_free_entry(table, idx(req[r].key)).offset = -1
    /\ aborted' = TRUE
    /\ UNCHANGED <<table, log, flushing, req, req_q, retry_q, disturbed>>

Handler(r) ==
    Probe(r) \/ GetMiss(r) \/ SetMatched(r) \/ SetInsert(r) \/ SetAbort(r)

-----------------------------------------------------------------------------
(* The poller thread and the device. *)

\* A read finishes and its callback runs.  Nothing is read for a free entry
\* (its kv_size is 0), so it matches no key; a racy read may also find what
\* was on the device before, whether that is a pair of this key or not.
ReadDone(r) ==
    LET found == req[r].pba # PBA_INVALID /\ log[req[r].pba] = req[r].key
    IN  /\ ~aborted
        /\ req[r].st = "reading"
        /\ \/ /\ cb_keycmp(r, req[r], found, retry_q)
              /\ UNCHANGED disturbed
           \/ /\ req[r].racy
              /\ \E match \in BOOLEAN : cb_keycmp(r, req[r], match, retry_q)
              /\ disturbed' = TRUE
        /\ UNCHANGED <<table, log, flushing, req_q, aborted>>

\* The write of a segment finishes (callback reap_seg_buf).
FlushDone(s) ==
    /\ ~aborted
    /\ s \in flushing
    /\ flushing' = flushing \ {s}
    /\ UNCHANGED <<table, log, req, req_q, retry_q, aborted, disturbed>>

Next ==
    \/ \E r \in Reqs, type \in {"GET", "SET"}, k \in Keys : Submit(r, type, k)
    \/ \E r \in Reqs : Handler(r)
    \/ \E r \in Reqs : ReadDone(r)
    \/ \E s \in flushing : FlushDone(s)

Spec == Init /\ [][Next]_vars

\* Both threads spin for ever and the device finishes every read it accepted.
Fairness ==
    /\ WF_vars(\E r \in Reqs : Handler(r))
    /\ \A r \in Reqs : WF_vars(ReadDone(r))

FairSpec == Spec /\ Fairness

-----------------------------------------------------------------------------
(* Properties of every build, however many SETs are in flight. *)

TypeOK ==
    /\ table \in [Slots -> Entries]
    /\ log \in Seq(Keys)
    /\ flushing \in SUBSET Nat
    /\ req \in [Reqs -> ReqRecord]
    /\ req_q \in Seq(Reqs)
    /\ retry_q \in Seq(Reqs)
    /\ aborted \in BOOLEAN
    /\ disturbed \in BOOLEAN

\* Every used entry points to a written pair and lies where a search for the
\* pair's key looks: in the key's neighbourhood, at the distance it records
\* and with the key's tag.  Displacement (find_free_entry) computes an entry's
\* home from that distance alone, so one wrong distance sends a pair to a
\* place where no search finds it again.
Neighbourhood ==
    \A s \in Slots : ~IsFree(table, s) =>
        /\ table[s].pba \in 1..Len(log)
        /\ s = Slot(idx(Owner(s)), table[s].neigh_off)
        /\ table[s].key_fp_tag = tag(Owner(s))

\* No pair is pointed to from two slots: the copy that displacement leaves
\* behind is always the slot that the same hopscotch_set then fills.
PbaUnique ==
    \A s1, s2 \in Slots :
        /\ ~IsFree(table, s1)
        /\ table[s1].pba = table[s2].pba
        => s1 = s2

\* An entry only ever moves away from its home slot, never back towards it:
\* a search, which goes outward and is interrupted by reads, cannot be
\* overtaken by the displacement of the entry it is looking for.
MovesOutward ==
    [][\A s1, s2 \in Slots :
          /\ ~IsFree(table, s1)
          /\ table'[s2].pba = table[s1].pba
          => /\ ori_idx(table', s2) = ori_idx(table, s1)
             /\ table'[s2].neigh_off >= table[s1].neigh_off]_vars

\* Every accepted request is answered, unless the process aborts or io_submit
\* refuses a read of the request: each round through the retry queue continues
\* behind the entry already compared, whatever other SETs do to the table.
Responds ==
    \A r \in Reqs :
        (req[r].st # "idle") ~> (req[r].st \in {"idle", "lost"} \/ aborted)

-----------------------------------------------------------------------------
(* Properties of every behaviour up to the step that disturbs it.  SETs and *)
(* GETs overlap as they like: as long as no insertion takes another SET by  *)
(* surprise and no read overtakes the write of its segment, the rounds of   *)
(* all requests together are as good as atomic operations.                  *)

\* No key has two entries, although several SETs of a key search for it, and
\* insert it, at the same time.
NoDuplicates ==
    ~disturbed => \A s1, s2 \in Slots :
        /\ ~IsFree(table, s1)
        /\ ~IsFree(table, s2)
        /\ Owner(s1) = Owner(s2)
        => s1 = s2

\* No acknowledged SET is lost: its key has an entry, which points to that
\* pair or to a later one, after any displacements of it and of its
\* neighbours by other SETs.
NoLostSet ==
    ~disturbed => \A v \in 1..Len(log) : \E s \in Slots :
        /\ ~IsFree(table, s)
        /\ table[s].pba >= v
        /\ Owner(s) = log[v]

\* The answers are those of an atomic key-value store, although every request
\* looks at the table in several rounds between which others update, insert
\* and displace entries.
KV == INSTANCE KVStore
      WITH history <- log,
           op <- [r \in Reqs |-> [type    |-> req[r].type,
                                  key     |-> req[r].key,
                                  pending |-> req[r].st # "idle",
                                  floor   |-> req[r].floor,
                                  val     |-> req[r].val]]

ImplementsKVStore ==
    KV!KVInit /\ [][disturbed' \/ KV!KVNext]_(KV!kvVars)

-----------------------------------------------------------------------------
(* What the repository's texts say and the code does not keep. *)

\* "read kv-pair to confirm whether it is correct key or not" (hopscotch_set,
\* phase 1): the slot about to be overwritten because of a confirmed match
\* still holds the key.  (With two SETs in flight it may hold another one.)
ConfirmedSlotHoldsKey ==
    \A r \in Reqs :
        req[r].st = "retried" /\ req[r].step = "KEY_MATCH" =>
            LET s == Slot(idx(req[r].key), req[r].offset)
            IN  ~IsFree(table, s) /\ Owner(s) = req[r].key

\* "case of 'not existing key'" (hopscotch_get), "Not existing key!"
\* (request_handler): reported only for a key that no acknowledged SET had
\* written when the GET was accepted.
NotExistingKey ==
    [][\A r \in Reqs : GetMiss(r) =>
          \A v \in 1..req[r].floor : log[v] # req[r].key]_vars
=============================================================================
