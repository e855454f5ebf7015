------------------------------- MODULE Device -------------------------------
(***************************************************************************)
(* The device of one handler: the log of segments (src/device.c), the      *)
(* asynchronous I/O behind it (src/aio.c), the poller (src/poller.c) and   *)
(* the pools of callbacks and iocbs that they share (src/handler.c).       *)
(*                                                                         *)
(* Threads: the handler, whose calls allocate, write and read pairs, the   *)
(* poller, and the kernel, which performs submitted I/O in any order.      *)
(* Addresses are in bytes as in the code, contents are kept per grain:     *)
(* which pair wrote it, 0 for none.                                        *)
(***************************************************************************)
EXTENDS Integers, Sequences, FiniteSets

CONSTANTS NR_SEGMENT,    \* segments of the device
          SEGMENT_SIZE,  \* in bytes
          GRAIN_UNIT,    \* in bytes
          Lens,          \* lengths of pairs in bytes (req->value.len)
          Slots,         \* requests in flight, as many as flying admits (QDEPTH)
          QSIZE,         \* callbacks, and iocbs, of the pools
          RING,          \* I/Os in flight that io_setup provides for
          NR_EVENTS,     \* events the poller takes at a time
          MAX_PAIR       \* bound on the pairs written

\* What the sizes of config.h satisfy.
ASSUME DeviceAssumption ==
    /\ NR_SEGMENT \in Nat \ {0}
    /\ GRAIN_UNIT \in Nat \ {0}
    /\ SEGMENT_SIZE \in Nat \ {0}
    /\ SEGMENT_SIZE % GRAIN_UNIT = 0
    /\ Lens \subseteq 1..SEGMENT_SIZE
    /\ IsFiniteSet(Slots)
    /\ QSIZE \in Nat
    /\ RING \in Nat
    /\ NR_EVENTS \in Nat \ {0}
    /\ MAX_PAIR \in Nat

VARIABLES
    \* struct dev_abs
    staged_seg_idx,  \* the segment being filled
    offset,          \* of each segment, the end of what is allocated in it
    staged_seg_buf,  \* its contents
    disk,            \* contents of the device
    \* I/O, each with its callback and iocb
    submitted,       \* in the kernel
    completed,       \* performed and not yet taken by the poller
    events,          \* taken by the poller and not yet recycled
    called,          \* the callback of the first event has been run
    \* struct handler
    cb_pool,         \* callbacks in the pool
    iocb_pool,       \* iocbs in the pool
    request,         \* a request in flight: "idle", "read", or "lost" for ever
    down,            \* the process is gone: "pool" when an empty pool was used,
                     \* "error" when an I/O failed
    \* history
    pairs,           \* where the pairs are that have been written
    gen,             \* segments staged before the current one
    durable,         \* generations whose segment has been written
    spoiled,         \* generations whose write failed or may be overtaken
    leaked,          \* I/Os that failed to be submitted
    misread          \* pairs a read did not return though nothing was in its way

devVars  == <<staged_seg_idx, offset, staged_seg_buf>>
ioVars   == <<submitted, completed, events, called>>
poolVars == <<cb_pool, iocb_pool>>
histVars == <<pairs, gen, durable, spoiled, leaked, misread>>
vars == <<devVars, disk, ioVars, poolVars, request, down, histVars>>

Segments == 0..(NR_SEGMENT - 1)
SegGrains == SEGMENT_SIZE \div GRAIN_UNIT
Tags == 0..MAX_PAIR

start_addr(s) == s * SEGMENT_SIZE
end_addr(s)   == (s + 1) * SEGMENT_SIZE

\* An I/O is the write of the segment staged as g, or the read of pair p for
\* the request r; safe says that p was readable when it was submitted.
WriteOf(g, buf)     == [op |-> "write", gen |-> g, buf |-> buf]
ReadOf(r, p, safe) == [op |-> "read", req |-> r, pair |-> p, safe |-> safe]

Writes(ios) == {io \in ios : io.op = "write"}
Reads(ios)  == {io \in ios : io.op = "read"}

Init ==
    /\ staged_seg_idx = 0
    /\ offset = [s \in Segments |-> start_addr(s)]
    /\ staged_seg_buf = [i \in 0..(SegGrains - 1) |-> 0]
    /\ disk = [a \in 0..(NR_SEGMENT * SegGrains - 1) |-> 0]
    /\ submitted = {}
    /\ completed = << >>
    /\ events = << >>
    /\ called = FALSE
    /\ cb_pool = QSIZE
    /\ iocb_pool = QSIZE
    /\ request = [r \in Slots |-> "idle"]
    /\ down = "no"
    /\ pairs = << >>
    /\ gen = 0
    /\ durable = {}
    /\ spoiled = {}
    /\ leaked = 0
    /\ misread = {}

-----------------------------------------------------------------------------
(* Allocation and writing: hopscotch_set from get_next_pba on. *)

\* Mutant: the size of the pair is left out.
Fits_any(len) == offset[staged_seg_idx] < end_addr(staged_seg_idx)

\* get_next_pba: the pair, at its length in bytes, fits in the staged segment.
Fits(len) == offset[staged_seg_idx] + len <= end_addr(staged_seg_idx)

\* Mutant: the length is rounded down, as the recorded size is.
RoundUp_down(len) == len - (len % GRAIN_UNIT)

\* get_next_pba: the length in whole grains.
RoundUp(len) ==
    IF len % GRAIN_UNIT # 0 THEN len + (GRAIN_UNIT - (len % GRAIN_UNIT)) ELSE len

\* The pair allocated at byte address addr: its recorded size is rounded down.
Pair(addr, len, g) ==
    [pba |-> addr \div GRAIN_UNIT, size |-> len \div GRAIN_UNIT, len |-> len, gen |-> g]

\* Grains of a segment's buffer that hold a pair.
InSegment(p) == {a % SegGrains : a \in p.pba..(p.pba + p.size - 1)}

\* dev_abs_write: the pair with number n is copied into the staging buffer.
dev_abs_write(p, n, buf) ==
    [i \in DOMAIN buf |-> IF i \in InSegment(p) THEN n ELSE buf[i]]

\* The kernel refuses an I/O (external: what io_setup provides for is in use).
ring_full == Cardinality(submitted) + Len(completed) >= RING

\* hopscotch_set into the staged segment.  The callback of the request is
\* taken, run and put back within the call.
set_staged(len) ==
    /\ down = "no"
    /\ Len(pairs) < MAX_PAIR
    /\ Fits(len)
    /\ cb_pool >= 1
    /\ LET addr == offset[staged_seg_idx]
           p    == Pair(addr, len, gen)
       IN  /\ offset' = [offset EXCEPT ![staged_seg_idx] = addr + RoundUp(len)]
           /\ staged_seg_buf' = dev_abs_write(p, Len(pairs) + 1, staged_seg_buf)
           /\ pairs' = Append(pairs, p)
    /\ UNCHANGED <<staged_seg_idx, disk, ioVars, poolVars, request, down, gen,
                   durable, spoiled, leaked, misread>>

\* stage_next_segment, and the pair as the first one of the new segment.
stage_next_segment(len) ==
    LET s == (staged_seg_idx + 1) % NR_SEGMENT
        p == Pair(start_addr(s), len, gen + 1)
    IN  /\ staged_seg_idx' = s
        /\ offset' = [offset EXCEPT ![s] = start_addr(s) + RoundUp(len)]
        /\ staged_seg_buf' =
              dev_abs_write(p, Len(pairs) + 1, [i \in DOMAIN staged_seg_buf |-> 0])
        /\ pairs' = Append(pairs, p)
        /\ gen' = gen + 1

\* An earlier write of the same segment has not been performed.
Overtakes == \E w \in Writes(submitted) : (gen - w.gen) % NR_SEGMENT = 0

\* Mutant: the address is taken from the segment staged next.
aio_write_next_addr ==
    IF ring_full
    THEN /\ leaked' = leaked + 1
         /\ spoiled' = spoiled \cup {gen}
         /\ UNCHANGED submitted
    ELSE /\ submitted' = submitted \cup {WriteOf(gen + 1, staged_seg_buf)}
         /\ spoiled' = IF Overtakes THEN spoiled \cup {gen} ELSE spoiled
         /\ UNCHANGED leaked

\* aio_write of the staged segment.  A failing io_submit is printed and no more.
aio_write ==
    IF ring_full
    THEN /\ leaked' = leaked + 1
         /\ spoiled' = spoiled \cup {gen}
         /\ UNCHANGED submitted
    ELSE /\ submitted' = submitted \cup {WriteOf(gen, staged_seg_buf)}
         /\ spoiled' = IF Overtakes THEN spoiled \cup {gen} ELSE spoiled
         /\ UNCHANGED leaked

\* hopscotch_set when the staged segment is full: its write is submitted with
\* a callback and an iocb of its own, and the next segment is staged.
set_next_segment(len) ==
    /\ down = "no"
    /\ Len(pairs) < MAX_PAIR
    /\ ~Fits(len)
    /\ cb_pool >= 2
    /\ iocb_pool >= 1
    /\ aio_write
    /\ cb_pool' = cb_pool - 1
    /\ iocb_pool' = iocb_pool - 1
    /\ stage_next_segment(len)
    /\ UNCHANGED <<disk, completed, events, called, request, down, durable, misread>>

\* make_callback and aio_write use what q_dequeue returns: NULL ends the process.
set_crash(len) ==
    /\ down = "no"
    /\ Len(pairs) < MAX_PAIR
    /\ cb_pool < (IF Fits(len) THEN 1 ELSE 2) \/ (~Fits(len) /\ iocb_pool < 1)
    /\ down' = "pool"
    /\ UNCHANGED <<devVars, disk, ioVars, poolVars, request, histVars>>

-----------------------------------------------------------------------------
(* Reading: hopscotch_get and the first phase of hopscotch_set. *)

\* Mutant: everything in the staged segment is taken from the buffer.
is_staged_segment(p) ==
    p.pba * GRAIN_UNIT \in start_addr(staged_seg_idx)..(end_addr(staged_seg_idx) - 1)

is_staged(p) ==
    /\ p.pba * GRAIN_UNIT >= start_addr(staged_seg_idx)
    /\ p.pba * GRAIN_UNIT < offset[staged_seg_idx]

\* Some grain of the pair does not hold it.
Differs(n, buf) == \E i \in InSegment(pairs[n]) : buf[i] # n

\* A later use of the pair's segment has been submitted to the device.
Flushed(p) == gen > p.gen + NR_SEGMENT

\* The pair is in the staging buffer, or on the device in a place that has
\* not been allocated again.
Readable(p) ==
    \/ p.gen = gen
    \/ /\ p.gen \in durable \ spoiled
       /\ ~Flushed(p)
       /\ gen = p.gen + NR_SEGMENT => p.pba * GRAIN_UNIT >= offset[staged_seg_idx]

\* Mutant: the callback is not put back.
read_staged_leak(r, n) ==
    /\ down = "no"
    /\ request[r] = "idle"
    /\ is_staged(pairs[n])
    /\ cb_pool >= 1
    /\ cb_pool' = cb_pool - 1
    /\ misread' = IF Readable(pairs[n]) /\ Differs(n, staged_seg_buf)
                  THEN misread \cup {n} ELSE misread
    /\ UNCHANGED <<devVars, disk, ioVars, iocb_pool, request, down, pairs, gen,
                   durable, spoiled, leaked>>

\* dev_abs_read from the staging buffer, callback included.
read_staged(r, n) ==
    /\ down = "no"
    /\ request[r] = "idle"
    /\ is_staged(pairs[n])
    /\ cb_pool >= 1
    /\ misread' = IF Readable(pairs[n]) /\ Differs(n, staged_seg_buf)
                  THEN misread \cup {n} ELSE misread
    /\ UNCHANGED <<devVars, disk, ioVars, poolVars, request, down, pairs, gen,
                   durable, spoiled, leaked>>

\* dev_abs_read from the device: aio_read.  Of a failing io_submit only the
\* message is left, and the request is never heard of again.
aio_read(r, n) ==
    /\ down = "no"
    /\ request[r] = "idle"
    /\ ~is_staged(pairs[n])
    /\ cb_pool >= 1
    /\ iocb_pool >= 1
    /\ cb_pool' = cb_pool - 1
    /\ iocb_pool' = iocb_pool - 1
    /\ IF ring_full
       THEN /\ request' = [request EXCEPT ![r] = "lost"]
            /\ leaked' = leaked + 1
            /\ UNCHANGED submitted
       ELSE /\ request' = [request EXCEPT ![r] = "read"]
            /\ submitted' = submitted \cup {ReadOf(r, n, Readable(pairs[n]))}
            /\ UNCHANGED leaked
    /\ UNCHANGED <<devVars, disk, completed, events, called, down, pairs, gen,
                   durable, spoiled, misread>>

read_crash(r, n) ==
    /\ down = "no"
    /\ request[r] = "idle"
    /\ cb_pool < 1 \/ (~is_staged(pairs[n]) /\ iocb_pool < 1)
    /\ down' = "pool"
    /\ UNCHANGED <<devVars, disk, ioVars, poolVars, request, histVars>>

-----------------------------------------------------------------------------
(* The kernel. *)

\* What a read of grain a may return: what is on the device, or what a write
\* in flight is about to put there.
Sees(a) ==
    {disk[a]} \cup {w.buf[a % SegGrains] :
                      w \in {v \in Writes(submitted) :
                               v.gen % NR_SEGMENT = a \div SegGrains}}

perform_write(io) ==
    /\ io.op = "write"
    /\ disk' = [a \in DOMAIN disk |->
                  IF a \div SegGrains = io.gen % NR_SEGMENT
                  THEN io.buf[a % SegGrains] ELSE disk[a]]
    /\ durable' = durable \cup {io.gen}
    /\ UNCHANGED misread

perform_read(io) ==
    /\ io.op = "read"
    /\ LET p   == pairs[io.pair]
           due == io.safe /\ ~Flushed(p) /\ p.gen \notin spoiled
       IN  misread' = IF due /\ \E a \in p.pba..(p.pba + p.size - 1) : Sees(a) # {io.pair}
                      THEN misread \cup {io.pair} ELSE misread
    /\ UNCHANGED <<disk, durable>>

\* An I/O is performed, whichever the kernel takes, and its event queued.
perform(io) ==
    /\ down = "no"
    /\ io \in submitted
    /\ perform_write(io) \/ perform_read(io)
    /\ submitted' = submitted \ {io}
    /\ completed' = Append(completed, io)
    /\ UNCHANGED <<devVars, events, called, poolVars, request, down, pairs, gen,
                   spoiled, leaked>>

-----------------------------------------------------------------------------
(* The poller. *)

\* Mutant: waits for a full batch.
io_getevents_full ==
    /\ down = "no"
    /\ events = << >>
    /\ Len(completed) >= NR_EVENTS
    /\ events' = SubSeq(completed, 1, NR_EVENTS)
    /\ completed' = SubSeq(completed, NR_EVENTS + 1, Len(completed))
    /\ UNCHANGED <<devVars, disk, submitted, called, poolVars, request, down, histVars>>

\* Takes the events that are there, NR_EVENTS at most.
io_getevents ==
    /\ down = "no"
    /\ events = << >>
    /\ completed # << >>
    /\ LET n == IF Len(completed) < NR_EVENTS THEN Len(completed) ELSE NR_EVENTS
       IN  /\ events' = SubSeq(completed, 1, n)
           /\ completed' = SubSeq(completed, n + 1, Len(completed))
    /\ UNCHANGED <<devVars, disk, submitted, called, poolVars, request, down, histVars>>

\* The callback of the first event: reap_seg_buf frees the buffer, cb_keycmp
\* or end_req takes the request on.
run_callback ==
    /\ down = "no"
    /\ events # << >>
    /\ ~called
    /\ called' = TRUE
    /\ request' = IF Head(events).op = "read"
                  THEN [request EXCEPT ![Head(events).req] = "idle"]
                  ELSE request
    /\ UNCHANGED <<devVars, disk, submitted, completed, events, poolVars, down, histVars>>

\* Mutant: the iocb is not put back.
recycle_cb_only ==
    /\ down = "no"
    /\ called
    /\ called' = FALSE
    /\ events' = Tail(events)
    /\ cb_pool' = cb_pool + 1
    /\ UNCHANGED <<devVars, disk, submitted, completed, iocb_pool, request, down, histVars>>

\* The iocb and the callback go back to their pools.
recycle ==
    /\ down = "no"
    /\ called
    /\ called' = FALSE
    /\ events' = Tail(events)
    /\ iocb_pool' = iocb_pool + 1
    /\ cb_pool' = cb_pool + 1
    /\ UNCHANGED <<devVars, disk, submitted, completed, request, down, histVars>>

\* The I/O of the first event has failed on the device: "Data size error",
\* abort().
data_size_error ==
    /\ down = "no"
    /\ events # << >>
    /\ ~called
    /\ down' = "error"
    /\ UNCHANGED <<devVars, disk, ioVars, poolVars, request, histVars>>

aio_poller == io_getevents \/ run_callback \/ recycle

-----------------------------------------------------------------------------
Set(len) == set_staged(len) \/ set_next_segment(len) \/ set_crash(len)

Read(r, n) == read_staged(r, n) \/ aio_read(r, n) \/ read_crash(r, n)

Next ==
    \/ \E len \in Lens : Set(len)
    \/ \E r \in Slots, n \in 1..Len(pairs) : Read(r, n)
    \/ \E io \in submitted : perform(io)
    \/ aio_poller
    \/ data_size_error

Spec == Init /\ [][Next]_vars

\* The poller runs, and the kernel performs every I/O it has accepted.
Fairness ==
    /\ WF_vars(aio_poller)
    /\ \A r \in Slots : WF_vars(\E io \in Reads(submitted) : io.req = r /\ perform(io))
    /\ \A g \in 0..MAX_PAIR : WF_vars(\E io \in Writes(submitted) : io.gen = g /\ perform(io))

FairSpec == Spec /\ Fairness

-----------------------------------------------------------------------------
(* Properties. *)

Buffers == [0..(SegGrains - 1) -> Tags]

Pairs ==
    [pba : 0..(NR_SEGMENT * SegGrains - 1), size : 0..SegGrains,
     len : 1..SEGMENT_SIZE, gen : Nat]

Ios ==
    [op : {"write"}, gen : Nat, buf : Buffers]
    \cup [op : {"read"}, req : Slots, pair : 1..MAX_PAIR, safe : BOOLEAN]

\* The types: in particular no offset leaves its segment and no pair has an
\* address behind the end of the device.
TypeOK ==
    /\ staged_seg_idx \in Segments
    /\ offset \in [Segments -> Nat]
    /\ \A s \in Segments : offset[s] \in start_addr(s)..end_addr(s)
    /\ staged_seg_buf \in Buffers
    /\ disk \in [0..(NR_SEGMENT * SegGrains - 1) -> Tags]
    /\ submitted \in SUBSET Ios
    /\ completed \in Seq(Ios)
    /\ events \in Seq(Ios)
    /\ called \in BOOLEAN
    /\ cb_pool \in 0..QSIZE
    /\ iocb_pool \in 0..QSIZE
    /\ request \in [Slots -> {"idle", "read", "lost"}]
    /\ down \in {"no", "pool", "error"}
    /\ pairs \in Seq(Pairs)
    /\ gen \in Nat
    /\ durable \in SUBSET Nat
    /\ spoiled \in SUBSET Nat
    /\ leaked \in Nat
    /\ misread \in SUBSET (1..MAX_PAIR)

\* get_next_pba tests the length in bytes and allocates whole grains: still
\* every pair has its bytes for itself and inside the segment that was staged,
\* also at the very end of a segment and after the log has wrapped round.
ExtentsExact ==
    \A n \in 1..Len(pairs) :
        LET p == pairs[n]
            s == p.gen % NR_SEGMENT
        IN  /\ p.pba * GRAIN_UNIT >= start_addr(s)
            /\ p.pba * GRAIN_UNIT + p.len <= end_addr(s)
            /\ \A m \in 1..(n - 1) :
                  pairs[m].gen = p.gen =>
                    pairs[m].pba * GRAIN_UNIT + pairs[m].len <= p.pba * GRAIN_UNIT
            /\ p.gen = gen => p.pba * GRAIN_UNIT + p.len <= offset[s]

\* As long as its segment is not used again, a pair is where it can be found:
\* in the staging buffer, in the buffer of a write in flight, or on the device.
\* The only ways to lose one are a write that io_submit refused and a write
\* submitted while an earlier write of the same segment was in flight.
PairsIntact ==
    \A n \in 1..Len(pairs) :
        LET p == pairs[n]
        IN  p.gen \notin spoiled /\ ~Flushed(p) =>
              \/ p.gen = gen /\ ~Differs(n, staged_seg_buf)
              \/ /\ p.gen \in durable
                 /\ \A a \in p.pba..(p.pba + p.size - 1) : disk[a] = n
              \/ \E w \in Writes(submitted) : w.gen = p.gen /\ ~Differs(n, w.buf)

\* A read of a pair in the staging buffer, or of one that was on the device
\* when the read was submitted, returns the pair, also while its segment is
\* being filled anew: is_staged sends the read to the right place.
ReadsReturnPair == misread = {}

\* Every callback and iocb is in its pool, with an I/O, or gone with an I/O
\* that could not be submitted: the two threads lose and double none.
PoolsExact ==
    LET held == Cardinality(submitted) + Len(completed) + Len(events) + leaked
    IN  cb_pool + held = QSIZE /\ iocb_pool + held = QSIZE

\* Requests alone never empty a pool: when the process dies of an empty one,
\* segment writes, which no flow control counts, and failed submissions hold
\* what the requests in flight (and one event being recycled) leave of it.
WritesHeld ==
    Cardinality(Writes(submitted))
    + Cardinality({i \in 1..Len(completed) : completed[i].op = "write"})
    + Cardinality({i \in 1..Len(events) : events[i].op = "write"})

PoolsOutlastRequests ==
    down = "pool" => WritesHeld + leaked >= QSIZE - Cardinality(Slots) - 2

\* The buffer of the segment staged as g has not been freed.
Held(g) ==
    \/ \E w \in Writes(submitted) : w.gen = g
    \/ \E i \in 1..Len(completed) : completed[i].op = "write" /\ completed[i].gen = g
    \/ \E i \in 1..Len(events) : events[i].op = "write" /\ events[i].gen = g

\* Every read that was submitted is called back, and the buffer of every
\* segment that was submitted is freed by reap_seg_buf, so that the memory for
\* segments does not grow with the log.
CallbacksRun ==
    /\ \A r \in Slots : request[r] = "read" ~> (request[r] = "idle" \/ down # "no")
    /\ \A g \in 0..MAX_PAIR : Held(g) ~> (~Held(g) \/ down # "no")
=============================================================================
