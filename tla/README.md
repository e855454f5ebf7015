# A TLA+ model of the udepot-hopscotch key-value server

This directory holds TLA+ modules that model the server's two indexes, the device
under them, the way of a request from the load generator to a handler and back,
and the life of the server with several clients, TLC configurations
that check them on small instances, and TLAPS proofs of the properties that carry
the rest. `PROJECT.json` lists, for machines, the components, the runs, the
source lines behind every definition, the findings, the hazards and the theorems.

All paths below are relative to the repository (`src/` is its source directory).

## The system

Load generators (`src/client.cc`) send SETs, each over one TCP connection. The server
(`src/temp.cc`) has one master thread (`src/master.c`), which reads requests and
routes each to one of several *handlers*, one per device (`src/handler.c`). A
handler has a pool of `struct request`s, a flow-control lock that counts the
requests in flight, a queue of new requests, a queue of requests to run again, a
request thread, a poller thread for asynchronous I/O, an index and a device.
The index is chosen by the Makefile: `-DBIGKV` (default) or `-DHOPSCOTCH`.

| component | state | operations | hard because |
|---|---|---|---|
| hopscotch index (`src/hopscotch.c`) | table of entries (distance, tag, address); per request the search position and step | `hopscotch_set` in three phases, `hopscotch_get`, `cb_keycmp`, displacement | a request leaves for a read in the middle and comes back to a table that others have changed |
| bigkv index (`src/bigkv_index.c`) | cached buckets with LRU and dirty bits; per partition the address of its table and a mark | `bigkv_index_set`, `bigkv_index_get`, their steps and callbacks | read-modify-write of a partition table in several steps, by SETs and GETs |
| device (`src/device.c`, `src/aio.c`, `src/poller.c`) | log of segments, the staged one in memory, I/Os in flight, pools of callbacks and iocbs | `get_next_pba`, `dev_abs_write`, `dev_abs_read`, `aio_poller` | reads, segment writes and completions in any order; the log wraps round; submissions fail; pools are used without a check |
| handler dispatch (`src/handler.c`) | `req_q`, `retry_q` | `forward_req_to_hlr`, `retry_req_to_hlr`, `get_next_request`, `request_handler` | the priority of retried requests decides what can interleave |
| requests (`src/request.c`) | `struct request` and its pool | `make_request_from_netreq`, `add_request_info`, `net_end_req` | reuse; the pool is used without a check |
| flow-control lock (`src/cond_lock.c`) | `now`, `cnt`, condition variable | `cl_grap`, `cl_release` | wakes only when the count was at its limit |
| queue (`src/queue.c`) | bounded FIFO under a mutex | `q_enqueue`, `q_dequeue` | refuses when full |
| master (`src/master.c`, `src/temp.cc`) | listening socket, epoll set, handlers, buffer of requests | `master_init`, `__accept_new_client`, `__process_request`, event loop | edge-triggered events; it serves while `master_init` still creates the handlers; one disconnect ends it |
| helpers (`src/util.c`) | the client's semaphore | `read_sock_bulk`, `send_request_bulk`, `send_ack`, `req_in`, `req_out` | partial reads, acks that do not block |
| load generator (`src/client.cc`) | socket, sequence number, batch, semaphore | `connect_server`, `load_kvpairs`, `ack_poller`, `bench_free`, `client_exit` | `ack_poller` starts before there is a socket; two threads, a signal and the server in any order |
| lock-free queue, `server.cc`, stopwatch, the keys of the key generator | | | not modelled: no state the properties depend on, or not built |

What makes each part correct:

- *index*: an acknowledged SET is found by every later GET; a GET never returns
  anything older than what was acknowledged when it was accepted; entries stay
  where a search looks; every accepted request is answered;
- *device*: a pair has its bytes for itself; until its segment is used again it is
  in the staging buffer, in a write in flight or on the device, and a read goes to
  the right one of them; callbacks, iocbs and buffers come back;
- *lock, pool, queue*: counts are exact, nothing is used that is not there, no
  wakeup is lost;
- *connection*: nothing that has arrived is left unread without an event, each
  request is acknowledged once;
- *server*: no connection is left without an event, the answers go to the client
  that asked, and the process ends only for a reason the code has;
- *client*: its semaphore counts what is unanswered, and the load phase ends.

**The dispatch as built.** In `request_handler` the lines

    req->end_req(req);
    continue;

(`src/handler.c:186-187`) answer every request before the dispatch to the index in
lines 189-212, which is therefore dead code at this commit. `RequestPath` models
what is built, with these two lines, and so does `Server`. `Hopscotch`, `BigKV` and
`Device` model the dispatch behind them, which is what the rest of the program is
for.

## Modules

    KVStore            what set_kv and get_kv promise
      ^        ^
    Hopscotch  BigKV            each implements KVStore
      |          |
    HopscotchTable  BigKVTable  data structures and pure functions
    
    Device             segments, grains, asynchronous I/O, poller, pools
    RequestPath        one client, socket, master, pool, lock, queue, handlers
    Server             several clients, start-up, accepting, disconnects

    MCHopscotch, MCBigKV, MCDevice, MCRequestPath, MCServer    instances for TLC
    HopscotchProofs, HopscotchSetProofs, BigKVTableProofs,
    BigKVProofs, RequestPathProofs, RequestOrderProofs,
    DeviceProofs, ServerProofs                                 theorems

**KVStore** is the abstract specification (`include/kv_ops.h`). Committed SETs form
one history. A SET commits at one point while it is pending; a GET returns the
newest version of its key as of some moment while it was pending.

**HopscotchTable / Hopscotch** (`src/hopscotch.c`, `src/handler.c`, `src/device.c`,
`src/aio.c`, `src/poller.c`). One handler. `table` is the array of
`struct hash_entry`; `req[r]` is a `struct request` with its `hop_params`;
`log[n]` is the key of the n-th pair, whose device address is n. `Probe` is phase
1 of both operations up to the read; `GetMiss`, `SetMatched`, `SetInsert` and
`SetAbort` are the other outcomes of one call; `ReadDone` is the poller's callback
`cb_keycmp`; `FlushDone` is the end of a segment's write. Each action is one whole
call: displacement, the choice of the address, the write to the staging buffer and
the acknowledgement happen within it, because only the handler thread writes the
table. A pair in the staged segment is read in the same call, callback included.
With `StaleReads` a read submitted while its segment is still being written may
return anything: the pair, or old contents of the device, which may be a pair of
any key. A read that `io_submit` refuses (`src/aio.c:20`, where the error is printed
and the result ignored) leaves its request in the state "lost" for ever; a segment
write that it refuses is one that never finishes (`FlushDone` may never happen).
Request buffers are zeroed, so a read of 0 bytes for a free entry (tag 0 matches free
entries) compares unequal. `disturbed` is history: it is set by the two things in the
code that break an index operation apart, an insertion that takes another SET by
surprise (`Surprises`: that SET searches for the same key and is past the place, or
is confirming the entry that is displaced) and a racy read that finds something else
than its pair.

**BigKVTable / BigKV** (`src/bigkv_index.c` with the same surroundings). `bucket` is
the cache, `part` the partitions with their mark (`flying`) and table address,
`log[n]` a pair or a whole partition table. SETs: `SetWait` (marked partition,
back to the retry queue), `SetFill`, `SetReadTable`, `SetWriteTable`. GETs:
`GetCached`, `GetReadTable`, `GetMiss`, `GetLoad`, and `GetLoadWrite` for the loop
through `get_target_retry`. `InsertError` and `ReadError` are the two aborts.
The 64-bit fingerprints of keys are assumed distinct and not 0
(`BigKVTableAssumption`): the code takes equal fingerprints for equal keys.
`LRU_MAX = NR_SET - 1` stands for the `0x3` that goes with `NR_SET = 4`. The device
is that of `Hopscotch`: a full segment is written asynchronously, a read of one of
its records submitted before that write has finished (`racy`) may find what was on
the device before, and a read that `io_submit` refuses is lost, with the partition's
mark set if it was that of a SET. A table read too early is a mix, cell by cell, of
the table and of what was there before, a member of `OldTables` (`Torn`); a pair read
too early compares equal or unequal. What was read stays with the request (`buf`)
until it is used, is merged and written back as it is, and its addresses are
followed, wherever they lead. `misread` is history: a read has found something else
than what was written.

**Device** (`src/device.c`, `src/aio.c`, `src/poller.c`, `include/handler.h`). The
device of one handler, with addresses in bytes as in the code. A SET is one step of
the handler from `get_next_pba` on (`set_staged`, or `set_next_segment` with the
submission of the full segment); a read is `read_staged` or `aio_read`; `perform` is
the kernel (external), which performs what was submitted in any order;
`io_getevents`, `run_callback`, `recycle` and `data_size_error` are the poller. A
call of the handler is one step because the other threads only add to the pools
meanwhile. What is abstracted: contents are kept per grain, as the number of the
pair that wrote it; a read beside a write of the same place in flight may return
either content, grain by grain (`Sees`); a fresh staging buffer is zero, as mmap
gives it (`USE_HUGEPAGE` is set in the Makefile); `io_submit` fails when the ring
that `io_setup` made is full, and only then; any pair ever written may be read, as
the index of a wrapped log may still point to it; the states of segments
(`SEG_STATE_*`) are written by the code but never read, and left out. `gen`,
`durable`, `spoiled`, `leaked` and `misread` are history. An empty pool ends the
process (`down = "pool"`): the code uses the NULL that `q_dequeue` returns.

**RequestPath** (`src/client.cc`, `src/util.c`, `src/master.c`, `src/request.c`,
`src/handler.c`, `src/cond_lock.c`, `src/queue.c`). One client, one connection, the
master and any number of handlers. A step is what a thread does between two
operations on shared state; in particular `net_end_req` is three steps (ack,
release, recycle), because the lock is released before the struct request is back
in the pool. `Arrive` and `ArriveClose` are the network (external): bytes arrive in
order, whole requests at a time, and set the edge-triggered event.
`q_enqueue` refuses when full; `forward_req_to_hlr` then drops the request and the
master thread ends, as in the code.

**Server** (`src/client.cc`, `src/keygen.c`, `src/master.c`, `src/temp.cc`). Several
clients and the server process from the start of both to the end: `main` and
`ack_poller` of each client, `main`, the master thread and the handlers of the
server. `main` of the server is `socket_init`, `create_master_thread`,
`handler_init` once per device, `join_master` and `main_returns`; the master thread
runs beside it from `create_master_thread` on. `ready` is epoll's ready list:
`Raise` adds a descriptor once (edge-triggered), a batch of `events` is taken whole,
and `accept_new_client` accepts one connection per event. `forward_crash` is a
request for a handler that `master_init` has not created, `socket_init_fails` and
`handler_init_fails` are the ends that failing calls give the start-up,
`use_after_free` is the use
of the `struct master` that the ended thread has freed (undefined behaviour: the
process may crash there or go on), `answer_killed` and `load_killed` are SIGPIPE.
A read of a connection that was reset fails or returns 0 (`read_nothing`): 0 if the
end of the stream came before the reset or an earlier read was told of it, and then
the master ends. Clients of `Interrupted` may get a SIGINT at any time; the descriptor 0 of a client
is at its end (`StdinAtEnd`) or a terminal at which nobody types. What is
abstracted: an answer is one step of a handler, delivery is immediate, the
decrements of the semaphore for one batch are taken together, `forward_req_to_hlr`
waits for room (all of these are taken apart in `RequestPath`); one read by
`ack_poller` takes all acknowledgements that are there.

## Runs

`tlc -workers 2 -config X.cfg M` in this directory. A run takes two and a half minutes
at most with two workers.

| run | checks | shows |
|---|---|---|
| hopscotch_atomic | NoDuplicates, NoLostSet, ImplementsKVStore | with two SETs and a GET in flight, racy reads and lost ones, the index is an atomic store up to the first insertion that takes another SET by surprise and the first read that overtakes a write |
| hopscotch_concurrent | TypeOK, Neighbourhood, PbaUnique, MovesOutward, Responds | with two SETs and a GET in flight and racy reads, entries stay findable and move only outward, addresses are unique, and every request is answered, loses a read, or the process aborts |
| hopscotch_confirm (violation) | ConfirmedSlotHoldsKey | with two SETs in flight a slot may be overwritten after another SET has displaced the confirmed entry |
| hopscotch_overtake (violation) | NotExistingKey | a read that overtakes its segment's write makes an existing key "not existing" |
| bigkv_mixed | TypeOK, LruExact, CachedOnce | any mix of SETs and GETs keeps buckets in order, whatever a table or pair read too early turns out to be |
| bigkv_phases | NothingLost, TablesSound, CleanIsWritten, ImplementsKVStore | while the requests in flight are all SETs or all GETs, and up to the first read that overtakes a write, nothing is lost, clean entries are in the table, and the index is an atomic store |
| bigkv_progress | MarkExact, Responds | one SET at a time rewrites a table, and SETs waiting for a marked partition get their turn, unless the read of its table was lost |
| bigkv_overlap (violation) | NotExistingKey | a GET and a SET rewrite the same table; the later one drops what the earlier one added |
| bigkv_miss (violation) | MissIsAnswered | a GET in a partition without a table reads at PBA_INVALID, and the poller aborts |
| path_load | TypeOK, ResourcesSuffice, NoLostWakeup, FlyingExact, OneHolder, SemaphoreExact, AcksInOrder, NothingStranded, LoadFinishes | pools, lock, queues, events and semaphore stay in step, and the load phase ends |
| device_log | TypeOK, ExtentsExact, PairsIntact, ReadsReturnPair, PoolsExact, PoolsOutlastRequests, CallbacksRun | the log keeps its pairs through wraps, races and failed submissions, reads find them, and pools and buffers are given back |
| server_clients | TypeOK, AcceptReady, NothingStranded, RequestsConserved, AcksToTheirClient, EndsOnlyByCause, ClientFinishes | two clients and a server that starts, serves and ends: what may go wrong is named, and nothing else does |

Every property of a passing run has a mutant: a variant of one definition (marked
"Mutant" in the modules) that a plausible slip in the code would be, under which
TLC finds the property violated.

Some properties hold only up to a point or under a condition, which they or the
constants state:

- `NoDuplicates`, `NoLostSet` and `ImplementsKVStore` of `Hopscotch` hold up to the
  step that sets `disturbed`. Every run has it: nothing is assumed about how many
  SETs are in flight or how reads and writes are ordered. The two violation runs show
  what happens after it. What these properties add is that there is no third cause:
  updates in place, displacements of entries that a GET is looking for, insertions
  ahead of a search, tag collisions and lost reads do no harm in any order.
- `NothingLost`, `TablesSound`, `CleanIsWritten` and `ImplementsKVStore` of `BigKV`,
  and the address in `CachedOnce`, hold until `misread`. They do not hold after it,
  SETs alone suffice: a SET reads its partition's table while the segment with it is
  being written, finds what was there before, adds its dirty entries and writes the
  result as the partition's table (`src/bigkv_index.c:394-411`); whatever only the
  lost table had is gone.
- `bigkv_phases` needs phases (`Overlap = FALSE`), as in the load generator: SETs
  with `load_kvpairs`, then `wait_until_finish`. `bigkv_overlap` shows what happens
  otherwise.
- `Responds` of both indexes does not cover a request whose read `io_submit` refused
  (`lost`). In `BigKV` such a read of a table leaves the partition marked, and the
  SETs of that partition go round the retry queue for ever; as retried requests go
  first, the handler takes no new request any more. `Spinning` names this state, in
  which nobody is answered.
- `PairsIntact` and `ReadsReturnPair` leave out the pairs of a segment whose write
  `io_submit` refused, or whose write was submitted while an earlier write of the
  same segment was in flight (`spoiled`), and those of a segment that has been
  submitted again since (`Flushed`): these are what the code loses.
- `PoolsOutlastRequests` bounds what is left when a pool runs empty. In the code,
  QSIZE is 1024 and at most QDEPTH = 256 requests and 2 * QDEPTH I/Os are in flight:
  a pool runs empty only after hundreds of submissions have failed, each of which
  keeps a callback and an iocb for ever.
- `ClientFinishes` names the two mishaps that keep a client from finishing while
  the server is up: it stays in the backlog, because one `accept` was done for the
  common event of connections that came together (`LeftBehind` says only that
  another client's connection came too, and not when); or its `ack_poller` reads, or has
  read, descriptor 0. `EndsOnlyByCause` names what ends the server: a client
  hanging up, or a crash before all handlers are created.
- `EndsOnlyByCause` counts a failing start-up (`master_init`, `handler_init`) among
  the crashes before all handlers are created.
- `hopscotch_set` aborts when a neighbourhood is full and nothing in it can be
  displaced ("Need to resize the table", `src/hopscotch.c:239`, where the
  repository's README speaks of a table "resizing itself"); `Responds` and the
  safety properties hold up to this abort.
- `MarkExact`: the mark is looked at only in the first step of a SET. That two SETs
  never rewrite the same table is due to `get_next_request` serving retried
  requests first; with the queues swapped (the mutant) it fails.

### Bounds

- *Hopscotch*: 4 slots, neighbourhoods of 2, three keys (four in the violation runs)
  of which two share home and tag (tag 0, that of free entries) and one has the next
  home (the fourth shares the home only). Three inserts displace an entry. Two
  pairs per segment: staged, flushing and flushed segments occur together. The
  passing runs stop accepting SETs at three pairs, the ones in flight still add
  theirs: a third insertion displaces an entry with another SET or a GET in flight,
  and reads of the first segment race its write; with duplicates of a key left by two
  SETs a neighbourhood is full. Updates after a displacement and five pairs are in the
  violation runs' instances; what the passing runs say, except `Responds`, is proved
  for every size.
- *BigKV*: 2 buckets in one partition, 1 or 2 entries per bucket, a table of 4 cells
  with 2 hops, keys that collide in bucket and in cell. SETs are accepted up to 4 or
  5 records (7 in the violation runs), segments hold 2 or 3: evictions, rewrites of a
  table read back from the device, from the staging buffer or too early, probing to a
  second cell, and a table without room all happen. `OldTables` is in each run one
  table: zeros, which are cells in use at address 0 to the code and address 1 here
  (`Zeros`), the cells of an unused table (`Unused`), or one with an entry at an
  address that is used later, or for another key (`Earlier`); with `Torn` each gives
  all mixes with the table that belongs there. `Responds` is checked with two SETs of
  keys of the same bucket and one entry in it, so that they compete for the mark. With
  GETs added, a SET that waits for a clean entry can be overtaken again and again by
  new requests; how often is limited in the model only by `MAX_PBA`, so that a pass
  would say nothing. In `bigkv_phases` requests are interchangeable (symmetry); it
  checks no liveness.
- *RequestPath*: 2 handlers, 8 requests, `QDEPTH` 2, `QSIZE` 4, client depth 5,
  batches and ack reads of 2. The pool is used more often than it has elements, the
  lock is full, and a batch is split over both handlers. `QSIZE = QDEPTH + 2` is the
  smallest that the assumption allows (1024 and 256 in the code), and
  `MAX_NETREQ_BUF = CLIENT_QDEPTH` as in the code (1024 each).
- *Device*: 2 segments of 2 grains, pairs of one grain and of one and a half, 5
  pairs: the log wraps twice, so that a segment's old pairs, its new ones and writes
  of both are there together. The ring holds 2 I/Os, so that reads and segment
  writes compete for it and submissions fail; the pools hold 4, and run empty. The
  poller takes up to 2 events at a time. One request reads at any time; the writes
  of segments are not bound to requests.
- *Server*: 2 clients with 2 requests each, in batches of 1, and 2 handlers that both
  clients use. Clients arrive before, during and after the start-up, together and
  apart; one may be interrupted, the other one's descriptor 0 is at its end; a
  client's requests arrive before it is accepted, in one event and in two.

`MAX_PBA` and `MAX_PAIR` bound SETs. The runs therefore set `CHECK_DEADLOCK FALSE`:
with the bound reached, after an abort, or after the load, nothing more happens.

### Fairness

Weak fairness of each thread and of the device: `request_handler` and `aio_poller`
spin for ever (`while (1)` without blocking), the operating system schedules all
threads, io_getevents returns each finished read, TCP delivers. New requests and the
completion of segment writes are not fair. In `Device` the kernel is fair to each I/O it has accepted. In `Server`
every thread is, and SIGINT, the end of descriptor 0, failing calls and SIGPIPE are
not. Under this fairness, `Responds` needs progress in every round through
the retry queue, and `LoadFinishes` that no wakeup, event or ack is lost.
`LoadFinishes` ends where `bench_free` starts to join `ack_poller`: that thread is
then blocked in a read that only the close of the connection would end, and the
close comes after the join (`src/client.cc:43`).

## Proofs

`tlapm M.tla`. The theorems hold for every table size, hash function, number of
keys, requests, handlers and clients, under the modules' named assumptions
(`TableAssumption`, `HopscotchAssumption`, `BigKVTableAssumption`,
`BigKVAssumption`, `PathAssumption`, `DeviceAssumption`, `ServerAssumption`), which
say what the sizes in `include/config.h` satisfy. The only assumption beyond these is
`~Overlap` (SETs and GETs in separate phases) in three theorems of `BigKVProofs`, which
the load generator justifies and `bigkv_overlap` shows to be needed.

**HopscotchProofs.** `TypeCorrect`, `EntriesFindable` (Neighbourhood),
`AddressesUnique` (PbaUnique) and `EntriesMoveOutward` (MovesOutward), with any
number of SETs in flight and whatever racy reads return. The inductive invariant is
`TableInv == TypeOK /\ Neighbourhood /\ PbaUnique`. None of the parts is inductive
alone: displacement recomputes an entry's home from its slot and recorded distance,
which is right only by `Neighbourhood`; the copy it leaves behind must be the slot
that is filled next, which is what `PbaUnique` is about; and a new address is fresh
because `Neighbourhood` bounds the used ones by the log. The core is modular
arithmetic (`SlotArithmetic`: home + distance and back), `FreeEntry` (what
`find_free_entry` returns) and `FillKeeps` / `DisplaceKeeps` (the table that
`hopscotch_set` leaves). `EntriesMoveOutward` follows from the same invariant.

**HopscotchSetProofs.** For any number of SETs and GETs in flight, racy reads and lost
ones: `DuplicatesNever` (NoDuplicates), `SetsKept` (NoLostSet), `ConfirmedHolds`
(ConfirmedSlotHoldsKey), `MissesRight` (NotExistingKey) and `IsKVStore`
(ImplementsKVStore), each up to the step that sets `disturbed`. That step is defined
in the model by what the code does there, and the runs `hopscotch_confirm` and
`hopscotch_overtake` show one of each kind with its consequence; the theorems show that
nothing else has it. The inductive invariant is `AtomicInv`: the queues are exact
always, and `CalmInv` holds while nothing has been disturbed. The core of that,
`Search`, says of every request between two rounds that the entry it is due to find
lies ahead of it, or is the one it is reading. A SET is due to find its key whenever
the key has an entry; a GET only if the key had a version when the GET was accepted,
since an entry inserted later may lie behind it. `Updated` is what one hopscotch_set
does to the table: it is shown for an update in place and for an insertion with or
without displacement, and both the table's properties and the `Search` of every other
request survive it, because entries move outward only and because an insertion that
is no surprise to another SET of the same key lies ahead of it. The refinement follows
step by step: a SET that ends is `CommitSet`, a GET that ends is `ReplyGet` with a
version that `Search` shows to be new enough, a read that is lost changes nothing, and
every other step but an acceptance changes nothing that a client sees.

**BigKVTableProofs / BigKVProofs.** For any mix of requests, racy reads and lost ones:
`TypesHold`, `LruHolds`, `CachedOnceHolds`, `TablesHold` and `MarkHolds`, of which
`TypesHold`, `LruHolds` and `MarkHolds` hold whatever a racy read has found, and what
`CachedOnceHolds` and `TablesHold` say of addresses until `misread`. If SETs and GETs do
not overlap: `NothingLostHolds` and `CleanIsWrittenHolds`, until `misread`, which need
this: in the instance of the run `bigkv_overlap` both are violated. Three invariants
build on each other:

- `IndexInv`: types; every bucket's LRU bits are the ranks of its used entries; each
  key is cached once and in its bucket; what each request has read; the queues; and
  that entries and tables point to pairs of their keys and a search finds whatever a
  table has. `LruExact` is not inductive alone: that the ranks are the first n numbers
  is what ageing keeps. The statements about what is read take a parameter, `Doubt`,
  which is 0 until `misread` and 1 after it: in doubt they keep the types,
  where a request is in its steps, the bucket of every entry and that a partition's
  address is that of a table, and drop what addresses of pairs lead to and what
  tables hold.
- `MarkInv`: `MarkExact`, and at most one SET waits at any time, because new requests
  run only when the retry queue is empty. A SET that looks for an entry again after
  its write-back finds the partition unmarked, and either nothing in it is dirty or
  nobody waits, so that no second rewrite can start.
- `SafeInv` (until `misread`): cache and table lead to the newest pair of every key, clean entries are
  in the table, all requests in flight are of one type, and the table that a request
  holds is not out of date. A GET may hold an older table than the partition's, but
  then nothing in the partition is dirty and its key's newest pair is in both.

The loop of `update_part_table` is a recursive function of the number of entries
merged. What it does (lemma `UpdatePartTable`) is proved for every number by taking
the smallest number for which it would be wrong (`SmallestOne`, from the
well-foundedness of the naturals), which needs no induction scheme.

**RequestPathProofs.** `TypeCorrect`, `FlyingIsExact`, `WakeupNotLost` and
`PoolSuffices`. The inductive invariant `CountsInv` says that the lock's count is
the number of requests between grap and release, that pool, queue and hands
together make `QSIZE`, that program counters and hands agree, and that the lock is
never overdrawn. `TypeOK` needs `Filled`: that a request outside the pool carries a
sequence number. `NoLostWakeup` needs the exact count: a release wakes only at the
limit, so the master must never wait below it. `PoolSuffices` is arithmetic from
`CountsInv` and `QSIZE >= QDEPTH + 2`, and is itself used to show that `q_enqueue`
never refuses.

**RequestOrderProofs.** `OneHolderHolds`, `SemaphoreHolds`, `AcksAreInOrder` and
`StrandedNever`. The inductive invariant `PathInv` adds to `CountsInv`: what the
master has not forwarded is numbered without a gap from the first request not yet
taken (`StreamInv`); every struct request is in the pool, a queue or one hand, and
in one of them only (`PlaceInv`); queues are sorted, belong to their handler and
are newer than what it has answered (`OrderInv`). They need each other: a struct
request that is reused keeps the contents the order is about only because its
places are apart, and a full socket or a second read would break the order.
`SemaphoreExact` and `NothingStranded` come from counting: acknowledgements under
way carry distinct numbers of requests in flight, at most `CLIENT_QDEPTH` of them,
and so fit the socket; and one read takes all that has arrived, because
`CLIENT_QDEPTH` requests fit into the master's buffer.

**DeviceProofs.** `TypesHold`, `ExtentsHold`, `PairsHold`, `ReadsHold`, `PoolsHold`
and `PoolsOutlast`, from one inductive invariant (`Invariance`): where the log's
segments and pairs lie and that they are apart (the arithmetic of
`get_next_pba`: bytes rounded up to grains, sizes rounded down), what a write and
a read in flight are about, which requests wait, and both pools' counts.
`PairsIntact` needs to know that a write in flight carries what its segment's
pairs were when it was full, and `ReadsReturnPair` that a read was submitted when
its pair could be found, and that nothing that happens to the segment before the
read is performed changes it.

**ServerProofs.** `TypesHold`, `AcceptsHold`, `CausesHold`, `StrandedNever`,
`AcksHold` and `ConservedHold`, for any number of clients. The inductive invariant
has a part for the event loop and its batch, for the listening socket, for the
start-up, for each client's program counters, for the credit of its semaphore, for
where its requests are and that none is in two places, and the properties
themselves. The credit bounds what can lie in a connection (the requests in it are
distinct and unanswered), `CLIENT_QDEPTH <= MAX_NETREQ_BUF` then makes one read
empty it, and that is why consuming an edge-triggered event strands nothing.

**Only model-checked.** Liveness (`Responds`, `LoadFinishes`, `CallbacksRun`,
`ClientFinishes`), which is outside what the prover does; and `ImplementsKVStore` of
`BigKV`: its history is the log without the tables (`PairsIn`, a `SelectSeq`), and
what a recursively defined selection contains takes an induction over sequences that
the prover cannot do. What the refinement rests on, `NothingLost`, is proved.

## Not modelled

- The wrap of the log under the indexes: what an index does with a record that has
  been overwritten is what it does with a racy read (`StaleReads`). A racy table may
  lead anywhere; an address behind the end of the device, where the poller aborts, is
  not among the ones it leads to.
- A request that arrives in pieces (`read_sock_bulk` reads on until the request is
  whole), a socket that is full, and input on the descriptor 0 of a client, which
  `ack_poller` would take for acknowledgements.
- Failures of `fcntl` and `epoll_ctl` while a client is accepted, which end the
  master thread as a failing `accept` does; `epoll_wait` interrupted by a signal.
- `handler_free`, the only place that sets `stopflag_hlr`, which nothing built calls;
  `delete_kv`, which is empty and never called; `run_bench`, which `main` has
  commented out.
- The hash function (a constant), statistics, printing, option parsing.
- `src/server.cc` and `src/lfqueue.c`, which nothing built uses; the random keys and
  distributions of `src/keygen.c`.

## Plan

Done: KVStore; HopscotchTable and Hopscotch, BigKVTable and BigKV, RequestPath, Device
and Server, each with its proofs. Every safety invariant of the runs is stated by a
theorem, and Hopscotch's refinement of KVStore is proved.

What is left: the refinement of KVStore by BigKV for every size, with its history written as a
function of the addresses of the pairs (their ranks by `Cardinality`) instead of a
`SelectSeq`, and `NotExistingKey` of BigKV without overlap.
