---------------------------- MODULE RequestPath ----------------------------
(***************************************************************************)
(* The way of a request through the program, from the load generator       *)
(* (src/client.cc) over the socket to the master thread (src/master.c),    *)
(* through the request pool, the flow-control lock and the queue of a      *)
(* handler (src/request.c, src/handler.c, src/cond_lock.c, src/queue.c)    *)
(* and back as an acknowledgement.                                         *)
(*                                                                         *)
(* Threads: the client's main thread and its ack_poller, the master, and   *)
(* one request_handler per device.  A step is what a thread does between   *)
(* two operations on shared state.  request_handler answers every request  *)
(* by end_req as soon as it is dequeued, as the code does.                 *)
(***************************************************************************)
EXTENDS Integers, Sequences

CONSTANTS Handlers,        \* one per device
          Route,           \* handler of the request with a given seq_num
          NR_KEY,          \* requests the client sends
          CLIENT_QDEPTH,   \* requests the client leaves unanswered at most
          NR_BATCH,        \* requests the client sends at a time (nr_arr)
          NR_ACK,          \* acks the client reads at a time (na_arr)
          MAX_NETREQ_BUF,  \* requests the master reads at a time
          QDEPTH,          \* requests in flight in a handler
          QSIZE,           \* size of every queue, and requests in a pool
          SOCK_ACKS        \* acks that fit in the client's socket

\* What the sizes of config.h, master.h and client.cc satisfy.
ASSUME PathAssumption ==
    /\ NR_KEY \in Nat \ {0}
    /\ Route \in [1..NR_KEY -> Handlers]
    /\ NR_ACK \in Nat \ {0}
    /\ NR_BATCH \in 1..CLIENT_QDEPTH
    /\ CLIENT_QDEPTH \in 1..MAX_NETREQ_BUF
    /\ MAX_NETREQ_BUF \in Nat
    /\ QDEPTH \in Nat \ {0}
    /\ QSIZE \in Nat
    /\ QSIZE >= QDEPTH + 2
    /\ SOCK_ACKS \in Nat
    /\ SOCK_ACKS >= CLIENT_QDEPTH

VARIABLES
    \* the client
    seq_num,   \* seq_num_global, the last sequence number given out
    nr_arr,    \* the batch being put together
    sem,       \* the semaphore
    client,    \* "load", "finish" (wait_until_finish), "join" or "closed"
    apc,       \* ack_poller: "check" of stopflag, "read", or "done"
    \* the connection
    wire,      \* requests written by the client and not yet arrived
    inbox,     \* requests arrived and not yet read
    eof,       \* the close of the client has arrived
    edge,      \* the edge-triggered event of the connection is pending
    acks,      \* acknowledgements written and not yet read
    \* the master
    mpc,       \* what it does next
    netreq_buf,\* requests read and not yet turned into struct requests
    mreq,      \* the struct request in hand, 0 when none
    \* the handlers
    req_arr,   \* contents (the seq_num) of every struct request
    req_pool,  \* free struct requests
    flying,    \* flying->now of the lock, QDEPTH is its cnt
    req_q,     \* accepted requests
    hpc,       \* what the thread does next
    hreq,      \* the struct request in hand, 0 when none
    \* history
    acklog     \* every acknowledgement ever written

clientVars  == <<seq_num, nr_arr, sem, client, apc>>
sockVars    == <<wire, inbox, eof, edge, acks>>
masterVars  == <<mpc, netreq_buf, mreq>>
handlerVars == <<req_arr, req_pool, flying, req_q, hpc, hreq>>
vars == <<clientVars, sockVars, masterVars, handlerVars, acklog>>

SeqNums  == 1..NR_KEY
Requests == 1..QSIZE   \* the struct requests of one handler (req_arr)

\* The handler of the request the master is working on.
Target == Route[Head(netreq_buf)]

\* A queue of at most QSIZE elements; q_enqueue fails when it is full.
q_full(q) == Len(q) = QSIZE

q_enqueue(x, q) == IF q_full(q) THEN q ELSE Append(q, x)

Init ==
    /\ seq_num = 0
    /\ nr_arr = << >>
    /\ sem = CLIENT_QDEPTH
    /\ client = "load"
    /\ apc = "check"
    /\ wire = << >>
    /\ inbox = << >>
    /\ eof = FALSE
    /\ edge = FALSE
    /\ acks = << >>
    /\ mpc = "epoll_wait"
    /\ netreq_buf = << >>
    /\ mreq = 0
    /\ req_arr = [h \in Handlers |-> [q \in Requests |-> 0]]
    /\ req_pool = [h \in Handlers |-> [q \in Requests |-> q]]
    /\ flying = [h \in Handlers |-> 0]
    /\ req_q = [h \in Handlers |-> << >>]
    /\ hpc = [h \in Handlers |-> "dequeue"]
    /\ hreq = [h \in Handlers |-> 0]
    /\ acklog = << >>

-----------------------------------------------------------------------------
(* The client. *)

\* load_kvpairs, inner loop: wait for the semaphore, add a request.
req_in ==
    /\ client = "load"
    /\ seq_num < NR_KEY
    /\ Len(nr_arr) < NR_BATCH
    /\ sem > 0
    /\ sem' = sem - 1
    /\ seq_num' = seq_num + 1
    /\ nr_arr' = Append(nr_arr, seq_num + 1)
    /\ UNCHANGED <<client, apc, sockVars, masterVars, handlerVars, acklog>>

\* load_kvpairs, outer loop: send the batch; the loop ends with the last key.
send_request_bulk ==
    /\ client = "load"
    /\ Len(nr_arr) = NR_BATCH \/ seq_num = NR_KEY
    /\ wire' = wire \o nr_arr
    /\ nr_arr' = << >>
    /\ client' = IF seq_num = NR_KEY THEN "finish" ELSE client
    /\ UNCHANGED <<seq_num, sem, apc, inbox, eof, edge, acks, masterVars,
                   handlerVars, acklog>>

\* wait_until_finish returns and bench_free sets stopflag.
wait_until_finish ==
    /\ client = "finish"
    /\ sem = CLIENT_QDEPTH
    /\ client' = "join"
    /\ UNCHANGED <<seq_num, nr_arr, sem, apc, sockVars, masterVars, handlerVars, acklog>>

\* bench_free: the ack_poller has ended, close the connection.
bench_free ==
    /\ client = "join"
    /\ apc = "done"
    /\ client' = "closed"
    /\ UNCHANGED <<seq_num, nr_arr, sem, apc, sockVars, masterVars, handlerVars, acklog>>

\* ack_poller looks at stopflag before each read, and never during one.
ack_check ==
    /\ apc = "check"
    /\ apc' = IF client = "join" THEN "done" ELSE "read"
    /\ UNCHANGED <<seq_num, nr_arr, sem, client, sockVars, masterVars, handlerVars, acklog>>

\* Mutant: one post of the semaphore per read.
ack_read_one_post ==
    /\ apc = "read"
    /\ \E n \in 1..Len(acks) :
          /\ n <= NR_ACK
          /\ acks' = SubSeq(acks, n + 1, Len(acks))
          /\ sem' = sem + 1
    /\ apc' = "check"
    /\ UNCHANGED <<seq_num, nr_arr, client, wire, inbox, eof, edge, masterVars,
                   handlerVars, acklog>>

\* ack_poller: a read returns some of the acks, each posts the semaphore.
ack_read ==
    /\ apc = "read"
    /\ \E n \in 1..Len(acks) :
          /\ n <= NR_ACK
          /\ acks' = SubSeq(acks, n + 1, Len(acks))
          /\ sem' = sem + n
    /\ apc' = "check"
    /\ UNCHANGED <<seq_num, nr_arr, client, wire, inbox, eof, edge, masterVars,
                   handlerVars, acklog>>

ack_poller == ack_check \/ ack_read

-----------------------------------------------------------------------------
(* The connection: what is written arrives in order, in pieces of any      *)
(* size, and each piece raises the event again (EPOLLET).  The close is    *)
(* the last thing to arrive.                                               *)

Arrive ==
    /\ \E n \in 1..Len(wire) :
          /\ inbox' = inbox \o SubSeq(wire, 1, n)
          /\ wire' = SubSeq(wire, n + 1, Len(wire))
    /\ edge' = TRUE
    /\ UNCHANGED <<eof, acks, clientVars, masterVars, handlerVars, acklog>>

ArriveClose ==
    /\ client = "closed"
    /\ wire = << >>
    /\ ~eof
    /\ eof' = TRUE
    /\ edge' = TRUE
    /\ UNCHANGED <<wire, inbox, acks, clientVars, masterVars, handlerVars, acklog>>

-----------------------------------------------------------------------------
(* The master. *)

\* Mutant: one request is read per event.
read_sock_bulk_one ==
    /\ mpc = "epoll_wait"
    /\ edge
    /\ inbox # << >>
    /\ netreq_buf' = SubSeq(inbox, 1, 1)
    /\ inbox' = Tail(inbox)
    /\ edge' = FALSE
    /\ mpc' = "make"
    /\ UNCHANGED <<mreq, wire, eof, acks, clientVars, handlerVars, acklog>>

\* epoll_wait and read_sock_bulk with data in the socket.
read_sock_bulk ==
    /\ mpc = "epoll_wait"
    /\ edge
    /\ inbox # << >>
    /\ LET n == IF Len(inbox) < MAX_NETREQ_BUF THEN Len(inbox) ELSE MAX_NETREQ_BUF
       IN  /\ netreq_buf' = SubSeq(inbox, 1, n)
           /\ inbox' = SubSeq(inbox, n + 1, Len(inbox))
    /\ edge' = FALSE
    /\ mpc' = "make"
    /\ UNCHANGED <<mreq, wire, eof, acks, clientVars, handlerVars, acklog>>

\* The event of data that an earlier read has already returned: EAGAIN.  Or
\* the client has closed: read returns 0 and the master thread ends.
read_nothing ==
    /\ mpc = "epoll_wait"
    /\ edge
    /\ inbox = << >>
    /\ edge' = FALSE
    /\ mpc' = IF eof THEN "exit" ELSE mpc
    /\ UNCHANGED <<netreq_buf, mreq, wire, inbox, eof, acks, clientVars,
                   handlerVars, acklog>>

\* Mutant: the seq_num is not copied into the struct request.
make_request_no_seq ==
    /\ mpc = "make"
    /\ req_pool[Target] # << >>
    /\ mreq' = Head(req_pool[Target])
    /\ req_pool' = [req_pool EXCEPT ![Target] = Tail(@)]
    /\ mpc' = "grap"
    /\ UNCHANGED <<netreq_buf, req_arr, flying, req_q, hpc, hreq, clientVars,
                   sockVars, acklog>>

\* Take a struct request from the handler's pool and fill it in.  The code
\* does not look whether there was one: see ResourcesSuffice.
make_request_from_netreq ==
    /\ mpc = "make"
    /\ req_pool[Target] # << >>
    /\ mreq' = Head(req_pool[Target])
    /\ req_pool' = [req_pool EXCEPT ![Target] = Tail(@)]
    /\ req_arr' = [req_arr EXCEPT ![Target][mreq'] = Head(netreq_buf)]
    /\ mpc' = "grap"
    /\ UNCHANGED <<netreq_buf, flying, req_q, hpc, hreq, clientVars, sockVars, acklog>>

\* cl_grap of forward_req_to_hlr: wait while QDEPTH requests are in flight.
cl_grap_wait ==
    /\ mpc = "grap"
    /\ flying[Target] = QDEPTH
    /\ mpc' = "cond_wait"
    /\ UNCHANGED <<netreq_buf, mreq, clientVars, sockVars, handlerVars, acklog>>

\* Mutant: the lock is taken whether it is full or not.
cl_grap_no_wait ==
    /\ mpc = "grap"
    /\ flying' = [flying EXCEPT ![Target] = @ + 1]
    /\ mpc' = "enqueue"
    /\ UNCHANGED <<netreq_buf, mreq, req_arr, req_pool, req_q, hpc, hreq,
                   clientVars, sockVars, acklog>>

cl_grap ==
    /\ mpc = "grap"
    /\ flying[Target] # QDEPTH
    /\ flying' = [flying EXCEPT ![Target] = @ + 1]
    /\ mpc' = "enqueue"
    /\ UNCHANGED <<netreq_buf, mreq, req_arr, req_pool, req_q, hpc, hreq,
                   clientVars, sockVars, acklog>>

\* Mutant: q_enqueue_front for q_enqueue.
forward_req_to_hlr_front ==
    /\ mpc = "enqueue"
    /\ ~q_full(req_q[Target])
    /\ req_q' = [req_q EXCEPT ![Target] = <<mreq>> \o @]
    /\ netreq_buf' = Tail(netreq_buf)
    /\ mreq' = 0
    /\ mpc' = IF Len(netreq_buf) = 1 THEN "epoll_wait" ELSE "make"
    /\ UNCHANGED <<req_arr, req_pool, flying, hpc, hreq, clientVars, sockVars, acklog>>

\* q_enqueue of forward_req_to_hlr, and the next round of the loop; when the
\* queue is full the master thread ends, and drops what it has read.
forward_req_to_hlr ==
    /\ mpc = "enqueue"
    /\ req_q' = [req_q EXCEPT ![Target] = q_enqueue(mreq, @)]
    /\ netreq_buf' = IF q_full(req_q[Target]) THEN << >> ELSE Tail(netreq_buf)
    /\ mreq' = 0
    /\ mpc' = IF q_full(req_q[Target]) THEN "exit"
              ELSE IF Len(netreq_buf) = 1 THEN "epoll_wait" ELSE "make"
    /\ UNCHANGED <<req_arr, req_pool, flying, hpc, hreq, clientVars, sockVars, acklog>>

-----------------------------------------------------------------------------
(* A handler. *)

get_next_request(h) ==
    /\ hpc[h] = "dequeue"
    /\ req_q[h] # << >>
    /\ hreq' = [hreq EXCEPT ![h] = Head(req_q[h])]
    /\ req_q' = [req_q EXCEPT ![h] = Tail(@)]
    /\ hpc' = [hpc EXCEPT ![h] = "ack"]
    /\ UNCHANGED <<req_arr, req_pool, flying, clientVars, sockVars, masterVars, acklog>>

\* net_end_req, send_ack: a write that does not block, whose failure (the
\* socket is full) is not looked at.
send_ack(h) ==
    /\ hpc[h] = "ack"
    /\ acks' = IF Len(acks) < SOCK_ACKS
               THEN Append(acks, req_arr[h][hreq[h]])
               ELSE acks
    /\ acklog' = Append(acklog, req_arr[h][hreq[h]])
    /\ hpc' = [hpc EXCEPT ![h] = "release"]
    /\ UNCHANGED <<req_arr, req_pool, flying, req_q, hreq, clientVars, wire,
                   inbox, eof, edge, masterVars>>

\* Mutant: nobody is woken.
cl_release_no_broadcast(h) ==
    /\ hpc[h] = "release"
    /\ flying' = [flying EXCEPT ![h] = @ - 1]
    /\ hpc' = [hpc EXCEPT ![h] = "recycle"]
    /\ UNCHANGED <<masterVars, req_arr, req_pool, req_q, hreq, clientVars,
                   sockVars, acklog>>

\* Mutant: the branch that wakes does not count down.
cl_release_no_count(h) ==
    /\ hpc[h] = "release"
    /\ flying' = [flying EXCEPT ![h] = IF @ = QDEPTH THEN @ ELSE @ - 1]
    /\ mpc' = IF mpc = "cond_wait" /\ Target = h /\ flying[h] = QDEPTH
              THEN "grap"
              ELSE mpc
    /\ hpc' = [hpc EXCEPT ![h] = "recycle"]
    /\ UNCHANGED <<netreq_buf, mreq, req_arr, req_pool, req_q, hreq, clientVars,
                   sockVars, acklog>>

\* net_end_req, cl_release: when the lock was full, wake whoever waits.
cl_release(h) ==
    /\ hpc[h] = "release"
    /\ flying' = [flying EXCEPT ![h] = @ - 1]
    /\ mpc' = IF mpc = "cond_wait" /\ Target = h /\ flying[h] = QDEPTH
              THEN "grap"
              ELSE mpc
    /\ hpc' = [hpc EXCEPT ![h] = "recycle"]
    /\ UNCHANGED <<netreq_buf, mreq, req_arr, req_pool, req_q, hreq, clientVars,
                   sockVars, acklog>>

\* Mutant: the struct request is not put back.
recycle_leak(h) ==
    /\ hpc[h] = "recycle"
    /\ hreq' = [hreq EXCEPT ![h] = 0]
    /\ hpc' = [hpc EXCEPT ![h] = "dequeue"]
    /\ UNCHANGED <<req_arr, req_pool, flying, req_q, clientVars, sockVars,
                   masterVars, acklog>>

\* net_end_req, the struct request goes back to the pool; whether the pool
\* took it is not looked at.
recycle(h) ==
    /\ hpc[h] = "recycle"
    /\ req_pool' = [req_pool EXCEPT ![h] = q_enqueue(hreq[h], @)]
    /\ hreq' = [hreq EXCEPT ![h] = 0]
    /\ hpc' = [hpc EXCEPT ![h] = "dequeue"]
    /\ UNCHANGED <<req_arr, flying, req_q, clientVars, sockVars, masterVars, acklog>>

request_handler(h) ==
    get_next_request(h) \/ send_ack(h) \/ cl_release(h) \/ recycle(h)

-----------------------------------------------------------------------------
client_main == req_in \/ send_request_bulk \/ wait_until_finish \/ bench_free

master_thread ==
    \/ read_sock_bulk
    \/ read_nothing
    \/ make_request_from_netreq
    \/ cl_grap_wait
    \/ cl_grap
    \/ forward_req_to_hlr

Next ==
    \/ client_main
    \/ ack_poller
    \/ Arrive
    \/ ArriveClose
    \/ master_thread
    \/ \E h \in Handlers : request_handler(h)

Spec == Init /\ [][Next]_vars

\* Every thread that can run goes on, and what was written arrives.
Fairness ==
    /\ WF_vars(client_main)
    /\ WF_vars(ack_poller)
    /\ WF_vars(Arrive)
    /\ WF_vars(master_thread)
    /\ \A h \in Handlers : WF_vars(request_handler(h))

FairSpec == Spec /\ Fairness

-----------------------------------------------------------------------------
(* Properties. *)

ClientTypeOK ==
    /\ seq_num \in 0..NR_KEY
    /\ nr_arr \in Seq(SeqNums)
    /\ sem \in Nat
    /\ client \in {"load", "finish", "join", "closed"}
    /\ apc \in {"check", "read", "done"}

SockTypeOK ==
    /\ wire \in Seq(SeqNums)
    /\ inbox \in Seq(SeqNums)
    /\ acks \in Seq(SeqNums)
    /\ acklog \in Seq(SeqNums)

EventTypeOK == eof \in BOOLEAN /\ edge \in BOOLEAN

MasterTypeOK ==
    /\ mpc \in {"epoll_wait", "make", "grap", "cond_wait", "enqueue", "exit"}
    /\ netreq_buf \in Seq(SeqNums)
    /\ mreq \in Requests \cup {0}

HandlerTypeOK ==
    /\ req_arr \in [Handlers -> [Requests -> SeqNums \cup {0}]]
    /\ req_pool \in [Handlers -> Seq(Requests)]
    /\ flying \in [Handlers -> Nat]
    /\ req_q \in [Handlers -> Seq(Requests)]
    /\ hpc \in [Handlers -> {"dequeue", "ack", "release", "recycle"}]
    /\ hreq \in [Handlers -> Requests \cup {0}]

TypeOK ==
    ClientTypeOK /\ SockTypeOK /\ EventTypeOK /\ MasterTypeOK /\ HandlerTypeOK

\* make_request_from_netreq uses what it takes from the pool without looking
\* whether there was anything, and forward_req_to_hlr gives up for ever when
\* the queue is full: neither happens.  The pool has to outlast the QDEPTH
\* requests in flight, the one in the master's hand and the one that a
\* handler has released but not yet put back.
ResourcesSuffice ==
    /\ mpc = "make" => req_pool[Target] # << >>
    /\ mpc = "enqueue" => ~q_full(req_q[Target])

\* No lost wakeup: as long as the master waits for a handler's lock, the lock
\* is full, so that a request still has to be released, and that release is
\* one that wakes.
NoLostWakeup ==
    mpc = "cond_wait" => flying[Target] = QDEPTH

\* What cl_grap has counted and cl_release has not yet discounted is exactly
\* what is in the queue or in a thread's hand.
InFlight(h) ==
    Len(req_q[h])
    + (IF mpc = "enqueue" /\ Target = h THEN 1 ELSE 0)
    + (IF hpc[h] \in {"ack", "release"} THEN 1 ELSE 0)

FlyingExact == \A h \in Handlers : flying[h] = InFlight(h)

\* The number of struct requests in the pool is what the queue and the two
\* threads leave of QSIZE.
MasterHolds(h)  == IF mreq # 0 /\ Target = h THEN 1 ELSE 0
HandlerHolds(h) == IF hreq[h] # 0 THEN 1 ELSE 0

PoolExact ==
    \A h \in Handlers :
        Len(req_pool[h]) + Len(req_q[h]) + MasterHolds(h) + HandlerHolds(h) = QSIZE

\* What the program counters say of the data the threads hold.
HandsExact ==
    /\ mpc \in {"epoll_wait", "exit"} <=> netreq_buf = << >>
    /\ mpc \in {"grap", "cond_wait", "enqueue"} <=> mreq # 0
    /\ \A h \in Handlers : hpc[h] = "dequeue" <=> hreq[h] = 0

\* A struct request outside the pool carries a sequence number.
Filled ==
    /\ mreq # 0 => req_arr[Target][mreq] \in SeqNums
    /\ \A h \in Handlers :
          /\ hreq[h] # 0 => req_arr[h][hreq[h]] \in SeqNums
          /\ \A i \in 1..Len(req_q[h]) : req_arr[h][req_q[h][i]] \in SeqNums

\* The inductive invariant: the counts of the lock and of the pool are exact
\* and the lock is never overdrawn.
CountsInv ==
    /\ TypeOK
    /\ HandsExact
    /\ Filled
    /\ FlyingExact
    /\ \A h \in Handlers : flying[h] <= QDEPTH
    /\ PoolExact
    /\ NoLostWakeup

\* Every struct request of a handler is in exactly one place.
Holders(h) ==
    req_pool[h] \o req_q[h]
    \o (IF mreq # 0 /\ Target = h THEN <<mreq>> ELSE << >>)
    \o (IF hreq[h] # 0 THEN <<hreq[h]>> ELSE << >>)

OneHolder ==
    \A h \in Handlers :
        /\ Len(Holders(h)) = QSIZE
        /\ \A q \in Requests : \E i \in 1..Len(Holders(h)) : Holders(h)[i] = q

\* The client's semaphore counts what is unanswered, however the requests
\* are spread over the batch, the socket, the master and the handlers: no ack
\* is lost (the socket never overflows) and none is doubled.
SemaphoreExact ==
    /\ sem + (seq_num - (Len(acklog) - Len(acks))) = CLIENT_QDEPTH
    /\ client \in {"join", "closed"} => Len(acklog) = NR_KEY /\ acks = << >>

\* Requests of one handler are answered in the order they were sent, each
\* once, with their own seq_num although the struct requests are reused.
AcksInOrder ==
    \A i, j \in 1..Len(acklog) :
        i < j /\ Route[acklog[i]] = Route[acklog[j]] => acklog[i] < acklog[j]

\* The edge-triggered event is never consumed with requests left unread: the
\* buffer of the master takes all that a client can have outstanding.
NothingStranded == inbox # << >> => edge

\* The load phase comes to its end: every request is answered.
LoadFinishes == <>(client = "join")
=============================================================================
