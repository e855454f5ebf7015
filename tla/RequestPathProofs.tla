------------------------- MODULE RequestPathProofs -------------------------
(***************************************************************************)
(* Proofs about RequestPath, for every number of handlers, requests and    *)
(* every size that satisfies PathAssumption.                               *)
(***************************************************************************)
EXTENDS RequestPath, TLAPS

\* The pool that handler_init fills holds every struct request.
LEMMA FullPool ==
    /\ [q \in Requests |-> q] \in Seq(Requests)
    /\ Len([q \in Requests |-> q]) = QSIZE
  BY PathAssumption DEF Requests

\* 0, which stands for no request, is none.
LEMMA ZeroIsNoRequest == 0 \notin Requests /\ 0 \notin SeqNums
  BY DEF Requests, SeqNums

\* The state in which the threads start satisfies the invariant.
LEMMA InitCounts == Init => CountsInv
  <1> SUFFICES ASSUME Init PROVE CountsInv
    OBVIOUS
  <1>1. ClientTypeOK /\ SockTypeOK /\ EventTypeOK /\ MasterTypeOK
    <2>1. EventTypeOK
      BY Zenon DEF Init, EventTypeOK
    <2>2. ClientTypeOK
      BY PathAssumption DEF Init, ClientTypeOK
    <2> QED
      BY <2>1, <2>2 DEF Init, SockTypeOK, MasterTypeOK
  <1>2. HandlerTypeOK
    <2>1. req_pool \in [Handlers -> Seq(Requests)]
      BY FullPool DEF Init
    <2>2. req_arr \in [Handlers -> [Requests -> SeqNums \cup {0}]]
      BY DEF Init
    <2>3. flying \in [Handlers -> Nat] /\ req_q \in [Handlers -> Seq(Requests)]
      BY DEF Init
    <2> QED
      BY <2>1, <2>2, <2>3 DEF Init, HandlerTypeOK
  <1>3. HandsExact /\ Filled /\ NoLostWakeup
    BY DEF Init, HandsExact, Filled, NoLostWakeup
  <1>4. FlyingExact /\ \A h \in Handlers : flying[h] <= QDEPTH
    BY PathAssumption DEF Init, FlyingExact, InFlight
  <1>5. PoolExact
    <2> SUFFICES ASSUME NEW h \in Handlers
                 PROVE  Len(req_pool[h]) + Len(req_q[h]) + MasterHolds(h)
                          + HandlerHolds(h) = QSIZE
      BY DEF PoolExact
    <2>1. Len(req_pool[h]) = QSIZE
      BY FullPool DEF Init
    <2>2. Len(req_q[h]) = 0 /\ MasterHolds(h) = 0 /\ HandlerHolds(h) = 0
      BY DEF Init, MasterHolds, HandlerHolds
    <2> QED
      BY <2>1, <2>2, PathAssumption
  <1> QED
    BY <1>1, <1>2, <1>3, <1>4, <1>5 DEF CountsInv, TypeOK

\* Steps of the client and of the connection leave the counts alone.
LEMMA OutsideCounts ==
    ASSUME CountsInv,
           client_main \/ ack_poller \/ Arrive \/ ArriveClose
    PROVE  CountsInv'
  <1> USE DEF masterVars, handlerVars, sockVars, clientVars
  <1>1. /\ UNCHANGED <<mpc, netreq_buf, mreq, acklog>>
        /\ UNCHANGED <<req_arr, req_pool, flying, req_q, hpc, hreq>>
    BY DEF client_main, req_in, send_request_bulk, wait_until_finish, bench_free,
           ack_poller, ack_check, ack_read, Arrive, ArriveClose
  <1>2. MasterTypeOK' /\ HandlerTypeOK'
    BY <1>1 DEF CountsInv, TypeOK, MasterTypeOK, HandlerTypeOK
  <1>3. ClientTypeOK' /\ SockTypeOK' /\ EventTypeOK'
    <2> USE DEF CountsInv, TypeOK
    <2>1. CASE req_in
      <3>1. seq_num + 1 \in SeqNums
        BY <2>1, PathAssumption DEF ClientTypeOK, req_in, SeqNums
      <3>2. ClientTypeOK'
        BY <2>1, <3>1 DEF ClientTypeOK, req_in, SeqNums
      <3> QED
        BY <2>1, <3>2 DEF SockTypeOK, EventTypeOK, req_in
    <2>2. CASE send_request_bulk
      <3>1. ClientTypeOK' /\ SockTypeOK'
        BY <2>2 DEF ClientTypeOK, SockTypeOK, send_request_bulk
      <3> QED
        BY <2>2, <3>1 DEF EventTypeOK, send_request_bulk
    <2>3. CASE wait_until_finish \/ bench_free \/ ack_check
      BY <2>3 DEF ClientTypeOK, SockTypeOK, EventTypeOK, wait_until_finish,
                  bench_free, ack_check
    <2>4. CASE ack_read
      <3>1. PICK n \in 1..Len(acks) :
              acks' = SubSeq(acks, n + 1, Len(acks)) /\ sem' = sem + n
        BY <2>4 DEF ack_read
      <3>2. acks' \in Seq(SeqNums) /\ sem' \in Nat
        BY <3>1 DEF SockTypeOK, ClientTypeOK
      <3> QED
        BY <2>4, <3>2 DEF ClientTypeOK, SockTypeOK, EventTypeOK, ack_read
    <2>5. CASE Arrive
      <3>1. PICK n \in 1..Len(wire) :
              /\ inbox' = inbox \o SubSeq(wire, 1, n)
              /\ wire' = SubSeq(wire, n + 1, Len(wire))
        BY <2>5 DEF Arrive
      <3>2. SubSeq(wire, 1, n) \in Seq(SeqNums) /\ wire' \in Seq(SeqNums)
        BY <3>1 DEF SockTypeOK
      <3>3. inbox' \in Seq(SeqNums)
        BY <3>1, <3>2 DEF SockTypeOK
      <3>4. EventTypeOK'
        BY <2>5 DEF EventTypeOK, Arrive
      <3> QED
        BY <2>5, <3>2, <3>3, <3>4 DEF ClientTypeOK, SockTypeOK, Arrive
    <2>6. CASE ArriveClose
      <3>1. EventTypeOK'
        BY <2>6 DEF EventTypeOK, ArriveClose
      <3> QED
        BY <2>6, <3>1 DEF ClientTypeOK, SockTypeOK, ArriveClose
    <2> QED
      BY <2>1, <2>2, <2>3, <2>4, <2>5, <2>6 DEF client_main, ack_poller
  <1>4. HandsExact' /\ Filled' /\ NoLostWakeup'
    BY <1>1 DEF CountsInv, HandsExact, Filled, NoLostWakeup, Target
  <1>5. FlyingExact' /\ (\A h \in Handlers : flying[h] <= QDEPTH)' /\ PoolExact'
    BY <1>1 DEF CountsInv, FlyingExact, InFlight, PoolExact, MasterHolds,
                HandlerHolds, Target
  <1> QED
    BY <1>2, <1>3, <1>4, <1>5 DEF CountsInv, TypeOK

\* The pool and the queue never run out, because of the counts.
LEMMA EnoughResources == CountsInv => ResourcesSuffice
  <1> SUFFICES ASSUME CountsInv PROVE ResourcesSuffice
    OBVIOUS
  <1>0. /\ req_q \in [Handlers -> Seq(Requests)]
        /\ req_pool \in [Handlers -> Seq(Requests)]
        /\ flying \in [Handlers -> Nat]
    BY DEF CountsInv, TypeOK, HandlerTypeOK
  <1>1. ASSUME netreq_buf # << >> PROVE Target \in Handlers
    BY <1>1, PathAssumption DEF CountsInv, TypeOK, MasterTypeOK, Target, SeqNums
  <1> DEFINE t == Target
  <1>2. ASSUME mpc = "make" PROVE req_pool[t] # << >>
    <2>1. t \in Handlers /\ mreq = 0
      BY <1>1, <1>2 DEF CountsInv, HandsExact
    <2>2. Len(req_pool[t]) + Len(req_q[t]) + MasterHolds(t) + HandlerHolds(t) = QSIZE
      BY <2>1 DEF CountsInv, PoolExact
    <2>3. MasterHolds(t) = 0 /\ HandlerHolds(t) \in 0..1
      BY <2>1 DEF MasterHolds, HandlerHolds
    <2>4. Len(req_q[t]) <= QDEPTH
      <3>1. flying[t] = InFlight(t) /\ flying[t] <= QDEPTH
        BY <2>1 DEF CountsInv, FlyingExact
      <3> QED
        BY <1>0, <1>2, <2>1, <3>1, PathAssumption DEF InFlight
    <2>5. Len(req_pool[t]) >= 1
      <3>1. CASE HandlerHolds(t) = 0
        BY <1>0, <2>1, <2>2, <2>3, <2>4, <3>1, PathAssumption
      <3>2. CASE HandlerHolds(t) = 1
        BY <1>0, <2>1, <2>2, <2>3, <2>4, <3>2, PathAssumption
      <3> QED
        BY <2>3, <3>1, <3>2
    <2> QED
      BY <1>0, <2>1, <2>5
  <1>3. ASSUME mpc = "enqueue" PROVE ~q_full(req_q[t])
    <2>1. t \in Handlers
      BY <1>1, <1>3 DEF CountsInv, HandsExact
    <2>2. flying[t] = InFlight(t) /\ flying[t] <= QDEPTH
      BY <2>1 DEF CountsInv, FlyingExact
    <2>3. Len(req_q[t]) + 1 <= QDEPTH
      BY <1>0, <1>3, <2>1, <2>2, PathAssumption DEF InFlight
    <2> QED
      BY <1>0, <2>1, <2>3, PathAssumption DEF q_full
  <1> QED
    BY <1>2, <1>3 DEF ResourcesSuffice

\* A struct request that a handler holds has its place in the pool.
LEMMA RoomInPool ==
    ASSUME CountsInv, NEW h \in Handlers, hreq[h] # 0
    PROVE  ~q_full(req_pool[h])
  <1>1. /\ req_q \in [Handlers -> Seq(Requests)]
        /\ req_pool \in [Handlers -> Seq(Requests)]
    BY DEF CountsInv, TypeOK, HandlerTypeOK
  <1>2. Len(req_pool[h]) + Len(req_q[h]) + MasterHolds(h) + HandlerHolds(h) = QSIZE
    BY DEF CountsInv, PoolExact
  <1>3. HandlerHolds(h) = 1 /\ MasterHolds(h) \in {0, 1}
    BY DEF HandlerHolds, MasterHolds
  <1>4. CASE MasterHolds(h) = 0
    BY <1>1, <1>2, <1>3, <1>4, PathAssumption DEF q_full
  <1>5. CASE MasterHolds(h) = 1
    BY <1>1, <1>2, <1>3, <1>5, PathAssumption DEF q_full
  <1> QED
    BY <1>3, <1>4, <1>5

\* Steps of the master.
LEMMA MasterCounts ==
    ASSUME CountsInv, master_thread
    PROVE  CountsInv'
  <1> USE DEF masterVars, handlerVars, sockVars, clientVars
  <1>1. CASE read_sock_bulk
    <2> DEFINE n == IF Len(inbox) < MAX_NETREQ_BUF THEN Len(inbox) ELSE MAX_NETREQ_BUF
    <2>1. /\ n \in 1..Len(inbox)
          /\ netreq_buf' = SubSeq(inbox, 1, n)
          /\ inbox' = SubSeq(inbox, n + 1, Len(inbox))
      BY <1>1, PathAssumption DEF read_sock_bulk, CountsInv, TypeOK, SockTypeOK
    <2>2. /\ netreq_buf' \in Seq(SeqNums) /\ netreq_buf' # << >>
          /\ inbox' \in Seq(SeqNums)
      BY <2>1 DEF CountsInv, TypeOK, SockTypeOK
    <2>3. mreq = 0 /\ mreq' = 0 /\ mpc = "epoll_wait" /\ mpc' = "make"
      BY <1>1 DEF read_sock_bulk, CountsInv, HandsExact
    <2>4. TypeOK' /\ HandsExact'
      <3>1. EventTypeOK'
        BY <1>1 DEF read_sock_bulk, CountsInv, TypeOK, EventTypeOK
      <3>2. ClientTypeOK' /\ SockTypeOK' /\ MasterTypeOK' /\ HandlerTypeOK'
        BY <1>1, <2>2, <2>3 DEF read_sock_bulk, CountsInv, TypeOK, ClientTypeOK,
                                SockTypeOK, MasterTypeOK, HandlerTypeOK
      <3>3. HandsExact'
        BY <1>1, <2>2, <2>3 DEF read_sock_bulk, CountsInv, HandsExact
      <3> QED
        BY <3>1, <3>2, <3>3 DEF TypeOK
    <2>5. Filled' /\ NoLostWakeup'
      BY <1>1, <2>3 DEF read_sock_bulk, CountsInv, Filled, NoLostWakeup
    <2>6. FlyingExact' /\ (\A h \in Handlers : flying[h] <= QDEPTH)' /\ PoolExact'
      BY <1>1, <2>3 DEF read_sock_bulk, CountsInv, FlyingExact, InFlight, PoolExact,
                        MasterHolds, HandlerHolds
    <2> QED
      BY <2>4, <2>5, <2>6 DEF CountsInv
  <1>2. CASE read_nothing
    <2>1. mpc = "epoll_wait" /\ mpc' \in {"epoll_wait", "exit"}
      BY <1>2 DEF read_nothing
    <2>t. TypeOK'
      <3>1. EventTypeOK'
        BY <1>2 DEF read_nothing, CountsInv, TypeOK, EventTypeOK
      <3> QED
        BY <1>2, <2>1, <3>1 DEF read_nothing, CountsInv, TypeOK, ClientTypeOK,
                                SockTypeOK, MasterTypeOK, HandlerTypeOK
    <2>2. HandsExact' /\ Filled' /\ NoLostWakeup'
      BY <1>2, <2>1 DEF read_nothing, CountsInv, HandsExact, Filled,
                        NoLostWakeup, Target
    <2>3. FlyingExact' /\ (\A h \in Handlers : flying[h] <= QDEPTH)' /\ PoolExact'
      BY <1>2, <2>1 DEF read_nothing, CountsInv, FlyingExact, InFlight, PoolExact,
                        MasterHolds, HandlerHolds, Target
    <2> QED
      BY <2>t, <2>2, <2>3 DEF CountsInv
  <1> DEFINE t == Target
  <1>t. ASSUME netreq_buf # << >> PROVE t \in Handlers
    BY <1>t, PathAssumption DEF CountsInv, TypeOK, MasterTypeOK, Target, SeqNums
  <1>3. CASE make_request_from_netreq
    <2>1. mpc = "make" /\ mpc' = "grap" /\ mreq = 0 /\ t' = t /\ t \in Handlers
      BY <1>3, <1>t DEF make_request_from_netreq, CountsInv, HandsExact, Target
    <2>2. /\ req_pool[t] \in Seq(Requests) /\ req_pool[t] # << >>
          /\ mreq' = Head(req_pool[t]) /\ mreq' \in Requests
          /\ Tail(req_pool[t]) \in Seq(Requests)
          /\ Len(Tail(req_pool[t])) = Len(req_pool[t]) - 1
      BY <1>3, <2>1 DEF make_request_from_netreq, CountsInv, TypeOK, HandlerTypeOK
    <2>3. /\ req_arr' = [req_arr EXCEPT ![t][mreq'] = Head(netreq_buf)]
          /\ Head(netreq_buf) \in SeqNums
          /\ req_pool' = [req_pool EXCEPT ![t] = Tail(req_pool[t])]
      BY <1>3, <2>1 DEF make_request_from_netreq, CountsInv, TypeOK, MasterTypeOK,
                        HandsExact
    <2>4. TypeOK' /\ HandsExact'
      <3>1. ClientTypeOK' /\ SockTypeOK' /\ EventTypeOK'
        BY <1>3 DEF make_request_from_netreq, CountsInv, TypeOK, ClientTypeOK,
                    SockTypeOK, EventTypeOK
      <3>2. MasterTypeOK' /\ HandlerTypeOK'
        BY <1>3, <2>1, <2>2, <2>3 DEF make_request_from_netreq, CountsInv, TypeOK,
                                      MasterTypeOK, HandlerTypeOK
      <3>3. HandsExact'
        BY <1>3, <2>1, <2>2, ZeroIsNoRequest
        DEF make_request_from_netreq, CountsInv, HandsExact
      <3> QED
        BY <3>1, <3>2, <3>3 DEF TypeOK
    <2>5. Filled'
      <3>1. req_arr'[t][mreq'] \in SeqNums
        BY <2>1, <2>2, <2>3 DEF CountsInv, TypeOK, HandlerTypeOK
      <3>2. ASSUME NEW h \in Handlers, NEW q \in Requests, req_arr[h][q] \in SeqNums
            PROVE  req_arr'[h][q] \in SeqNums
        BY <2>1, <2>2, <2>3, <3>2 DEF CountsInv, TypeOK, HandlerTypeOK
      <3>3. \A h \in Handlers : \A i \in 1..Len(req_q[h]) : req_q[h][i] \in Requests
        BY DEF CountsInv, TypeOK, HandlerTypeOK
      <3>4. \A h \in Handlers : hreq[h] # 0 => hreq[h] \in Requests
        BY DEF CountsInv, TypeOK, HandlerTypeOK
      <3> QED
        BY <1>3, <2>1, <3>1, <3>2, <3>3, <3>4
        DEF make_request_from_netreq, CountsInv, Filled
    <2>6. NoLostWakeup' /\ FlyingExact' /\ (\A h \in Handlers : flying[h] <= QDEPTH)'
      BY <1>3, <2>1 DEF make_request_from_netreq, CountsInv, NoLostWakeup,
                        FlyingExact, InFlight
    <2>7. PoolExact'
      <3> SUFFICES ASSUME NEW h \in Handlers
                   PROVE  (Len(req_pool[h]) + Len(req_q[h]) + MasterHolds(h)
                             + HandlerHolds(h) = QSIZE)'
        BY DEF PoolExact
      <3>1. /\ req_q \in [Handlers -> Seq(Requests)]
            /\ req_pool \in [Handlers -> Seq(Requests)]
            /\ req_pool' \in [Handlers -> Seq(Requests)]
            /\ req_q' = req_q /\ hreq' = hreq
        BY <1>3, <2>4 DEF make_request_from_netreq, CountsInv, TypeOK, HandlerTypeOK
      <3>2. Len(req_pool[h]) + Len(req_q[h]) + HandlerHolds(h) = QSIZE
        BY <2>1, <3>1 DEF CountsInv, PoolExact, MasterHolds, HandlerHolds
      <3>3. CASE h = t
        <4>1. /\ MasterHolds(h)' = 1
              /\ Len(req_pool'[h]) = Len(req_pool[h]) - 1
          BY <2>1, <2>2, <2>3, <3>3, ZeroIsNoRequest
          DEF MasterHolds, CountsInv, TypeOK, HandlerTypeOK
        <4> QED
          BY <3>1, <3>2, <4>1 DEF HandlerHolds
      <3>4. CASE h # t
        <4>1. MasterHolds(h)' = 0 /\ req_pool'[h] = req_pool[h]
          BY <2>1, <2>3, <3>4 DEF MasterHolds, CountsInv, TypeOK, HandlerTypeOK
        <4> QED
          BY <3>1, <3>2, <4>1 DEF HandlerHolds
      <3> QED
        BY <3>3, <3>4
    <2> QED
      BY <2>4, <2>5, <2>6, <2>7 DEF CountsInv
  <1>4. CASE cl_grap_wait
    <2>1. mpc = "grap" /\ mpc' = "cond_wait"
      BY <1>4 DEF cl_grap_wait
    <2>2. TypeOK' /\ HandsExact' /\ Filled' /\ NoLostWakeup'
      BY <1>4, <2>1 DEF cl_grap_wait, CountsInv, TypeOK, ClientTypeOK, SockTypeOK,
                        EventTypeOK, MasterTypeOK, HandlerTypeOK, HandsExact,
                        Filled, NoLostWakeup, Target
    <2>3. FlyingExact' /\ (\A h \in Handlers : flying[h] <= QDEPTH)' /\ PoolExact'
      BY <1>4, <2>1 DEF cl_grap_wait, CountsInv, FlyingExact, InFlight, PoolExact,
                        MasterHolds, HandlerHolds, Target
    <2> QED
      BY <2>2, <2>3 DEF CountsInv
  <1>5. CASE cl_grap
    <2>1. mpc = "grap" /\ mpc' = "enqueue" /\ t' = t /\ t \in Handlers
      BY <1>5, <1>t DEF cl_grap, CountsInv, HandsExact, Target
    <2>2. /\ flying[t] \in Nat /\ flying[t] < QDEPTH
          /\ flying' = [flying EXCEPT ![t] = flying[t] + 1]
      BY <1>5, <2>1, PathAssumption DEF cl_grap, CountsInv, TypeOK, HandlerTypeOK
    <2>t. TypeOK'
      BY <1>5, <2>1, <2>2 DEF cl_grap, CountsInv, TypeOK, ClientTypeOK, SockTypeOK,
                              EventTypeOK, MasterTypeOK, HandlerTypeOK
    <2>3. HandsExact' /\ Filled' /\ NoLostWakeup'
      BY <1>5, <2>1 DEF cl_grap, CountsInv, HandsExact, Filled, NoLostWakeup, Target
    <2>4. (\A h \in Handlers : flying[h] <= QDEPTH)' /\ PoolExact'
      BY <1>5, <2>1, <2>2, PathAssumption
      DEF cl_grap, CountsInv, TypeOK, HandlerTypeOK, PoolExact, MasterHolds,
          HandlerHolds
    <2>5. FlyingExact'
      <3> SUFFICES ASSUME NEW h \in Handlers
                   PROVE  (flying[h] = InFlight(h))'
        BY DEF FlyingExact
      <3>1. /\ req_q \in [Handlers -> Seq(Requests)] /\ flying \in [Handlers -> Nat]
            /\ req_q' = req_q /\ hpc' = hpc
        BY <1>5 DEF cl_grap, CountsInv, TypeOK, HandlerTypeOK
      <3>2. flying[h] = InFlight(h)
        BY DEF CountsInv, FlyingExact
      <3>3. CASE h = t
        BY <2>1, <2>2, <3>1, <3>2, <3>3 DEF InFlight
      <3>4. CASE h # t
        BY <2>1, <2>2, <3>1, <3>2, <3>4 DEF InFlight
      <3> QED
        BY <3>3, <3>4
    <2> QED
      BY <2>t, <2>3, <2>4, <2>5 DEF CountsInv
  <1>6. CASE forward_req_to_hlr
    <2>1. /\ mpc = "enqueue" /\ t \in Handlers /\ mreq' = 0
          /\ mreq \in Requests /\ req_arr[t][mreq] \in SeqNums
      BY <1>6, <1>t DEF forward_req_to_hlr, CountsInv, TypeOK, MasterTypeOK,
                        HandsExact, Filled
    <2>a. ~q_full(req_q[t])
      BY <2>1, EnoughResources DEF ResourcesSuffice
    <2>2. /\ req_q[t] \in Seq(Requests)
          /\ req_q' = [req_q EXCEPT ![t] = Append(req_q[t], mreq)]
          /\ Append(req_q[t], mreq) \in Seq(Requests)
          /\ Len(Append(req_q[t], mreq)) = Len(req_q[t]) + 1
      BY <1>6, <2>1, <2>a DEF forward_req_to_hlr, q_enqueue, CountsInv, TypeOK,
                              HandlerTypeOK
    <2>3. /\ netreq_buf' \in Seq(SeqNums)
          /\ mpc' \in {"epoll_wait", "make"}
          /\ mpc' = "epoll_wait" <=> netreq_buf' = << >>
      <3>1. /\ netreq_buf \in Seq(SeqNums) /\ netreq_buf # << >>
            /\ netreq_buf' = Tail(netreq_buf)
            /\ mpc' = IF Len(netreq_buf) = 1 THEN "epoll_wait" ELSE "make"
        BY <1>6, <2>1, <2>a DEF forward_req_to_hlr, CountsInv, TypeOK,
                                MasterTypeOK, HandsExact
      <3>2. netreq_buf' \in Seq(SeqNums) /\ Len(netreq_buf') = Len(netreq_buf) - 1
        BY <3>1
      <3>3. netreq_buf' = << >> <=> Len(netreq_buf) = 1
        BY <3>1, <3>2
      <3> QED
        BY <3>1, <3>2, <3>3
    <2>4. TypeOK' /\ HandsExact'
      <3>1. ClientTypeOK' /\ SockTypeOK' /\ EventTypeOK'
        BY <1>6 DEF forward_req_to_hlr, CountsInv, TypeOK, ClientTypeOK, SockTypeOK,
                    EventTypeOK
      <3>2. MasterTypeOK'
        BY <2>1, <2>3 DEF MasterTypeOK
      <3>3. HandlerTypeOK'
        BY <1>6, <2>2 DEF forward_req_to_hlr, CountsInv, TypeOK, HandlerTypeOK
      <3>4. HandsExact'
        BY <1>6, <2>1, <2>3 DEF forward_req_to_hlr, CountsInv, HandsExact
      <3> QED
        BY <3>1, <3>2, <3>3, <3>4 DEF TypeOK
    <2>5. Filled'
      <3>1. ASSUME NEW h \in Handlers, NEW i \in 1..Len(req_q'[h])
            PROVE  req_arr[h][req_q'[h][i]] \in SeqNums
        BY <2>1, <2>2, <3>1 DEF CountsInv, TypeOK, HandlerTypeOK, Filled
      <3> QED
        BY <1>6, <2>1, <3>1 DEF forward_req_to_hlr, CountsInv, Filled
    <2>6. NoLostWakeup' /\ (\A h \in Handlers : flying[h] <= QDEPTH)'
      BY <1>6, <2>3 DEF forward_req_to_hlr, CountsInv, NoLostWakeup
    <2>7. /\ req_q \in [Handlers -> Seq(Requests)]
          /\ req_q' \in [Handlers -> Seq(Requests)]
          /\ req_pool \in [Handlers -> Seq(Requests)]
          /\ flying' = flying /\ hpc' = hpc /\ req_pool' = req_pool /\ hreq' = hreq
          /\ Len(req_q'[t]) = Len(req_q[t]) + 1
          /\ \A h \in Handlers : h # t => req_q'[h] = req_q[h]
      BY <1>6, <2>1, <2>2, <2>4 DEF forward_req_to_hlr, CountsInv, TypeOK,
                                    HandlerTypeOK
    <2>8. FlyingExact'
      <3> SUFFICES ASSUME NEW h \in Handlers
                   PROVE  (flying[h] = InFlight(h))'
        BY DEF FlyingExact
      <3>1. flying[h] = InFlight(h)
        BY DEF CountsInv, FlyingExact
      <3>2. CASE h = t
        <4>1. Len(req_q'[h]) = Len(req_q[h]) + 1
          BY <2>7, <3>2
        <4> DEFINE x == IF hpc[h] \in {"ack", "release"} THEN 1 ELSE 0
        <4>2. InFlight(h) = Len(req_q[h]) + 1 + x
          BY <2>1, <2>7, <3>2 DEF InFlight
        <4>3. InFlight(h)' = Len(req_q'[h]) + 0 + x
          BY <2>3, <2>7 DEF InFlight
        <4>4. Len(req_q'[h]) + 0 + x = Len(req_q[h]) + 1 + x
          BY <2>7, <4>1
        <4> QED
          BY <2>7, <3>1, <4>2, <4>3, <4>4
      <3>3. CASE h # t
        BY <2>1, <2>3, <2>7, <3>1, <3>3 DEF InFlight
      <3> QED
        BY <3>2, <3>3
    <2>9. PoolExact'
      <3> SUFFICES ASSUME NEW h \in Handlers
                   PROVE  (Len(req_pool[h]) + Len(req_q[h]) + MasterHolds(h)
                             + HandlerHolds(h) = QSIZE)'
        BY DEF PoolExact
      <3>1. Len(req_pool[h]) + Len(req_q[h]) + MasterHolds(h) + HandlerHolds(h) = QSIZE
        BY DEF CountsInv, PoolExact
      <3>2. CASE h = t
        <4>1. Len(req_q'[h]) = Len(req_q[h]) + 1
          BY <2>7, <3>2
        <4>2. MasterHolds(h) = 1 /\ MasterHolds(h)' = 0
          BY <2>1, <3>2, ZeroIsNoRequest DEF MasterHolds
        <4> QED
          BY <2>7, <3>1, <4>1, <4>2 DEF HandlerHolds
      <3>3. CASE h # t
        BY <2>1, <2>7, <3>1, <3>3 DEF MasterHolds, HandlerHolds
      <3> QED
        BY <3>2, <3>3
    <2> QED
      BY <2>4, <2>5, <2>6, <2>8, <2>9 DEF CountsInv
  <1> QED
    BY <1>1, <1>2, <1>3, <1>4, <1>5, <1>6 DEF master_thread

\* Steps of a handler.
LEMMA HandlerCounts ==
    ASSUME CountsInv, NEW t \in Handlers, request_handler(t)
    PROVE  CountsInv'
  <1> USE DEF masterVars, handlerVars, sockVars, clientVars
  <1>0. /\ req_q \in [Handlers -> Seq(Requests)]
        /\ req_pool \in [Handlers -> Seq(Requests)]
        /\ flying \in [Handlers -> Nat]
        /\ hpc \in [Handlers -> {"dequeue", "ack", "release", "recycle"}]
        /\ hreq \in [Handlers -> Requests \cup {0}]
        /\ req_arr \in [Handlers -> [Requests -> SeqNums \cup {0}]]
    BY DEF CountsInv, TypeOK, HandlerTypeOK
  <1>1. CASE get_next_request(t)
    <2>1. /\ hpc[t] = "dequeue" /\ hreq[t] = 0 /\ req_q[t] # << >>
          /\ hpc' = [hpc EXCEPT ![t] = "ack"]
          /\ hreq' = [hreq EXCEPT ![t] = Head(req_q[t])]
          /\ req_q' = [req_q EXCEPT ![t] = Tail(req_q[t])]
      BY <1>0, <1>1 DEF get_next_request, CountsInv, HandsExact
    <2>2. /\ Head(req_q[t]) \in Requests /\ Head(req_q[t]) # 0
          /\ Tail(req_q[t]) \in Seq(Requests)
          /\ Len(Tail(req_q[t])) = Len(req_q[t]) - 1
          /\ Head(req_q[t]) = req_q[t][1] /\ 1 \in 1..Len(req_q[t])
          /\ \A i \in 1..Len(Tail(req_q[t])) :
                /\ Tail(req_q[t])[i] = req_q[t][i + 1]
                /\ i + 1 \in 1..Len(req_q[t])
      BY <1>0, <2>1, ZeroIsNoRequest
    <2>3. /\ req_q' \in [Handlers -> Seq(Requests)]
          /\ Len(req_q'[t]) = Len(req_q[t]) - 1
          /\ \A h \in Handlers : h # t => req_q'[h] = req_q[h]
      BY <1>0, <2>1, <2>2
    <2>4. TypeOK' /\ HandsExact' /\ NoLostWakeup'
      <3>1. HandlerTypeOK'
        BY <1>0, <1>1, <2>1, <2>2, <2>3 DEF get_next_request, HandlerTypeOK
      <3>2. HandsExact'
        BY <1>0, <1>1, <2>1, <2>2 DEF get_next_request, CountsInv, HandsExact
      <3> QED
        BY <1>1, <3>1, <3>2 DEF get_next_request, CountsInv, TypeOK, ClientTypeOK,
           SockTypeOK, EventTypeOK, MasterTypeOK, NoLostWakeup, Target
    <2>5. Filled'
      <3>1. ASSUME NEW h \in Handlers, hreq'[h] # 0
            PROVE  req_arr[h][hreq'[h]] \in SeqNums
        BY <1>0, <2>1, <2>2, <3>1 DEF CountsInv, Filled
      <3>2. ASSUME NEW h \in Handlers, NEW i \in 1..Len(req_q'[h])
            PROVE  req_arr[h][req_q'[h][i]] \in SeqNums
        <4>1. CASE h = t
          BY <1>0, <2>1, <2>2, <3>2, <4>1 DEF CountsInv, Filled
        <4>2. CASE h # t
          BY <1>0, <2>3, <3>2, <4>2 DEF CountsInv, Filled
        <4> QED
          BY <4>1, <4>2
      <3> QED
        BY <1>1, <3>1, <3>2 DEF get_next_request, CountsInv, Filled, Target
    <2>6. FlyingExact'
      <3> SUFFICES ASSUME NEW h \in Handlers
                   PROVE  (flying[h] = InFlight(h))'
        BY DEF FlyingExact
      <3>1. flying[h] = InFlight(h)
        BY DEF CountsInv, FlyingExact
      <3>2. Target' = Target /\ mpc' = mpc /\ flying' = flying
        BY <1>1 DEF get_next_request, Target
      <3>3. CASE h = t
        <4> DEFINE x == IF mpc = "enqueue" /\ Target = h THEN 1 ELSE 0
        <4>1. InFlight(h) = Len(req_q[h]) + x + 0
          BY <2>1, <3>3 DEF InFlight
        <4>2. InFlight(h)' = Len(req_q'[h]) + x + 1
          BY <1>0, <2>1, <3>2, <3>3 DEF InFlight
        <4>3. Len(req_q'[h]) + x + 1 = Len(req_q[h]) + x + 0
          BY <1>0, <2>3, <3>3
        <4> QED
          BY <3>1, <3>2, <4>1, <4>2, <4>3
      <3>4. CASE h # t
        BY <1>0, <2>1, <2>3, <3>1, <3>2, <3>4 DEF InFlight
      <3> QED
        BY <3>3, <3>4
    <2>7. PoolExact'
      <3> SUFFICES ASSUME NEW h \in Handlers
                   PROVE  (Len(req_pool[h]) + Len(req_q[h]) + MasterHolds(h)
                             + HandlerHolds(h) = QSIZE)'
        BY DEF PoolExact
      <3>1. Len(req_pool[h]) + Len(req_q[h]) + MasterHolds(h) + HandlerHolds(h) = QSIZE
        BY DEF CountsInv, PoolExact
      <3>2. Target' = Target /\ mreq' = mreq /\ req_pool' = req_pool
        BY <1>1 DEF get_next_request, Target
      <3>3. CASE h = t
        <4>1. HandlerHolds(h) = 0 /\ HandlerHolds(h)' = 1
          BY <1>0, <2>1, <2>2, <3>3 DEF HandlerHolds
        <4>2. Len(req_q'[h]) = Len(req_q[h]) - 1
          BY <2>3, <3>3
        <4> QED
          BY <1>0, <2>3, <3>1, <3>2, <4>1, <4>2 DEF MasterHolds
      <3>4. CASE h # t
        BY <1>0, <2>1, <2>3, <3>1, <3>2, <3>4 DEF MasterHolds, HandlerHolds
      <3> QED
        BY <3>3, <3>4
    <2> QED
      BY <1>1, <2>4, <2>5, <2>6, <2>7 DEF get_next_request, CountsInv
  <1>2. CASE send_ack(t)
    <2>1. /\ hpc[t] = "ack" /\ hpc' = [hpc EXCEPT ![t] = "release"]
          /\ hreq[t] # 0 /\ req_arr[t][hreq[t]] \in SeqNums
      BY <1>0, <1>2 DEF send_ack, CountsInv, HandsExact, Filled
    <2>2. TypeOK'
      <3>1. SockTypeOK'
        BY <1>2, <2>1 DEF send_ack, CountsInv, TypeOK, SockTypeOK
      <3>2. HandlerTypeOK'
        BY <1>0, <1>2, <2>1 DEF send_ack, HandlerTypeOK
      <3> QED
        BY <1>2, <3>1, <3>2 DEF send_ack, CountsInv, TypeOK, ClientTypeOK,
                                EventTypeOK, MasterTypeOK
    <2>3. HandsExact' /\ Filled' /\ NoLostWakeup'
      BY <1>0, <1>2, <2>1 DEF send_ack, CountsInv, HandsExact, Filled, NoLostWakeup,
                              Target
    <2>4. FlyingExact' /\ (\A h \in Handlers : flying[h] <= QDEPTH)' /\ PoolExact'
      BY <1>0, <1>2, <2>1 DEF send_ack, CountsInv, FlyingExact, InFlight, PoolExact,
                              MasterHolds, HandlerHolds, Target
    <2> QED
      BY <2>2, <2>3, <2>4 DEF CountsInv
  <1>3. CASE cl_release(t)
    <2>1. /\ hpc[t] = "release" /\ hpc' = [hpc EXCEPT ![t] = "recycle"]
          /\ flying' = [flying EXCEPT ![t] = flying[t] - 1]
          /\ Target' = Target /\ req_q' = req_q
          /\ mpc' = IF mpc = "cond_wait" /\ Target = t /\ flying[t] = QDEPTH
                    THEN "grap" ELSE mpc
      BY <1>0, <1>3 DEF cl_release, Target
    <2>2. flying[t] = InFlight(t) /\ flying[t] - 1 \in Nat
      <3>1. flying[t] = InFlight(t)
        BY DEF CountsInv, FlyingExact
      <3>2. CASE mpc = "enqueue" /\ Target = t
        BY <1>0, <2>1, <3>1, <3>2 DEF InFlight
      <3>3. CASE ~(mpc = "enqueue" /\ Target = t)
        BY <1>0, <2>1, <3>1, <3>3 DEF InFlight
      <3> QED
        BY <3>1, <3>2, <3>3
    <2>3. TypeOK'
      <3>1. HandlerTypeOK'
        BY <1>0, <1>3, <2>1, <2>2 DEF cl_release, HandlerTypeOK
      <3>2. MasterTypeOK'
        BY <1>3, <2>1 DEF cl_release, CountsInv, TypeOK, MasterTypeOK
      <3> QED
        BY <1>3, <3>1, <3>2 DEF cl_release, CountsInv, TypeOK, ClientTypeOK,
                                SockTypeOK, EventTypeOK
    <2>4. HandsExact' /\ Filled'
      BY <1>0, <1>3, <2>1 DEF cl_release, CountsInv, HandsExact, Filled
    <2>5. NoLostWakeup'
      BY <1>0, <2>1 DEF CountsInv, NoLostWakeup
    <2>6. FlyingExact'
      <3> SUFFICES ASSUME NEW h \in Handlers
                   PROVE  (flying[h] = InFlight(h))'
        BY DEF FlyingExact
      <3>1. mpc' = "enqueue" <=> mpc = "enqueue"
        BY <2>1
      <3>2. CASE h = t
        <4> DEFINE x == IF mpc = "enqueue" /\ Target = h THEN 1 ELSE 0
        <4>1. InFlight(h) = Len(req_q[h]) + x + 1
          BY <2>1, <3>2 DEF InFlight
        <4>2. InFlight(h)' = Len(req_q[h]) + x + 0
          BY <1>0, <2>1, <3>1, <3>2 DEF InFlight
        <4>3. flying[h] = Len(req_q[h]) + x + 1 /\ flying'[h] = flying[h] - 1
          BY <1>0, <2>1, <2>2, <3>2, <4>1
        <4>4. flying'[h] = Len(req_q[h]) + x + 0
          BY <1>0, <4>3
        <4> QED
          BY <4>2, <4>4
      <3>3. CASE h # t
        BY <1>0, <2>1, <3>1, <3>3 DEF CountsInv, FlyingExact, InFlight
      <3> QED
        BY <3>2, <3>3
    <2>7. (\A h \in Handlers : flying[h] <= QDEPTH)'
      BY <1>0, <2>1, <2>2, PathAssumption DEF CountsInv
    <2>8. PoolExact'
      BY <1>3, <2>1 DEF cl_release, CountsInv, PoolExact, MasterHolds, HandlerHolds
    <2> QED
      BY <2>3, <2>4, <2>5, <2>6, <2>7, <2>8 DEF CountsInv
  <1>4. CASE recycle(t)
    <2>0. hreq[t] # 0 /\ ~q_full(req_pool[t])
      BY <1>0, <1>4, RoomInPool DEF recycle, CountsInv, HandsExact
    <2>1. /\ hpc[t] = "recycle" /\ hpc' = [hpc EXCEPT ![t] = "dequeue"]
          /\ hreq[t] \in Requests /\ hreq' = [hreq EXCEPT ![t] = 0]
          /\ req_pool' = [req_pool EXCEPT ![t] = Append(req_pool[t], hreq[t])]
          /\ Target' = Target /\ req_q' = req_q /\ mreq' = mreq
      BY <1>0, <1>4, <2>0 DEF recycle, q_enqueue, CountsInv, HandsExact, Target
    <2>2. /\ Append(req_pool[t], hreq[t]) \in Seq(Requests)
          /\ Len(Append(req_pool[t], hreq[t])) = Len(req_pool[t]) + 1
      BY <1>0, <2>1
    <2>3. /\ req_pool' \in [Handlers -> Seq(Requests)]
          /\ Len(req_pool'[t]) = Len(req_pool[t]) + 1
          /\ \A h \in Handlers : h # t => req_pool'[h] = req_pool[h]
      BY <1>0, <2>1, <2>2
    <2>4. TypeOK'
      <3>1. HandlerTypeOK'
        BY <1>0, <1>4, <2>1, <2>3 DEF recycle, HandlerTypeOK
      <3> QED
        BY <1>4, <3>1 DEF recycle, CountsInv, TypeOK, ClientTypeOK, SockTypeOK,
                          EventTypeOK, MasterTypeOK
    <2>5. HandsExact' /\ Filled' /\ NoLostWakeup'
      BY <1>0, <1>4, <2>1 DEF recycle, CountsInv, HandsExact, Filled, NoLostWakeup
    <2>6. FlyingExact' /\ (\A h \in Handlers : flying[h] <= QDEPTH)'
      BY <1>0, <1>4, <2>1 DEF recycle, CountsInv, FlyingExact, InFlight
    <2>7. PoolExact'
      <3> SUFFICES ASSUME NEW h \in Handlers
                   PROVE  (Len(req_pool[h]) + Len(req_q[h]) + MasterHolds(h)
                             + HandlerHolds(h) = QSIZE)'
        BY DEF PoolExact
      <3>1. Len(req_pool[h]) + Len(req_q[h]) + MasterHolds(h) + HandlerHolds(h) = QSIZE
        BY DEF CountsInv, PoolExact
      <3>2. CASE h = t
        <4>1. HandlerHolds(h) = 1 /\ HandlerHolds(h)' = 0
          BY <1>0, <2>1, <3>2, ZeroIsNoRequest DEF HandlerHolds
        <4>2. Len(req_pool'[h]) = Len(req_pool[h]) + 1
          BY <2>3, <3>2
        <4>3. MasterHolds(h)' = MasterHolds(h) /\ MasterHolds(h) \in {0, 1}
          BY <2>1 DEF MasterHolds
        <4>4. Len(req_q'[h]) = Len(req_q[h])
          BY <2>1
        <4>5. CASE MasterHolds(h) = 0
          BY <1>0, <2>3, <3>1, <4>1, <4>2, <4>3, <4>4, <4>5
        <4>6. CASE MasterHolds(h) = 1
          BY <1>0, <2>3, <3>1, <4>1, <4>2, <4>3, <4>4, <4>6
        <4> QED
          BY <4>3, <4>5, <4>6
      <3>3. CASE h # t
        BY <1>0, <2>1, <2>3, <3>1, <3>3 DEF MasterHolds, HandlerHolds
      <3> QED
        BY <3>2, <3>3
    <2> QED
      BY <2>4, <2>5, <2>6, <2>7 DEF CountsInv
  <1> QED
    BY <1>1, <1>2, <1>3, <1>4 DEF request_handler

\* The invariant is kept by every step.
LEMMA NextCounts == CountsInv /\ [Next]_vars => CountsInv'
  <1> SUFFICES ASSUME CountsInv, [Next]_vars PROVE CountsInv'
    OBVIOUS
  <1>1. CASE client_main \/ ack_poller \/ Arrive \/ ArriveClose
    BY <1>1, OutsideCounts
  <1>2. CASE master_thread
    BY <1>2, MasterCounts
  <1>3. CASE \E h \in Handlers : request_handler(h)
    BY <1>3, HandlerCounts
  <1>4. CASE UNCHANGED vars
    BY <1>4 DEF vars, clientVars, sockVars, masterVars, handlerVars, CountsInv,
       TypeOK, ClientTypeOK, SockTypeOK, EventTypeOK, MasterTypeOK, HandlerTypeOK,
       HandsExact, Filled, FlyingExact, InFlight, PoolExact, MasterHolds,
       HandlerHolds, NoLostWakeup, Target
  <1> QED
    BY <1>1, <1>2, <1>3, <1>4 DEF Next

\* The counts of every handler's lock (cl_grap, cl_release) and of its request
\* pool (make_request_from_netreq, net_end_req) are exact in every state.
THEOREM CountsInvariant == Spec => []CountsInv
  BY InitCounts, NextCounts, PTL DEF Spec

\* Every variable of the request path keeps its type.
THEOREM TypeCorrect == Spec => []TypeOK
  <1>1. CountsInv => TypeOK
    BY DEF CountsInv
  <1> QED
    BY <1>1, CountsInvariant, PTL

\* What cl_grap has counted and cl_release not yet discounted is what is in
\* the queue or in a thread's hand.
THEOREM FlyingIsExact == Spec => []FlyingExact
  <1>1. CountsInv => FlyingExact
    BY DEF CountsInv
  <1> QED
    BY <1>1, CountsInvariant, PTL

\* The master never waits in cl_grap for a wakeup that has already been sent
\* or will not be.
THEOREM WakeupNotLost == Spec => []NoLostWakeup
  <1>1. CountsInv => NoLostWakeup
    BY DEF CountsInv
  <1> QED
    BY <1>1, CountsInvariant, PTL

\* A pool of QDEPTH + 2 struct requests is enough: make_request_from_netreq
\* always finds one and forward_req_to_hlr always finds room in the queue.
THEOREM PoolSuffices == Spec => []ResourcesSuffice
  BY EnoughResources, CountsInvariant, PTL
=============================================================================
