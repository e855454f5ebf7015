------------------------ MODULE RequestOrderProofs ------------------------
(***************************************************************************)
(* Further proofs about RequestPath, on top of the counts of               *)
(* RequestPathProofs: where the struct requests are, in which order the    *)
(* sequence numbers travel, and what the client's semaphore counts.        *)
(***************************************************************************)
EXTENDS RequestPathProofs, FiniteSetTheorems

-----------------------------------------------------------------------------
(* The inductive invariant. *)

\* Sequence numbers that have been forwarded to a handler's queue: all but the
\* ones in the master's buffer, in the socket, on the wire and in the batch.
Taken == seq_num - (Len(netreq_buf) + Len(inbox) + Len(wire) + Len(nr_arr))

\* What was not yet forwarded is numbered without a gap, oldest first.
Numbered ==
    /\ Taken \in Nat
    /\ \A i \in 1..Len(netreq_buf) : netreq_buf[i] = Taken + i
    /\ \A i \in 1..Len(inbox) : inbox[i] = Taken + Len(netreq_buf) + i
    /\ \A i \in 1..Len(wire) : wire[i] = Taken + Len(netreq_buf) + Len(inbox) + i
    /\ \A i \in 1..Len(nr_arr) :
          nr_arr[i] = Taken + Len(netreq_buf) + Len(inbox) + Len(wire) + i

\* The client leaves load_kvpairs only with the last key.
LoadedAll == client # "load" => seq_num = NR_KEY

StreamInv == Numbered /\ LoadedAll

\* The four places of a struct request q of handler h.
InPool(h, q)    == \E i \in 1..Len(req_pool[h]) : req_pool[h][i] = q
InQueue(h, q)   == \E i \in 1..Len(req_q[h]) : req_q[h][i] = q
InMaster(h, q)  == mreq = q /\ Target = h
InHandler(h, q) == hreq[h] = q

\* Every struct request is somewhere ...
Covered ==
    \A h \in Handlers : \A q \in Requests :
        InPool(h, q) \/ InQueue(h, q) \/ InMaster(h, q) \/ InHandler(h, q)

\* ... and nowhere else.
PoolOnce ==
    \A h \in Handlers : \A i, j \in 1..Len(req_pool[h]) :
        req_pool[h][i] = req_pool[h][j] => i = j

QueueOnce ==
    \A h \in Handlers : \A i, j \in 1..Len(req_q[h]) :
        req_q[h][i] = req_q[h][j] => i = j

Apart ==
    \A h \in Handlers : \A q \in Requests :
        /\ InPool(h, q) => ~InQueue(h, q) /\ ~InMaster(h, q) /\ ~InHandler(h, q)
        /\ InQueue(h, q) => ~InMaster(h, q) /\ ~InHandler(h, q)
        /\ InMaster(h, q) => ~InHandler(h, q)

PlaceInv == Covered /\ PoolOnce /\ QueueOnce /\ Apart

\* The sequence numbers in the queue and in the hand of a handler.
QVal(h, i) == req_arr[h][req_q[h][i]]
HVal(h)    == req_arr[h][hreq[h]]

\* The struct request in the master's hand carries the number it was made from.
MasterVal == mreq # 0 => req_arr[Target][mreq] = Head(netreq_buf)

\* A queue holds numbers of its handler, in the order they were sent.
QueueOwn ==
    \A h \in Handlers : \A i \in 1..Len(req_q[h]) :
        QVal(h, i) \in 1..Taken /\ Route[QVal(h, i)] = h

QueueSorted ==
    \A h \in Handlers : \A i, j \in 1..Len(req_q[h]) :
        i < j => QVal(h, i) < QVal(h, j)

\* The request in a handler's hand is older than its queue.
HandOwn ==
    \A h \in Handlers : hpc[h] = "ack" =>
        /\ HVal(h) \in 1..Taken /\ Route[HVal(h)] = h
        /\ \A i \in 1..Len(req_q[h]) : HVal(h) < QVal(h, i)

\* What was answered is older than what is to be answered.
AcksOlder ==
    \A a \in 1..Len(acklog) :
        /\ acklog[a] \in 1..Taken
        /\ \A h \in Handlers : Route[acklog[a]] = h =>
              /\ \A i \in 1..Len(req_q[h]) : acklog[a] < QVal(h, i)
              /\ hpc[h] = "ack" => acklog[a] < HVal(h)

OrderInv ==
    MasterVal /\ QueueOwn /\ QueueSorted /\ HandOwn /\ AcksOlder /\ AcksInOrder

\* The inductive invariant of this module.
PathInv ==
    /\ CountsInv
    /\ StreamInv
    /\ PlaceInv
    /\ OrderInv
    /\ SemaphoreExact
    /\ NothingStranded

-----------------------------------------------------------------------------
(* The stream of sequence numbers. *)

\* The sequences of the client, the connection and the master.
LEMMA StreamTypes ==
    ASSUME CountsInv
    PROVE  /\ netreq_buf \in Seq(SeqNums) /\ inbox \in Seq(SeqNums)
           /\ wire \in Seq(SeqNums) /\ nr_arr \in Seq(SeqNums)
           /\ acks \in Seq(SeqNums) /\ acklog \in Seq(SeqNums)
           /\ Len(netreq_buf) \in Nat /\ Len(inbox) \in Nat
           /\ Len(wire) \in Nat /\ Len(nr_arr) \in Nat
           /\ Len(acks) \in Nat /\ Len(acklog) \in Nat
           /\ seq_num \in Nat /\ sem \in Nat
  <1>1. /\ netreq_buf \in Seq(SeqNums) /\ inbox \in Seq(SeqNums)
        /\ wire \in Seq(SeqNums) /\ nr_arr \in Seq(SeqNums)
        /\ acks \in Seq(SeqNums) /\ acklog \in Seq(SeqNums)
        /\ seq_num \in 0..NR_KEY /\ sem \in Nat
    BY DEF CountsInv, TypeOK, ClientTypeOK, SockTypeOK, MasterTypeOK
  <1> QED
    BY <1>1, PathAssumption

\* The request that the master works on goes to a handler that exists.
LEMMA TargetExists ==
    ASSUME CountsInv, netreq_buf # << >>
    PROVE  Target \in Handlers /\ Head(netreq_buf) \in SeqNums
           /\ Head(netreq_buf) = netreq_buf[1] /\ Len(netreq_buf) >= 1
  BY PathAssumption DEF CountsInv, TypeOK, MasterTypeOK, Target, SeqNums

\* req_in gives out the next number.
LEMMA StreamReqIn ==
    ASSUME CountsInv, StreamInv, req_in
    PROVE  StreamInv' /\ Taken' = Taken
  <1>1. /\ seq_num' = seq_num + 1 /\ nr_arr' = Append(nr_arr, seq_num + 1)
        /\ client = "load" /\ client' = "load"
        /\ netreq_buf' = netreq_buf /\ inbox' = inbox /\ wire' = wire
    BY DEF req_in, sockVars, masterVars
  <1>2. /\ Len(nr_arr') = Len(nr_arr) + 1
        /\ \A i \in 1..Len(nr_arr') :
              nr_arr'[i] = IF i = Len(nr_arr) + 1 THEN seq_num + 1 ELSE nr_arr[i]
    BY <1>1, StreamTypes
  <1>3. Taken' = Taken
    BY <1>1, <1>2, StreamTypes DEF Taken
  <1>4. ASSUME NEW i \in 1..Len(nr_arr')
        PROVE  nr_arr'[i] = Taken + Len(netreq_buf) + Len(inbox) + Len(wire) + i
    <2>1. CASE i = Len(nr_arr) + 1
      <3>1. nr_arr'[i] = seq_num + 1
        BY <1>2, <2>1
      <3> QED
        BY <2>1, <3>1, StreamTypes DEF Taken
    <2>2. CASE i # Len(nr_arr) + 1
      <3>1. i \in 1..Len(nr_arr) /\ nr_arr'[i] = nr_arr[i]
        BY <1>2, <2>2, StreamTypes
      <3> QED
        BY <3>1 DEF StreamInv, Numbered
    <2> QED
      BY <2>1, <2>2
  <1> QED
    BY <1>1, <1>3, <1>4 DEF StreamInv, Numbered, LoadedAll

\* What is appended to a sequence comes after it.
LEMMA Concat ==
    ASSUME NEW s \in Seq(SeqNums), NEW t \in Seq(SeqNums)
    PROVE  /\ Len(s \o t) = Len(s) + Len(t)
           /\ \A i \in 1..Len(s \o t) :
                 \/ i \in 1..Len(s) /\ (s \o t)[i] = s[i]
                 \/ i - Len(s) \in 1..Len(t) /\ (s \o t)[i] = t[i - Len(s)]
  OBVIOUS

\* send_request_bulk puts the batch on the wire.
LEMMA StreamSend ==
    ASSUME CountsInv, StreamInv, send_request_bulk
    PROVE  StreamInv' /\ Taken' = Taken
  <1>1. /\ seq_num' = seq_num /\ nr_arr' = << >> /\ wire' = wire \o nr_arr
        /\ client' = IF seq_num = NR_KEY THEN "finish" ELSE client
        /\ netreq_buf' = netreq_buf /\ inbox' = inbox
    BY DEF send_request_bulk, sockVars, masterVars
  <1>2. /\ Len(wire') = Len(wire) + Len(nr_arr)
        /\ \A i \in 1..Len(wire') :
              \/ i \in 1..Len(wire) /\ wire'[i] = wire[i]
              \/ i - Len(wire) \in 1..Len(nr_arr) /\ wire'[i] = nr_arr[i - Len(wire)]
    BY <1>1, StreamTypes, Concat
  <1>3. Taken' = Taken
    BY <1>1, <1>2, StreamTypes DEF Taken
  <1>4. ASSUME NEW i \in 1..Len(wire')
        PROVE  wire'[i] = Taken + Len(netreq_buf) + Len(inbox) + i
    <2>1. CASE i \in 1..Len(wire) /\ wire'[i] = wire[i]
      BY <2>1 DEF StreamInv, Numbered
    <2>2. CASE i - Len(wire) \in 1..Len(nr_arr) /\ wire'[i] = nr_arr[i - Len(wire)]
      <3>1. nr_arr[i - Len(wire)] =
              Taken + Len(netreq_buf) + Len(inbox) + Len(wire) + (i - Len(wire))
        BY <2>2 DEF StreamInv, Numbered
      <3> QED
        BY <2>2, <3>1, StreamTypes DEF StreamInv, Numbered
    <2> QED
      BY <1>2, <2>1, <2>2
  <1>5. LoadedAll'
    BY <1>1 DEF StreamInv, LoadedAll
  <1> QED
    BY <1>1, <1>3, <1>4, <1>5 DEF StreamInv, Numbered

\* The pieces into which a sequence is cut.
LEMMA Cut ==
    ASSUME NEW s \in Seq(SeqNums), NEW n \in 0..Len(s)
    PROVE  /\ SubSeq(s, 1, n) \in Seq(SeqNums)
           /\ SubSeq(s, n + 1, Len(s)) \in Seq(SeqNums)
           /\ Len(SubSeq(s, 1, n)) = n
           /\ Len(SubSeq(s, n + 1, Len(s))) = Len(s) - n
           /\ \A i \in 1..n : SubSeq(s, 1, n)[i] = s[i]
           /\ \A i \in 1..(Len(s) - n) : SubSeq(s, n + 1, Len(s))[i] = s[n + i]
  OBVIOUS

\* A piece of what is on the wire arrives.
LEMMA StreamArrive ==
    ASSUME CountsInv, StreamInv, Arrive
    PROVE  StreamInv' /\ Taken' = Taken
  <1>1. PICK n \in 1..Len(wire) :
          /\ inbox' = inbox \o SubSeq(wire, 1, n)
          /\ wire' = SubSeq(wire, n + 1, Len(wire))
    BY DEF Arrive
  <1>2. /\ seq_num' = seq_num /\ nr_arr' = nr_arr /\ client' = client
        /\ netreq_buf' = netreq_buf
    BY DEF Arrive, clientVars, masterVars
  <1>3. n \in 0..Len(wire) /\ n \in Nat
    BY StreamTypes
  <1>4. /\ SubSeq(wire, 1, n) \in Seq(SeqNums)
        /\ Len(SubSeq(wire, 1, n)) = n
        /\ Len(wire') = Len(wire) - n
        /\ \A i \in 1..n : SubSeq(wire, 1, n)[i] = wire[i]
        /\ \A i \in 1..(Len(wire) - n) : wire'[i] = wire[n + i]
    BY <1>1, <1>3, StreamTypes, Cut
  <1>5. /\ Len(inbox') = Len(inbox) + n
        /\ \A i \in 1..Len(inbox') :
              \/ i \in 1..Len(inbox) /\ inbox'[i] = inbox[i]
              \/ /\ i - Len(inbox) \in 1..n
                 /\ inbox'[i] = SubSeq(wire, 1, n)[i - Len(inbox)]
    BY <1>1, <1>4, StreamTypes, Concat
  <1>6. Taken' = Taken
    <2>1. Len(inbox') = Len(inbox) + n /\ Len(wire') = Len(wire) - n
      BY <1>4, <1>5
    <2> QED
      BY <1>2, <1>3, <2>1, StreamTypes DEF Taken
  <1>7. ASSUME NEW i \in 1..Len(inbox')
        PROVE  inbox'[i] = Taken + Len(netreq_buf) + i
    <2>1. CASE i \in 1..Len(inbox) /\ inbox'[i] = inbox[i]
      BY <2>1 DEF StreamInv, Numbered
    <2>2. CASE i - Len(inbox) \in 1..n
               /\ inbox'[i] = SubSeq(wire, 1, n)[i - Len(inbox)]
      <3>1. inbox'[i] = wire[i - Len(inbox)] /\ i - Len(inbox) \in 1..Len(wire)
        <4>1. SubSeq(wire, 1, n)[i - Len(inbox)] = wire[i - Len(inbox)]
          BY <1>4, <2>2
        <4> QED
          BY <1>3, <2>2, <4>1, StreamTypes
      <3>2. wire[i - Len(inbox)] =
              Taken + Len(netreq_buf) + Len(inbox) + (i - Len(inbox))
        BY <3>1 DEF StreamInv, Numbered
      <3> QED
        BY <3>1, <3>2, StreamTypes DEF StreamInv, Numbered
    <2> QED
      BY <1>5, <2>1, <2>2
  <1>8. ASSUME NEW i \in 1..Len(wire')
        PROVE  wire'[i] = Taken + Len(netreq_buf) + Len(inbox') + i
    <2>1. wire'[i] = wire[n + i] /\ n + i \in 1..Len(wire)
      BY <1>3, <1>4, StreamTypes
    <2>2. wire[n + i] = Taken + Len(netreq_buf) + Len(inbox) + (n + i)
      BY <2>1 DEF StreamInv, Numbered
    <2> QED
      BY <1>3, <1>5, <2>1, <2>2, StreamTypes DEF StreamInv, Numbered
  <1>9. ASSUME NEW i \in 1..Len(nr_arr)
        PROVE  nr_arr[i] = Taken + Len(netreq_buf) + Len(inbox') + Len(wire') + i
    BY <1>3, <1>4, <1>5, StreamTypes DEF StreamInv, Numbered
  <1> QED
    BY <1>2, <1>6, <1>7, <1>8, <1>9 DEF StreamInv, Numbered, LoadedAll

\* read_sock_bulk moves what arrived into the master's buffer.
LEMMA StreamRead ==
    ASSUME CountsInv, StreamInv, read_sock_bulk
    PROVE  StreamInv' /\ Taken' = Taken
  <1> DEFINE n == IF Len(inbox) < MAX_NETREQ_BUF THEN Len(inbox) ELSE MAX_NETREQ_BUF
  <1>1. /\ netreq_buf' = SubSeq(inbox, 1, n)
        /\ inbox' = SubSeq(inbox, n + 1, Len(inbox))
        /\ seq_num' = seq_num /\ nr_arr' = nr_arr /\ client' = client /\ wire' = wire
    BY DEF read_sock_bulk, clientVars
  <1>2. netreq_buf = << >> /\ Len(netreq_buf) = 0
    BY DEF read_sock_bulk, CountsInv, HandsExact
  <1>3. n \in 0..Len(inbox) /\ n \in Nat
    BY StreamTypes, PathAssumption
  <1> HIDE DEF n
  <1>4. /\ Len(netreq_buf') = n /\ Len(inbox') = Len(inbox) - n
        /\ \A i \in 1..n : netreq_buf'[i] = inbox[i]
        /\ \A i \in 1..(Len(inbox) - n) : inbox'[i] = inbox[n + i]
    BY <1>1, <1>3, StreamTypes, Cut
  <1>5. Taken' = Taken
    <2>1. Len(netreq_buf') = n /\ Len(inbox') = Len(inbox) - n
      BY <1>4
    <2>2. seq_num' = seq_num /\ Len(nr_arr') = Len(nr_arr) /\ Len(wire') = Len(wire)
      BY <1>1
    <2>3. n + (Len(inbox) - n) + Len(wire) + Len(nr_arr)
            = 0 + Len(inbox) + Len(wire) + Len(nr_arr)
      BY <1>3, StreamTypes
    <2> QED
      BY <1>2, <2>1, <2>2, <2>3 DEF Taken
  <1>6. ASSUME NEW i \in 1..Len(netreq_buf') PROVE netreq_buf'[i] = Taken + i
    <2>1. i \in 1..Len(inbox) /\ netreq_buf'[i] = inbox[i]
      BY <1>3, <1>4, StreamTypes
    <2>2. inbox[i] = Taken + Len(netreq_buf) + i
      BY <2>1 DEF StreamInv, Numbered
    <2> QED
      BY <1>2, <2>1, <2>2 DEF StreamInv, Numbered
  <1>7. ASSUME NEW i \in 1..Len(inbox')
        PROVE  inbox'[i] = Taken + Len(netreq_buf') + i
    <2>1. n + i \in 1..Len(inbox) /\ inbox'[i] = inbox[n + i]
      BY <1>3, <1>4, StreamTypes
    <2>2. inbox[n + i] = Taken + Len(netreq_buf) + (n + i)
      BY <2>1 DEF StreamInv, Numbered
    <2> QED
      BY <1>2, <1>3, <1>4, <2>1, <2>2 DEF StreamInv, Numbered
  <1>8. Taken + Len(netreq_buf') + Len(inbox') = Taken + Len(netreq_buf) + Len(inbox)
    BY <1>2, <1>3, <1>4, StreamTypes DEF StreamInv, Numbered
  <1>9. /\ \A i \in 1..Len(wire) :
              wire[i] = Taken + Len(netreq_buf') + Len(inbox') + i
        /\ \A i \in 1..Len(nr_arr) :
              nr_arr[i] = Taken + Len(netreq_buf') + Len(inbox') + Len(wire) + i
    BY <1>8 DEF StreamInv, Numbered
  <1> QED
    BY <1>1, <1>5, <1>6, <1>7, <1>9 DEF StreamInv, Numbered, LoadedAll

\* What is left when the first element is gone.
LEMMA Rest ==
    ASSUME NEW S, NEW s \in Seq(S), s # << >>
    PROVE  /\ Tail(s) \in Seq(S) /\ Len(Tail(s)) = Len(s) - 1
           /\ Len(s) \in Nat /\ Len(s) >= 1
           /\ Head(s) = s[1] /\ s[1] \in S
           /\ \A i \in 1..(Len(s) - 1) : Tail(s)[i] = s[i + 1] /\ i + 1 \in 1..Len(s)
  OBVIOUS

\* forward_req_to_hlr takes the oldest number out of the buffer; the queue has
\* room for it, so that nothing is dropped.
LEMMA StreamForward ==
    ASSUME CountsInv, StreamInv, forward_req_to_hlr
    PROVE  /\ StreamInv' /\ Taken' = Taken + 1
           /\ Head(netreq_buf) = Taken + 1
           /\ Target \in Handlers
           /\ req_q' = [req_q EXCEPT ![Target] = Append(req_q[Target], mreq)]
  <1>1. mpc = "enqueue" /\ netreq_buf # << >> /\ ~q_full(req_q[Target])
    BY EnoughResources DEF forward_req_to_hlr, CountsInv, HandsExact, ResourcesSuffice
  <1>2. /\ netreq_buf' = Tail(netreq_buf)
        /\ seq_num' = seq_num /\ nr_arr' = nr_arr /\ client' = client
        /\ wire' = wire /\ inbox' = inbox
    BY <1>1 DEF forward_req_to_hlr, clientVars, sockVars
  <1>3. /\ Len(netreq_buf') = Len(netreq_buf) - 1 /\ Len(netreq_buf) >= 1
        /\ Head(netreq_buf) = netreq_buf[1]
        /\ \A i \in 1..(Len(netreq_buf) - 1) :
              netreq_buf'[i] = netreq_buf[i + 1] /\ i + 1 \in 1..Len(netreq_buf)
    BY <1>1, <1>2, StreamTypes, Rest
  <1>4. Taken' = Taken + 1
    BY <1>2, <1>3, StreamTypes DEF Taken
  <1>5. Taken \in Nat /\ Len(netreq_buf) \in Nat
    BY StreamTypes DEF StreamInv, Numbered
  <1>6. Head(netreq_buf) = Taken + 1
    BY <1>3, <1>5 DEF StreamInv, Numbered
  <1>7. ASSUME NEW i \in 1..Len(netreq_buf') PROVE netreq_buf'[i] = Taken' + i
    <2>1. netreq_buf'[i] = netreq_buf[i + 1] /\ i + 1 \in 1..Len(netreq_buf)
      BY <1>3, <1>5
    <2>2. netreq_buf[i + 1] = Taken + (i + 1)
      BY <2>1 DEF StreamInv, Numbered
    <2> QED
      BY <1>4, <1>5, <2>1, <2>2
  <1>8. Taken' + Len(netreq_buf') = Taken + Len(netreq_buf) /\ Taken' \in Nat
    BY <1>3, <1>4, <1>5
  <1>9. Target \in Handlers
    BY <1>1, TargetExists
  <1>10. req_q' = [req_q EXCEPT ![Target] = Append(req_q[Target], mreq)]
    BY <1>1, <1>9 DEF forward_req_to_hlr, q_enqueue, CountsInv, TypeOK, HandlerTypeOK
  <1> QED
    BY <1>2, <1>4, <1>6, <1>7, <1>8, <1>9, <1>10 DEF StreamInv, Numbered, LoadedAll

\* Every step keeps the numbering, and only forward_req_to_hlr takes a number.
LEMMA StreamStep ==
    ASSUME CountsInv, StreamInv, [Next]_vars
    PROVE  /\ StreamInv'
           /\ Taken' = Taken \/ forward_req_to_hlr
  <1>1. CASE req_in \/ send_request_bulk \/ Arrive \/ read_sock_bulk
    BY <1>1, StreamReqIn, StreamSend, StreamArrive, StreamRead
  <1>2. CASE forward_req_to_hlr
    BY <1>2, StreamForward
  <1>3. CASE \/ wait_until_finish \/ bench_free \/ ack_poller \/ ArriveClose
             \/ read_nothing \/ make_request_from_netreq \/ cl_grap_wait \/ cl_grap
             \/ (\E h \in Handlers : request_handler(h)) \/ UNCHANGED vars
    <2>1. UNCHANGED <<seq_num, nr_arr, wire, inbox, netreq_buf>>
      BY <1>3 DEF wait_until_finish, bench_free, ack_poller, ack_check, ack_read,
         ArriveClose, read_nothing, make_request_from_netreq, cl_grap_wait, cl_grap,
         request_handler, get_next_request, send_ack, cl_release, recycle,
         vars, clientVars, sockVars, masterVars, handlerVars
    <2>2. client' = client \/ client # "load"
      <3>1. CASE wait_until_finish \/ bench_free
        BY <3>1 DEF wait_until_finish, bench_free
      <3>2. CASE ~(wait_until_finish \/ bench_free)
        <4>1. CASE ack_poller \/ ArriveClose \/ read_nothing \/ UNCHANGED vars
          BY <4>1 DEF ack_poller, ack_check, ack_read, ArriveClose, read_nothing, vars,
             clientVars
        <4>2. CASE make_request_from_netreq \/ cl_grap_wait \/ cl_grap
          BY <4>2 DEF make_request_from_netreq, cl_grap_wait, cl_grap, clientVars
        <4>3. CASE \E h \in Handlers : request_handler(h)
          BY <4>3 DEF request_handler, get_next_request, send_ack, cl_release, recycle,
             clientVars
        <4> QED
          BY <1>3, <3>2, <4>1, <4>2, <4>3
      <3> QED
        BY <3>1, <3>2
    <2> QED
      BY <2>1, <2>2 DEF StreamInv, Numbered, LoadedAll, Taken
  <1> QED
    BY <1>1, <1>2, <1>3 DEF Next, client_main, master_thread

-----------------------------------------------------------------------------
(* The places of the struct requests. *)

\* The pools, queues and hands of the handlers.
LEMMA PlaceTypes ==
    ASSUME CountsInv
    PROVE  /\ req_pool \in [Handlers -> Seq(Requests)]
           /\ req_q \in [Handlers -> Seq(Requests)]
           /\ hreq \in [Handlers -> Requests \cup {0}]
           /\ hpc \in [Handlers -> {"dequeue", "ack", "release", "recycle"}]
           /\ req_arr \in [Handlers -> [Requests -> SeqNums \cup {0}]]
           /\ mreq \in Requests \cup {0}
           /\ \A h \in Handlers : Len(req_pool[h]) \in Nat /\ Len(req_q[h]) \in Nat
  <1>1. /\ req_pool \in [Handlers -> Seq(Requests)]
        /\ req_q \in [Handlers -> Seq(Requests)]
        /\ hreq \in [Handlers -> Requests \cup {0}]
        /\ hpc \in [Handlers -> {"dequeue", "ack", "release", "recycle"}]
        /\ req_arr \in [Handlers -> [Requests -> SeqNums \cup {0}]]
        /\ mreq \in Requests \cup {0}
    BY DEF CountsInv, TypeOK, HandlerTypeOK, MasterTypeOK
  <1> QED
    BY <1>1

\* make_request_from_netreq: from the pool into the master's hand.
MakeMove(t) ==
    /\ t \in Handlers /\ Target = t /\ Target' = t
    /\ mreq = 0 /\ mreq' = req_pool[t][1] /\ mreq' \in Requests
    /\ Len(req_pool[t]) >= 1
    /\ Len(req_pool'[t]) = Len(req_pool[t]) - 1
    /\ \A i \in 1..Len(req_pool'[t]) : req_pool'[t][i] = req_pool[t][i + 1]
    /\ \A h \in Handlers : h # t => req_pool'[h] = req_pool[h]
    /\ req_q' = req_q /\ hreq' = hreq

\* forward_req_to_hlr: from the master's hand into the queue.
ForwardMove(t) ==
    /\ t \in Handlers /\ Target = t
    /\ mreq \in Requests /\ mreq' = 0
    /\ Len(req_q'[t]) = Len(req_q[t]) + 1
    /\ req_q'[t][Len(req_q[t]) + 1] = mreq
    /\ \A i \in 1..Len(req_q[t]) : req_q'[t][i] = req_q[t][i]
    /\ \A h \in Handlers : h # t => req_q'[h] = req_q[h]
    /\ req_pool' = req_pool /\ hreq' = hreq

\* get_next_request: from the queue into the handler's hand.
DequeueMove(t) ==
    /\ t \in Handlers
    /\ hreq[t] = 0 /\ hreq'[t] = req_q[t][1] /\ req_q[t][1] \in Requests
    /\ Len(req_q[t]) >= 1
    /\ Len(req_q'[t]) = Len(req_q[t]) - 1
    /\ \A i \in 1..Len(req_q'[t]) : req_q'[t][i] = req_q[t][i + 1]
    /\ \A h \in Handlers : h # t => req_q'[h] = req_q[h] /\ hreq'[h] = hreq[h]
    /\ req_pool' = req_pool /\ mreq' = mreq /\ Target' = Target

\* recycle: from the handler's hand back into the pool.
RecycleMove(t) ==
    /\ t \in Handlers
    /\ hreq[t] \in Requests /\ hreq'[t] = 0
    /\ Len(req_pool'[t]) = Len(req_pool[t]) + 1
    /\ req_pool'[t][Len(req_pool[t]) + 1] = hreq[t]
    /\ \A i \in 1..Len(req_pool[t]) : req_pool'[t][i] = req_pool[t][i]
    /\ \A h \in Handlers : h # t => req_pool'[h] = req_pool[h] /\ hreq'[h] = hreq[h]
    /\ req_q' = req_q /\ mreq' = mreq /\ Target' = Target

\* Any other step: nothing moves.
NoMove ==
    /\ req_pool' = req_pool /\ req_q' = req_q /\ hreq' = hreq /\ mreq' = mreq
    /\ mreq # 0 => Target' = Target

\* make_request_from_netreq takes the first struct request of the pool.
LEMMA MakeMoves ==
    ASSUME CountsInv, make_request_from_netreq
    PROVE  MakeMove(Target)
  <1>1. mpc = "make" /\ netreq_buf # << >> /\ mreq = 0 /\ Target' = Target
    BY DEF make_request_from_netreq, CountsInv, HandsExact, Target
  <1>2. Target \in Handlers
    BY <1>1, TargetExists
  <1>3. PICK t \in Handlers : t = Target
    BY <1>2
  <1>4. req_pool[t] \in Seq(Requests) /\ req_pool[t] # << >>
    BY <1>3, PlaceTypes DEF make_request_from_netreq
  <1>5. /\ mreq' = Head(req_pool[t])
        /\ req_pool' = [req_pool EXCEPT ![t] = Tail(req_pool[t])]
        /\ req_q' = req_q /\ hreq' = hreq
    BY <1>3, PlaceTypes DEF make_request_from_netreq
  <1>6. req_pool'[t] = Tail(req_pool[t])
        /\ \A h \in Handlers : h # t => req_pool'[h] = req_pool[h]
    BY <1>5, PlaceTypes
  <1>8. /\ Len(req_pool'[t]) = Len(req_pool[t]) - 1 /\ Len(req_pool[t]) >= 1
        /\ mreq' = req_pool[t][1] /\ req_pool[t][1] \in Requests
        /\ \A i \in 1..Len(req_pool'[t]) : req_pool'[t][i] = req_pool[t][i + 1]
    <2>1. /\ Len(Tail(req_pool[t])) = Len(req_pool[t]) - 1 /\ Len(req_pool[t]) >= 1
          /\ Head(req_pool[t]) = req_pool[t][1] /\ req_pool[t][1] \in Requests
          /\ \A i \in 1..(Len(req_pool[t]) - 1) :
                Tail(req_pool[t])[i] = req_pool[t][i + 1]
      BY <1>4
    <2> QED
      BY <1>5, <1>6, <2>1
  <1>7. MakeMove(t)
    BY <1>1, <1>3, <1>5, <1>6, <1>8 DEF MakeMove
  <1> QED
    BY <1>3, <1>7

\* forward_req_to_hlr appends the one in hand to the queue, which has room.
LEMMA ForwardMoves ==
    ASSUME CountsInv, StreamInv, forward_req_to_hlr
    PROVE  ForwardMove(Target)
  <1>1. mpc = "enqueue" /\ mreq # 0 /\ mreq' = 0
    BY DEF forward_req_to_hlr, CountsInv, HandsExact
  <1>2. /\ Target \in Handlers
        /\ req_q' = [req_q EXCEPT ![Target] = Append(req_q[Target], mreq)]
        /\ req_pool' = req_pool /\ hreq' = hreq
    BY StreamForward DEF forward_req_to_hlr
  <1>3. PICK t \in Handlers : t = Target
    BY <1>2
  <1>4. mreq \in Requests /\ req_q[t] \in Seq(Requests)
    BY <1>1, PlaceTypes
  <1>5. /\ req_q'[t] = Append(req_q[t], mreq)
        /\ \A h \in Handlers : h # t => req_q'[h] = req_q[h]
    BY <1>2, <1>3, PlaceTypes
  <1>6. ForwardMove(t)
    BY <1>1, <1>2, <1>3, <1>4, <1>5 DEF ForwardMove
  <1> QED
    BY <1>3, <1>6

\* get_next_request takes the first one of the queue.
LEMMA DequeueMoves ==
    ASSUME CountsInv, NEW t \in Handlers, get_next_request(t)
    PROVE  DequeueMove(t)
  <1>1. /\ hreq[t] = 0 /\ req_q[t] # << >> /\ req_q[t] \in Seq(Requests)
        /\ hreq' = [hreq EXCEPT ![t] = Head(req_q[t])]
        /\ req_q' = [req_q EXCEPT ![t] = Tail(req_q[t])]
        /\ req_pool' = req_pool /\ mreq' = mreq /\ Target' = Target
    BY PlaceTypes DEF get_next_request, CountsInv, HandsExact, masterVars, Target
  <1>2. /\ hreq'[t] = Head(req_q[t]) /\ req_q'[t] = Tail(req_q[t])
        /\ \A h \in Handlers : h # t => req_q'[h] = req_q[h] /\ hreq'[h] = hreq[h]
    BY <1>1, PlaceTypes
  <1>8. /\ Len(req_q'[t]) = Len(req_q[t]) - 1 /\ Len(req_q[t]) >= 1
        /\ Head(req_q[t]) = req_q[t][1] /\ req_q[t][1] \in Requests
        /\ \A i \in 1..Len(req_q'[t]) : req_q'[t][i] = req_q[t][i + 1]
    <2>1. /\ Len(Tail(req_q[t])) = Len(req_q[t]) - 1 /\ Len(req_q[t]) >= 1
          /\ Head(req_q[t]) = req_q[t][1] /\ req_q[t][1] \in Requests
          /\ \A i \in 1..(Len(req_q[t]) - 1) : Tail(req_q[t])[i] = req_q[t][i + 1]
      BY <1>1
    <2> QED
      BY <1>2, <2>1
  <1> QED
    BY <1>1, <1>2, <1>8 DEF DequeueMove

\* recycle puts the one in hand back into the pool, which has room.
LEMMA RecycleMoves ==
    ASSUME CountsInv, NEW t \in Handlers, recycle(t)
    PROVE  RecycleMove(t)
  <1>1. hreq[t] # 0 /\ ~q_full(req_pool[t])
    BY PlaceTypes, RoomInPool DEF recycle, CountsInv, HandsExact
  <1>2. /\ hreq[t] \in Requests /\ req_pool[t] \in Seq(Requests)
        /\ hreq' = [hreq EXCEPT ![t] = 0]
        /\ req_pool' = [req_pool EXCEPT ![t] = Append(req_pool[t], hreq[t])]
        /\ req_q' = req_q /\ mreq' = mreq /\ Target' = Target
    BY <1>1, PlaceTypes DEF recycle, q_enqueue, masterVars, Target
  <1>3. /\ hreq'[t] = 0 /\ req_pool'[t] = Append(req_pool[t], hreq[t])
        /\ \A h \in Handlers : h # t => req_pool'[h] = req_pool[h] /\ hreq'[h] = hreq[h]
    BY <1>2, PlaceTypes
  <1> QED
    BY <1>2, <1>3 DEF RecycleMove

\* Every step moves one struct request or none.
LEMMA Moves ==
    ASSUME CountsInv, StreamInv, [Next]_vars
    PROVE  NoMove \/ \E t \in Handlers : MakeMove(t) \/ ForwardMove(t)
                                         \/ DequeueMove(t) \/ RecycleMove(t)
  <1>1. CASE make_request_from_netreq
    BY <1>1, MakeMoves DEF MakeMove
  <1>2. CASE forward_req_to_hlr
    BY <1>2, ForwardMoves DEF ForwardMove
  <1>3. CASE \E h \in Handlers : get_next_request(h)
    BY <1>3, DequeueMoves
  <1>4. CASE \E h \in Handlers : recycle(h)
    BY <1>4, RecycleMoves
  <1>5. CASE client_main \/ ack_poller \/ Arrive \/ ArriveClose \/ UNCHANGED vars
    BY <1>5 DEF client_main, req_in, send_request_bulk, wait_until_finish, bench_free,
       ack_poller, ack_check, ack_read, Arrive, ArriveClose, vars, masterVars,
       handlerVars, NoMove, Target
  <1>6. CASE \/ read_nothing \/ cl_grap_wait \/ cl_grap
             \/ \E h \in Handlers : send_ack(h) \/ cl_release(h)
    BY <1>6 DEF read_nothing, cl_grap_wait, cl_grap, send_ack, cl_release, masterVars,
       handlerVars, NoMove, Target
  <1>7. CASE read_sock_bulk
    BY <1>7 DEF read_sock_bulk, handlerVars, NoMove, CountsInv, HandsExact
  <1> QED
    BY <1>1, <1>2, <1>3, <1>4, <1>5, <1>6, <1>7 DEF Next, master_thread, request_handler

\* The pool has lost the one that is now in the master's hand.
LEMMA MakeMembers ==
    ASSUME CountsInv, PoolOnce, NEW t, MakeMove(t), NEW q
    PROVE  /\ InPool(t, q)' <=> InPool(t, q) /\ q # mreq'
           /\ InPool(t, mreq')
  <1>1. Len(req_pool[t]) \in Nat /\ t \in Handlers /\ Len(req_pool'[t]) \in Nat
    BY PlaceTypes DEF MakeMove
  <1>2. ASSUME InPool(t, q)' PROVE InPool(t, q) /\ q # mreq'
    <2>1. PICK i \in 1..Len(req_pool'[t]) : req_pool'[t][i] = q
      BY <1>2 DEF InPool
    <2>2. i + 1 \in 1..Len(req_pool[t]) /\ req_pool[t][i + 1] = q
      BY <1>1, <2>1 DEF MakeMove
    <2>3. 1 \in 1..Len(req_pool[t]) /\ i + 1 # 1
      BY <1>1 DEF MakeMove
    <2> QED
      BY <1>1, <2>2, <2>3 DEF InPool, PoolOnce, MakeMove
  <1>3. ASSUME InPool(t, q), q # mreq' PROVE InPool(t, q)'
    <2>1. PICK i \in 1..Len(req_pool[t]) : req_pool[t][i] = q
      BY <1>3 DEF InPool
    <2>2. i # 1
      BY <1>3, <2>1 DEF MakeMove
    <2>3. i - 1 \in 1..Len(req_pool'[t]) /\ (i - 1) + 1 = i
      BY <1>1, <2>2 DEF MakeMove
    <2>4. req_pool'[t][i - 1] = q
      BY <2>1, <2>3 DEF MakeMove
    <2> QED
      BY <2>3, <2>4 DEF InPool
  <1>4. InPool(t, mreq')
    BY <1>1 DEF InPool, MakeMove
  <1> QED
    BY <1>2, <1>3, <1>4

\* The queue has gained the one that was in the master's hand.
LEMMA ForwardMembers ==
    ASSUME CountsInv, NEW t, ForwardMove(t), NEW q
    PROVE  InQueue(t, q)' <=> InQueue(t, q) \/ q = mreq
  <1>1. Len(req_q[t]) \in Nat /\ t \in Handlers
    BY PlaceTypes DEF ForwardMove
  <1>2. ASSUME InQueue(t, q)' PROVE InQueue(t, q) \/ q = mreq
    <2>1. PICK i \in 1..Len(req_q'[t]) : req_q'[t][i] = q
      BY <1>2 DEF InQueue
    <2>2. i = Len(req_q[t]) + 1 \/ i \in 1..Len(req_q[t])
      BY <1>1 DEF ForwardMove
    <2> QED
      BY <2>1, <2>2 DEF InQueue, ForwardMove
  <1>3. ASSUME InQueue(t, q) PROVE InQueue(t, q)'
    <2>1. PICK i \in 1..Len(req_q[t]) : req_q[t][i] = q
      BY <1>3 DEF InQueue
    <2>2. i \in 1..Len(req_q'[t]) /\ req_q'[t][i] = q
      BY <1>1, <2>1 DEF ForwardMove
    <2> QED
      BY <2>2 DEF InQueue
  <1>4. ASSUME q = mreq PROVE InQueue(t, q)'
    <2>1. Len(req_q[t]) + 1 \in 1..Len(req_q'[t])
          /\ req_q'[t][Len(req_q[t]) + 1] = q
      BY <1>1, <1>4 DEF ForwardMove
    <2> QED
      BY <2>1 DEF InQueue
  <1> QED
    BY <1>2, <1>3, <1>4

\* The queue has lost the one that is now in the handler's hand.
LEMMA DequeueMembers ==
    ASSUME CountsInv, QueueOnce, NEW t, DequeueMove(t), NEW q
    PROVE  /\ InQueue(t, q)' <=> InQueue(t, q) /\ q # hreq'[t]
           /\ InQueue(t, hreq'[t])
  <1>1. Len(req_q[t]) \in Nat /\ t \in Handlers /\ Len(req_q'[t]) \in Nat
    BY PlaceTypes DEF DequeueMove
  <1>2. ASSUME InQueue(t, q)' PROVE InQueue(t, q) /\ q # hreq'[t]
    <2>1. PICK i \in 1..Len(req_q'[t]) : req_q'[t][i] = q
      BY <1>2 DEF InQueue
    <2>2. i + 1 \in 1..Len(req_q[t]) /\ req_q[t][i + 1] = q
      BY <1>1, <2>1 DEF DequeueMove
    <2>3. 1 \in 1..Len(req_q[t]) /\ i + 1 # 1
      BY <1>1 DEF DequeueMove
    <2> QED
      BY <1>1, <2>2, <2>3 DEF InQueue, QueueOnce, DequeueMove
  <1>3. ASSUME InQueue(t, q), q # hreq'[t] PROVE InQueue(t, q)'
    <2>1. PICK i \in 1..Len(req_q[t]) : req_q[t][i] = q
      BY <1>3 DEF InQueue
    <2>2. i # 1
      BY <1>3, <2>1 DEF DequeueMove
    <2>3. i - 1 \in 1..Len(req_q'[t]) /\ (i - 1) + 1 = i
      BY <1>1, <2>2 DEF DequeueMove
    <2>4. req_q'[t][i - 1] = q
      BY <2>1, <2>3 DEF DequeueMove
    <2> QED
      BY <2>3, <2>4 DEF InQueue
  <1>4. InQueue(t, hreq'[t])
    BY <1>1 DEF InQueue, DequeueMove
  <1> QED
    BY <1>2, <1>3, <1>4

\* The pool has gained the one that was in the handler's hand.
LEMMA RecycleMembers ==
    ASSUME CountsInv, NEW t, RecycleMove(t), NEW q
    PROVE  InPool(t, q)' <=> InPool(t, q) \/ q = hreq[t]
  <1>1. Len(req_pool[t]) \in Nat /\ t \in Handlers
    BY PlaceTypes DEF RecycleMove
  <1>2. ASSUME InPool(t, q)' PROVE InPool(t, q) \/ q = hreq[t]
    <2>1. PICK i \in 1..Len(req_pool'[t]) : req_pool'[t][i] = q
      BY <1>2 DEF InPool
    <2>2. i = Len(req_pool[t]) + 1 \/ i \in 1..Len(req_pool[t])
      BY <1>1 DEF RecycleMove
    <2> QED
      BY <2>1, <2>2 DEF InPool, RecycleMove
  <1>3. ASSUME InPool(t, q) PROVE InPool(t, q)'
    <2>1. PICK i \in 1..Len(req_pool[t]) : req_pool[t][i] = q
      BY <1>3 DEF InPool
    <2>2. i \in 1..Len(req_pool'[t]) /\ req_pool'[t][i] = q
      BY <1>1, <2>1 DEF RecycleMove
    <2> QED
      BY <2>2 DEF InPool
  <1>4. ASSUME q = hreq[t] PROVE InPool(t, q)'
    <2>1. Len(req_pool[t]) + 1 \in 1..Len(req_pool'[t])
          /\ req_pool'[t][Len(req_pool[t]) + 1] = q
      BY <1>1, <1>4 DEF RecycleMove
    <2> QED
      BY <2>1 DEF InPool
  <1> QED
    BY <1>2, <1>3, <1>4

\* The one that the master takes was in the pool once.
LEMMA MakePlaces ==
    ASSUME CountsInv, PlaceInv, NEW t, MakeMove(t)
    PROVE  PlaceInv'
  <1>1. /\ t \in Handlers /\ PoolOnce /\ QueueOnce
        /\ Len(req_pool[t]) \in Nat /\ Len(req_pool'[t]) \in Nat
    BY PlaceTypes DEF MakeMove, PlaceInv
  <1>2. \A q \in Requests : \A h \in Handlers :
          /\ InQueue(h, q)' <=> InQueue(h, q)
          /\ InHandler(h, q)' <=> InHandler(h, q)
          /\ ~InMaster(h, q)
          /\ InMaster(h, q)' <=> h = t /\ q = mreq'
          /\ h # t => (InPool(h, q)' <=> InPool(h, q))
    BY ZeroIsNoRequest DEF MakeMove, InQueue, InHandler, InMaster, InPool
  <1>3. \A q \in Requests : /\ InPool(t, q)' <=> InPool(t, q) /\ q # mreq'
                            /\ InPool(t, mreq')
    BY <1>1, MakeMembers
  <1>4. Covered'
    <2> SUFFICES ASSUME NEW h \in Handlers, NEW q \in Requests
                 PROVE  (InPool(h, q) \/ InQueue(h, q) \/ InMaster(h, q)
                           \/ InHandler(h, q))'
      BY DEF Covered
    <2> QED
      BY <1>2, <1>3 DEF PlaceInv, Covered
  <1>5. Apart'
    <2> SUFFICES ASSUME NEW h \in Handlers, NEW q \in Requests
                 PROVE  (/\ InPool(h, q) => ~InQueue(h, q) /\ ~InMaster(h, q)
                                              /\ ~InHandler(h, q)
                         /\ InQueue(h, q) => ~InMaster(h, q) /\ ~InHandler(h, q)
                         /\ InMaster(h, q) => ~InHandler(h, q))'
      BY DEF Apart
    <2> QED
      BY <1>2, <1>3 DEF PlaceInv, Apart
  <1>6. PoolOnce'
    <2> SUFFICES ASSUME NEW h \in Handlers, NEW i \in 1..Len(req_pool'[h]),
                        NEW j \in 1..Len(req_pool'[h]),
                        req_pool'[h][i] = req_pool'[h][j]
                 PROVE  i = j
      BY DEF PoolOnce
    <2>1. CASE h = t
      <3>1. Len(req_pool'[t]) = Len(req_pool[t]) - 1
        BY DEF MakeMove
      <3>2. i + 1 \in 1..Len(req_pool[t]) /\ j + 1 \in 1..Len(req_pool[t])
        BY <1>1, <2>1, <3>1
      <3>3. req_pool'[t][i] = req_pool[t][i + 1] /\ req_pool'[t][j] = req_pool[t][j + 1]
        BY <2>1 DEF MakeMove
      <3>4. i + 1 = j + 1
        BY <1>1, <2>1, <3>2, <3>3 DEF PoolOnce
      <3> QED
        BY <3>4
    <2>2. CASE h # t
      BY <1>1, <2>2 DEF PoolOnce, MakeMove
    <2> QED
      BY <2>1, <2>2
  <1>7. QueueOnce'
    BY <1>1 DEF QueueOnce, MakeMove
  <1> QED
    BY <1>4, <1>5, <1>6, <1>7 DEF PlaceInv

\* The one that is forwarded was in no queue.
LEMMA ForwardPlaces ==
    ASSUME CountsInv, PlaceInv, NEW t, ForwardMove(t)
    PROVE  PlaceInv'
  <1>1. /\ t \in Handlers /\ PoolOnce /\ QueueOnce /\ mreq \in Requests
        /\ Len(req_q[t]) \in Nat
    BY PlaceTypes DEF ForwardMove, PlaceInv
  <1>2. \A q \in Requests : \A h \in Handlers :
          /\ InPool(h, q)' <=> InPool(h, q)
          /\ InHandler(h, q)' <=> InHandler(h, q)
          /\ ~InMaster(h, q)'
          /\ InMaster(h, q) <=> h = t /\ q = mreq
          /\ h # t => (InQueue(h, q)' <=> InQueue(h, q))
    BY ZeroIsNoRequest DEF ForwardMove, InQueue, InHandler, InMaster, InPool
  <1>3. \A q \in Requests : InQueue(t, q)' <=> InQueue(t, q) \/ q = mreq
    BY <1>1, ForwardMembers
  <1>4. Covered'
    <2> SUFFICES ASSUME NEW h \in Handlers, NEW q \in Requests
                 PROVE  (InPool(h, q) \/ InQueue(h, q) \/ InMaster(h, q)
                           \/ InHandler(h, q))'
      BY DEF Covered
    <2> QED
      BY <1>2, <1>3 DEF PlaceInv, Covered
  <1>5. Apart'
    <2> SUFFICES ASSUME NEW h \in Handlers, NEW q \in Requests
                 PROVE  (/\ InPool(h, q) => ~InQueue(h, q) /\ ~InMaster(h, q)
                                              /\ ~InHandler(h, q)
                         /\ InQueue(h, q) => ~InMaster(h, q) /\ ~InHandler(h, q)
                         /\ InMaster(h, q) => ~InHandler(h, q))'
      BY DEF Apart
    <2> QED
      BY <1>2, <1>3 DEF PlaceInv, Apart
  <1>6. QueueOnce'
    <2> SUFFICES ASSUME NEW h \in Handlers, NEW i \in 1..Len(req_q'[h]),
                        NEW j \in 1..Len(req_q'[h]), req_q'[h][i] = req_q'[h][j]
                 PROVE  i = j
      BY DEF QueueOnce
    <2>1. CASE h = t
      <3>1. ~InQueue(t, mreq)
        BY <1>1, <1>2 DEF PlaceInv, Apart
      <3>2. /\ i = Len(req_q[t]) + 1 \/ i \in 1..Len(req_q[t])
            /\ j = Len(req_q[t]) + 1 \/ j \in 1..Len(req_q[t])
        BY <1>1, <2>1 DEF ForwardMove
      <3>3. ASSUME NEW k \in 1..Len(req_q[t])
            PROVE  req_q'[t][k] = req_q[t][k] /\ req_q[t][k] # mreq
        BY <3>1 DEF ForwardMove, InQueue
      <3>4. req_q'[t][Len(req_q[t]) + 1] = mreq
        BY DEF ForwardMove
      <3> QED
        BY <1>1, <2>1, <3>2, <3>3, <3>4 DEF QueueOnce
    <2>2. CASE h # t
      BY <1>1, <2>2 DEF QueueOnce, ForwardMove
    <2> QED
      BY <2>1, <2>2
  <1>7. PoolOnce'
    BY <1>1 DEF PoolOnce, ForwardMove
  <1> QED
    BY <1>4, <1>5, <1>6, <1>7 DEF PlaceInv

\* The one that is dequeued was in the queue once.
LEMMA DequeuePlaces ==
    ASSUME CountsInv, PlaceInv, NEW t, DequeueMove(t)
    PROVE  PlaceInv'
  <1>1. /\ t \in Handlers /\ PoolOnce /\ QueueOnce /\ hreq'[t] \in Requests
        /\ Len(req_q[t]) \in Nat /\ Len(req_q'[t]) \in Nat
    BY PlaceTypes DEF DequeueMove, PlaceInv
  <1>2. \A q \in Requests : \A h \in Handlers :
          /\ InPool(h, q)' <=> InPool(h, q)
          /\ InMaster(h, q)' <=> InMaster(h, q)
          /\ h # t => (InQueue(h, q)' <=> InQueue(h, q))
          /\ h # t => (InHandler(h, q)' <=> InHandler(h, q))
          /\ ~InHandler(t, q)
          /\ InHandler(t, q)' <=> q = hreq'[t]
    BY ZeroIsNoRequest DEF DequeueMove, InQueue, InHandler, InMaster, InPool
  <1>3. \A q \in Requests : /\ InQueue(t, q)' <=> InQueue(t, q) /\ q # hreq'[t]
                            /\ InQueue(t, hreq'[t])
    BY <1>1, DequeueMembers
  <1>4. Covered'
    <2> SUFFICES ASSUME NEW h \in Handlers, NEW q \in Requests
                 PROVE  (InPool(h, q) \/ InQueue(h, q) \/ InMaster(h, q)
                           \/ InHandler(h, q))'
      BY DEF Covered
    <2> QED
      BY <1>1, <1>2, <1>3 DEF PlaceInv, Covered
  <1>5. Apart'
    <2> SUFFICES ASSUME NEW h \in Handlers, NEW q \in Requests
                 PROVE  (/\ InPool(h, q) => ~InQueue(h, q) /\ ~InMaster(h, q)
                                              /\ ~InHandler(h, q)
                         /\ InQueue(h, q) => ~InMaster(h, q) /\ ~InHandler(h, q)
                         /\ InMaster(h, q) => ~InHandler(h, q))'
      BY DEF Apart
    <2> QED
      BY <1>1, <1>2, <1>3 DEF PlaceInv, Apart
  <1>6. QueueOnce'
    <2> SUFFICES ASSUME NEW h \in Handlers, NEW i \in 1..Len(req_q'[h]),
                        NEW j \in 1..Len(req_q'[h]), req_q'[h][i] = req_q'[h][j]
                 PROVE  i = j
      BY DEF QueueOnce
    <2>1. CASE h = t
      <3>1. Len(req_q'[t]) = Len(req_q[t]) - 1
        BY DEF DequeueMove
      <3>2. i + 1 \in 1..Len(req_q[t]) /\ j + 1 \in 1..Len(req_q[t])
        BY <1>1, <2>1, <3>1
      <3>3. req_q'[t][i] = req_q[t][i + 1] /\ req_q'[t][j] = req_q[t][j + 1]
        BY <2>1 DEF DequeueMove
      <3>4. i + 1 = j + 1
        BY <1>1, <2>1, <3>2, <3>3 DEF QueueOnce
      <3> QED
        BY <3>4
    <2>2. CASE h # t
      BY <1>1, <2>2 DEF QueueOnce, DequeueMove
    <2> QED
      BY <2>1, <2>2
  <1>7. PoolOnce'
    BY <1>1 DEF PoolOnce, DequeueMove
  <1> QED
    BY <1>4, <1>5, <1>6, <1>7 DEF PlaceInv

\* The one that is put back was not in the pool.
LEMMA RecyclePlaces ==
    ASSUME CountsInv, PlaceInv, NEW t, RecycleMove(t)
    PROVE  PlaceInv'
  <1>1. /\ t \in Handlers /\ PoolOnce /\ QueueOnce /\ hreq[t] \in Requests
        /\ Len(req_pool[t]) \in Nat
    BY PlaceTypes DEF RecycleMove, PlaceInv
  <1>2. \A q \in Requests : \A h \in Handlers :
          /\ InQueue(h, q)' <=> InQueue(h, q)
          /\ InMaster(h, q)' <=> InMaster(h, q)
          /\ h # t => (InPool(h, q)' <=> InPool(h, q))
          /\ h # t => (InHandler(h, q)' <=> InHandler(h, q))
          /\ ~InHandler(t, q)'
          /\ InHandler(t, q) <=> q = hreq[t]
    BY ZeroIsNoRequest DEF RecycleMove, InQueue, InHandler, InMaster, InPool
  <1>3. \A q \in Requests : InPool(t, q)' <=> InPool(t, q) \/ q = hreq[t]
    BY <1>1, RecycleMembers
  <1>4. Covered'
    <2> SUFFICES ASSUME NEW h \in Handlers, NEW q \in Requests
                 PROVE  (InPool(h, q) \/ InQueue(h, q) \/ InMaster(h, q)
                           \/ InHandler(h, q))'
      BY DEF Covered
    <2> QED
      BY <1>1, <1>2, <1>3 DEF PlaceInv, Covered
  <1>5. Apart'
    <2> SUFFICES ASSUME NEW h \in Handlers, NEW q \in Requests
                 PROVE  (/\ InPool(h, q) => ~InQueue(h, q) /\ ~InMaster(h, q)
                                              /\ ~InHandler(h, q)
                         /\ InQueue(h, q) => ~InMaster(h, q) /\ ~InHandler(h, q)
                         /\ InMaster(h, q) => ~InHandler(h, q))'
      BY DEF Apart
    <2> QED
      BY <1>1, <1>2, <1>3 DEF PlaceInv, Apart
  <1>6. PoolOnce'
    <2> SUFFICES ASSUME NEW h \in Handlers, NEW i \in 1..Len(req_pool'[h]),
                        NEW j \in 1..Len(req_pool'[h]),
                        req_pool'[h][i] = req_pool'[h][j]
                 PROVE  i = j
      BY DEF PoolOnce
    <2>1. CASE h = t
      <3>1. ~InPool(t, hreq[t])
        BY <1>1, <1>2 DEF PlaceInv, Apart
      <3>2. /\ i = Len(req_pool[t]) + 1 \/ i \in 1..Len(req_pool[t])
            /\ j = Len(req_pool[t]) + 1 \/ j \in 1..Len(req_pool[t])
        BY <1>1, <2>1 DEF RecycleMove
      <3>3. ASSUME NEW k \in 1..Len(req_pool[t])
            PROVE  req_pool'[t][k] = req_pool[t][k] /\ req_pool[t][k] # hreq[t]
        BY <3>1 DEF RecycleMove, InPool
      <3>4. req_pool'[t][Len(req_pool[t]) + 1] = hreq[t]
        BY DEF RecycleMove
      <3> QED
        BY <1>1, <2>1, <3>2, <3>3, <3>4 DEF PoolOnce
    <2>2. CASE h # t
      BY <1>1, <2>2 DEF PoolOnce, RecycleMove
    <2> QED
      BY <2>1, <2>2
  <1>7. QueueOnce'
    BY <1>1 DEF QueueOnce, RecycleMove
  <1> QED
    BY <1>4, <1>5, <1>6, <1>7 DEF PlaceInv

\* Steps that move nothing.
LEMMA NoMovePlaces ==
    ASSUME CountsInv, PlaceInv, NoMove
    PROVE  PlaceInv'
  <1>1. \A q \in Requests : \A h \in Handlers :
          /\ InPool(h, q)' <=> InPool(h, q)
          /\ InQueue(h, q)' <=> InQueue(h, q)
          /\ InHandler(h, q)' <=> InHandler(h, q)
          /\ InMaster(h, q)' <=> InMaster(h, q)
    BY ZeroIsNoRequest DEF NoMove, InQueue, InHandler, InMaster, InPool
  <1>2. Covered' /\ Apart'
    BY <1>1 DEF PlaceInv, Covered, Apart
  <1>3. PoolOnce' /\ QueueOnce'
    BY DEF PlaceInv, PoolOnce, QueueOnce, NoMove
  <1> QED
    BY <1>2, <1>3 DEF PlaceInv

\* Every step keeps each struct request in exactly one place.
LEMMA PlaceStep ==
    ASSUME CountsInv, StreamInv, PlaceInv, [Next]_vars
    PROVE  PlaceInv'
  BY Moves, NoMovePlaces, MakePlaces, ForwardPlaces, DequeuePlaces, RecyclePlaces

-----------------------------------------------------------------------------
(* The order in which requests are answered. *)

\* The contents of the struct requests in use change only when the master
\* makes a request, and then only of the one it took from the pool.
LEMMA MakeContents ==
    ASSUME CountsInv, PlaceInv, make_request_from_netreq
    PROVE  /\ \A h \in Handlers : \A i \in 1..Len(req_q[h]) : QVal(h, i)' = QVal(h, i)
           /\ \A h \in Handlers : hpc[h] = "ack" => HVal(h)' = HVal(h)
           /\ MasterVal'
  <1>1. MakeMove(Target)
    BY MakeMoves
  <1>2. PICK t \in Handlers : t = Target
    BY <1>1 DEF MakeMove
  <1>3. MakeMove(t) /\ Target' = t /\ netreq_buf' = netreq_buf
    BY <1>1, <1>2 DEF MakeMove, make_request_from_netreq
  <1>4. req_arr' = [req_arr EXCEPT ![t][mreq'] = Head(netreq_buf)]
    BY <1>2 DEF make_request_from_netreq
  <1>5. mreq' \in Requests /\ InPool(t, mreq')
    BY <1>3, MakeMembers DEF MakeMove, PlaceInv
  <1>6. ~InQueue(t, mreq') /\ ~InHandler(t, mreq')
    BY <1>5 DEF PlaceInv, Apart
  <1>7. ASSUME NEW h \in Handlers, NEW q \in Requests, h # t \/ q # mreq'
        PROVE  req_arr'[h][q] = req_arr[h][q]
    BY <1>4, <1>5, <1>7, PlaceTypes
  <1>8. ASSUME NEW h \in Handlers, NEW i \in 1..Len(req_q[h])
        PROVE  QVal(h, i)' = QVal(h, i)
    <2>1. req_q[h][i] \in Requests /\ req_q'[h][i] = req_q[h][i]
      BY <1>3, PlaceTypes DEF MakeMove
    <2>2. h # t \/ req_q[h][i] # mreq'
      BY <1>6 DEF InQueue
    <2> QED
      BY <1>7, <2>1, <2>2 DEF QVal
  <1>9. ASSUME NEW h \in Handlers, hpc[h] = "ack"
        PROVE  HVal(h)' = HVal(h)
    <2>1. hreq[h] \in Requests /\ hreq'[h] = hreq[h]
      BY <1>3, <1>9, PlaceTypes DEF MakeMove, CountsInv, HandsExact
    <2>2. h # t \/ hreq[h] # mreq'
      BY <1>6 DEF InHandler
    <2> QED
      BY <1>7, <2>1, <2>2 DEF HVal
  <1>10. MasterVal'
    <2>1. req_arr'[t][mreq'] = Head(netreq_buf)
      BY <1>4, <1>5, PlaceTypes
    <2> QED
      BY <1>3, <2>1 DEF MasterVal
  <1> QED
    BY <1>8, <1>9, <1>10

\* A step that moves no number: the queues, the hands that are to be answered,
\* the acknowledgements and the number of forwarded requests stay.
Still ==
    /\ acklog' = acklog /\ Taken' = Taken
    /\ \A h \in Handlers :
          /\ Len(req_q'[h]) = Len(req_q[h])
          /\ \A i \in 1..Len(req_q[h]) : QVal(h, i)' = QVal(h, i)
          /\ hpc'[h] = "ack" <=> hpc[h] = "ack"
          /\ hpc[h] = "ack" => HVal(h)' = HVal(h)
    /\ MasterVal'

\* Such a step keeps the order.
LEMMA StillKeeps ==
    ASSUME CountsInv, OrderInv, Still
    PROVE  OrderInv'
  <1>1. QueueOwn' /\ QueueSorted'
    BY DEF OrderInv, QueueOwn, QueueSorted, Still
  <1>2. HandOwn'
    BY DEF OrderInv, HandOwn, Still
  <1>3. AcksOlder'
    BY DEF OrderInv, AcksOlder, Still
  <1>4. AcksInOrder' /\ MasterVal'
    BY DEF OrderInv, AcksInOrder, Still
  <1> QED
    BY <1>1, <1>2, <1>3, <1>4 DEF OrderInv

\* Most steps are still.
LEMMA StillSteps ==
    ASSUME CountsInv, StreamInv, PlaceInv, OrderInv, [Next]_vars,
           ~forward_req_to_hlr,
           ~ \E h \in Handlers : get_next_request(h) \/ send_ack(h)
    PROVE  Still
  <1>0. Taken' = Taken
    BY StreamStep
  <1>1. CASE make_request_from_netreq
    <2>1. acklog' = acklog /\ req_q' = req_q /\ hpc' = hpc
      BY <1>1 DEF make_request_from_netreq
    <2> QED
      BY <1>0, <1>1, <2>1, MakeContents DEF Still
  <1>2. CASE \E h \in Handlers : recycle(h)
    <2>1. PICK t \in Handlers : recycle(t)
      BY <1>2
    <2>2. /\ acklog' = acklog /\ req_q' = req_q /\ req_arr' = req_arr
          /\ hpc[t] = "recycle" /\ hpc' = [hpc EXCEPT ![t] = "dequeue"]
          /\ hreq' = [hreq EXCEPT ![t] = 0]
          /\ mreq' = mreq /\ netreq_buf' = netreq_buf /\ Target' = Target
      BY <2>1 DEF recycle, masterVars, Target
    <2>3. ASSUME NEW h \in Handlers
          PROVE  /\ hpc'[h] = "ack" <=> hpc[h] = "ack"
                 /\ hpc[h] = "ack" => hreq'[h] = hreq[h]
      BY <2>2, PlaceTypes
    <2>4. MasterVal'
      BY <2>2 DEF OrderInv, MasterVal
    <2> QED
      BY <1>0, <2>2, <2>3, <2>4 DEF Still, QVal, HVal
  <1>3. CASE \E h \in Handlers : cl_release(h)
    <2>1. PICK t \in Handlers : cl_release(t)
      BY <1>3
    <2>2. /\ acklog' = acklog /\ req_q' = req_q /\ req_arr' = req_arr /\ hreq' = hreq
          /\ hpc[t] = "release" /\ hpc' = [hpc EXCEPT ![t] = "recycle"]
          /\ mreq' = mreq /\ netreq_buf' = netreq_buf /\ Target' = Target
      BY <2>1 DEF cl_release, Target
    <2>3. ASSUME NEW h \in Handlers PROVE hpc'[h] = "ack" <=> hpc[h] = "ack"
      BY <2>2, PlaceTypes
    <2>4. MasterVal'
      BY <2>2 DEF OrderInv, MasterVal
    <2> QED
      BY <1>0, <2>2, <2>3, <2>4 DEF Still, QVal, HVal
  <1>4. CASE read_sock_bulk
    <2>1. /\ acklog' = acklog /\ req_q' = req_q /\ req_arr' = req_arr /\ hreq' = hreq
          /\ hpc' = hpc /\ mreq' = 0
      BY <1>4 DEF read_sock_bulk, handlerVars, CountsInv, HandsExact
    <2> QED
      BY <1>0, <2>1 DEF Still, QVal, HVal, MasterVal
  <1>5. CASE \/ client_main \/ ack_poller \/ Arrive \/ ArriveClose \/ UNCHANGED vars
             \/ read_nothing \/ cl_grap_wait \/ cl_grap
    <2>1. /\ acklog' = acklog /\ req_q' = req_q /\ req_arr' = req_arr /\ hreq' = hreq
          /\ hpc' = hpc /\ mreq' = mreq /\ netreq_buf' = netreq_buf
      BY <1>5 DEF client_main, req_in, send_request_bulk, wait_until_finish, bench_free,
         ack_poller, ack_check, ack_read, Arrive, ArriveClose, vars, masterVars,
         handlerVars, read_nothing, cl_grap_wait, cl_grap
    <2>2. MasterVal'
      BY <2>1 DEF OrderInv, MasterVal, Target
    <2> QED
      BY <1>0, <2>1, <2>2 DEF Still, QVal, HVal
  <1> QED
    BY <1>1, <1>2, <1>3, <1>4, <1>5 DEF Next, master_thread, request_handler

\* forward_req_to_hlr appends the newest number of all.
LEMMA ForwardOrder ==
    ASSUME CountsInv, StreamInv, OrderInv, forward_req_to_hlr
    PROVE  OrderInv'
  <1>1. /\ ForwardMove(Target) /\ Taken' = Taken + 1 /\ Head(netreq_buf) = Taken + 1
        /\ Taken \in Nat
    BY ForwardMoves, StreamForward DEF StreamInv, Numbered
  <1>2. PICK t \in Handlers : t = Target
    BY <1>1 DEF ForwardMove
  <1>3. /\ req_arr' = req_arr /\ hpc' = hpc /\ hreq' = hreq /\ acklog' = acklog
        /\ mreq' = 0 /\ mreq # 0
    BY DEF forward_req_to_hlr, CountsInv, HandsExact
  <1>4. PICK k \in Nat : k = Len(req_q[t])
    BY PlaceTypes
  <1>5. /\ Len(req_q'[t]) = k + 1
        /\ QVal(t, k + 1)' = Taken + 1
        /\ \A i \in 1..k : QVal(t, i)' = QVal(t, i)
        /\ Route[Taken + 1] = t
    <2>1. /\ Len(req_q'[t]) = k + 1 /\ req_q'[t][k + 1] = mreq
          /\ \A i \in 1..k : req_q'[t][i] = req_q[t][i]
      BY <1>1, <1>2, <1>4 DEF ForwardMove
    <2>2. req_arr[t][mreq] = Taken + 1
      BY <1>1, <1>2, <1>3 DEF OrderInv, MasterVal
    <2> QED
      BY <1>1, <1>2, <1>3, <2>1, <2>2 DEF QVal, Target
  <1>6. \A h \in Handlers : h # t =>
          req_q'[h] = req_q[h] /\ \A i \in 1..Len(req_q[h]) : QVal(h, i)' = QVal(h, i)
    BY <1>1, <1>2, <1>3 DEF ForwardMove, QVal
  <1>7. \A h \in Handlers : HVal(h)' = HVal(h)
    BY <1>3 DEF HVal
  <1>8. QueueOwn'
    <2> SUFFICES ASSUME NEW h \in Handlers, NEW i \in 1..Len(req_q'[h])
                 PROVE  QVal(h, i)' \in 1..(Taken + 1) /\ Route[QVal(h, i)'] = h
      BY <1>1 DEF QueueOwn
    <2>1. CASE h = t /\ i = k + 1
      BY <1>1, <1>5, <2>1
    <2>2. CASE ~(h = t /\ i = k + 1)
      <3>1. i \in 1..Len(req_q[h]) /\ QVal(h, i)' = QVal(h, i)
        BY <1>4, <1>5, <1>6, <2>2
      <3> QED
        BY <1>1, <3>1 DEF OrderInv, QueueOwn
    <2> QED
      BY <2>1, <2>2
  <1>9. QueueSorted'
    <2> SUFFICES ASSUME NEW h \in Handlers, NEW i \in 1..Len(req_q'[h]),
                        NEW j \in 1..Len(req_q'[h]), i < j
                 PROVE  QVal(h, i)' < QVal(h, j)'
      BY DEF QueueSorted
    <2>1. CASE h = t /\ j = k + 1
      <3>1. i \in 1..k /\ i \in 1..Len(req_q[t])
        BY <1>4, <1>5, <2>1
      <3>2. QVal(t, i) \in 1..Taken
        BY <3>1 DEF OrderInv, QueueOwn
      <3> QED
        BY <1>1, <1>5, <2>1, <3>1, <3>2
    <2>2. CASE h = t /\ j # k + 1
      <3>1. i \in 1..k /\ j \in 1..k /\ i \in 1..Len(req_q[t]) /\ j \in 1..Len(req_q[t])
        BY <1>4, <1>5, <2>2
      <3> QED
        BY <1>5, <2>2, <3>1 DEF OrderInv, QueueSorted
    <2>3. CASE h # t
      BY <1>6, <2>3 DEF OrderInv, QueueSorted
    <2> QED
      BY <2>1, <2>2, <2>3
  <1>10. HandOwn'
    <2> SUFFICES ASSUME NEW h \in Handlers, hpc[h] = "ack"
                 PROVE  /\ HVal(h) \in 1..(Taken + 1) /\ Route[HVal(h)] = h
                        /\ \A i \in 1..Len(req_q'[h]) : HVal(h) < QVal(h, i)'
      BY <1>1, <1>3, <1>7 DEF HandOwn
    <2>1. HVal(h) \in 1..Taken /\ Route[HVal(h)] = h
      BY DEF OrderInv, HandOwn
    <2>2. ASSUME NEW i \in 1..Len(req_q'[h]) PROVE HVal(h) < QVal(h, i)'
      <3>1. CASE h = t /\ i = k + 1
        BY <1>1, <1>5, <2>1, <3>1
      <3>2. CASE ~(h = t /\ i = k + 1)
        <4>1. i \in 1..Len(req_q[h]) /\ QVal(h, i)' = QVal(h, i)
          BY <1>4, <1>5, <1>6, <3>2
        <4> QED
          BY <4>1 DEF OrderInv, HandOwn
      <3> QED
        BY <3>1, <3>2
    <2> QED
      BY <1>1, <2>1, <2>2
  <1>11. AcksOlder'
    <2> SUFFICES ASSUME NEW a \in 1..Len(acklog)
                 PROVE  /\ acklog[a] \in 1..(Taken + 1)
                        /\ \A h \in Handlers : Route[acklog[a]] = h =>
                              /\ \A i \in 1..Len(req_q'[h]) : acklog[a] < QVal(h, i)'
                              /\ hpc[h] = "ack" => acklog[a] < HVal(h)
      BY <1>1, <1>3, <1>7 DEF AcksOlder
    <2>1. acklog[a] \in 1..Taken
      BY DEF OrderInv, AcksOlder
    <2>2. ASSUME NEW h \in Handlers, Route[acklog[a]] = h, NEW i \in 1..Len(req_q'[h])
          PROVE  acklog[a] < QVal(h, i)'
      <3>1. CASE h = t /\ i = k + 1
        BY <1>1, <1>5, <2>1, <3>1
      <3>2. CASE ~(h = t /\ i = k + 1)
        <4>1. i \in 1..Len(req_q[h]) /\ QVal(h, i)' = QVal(h, i)
          BY <1>4, <1>5, <1>6, <3>2
        <4> QED
          BY <2>2, <4>1 DEF OrderInv, AcksOlder
      <3> QED
        BY <3>1, <3>2
    <2>3. ASSUME NEW h \in Handlers, Route[acklog[a]] = h, hpc[h] = "ack"
          PROVE  acklog[a] < HVal(h)
      BY <2>3 DEF OrderInv, AcksOlder
    <2> QED
      BY <1>1, <2>1, <2>2, <2>3
  <1>12. MasterVal' /\ AcksInOrder'
    BY <1>3 DEF MasterVal, OrderInv, AcksInOrder
  <1> QED
    BY <1>8, <1>9, <1>10, <1>11, <1>12 DEF OrderInv

\* get_next_request takes the oldest number of the queue.
LEMMA DequeueOrder ==
    ASSUME CountsInv, StreamInv, OrderInv, NEW t \in Handlers, get_next_request(t)
    PROVE  OrderInv'
  <1>1. DequeueMove(t) /\ Taken' = Taken /\ Taken \in Nat
    <2>1. ~forward_req_to_hlr
      BY PlaceTypes DEF get_next_request, forward_req_to_hlr, CountsInv, HandsExact,
                        masterVars
    <2>2. [Next]_vars
      BY DEF Next, request_handler
    <2> QED
      BY <2>1, <2>2, DequeueMoves, StreamStep DEF StreamInv, Numbered
  <1>2. /\ req_arr' = req_arr /\ acklog' = acklog
        /\ hpc' = [hpc EXCEPT ![t] = "ack"]
        /\ mreq' = mreq /\ netreq_buf' = netreq_buf /\ Target' = Target
    BY DEF get_next_request, masterVars, Target
  <1>3. PICK k \in Nat : k = Len(req_q[t])
    BY PlaceTypes
  <1>4. /\ k >= 1 /\ Len(req_q'[t]) = k - 1
        /\ HVal(t)' = QVal(t, 1)
        /\ \A i \in 1..(k - 1) : QVal(t, i)' = QVal(t, i + 1)
    BY <1>1, <1>2, <1>3 DEF DequeueMove, QVal, HVal
  <1>5. \A h \in Handlers : h # t =>
          /\ req_q'[h] = req_q[h] /\ HVal(h)' = HVal(h) /\ hpc'[h] = hpc[h]
          /\ \A i \in 1..Len(req_q[h]) : QVal(h, i)' = QVal(h, i)
    BY <1>1, <1>2, PlaceTypes DEF DequeueMove, QVal, HVal
  <1>6. ASSUME NEW i \in 1..(k - 1)
        PROVE  i + 1 \in 1..Len(req_q[t]) /\ 1 \in 1..Len(req_q[t]) /\ 1 < i + 1
    BY <1>3, <1>4
  <1>7. 1 \in 1..Len(req_q[t])
    BY <1>3, <1>4
  <1>8. QueueOwn'
    <2> SUFFICES ASSUME NEW h \in Handlers, NEW i \in 1..Len(req_q'[h])
                 PROVE  QVal(h, i)' \in 1..Taken /\ Route[QVal(h, i)'] = h
      BY <1>1 DEF QueueOwn
    <2>1. CASE h = t
      BY <1>4, <1>6, <2>1 DEF OrderInv, QueueOwn
    <2>2. CASE h # t
      BY <1>5, <2>2 DEF OrderInv, QueueOwn
    <2> QED
      BY <2>1, <2>2
  <1>9. QueueSorted'
    <2> SUFFICES ASSUME NEW h \in Handlers, NEW i \in 1..Len(req_q'[h]),
                        NEW j \in 1..Len(req_q'[h]), i < j
                 PROVE  QVal(h, i)' < QVal(h, j)'
      BY DEF QueueSorted
    <2>1. CASE h = t
      <3>1. i + 1 \in 1..Len(req_q[t]) /\ j + 1 \in 1..Len(req_q[t]) /\ i + 1 < j + 1
        BY <1>3, <1>4, <2>1
      <3>2. QVal(t, i + 1) < QVal(t, j + 1)
        BY <3>1 DEF OrderInv, QueueSorted
      <3> QED
        BY <1>4, <2>1, <3>2
    <2>2. CASE h # t
      BY <1>5, <2>2 DEF OrderInv, QueueSorted
    <2> QED
      BY <2>1, <2>2
  <1>10. HandOwn'
    <2> SUFFICES ASSUME NEW h \in Handlers, hpc'[h] = "ack"
                 PROVE  /\ HVal(h)' \in 1..Taken /\ Route[HVal(h)'] = h
                        /\ \A i \in 1..Len(req_q'[h]) : HVal(h)' < QVal(h, i)'
      BY <1>1 DEF HandOwn
    <2>1. CASE h = t
      <3>1. QVal(t, 1) \in 1..Taken /\ Route[QVal(t, 1)] = t
        BY <1>7 DEF OrderInv, QueueOwn
      <3>2. ASSUME NEW i \in 1..Len(req_q'[t]) PROVE QVal(t, 1) < QVal(t, i + 1)
        BY <1>4, <1>6 DEF OrderInv, QueueSorted
      <3> QED
        BY <1>4, <2>1, <3>1, <3>2
    <2>2. CASE h # t
      BY <1>5, <2>2 DEF OrderInv, HandOwn
    <2> QED
      BY <2>1, <2>2
  <1>11. AcksOlder'
    <2> SUFFICES ASSUME NEW a \in 1..Len(acklog)
                 PROVE  /\ acklog[a] \in 1..Taken
                        /\ \A h \in Handlers : Route[acklog[a]] = h =>
                              /\ \A i \in 1..Len(req_q'[h]) : acklog[a] < QVal(h, i)'
                              /\ hpc'[h] = "ack" => acklog[a] < HVal(h)'
      BY <1>1, <1>2 DEF AcksOlder
    <2>1. CASE Route[acklog[a]] = t
      <3>1. \A i \in 1..Len(req_q[t]) : acklog[a] < QVal(t, i)
        BY <2>1 DEF OrderInv, AcksOlder
      <3> QED
        BY <1>4, <1>6, <1>7, <2>1, <3>1 DEF OrderInv, AcksOlder
    <2>2. CASE Route[acklog[a]] # t
      BY <1>5, <2>2 DEF OrderInv, AcksOlder
    <2> QED
      BY <2>1, <2>2
  <1>12. MasterVal' /\ AcksInOrder'
    BY <1>2 DEF MasterVal, OrderInv, AcksInOrder
  <1> QED
    BY <1>8, <1>9, <1>10, <1>11, <1>12 DEF OrderInv

\* send_ack answers the number in hand, which is newer than every one answered
\* by the same handler and older than its queue.
LEMMA AckOrder ==
    ASSUME CountsInv, StreamInv, OrderInv, NEW t \in Handlers, send_ack(t)
    PROVE  OrderInv'
  <1>1. Taken' = Taken /\ Taken \in Nat
    BY DEF send_ack, masterVars, clientVars, Taken, StreamInv, Numbered
  <1>2. /\ req_arr' = req_arr /\ req_q' = req_q /\ hreq' = hreq
        /\ acklog' = Append(acklog, HVal(t))
        /\ hpc[t] = "ack" /\ hpc' = [hpc EXCEPT ![t] = "release"]
        /\ mreq' = mreq /\ netreq_buf' = netreq_buf /\ Target' = Target
    BY DEF send_ack, masterVars, Target, HVal
  <1>3. PICK k \in Nat : k = Len(acklog)
    BY StreamTypes
  <1>4. /\ HVal(t) \in 1..Taken /\ Route[HVal(t)] = t
        /\ \A i \in 1..Len(req_q[t]) : HVal(t) < QVal(t, i)
    BY <1>2 DEF OrderInv, HandOwn
  <1>5. /\ Len(acklog') = k + 1 /\ acklog'[k + 1] = HVal(t)
        /\ \A a \in 1..k : acklog'[a] = acklog[a]
    BY <1>2, <1>3, StreamTypes
  <1>6. \A h \in Handlers : HVal(h)' = HVal(h)
                            /\ \A i \in 1..Len(req_q[h]) : QVal(h, i)' = QVal(h, i)
    BY <1>2 DEF HVal, QVal
  <1>7. \A h \in Handlers : hpc'[h] = "ack" => h # t /\ hpc[h] = "ack"
    BY <1>2, PlaceTypes
  <1>8. QueueOwn' /\ QueueSorted' /\ HandOwn'
    BY <1>1, <1>2, <1>6, <1>7 DEF OrderInv, QueueOwn, QueueSorted, HandOwn
  <1>9. AcksOlder'
    <2> SUFFICES ASSUME NEW a \in 1..(k + 1)
                 PROVE  /\ acklog'[a] \in 1..Taken
                        /\ \A h \in Handlers : Route[acklog'[a]] = h =>
                              /\ \A i \in 1..Len(req_q[h]) : acklog'[a] < QVal(h, i)
                              /\ hpc'[h] = "ack" => acklog'[a] < HVal(h)
      BY <1>1, <1>2, <1>5, <1>6 DEF AcksOlder
    <2>1. CASE a = k + 1
      BY <1>4, <1>5, <1>7, <2>1
    <2>2. CASE a # k + 1
      <3>1. a \in 1..Len(acklog) /\ acklog'[a] = acklog[a]
        BY <1>3, <1>5, <2>2
      <3> QED
        BY <1>7, <3>1 DEF OrderInv, AcksOlder
    <2> QED
      BY <2>1, <2>2
  <1>10. AcksInOrder'
    <2> SUFFICES ASSUME NEW i \in 1..(k + 1), NEW j \in 1..(k + 1), i < j,
                        Route[acklog'[i]] = Route[acklog'[j]]
                 PROVE  acklog'[i] < acklog'[j]
      BY <1>5 DEF AcksInOrder
    <2>1. i \in 1..Len(acklog) /\ acklog'[i] = acklog[i]
      BY <1>3, <1>5
    <2>2. CASE j = k + 1
      BY <1>2, <1>4, <1>5, <2>1, <2>2 DEF OrderInv, AcksOlder
    <2>3. CASE j # k + 1
      <3>1. j \in 1..Len(acklog) /\ acklog'[j] = acklog[j]
        BY <1>3, <1>5, <2>3
      <3> QED
        BY <2>1, <3>1 DEF OrderInv, AcksInOrder
    <2> QED
      BY <2>2, <2>3
  <1>11. MasterVal'
    BY <1>2 DEF MasterVal, OrderInv
  <1> QED
    BY <1>8, <1>9, <1>10, <1>11 DEF OrderInv

\* Every step keeps the order.
LEMMA OrderStep ==
    ASSUME CountsInv, StreamInv, PlaceInv, OrderInv, [Next]_vars
    PROVE  OrderInv'
  <1>1. CASE forward_req_to_hlr
    BY <1>1, ForwardOrder
  <1>2. CASE \E h \in Handlers : get_next_request(h) \/ send_ack(h)
    BY <1>2, DequeueOrder, AckOrder
  <1>3. CASE ~forward_req_to_hlr
             /\ ~ \E h \in Handlers : get_next_request(h) \/ send_ack(h)
    BY <1>3, StillSteps, StillKeeps
  <1> QED
    BY <1>1, <1>2, <1>3

-----------------------------------------------------------------------------
(* What the semaphore counts. *)

\* Different numbers up to n are at most n.
LEMMA DistinctFit ==
    ASSUME NEW k \in Nat, NEW n \in Nat, NEW f \in [1..k -> 1..n],
           \A i, j \in 1..k : f[i] = f[j] => i = j
    PROVE  k <= n
  <1>1. f \in Injection(1..k, 1..n)
    BY DEF Injection, IsInjective
  <1>2. IsFiniteSet(1..n) /\ Cardinality(1..n) = n /\ Cardinality(1..k) = k
    BY FS_Interval
  <1> QED
    BY <1>1, <1>2, FS_Injection

\* The acknowledgements are different numbers that have been forwarded; one
\* that is about to be sent is another one.
LEMMA AcksFit ==
    ASSUME CountsInv, StreamInv, OrderInv
    PROVE  /\ Len(acklog) <= Taken
           /\ \A h \in Handlers : hpc[h] = "ack" => Len(acklog) + 1 <= Taken
  <1>1. PICK k \in Nat : k = Len(acklog)
    BY StreamTypes
  <1>2. PICK n \in Nat : n = Taken
    BY DEF StreamInv, Numbered
  <1>3. \A i \in 1..k : acklog[i] \in 1..n
    BY <1>1, <1>2 DEF OrderInv, AcksOlder
  <1>4. \A i, j \in 1..k : acklog[i] = acklog[j] => i = j
    <2> SUFFICES ASSUME NEW i \in 1..k, NEW j \in 1..k, acklog[i] = acklog[j]
                 PROVE  i = j
      OBVIOUS
    <2>1. acklog[i] \in 1..n /\ ~(acklog[i] < acklog[j]) /\ ~(acklog[j] < acklog[i])
      BY <1>3
    <2>2. ~(i < j) /\ ~(j < i)
      BY <1>1, <2>1 DEF OrderInv, AcksInOrder
    <2> QED
      BY <2>2
  <1>5. k <= n
    <2> DEFINE f == [i \in 1..k |-> acklog[i]]
    <2>1. f \in [1..k -> 1..n] /\ \A i, j \in 1..k : f[i] = f[j] => i = j
      BY <1>3, <1>4
    <2> HIDE DEF f
    <2> QED
      BY <2>1, DistinctFit
  <1>6. ASSUME NEW h \in Handlers, hpc[h] = "ack" PROVE k + 1 <= n
    <2>1. HVal(h) \in 1..n /\ Route[HVal(h)] = h
      BY <1>2, <1>6 DEF OrderInv, HandOwn
    <2>2. \A i \in 1..k : acklog[i] # HVal(h)
      <3> SUFFICES ASSUME NEW i \in 1..k, acklog[i] = HVal(h) PROVE FALSE
        OBVIOUS
      <3>1. acklog[i] < HVal(h)
        BY <1>1, <1>6, <2>1 DEF OrderInv, AcksOlder
      <3> QED
        BY <2>1, <3>1
    <2> DEFINE f == [i \in 1..(k + 1) |-> IF i = k + 1 THEN HVal(h) ELSE acklog[i]]
    <2>3. f \in [1..(k + 1) -> 1..n]
      BY <1>3, <2>1
    <2>4. ASSUME NEW i \in 1..(k + 1), NEW j \in 1..(k + 1), f[i] = f[j]
          PROVE  i = j
      <3>1. CASE i = k + 1 /\ j # k + 1
        BY <2>2, <2>4, <3>1
      <3>2. CASE i # k + 1 /\ j = k + 1
        BY <2>2, <2>4, <3>2
      <3>3. CASE i # k + 1 /\ j # k + 1
        <4>1. i \in 1..k /\ j \in 1..k /\ acklog[i] = acklog[j]
          BY <2>4, <3>3
        <4> QED
          BY <1>4, <4>1
      <3> QED
        BY <3>1, <3>2, <3>3
    <2> HIDE DEF f
    <2>5. k + 1 \in Nat
      OBVIOUS
    <2> QED
      BY <2>3, <2>4, <2>5, DistinctFit
  <1> QED
    BY <1>1, <1>2, <1>5, <1>6

\* Forwarded numbers are among those given out, and the rest is in the buffers.
LEMMA TakenBound ==
    ASSUME CountsInv, StreamInv
    PROVE  Taken \in Nat /\ Taken + Len(inbox) <= seq_num /\ Taken <= seq_num
  BY StreamTypes DEF StreamInv, Numbered, Taken

\* The socket never overflows, so that every acknowledgement is counted once.
LEMMA SemaphoreStep ==
    ASSUME CountsInv, StreamInv, OrderInv, SemaphoreExact, [Next]_vars
    PROVE  SemaphoreExact'
  <1> DEFINE Balance == sem + (seq_num - (Len(acklog) - Len(acks))) = CLIENT_QDEPTH
             Done == Len(acklog) = NR_KEY /\ acks = << >>
  <1>0. /\ Balance /\ (client \in {"join", "closed"} => Done)
        /\ Len(acklog) <= Taken /\ Taken <= seq_num /\ Taken \in Nat
        /\ NR_KEY \in Nat /\ CLIENT_QDEPTH \in Nat /\ SOCK_ACKS \in Nat
        /\ CLIENT_QDEPTH <= SOCK_ACKS /\ seq_num <= NR_KEY
    BY AcksFit, TakenBound, PathAssumption
    DEF SemaphoreExact, CountsInv, TypeOK, ClientTypeOK
  <1>1. CASE req_in
    <2>1. /\ sem' = sem - 1 /\ seq_num' = seq_num + 1 /\ client' = "load"
          /\ acklog' = acklog /\ acks' = acks
      BY <1>1 DEF req_in, sockVars
    <2>2. Len(acklog') = Len(acklog) /\ Len(acks') = Len(acks)
      BY <2>1
    <2>3. (sem - 1) + ((seq_num + 1) - (Len(acklog) - Len(acks)))
            = sem + (seq_num - (Len(acklog) - Len(acks)))
      BY StreamTypes
    <2>4. Balance'
      BY <1>0, <2>1, <2>2, <2>3
    <2> QED
      BY <2>1, <2>4 DEF SemaphoreExact
  <1>2. CASE wait_until_finish
    <2>1. /\ client = "finish" /\ sem = CLIENT_QDEPTH
          /\ sem' = sem /\ seq_num' = seq_num /\ acklog' = acklog /\ acks' = acks
      BY <1>2 DEF wait_until_finish, sockVars
    <2>2. seq_num = NR_KEY
      BY <2>1 DEF StreamInv, LoadedAll
    <2>3. Len(acklog) = NR_KEY /\ Len(acks) = 0
      BY <1>0, <2>1, <2>2, StreamTypes
    <2>4. acks = << >>
      BY <2>3, StreamTypes
    <2> QED
      BY <1>0, <2>1, <2>3, <2>4 DEF SemaphoreExact
  <1>3. CASE ack_read
    <2>1. PICK n \in 1..Len(acks) :
            acks' = SubSeq(acks, n + 1, Len(acks)) /\ sem' = sem + n
      BY <1>3 DEF ack_read
    <2>2. seq_num' = seq_num /\ acklog' = acklog /\ client' = client
      BY <1>3 DEF ack_read
    <2>3. n \in 0..Len(acks) /\ n \in Nat /\ n >= 1 /\ Len(acks) # 0
      BY StreamTypes
    <2>4. Len(acks') = Len(acks) - n
      BY <2>1, <2>3, StreamTypes, Cut
    <2>5. ~(client \in {"join", "closed"})
      BY <1>0, <2>3
    <2>6. Balance'
      <3>1. (sem + n) + (seq_num - (Len(acklog) - (Len(acks) - n)))
              = sem + (seq_num - (Len(acklog) - Len(acks)))
        BY <2>3, StreamTypes
      <3>2. sem' = sem + n /\ seq_num' = seq_num /\ Len(acklog') = Len(acklog)
        BY <2>1, <2>2
      <3> QED
        BY <1>0, <2>4, <3>1, <3>2
    <2> QED
      BY <2>2, <2>5, <2>6 DEF SemaphoreExact
  <1>4. CASE \E h \in Handlers : send_ack(h)
    <2>1. PICK t \in Handlers : send_ack(t)
      BY <1>4
    <2>2. hpc[t] = "ack" /\ Len(acklog) + 1 <= Taken
      BY <2>1, AcksFit DEF send_ack
    <2>3. Len(acks) < SOCK_ACKS
      BY <1>0, <2>2, StreamTypes
    <2>4. /\ acks' = Append(acks, HVal(t)) /\ acklog' = Append(acklog, HVal(t))
          /\ sem' = sem /\ seq_num' = seq_num /\ client' = client
      BY <2>1, <2>3 DEF send_ack, HVal, clientVars
    <2>5. Len(acks') = Len(acks) + 1 /\ Len(acklog') = Len(acklog) + 1
      BY <2>4, StreamTypes
    <2>6. ~(client \in {"join", "closed"})
      BY <1>0, <2>2, StreamTypes
    <2>7. Balance'
      BY <1>0, <2>4, <2>5, StreamTypes
    <2> QED
      BY <2>4, <2>6, <2>7 DEF SemaphoreExact
  <1>5. CASE send_request_bulk \/ bench_free
    BY <1>5 DEF send_request_bulk, bench_free, sockVars, SemaphoreExact
  <1>6. CASE \/ ack_check \/ Arrive \/ ArriveClose \/ master_thread \/ UNCHANGED vars
             \/ \E h \in Handlers : get_next_request(h) \/ cl_release(h) \/ recycle(h)
    <2>1. UNCHANGED <<sem, seq_num, acklog, acks, client>>
      BY <1>6 DEF ack_check, Arrive, ArriveClose, master_thread, read_sock_bulk,
         read_nothing, make_request_from_netreq, cl_grap_wait, cl_grap,
         forward_req_to_hlr, get_next_request, cl_release, recycle, vars, clientVars,
         sockVars
    <2> QED
      BY <2>1 DEF SemaphoreExact
  <1> QED
    BY <1>1, <1>2, <1>3, <1>4, <1>5, <1>6 DEF Next, client_main, ack_poller,
       request_handler

\* One read of the master takes all that the client may have outstanding.
LEMMA StrandedStep ==
    ASSUME CountsInv, StreamInv, OrderInv, SemaphoreExact, NothingStranded, [Next]_vars
    PROVE  NothingStranded'
  <1>1. CASE read_sock_bulk
    <2>1. Len(inbox) <= MAX_NETREQ_BUF
      <3>1. /\ Len(acklog) <= Taken /\ Taken + Len(inbox) <= seq_num /\ Taken \in Nat
            /\ sem + (seq_num - (Len(acklog) - Len(acks))) = CLIENT_QDEPTH
        BY AcksFit, TakenBound DEF SemaphoreExact
      <3>2. CLIENT_QDEPTH \in Nat /\ MAX_NETREQ_BUF \in Nat
            /\ CLIENT_QDEPTH <= MAX_NETREQ_BUF
        BY PathAssumption
      <3> QED
        BY <3>1, <3>2, StreamTypes
    <2>2. inbox' = SubSeq(inbox, Len(inbox) + 1, Len(inbox))
      <3>1. CASE Len(inbox) < MAX_NETREQ_BUF
        BY <1>1, <3>1 DEF read_sock_bulk
      <3>2. CASE ~(Len(inbox) < MAX_NETREQ_BUF)
        <4>1. Len(inbox) = MAX_NETREQ_BUF
          BY <2>1, <3>2, StreamTypes, PathAssumption
        <4> QED
          BY <1>1, <3>2, <4>1 DEF read_sock_bulk
      <3> QED
        BY <3>1, <3>2
    <2>3. Len(inbox') = 0 /\ inbox' \in Seq(SeqNums)
      BY <2>2, StreamTypes, Cut
    <2> QED
      BY <2>3 DEF NothingStranded
  <1>2. CASE Arrive \/ ArriveClose
    BY <1>2 DEF Arrive, ArriveClose, NothingStranded
  <1>3. CASE read_nothing
    BY <1>3 DEF read_nothing, NothingStranded
  <1>4. CASE \/ client_main \/ ack_poller \/ make_request_from_netreq \/ cl_grap_wait
             \/ cl_grap \/ forward_req_to_hlr \/ UNCHANGED vars
             \/ \E h \in Handlers : request_handler(h)
    <2>1. UNCHANGED <<inbox, edge>>
      BY <1>4 DEF client_main, req_in, send_request_bulk, wait_until_finish, bench_free,
         ack_poller, ack_check, ack_read, make_request_from_netreq, cl_grap_wait,
         cl_grap, forward_req_to_hlr, request_handler, get_next_request, send_ack,
         cl_release, recycle, vars, clientVars, sockVars
    <2> QED
      BY <2>1, Zenon DEF NothingStranded
  <1> QED
    BY <1>1, <1>2, <1>3, <1>4 DEF Next, master_thread

-----------------------------------------------------------------------------
(* The theorems. *)

\* The state in which the threads start.
LEMMA InitPath == Init => PathInv
  <1> SUFFICES ASSUME Init PROVE PathInv
    OBVIOUS
  <1>1. CountsInv
    BY InitCounts
  <1>2. StreamInv
    BY DEF Init, StreamInv, Numbered, LoadedAll, Taken
  <1>3. \A h \in Handlers : /\ req_pool[h] = [q \in Requests |-> q]
                            /\ req_q[h] = << >> /\ hreq[h] = 0 /\ hpc[h] = "dequeue"
    BY DEF Init
  <1>4. mreq = 0 /\ acklog = << >>
    BY DEF Init
  <1>5. ASSUME NEW h \in Handlers PROVE Len(req_pool[h]) = QSIZE /\ Len(req_q[h]) = 0
    <2>1. req_pool[h] = [q \in Requests |-> q] /\ req_q[h] = << >>
      BY <1>3
    <2>2. Len(req_pool[h]) = QSIZE
      BY <2>1, FullPool
    <2> QED
      BY <2>1, <2>2
  <1>6. \A h \in Handlers : \A q \in Requests :
          InPool(h, q) /\ ~InQueue(h, q) /\ ~InMaster(h, q) /\ ~InHandler(h, q)
    <2> SUFFICES ASSUME NEW h \in Handlers, NEW q \in Requests
                 PROVE  /\ InPool(h, q) /\ ~InQueue(h, q) /\ ~InMaster(h, q)
                        /\ ~InHandler(h, q)
      OBVIOUS
    <2>1. q \in 1..Len(req_pool[h]) /\ req_pool[h][q] = q
      BY <1>3, <1>5 DEF Requests
    <2>2. InPool(h, q)
      BY <2>1 DEF InPool
    <2>3. ~InQueue(h, q)
      BY <1>5 DEF InQueue
    <2> QED
      BY <1>3, <1>4, <2>2, <2>3, ZeroIsNoRequest DEF InMaster, InHandler
  <1>7. Covered /\ Apart
    BY <1>6 DEF Covered, Apart
  <1>8. PoolOnce /\ QueueOnce
    <2>1. ASSUME NEW h \in Handlers, NEW i \in 1..Len(req_pool[h]),
                 NEW j \in 1..Len(req_pool[h]), req_pool[h][i] = req_pool[h][j]
          PROVE  i = j
      <3>1. i \in Requests /\ j \in Requests
        BY <1>5 DEF Requests
      <3>2. req_pool[h][i] = i /\ req_pool[h][j] = j
        BY <1>3, <3>1
      <3> QED
        BY <2>1, <3>2
    <2>2. PoolOnce
      BY <2>1 DEF PoolOnce
    <2>3. QueueOnce
      BY <1>5 DEF QueueOnce
    <2> QED
      BY <2>2, <2>3
  <1>9. OrderInv
    <2>1. \A h \in Handlers : Len(req_q[h]) = 0
      BY <1>5
    <2>2. Len(acklog) = 0 /\ \A h \in Handlers : hpc[h] # "ack"
      BY <1>3, <1>4
    <2> QED
      BY <1>4, <2>1, <2>2 DEF OrderInv, MasterVal, QueueOwn, QueueSorted, HandOwn,
                              AcksOlder, AcksInOrder
  <1>10. SemaphoreExact /\ NothingStranded
    BY PathAssumption DEF Init, SemaphoreExact, NothingStranded
  <1> QED
    BY <1>1, <1>2, <1>7, <1>8, <1>9, <1>10 DEF PathInv, PlaceInv

\* Every step keeps the invariant.
LEMMA NextPath == PathInv /\ [Next]_vars => PathInv'
  <1> SUFFICES ASSUME PathInv, [Next]_vars PROVE PathInv'
    OBVIOUS
  <1>1. /\ CountsInv /\ StreamInv /\ PlaceInv /\ OrderInv
        /\ SemaphoreExact /\ NothingStranded
    BY DEF PathInv
  <1>2. CountsInv'
    BY <1>1, NextCounts
  <1>3. StreamInv' /\ PlaceInv' /\ OrderInv'
    BY <1>1, StreamStep, PlaceStep, OrderStep
  <1>4. SemaphoreExact' /\ NothingStranded'
    BY <1>1, SemaphoreStep, StrandedStep
  <1> QED
    BY <1>2, <1>3, <1>4 DEF PathInv

\* The inductive invariant of the order and the places of requests.
THEOREM PathInvariant == Spec => []PathInv
  BY InitPath, NextPath, PTL DEF Spec

\* q is an element of the sequence s.
Has(s, q) == \E i \in 1..Len(s) : s[i] = q

\* The elements of two sequences are in their concatenation.
LEMMA JoinHas ==
    ASSUME NEW s \in Seq(Requests), NEW u \in Seq(Requests), NEW q
    PROVE  Has(s, q) \/ Has(u, q) => Has(s \o u, q)
  <1>1. CASE Has(s, q)
    <2>1. PICK i \in 1..Len(s) : s[i] = q
      BY <1>1 DEF Has
    <2>2. i \in 1..Len(s \o u) /\ (s \o u)[i] = q
      BY <2>1
    <2> QED
      BY <2>2 DEF Has
  <1>2. CASE Has(u, q)
    <2>1. PICK i \in 1..Len(u) : u[i] = q
      BY <1>2 DEF Has
    <2>2. Len(s) + i \in 1..Len(s \o u) /\ (s \o u)[Len(s) + i] = q
      BY <2>1
    <2> QED
      BY <2>2 DEF Has
  <1> QED
    BY <1>1, <1>2

\* Pool, queue and hands have QSIZE places, and every struct request has one.
LEMMA PlacesOneHolder == CountsInv /\ PlaceInv => OneHolder
  <1> SUFFICES ASSUME CountsInv, PlaceInv, NEW h \in Handlers
               PROVE  /\ Len(Holders(h)) = QSIZE
                      /\ \A q \in Requests :
                            \E i \in 1..Len(Holders(h)) : Holders(h)[i] = q
    BY DEF OneHolder
  <1> DEFINE a == req_pool[h]
             b == req_q[h]
             c == IF mreq # 0 /\ Target = h THEN <<mreq>> ELSE << >>
             d == IF hreq[h] # 0 THEN <<hreq[h]>> ELSE << >>
  <1>1. /\ a \in Seq(Requests) /\ b \in Seq(Requests)
        /\ c \in Seq(Requests) /\ d \in Seq(Requests)
    <2>1. mreq # 0 => mreq \in Requests
      BY PlaceTypes
    <2>2. hreq[h] # 0 => hreq[h] \in Requests
      BY PlaceTypes
    <2> QED
      BY <2>1, <2>2, PlaceTypes
  <1>2. Len(c) = MasterHolds(h) /\ Len(d) = HandlerHolds(h)
    BY DEF MasterHolds, HandlerHolds
  <1>3. Holders(h) = ((a \o b) \o c) \o d
    BY DEF Holders
  <1>4. ASSUME NEW q \in Requests
        PROVE  /\ InPool(h, q) => Has(a, q)
               /\ InQueue(h, q) => Has(b, q)
               /\ InMaster(h, q) => Has(c, q)
               /\ InHandler(h, q) => Has(d, q)
    <2>1. q # 0
      BY ZeroIsNoRequest
    <2>2. InMaster(h, q) => Len(c) = 1 /\ c[1] = q
      BY <2>1 DEF InMaster
    <2>3. InHandler(h, q) => Len(d) = 1 /\ d[1] = q
      BY <2>1 DEF InHandler
    <2> QED
      BY <2>2, <2>3 DEF InPool, InQueue, Has
  <1> HIDE DEF a, b, c, d
  <1>5. a \o b \in Seq(Requests) /\ (a \o b) \o c \in Seq(Requests)
    BY <1>1
  <1>6. Len(Holders(h)) = QSIZE
    <2>1. Len(a \o b) = Len(a) + Len(b)
      BY <1>1
    <2>2. Len((a \o b) \o c) = Len(a \o b) + Len(c)
      BY <1>1, <1>5
    <2>3. Len(((a \o b) \o c) \o d) = Len((a \o b) \o c) + Len(d)
      BY <1>1, <1>5
    <2>4. Len(a) + Len(b) + MasterHolds(h) + HandlerHolds(h) = QSIZE
      BY DEF CountsInv, PoolExact, a, b
    <2> QED
      BY <1>2, <1>3, <2>1, <2>2, <2>3, <2>4
  <1>7. ASSUME NEW q \in Requests
        PROVE  Has(((a \o b) \o c) \o d, q)
    <2>1. InPool(h, q) \/ InQueue(h, q) \/ InMaster(h, q) \/ InHandler(h, q)
      BY DEF PlaceInv, Covered
    <2>2. Has(a, q) \/ Has(b, q) => Has(a \o b, q)
      BY <1>1, JoinHas
    <2>3. Has(a \o b, q) \/ Has(c, q) => Has((a \o b) \o c, q)
      BY <1>1, <1>5, JoinHas
    <2>4. Has((a \o b) \o c, q) \/ Has(d, q) => Has(((a \o b) \o c) \o d, q)
      BY <1>1, <1>5, JoinHas
    <2> QED
      BY <1>4, <2>1, <2>2, <2>3, <2>4, Zenon
  <1> QED
    BY <1>3, <1>6, <1>7 DEF Has

\* Every struct request is in its pool, its queue or one thread's hand, and in
\* one of them only, although three threads pass it on.
THEOREM OneHolderHolds == Spec => []OneHolder
  <1>1. PathInv => OneHolder
    BY PlacesOneHolder DEF PathInv
  <1> QED
    BY <1>1, PathInvariant, PTL

\* The semaphore of the client counts what is unanswered: send_ack never finds
\* the socket full, and wait_until_finish returns only when all is answered.
THEOREM SemaphoreHolds == Spec => []SemaphoreExact
  <1>1. PathInv => SemaphoreExact
    BY DEF PathInv
  <1> QED
    BY <1>1, PathInvariant, PTL

\* A handler answers its requests in the order in which they were sent, each
\* once and with its own number, although struct requests are used again.
THEOREM AcksAreInOrder == Spec => []AcksInOrder
  <1>1. PathInv => AcksInOrder
    BY DEF PathInv, OrderInv
  <1> QED
    BY <1>1, PathInvariant, PTL

\* read_sock_bulk, which consumes the edge-triggered event, never leaves a
\* request unread in the socket.
THEOREM StrandedNever == Spec => []NothingStranded
  <1>1. PathInv => NothingStranded
    BY DEF PathInv
  <1> QED
    BY <1>1, PathInvariant, PTL
=============================================================================
