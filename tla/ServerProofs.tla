---------------------------- MODULE ServerProofs ----------------------------
(***************************************************************************)
(* Theorems about Server, for any number of clients, of handlers and of    *)
(* requests, any routing of the requests and any depths of the queues.     *)
(***************************************************************************)
EXTENDS Server, FiniteSetTheorems, SequenceTheorems, TLAPS

-----------------------------------------------------------------------------
(* The inductive invariant. *)

\* The loop of master_thread: where it is says what it holds.
LoopInv ==
    process = "up" =>
        /\ mpc \in {"none", "epoll_wait"} => events = << >>
        /\ mpc \in {"event", "forward"} => events # << >>
        /\ mpc = "forward" => events[1] # LISTEN /\ netreq_buf # << >>
        /\ mpc # "forward" => netreq_buf = << >>

\* At most one event of the listening socket in the ready list and in the
\* batch, and for each of them a connection in the backlog.
ListenInv ==
    /\ \A i, j \in 1..Len(ready) : ready[i] = LISTEN /\ ready[j] = LISTEN => i = j
    /\ \A i, j \in 1..Len(events) : events[i] = LISTEN /\ events[j] = LISTEN => i = j
    /\ \A i \in 1..Len(ready) : ready[i] = LISTEN => Len(backlog) >= 1
    /\ \A i \in 1..Len(events) : events[i] = LISTEN => Len(backlog) >= 1
    /\ \A i \in 1..Len(ready), j \in 1..Len(events) :
         ready[i] = LISTEN /\ events[j] = LISTEN => Len(backlog) >= 2

\* main of the server creates no handler before the master thread.
StartInv ==
    /\ smain = "socket" => nr_hlr = 0
    /\ smain = "thread" => nr_hlr = 0
    /\ smain \in {"socket", "thread"} => mpc = "none"
    /\ mpc = "none" => accepted = {}

\* A client that has not connected is as bench_init left it; one whose side is
\* open is connected as soon as it has sent anything.
ClientInv ==
    \A c \in Clients :
        /\ main[c] \in {"init", "connect"} =>
             /\ sock[c] # "connected" /\ poller[c] # "read" /\ hangup[c] = "open"
             /\ seq_num[c] = 0 /\ sem[c] = CLIENT_QDEPTH /\ acks[c] = 0
        /\ poller[c] = "read" => sock[c] = "connected" \/ main[c] = "abort"
        /\ sock[c] = "connected" => hangup[c] = "open"
        /\ process = "up" /\ hangup[c] = "open" /\ sock[c] # "connected" =>
             seq_num[c] = 0 /\ main[c] \notin {"load", "finish"}

\* Every request in the server was sent, and is in the queue it is routed to.
SentInv ==
    /\ \A c \in Clients : \A i \in 1..Len(inbox[c]) : inbox[c][i] <= seq_num[c]
    /\ \A i \in 1..Len(netreq_buf) : netreq_buf[i].seq <= seq_num[netreq_buf[i].client]
    /\ \A h \in Handlers : \A i \in 1..Len(req_q[h]) :
         /\ req_q[h][i].seq <= seq_num[req_q[h][i].client]
         /\ Route[req_q[h][i].client][req_q[h][i].seq] = h
    /\ \A c \in Clients : \A n \in answered[c] : n <= seq_num[c]

\* No request is twice in one place.
InboxOnce ==
    \A c \in Clients : \A i, j \in 1..Len(inbox[c]) : inbox[c][i] = inbox[c][j] => i = j
BufferOnce ==
    \A i, j \in 1..Len(netreq_buf) : netreq_buf[i] = netreq_buf[j] => i = j
QueueOnce ==
    \A h \in Handlers : \A i, j \in 1..Len(req_q[h]) : req_q[h][i] = req_q[h][j] => i = j

\* No request that waits anywhere has been answered.
InboxNew ==
    \A c \in Clients : \A i \in 1..Len(inbox[c]) : inbox[c][i] \notin answered[c]
BufferNew ==
    \A i \in 1..Len(netreq_buf) : netreq_buf[i].seq \notin answered[netreq_buf[i].client]
QueueNew ==
    \A h \in Handlers : \A i \in 1..Len(req_q[h]) :
        req_q[h][i].seq \notin answered[req_q[h][i].client]

\* No request is in two places.
BufferOrInbox ==
    \A i \in 1..Len(netreq_buf) : \A j \in 1..Len(inbox[netreq_buf[i].client]) :
        inbox[netreq_buf[i].client][j] # netreq_buf[i].seq
QueueOrInbox ==
    \A h \in Handlers : \A i \in 1..Len(req_q[h]) :
        \A j \in 1..Len(inbox[req_q[h][i].client]) :
            inbox[req_q[h][i].client][j] # req_q[h][i].seq
QueueOrBuffer ==
    \A h \in Handlers : \A i \in 1..Len(req_q[h]) : \A j \in 1..Len(netreq_buf) :
        netreq_buf[j] # req_q[h][i]

OnceInv ==
    /\ InboxOnce /\ BufferOnce /\ QueueOnce
    /\ InboxNew /\ BufferNew /\ QueueNew
    /\ BufferOrInbox /\ QueueOrInbox /\ QueueOrBuffer

\* The places of request n of client c.
Somewhere(c, n) ==
    \/ \E i \in 1..Len(inbox[c]) : inbox[c][i] = n
    \/ \E i \in 1..Len(netreq_buf) : netreq_buf[i] = [client |-> c, seq |-> n]
    \/ \E h \in Handlers : \E i \in 1..Len(req_q[h]) :
         req_q[h][i] = [client |-> c, seq |-> n]
    \/ n \in answered[c]

CoverInv ==
    process = "up" =>
        \A c \in Clients :
            sock[c] = "connected" => \A n \in 1..seq_num[c] : Somewhere(c, n)

\* What a client has sent fits in one read of the master, and what a handler
\* has in flight in its queue.
BoundInv ==
    /\ \A c \in Clients : Len(inbox[c]) <= CLIENT_QDEPTH
    /\ \A h \in Handlers : Len(req_q[h]) <= QDEPTH

\* What a client may still send and what it may still read never exceed its depth.
CreditInv == \A c \in Clients : sem[c] + acks[c] <= CLIENT_QDEPTH

\* The types, with the bounds of the two counters left to CreditInv.
Types ==
    /\ main \in [Clients -> {"init", "connect", "load", "finish", "join", "closed", "abort"}]
    /\ poller \in [Clients -> {"check", "read", "read_stdin", "done"}]
    /\ sock \in [Clients -> {"0", "open", "connected", "closed"}]
    /\ seq_num \in [Clients -> 0..NR_KEY]
    /\ sem \in [Clients -> Nat]
    /\ acks \in [Clients -> Nat]
    /\ backlog \in Seq(Clients)
    /\ inbox \in [Clients -> Seq(SeqNums)]
    /\ hangup \in [Clients -> {"open", "eof", "reset"}]
    /\ ready \in Seq(Fds)
    /\ process \in {"up", "ended", "crashed"}
    /\ smain \in {"socket", "thread", "create", "join"}
    /\ nr_hlr \in 0..NUM_DEV
    /\ mpc \in {"none", "epoll_wait", "event", "forward", "exit"}
    /\ events \in Seq(Fds)
    /\ netreq_buf \in Seq(Requests)
    /\ req_q \in [Handlers -> Seq(Requests)]
    /\ accepted \in SUBSET Clients
    /\ answered \in [Clients -> SUBSET SeqNums]

-----------------------------------------------------------------------------
(* The operators of the model. *)

\* The server process ends in one of its ways.
Death == (\E how \in {"ended", "crashed"} : Dies(how)) /\ UNCHANGED nr_hlr

\* The steps of the server that end its process all do so in the same way.
LEMMA Deaths ==
    /\ socket_init_fails => Death
    /\ handler_init_fails => Death
    /\ use_after_free => Death
    /\ main_returns => Death
    /\ server_exit => Death
    /\ forward_crash => Death
    /\ \A h \in Handlers : answer_killed(h) => Death
BY DEF Death, socket_init_fails, handler_init_fails, use_after_free, main_returns, server_exit,
       forward_crash, answer_killed

\* A batch holds the numbers that follow the client's last one, NR_BATCH of
\* them at most and none beyond NR_KEY.
LEMMA BatchFacts ==
    ASSUME Types, NEW c \in Clients
    PROVE  /\ Len(Batch(c)) \in Nat
           /\ Batch(c) \in Seq(SeqNums)
           /\ Len(Batch(c)) <= KeysLeft(c)
           /\ \A i \in 1..Len(Batch(c)) : Batch(c)[i] = seq_num[c] + i
<1> DEFINE n == IF KeysLeft(c) < NR_BATCH THEN KeysLeft(c) ELSE NR_BATCH
<1>1. seq_num[c] \in 0..NR_KEY /\ NR_KEY \in Nat /\ NR_BATCH \in Nat
  BY ServerAssumption DEF Types
<1>2. n \in Nat /\ n <= KeysLeft(c) /\ KeysLeft(c) \in Nat
  BY <1>1 DEF KeysLeft
<1>3. Batch(c) = [i \in 1..n |-> seq_num[c] + i]
  BY DEF Batch
<1> HIDE DEF n
<1>4. \A i \in 1..n : seq_num[c] + i \in SeqNums
  BY <1>1, <1>2 DEF SeqNums, KeysLeft
<1>5. Batch(c) \in [1..n -> SeqNums]
  BY <1>3, <1>4
<1>6. Batch(c) \in Seq(SeqNums)
  BY <1>2, <1>5, SeqDef
<1>7. Len(Batch(c)) = n
  BY <1>2, <1>5, <1>6, LenProperties
<1> QED
  BY <1>2, <1>3, <1>6, <1>7

\* A read takes the first requests of the connection, in their order.
LEMMA ReadFacts ==
    ASSUME Types, NEW c \in Clients, NEW n \in Nat, n <= Len(inbox[c]),
           NEW buf, buf = [i \in 1..n |-> [client |-> c, seq |-> inbox[c][i]]]
    PROVE  /\ buf \in Seq(Requests)
           /\ Len(buf) = n
           /\ \A i \in 1..n : buf[i] = [client |-> c, seq |-> inbox[c][i]]
<1>1. inbox[c] \in Seq(SeqNums)
  BY DEF Types
<1>2. \A i \in 1..n : inbox[c][i] \in SeqNums
  BY <1>1
<1>3. \A i \in 1..n : [client |-> c, seq |-> inbox[c][i]] \in Requests
  BY <1>2 DEF Requests
<1>4. buf \in [1..n -> Requests]
  BY <1>3
<1>5. buf \in Seq(Requests)
  BY <1>4, SeqDef
<1> QED
  BY <1>4, <1>5, LenProperties

\* An edge adds the descriptor to the ready list unless it is there.
LEMMA RaiseFacts ==
    ASSUME Types, NEW fd \in Fds
    PROVE  /\ Raise(fd) \in Seq(Fds)
           /\ Range(Raise(fd)) = Range(ready) \cup {fd}
           /\ \/ Raise(fd) = ready
              \/ /\ Raise(fd) = Append(ready, fd)
                 /\ \A i \in 1..Len(ready) : ready[i] # fd
<1>1. ready \in Seq(Fds)
  BY DEF Types
<1>2. Append(ready, fd) \in Seq(Fds) /\ Append(ready, fd) = ready \o <<fd>>
  BY <1>1, AppendProperties, AppendIsConcat
<1>3. <<fd>> \in Seq(Fds) /\ Range(<<fd>>) = {fd}
  BY DEF Range
<1>4. Range(Append(ready, fd)) = Range(ready) \cup {fd}
  <2>1. Range(ready \o <<fd>>) = Range(ready) \cup Range(<<fd>>)
    BY <1>1, <1>3, RangeConcatenation
  <2> QED
    BY <1>2, <1>3, <2>1
<1>5. \A i \in 1..Len(ready) : ready[i] \in Range(ready)
  BY <1>1 DEF Range
<1> QED
  BY <1>1, <1>2, <1>4, <1>5 DEF Raise

\* A descriptor is in the range of a list exactly when it is at a position.
LEMMA InRange ==
    ASSUME NEW S, NEW s \in Seq(S), NEW x
    PROVE  x \in Range(s) <=> \E i \in 1..Len(s) : s[i] = x
BY RangeEquality

\* Taking the first element of a list.
LEMMA TailFacts ==
    ASSUME NEW S, NEW s \in Seq(S), s # << >>
    PROVE  /\ Len(s) \in Nat /\ Len(s) >= 1
           /\ Head(s) = s[1] /\ s[1] \in S
           /\ Tail(s) \in Seq(S) /\ Len(Tail(s)) = Len(s) - 1
           /\ \A i \in 1..Len(Tail(s)) : i + 1 \in 2..Len(s) /\ Tail(s)[i] = s[i + 1]
           /\ Len(s) = 1 => Tail(s) = << >>
           /\ Len(s) # 1 => Tail(s) # << >>
<1>1. Len(s) \in Nat /\ Len(s) >= 1 /\ Head(s) = s[1]
  BY EmptySeq
<1>2. Head(s) \in S /\ Tail(s) \in Seq(S) /\ Len(Tail(s)) = Len(s) - 1
  BY HeadTailProperties
<1>3. \A i \in 1..Len(Tail(s)) : i + 1 \in 2..Len(s) /\ Tail(s)[i] = s[i + 1]
  BY <1>1, <1>2, HeadTailProperties
<1>4. Len(s) # 1 => Tail(s) # << >>
  <2>1. Tail(s) = << >> => Len(Tail(s)) = Len(<< >>)
    BY Zenon
  <2>2. Len(<< >>) = 0
    BY EmptySeq
  <2> QED
    BY <1>1, <1>2, <2>1, <2>2
<1>5. ASSUME Len(s) = 1
      PROVE  Tail(s) = << >>
  <2>1. Len(Tail(s)) = 0
    BY <1>2, <1>5
  <2> QED
    BY <1>2, <2>1, EmptySeq
<1> QED
  BY <1>1, <1>2, <1>3, <1>4, <1>5

\* The request a handler or the master takes next.
LEMMA HeadRequest ==
    ASSUME NEW q \in Seq(Requests), q # << >>
    PROVE  /\ Head(q) = q[1] /\ Head(q) \in Requests
           /\ Head(q).client \in Clients /\ Head(q).seq \in SeqNums
           /\ Head(q) = [client |-> Head(q).client, seq |-> Head(q).seq]
<1>1. Head(q) = q[1] /\ Head(q) \in Requests
  BY TailFacts
<1> QED
  BY <1>1 DEF Requests


-----------------------------------------------------------------------------
(* The types. *)

\* Initially every variable has its type.
LEMMA TypesInit == Init => Types
BY ServerAssumption DEF Init, Types, Handlers, SeqNums, Fds

\* Every step keeps the types.
LEMMA TypesStep ==
    ASSUME Types, LoopInv, [Next]_vars
    PROVE  Types'
<1>1. ASSUME NEW c \in Clients, open_socket(c)
      PROVE  Types'
  BY <1>1, ServerAssumption
     DEF open_socket, Types, Handlers, SeqNums, clientVars, netVars, serverVars
<1>2. ASSUME NEW c \in Clients, connect(c)
      PROVE  Types'
  <2>1. Raise(LISTEN) \in Seq(Fds)
    BY RaiseFacts DEF Fds
  <2> QED
    BY <1>2, <2>1, AppendProperties DEF connect, Types, clientVars, serverVars
<1>3. ASSUME NEW c \in Clients, connect_fails(c)
      PROVE  Types'
  BY <1>3, ServerAssumption
     DEF connect_fails, Types, Handlers, SeqNums, clientVars, netVars, serverVars
<1>4. ASSUME NEW c \in Clients, load_kvpairs(c)
      PROVE  Types'
  <2>1. /\ Len(Batch(c)) \in Nat /\ Batch(c) \in Seq(SeqNums)
        /\ Len(Batch(c)) <= KeysLeft(c)
    BY BatchFacts
  <2>2. RaiseClient(c) \in Seq(Fds)
    BY RaiseFacts DEF RaiseClient, Fds, Types
  <2>3. sem[c] - Len(Batch(c)) \in Nat /\ seq_num[c] + Len(Batch(c)) \in 0..NR_KEY
    BY <1>4, <2>1, ServerAssumption DEF load_kvpairs, Types, KeysLeft
  <2>4. inbox[c] \o Batch(c) \in Seq(SeqNums)
    BY <2>1, ConcatProperties DEF Types
  <2>5. sem' \in [Clients -> Nat] /\ seq_num' \in [Clients -> 0..NR_KEY]
    BY <1>4, <2>3 DEF load_kvpairs, Types
  <2>6. inbox' \in [Clients -> Seq(SeqNums)] /\ ready' \in Seq(Fds)
    BY <1>4, <2>2, <2>4 DEF load_kvpairs, Types
  <2>7. main' \in [Clients -> {"init", "connect", "load", "finish", "join", "closed", "abort"}]
    BY <1>4 DEF load_kvpairs, Types
  <2> QED
    BY <1>4, <2>5, <2>6, <2>7 DEF load_kvpairs, Types, serverVars
<1>5. ASSUME NEW c \in Clients, load_killed(c)
      PROVE  Types'
  BY <1>5, ServerAssumption
     DEF load_killed, Types, Handlers, SeqNums, clientVars, netVars, serverVars
<1>6. ASSUME NEW c \in Clients, wait_until_finish(c)
      PROVE  Types'
  BY <1>6, ServerAssumption
     DEF wait_until_finish, Types, Handlers, SeqNums, clientVars, netVars, serverVars
<1>7. ASSUME NEW c \in Clients, bench_free(c)
      PROVE  Types'
  <2>1. RaiseClient(c) \in Seq(Fds)
    BY RaiseFacts DEF RaiseClient, Fds, Types
  <2>2. hangup' \in [Clients -> {"open", "eof", "reset"}] /\ ready' \in Seq(Fds)
    BY <1>7, <2>1 DEF bench_free, HangUp, Types
  <2> QED
    BY <1>7, <2>2 DEF bench_free, Types, serverVars
<1>8. ASSUME NEW c \in Clients, client_exit(c)
      PROVE  Types'
  BY <1>8, ServerAssumption
     DEF client_exit, Types, Handlers, SeqNums, clientVars, netVars, serverVars
<1>9. ASSUME NEW c \in Clients, ack_check(c)
      PROVE  Types'
  BY <1>9, ServerAssumption
     DEF ack_check, Types, Handlers, SeqNums, clientVars, netVars, serverVars
<1>10. ASSUME NEW c \in Clients, ack_read(c)
      PROVE  Types'
  <2>1. sem' \in [Clients -> Nat] /\ acks' \in [Clients -> Nat]
    BY <1>10 DEF ack_read, Types
  <2> QED
    BY <1>10, <2>1 DEF ack_read, Types, serverVars
<1>11. ASSUME NEW c \in Clients, ack_disconnected(c)
      PROVE  Types'
  BY <1>11, ServerAssumption
     DEF ack_disconnected, Types, Handlers, SeqNums, clientVars, netVars, serverVars
<1>12. ASSUME NEW c \in Clients, stdin_eof(c)
      PROVE  Types'
  <2>1. RaiseClient(c) \in Seq(Fds)
    BY RaiseFacts DEF RaiseClient, Fds, Types
  <2>2. hangup' \in [Clients -> {"open", "eof", "reset"}] /\ ready' \in Seq(Fds)
    BY <1>12, <2>1 DEF stdin_eof, HangUp, Types
  <2> QED
    BY <1>12, <2>2 DEF stdin_eof, Types, serverVars
<1>13. CASE socket_init
  BY <1>13, ServerAssumption
     DEF socket_init, Types, Handlers, SeqNums, clientVars, netVars, serverVars
<1>14. CASE create_master_thread
  BY <1>14, ServerAssumption
     DEF create_master_thread, Types, Handlers, SeqNums, clientVars, netVars,
         serverVars
<1>15. CASE handler_init
  BY <1>15, ServerAssumption
     DEF handler_init, Types, Handlers, SeqNums, clientVars, netVars, serverVars
<1>16. CASE join_master
  BY <1>16, ServerAssumption
     DEF join_master, Types, Handlers, SeqNums, clientVars, netVars, serverVars
<1>17. CASE epoll_wait
  <2>1. events' \in Seq(Fds) /\ ready' \in Seq(Fds)
    BY <1>17, EmptySeq DEF epoll_wait, Types
  <2> QED
    BY <1>17, <2>1 DEF epoll_wait, Types, clientVars
<1>18. CASE accept_new_client
  <2>1. events # << >>
    BY <1>18 DEF accept_new_client, LoopInv
  <2>2. Tail(events) \in Seq(Fds)
    BY <2>1, HeadTailProperties DEF Types
  <2>3. CASE backlog = << >>
    BY <1>18, <2>3 DEF accept_new_client, Types, clientVars
  <2>4. CASE backlog # << >>
    <3>1. Head(backlog) \in Clients /\ Tail(backlog) \in Seq(Clients)
      BY <2>4, HeadTailProperties DEF Types
    <3>2. Raise(Head(backlog)) \in Seq(Fds)
      BY <3>1, RaiseFacts DEF Fds
    <3>3. ready' \in Seq(Fds) /\ backlog' \in Seq(Clients) /\ accepted' \in SUBSET Clients
      <4>1. /\ accepted' = accepted \cup {Head(backlog)}
            /\ backlog' = Tail(backlog)
            /\ ready' = Raise(Head(backlog)) \/ ready' = ready
        BY <1>18, <2>4 DEF accept_new_client
      <4> QED
        BY <3>1, <3>2, <4>1 DEF Types
    <3>4. events' \in Seq(Fds) /\ mpc' \in {"epoll_wait", "event"}
      BY <1>18, <2>2, <2>4 DEF accept_new_client, NextEvent
    <3> QED
      BY <1>18, <3>3, <3>4 DEF accept_new_client, Types, clientVars
  <2> QED
    BY <2>3, <2>4
<1>19. CASE read_requests
  <2> DEFINE c == Head(events)
             n == IF Len(inbox[c]) < MAX_NETREQ_BUF THEN Len(inbox[c]) ELSE MAX_NETREQ_BUF
  <2>1. c \in Clients
    BY <1>19, HeadTailProperties DEF read_requests, LoopInv, Types, Fds
  <2>2. inbox[c] \in Seq(SeqNums)
    BY <2>1 DEF Types
  <2>3. n \in Nat /\ n <= Len(inbox[c])
    BY <2>2, ServerAssumption
  <2>4. netreq_buf' = [i \in 1..n |-> [client |-> c, seq |-> inbox[c][i]]]
        /\ inbox' = [inbox EXCEPT ![c] = SubSeq(@, n + 1, Len(@))]
    BY <1>19 DEF read_requests
  <2> HIDE DEF c, n
  <2>5. netreq_buf' \in Seq(Requests)
    BY <2>1, <2>3, <2>4, ReadFacts
  <2>6. SubSeq(inbox[c], n + 1, Len(inbox[c])) \in Seq(SeqNums)
    BY <2>2, <2>3, SubSeqProperties, ElementOfSeq
  <2>7. inbox' \in [Clients -> Seq(SeqNums)]
    BY <2>1, <2>4, <2>6 DEF Types
  <2> QED
    BY <1>19, <2>5, <2>7 DEF read_requests, Types, clientVars
<1>20. CASE read_nothing
  <2>1. Tail(events) \in Seq(Fds)
    BY <1>20, HeadTailProperties DEF read_nothing, LoopInv, Types
  <2> QED
    BY <1>20, <2>1 DEF read_nothing, NextEvent, Types, clientVars, netVars
<1>21. CASE forward_req_to_hlr
  <2>1. events # << >> /\ netreq_buf # << >>
    BY <1>21 DEF forward_req_to_hlr, LoopInv
  <2>2. /\ Tail(events) \in Seq(Fds)
        /\ Head(netreq_buf) \in Requests /\ Tail(netreq_buf) \in Seq(Requests)
    BY <2>1, HeadTailProperties DEF Types
  <2>3. \A h \in Handlers : Append(req_q[h], Head(netreq_buf)) \in Seq(Requests)
    BY <2>2, AppendProperties DEF Types
  <2>4. req_q' \in [Handlers -> Seq(Requests)]
    BY <1>21, <2>3 DEF forward_req_to_hlr, Types
  <2>5. events' \in Seq(Fds) /\ mpc' \in {"epoll_wait", "event", "forward"}
    BY <1>21, <2>2 DEF forward_req_to_hlr, NextEvent, Types
  <2> QED
    BY <1>21, <2>2, <2>4, <2>5 DEF forward_req_to_hlr, Types, clientVars, netVars
<1>22. ASSUME NEW h \in Handlers, answer(h)
      PROVE  Types'
  <2> DEFINE c == Head(req_q[h]).client
  <2>1. Head(req_q[h]) \in Requests /\ Tail(req_q[h]) \in Seq(Requests)
    BY <1>22, HeadTailProperties DEF answer, Types
  <2>2. c \in Clients /\ Head(req_q[h]).seq \in SeqNums
    BY <2>1 DEF Requests
  <2>3. RaiseClient(c) \in Seq(Fds)
    BY RaiseFacts, <2>2 DEF RaiseClient, Fds, Types
  <2>4. req_q' \in [Handlers -> Seq(Requests)]
    BY <1>22, <2>1 DEF answer, Types
  <2>5. acks' \in [Clients -> Nat]
    <3>1. acks' = acks \/ acks' = [acks EXCEPT ![c] = @ + 1]
      BY <1>22 DEF answer
    <3>2. acks \in [Clients -> Nat]
      BY DEF Types
    <3> HIDE DEF c
    <3> QED
      BY <2>2, <3>1, <3>2
  <2>6. hangup' \in [Clients -> {"open", "eof", "reset"}] /\ ready' \in Seq(Fds)
    BY <1>22, <2>2, <2>3 DEF answer, Types
  <2>7. answered' \in [Clients -> SUBSET SeqNums]
    BY <1>22, <2>2 DEF answer, Types
  <2> QED
    BY <1>22, <2>4, <2>5, <2>6, <2>7 DEF answer, Types, clientVars
<1>23. CASE Death
  BY <1>23, ServerAssumption
     DEF Death, Dies, Types, Handlers, SeqNums, clientVars, netVars, serverVars
<1>24. CASE UNCHANGED vars
  BY <1>24, ServerAssumption
     DEF vars, Types, Handlers, SeqNums, vars, clientVars, netVars, serverVars
<1> QED
  BY <1>1, <1>2, <1>3, <1>4, <1>5, <1>6, <1>7, <1>8, <1>9, <1>10, <1>11, <1>12, <1>13,
     <1>14, <1>15, <1>16, <1>17, <1>18, <1>19, <1>20, <1>21, <1>22, <1>23, <1>24,
     Deaths
     DEF Next, client_main, ack_poller, server_main, master_thread


-----------------------------------------------------------------------------
(* The loop of master_thread, and the start of the server. *)

\* Initially the master thread holds nothing, and no handler exists.
LEMMA LoopInit == Init => LoopInv /\ StartInv /\ ListenInv
BY DEF Init, LoopInv, StartInv, ListenInv

\* Every step keeps what master_thread holds in its loop.
LEMMA LoopStep ==
    ASSUME Types, LoopInv, StartInv, [Next]_vars
    PROVE  LoopInv'
<1>1. CASE 
         \/ \E c \in Clients : open_socket(c) \/ connect(c) \/ connect_fails(c) \/
              load_kvpairs(c) \/ load_killed(c) \/ wait_until_finish(c) \/
              bench_free(c) \/ client_exit(c) \/ ack_check(c) \/ ack_read(c) \/
              ack_disconnected(c) \/ stdin_eof(c)
         \/ socket_init \/ handler_init \/ join_master
         \/ UNCHANGED vars
  BY <1>1
     DEF open_socket, connect, connect_fails, load_kvpairs, load_killed,
         wait_until_finish, bench_free, client_exit, ack_check, ack_read,
         ack_disconnected, stdin_eof, socket_init, handler_init, join_master, LoopInv,
         vars, serverVars
<1>2. CASE create_master_thread
  BY <1>2 DEF create_master_thread, LoopInv, StartInv, netVars
<1>3. CASE epoll_wait
  BY <1>3 DEF epoll_wait, LoopInv
<1>4. CASE accept_new_client
  <2>1. events # << >> /\ netreq_buf = << >>
    BY <1>4 DEF accept_new_client, LoopInv
  <2>2. Len(events) # 1 => Tail(events) # << >>
    BY <2>1, TailFacts DEF Types
  <2>3. Len(events) = 1 => Tail(events) = << >>
    BY <2>1, TailFacts DEF Types
  <2> QED
    BY <1>4, <2>1, <2>2, <2>3 DEF accept_new_client, NextEvent, LoopInv
<1>5. CASE read_requests
  <2> DEFINE c == Head(events)
             n == IF Len(inbox[c]) < MAX_NETREQ_BUF THEN Len(inbox[c]) ELSE MAX_NETREQ_BUF
  <2>1. events # << >> /\ c # LISTEN /\ c = events[1]
    BY <1>5 DEF read_requests, LoopInv, Types
  <2>2. c \in Clients
    BY <2>1, HeadTailProperties DEF Types, Fds
  <2>3. n \in Nat /\ n <= Len(inbox[c])
    BY <2>2, ServerAssumption DEF Types
  <2>4. n > 0 /\ netreq_buf' = [i \in 1..n |-> [client |-> c, seq |-> inbox[c][i]]]
    BY <1>5 DEF read_requests
  <2> HIDE DEF c, n
  <2>5. Len(netreq_buf') = n
    BY <2>2, <2>3, <2>4, ReadFacts
  <2>6. netreq_buf' # << >>
    <3>1. netreq_buf' = << >> => Len(netreq_buf') = 0
      OBVIOUS
    <3>2. n # 0
      BY <2>3, <2>4
    <3> QED
      BY <2>5, <3>1, <3>2
  <2> QED
    BY <1>5, <2>1, <2>6 DEF read_requests, LoopInv, c
<1>6. CASE read_nothing
  <2>1. events # << >> /\ netreq_buf = << >>
    BY <1>6 DEF read_nothing, LoopInv
  <2>2. Len(events) # 1 => Tail(events) # << >>
    BY <2>1, TailFacts DEF Types
  <2>3. Len(events) = 1 => Tail(events) = << >>
    BY <2>1, TailFacts DEF Types
  <2> QED
    BY <1>6, <2>1, <2>2, <2>3 DEF read_nothing, NextEvent, LoopInv
<1>7. CASE forward_req_to_hlr
  <2>1. events # << >> /\ netreq_buf # << >> /\ events[1] # LISTEN
    BY <1>7 DEF forward_req_to_hlr, LoopInv
  <2>2. Len(events) # 1 => Tail(events) # << >>
    BY <2>1, TailFacts DEF Types
  <2>3. Len(events) = 1 => Tail(events) = << >>
    BY <2>1, TailFacts DEF Types
  <2>4. Len(netreq_buf) # 1 => Tail(netreq_buf) # << >>
    BY <2>1, TailFacts DEF Types
  <2>5. Len(netreq_buf) = 1 => Tail(netreq_buf) = << >>
    BY <2>1, TailFacts DEF Types
  <2> QED
    BY <1>7, <2>1, <2>2, <2>3, <2>4, <2>5
       DEF forward_req_to_hlr, NextEvent, LoopInv
<1>8. ASSUME NEW h \in Handlers, answer(h)
      PROVE  LoopInv'
  BY <1>8 DEF answer, LoopInv, Types
<1>9. CASE Death
  BY <1>9 DEF Death, Dies, LoopInv, Types
<1> QED
  BY <1>1, <1>2, <1>3, <1>4, <1>5, <1>6, <1>7, <1>8, <1>9, Deaths
     DEF Next, client_main, ack_poller, server_main, master_thread

\* Every step keeps the order in which master_init starts the threads.
LEMMA StartStep ==
    ASSUME Types, StartInv, [Next]_vars
    PROVE  StartInv'
<1>1. CASE 
         \/ \E c \in Clients : open_socket(c) \/ connect(c) \/ connect_fails(c) \/
              load_kvpairs(c) \/ load_killed(c) \/ wait_until_finish(c) \/
              bench_free(c) \/ client_exit(c) \/ ack_check(c) \/ ack_read(c) \/
              ack_disconnected(c) \/ stdin_eof(c)
         \/ UNCHANGED vars
  BY <1>1
     DEF open_socket, connect, connect_fails, load_kvpairs, load_killed,
         wait_until_finish, bench_free, client_exit, ack_check, ack_read,
         ack_disconnected, stdin_eof, StartInv, vars, serverVars
<1>2. CASE socket_init
  BY <1>2, ServerAssumption DEF socket_init, StartInv, Types
<1>3. CASE create_master_thread
  BY <1>3, ServerAssumption DEF create_master_thread, StartInv, Types
<1>4. CASE handler_init
  BY <1>4, ServerAssumption DEF handler_init, StartInv, Types
<1>5. CASE join_master
  BY <1>5, ServerAssumption DEF join_master, StartInv, Types
<1>6. CASE epoll_wait
  BY <1>6, ServerAssumption DEF epoll_wait, StartInv, Types
<1>7. CASE accept_new_client
  BY <1>7 DEF accept_new_client, NextEvent, StartInv
<1>8. CASE read_requests
  BY <1>8, ServerAssumption DEF read_requests, StartInv, Types
<1>9. CASE read_nothing
  BY <1>9 DEF read_nothing, NextEvent, StartInv
<1>10. CASE forward_req_to_hlr
  BY <1>10 DEF forward_req_to_hlr, NextEvent, StartInv
<1>11. ASSUME NEW h \in Handlers, answer(h)
      PROVE  StartInv'
  BY <1>11 DEF answer, StartInv
<1>12. CASE Death
  BY <1>12, ServerAssumption DEF Death, Dies, StartInv, Types
<1> QED
  BY <1>1, <1>2, <1>3, <1>4, <1>5, <1>6, <1>7, <1>8, <1>9, <1>10, <1>11, <1>12, Deaths
     DEF Next, client_main, ack_poller, server_main, master_thread

\* An edge of a client's connection leaves the events of the listening socket.
LEMMA ListenRaise ==
    ASSUME Types, ListenInv, NEW c \in Clients,
           ready' = ready \/ ready' = Append(ready, c), UNCHANGED <<events, backlog>>
    PROVE  ListenInv'
<1>1. CASE ready' = ready
  BY <1>1 DEF ListenInv
<1>2. CASE ready' = Append(ready, c)
  <2>1. ready \in Seq(Fds) /\ c \in Fds /\ c # LISTEN
    BY ServerAssumption DEF Types, Fds
  <2>2. /\ Len(ready') = Len(ready) + 1 /\ Len(ready) \in Nat
        /\ \A i \in 1..Len(ready) : ready'[i] = ready[i]
        /\ ready'[Len(ready) + 1] = c
    BY <1>2, <2>1, AppendProperties, LenProperties
  <2>3. \A i \in 1..Len(ready') : ready'[i] = LISTEN => i \in 1..Len(ready) /\ ready[i] = LISTEN
    BY <2>1, <2>2
  <2> QED
    BY <2>3 DEF ListenInv
<1> QED
  BY <1>1, <1>2

\* The events of the batch that remain are events of the batch.
LEMMA ListenTail ==
    ASSUME Types, ListenInv, events # << >>, events' = events \/ events' = Tail(events),
           UNCHANGED <<ready, backlog>>
    PROVE  ListenInv'
<1>1. CASE events' = events
  BY <1>1 DEF ListenInv
<1>2. CASE events' = Tail(events)
  <2>1. events \in Seq(Fds)
    BY DEF Types
  <2>2. /\ Len(events') = Len(events) - 1 /\ Len(events) \in Nat
        /\ \A i \in 1..Len(events') : events'[i] = events[i + 1]
    BY <1>2, <2>1, HeadTailProperties, LenProperties
  <2>3. \A i \in 1..Len(events') : i + 1 \in 1..Len(events) /\ events'[i] = events[i + 1]
    BY <2>2
  <2>4. \A i, j \in 1..Len(events') : i + 1 = j + 1 => i = j
    BY <2>2
  <2> QED
    BY <2>3, <2>4 DEF ListenInv
<1> QED
  BY <1>1, <1>2

\* Every step keeps a connection in the backlog for every event of the listening socket.
LEMMA ListenStep ==
    ASSUME Types, LoopInv, ListenInv, [Next]_vars
    PROVE  ListenInv'
<1>1. CASE 
         \/ \E c \in Clients : open_socket(c) \/ connect_fails(c) \/ load_killed(c) \/
              wait_until_finish(c) \/ client_exit(c) \/ ack_check(c) \/ ack_read(c) \/
              ack_disconnected(c)
         \/ socket_init \/ create_master_thread \/ handler_init \/ join_master \/
              read_requests
         \/ UNCHANGED vars
  BY <1>1
     DEF open_socket, connect_fails, load_killed, wait_until_finish, client_exit,
         ack_check, ack_read, ack_disconnected, socket_init, create_master_thread,
         handler_init, join_master, read_requests, ListenInv, vars, netVars,
         serverVars
<1>2. ASSUME NEW c \in Clients, connect(c)
      PROVE  ListenInv'
  <2>1. backlog \in Seq(Clients) /\ ready \in Seq(Fds) /\ LISTEN \in Fds
    BY DEF Types, Fds
  <2>2. Len(backlog') = Len(backlog) + 1 /\ Len(backlog) \in Nat
    BY <1>2, <2>1, AppendProperties DEF connect
  <2>3. events' = events
    BY <1>2 DEF connect, serverVars
  <2>4. CASE ready' = ready
    BY <2>2, <2>3, <2>4 DEF ListenInv
  <2>5. CASE ready' = Append(ready, LISTEN) /\ \A i \in 1..Len(ready) : ready[i] # LISTEN
    <3>1. /\ Len(ready') = Len(ready) + 1 /\ Len(ready) \in Nat
          /\ \A i \in 1..Len(ready) : ready'[i] = ready[i]
      BY <2>1, <2>5, AppendProperties, LenProperties
    <3>2. \A i \in 1..Len(ready') : ready'[i] = LISTEN => i = Len(ready) + 1
      BY <2>5, <3>1
    <3>3. \A i \in 1..Len(events) : events[i] = LISTEN => Len(backlog') >= 2
      BY <2>2 DEF ListenInv
    <3> QED
      BY <2>2, <2>3, <3>2, <3>3 DEF ListenInv
  <2> QED
    BY <1>2, <2>1, <2>4, <2>5, RaiseFacts DEF connect
<1>3. ASSUME NEW c \in Clients, load_kvpairs(c)
      PROVE  ListenInv'
  <2>1. ready' = ready \/ ready' = Append(ready, c)
    BY <1>3, RaiseFacts DEF load_kvpairs, RaiseClient, Fds
  <2> QED
    BY <1>3, <2>1, ListenRaise DEF load_kvpairs, serverVars
<1>4. ASSUME NEW c \in Clients, bench_free(c)
      PROVE  ListenInv'
  <2>1. ready' = ready \/ ready' = Append(ready, c)
    BY <1>4, RaiseFacts DEF bench_free, HangUp, RaiseClient, Fds
  <2> QED
    BY <1>4, <2>1, ListenRaise DEF bench_free, serverVars
<1>5. ASSUME NEW c \in Clients, stdin_eof(c)
      PROVE  ListenInv'
  <2>1. ready' = ready \/ ready' = Append(ready, c)
    BY <1>5, RaiseFacts DEF stdin_eof, HangUp, RaiseClient, Fds
  <2> QED
    BY <1>5, <2>1, ListenRaise DEF stdin_eof, serverVars
<1>6. CASE epoll_wait
  <2>1. events' = ready /\ ready' = << >> /\ backlog' = backlog
    BY <1>6 DEF epoll_wait
  <2>2. Len(ready') = 0
    BY <2>1
  <2> QED
    BY <2>1, <2>2 DEF ListenInv
<1>7. CASE accept_new_client
  <2>1. /\ events # << >> /\ events \in Seq(Fds) /\ Head(events) = LISTEN
        /\ Len(events) \in Nat /\ Len(events) >= 1
    BY <1>7, EmptySeq DEF accept_new_client, LoopInv, Types
  <2>2. events[1] = LISTEN
    BY <2>1
  <2>3. Len(backlog) >= 1
    BY <2>1, <2>2 DEF ListenInv
  <2>4. backlog # << >> /\ backlog \in Seq(Clients) /\ Len(backlog) \in Nat
    BY <2>3 DEF Types
  <2>5. /\ Head(backlog) \in Clients /\ Len(Tail(backlog)) = Len(backlog) - 1
        /\ Head(backlog) \in Fds /\ Head(backlog) # LISTEN
    BY <2>4, HeadTailProperties, ServerAssumption DEF Fds
  <2>6. /\ backlog' = Tail(backlog) /\ events' = Tail(events)
        /\ ready' = ready \/ ready' = Raise(Head(backlog))
    BY <1>7, <2>4 DEF accept_new_client, NextEvent
  <2>7. \A i \in 1..Len(events') : i + 1 \in 1..Len(events) /\ events'[i] = events[i + 1]
    BY <2>1, <2>6, HeadTailProperties
  <2>8. \A i \in 1..Len(events') : events'[i] # LISTEN
    <3>1. \A i \in 1..Len(events) : events[i] = LISTEN => i = 1
      BY <2>1, <2>2 DEF ListenInv
    <3>2. \A i \in 1..Len(events') : i + 1 # 1
      OBVIOUS
    <3> QED
      BY <2>7, <3>1, <3>2
  <2>9. \A i \in 1..Len(ready') : ready'[i] = LISTEN => i \in 1..Len(ready) /\ ready[i] = LISTEN
    <3>1. ready' = ready \/ ready' = Append(ready, Head(backlog))
      BY <2>5, <2>6, RaiseFacts
    <3>2. ready \in Seq(Fds)
      BY DEF Types
    <3>3. ready' = ready \/ /\ Len(ready') = Len(ready) + 1 /\ Len(ready) \in Nat
                            /\ \A i \in 1..Len(ready) : ready'[i] = ready[i]
                            /\ ready'[Len(ready) + 1] = Head(backlog)
      BY <2>5, <3>1, <3>2, AppendProperties, LenProperties
    <3> QED
      BY <2>5, <3>3
  <2>10. \A i \in 1..Len(ready) : ready[i] = LISTEN => Len(backlog) >= 2
    BY <2>1, <2>2 DEF ListenInv
  <2>11. \A i \in 1..Len(ready') : ready'[i] = LISTEN => Len(backlog') >= 1
    BY <2>4, <2>5, <2>6, <2>9, <2>10
  <2> QED
    BY <2>8, <2>9, <2>11 DEF ListenInv
<1>8. CASE read_nothing
  <2>1. events # << >>
    BY <1>8 DEF read_nothing, LoopInv
  <2> QED
    BY <1>8, <2>1, ListenTail DEF read_nothing, NextEvent, netVars
<1>9. CASE forward_req_to_hlr
  <2>1. events # << >>
    BY <1>9 DEF forward_req_to_hlr, LoopInv
  <2> QED
    BY <1>9, <2>1, ListenTail DEF forward_req_to_hlr, NextEvent, netVars
<1>10. ASSUME NEW h \in Handlers, answer(h)
      PROVE  ListenInv'
  <2> DEFINE c == Head(req_q[h]).client
  <2>1. c \in Clients
    BY <1>10, HeadRequest DEF answer, Types
  <2>2. ready' = ready \/ ready' = RaiseClient(c)
    BY <1>10 DEF answer
  <2>3. UNCHANGED <<events, backlog>>
    BY <1>10 DEF answer
  <2> HIDE DEF c
  <2>4. ready' = ready \/ ready' = Append(ready, c)
    BY <2>1, <2>2, RaiseFacts DEF RaiseClient, Fds
  <2> QED
    BY <2>1, <2>3, <2>4, ListenRaise
<1>11. CASE Death
  <2>1. Len(ready') = 0 /\ Len(events') = 0
    BY <1>11 DEF Death, Dies
  <2> QED
    BY <2>1 DEF ListenInv
<1> QED
  BY <1>1, <1>2, <1>3, <1>4, <1>5, <1>6, <1>7, <1>8, <1>9, <1>10, <1>11, Deaths
     DEF Next, client_main, ack_poller, server_main, master_thread


-----------------------------------------------------------------------------
(* The clients. *)

\* Initially no client has a connection, and none has sent anything.
LEMMA ClientInit == Init => ClientInv /\ CreditInv
BY ServerAssumption DEF Init, ClientInv, CreditInv

\* Every step keeps what the states of a client's two threads say of its connection.
LEMMA ClientStep ==
    ASSUME Types, SentInv, ClientInv, [Next]_vars
    PROVE  ClientInv'
<1>1. CASE 
         \/ socket_init \/ create_master_thread \/ handler_init \/ join_master \/
              epoll_wait \/ accept_new_client \/ read_requests \/ read_nothing \/
              forward_req_to_hlr
         \/ UNCHANGED vars
  BY <1>1
     DEF socket_init, create_master_thread, handler_init, join_master, epoll_wait,
         accept_new_client, read_requests, read_nothing, forward_req_to_hlr,
         ClientInv, vars, clientVars, netVars, serverVars
<1>2. ASSUME NEW c \in Clients, open_socket(c)
      PROVE  ClientInv'
  BY <1>2 DEF open_socket, ClientInv, Types, netVars, serverVars
<1>3. ASSUME NEW c \in Clients, connect(c)
      PROVE  ClientInv'
  BY <1>3 DEF connect, ClientInv, Types, netVars, serverVars
<1>4. ASSUME NEW c \in Clients, connect_fails(c)
      PROVE  ClientInv'
  BY <1>4 DEF connect_fails, ClientInv, Types, netVars, serverVars
<1>5. ASSUME NEW c \in Clients, load_kvpairs(c)
      PROVE  ClientInv'
  <2>1. UNCHANGED <<poller, sock, acks, hangup, process>>
    BY <1>5 DEF load_kvpairs, serverVars
  <2>2. \A d \in Clients \ {c} : main'[d] = main[d] /\ seq_num'[d] = seq_num[d] /\ sem'[d] = sem[d]
    BY <1>5 DEF load_kvpairs, Types
  <2>3. main[c] = "load" /\ main'[c] \in {"load", "finish"}
    BY <1>5 DEF load_kvpairs, Types
  <2> QED
    BY <2>1, <2>2, <2>3 DEF ClientInv
<1>6. ASSUME NEW c \in Clients, load_killed(c)
      PROVE  ClientInv'
  BY <1>6 DEF load_killed, ClientInv, Types, netVars, serverVars
<1>7. ASSUME NEW c \in Clients, wait_until_finish(c)
      PROVE  ClientInv'
  BY <1>7 DEF wait_until_finish, ClientInv, Types, netVars, serverVars
<1>8. ASSUME NEW c \in Clients, bench_free(c)
      PROVE  ClientInv'
  <2>1. UNCHANGED <<poller, seq_num, sem, acks, process>>
    BY <1>8 DEF bench_free, serverVars
  <2>2. \A d \in Clients \ {c} : main'[d] = main[d] /\ sock'[d] = sock[d] /\ hangup'[d] = hangup[d]
    BY <1>8 DEF bench_free, HangUp, Types
  <2>3. main'[c] = "closed" /\ sock'[c] = "closed" /\ poller[c] = "done" /\ main[c] = "join"
    BY <1>8 DEF bench_free, Types
  <2>4. hangup'[c] # hangup[c] \/ sock[c] # "connected" \/ process # "up"
    BY <1>8 DEF bench_free, HangUp, Types, ClientInv
  <2>5. hangup'[c] = "open" => hangup[c] = "open"
    BY <1>8 DEF bench_free, HangUp, Types
  <2> QED
    BY <2>1, <2>2, <2>3, <2>4, <2>5 DEF ClientInv
<1>9. ASSUME NEW c \in Clients, client_exit(c)
      PROVE  ClientInv'
  BY <1>9 DEF client_exit, ClientInv, Types, netVars, serverVars
<1>10. ASSUME NEW c \in Clients, ack_check(c)
      PROVE  ClientInv'
  BY <1>10 DEF ack_check, ClientInv, Types, netVars, serverVars
<1>11. ASSUME NEW c \in Clients, ack_read(c)
      PROVE  ClientInv'
  <2>1. UNCHANGED <<main, sock, seq_num, hangup, process>>
    BY <1>11 DEF ack_read, serverVars
  <2>2. \A d \in Clients \ {c} : poller'[d] = poller[d] /\ sem'[d] = sem[d] /\ acks'[d] = acks[d]
    BY <1>11 DEF ack_read, Types
  <2>3. poller[c] = "read" /\ poller'[c] = "check" /\ main[c] # "abort"
    BY <1>11 DEF ack_read, Types
  <2> QED
    BY <2>1, <2>2, <2>3 DEF ClientInv
<1>12. ASSUME NEW c \in Clients, ack_disconnected(c)
      PROVE  ClientInv'
  BY <1>12 DEF ack_disconnected, ClientInv, Types, netVars, serverVars
<1>13. ASSUME NEW c \in Clients, stdin_eof(c)
      PROVE  ClientInv'
  <2>1. UNCHANGED <<main, seq_num, sem, acks, process>>
    BY <1>13 DEF stdin_eof, serverVars
  <2>2. \A d \in Clients \ {c} : poller'[d] = poller[d] /\ sock'[d] = sock[d] /\ hangup'[d] = hangup[d]
    BY <1>13 DEF stdin_eof, HangUp, Types
  <2>3. poller'[c] = "done" /\ sock'[c] # "connected"
    BY <1>13 DEF stdin_eof, Types
  <2>4. hangup'[c] # hangup[c] \/ sock[c] # "connected" \/ process # "up"
    BY <1>13 DEF stdin_eof, HangUp, Types, ClientInv
  <2>5. hangup'[c] = "open" => hangup[c] = "open"
    BY <1>13 DEF stdin_eof, HangUp, Types
  <2>6. sock[c] # "connected" => hangup'[c] = hangup[c]
    BY <1>13 DEF stdin_eof, HangUp
  <2> QED
    BY <2>1, <2>2, <2>3, <2>4, <2>5, <2>6 DEF ClientInv
<1>14. ASSUME NEW h \in Handlers, answer(h)
      PROVE  ClientInv'
  <2> DEFINE c == Head(req_q[h]).client
             n == Head(req_q[h]).seq
  <2>1. c \in Clients /\ n \in SeqNums /\ req_q[h] # << >> /\ Head(req_q[h]) = req_q[h][1]
    BY <1>14, HeadRequest DEF answer, Types
  <2>2. 1 \in 1..Len(req_q[h])
    BY <2>1, TailFacts DEF Types
  <2>3. n <= seq_num[c]
    BY <2>1, <2>2 DEF SentInv
  <2>4. seq_num[c] # 0
    BY <2>1, <2>3 DEF Types, SeqNums
  <2>5. UNCHANGED <<main, poller, sock, seq_num, sem, process>>
    BY <1>14 DEF answer, clientVars
  <2>6. /\ \A d \in Clients \ {c} : hangup'[d] = hangup[d] /\ acks'[d] = acks[d]
        /\ hangup[c] = "open" => hangup'[c] = "open"
        /\ hangup'[c] = "open" => hangup[c] = "open"
    BY <1>14, <2>1 DEF answer, Types
  <2> HIDE DEF c, n
  <2> QED
    BY <2>1, <2>4, <2>5, <2>6 DEF ClientInv
<1>15. CASE Death
  <2>1. process' # "up" /\ UNCHANGED <<main, poller, sock, seq_num, sem, acks, hangup>>
    BY <1>15 DEF Death, Dies, clientVars
  <2> QED
    BY <2>1 DEF ClientInv
<1> QED
  BY <1>1, <1>2, <1>3, <1>4, <1>5, <1>6, <1>7, <1>8, <1>9, <1>10, <1>11, <1>12, <1>13,
     <1>14, <1>15, Deaths
     DEF Next, client_main, ack_poller, server_main, master_thread


-----------------------------------------------------------------------------
(* How the requests move: into the socket, the buffer, a handler and out. *)

\* load_kvpairs puts the numbers that follow the last one at the end of the
\* connection, or loses them.
LEMMA LoadEffect ==
    ASSUME Types, NEW c \in Clients, load_kvpairs(c),
           NEW n, n = Len(Batch(c))
    PROVE  /\ n \in Nat
           /\ seq_num'[c] = seq_num[c] + n
           /\ \A d \in Clients \ {c} : seq_num'[d] = seq_num[d] /\ inbox'[d] = inbox[d]
           /\ \/ /\ inbox' = inbox /\ (sock[c] # "connected" \/ process # "up")
              \/ /\ sock[c] = "connected" /\ process = "up"
                 /\ Len(inbox'[c]) = Len(inbox[c]) + n
                 /\ \A i \in 1..Len(inbox[c]) : inbox'[c][i] = inbox[c][i]
                 /\ \A i \in 1..n : inbox'[c][Len(inbox[c]) + i] = seq_num[c] + i
                 /\ \A i \in 1..Len(inbox'[c]) :
                      i \in 1..Len(inbox[c]) \/ \E j \in 1..n : i = Len(inbox[c]) + j
           /\ UNCHANGED <<netreq_buf, req_q, answered, sock, process>>
<1>1. n \in Nat /\ Batch(c) \in Seq(SeqNums) /\ \A i \in 1..n : Batch(c)[i] = seq_num[c] + i
  BY BatchFacts
<1>2. inbox[c] \in Seq(SeqNums) /\ Len(inbox[c]) \in Nat
  BY DEF Types
<1>3. seq_num' = [seq_num EXCEPT ![c] = seq_num[c] + n]
  BY DEF load_kvpairs
<1>4. \/ inbox' = inbox /\ (sock[c] # "connected" \/ process # "up")
      \/ inbox' = [inbox EXCEPT ![c] = inbox[c] \o Batch(c)] /\ sock[c] = "connected" /\ process = "up"
  BY DEF load_kvpairs
<1>5. CASE inbox' = inbox /\ (sock[c] # "connected" \/ process # "up")
  BY <1>1, <1>3, <1>5 DEF load_kvpairs, Types, serverVars
<1>6. CASE inbox' = [inbox EXCEPT ![c] = inbox[c] \o Batch(c)] /\ sock[c] = "connected" /\ process = "up"
  <2>1. inbox'[c] = inbox[c] \o Batch(c)
    BY <1>6 DEF Types
  <2>2. /\ Len(inbox'[c]) = Len(inbox[c]) + n
        /\ \A i \in 1..(Len(inbox[c]) + n) :
             inbox'[c][i] = IF i <= Len(inbox[c]) THEN inbox[c][i] ELSE Batch(c)[i - Len(inbox[c])]
    BY <1>1, <1>2, <2>1, ConcatProperties
  <2>3. \A i \in 1..Len(inbox[c]) : inbox'[c][i] = inbox[c][i]
    BY <1>1, <1>2, <2>2
  <2>4. ASSUME NEW i \in 1..n
        PROVE  inbox'[c][Len(inbox[c]) + i] = seq_num[c] + i
    <3>1. /\ Len(inbox[c]) + i \in 1..(Len(inbox[c]) + n)
          /\ ~(Len(inbox[c]) + i <= Len(inbox[c]))
          /\ (Len(inbox[c]) + i) - Len(inbox[c]) = i
      BY <1>1, <1>2
    <3> QED
      BY <1>1, <2>2, <3>1
  <2>5. ASSUME NEW i \in 1..Len(inbox'[c]), i \notin 1..Len(inbox[c])
        PROVE  \E j \in 1..n : i = Len(inbox[c]) + j
    <3>1. i - Len(inbox[c]) \in 1..n /\ i = Len(inbox[c]) + (i - Len(inbox[c]))
      BY <1>1, <1>2, <2>2, <2>5
    <3> QED
      BY <3>1
  <2>6. \A d \in Clients \ {c} : inbox'[d] = inbox[d]
    BY <1>6 DEF Types
  <2>7. \A d \in Clients \ {c} : seq_num'[d] = seq_num[d]
    BY <1>3 DEF Types
  <2>8. seq_num'[c] = seq_num[c] + n
    BY <1>3 DEF Types
  <2>9. UNCHANGED <<netreq_buf, req_q, answered, sock, process>>
    BY DEF load_kvpairs, serverVars
  <2> QED
    BY <1>1, <1>6, <2>2, <2>3, <2>4, <2>5, <2>6, <2>7, <2>8, <2>9
<1> QED
  BY <1>4, <1>5, <1>6

\* The buffer of the master takes a whole connection: a client has at most
\* CLIENT_QDEPTH requests in it.
LEMMA ReadEffect ==
    ASSUME Types, LoopInv, BoundInv, read_requests, NEW c, c = Head(events)
    PROVE  /\ c \in Clients /\ c # LISTEN /\ events # << >> /\ c = events[1]
           /\ netreq_buf = << >>
           /\ Len(inbox'[c]) = 0 /\ inbox'[c] = << >>
           /\ \A d \in Clients \ {c} : inbox'[d] = inbox[d]
           /\ Len(netreq_buf') = Len(inbox[c])
           /\ \A i \in 1..Len(inbox[c]) :
                /\ netreq_buf'[i] = [client |-> c, seq |-> inbox[c][i]]
                /\ netreq_buf'[i].client = c /\ netreq_buf'[i].seq = inbox[c][i]
           /\ UNCHANGED <<seq_num, req_q, answered, sock, process, events, ready, accepted>>
<1> DEFINE n == IF Len(inbox[c]) < MAX_NETREQ_BUF THEN Len(inbox[c]) ELSE MAX_NETREQ_BUF
<1>1. events # << >> /\ netreq_buf = << >>
  BY DEF read_requests, LoopInv
<1>2. c \in Clients /\ c # LISTEN /\ c = events[1]
  BY <1>1, TailFacts DEF read_requests, Types, Fds
<1>3. inbox[c] \in Seq(SeqNums) /\ Len(inbox[c]) \in Nat /\ Len(inbox[c]) <= CLIENT_QDEPTH
  BY <1>2 DEF Types, BoundInv
<1>4. n = Len(inbox[c])
  BY <1>3, ServerAssumption
<1>5. /\ netreq_buf' = [i \in 1..n |-> [client |-> c, seq |-> inbox[c][i]]]
      /\ inbox' = [inbox EXCEPT ![c] = SubSeq(@, n + 1, Len(@))]
  BY DEF read_requests
<1> HIDE DEF n
<1>6. inbox'[c] = SubSeq(inbox[c], Len(inbox[c]) + 1, Len(inbox[c]))
  BY <1>2, <1>4, <1>5 DEF Types
<1>7. inbox'[c] = << >>
  BY <1>3, <1>6, SubSeqEmpty
<1>8. Len(inbox'[c]) = 0
  BY <1>7
<1>9. \A d \in Clients \ {c} : inbox'[d] = inbox[d]
  BY <1>2, <1>5 DEF Types
<1>10. /\ Len(netreq_buf') = Len(inbox[c])
       /\ \A i \in 1..Len(inbox[c]) : netreq_buf'[i] = [client |-> c, seq |-> inbox[c][i]]
  BY <1>2, <1>3, <1>4, <1>5, ReadFacts
<1>11. ASSUME NEW i \in 1..Len(inbox[c])
       PROVE  netreq_buf'[i].client = c /\ netreq_buf'[i].seq = inbox[c][i]
  <2>1. netreq_buf'[i] = [client |-> c, seq |-> inbox[c][i]]
    BY <1>10
  <2> QED
    BY <2>1
<1> QED
  BY <1>1, <1>2, <1>7, <1>8, <1>9, <1>10, <1>11 DEF read_requests, clientVars

\* forward_req_to_hlr moves the first request of the buffer to the end of the
\* queue of its handler.
LEMMA ForwardEffect ==
    ASSUME Types, LoopInv, forward_req_to_hlr, NEW t, t = Target,
           NEW k, k = Len(req_q[t])
    PROVE  /\ t \in Handlers /\ k \in Nat /\ k < QDEPTH
           /\ netreq_buf[1] \in Requests /\ 1 \in 1..Len(netreq_buf)
           /\ t = Route[netreq_buf[1].client][netreq_buf[1].seq]
           /\ Len(req_q'[t]) = k + 1
           /\ \A i \in 1..k : req_q'[t][i] = req_q[t][i]
           /\ req_q'[t][k + 1] = netreq_buf[1]
           /\ \A i \in 1..Len(req_q'[t]) : i \in 1..k \/ i = k + 1
           /\ \A h \in Handlers \ {t} : req_q'[h] = req_q[h]
           /\ \A i \in 1..Len(netreq_buf') :
                i + 1 \in 1..Len(netreq_buf) /\ i + 1 # 1 /\ netreq_buf'[i] = netreq_buf[i + 1]
           /\ \A i \in 1..Len(netreq_buf) :
                i # 1 => \E j \in 1..Len(netreq_buf') : i = j + 1
           /\ UNCHANGED <<seq_num, inbox, answered, sock, process>>
<1>1. netreq_buf # << >> /\ netreq_buf \in Seq(Requests)
  BY DEF forward_req_to_hlr, LoopInv, Types
<1>2. /\ Len(netreq_buf) \in Nat /\ Len(netreq_buf) >= 1
      /\ Head(netreq_buf) = netreq_buf[1]
      /\ Len(Tail(netreq_buf)) = Len(netreq_buf) - 1
      /\ \A i \in 1..Len(Tail(netreq_buf)) : Tail(netreq_buf)[i] = netreq_buf[i + 1]
  BY <1>1, TailFacts
<1>3. /\ netreq_buf[1] \in Requests
      /\ netreq_buf[1].client \in Clients /\ netreq_buf[1].seq \in SeqNums
  BY <1>1, <1>2, HeadRequest
<1>4. t = Route[netreq_buf[1].client][netreq_buf[1].seq]
  BY <1>2 DEF Target
<1>5. t \in Handlers
  BY <1>3, <1>4, ServerAssumption DEF Handlers, SeqNums
<1>6. req_q[t] \in Seq(Requests) /\ k \in Nat
  BY <1>5 DEF Types
<1>7. /\ k < QDEPTH
      /\ req_q' = [req_q EXCEPT ![t] = Append(@, netreq_buf[1])]
      /\ netreq_buf' = Tail(netreq_buf)
  BY <1>2 DEF forward_req_to_hlr
<1>8. req_q'[t] = Append(req_q[t], netreq_buf[1]) /\ \A h \in Handlers \ {t} : req_q'[h] = req_q[h]
  BY <1>5, <1>7 DEF Types
<1>9. /\ Len(req_q'[t]) = k + 1
      /\ \A i \in 1..k : req_q'[t][i] = req_q[t][i]
      /\ req_q'[t][k + 1] = netreq_buf[1]
  BY <1>3, <1>6, <1>8, AppendProperties
<1>10. \A i \in 1..Len(req_q'[t]) : i \in 1..k \/ i = k + 1
  BY <1>6, <1>9
<1>11. \A i \in 1..Len(netreq_buf') :
         i + 1 \in 1..Len(netreq_buf) /\ i + 1 # 1 /\ netreq_buf'[i] = netreq_buf[i + 1]
  BY <1>2, <1>7
<1>12. ASSUME NEW i \in 1..Len(netreq_buf), i # 1
       PROVE  \E j \in 1..Len(netreq_buf') : i = j + 1
  <2>1. i - 1 \in 1..Len(netreq_buf') /\ i = (i - 1) + 1
    BY <1>2, <1>7, <1>12
  <2> QED
    BY <2>1
<1>13. UNCHANGED <<seq_num, inbox, answered, sock, process>>
  BY DEF forward_req_to_hlr, clientVars, netVars
<1>14. k < QDEPTH /\ 1 \in 1..Len(netreq_buf)
  BY <1>2, <1>7
<1> QED
  BY <1>3, <1>4, <1>5, <1>6, <1>8, <1>9, <1>10, <1>11, <1>12, <1>13, <1>14

\* A handler answers the first request of its queue.
LEMMA AnswerEffect ==
    ASSUME Types, NEW h \in Handlers, answer(h)
    PROVE  /\ 1 \in 1..Len(req_q[h]) /\ req_q[h][1] \in Requests
           /\ req_q[h][1].client \in Clients /\ req_q[h][1].seq \in SeqNums
           /\ Len(req_q'[h]) = Len(req_q[h]) - 1 /\ Len(req_q[h]) \in Nat
           /\ \A i \in 1..Len(req_q'[h]) :
                i + 1 \in 1..Len(req_q[h]) /\ i + 1 # 1 /\ req_q'[h][i] = req_q[h][i + 1]
           /\ \A i \in 1..Len(req_q[h]) :
                i # 1 => \E j \in 1..Len(req_q'[h]) : i = j + 1
           /\ \A g \in Handlers \ {h} : req_q'[g] = req_q[g]
           /\ answered'[req_q[h][1].client] = answered[req_q[h][1].client] \cup {req_q[h][1].seq}
           /\ \A d \in Clients \ {req_q[h][1].client} : answered'[d] = answered[d]
           /\ process = "up"
           /\ UNCHANGED <<seq_num, sem, inbox, netreq_buf, sock, process>>
<1> DEFINE c == req_q[h][1].client
           n == req_q[h][1].seq
<1>1. req_q[h] # << >> /\ req_q[h] \in Seq(Requests)
  BY DEF answer, Types
<1>2. /\ Len(req_q[h]) \in Nat /\ Len(req_q[h]) >= 1
      /\ Head(req_q[h]) = req_q[h][1]
      /\ Len(Tail(req_q[h])) = Len(req_q[h]) - 1
      /\ \A i \in 1..Len(Tail(req_q[h])) : Tail(req_q[h])[i] = req_q[h][i + 1]
  BY <1>1, TailFacts
<1>3. req_q[h][1] \in Requests /\ c \in Clients /\ n \in SeqNums
  BY <1>1, <1>2, HeadRequest
<1>4. /\ req_q' = [req_q EXCEPT ![h] = Tail(@)]
      /\ answered' = [answered EXCEPT ![c] = @ \cup {n}]
  BY <1>2 DEF answer
<1> HIDE DEF c, n
<1>5. req_q'[h] = Tail(req_q[h]) /\ \A g \in Handlers \ {h} : req_q'[g] = req_q[g]
  BY <1>4 DEF Types
<1>6. answered'[c] = answered[c] \cup {n} /\ \A d \in Clients \ {c} : answered'[d] = answered[d]
  BY <1>3, <1>4 DEF Types
<1>7. \A i \in 1..Len(req_q'[h]) :
        i + 1 \in 1..Len(req_q[h]) /\ i + 1 # 1 /\ req_q'[h][i] = req_q[h][i + 1]
  BY <1>2, <1>5
<1>8. ASSUME NEW i \in 1..Len(req_q[h]), i # 1
      PROVE  \E j \in 1..Len(req_q'[h]) : i = j + 1
  <2>1. i - 1 \in 1..Len(req_q'[h]) /\ i = (i - 1) + 1
    BY <1>2, <1>5, <1>8
  <2> QED
    BY <2>1
<1>9. process = "up" /\ UNCHANGED <<seq_num, sem, inbox, netreq_buf, sock, process>>
  BY DEF answer, clientVars
<1> QED
  BY <1>2, <1>3, <1>5, <1>6, <1>7, <1>8, <1>9 DEF c, n


\* The variables that hold requests.
places == <<seq_num, inbox, netreq_buf, req_q, answered>>

\* A step moves requests in one of four ways, loses those in the server, or
\* leaves them where they are.
LEMMA StepKinds ==
    ASSUME [Next]_vars
    PROVE  \/ \E c \in Clients : load_kvpairs(c)
           \/ read_requests
           \/ forward_req_to_hlr
           \/ \E h \in Handlers : answer(h)
           \/ Death
           \/ UNCHANGED places
<1>1. ASSUME NEW c \in Clients,
             \/ open_socket(c) \/ connect(c) \/ connect_fails(c) \/ load_killed(c)
             \/ wait_until_finish(c) \/ bench_free(c) \/ client_exit(c) \/ ack_check(c)
             \/ ack_read(c) \/ ack_disconnected(c) \/ stdin_eof(c)
      PROVE  UNCHANGED places
  BY <1>1
     DEF places, open_socket, connect, connect_fails, load_killed, wait_until_finish,
       bench_free, client_exit, ack_check, ack_read, ack_disconnected, stdin_eof,
       netVars, serverVars
<1>2. CASE \/ socket_init \/ create_master_thread \/ handler_init \/ join_master
           \/ epoll_wait \/ accept_new_client \/ read_nothing \/ UNCHANGED vars
  BY <1>2 DEF places, socket_init, create_master_thread, handler_init, join_master,
       epoll_wait, accept_new_client, read_nothing, vars, clientVars, netVars, serverVars
<1> QED
  BY <1>1, <1>2, Deaths
     DEF Next, client_main, ack_poller, server_main, master_thread

\* When the process ends, nothing is left of the requests in it.
LEMMA DeathEffect ==
    ASSUME Death
    PROVE  /\ process' # "up"
           /\ \A c \in Clients : Len(inbox'[c]) = 0 /\ inbox'[c] = << >>
           /\ Len(netreq_buf') = 0
           /\ \A h \in Handlers : Len(req_q'[h]) = 0
           /\ UNCHANGED <<seq_num, sem, acks, sock, hangup, answered>>
<1>1. /\ inbox' = [c \in Clients |-> << >>] /\ netreq_buf' = << >>
      /\ req_q' = [h \in Handlers |-> << >>] /\ process' # "up"
      /\ UNCHANGED <<seq_num, sem, acks, sock, hangup, answered>>
  BY DEF Death, Dies, clientVars
<1>2. Len(<< >>) = 0
  BY EmptySeq
<1> QED
  BY <1>1, <1>2

\* The requests a variable holds are requests.
LEMMA Members ==
    ASSUME Types
    PROVE  /\ \A c \in Clients : Len(inbox[c]) \in Nat
           /\ \A c \in Clients : \A i \in 1..Len(inbox[c]) : inbox[c][i] \in SeqNums
           /\ \A i \in 1..Len(netreq_buf) :
                /\ netreq_buf[i] \in Requests
                /\ netreq_buf[i].client \in Clients /\ netreq_buf[i].seq \in SeqNums
           /\ \A h \in Handlers : \A i \in 1..Len(req_q[h]) :
                /\ req_q[h][i] \in Requests
                /\ req_q[h][i].client \in Clients /\ req_q[h][i].seq \in SeqNums
           /\ \A c \in Clients : answered[c] \subseteq SeqNums /\ seq_num[c] \in Nat
<1>1. \A c \in Clients : Len(inbox[c]) \in Nat
  BY DEF Types
<1>2. \A c \in Clients : \A i \in 1..Len(inbox[c]) : inbox[c][i] \in SeqNums
  BY ElementOfSeq DEF Types
<1>3. \A i \in 1..Len(netreq_buf) : netreq_buf[i] \in Requests
  BY ElementOfSeq DEF Types
<1>4. \A h \in Handlers : \A i \in 1..Len(req_q[h]) : req_q[h][i] \in Requests
  BY ElementOfSeq DEF Types
<1>5. \A r \in Requests : r.client \in Clients /\ r.seq \in SeqNums
  BY DEF Requests
<1>6. \A c \in Clients : answered[c] \subseteq SeqNums /\ seq_num[c] \in Nat
  BY DEF Types
<1> QED
  BY <1>1, <1>2, <1>3, <1>4, <1>5, <1>6

\* Two requests with the same client and the same number are the same.
LEMMA SameRequest ==
    ASSUME NEW r \in Requests, NEW s \in Requests, r.client = s.client, r.seq = s.seq
    PROVE  r = s
BY DEF Requests

\* Initially there is no request.
LEMMA PlacesInit == Init => SentInv /\ OnceInv /\ CoverInv /\ BoundInv
<1> SUFFICES ASSUME Init
             PROVE  SentInv /\ OnceInv /\ CoverInv /\ BoundInv
  OBVIOUS
<1>1. /\ \A c \in Clients : Len(inbox[c]) = 0 /\ seq_num[c] = 0 /\ answered[c] = {} /\ sock[c] = "0"
      /\ Len(netreq_buf) = 0
      /\ \A h \in Handlers : Len(req_q[h]) = 0
  BY DEF Init
<1>2. SentInv
  BY <1>1 DEF SentInv
<1>3. OnceInv
  BY <1>1
     DEF OnceInv, InboxOnce, BufferOnce, QueueOnce, InboxNew, BufferNew, QueueNew,
         BufferOrInbox, QueueOrInbox, QueueOrBuffer
<1>4. CoverInv
  BY <1>1 DEF CoverInv
<1>5. BoundInv
  BY <1>1, ServerAssumption DEF BoundInv
<1> QED
  BY <1>2, <1>3, <1>4, <1>5

\* Every step keeps requests of numbers that were sent, in the queues they are
\* routed to.
LEMMA SentStep ==
    ASSUME Types, LoopInv, BoundInv, SentInv, [Next]_vars
    PROVE  SentInv'
<1>1. ASSUME NEW c \in Clients, load_kvpairs(c)
      PROVE  SentInv'
  <2>1. PICK n : n = Len(Batch(c))
    OBVIOUS
  <2>2. n \in Nat /\ seq_num'[c] = seq_num[c] + n
    BY <1>1, <2>1, LoadEffect
  <2>3. \A d \in Clients \ {c} : seq_num'[d] = seq_num[d] /\ inbox'[d] = inbox[d]
    BY <1>1, <2>1, LoadEffect
  <2>4. \A d \in Clients : \A k \in Nat : k <= seq_num[d] => k <= seq_num'[d]
    BY <2>2, <2>3, Members
  <2>5. UNCHANGED <<netreq_buf, req_q, answered>>
    BY <1>1, <2>1, LoadEffect
  <2>6. \A k \in SeqNums : k \in Nat
    BY DEF SeqNums
  <2>7. \A i \in 1..Len(inbox'[c]) : inbox'[c][i] <= seq_num'[c]
    <3>1. CASE inbox' = inbox
      BY <2>4, <2>6, <3>1, Members DEF SentInv
    <3>2. CASE inbox' # inbox
      <4>1. \A i \in 1..Len(inbox[c]) : inbox'[c][i] = inbox[c][i]
        BY <1>1, <2>1, <3>2, LoadEffect
      <4>2. \A i \in 1..n : inbox'[c][Len(inbox[c]) + i] = seq_num[c] + i
        BY <1>1, <2>1, <3>2, LoadEffect
      <4>3. \A i \in 1..Len(inbox'[c]) :
              i \in 1..Len(inbox[c]) \/ \E j \in 1..n : i = Len(inbox[c]) + j
        BY <1>1, <2>1, <3>2, LoadEffect
      <4>4. \A j \in 1..n : seq_num[c] + j <= seq_num'[c]
        BY <2>2, Members
      <4>5. \A i \in 1..Len(inbox[c]) : inbox'[c][i] <= seq_num'[c]
        BY <4>1, <2>4, <2>6, Members DEF SentInv
      <4> QED
        BY <4>2, <4>3, <4>4, <4>5
    <3> QED
      BY <3>1, <3>2
  <2>8. \A d \in Clients : \A i \in 1..Len(inbox'[d]) : inbox'[d][i] <= seq_num'[d]
    BY <2>3, <2>7 DEF SentInv
  <2>9. \A i \in 1..Len(netreq_buf) : netreq_buf[i].seq <= seq_num'[netreq_buf[i].client]
    BY <2>4, <2>6, Members DEF SentInv
  <2>10. \A h \in Handlers : \A i \in 1..Len(req_q[h]) :
           req_q[h][i].seq <= seq_num'[req_q[h][i].client]
    BY <2>4, <2>6, Members DEF SentInv
  <2>11. \A d \in Clients : \A k \in answered[d] : k <= seq_num'[d]
    BY <2>4, <2>6, Members DEF SentInv
  <2> QED
    BY <2>5, <2>8, <2>9, <2>10, <2>11 DEF SentInv
<1>2. CASE read_requests
  <2>1. PICK c : c = Head(events)
    OBVIOUS
  <2>2. \A d \in Clients : \A i \in 1..Len(inbox'[d]) : inbox'[d][i] <= seq_num'[d]
    BY <1>2, <2>1, ReadEffect DEF SentInv
  <2>3. /\ c \in Clients /\ Len(netreq_buf') = Len(inbox[c])
        /\ \A i \in 1..Len(inbox[c]) : netreq_buf'[i] = [client |-> c, seq |-> inbox[c][i]]
    BY <1>2, <2>1, ReadEffect
  <2>4. \A i \in 1..Len(netreq_buf') : netreq_buf'[i].seq <= seq_num[netreq_buf'[i].client]
    <3>1. \A i \in 1..Len(inbox[c]) : inbox[c][i] <= seq_num[c]
      BY <2>3 DEF SentInv
    <3>2. \A i \in 1..Len(inbox[c]) :
            netreq_buf'[i].seq = inbox[c][i] /\ netreq_buf'[i].client = c
      BY <1>2, <2>1, ReadEffect
    <3> QED
      BY <2>3, <3>1, <3>2
  <2>5. UNCHANGED <<seq_num, req_q, answered>>
    BY <1>2, <2>1, ReadEffect
  <2> QED
    BY <2>2, <2>4, <2>5 DEF SentInv
<1>3. CASE forward_req_to_hlr
  <2>1. PICK t, k : t = Target /\ k = Len(req_q[t])
    OBVIOUS
  <2>2. /\ t \in Handlers /\ 1 \in 1..Len(netreq_buf)
        /\ t = Route[netreq_buf[1].client][netreq_buf[1].seq]
        /\ \A i \in 1..k : req_q'[t][i] = req_q[t][i]
        /\ req_q'[t][k + 1] = netreq_buf[1]
        /\ \A i \in 1..Len(req_q'[t]) : i \in 1..k \/ i = k + 1
        /\ \A h \in Handlers \ {t} : req_q'[h] = req_q[h]
    BY <1>3, <2>1, ForwardEffect
  <2>3. \A i \in 1..Len(netreq_buf') :
                i + 1 \in 1..Len(netreq_buf) /\ netreq_buf'[i] = netreq_buf[i + 1]
    BY <1>3, <2>1, ForwardEffect
  <2>4. UNCHANGED <<seq_num, inbox, answered>>
    BY <1>3, <2>1, ForwardEffect
  <2>5. \A i \in 1..Len(req_q'[t]) :
         /\ req_q'[t][i].seq <= seq_num[req_q'[t][i].client]
         /\ Route[req_q'[t][i].client][req_q'[t][i].seq] = t
    BY <2>1, <2>2 DEF SentInv
  <2>6. \A i \in 1..Len(netreq_buf') : netreq_buf'[i].seq <= seq_num[netreq_buf'[i].client]
    BY <2>3 DEF SentInv
  <2>7. \A h \in Handlers : \A i \in 1..Len(req_q'[h]) :
         /\ req_q'[h][i].seq <= seq_num[req_q'[h][i].client]
         /\ Route[req_q'[h][i].client][req_q'[h][i].seq] = h
    <3> TAKE h \in Handlers
    <3>1. CASE h = t
      BY <2>5, <3>1
    <3>2. CASE h # t
      <4>1. req_q'[h] = req_q[h]
        BY <2>2, <3>2
      <4> QED
        BY <4>1 DEF SentInv
    <3> QED
      BY <3>1, <3>2
  <2> QED
    BY <2>4, <2>6, <2>7 DEF SentInv
<1>4. ASSUME NEW h \in Handlers, answer(h)
      PROVE  SentInv'
  <2> DEFINE c == req_q[h][1].client
             n == req_q[h][1].seq
  <2>1. /\ 1 \in 1..Len(req_q[h]) /\ c \in Clients
        /\ \A i \in 1..Len(req_q'[h]) :
                i + 1 \in 1..Len(req_q[h]) /\ req_q'[h][i] = req_q[h][i + 1]
        /\ \A g \in Handlers \ {h} : req_q'[g] = req_q[g]
    BY <1>4, AnswerEffect
  <2>2. /\ answered'[c] = answered[c] \cup {n}
        /\ \A d \in Clients \ {c} : answered'[d] = answered[d]
    BY <1>4, AnswerEffect
  <2>3. UNCHANGED <<seq_num, inbox, netreq_buf>>
    BY <1>4, AnswerEffect
  <2>4. n <= seq_num[c]
    BY <2>1 DEF SentInv
  <2> HIDE DEF c, n
  <2>5. \A d \in Clients : \A k \in answered'[d] : k <= seq_num[d]
    BY <2>2, <2>4 DEF SentInv
  <2>6. \A g \in Handlers : \A i \in 1..Len(req_q'[g]) :
         /\ req_q'[g][i].seq <= seq_num[req_q'[g][i].client]
         /\ Route[req_q'[g][i].client][req_q'[g][i].seq] = g
    BY <2>1 DEF SentInv
  <2> QED
    BY <2>3, <2>5, <2>6 DEF SentInv
<1>5. CASE Death
  BY <1>5, DeathEffect DEF SentInv
<1>6. CASE UNCHANGED places
  BY <1>6 DEF SentInv, places
<1> QED
  BY <1>1, <1>2, <1>3, <1>4, <1>5, <1>6, StepKinds


\* A request has one handler: the one it is routed to.
LEMMA OneQueue ==
    ASSUME SentInv, NEW g \in Handlers, NEW h \in Handlers,
           NEW i \in 1..Len(req_q[g]), NEW j \in 1..Len(req_q[h]), req_q[g][i] = req_q[h][j]
    PROVE  g = h
<1>1. Route[req_q[g][i].client][req_q[g][i].seq] = g
  BY DEF SentInv
<1>2. Route[req_q[h][j].client][req_q[h][j].seq] = h
  BY DEF SentInv
<1> QED
  BY <1>1, <1>2

\* The numbers load_kvpairs adds are new: each is above all that were sent.
LEMMA LoadOnce ==
    ASSUME Types, SentInv, OnceInv, NEW c \in Clients, load_kvpairs(c)
    PROVE  OnceInv'
<1>1. UNCHANGED <<netreq_buf, req_q, answered>>
  BY LoadEffect
<1>2. CASE inbox' = inbox
  BY <1>1, <1>2 DEF OnceInv, InboxOnce, BufferOnce, QueueOnce, InboxNew, BufferNew,
         QueueNew, BufferOrInbox, QueueOrInbox, QueueOrBuffer
<1>3. CASE inbox' # inbox
  <2>1. PICK n : n = Len(Batch(c))
    OBVIOUS
  <2>2. /\ n \in Nat /\ seq_num[c] \in Nat /\ Len(inbox[c]) \in Nat
        /\ \A i \in 1..Len(inbox[c]) : inbox[c][i] \in Nat
    BY <2>1, LoadEffect, Members DEF SeqNums
  <2>3. /\ \A d \in Clients \ {c} : inbox'[d] = inbox[d]
        /\ \A i \in 1..Len(inbox[c]) : inbox'[c][i] = inbox[c][i]
        /\ \A i \in 1..n : inbox'[c][Len(inbox[c]) + i] = seq_num[c] + i
        /\ \A i \in 1..Len(inbox'[c]) :
             i \in 1..Len(inbox[c]) \/ \E j \in 1..n : i = Len(inbox[c]) + j
    BY <1>3, <2>1, LoadEffect
  <2>4. \A i \in 1..Len(inbox[c]) : inbox[c][i] <= seq_num[c]
    BY DEF SentInv
  <2>5. \A i \in 1..Len(inbox'[c]) :
          \/ i \in 1..Len(inbox[c]) /\ inbox'[c][i] = inbox[c][i]
          \/ \E j \in 1..n : i = Len(inbox[c]) + j /\ inbox'[c][i] = seq_num[c] + j
    BY <2>3
  <2>6. InboxOnce'
    <3>1. ASSUME NEW i \in 1..Len(inbox'[c]), NEW j \in 1..Len(inbox'[c]),
                 inbox'[c][i] = inbox'[c][j]
          PROVE  i = j
      <4>1. CASE i \in 1..Len(inbox[c]) /\ inbox'[c][i] = inbox[c][i]
        <5>1. CASE j \in 1..Len(inbox[c]) /\ inbox'[c][j] = inbox[c][j]
          BY <3>1, <4>1, <5>1 DEF OnceInv, InboxOnce
        <5>2. ASSUME NEW k \in 1..n, inbox'[c][j] = seq_num[c] + k
              PROVE  FALSE
          <6>1. inbox[c][i] \in Nat /\ inbox[c][i] <= seq_num[c] /\ inbox[c][i] = seq_num[c] + k
            BY <2>2, <2>4, <3>1, <4>1, <5>2
          <6> QED
            BY <2>2, <6>1
        <5> QED
          BY <2>5, <5>1, <5>2
      <4>2. ASSUME NEW l \in 1..n, i = Len(inbox[c]) + l, inbox'[c][i] = seq_num[c] + l
            PROVE  i = j
        <5>1. CASE j \in 1..Len(inbox[c]) /\ inbox'[c][j] = inbox[c][j]
          <6>1. inbox[c][j] \in Nat /\ inbox[c][j] <= seq_num[c] /\ inbox[c][j] = seq_num[c] + l
            BY <2>2, <2>4, <3>1, <4>2, <5>1
          <6> QED
            BY <2>2, <6>1
        <5>2. ASSUME NEW k \in 1..n, j = Len(inbox[c]) + k,
                     inbox'[c][j] = seq_num[c] + k
              PROVE  i = j
          <6>1. seq_num[c] + k = seq_num[c] + l
            BY <3>1, <4>2, <5>2
          <6> QED
            BY <2>2, <4>2, <5>2, <6>1
        <5> QED
          BY <2>5, <5>1, <5>2
      <4> QED
        BY <2>5, <4>1, <4>2
    <3> QED
      BY <2>3, <3>1 DEF OnceInv, InboxOnce
  <2>7. \A i \in 1..Len(inbox'[c]) :
          \/ \E k \in 1..Len(inbox[c]) : inbox'[c][i] = inbox[c][k]
          \/ ~(inbox'[c][i] <= seq_num[c])
    <3>1. \A j \in 1..n : ~(seq_num[c] + j <= seq_num[c])
      BY <2>2
    <3> QED
      BY <2>5, <3>1
  <2>8. InboxNew'
    <3>1. \A k \in answered[c] : k <= seq_num[c]
      BY DEF SentInv
    <3>2. \A i \in 1..Len(inbox'[c]) : inbox'[c][i] \notin answered[c]
      BY <2>7, <3>1 DEF OnceInv, InboxNew
    <3> QED
      BY <1>1, <2>3, <3>2 DEF OnceInv, InboxNew
  <2>9. BufferOrInbox'
    <3>1. ASSUME NEW i \in 1..Len(netreq_buf),
                 NEW j \in 1..Len(inbox'[netreq_buf[i].client])
          PROVE  inbox'[netreq_buf[i].client][j] # netreq_buf[i].seq
      <4>1. netreq_buf[i].client \in Clients /\ netreq_buf[i].seq <= seq_num[netreq_buf[i].client]
        BY Members DEF SentInv
      <4>2. CASE netreq_buf[i].client # c
        BY <2>3, <4>1, <4>2 DEF OnceInv, BufferOrInbox
      <4>3. CASE netreq_buf[i].client = c
        BY <2>7, <4>1, <4>3 DEF OnceInv, BufferOrInbox
      <4> QED
        BY <4>2, <4>3
    <3> QED
      BY <1>1, <3>1 DEF BufferOrInbox
  <2>10. QueueOrInbox'
    <3>1. ASSUME NEW h \in Handlers, NEW i \in 1..Len(req_q[h]),
                 NEW j \in 1..Len(inbox'[req_q[h][i].client])
          PROVE  inbox'[req_q[h][i].client][j] # req_q[h][i].seq
      <4>1. req_q[h][i].client \in Clients /\ req_q[h][i].seq <= seq_num[req_q[h][i].client]
        BY Members DEF SentInv
      <4>2. CASE req_q[h][i].client # c
        <5>1. inbox'[req_q[h][i].client] = inbox[req_q[h][i].client]
          BY <2>3, <4>1, <4>2
        <5> QED
          BY <5>1 DEF OnceInv, QueueOrInbox
      <4>3. CASE req_q[h][i].client = c
        BY <2>7, <4>1, <4>3 DEF OnceInv, QueueOrInbox
      <4> QED
        BY <4>2, <4>3
    <3> QED
      BY <1>1, <3>1 DEF QueueOrInbox
  <2>11. (BufferOnce /\ QueueOnce /\ BufferNew /\ QueueNew /\ QueueOrBuffer)'
    BY <1>1 DEF OnceInv, InboxOnce, BufferOnce, QueueOnce, InboxNew, BufferNew,
         QueueNew, BufferOrInbox, QueueOrInbox, QueueOrBuffer
  <2> QED
    BY <2>6, <2>8, <2>9, <2>10, <2>11 DEF OnceInv
<1> QED
  BY <1>2, <1>3

\* The read empties the connection into the empty buffer.
LEMMA ReadOnce ==
    ASSUME Types, LoopInv, BoundInv, OnceInv, read_requests
    PROVE  OnceInv'
<1>1. PICK c : c = Head(events)
  OBVIOUS
<1>2. /\ c \in Clients /\ Len(inbox'[c]) = 0
      /\ \A d \in Clients \ {c} : inbox'[d] = inbox[d]
  BY <1>1, ReadEffect
<1>3. /\ Len(netreq_buf') = Len(inbox[c])
      /\ \A i \in 1..Len(inbox[c]) :
           netreq_buf'[i].client = c /\ netreq_buf'[i].seq = inbox[c][i]
  BY <1>1, ReadEffect
<1>4. UNCHANGED <<req_q, answered>>
  BY <1>1, ReadEffect
<1>5. \A d \in Clients : \A i \in 1..Len(inbox'[d]) : d # c /\ inbox'[d] = inbox[d]
  BY <1>2
<1>6. InboxOnce' /\ InboxNew'
  BY <1>4, <1>5 DEF OnceInv, InboxOnce, InboxNew
<1>7. BufferOnce'
  <2>1. ASSUME NEW i \in 1..Len(netreq_buf'), NEW j \in 1..Len(netreq_buf'),
               netreq_buf'[i] = netreq_buf'[j]
        PROVE  i = j
    <3>1. inbox[c][i] = inbox[c][j]
      BY <1>3, <2>1
    <3> QED
      BY <1>2, <1>3, <3>1 DEF OnceInv, InboxOnce
  <2> QED
    BY <2>1 DEF BufferOnce
<1>8. BufferNew'
  BY <1>2, <1>3, <1>4 DEF OnceInv, InboxNew, BufferNew
<1>9. BufferOrInbox'
  BY <1>2, <1>3 DEF BufferOrInbox
<1>10. QueueOrInbox'
  <2>1. ASSUME NEW h \in Handlers, NEW i \in 1..Len(req_q[h]),
               NEW j \in 1..Len(inbox'[req_q[h][i].client])
        PROVE  inbox'[req_q[h][i].client][j] # req_q[h][i].seq
    <3>1. req_q[h][i].client \in Clients
      BY Members
    <3>2. inbox'[req_q[h][i].client] = inbox[req_q[h][i].client]
      BY <1>5, <3>1
    <3> QED
      BY <3>2 DEF OnceInv, QueueOrInbox
  <2> QED
    BY <1>4, <2>1 DEF QueueOrInbox
<1>11. QueueOrBuffer'
  <2>1. ASSUME NEW h \in Handlers, NEW i \in 1..Len(req_q[h]),
               NEW j \in 1..Len(netreq_buf'),
               netreq_buf'[j] = req_q[h][i]
        PROVE  FALSE
    <3>1. j \in 1..Len(inbox[c]) /\ req_q[h][i].client = c /\ req_q[h][i].seq = inbox[c][j]
      BY <1>3, <2>1
    <3> QED
      BY <3>1 DEF OnceInv, QueueOrInbox
  <2> QED
    BY <1>4, <2>1 DEF QueueOrBuffer
<1>12. QueueOnce' /\ QueueNew'
  BY <1>4 DEF OnceInv, QueueOnce, QueueNew
<1> QED
  BY <1>6, <1>7, <1>8, <1>9, <1>10, <1>11, <1>12 DEF OnceInv

\* A request leaves the buffer as it joins the queue of its handler.
LEMMA ForwardOnce ==
    ASSUME Types, LoopInv, SentInv, OnceInv, forward_req_to_hlr
    PROVE  OnceInv'
<1>1. PICK t, k : t = Target /\ k = Len(req_q[t])
  OBVIOUS
<1>2. /\ t \in Handlers /\ k \in Nat /\ 1 \in 1..Len(netreq_buf)
      /\ \A i \in 1..k : req_q'[t][i] = req_q[t][i]
      /\ req_q'[t][k + 1] = netreq_buf[1]
      /\ \A i \in 1..Len(req_q'[t]) : i \in 1..k \/ i = k + 1
      /\ \A h \in Handlers \ {t} : req_q'[h] = req_q[h]
  BY <1>1, ForwardEffect
<1>3. \A i \in 1..Len(netreq_buf') :
        i + 1 \in 1..Len(netreq_buf) /\ i + 1 # 1 /\ netreq_buf'[i] = netreq_buf[i + 1]
  BY <1>1, ForwardEffect
<1>4. UNCHANGED <<inbox, answered>>
  BY <1>1, ForwardEffect
<1>5. \A h \in Handlers : \A i \in 1..Len(req_q'[h]) :
        \/ i \in 1..Len(req_q[h]) /\ req_q'[h][i] = req_q[h][i]
        \/ h = t /\ i = k + 1 /\ req_q'[h][i] = netreq_buf[1]
  <2> TAKE h \in Handlers
  <2>1. CASE h = t
    BY <1>1, <1>2, <2>1
  <2>2. CASE h # t
    <3>1. req_q'[h] = req_q[h]
      BY <1>2, <2>2
    <3> QED
      BY <3>1
  <2> QED
    BY <2>1, <2>2
<1>6. InboxOnce' /\ InboxNew'
  BY <1>4 DEF OnceInv, InboxOnce, InboxNew
<1>7. BufferOnce'
  <2>1. ASSUME NEW i \in 1..Len(netreq_buf'), NEW j \in 1..Len(netreq_buf'),
               netreq_buf'[i] = netreq_buf'[j]
        PROVE  i = j
    <3>1. i + 1 = j + 1
      BY <1>3, <2>1 DEF OnceInv, BufferOnce
    <3> QED
      BY <3>1
  <2> QED
    BY <2>1 DEF BufferOnce
<1>8. BufferNew' /\ BufferOrInbox'
  BY <1>3, <1>4 DEF OnceInv, BufferNew, BufferOrInbox
<1>9. QueueOnce'
  <2>1. ASSUME NEW h \in Handlers, NEW i \in 1..Len(req_q'[h]),
               NEW j \in 1..Len(req_q'[h]),
               req_q'[h][i] = req_q'[h][j]
        PROVE  i = j
    <3>1. \A l \in 1..Len(req_q[h]) : req_q[h][l] # netreq_buf[1]
      BY <1>2 DEF OnceInv, QueueOrBuffer
    <3>2. CASE i \in 1..Len(req_q[h]) /\ req_q'[h][i] = req_q[h][i]
      BY <1>5, <2>1, <3>1, <3>2 DEF OnceInv, QueueOnce
    <3>3. CASE i = k + 1 /\ req_q'[h][i] = netreq_buf[1]
      BY <1>5, <2>1, <3>1, <3>3
    <3> QED
      BY <1>5, <3>2, <3>3
  <2> QED
    BY <2>1 DEF QueueOnce
<1>10. QueueNew'
  BY <1>2, <1>4, <1>5 DEF OnceInv, QueueNew, BufferNew
<1>11. QueueOrInbox'
  <2>1. ASSUME NEW h \in Handlers, NEW i \in 1..Len(req_q'[h]),
               NEW j \in 1..Len(inbox[req_q'[h][i].client])
        PROVE  inbox[req_q'[h][i].client][j] # req_q'[h][i].seq
    <3>1. CASE i \in 1..Len(req_q[h]) /\ req_q'[h][i] = req_q[h][i]
      BY <3>1 DEF OnceInv, QueueOrInbox
    <3>2. CASE req_q'[h][i] = netreq_buf[1]
      BY <1>2, <3>2 DEF OnceInv, BufferOrInbox
    <3> QED
      BY <1>5, <3>1, <3>2
  <2> QED
    BY <1>4, <2>1 DEF QueueOrInbox
<1>12. QueueOrBuffer'
  <2>1. ASSUME NEW h \in Handlers, NEW i \in 1..Len(req_q'[h]),
               NEW j \in 1..Len(netreq_buf')
        PROVE  netreq_buf'[j] # req_q'[h][i]
    <3>1. netreq_buf'[j] = netreq_buf[j + 1] /\ j + 1 \in 1..Len(netreq_buf) /\ j + 1 # 1
      BY <1>3
    <3>2. netreq_buf[j + 1] # netreq_buf[1]
      BY <1>2, <3>1 DEF OnceInv, BufferOnce
    <3> QED
      BY <1>5, <3>1, <3>2 DEF OnceInv, QueueOrBuffer
  <2> QED
    BY <2>1 DEF QueueOrBuffer
<1> QED
  BY <1>6, <1>7, <1>8, <1>9, <1>10, <1>11, <1>12 DEF OnceInv

\* A request leaves its queue as it is answered.
LEMMA AnswerOnce ==
    ASSUME Types, SentInv, OnceInv, NEW h \in Handlers, answer(h)
    PROVE  OnceInv'
<1> DEFINE c == req_q[h][1].client
           n == req_q[h][1].seq
<1>1. /\ 1 \in 1..Len(req_q[h]) /\ req_q[h][1] \in Requests
      /\ \A i \in 1..Len(req_q'[h]) :
           i + 1 \in 1..Len(req_q[h]) /\ i + 1 # 1 /\ req_q'[h][i] = req_q[h][i + 1]
      /\ \A g \in Handlers \ {h} : req_q'[g] = req_q[g]
  BY AnswerEffect
<1>2. /\ c \in Clients /\ answered'[c] = answered[c] \cup {n}
      /\ \A d \in Clients \ {c} : answered'[d] = answered[d]
  BY AnswerEffect
<1>3. UNCHANGED <<inbox, netreq_buf>>
  BY AnswerEffect
<1>4. ASSUME NEW r \in Requests, r # req_q[h][1], r.seq \notin answered[r.client]
      PROVE  r.seq \notin answered'[r.client]
  <2>1. r.client \in Clients
    BY DEF Requests
  <2>2. CASE r.client # c
    BY <1>2, <1>4, <2>1, <2>2
  <2>3. CASE r.client = c
    <3>1. r.seq # n
      BY <1>1, <1>4, <2>3, SameRequest
    <3> QED
      BY <1>2, <1>4, <2>3, <3>1
  <2> QED
    BY <2>2, <2>3
<1>5. \A j \in 1..Len(inbox[c]) : inbox[c][j] # n
  BY <1>1 DEF OnceInv, QueueOrInbox
<1> HIDE DEF c, n
<1>6. InboxOnce' /\ BufferOnce' /\ BufferOrInbox'
  BY <1>3 DEF OnceInv, InboxOnce, BufferOnce, BufferOrInbox
<1>7. InboxNew'
  <2>1. ASSUME NEW d \in Clients, NEW i \in 1..Len(inbox[d])
        PROVE  inbox[d][i] \notin answered'[d]
    <3>1. inbox[d][i] \notin answered[d]
      BY DEF OnceInv, InboxNew
    <3>2. CASE d = c
      BY <1>2, <1>5, <3>1, <3>2
    <3>3. CASE d # c
      BY <1>2, <3>1, <3>3
    <3> QED
      BY <3>2, <3>3
  <2> QED
    BY <1>3, <2>1 DEF InboxNew
<1>8. BufferNew'
  <2>1. ASSUME NEW i \in 1..Len(netreq_buf)
        PROVE  netreq_buf[i].seq \notin answered'[netreq_buf[i].client]
    <3>1. netreq_buf[i] \in Requests
      BY Members
    <3>2. netreq_buf[i] # req_q[h][1]
      BY <1>1 DEF OnceInv, QueueOrBuffer
    <3>3. netreq_buf[i].seq \notin answered[netreq_buf[i].client]
      BY DEF OnceInv, BufferNew
    <3> QED
      BY <1>4, <3>1, <3>2, <3>3
  <2> QED
    BY <1>3, <2>1 DEF BufferNew
<1>9. ASSUME NEW g \in Handlers, NEW i \in 1..Len(req_q'[g])
      PROVE  \E j \in 1..Len(req_q[g]) :
               /\ req_q'[g][i] = req_q[g][j] /\ req_q[g][j] # req_q[h][1]
               /\ j = IF g = h THEN i + 1 ELSE i
  <2>1. CASE g = h
    <3>1. i + 1 \in 1..Len(req_q[h]) /\ i + 1 # 1 /\ req_q'[h][i] = req_q[h][i + 1]
      BY <1>1, <2>1
    <3>2. req_q[h][i + 1] # req_q[h][1]
      BY <1>1, <3>1 DEF OnceInv, QueueOnce
    <3> QED
      BY <2>1, <3>1, <3>2
  <2>2. CASE g # h
    <3>1. req_q'[g] = req_q[g]
      BY <1>1, <2>2
    <3>2. req_q[g][i] # req_q[h][1]
      BY <1>1, <2>2, <3>1, OneQueue
    <3> QED
      BY <2>2, <3>1, <3>2
  <2> QED
    BY <2>1, <2>2
<1>10. QueueOnce'
  <2>1. ASSUME NEW g \in Handlers, NEW i \in 1..Len(req_q'[g]),
               NEW j \in 1..Len(req_q'[g]),
               req_q'[g][i] = req_q'[g][j]
        PROVE  i = j
    <3>1. CASE g = h
      <4>1. /\ i + 1 \in 1..Len(req_q[h]) /\ req_q'[h][i] = req_q[h][i + 1]
            /\ j + 1 \in 1..Len(req_q[h]) /\ req_q'[h][j] = req_q[h][j + 1]
        BY <1>1, <3>1
      <4>2. i + 1 = j + 1
        BY <2>1, <3>1, <4>1 DEF OnceInv, QueueOnce
      <4> QED
        BY <4>2
    <3>2. CASE g # h
      <4>1. req_q'[g] = req_q[g]
        BY <1>1, <3>2
      <4> QED
        BY <2>1, <4>1 DEF OnceInv, QueueOnce
    <3> QED
      BY <3>1, <3>2
  <2> QED
    BY <2>1 DEF QueueOnce
<1>11. QueueNew'
  <2>1. ASSUME NEW g \in Handlers, NEW i \in 1..Len(req_q'[g])
        PROVE  req_q'[g][i].seq \notin answered'[req_q'[g][i].client]
    <3>1. PICK j \in 1..Len(req_q[g]) : req_q'[g][i] = req_q[g][j] /\ req_q[g][j] # req_q[h][1]
      BY <1>9
    <3>2. req_q[g][j] \in Requests
      BY Members
    <3>3. req_q[g][j].seq \notin answered[req_q[g][j].client]
      BY DEF OnceInv, QueueNew
    <3> QED
      BY <1>4, <3>1, <3>2, <3>3
  <2> QED
    BY <2>1 DEF QueueNew
<1>12. QueueOrInbox' /\ QueueOrBuffer'
  <2>1. ASSUME NEW g \in Handlers, NEW i \in 1..Len(req_q'[g])
        PROVE  /\ \A j \in 1..Len(inbox[req_q'[g][i].client]) :
                    inbox[req_q'[g][i].client][j] # req_q'[g][i].seq
               /\ \A j \in 1..Len(netreq_buf) : netreq_buf[j] # req_q'[g][i]
    <3>1. PICK j \in 1..Len(req_q[g]) : req_q'[g][i] = req_q[g][j]
      BY <1>9
    <3> QED
      BY <3>1 DEF OnceInv, QueueOrInbox, QueueOrBuffer
  <2> QED
    BY <1>3, <2>1 DEF QueueOrInbox, QueueOrBuffer
<1> QED
  BY <1>6, <1>7, <1>8, <1>10, <1>11, <1>12 DEF OnceInv

\* Every step keeps every request in one place at most.
LEMMA OnceStep ==
    ASSUME Types, LoopInv, BoundInv, SentInv, OnceInv, [Next]_vars
    PROVE  OnceInv'
<1>1. ASSUME Death
      PROVE  OnceInv'
  BY <1>1, DeathEffect
     DEF OnceInv, InboxOnce, BufferOnce, QueueOnce, InboxNew, BufferNew,
         QueueNew, BufferOrInbox, QueueOrInbox, QueueOrBuffer
<1>2. ASSUME UNCHANGED places
      PROVE  OnceInv'
  BY <1>2 DEF places, OnceInv, InboxOnce, BufferOnce, QueueOnce, InboxNew, BufferNew,
         QueueNew, BufferOrInbox, QueueOrInbox, QueueOrBuffer
<1> QED
  BY <1>1, <1>2, StepKinds, LoadOnce, ReadOnce, ForwardOnce, AnswerOnce


\* A connection that is new has sent nothing, and a process that is up was up.
LEMMA SockStep ==
    ASSUME Types, ClientInv, [Next]_vars
    PROVE  /\ process' = "up" => process = "up"
           /\ \A c \in Clients : sock'[c] = "connected" => sock[c] = "connected" \/ seq_num'[c] = 0
<1>1. ASSUME NEW c \in Clients, connect(c)
      PROVE  process' = process /\ \A d \in Clients : sock'[d] = sock[d] \/ seq_num'[d] = 0
  BY <1>1 DEF connect, ClientInv, Types, serverVars
<1>2. ASSUME NEW c \in Clients,
             \/ open_socket(c) \/ connect_fails(c) \/ load_killed(c) \/ bench_free(c)
             \/ ack_disconnected(c) \/ stdin_eof(c)
      PROVE  process' = process /\ \A d \in Clients : sock'[d] = "connected" => sock[d] = "connected"
  BY <1>2 DEF open_socket, connect_fails, load_killed, bench_free, ack_disconnected,
       stdin_eof, Types, serverVars
<1>3. ASSUME NEW c \in Clients,
             load_kvpairs(c) \/ wait_until_finish(c) \/ client_exit(c) \/ ack_check(c) \/ ack_read(c)
      PROVE  process' = process /\ sock' = sock
  BY <1>3
     DEF load_kvpairs, wait_until_finish, client_exit, ack_check, ack_read, serverVars
<1>4. CASE \/ socket_init \/ create_master_thread \/ handler_init \/ join_master
           \/ epoll_wait \/ accept_new_client \/ read_requests \/ read_nothing
           \/ forward_req_to_hlr \/ UNCHANGED vars
  BY <1>4 DEF socket_init, create_master_thread, handler_init, join_master, epoll_wait,
       accept_new_client, read_requests, read_nothing, forward_req_to_hlr, vars,
       clientVars, serverVars
<1>5. ASSUME NEW h \in Handlers, answer(h)
      PROVE  process' = process /\ sock' = sock
  BY <1>5 DEF answer, clientVars
<1>6. CASE Death
  BY <1>6, DeathEffect
<1> QED
  BY <1>1, <1>2, <1>3, <1>4, <1>5, <1>6, Deaths
     DEF Next, client_main, ack_poller, server_main, master_thread

\* Every step keeps every request of a connected client somewhere.
LEMMA CoverStep ==
    ASSUME Types, LoopInv, BoundInv, ClientInv, CoverInv, [Next]_vars
    PROVE  CoverInv'
<1> SUFFICES ASSUME process' = "up", NEW c \in Clients, sock'[c] = "connected",
                    NEW n \in 1..seq_num'[c]
             PROVE  \/ \E i \in 1..Len(inbox'[c]) : inbox'[c][i] = n
                    \/ \E i \in 1..Len(netreq_buf') : netreq_buf'[i] = [client |-> c, seq |-> n]
                    \/ \E h \in Handlers : \E i \in 1..Len(req_q'[h]) :
                         req_q'[h][i] = [client |-> c, seq |-> n]
                    \/ n \in answered'[c]
  BY DEF CoverInv, Somewhere
<1> DEFINE r == [client |-> c, seq |-> n]
<1>1. process = "up" /\ sock[c] = "connected"
  BY SockStep
<1>2. n \in 1..seq_num[c] =>
        \/ \E i \in 1..Len(inbox[c]) : inbox[c][i] = n
        \/ \E i \in 1..Len(netreq_buf) : netreq_buf[i] = r
        \/ \E h \in Handlers : \E i \in 1..Len(req_q[h]) : req_q[h][i] = r
        \/ n \in answered[c]
  BY <1>1 DEF CoverInv, Somewhere
<1>3. r.client = c /\ r.seq = n
  OBVIOUS
<1> HIDE DEF r
<1> SUFFICES \/ \E i \in 1..Len(inbox'[c]) : inbox'[c][i] = n
             \/ \E i \in 1..Len(netreq_buf') : netreq_buf'[i] = r
             \/ \E h \in Handlers : \E i \in 1..Len(req_q'[h]) : req_q'[h][i] = r
             \/ n \in answered'[c]
  BY DEF r
<1>4. ASSUME NEW d \in Clients, load_kvpairs(d)
      PROVE  \/ \E i \in 1..Len(inbox'[c]) : inbox'[c][i] = n
             \/ \E i \in 1..Len(netreq_buf) : netreq_buf[i] = r
             \/ \E h \in Handlers : \E i \in 1..Len(req_q[h]) : req_q[h][i] = r
             \/ n \in answered[c]
  <2>1. CASE d # c
    <3>1. seq_num'[c] = seq_num[c] /\ inbox'[c] = inbox[c]
      BY <1>4, <2>1, LoadEffect
    <3> QED
      BY <1>2, <3>1
  <2>2. CASE d = c
    <3>1. PICK k : k = Len(Batch(c))
      OBVIOUS
    <3>2. /\ k \in Nat /\ seq_num'[c] = seq_num[c] + k
          /\ Len(inbox'[c]) = Len(inbox[c]) + k
          /\ \A i \in 1..Len(inbox[c]) : inbox'[c][i] = inbox[c][i]
          /\ \A i \in 1..k : inbox'[c][Len(inbox[c]) + i] = seq_num[c] + i
      BY <1>1, <1>4, <2>2, <3>1, LoadEffect
    <3>3. seq_num[c] \in Nat /\ Len(inbox[c]) \in Nat
      BY Members
    <3>4. CASE n \in 1..seq_num[c]
      <4>1. \A i \in 1..Len(inbox[c]) : i \in 1..Len(inbox'[c])
        BY <3>2, <3>3
      <4> QED
        BY <1>2, <3>2, <3>4, <4>1
    <3>5. CASE n \notin 1..seq_num[c]
      <4>1. n \in Nat /\ n <= seq_num[c] + k /\ n >= seq_num[c] + 1
        BY <3>2, <3>3, <3>5
      <4>2. PICK j \in 1..k : n = seq_num[c] + j
        <5>1. n - seq_num[c] \in 1..k /\ n = seq_num[c] + (n - seq_num[c])
          BY <3>2, <3>3, <4>1
        <5> QED
          BY <5>1
      <4>3. Len(inbox[c]) + j \in 1..Len(inbox'[c])
        BY <3>2, <3>3
      <4> QED
        BY <3>2, <4>2, <4>3
    <3> QED
      BY <3>4, <3>5
  <2> QED
    BY <2>1, <2>2
<1>5. CASE read_requests
  <2>1. PICK e : e = Head(events)
    OBVIOUS
  <2>2. /\ \A d \in Clients \ {e} : inbox'[d] = inbox[d]
        /\ Len(netreq_buf') = Len(inbox[e])
        /\ \A i \in 1..Len(inbox[e]) : netreq_buf'[i] = [client |-> e, seq |-> inbox[e][i]]
        /\ netreq_buf = << >>
        /\ UNCHANGED <<seq_num, req_q, answered>>
    BY <1>5, <2>1, ReadEffect
  <2>3. ~ \E i \in 1..Len(netreq_buf) : netreq_buf[i] = r
    <3>1. Len(netreq_buf) = 0
      BY <2>2
    <3> QED
      BY <3>1
  <2>4. ASSUME NEW i \in 1..Len(inbox[c]), inbox[c][i] = n
        PROVE  \/ \E j \in 1..Len(inbox'[c]) : inbox'[c][j] = n
               \/ \E j \in 1..Len(netreq_buf') : netreq_buf'[j] = r
    <3>1. CASE c = e
      <4>1. netreq_buf'[i] = [client |-> c, seq |-> inbox[c][i]]
        BY <2>2, <3>1
      <4>2. netreq_buf'[i] = r /\ i \in 1..Len(netreq_buf')
        BY <2>2, <2>4, <3>1, <4>1 DEF r
      <4> QED
        BY <4>2
    <3>2. CASE c # e
      <4>1. inbox'[c] = inbox[c]
        BY <2>2, <3>2
      <4> QED
        BY <2>4, <4>1
    <3> QED
      BY <3>1, <3>2
  <2> QED
    BY <1>2, <2>2, <2>3, <2>4
<1>6. CASE forward_req_to_hlr
  <2>1. PICK t, k : t = Target /\ k = Len(req_q[t])
    OBVIOUS
  <2>2. /\ t \in Handlers /\ k \in Nat /\ Len(req_q'[t]) = k + 1
        /\ \A i \in 1..k : req_q'[t][i] = req_q[t][i]
        /\ req_q'[t][k + 1] = netreq_buf[1]
        /\ \A h \in Handlers \ {t} : req_q'[h] = req_q[h]
    BY <1>6, <2>1, ForwardEffect
  <2>3. \A i \in 1..Len(netreq_buf') : netreq_buf'[i] = netreq_buf[i + 1]
    BY <1>6, <2>1, ForwardEffect
  <2>4. \A i \in 1..Len(netreq_buf) : i # 1 => \E j \in 1..Len(netreq_buf') : i = j + 1
    BY <1>6, <2>1, ForwardEffect
  <2>5. UNCHANGED <<seq_num, inbox, answered>>
    BY <1>6, <2>1, ForwardEffect
  <2>6. k + 1 \in 1..Len(req_q'[t]) /\ \A i \in 1..k : i \in 1..Len(req_q'[t])
    BY <2>2
  <2>7. ASSUME NEW i \in 1..Len(netreq_buf), netreq_buf[i] = r
        PROVE  \/ \E j \in 1..Len(netreq_buf') : netreq_buf'[j] = r
               \/ \E h \in Handlers : \E j \in 1..Len(req_q'[h]) : req_q'[h][j] = r
    <3>1. CASE i = 1
      BY <2>2, <2>6, <2>7, <3>1
    <3>2. CASE i # 1
      BY <2>3, <2>4, <2>7, <3>2
    <3> QED
      BY <3>1, <3>2
  <2>8. ASSUME NEW h \in Handlers, NEW i \in 1..Len(req_q[h]), req_q[h][i] = r
        PROVE  \E j \in 1..Len(req_q'[h]) : req_q'[h][j] = r
    <3>1. CASE h = t
      BY <2>1, <2>2, <2>6, <2>8, <3>1
    <3>2. CASE h # t
      <4>1. req_q'[h] = req_q[h]
        BY <2>2, <3>2
      <4> QED
        BY <2>8, <4>1
    <3> QED
      BY <3>1, <3>2
  <2> QED
    BY <1>2, <2>5, <2>7, <2>8
<1>7. ASSUME NEW g \in Handlers, answer(g)
      PROVE  \/ \E i \in 1..Len(inbox[c]) : inbox[c][i] = n
             \/ \E i \in 1..Len(netreq_buf) : netreq_buf[i] = r
             \/ \E h \in Handlers : \E i \in 1..Len(req_q'[h]) : req_q'[h][i] = r
             \/ n \in answered'[c]
  <2>1. \A i \in 1..Len(req_q'[g]) : req_q'[g][i] = req_q[g][i + 1]
    BY <1>7, AnswerEffect
  <2>2. \A i \in 1..Len(req_q[g]) : i # 1 => \E j \in 1..Len(req_q'[g]) : i = j + 1
    BY <1>7, AnswerEffect
  <2>3. /\ \A h \in Handlers \ {g} : req_q'[h] = req_q[h]
        /\ answered'[req_q[g][1].client] = answered[req_q[g][1].client] \cup {req_q[g][1].seq}
        /\ \A d \in Clients \ {req_q[g][1].client} : answered'[d] = answered[d]
        /\ UNCHANGED <<seq_num, inbox, netreq_buf>>
    BY <1>7, AnswerEffect
  <2>4. n \in answered[c] => n \in answered'[c]
    BY <2>3
  <2>5. ASSUME NEW h \in Handlers, NEW i \in 1..Len(req_q[h]), req_q[h][i] = r
        PROVE  n \in answered'[c] \/ \E j \in 1..Len(req_q'[h]) : req_q'[h][j] = r
    <3>1. CASE h # g
      <4>1. req_q'[h] = req_q[h]
        BY <2>3, <3>1
      <4> QED
        BY <2>5, <4>1
    <3>2. CASE h = g /\ i # 1
      BY <2>1, <2>2, <2>5, <3>2
    <3>3. CASE h = g /\ i = 1
      <4>1. req_q[g][1] = r
        BY <2>5, <3>3
      <4>2. req_q[g][1].client = c /\ req_q[g][1].seq = n
        BY <1>3, <4>1
      <4> QED
        BY <2>3, <4>2
    <3> QED
      BY <3>1, <3>2, <3>3
  <2> QED
    BY <1>2, <2>3, <2>4, <2>5
<1>8. CASE Death
  BY <1>8, DeathEffect
<1>9. CASE UNCHANGED places
  BY <1>2, <1>9 DEF places
<1>10. \A d \in Clients : load_kvpairs(d) => UNCHANGED <<netreq_buf, req_q, answered>>
  BY DEF load_kvpairs, serverVars
<1>11. \A g \in Handlers : answer(g) => UNCHANGED <<inbox, netreq_buf>>
  BY DEF answer
<1> QED
  BY <1>4, <1>5, <1>6, <1>7, <1>8, <1>9, <1>10, <1>11, StepKinds


-----------------------------------------------------------------------------
(* The credits of a client and the bounds they give. *)

\* How many numbers there are from 1 to n.
LEMMA CountTo ==
    ASSUME NEW n \in Nat
    PROVE  IsFiniteSet(1..n) /\ Cardinality(1..n) = n
BY FS_Interval

\* The answered requests of a client are among those it has sent.
LEMMA AnsweredBound ==
    Types /\ SentInv =>
        \A c \in Clients : /\ IsFiniteSet(answered[c])
                           /\ Cardinality(answered[c]) \in Nat
                           /\ Cardinality(answered[c]) <= seq_num[c]
<1> SUFFICES ASSUME Types, SentInv, NEW c \in Clients
             PROVE  /\ IsFiniteSet(answered[c])
                    /\ Cardinality(answered[c]) \in Nat
                    /\ Cardinality(answered[c]) <= seq_num[c]
  OBVIOUS
<1>1. seq_num[c] \in Nat /\ answered[c] \subseteq SeqNums
  BY Members
<1>2. \A k \in answered[c] : k <= seq_num[c]
  BY DEF SentInv
<1>3. answered[c] \subseteq 1..seq_num[c]
  BY <1>1, <1>2, ServerAssumption DEF SeqNums
<1>4. IsFiniteSet(1..seq_num[c]) /\ Cardinality(1..seq_num[c]) = seq_num[c]
  BY <1>1, CountTo
<1>5. IsFiniteSet(answered[c]) /\ Cardinality(answered[c]) <= seq_num[c]
  BY <1>3, <1>4, FS_Subset
<1> QED
  BY <1>5, FS_CardinalityType

\* The requests in a connection have been sent, not answered, and are distinct:
\* they are no more than the client may have outstanding.
LEMMA InboxBound ==
    Types /\ SentInv /\ OnceInv /\ AcksToTheirClient =>
        \A c \in Clients : sock[c] = "connected" => Len(inbox[c]) <= CLIENT_QDEPTH
<1> SUFFICES ASSUME Types, SentInv, OnceInv, AcksToTheirClient,
                    NEW c \in Clients, sock[c] = "connected"
             PROVE  Len(inbox[c]) <= CLIENT_QDEPTH
  OBVIOUS
<1> DEFINE S == 1..Len(inbox[c])
           T == (1..seq_num[c]) \ answered[c]
<1>1. Len(inbox[c]) \in Nat /\ seq_num[c] \in Nat
  BY Members
<1>2. \A i \in S : inbox[c][i] \in SeqNums /\ inbox[c][i] <= seq_num[c] /\ inbox[c][i] \notin answered[c]
  BY Members DEF SentInv, OnceInv, InboxNew
<1>3. \A i \in S : inbox[c][i] \in T
  BY <1>1, <1>2, ServerAssumption DEF SeqNums
<1>4. \A i, j \in S : inbox[c][i] = inbox[c][j] => i = j
  BY DEF OnceInv, InboxOnce
<1>5. inbox[c] \in [S -> SeqNums]
  BY LenProperties DEF Types
<1>6. answered[c] \subseteq 1..seq_num[c]
  BY <1>1, Members, ServerAssumption DEF SentInv, SeqNums
<1>7. IsFiniteSet(1..seq_num[c]) /\ Cardinality(1..seq_num[c]) = seq_num[c]
  BY <1>1, CountTo
<1>8. IsFiniteSet(T) /\ Cardinality(T) = seq_num[c] - Cardinality((1..seq_num[c]) \cap answered[c])
  BY <1>7, FS_Difference
<1>9. (1..seq_num[c]) \cap answered[c] = answered[c]
  BY <1>6
<1>10. Cardinality(T) = seq_num[c] - Cardinality(answered[c])
  BY <1>8, <1>9
<1> HIDE DEF S, T
<1>11. inbox[c] \in Injection(S, T)
  <2>1. inbox[c] \in [S -> T]
    BY <1>3, <1>5
  <2>2. IsInjective(inbox[c])
    BY <1>4, <1>5 DEF IsInjective
  <2> QED
    BY <2>1, <2>2 DEF Injection
<1>12. IsFiniteSet(S) /\ Cardinality(S) = Len(inbox[c])
  BY <1>1, CountTo DEF S
<1>13. Cardinality(S) <= Cardinality(T)
  BY <1>8, <1>11, FS_Injection
<1>14. /\ sem[c] \in Nat /\ acks[c] \in Nat /\ CLIENT_QDEPTH \in Nat
       /\ Cardinality(answered[c]) \in Nat
  BY AnsweredBound, ServerAssumption DEF Types
<1>15. sem[c] + seq_num[c] - (Cardinality(answered[c]) - acks[c]) = CLIENT_QDEPTH
  BY DEF AcksToTheirClient
<1> QED
  BY <1>1, <1>10, <1>12, <1>13, <1>14, <1>15

\* Every step keeps the connections and the queues within their bounds.
LEMMA BoundStep ==
    ASSUME Types, LoopInv, BoundInv, [Next]_vars,
           Types', SentInv', OnceInv', AcksToTheirClient'
    PROVE  BoundInv'
<1>1. \A c \in Clients : sock'[c] = "connected" => Len(inbox'[c]) <= CLIENT_QDEPTH
  <2>1. (Types /\ SentInv /\ OnceInv /\ AcksToTheirClient =>
          \A c \in Clients : sock[c] = "connected" => Len(inbox[c]) <= CLIENT_QDEPTH)'
    BY InboxBound, PTL
  <2> QED
    BY <2>1
<1>2. ASSUME NEW c \in Clients, load_kvpairs(c)
      PROVE  BoundInv'
  <2>1. req_q' = req_q /\ \A d \in Clients \ {c} : inbox'[d] = inbox[d]
    BY <1>2, LoadEffect
  <2>2. inbox' = inbox \/ sock'[c] = "connected"
    BY <1>2, LoadEffect
  <2> QED
    BY <1>1, <2>1, <2>2 DEF BoundInv
<1>3. CASE read_requests
  <2>1. PICK c : c = Head(events)
    OBVIOUS
  <2>2. /\ req_q' = req_q /\ Len(inbox'[c]) = 0
        /\ \A d \in Clients \ {c} : inbox'[d] = inbox[d]
    BY <1>3, <2>1, ReadEffect
  <2> QED
    BY <2>2, ServerAssumption DEF BoundInv
<1>4. CASE forward_req_to_hlr
  <2>1. PICK t, k : t = Target /\ k = Len(req_q[t])
    OBVIOUS
  <2>2. /\ inbox' = inbox /\ k \in Nat /\ k < QDEPTH /\ Len(req_q'[t]) = k + 1
        /\ \A h \in Handlers \ {t} : req_q'[h] = req_q[h]
    BY <1>4, <2>1, ForwardEffect
  <2>3. Len(req_q'[t]) <= QDEPTH
    BY <2>2, ServerAssumption
  <2> QED
    BY <2>2, <2>3 DEF BoundInv
<1>5. ASSUME NEW h \in Handlers, answer(h)
      PROVE  BoundInv'
  <2>1. /\ inbox' = inbox /\ Len(req_q[h]) \in Nat /\ Len(req_q'[h]) = Len(req_q[h]) - 1
        /\ \A g \in Handlers \ {h} : req_q'[g] = req_q[g]
    BY <1>5, AnswerEffect
  <2>2. Len(req_q'[h]) <= QDEPTH
    BY <2>1, ServerAssumption DEF BoundInv
  <2> QED
    BY <2>1, <2>2 DEF BoundInv
<1>6. CASE Death
  BY <1>6, DeathEffect, ServerAssumption DEF BoundInv
<1>7. CASE UNCHANGED places
  BY <1>7 DEF BoundInv, places
<1> QED
  BY <1>2, <1>3, <1>4, <1>5, <1>6, <1>7, StepKinds

\* Initially every client has all its credits.
LEMMA BalanceInit == Init => AcksToTheirClient
BY FS_EmptySet, ServerAssumption DEF Init, AcksToTheirClient

\* Every step keeps the balance of a connected client: what it may send, has
\* sent, was answered and has to read.
LEMMA BalanceStep ==
    ASSUME Types, ClientInv, SentInv, OnceInv, AcksToTheirClient, [Next]_vars
    PROVE  AcksToTheirClient'
<1>1. CASE 
         \/ \E c \in Clients : wait_until_finish(c) \/ client_exit(c) \/ ack_check(c)
         \/ socket_init \/ create_master_thread \/ handler_init \/ join_master \/
              epoll_wait \/ accept_new_client \/ read_requests \/ read_nothing \/
              forward_req_to_hlr
         \/ UNCHANGED vars
  BY <1>1
     DEF wait_until_finish, client_exit, ack_check, socket_init, create_master_thread,
         handler_init, join_master, epoll_wait, accept_new_client, read_requests,
         read_nothing, forward_req_to_hlr, AcksToTheirClient, vars, clientVars,
         netVars, serverVars
<1>2. ASSUME NEW c \in Clients, open_socket(c)
      PROVE  AcksToTheirClient'
  BY <1>2 DEF open_socket, AcksToTheirClient, Types, netVars, serverVars
<1>3. ASSUME NEW c \in Clients, connect(c)
      PROVE  AcksToTheirClient'
  <2>1. UNCHANGED <<seq_num, sem, acks, answered>>
    BY <1>3 DEF connect
  <2>2. \A d \in Clients \ {c} : sock'[d] = sock[d]
    BY <1>3 DEF connect, Types
  <2>3. seq_num[c] = 0 /\ sem[c] = CLIENT_QDEPTH /\ acks[c] = 0
    BY <1>3 DEF connect, ClientInv
  <2>4. answered[c] = {}
    BY <2>3, Members DEF SentInv, SeqNums
  <2>5. Cardinality(answered[c]) = 0
    BY <2>4, FS_EmptySet
  <2>6. sem[c] + seq_num[c] - (Cardinality(answered[c]) - acks[c]) = CLIENT_QDEPTH
    BY <2>3, <2>5, ServerAssumption
  <2> QED
    BY <2>1, <2>2, <2>6 DEF AcksToTheirClient
<1>4. ASSUME NEW c \in Clients, connect_fails(c)
      PROVE  AcksToTheirClient'
  BY <1>4 DEF connect_fails, AcksToTheirClient, Types, netVars, serverVars
<1>5. ASSUME NEW c \in Clients, load_kvpairs(c)
      PROVE  AcksToTheirClient'
  <2>1. PICK n : n = Len(Batch(c))
    OBVIOUS
  <2>2. UNCHANGED <<sock, acks, answered>>
    BY <1>5 DEF load_kvpairs
  <2>3. \A d \in Clients \ {c} : sem'[d] = sem[d] /\ seq_num'[d] = seq_num[d]
    BY <1>5 DEF load_kvpairs, Types
  <2>4. sem'[c] = sem[c] - n /\ seq_num'[c] = seq_num[c] + n
    BY <1>5, <2>1 DEF load_kvpairs, Types
  <2>5. n \in Nat /\ sem[c] \in Nat /\ seq_num[c] \in Nat
    BY <2>1, BatchFacts DEF Types
  <2>6. sem'[c] + seq_num'[c] = sem[c] + seq_num[c]
    BY <2>4, <2>5
  <2>7. sock[c] = "connected" =>
          sem'[c] + seq_num'[c] - (Cardinality(answered[c]) - acks[c]) = CLIENT_QDEPTH
    <3>1. sock[c] = "connected" =>
            sem[c] + seq_num[c] - (Cardinality(answered[c]) - acks[c]) = CLIENT_QDEPTH
      BY DEF AcksToTheirClient
    <3>2. acks[c] \in Nat /\ Cardinality(answered[c]) \in Nat
      BY AnsweredBound DEF Types
    <3> QED
      BY <2>4, <2>5, <3>1, <3>2
  <2> QED
    BY <2>2, <2>3, <2>7 DEF AcksToTheirClient
<1>6. ASSUME NEW c \in Clients, load_killed(c)
      PROVE  AcksToTheirClient'
  BY <1>6 DEF load_killed, AcksToTheirClient, Types, netVars, serverVars
<1>7. ASSUME NEW c \in Clients, bench_free(c)
      PROVE  AcksToTheirClient'
  BY <1>7 DEF bench_free, AcksToTheirClient, Types, netVars, serverVars
<1>8. ASSUME NEW c \in Clients, ack_read(c)
      PROVE  AcksToTheirClient'
  <2>1. UNCHANGED <<sock, seq_num, answered>>
    BY <1>8 DEF ack_read
  <2>2. \A d \in Clients \ {c} : sem'[d] = sem[d] /\ acks'[d] = acks[d]
    BY <1>8 DEF ack_read, Types
  <2>3. sem'[c] = sem[c] + acks[c] /\ acks'[c] = 0
    BY <1>8 DEF ack_read, Types
  <2>4. /\ sem[c] \in Nat /\ acks[c] \in Nat /\ seq_num[c] \in Nat
        /\ Cardinality(answered[c]) \in Nat
    BY AnsweredBound DEF Types
  <2>5. sem'[c] + seq_num[c] - (Cardinality(answered[c]) - acks'[c])
          = sem[c] + seq_num[c] - (Cardinality(answered[c]) - acks[c])
    BY <2>3, <2>4
  <2> QED
    BY <2>1, <2>2, <2>5 DEF AcksToTheirClient
<1>9. ASSUME NEW c \in Clients, ack_disconnected(c)
      PROVE  AcksToTheirClient'
  BY <1>9 DEF ack_disconnected, AcksToTheirClient, Types, netVars, serverVars
<1>10. ASSUME NEW c \in Clients, stdin_eof(c)
      PROVE  AcksToTheirClient'
  BY <1>10 DEF stdin_eof, AcksToTheirClient, Types, netVars, serverVars
<1>11. ASSUME NEW h \in Handlers, answer(h)
      PROVE  AcksToTheirClient'
  <2> DEFINE c == req_q[h][1].client
             n == req_q[h][1].seq
  <2>1. UNCHANGED <<sock, seq_num, sem>>
    BY <1>11 DEF answer, clientVars
  <2>2. /\ c \in Clients /\ 1 \in 1..Len(req_q[h])
        /\ answered'[c] = answered[c] \cup {n}
        /\ \A d \in Clients \ {c} : answered'[d] = answered[d]
    BY <1>11, AnswerEffect
  <2>3. Head(req_q[h]) = req_q[h][1]
    BY <1>11, TailFacts DEF answer, Types
  <2>4. \A d \in Clients \ {c} : acks'[d] = acks[d]
    BY <1>11, <2>2, <2>3 DEF answer, Types
  <2>5. hangup[c] = "open" => acks'[c] = acks[c] + 1
    BY <1>11, <2>2, <2>3 DEF answer, Types
  <2>6. n \notin answered[c]
    BY <2>2 DEF OnceInv, QueueNew
  <2> HIDE DEF c, n
  <2>7. Cardinality(answered'[c]) = Cardinality(answered[c]) + 1
    BY <2>2, <2>6, AnsweredBound, FS_AddElement
  <2>8. /\ sem[c] \in Nat /\ acks[c] \in Nat /\ seq_num[c] \in Nat
        /\ Cardinality(answered[c]) \in Nat
    BY <2>2, AnsweredBound DEF Types
  <2>9. sock[c] = "connected" => hangup[c] = "open"
    BY <2>2 DEF ClientInv
  <2>10. sock[c] = "connected" =>
           sem[c] + seq_num[c] - (Cardinality(answered'[c]) - acks'[c])
             = sem[c] + seq_num[c] - (Cardinality(answered[c]) - acks[c])
    BY <2>5, <2>7, <2>8, <2>9
  <2> QED
    BY <2>1, <2>2, <2>4, <2>10 DEF AcksToTheirClient
<1>12. CASE Death
  BY <1>12, DeathEffect DEF AcksToTheirClient
<1> QED
  BY <1>1, <1>2, <1>3, <1>4, <1>5, <1>6, <1>7, <1>8, <1>9, <1>10, <1>11, <1>12, Deaths
     DEF Next, client_main, ack_poller, server_main, master_thread

\* Every step keeps the credits: an acknowledgement is sent only to a client
\* that has a request outstanding.
LEMMA CreditStep ==
    ASSUME Types, ClientInv, SentInv, CreditInv, [Next]_vars,
           Types', SentInv', AcksToTheirClient'
    PROVE  CreditInv'
<1>1. (Types /\ SentInv =>
         \A c \in Clients : /\ IsFiniteSet(answered[c])
                            /\ Cardinality(answered[c]) \in Nat
                            /\ Cardinality(answered[c]) <= seq_num[c])'
  BY AnsweredBound, PTL
<1>2. ASSUME NEW c \in Clients, load_kvpairs(c)
      PROVE  CreditInv'
  <2>1. PICK n : n = Len(Batch(c))
    OBVIOUS
  <2>2. /\ n \in Nat /\ acks' = acks /\ sem'[c] = sem[c] - n
        /\ \A d \in Clients \ {c} : sem'[d] = sem[d]
    BY <1>2, <2>1, BatchFacts DEF load_kvpairs, Types
  <2>3. sem[c] \in Nat /\ acks[c] \in Nat /\ CLIENT_QDEPTH \in Nat
    BY ServerAssumption DEF Types
  <2>4. sem'[c] + acks[c] <= CLIENT_QDEPTH
    BY <2>2, <2>3 DEF CreditInv
  <2> QED
    BY <2>2, <2>4 DEF CreditInv
<1>3. ASSUME NEW c \in Clients, ack_read(c)
      PROVE  CreditInv'
  <2>1. /\ sem'[c] = sem[c] + acks[c] /\ acks'[c] = 0
        /\ \A d \in Clients \ {c} : sem'[d] = sem[d] /\ acks'[d] = acks[d]
    BY <1>3 DEF ack_read, Types
  <2>2. sem[c] \in Nat /\ acks[c] \in Nat
    BY DEF Types
  <2>3. sem'[c] + acks'[c] = sem[c] + acks[c]
    BY <2>1, <2>2
  <2> QED
    BY <2>1, <2>3 DEF CreditInv
<1>4. ASSUME NEW h \in Handlers, answer(h)
      PROVE  CreditInv'
  <2> DEFINE c == req_q[h][1].client
             n == req_q[h][1].seq
  <2>1. c \in Clients /\ n \in SeqNums /\ 1 \in 1..Len(req_q[h]) /\ process = "up"
    BY <1>4, AnswerEffect
  <2>2. Head(req_q[h]) = req_q[h][1]
    BY <1>4, TailFacts DEF answer, Types
  <2>3. /\ \A d \in Clients \ {c} : acks'[d] = acks[d]
        /\ hangup[c] # "open" => acks'[c] = acks[c]
    <3>1. \/ hangup[c] = "open" /\ acks' = [acks EXCEPT ![c] = @ + 1]
          \/ hangup[c] # "open" /\ acks' = acks
      BY <1>4, <2>2 DEF answer
    <3>2. acks \in [Clients -> Nat]
      BY DEF Types
    <3> HIDE DEF c
    <3> QED
      BY <3>1, <3>2
  <2>4. UNCHANGED <<sem, seq_num, sock>>
    BY <1>4 DEF answer, clientVars
  <2>5. n <= seq_num[c]
    BY <2>1 DEF SentInv
  <2> HIDE DEF c, n
  <2>6. seq_num[c] # 0
    BY <2>1, <2>5 DEF SeqNums
  <2>7. hangup[c] = "open" => sock'[c] = "connected"
    BY <2>1, <2>4, <2>6 DEF ClientInv
  <2>8. CASE hangup[c] # "open"
    BY <2>3, <2>4, <2>8 DEF CreditInv
  <2>9. CASE hangup[c] = "open"
    <3>1. Cardinality(answered'[c]) \in Nat /\ Cardinality(answered'[c]) <= seq_num'[c]
      BY <1>1, <2>1
    <3>2. sem'[c] + seq_num'[c] - (Cardinality(answered'[c]) - acks'[c]) = CLIENT_QDEPTH
      BY <2>1, <2>7, <2>9 DEF AcksToTheirClient
    <3>3. sem'[c] \in Nat /\ seq_num'[c] \in Nat /\ acks'[c] \in Nat /\ CLIENT_QDEPTH \in Nat
      BY <2>1, ServerAssumption DEF Types
    <3>4. sem'[c] + acks'[c] <= CLIENT_QDEPTH
      BY <3>1, <3>2, <3>3
    <3> QED
      BY <2>3, <2>4, <3>4 DEF CreditInv
  <2> QED
    BY <2>8, <2>9
<1>5. CASE Death
  BY <1>5, DeathEffect DEF CreditInv
<1>6. ASSUME NEW c \in Clients,
             \/ open_socket(c) \/ connect(c) \/ connect_fails(c) \/ load_killed(c)
             \/ wait_until_finish(c) \/ bench_free(c) \/ client_exit(c) \/ ack_check(c)
             \/ ack_disconnected(c) \/ stdin_eof(c)
      PROVE  UNCHANGED <<sem, acks>>
  BY <1>6 DEF open_socket, connect, connect_fails, load_killed, wait_until_finish,
       bench_free, client_exit, ack_check, ack_disconnected, stdin_eof, netVars
<1>7. ASSUME \/ socket_init \/ create_master_thread \/ handler_init \/ join_master
             \/ epoll_wait \/ accept_new_client \/ read_requests \/ read_nothing
             \/ forward_req_to_hlr \/ UNCHANGED vars
      PROVE  UNCHANGED <<sem, acks>>
  BY <1>7 DEF socket_init, create_master_thread, handler_init, join_master, epoll_wait,
       accept_new_client, read_requests, read_nothing, forward_req_to_hlr, vars,
       clientVars, netVars
<1>8. ASSUME UNCHANGED <<sem, acks>>
      PROVE  CreditInv'
  BY <1>8 DEF CreditInv
<1> QED
  BY <1>2, <1>3, <1>4, <1>5, <1>6, <1>7, <1>8, Deaths
     DEF Next, client_main, ack_poller, server_main, master_thread


-----------------------------------------------------------------------------
(* No connection with requests in it is forgotten. *)

\* The ready list holds at least what it held.
LEMMA StrandedFrame ==
    ASSUME NothingStranded, UNCHANGED <<mpc, events, accepted, inbox>>,
           Range(ready) \subseteq Range(ready')
    PROVE  NothingStranded'
BY DEF NothingStranded

\* The first event of the batch is done: it was of a connection that is empty
\* now, or of the listening socket.
LEMMA StrandedTail ==
    ASSUME Types, events # << >>, NEW d,
           \E i \in 2..Len(events) : events[i] = d
    PROVE  \E i \in 1..Len(Tail(events)) : Tail(events)[i] = d
<1>1. PICK i \in 2..Len(events) : events[i] = d
  OBVIOUS
<1>2. /\ Len(events) \in Nat /\ Len(Tail(events)) = Len(events) - 1
      /\ \A j \in 1..Len(Tail(events)) : Tail(events)[j] = events[j + 1]
  BY TailFacts DEF Types
<1>3. i - 1 \in 1..Len(Tail(events)) /\ (i - 1) + 1 = i
  BY <1>2
<1>4. Tail(events)[i - 1] = d
  BY <1>1, <1>2, <1>3
<1> QED
  BY <1>3, <1>4

\* An edge of a client's connection only adds to the ready list.
LEMMA RaiseClientRange ==
    ASSUME Types, NEW c \in Clients
    PROVE  /\ Range(ready) \subseteq Range(RaiseClient(c))
           /\ c \in accepted => c \in Range(RaiseClient(c))
BY RaiseFacts DEF RaiseClient, Fds

\* Every step leaves an event to come for every registered connection with
\* requests in it.
LEMMA StrandedStep ==
    ASSUME Types, LoopInv, StartInv, BoundInv, NothingStranded, [Next]_vars
    PROVE  NothingStranded'
<1>1. CASE 
         \/ \E c \in Clients : open_socket(c) \/ connect_fails(c) \/ load_killed(c) \/
              wait_until_finish(c) \/ client_exit(c) \/ ack_check(c) \/ ack_read(c) \/
              ack_disconnected(c)
         \/ socket_init \/ handler_init \/ join_master
         \/ UNCHANGED vars
  BY <1>1
     DEF open_socket, connect_fails, load_killed, wait_until_finish, client_exit,
         ack_check, ack_read, ack_disconnected, socket_init, handler_init,
         join_master, NothingStranded, vars, clientVars, netVars, serverVars
<1>2. ASSUME NEW c \in Clients, connect(c)
      PROVE  NothingStranded'
  <2>1. Range(ready) \subseteq Range(ready')
    BY <1>2, RaiseFacts DEF connect, Fds
  <2> QED
    BY <1>2, <2>1, StrandedFrame DEF connect, serverVars
<1>3. ASSUME NEW c \in Clients, load_kvpairs(c)
      PROVE  NothingStranded'
  <2>1. UNCHANGED <<mpc, events, accepted>> /\ \A d \in Clients \ {c} : inbox'[d] = inbox[d]
    BY <1>3 DEF load_kvpairs, Types, serverVars
  <2>2. CASE inbox' = inbox /\ ready' = ready
    BY <2>1, <2>2, StrandedFrame
  <2>3. CASE ready' = RaiseClient(c)
    <3>1. Range(ready) \subseteq Range(ready') /\ (c \in accepted => c \in Range(ready'))
      BY <2>3, RaiseClientRange
    <3>2. accepted \subseteq Clients
      BY DEF Types
    <3> QED
      BY <2>1, <3>1, <3>2 DEF NothingStranded
  <2> QED
    BY <1>3, <2>2, <2>3 DEF load_kvpairs
<1>4. ASSUME NEW c \in Clients, bench_free(c)
      PROVE  NothingStranded'
  <2>1. Range(ready) \subseteq Range(ready')
    BY <1>4, RaiseClientRange DEF bench_free, HangUp
  <2> QED
    BY <1>4, <2>1, StrandedFrame DEF bench_free, serverVars
<1>5. ASSUME NEW c \in Clients, stdin_eof(c)
      PROVE  NothingStranded'
  <2>1. Range(ready) \subseteq Range(ready')
    BY <1>5, RaiseClientRange DEF stdin_eof, HangUp
  <2> QED
    BY <1>5, <2>1, StrandedFrame DEF stdin_eof, serverVars
<1>6. CASE create_master_thread
  BY <1>6 DEF create_master_thread, StartInv, NothingStranded
<1>7. CASE epoll_wait
  <2>1. /\ events' = ready /\ mpc' = "event" /\ mpc = "epoll_wait" /\ process = "up"
        /\ UNCHANGED <<accepted, inbox>>
    BY <1>7 DEF epoll_wait
  <2>2. Len(events) = 0
    BY <2>1 DEF LoopInv
  <2>3. \A c \in accepted : inbox[c] # << >> => c \in Range(ready)
    BY <2>1, <2>2 DEF NothingStranded
  <2>4. \A c \in accepted : inbox[c] # << >> => \E i \in 1..Len(ready) : ready[i] = c
    BY <2>3, InRange DEF Types
  <2> QED
    BY <2>1, <2>4 DEF NothingStranded
<1>8. CASE accept_new_client
  <2>1. CASE backlog = << >>
    BY <1>8, <2>1 DEF accept_new_client, NothingStranded
  <2>2. CASE backlog # << >>
    <3> DEFINE c == Head(backlog)
    <3>1. c \in Clients /\ c \in Fds
      BY <2>2, TailFacts DEF Types, Fds
    <3>2. /\ accepted' = accepted \cup {c} /\ events' = Tail(events)
          /\ mpc' # "forward" /\ mpc = "event" /\ Head(events) = LISTEN /\ process = "up"
          /\ ready' = ready \/ ready' = Raise(c)
          /\ inbox[c] # << >> => ready' = Raise(c)
      BY <1>8, <2>2 DEF accept_new_client, NextEvent
    <3>3. inbox' = inbox
      BY <1>8 DEF accept_new_client
    <3> HIDE DEF c
    <3>4. events # << >> /\ events[1] = LISTEN
      BY <3>2, TailFacts DEF LoopInv, Types
    <3>5. Range(ready) \subseteq Range(ready') /\ (inbox[c] # << >> => c \in Range(ready'))
      BY <3>1, <3>2, RaiseFacts
    <3>6. ASSUME NEW d \in accepted', inbox[d] # << >>
          PROVE  d \in Range(ready') \/ \E i \in 1..Len(events') : events'[i] = d
      <4>1. CASE d = c
        BY <3>5, <3>6, <4>1
      <4>2. CASE d # c
        <5>1. d \in accepted /\ d # LISTEN
          BY <3>2, <3>6, <4>2, ServerAssumption DEF Types
        <5>2. d \in Range(ready) \/ \E i \in 1..Len(events) : events[i] = d
          BY <3>2, <3>6, <5>1 DEF NothingStranded
        <5>3. ASSUME NEW i \in 1..Len(events), events[i] = d
              PROVE  i \in 2..Len(events)
          BY <3>4, <5>1, <5>3
        <5>4. d \in Range(ready) \/ \E i \in 2..Len(events) : events[i] = d
          BY <5>2, <5>3
        <5> QED
          BY <3>2, <3>4, <3>5, <5>4, StrandedTail
      <4> QED
        BY <4>1, <4>2
    <3> QED
      BY <3>2, <3>3, <3>6 DEF NothingStranded
  <2> QED
    BY <2>1, <2>2
<1>9. CASE read_requests
  <2>1. PICK c : c = Head(events)
    OBVIOUS
  <2>2. /\ c \in Clients /\ c = events[1] /\ inbox'[c] = << >>
        /\ \A d \in Clients \ {c} : inbox'[d] = inbox[d]
        /\ UNCHANGED <<events, ready, accepted>>
    BY <1>9, <2>1, ReadEffect
  <2>3. mpc = "event" /\ mpc' = "forward"
    BY <1>9 DEF read_requests
  <2>4. ASSUME NEW d \in accepted, inbox'[d] # << >>
        PROVE  d \in Range(ready) \/ \E i \in 2..Len(events) : events[i] = d
    <3>1. d \in Clients /\ d # c /\ inbox[d] # << >>
      BY <2>2, <2>4 DEF Types
    <3>2. d \in Range(ready) \/ \E i \in 1..Len(events) : events[i] = d
      BY <2>3, <3>1 DEF NothingStranded
    <3>3. ASSUME NEW i \in 1..Len(events), events[i] = d
          PROVE  i \in 2..Len(events)
      BY <2>2, <3>1, <3>3
    <3> QED
      BY <3>2, <3>3
  <2> QED
    BY <2>2, <2>3, <2>4 DEF NothingStranded
<1>10. CASE read_nothing
  <2>1. PICK c : c = Head(events)
    OBVIOUS
  <2>2. /\ process = "up" /\ mpc = "event" /\ inbox[c] = << >> /\ mpc' # "forward"
        /\ UNCHANGED <<ready, inbox>>
        /\ mpc' # "exit" => events' = Tail(events) /\ accepted' = accepted
    BY <1>10, <2>1 DEF read_nothing, NextEvent, netVars
  <2>3. events # << >> /\ c = events[1]
    BY <2>1, <2>2, TailFacts DEF LoopInv, Types
  <2>4. ASSUME NEW d \in accepted, inbox[d] # << >>
        PROVE  d \in Range(ready) \/ \E i \in 2..Len(events) : events[i] = d
    <3>1. d \in Range(ready) \/ \E i \in 1..Len(events) : events[i] = d
      BY <2>2, <2>4 DEF NothingStranded
    <3>2. ASSUME NEW i \in 1..Len(events), events[i] = d
          PROVE  i \in 2..Len(events)
      BY <2>2, <2>3, <2>4, <3>2
    <3> QED
      BY <3>1, <3>2
  <2>5. \A d \in accepted : inbox[d] # << >> =>
          d \in Range(ready) \/ \E i \in 1..Len(Tail(events)) : Tail(events)[i] = d
    BY <2>3, <2>4, StrandedTail
  <2> QED
    BY <2>2, <2>5 DEF NothingStranded
<1>11. CASE forward_req_to_hlr
  <2>1. UNCHANGED <<ready, inbox, accepted>> /\ process = "up" /\ mpc = "forward"
    BY <1>11 DEF forward_req_to_hlr, netVars
  <2>2. events # << >>
    BY <2>1 DEF LoopInv
  <2>3. CASE UNCHANGED <<events, mpc>>
    BY <2>1, <2>3 DEF NothingStranded
  <2>4. CASE events' = Tail(events) /\ mpc' # "forward"
    <3>1. \A d \in accepted : inbox[d] # << >> =>
            d \in Range(ready) \/ \E i \in 2..Len(events) : events[i] = d
      BY <2>1 DEF NothingStranded
    <3>2. \A d \in accepted : inbox[d] # << >> =>
            d \in Range(ready) \/ \E i \in 1..Len(Tail(events)) : Tail(events)[i] = d
      BY <2>2, <3>1, StrandedTail
    <3> QED
      BY <2>1, <2>4, <3>2 DEF NothingStranded
  <2> QED
    BY <1>11, <2>3, <2>4 DEF forward_req_to_hlr, NextEvent
<1>12. ASSUME NEW h \in Handlers, answer(h)
      PROVE  NothingStranded'
  <2> DEFINE c == Head(req_q[h]).client
  <2>1. c \in Clients
    BY <1>12, HeadRequest DEF answer, Types
  <2>2. ready' = ready \/ ready' = RaiseClient(c)
    BY <1>12 DEF answer
  <2> HIDE DEF c
  <2>3. Range(ready) \subseteq Range(ready')
    BY <2>1, <2>2, RaiseClientRange
  <2> QED
    BY <1>12, <2>3, StrandedFrame DEF answer
<1>13. CASE Death
  <2>1. accepted' = {}
    BY <1>13 DEF Death, Dies
  <2> QED
    BY <2>1 DEF NothingStranded
<1> QED
  BY <1>1, <1>2, <1>3, <1>4, <1>5, <1>6, <1>7, <1>8, <1>9, <1>10, <1>11, <1>12, <1>13,
     Deaths
     DEF Next, client_main, ack_poller, server_main, master_thread


-----------------------------------------------------------------------------
(* Why the server ends. *)

\* An event of the listening socket comes with a connection to accept.
LEMMA AcceptHas == Types /\ LoopInv /\ ListenInv => AcceptReady
<1> SUFFICES ASSUME Types, LoopInv, ListenInv, process = "up", mpc = "event",
                    Head(events) = LISTEN
             PROVE  backlog # << >>
  BY DEF AcceptReady
<1>1. events # << >>
  BY DEF LoopInv
<1>2. 1 \in 1..Len(events) /\ events[1] = LISTEN
  BY <1>1, TailFacts DEF Types
<1>3. Len(backlog) >= 1
  BY <1>2 DEF ListenInv
<1>4. backlog = << >> => Len(backlog) = 0
  OBVIOUS
<1> QED
  BY <1>3, <1>4

\* A client that has hung up does not come back.
LEMMA HangupStays ==
    ASSUME Types, [Next]_vars, NEW d \in Clients, hangup[d] # "open"
    PROVE  hangup'[d] # "open"
<1>1. ASSUME NEW c \in Clients, bench_free(c) \/ stdin_eof(c)
      PROVE  hangup'[d] # "open"
  BY <1>1 DEF bench_free, stdin_eof, HangUp, Types
<1>2. ASSUME NEW h \in Handlers, answer(h)
      PROVE  hangup'[d] # "open"
  <2>1. Head(req_q[h]).client \in Clients
    BY <1>2, HeadRequest DEF answer, Types
  <2> QED
    BY <1>2, <2>1 DEF answer, Types
<1>3. ASSUME NEW c \in Clients,
             \/ open_socket(c) \/ connect(c) \/ connect_fails(c) \/ load_kvpairs(c) \/
                  load_killed(c)
             \/ wait_until_finish(c) \/ client_exit(c) \/ ack_check(c) \/ ack_read(c)
             \/ ack_disconnected(c)
      PROVE  hangup' = hangup
  BY <1>3 DEF open_socket, connect, connect_fails, load_kvpairs, load_killed,
       wait_until_finish, client_exit, ack_check, ack_read, ack_disconnected, netVars
<1>4. ASSUME \/ socket_init \/ create_master_thread \/ handler_init \/ join_master
             \/ epoll_wait \/ accept_new_client \/ read_requests \/ read_nothing
             \/ forward_req_to_hlr \/ UNCHANGED vars
      PROVE  hangup' = hangup
  BY <1>4 DEF socket_init, create_master_thread, handler_init, join_master, epoll_wait,
       accept_new_client, read_requests, read_nothing, forward_req_to_hlr, vars, netVars
<1>5. ASSUME Death
      PROVE  hangup' = hangup
  BY <1>5, DeathEffect
<1> QED
  BY <1>1, <1>2, <1>3, <1>4, <1>5, Deaths
     DEF Next, client_main, ack_poller, server_main, master_thread

\* Every step keeps a cause for the end of the master thread and for a crash.
LEMMA CauseStep ==
    ASSUME Types, LoopInv, ListenInv, StartInv, EndsOnlyByCause, [Next]_vars
    PROVE  EndsOnlyByCause'
<1> DEFINE Left == \E c \in Clients : hangup[c] # "open"
           LeftNext == \E c \in Clients : hangup'[c] # "open"
<1>1. Left => LeftNext
  BY HangupStays
<1>2. (mpc = "exit" => Left) /\ (process = "crashed" => nr_hlr < NUM_DEV \/ Left)
  BY DEF EndsOnlyByCause
<1> SUFFICES (mpc' = "exit" => LeftNext) /\ (process' = "crashed" => nr_hlr' < NUM_DEV \/ LeftNext)
  BY DEF EndsOnlyByCause
<1>3. ASSUME UNCHANGED <<mpc, process, nr_hlr>>
      PROVE  (mpc' = "exit" => LeftNext) /\ (process' = "crashed" => nr_hlr' < NUM_DEV \/ LeftNext)
  BY <1>1, <1>2, <1>3
<1>4. ASSUME NEW c \in Clients,
             client_main(c) \/ client_exit(c) \/ ack_poller(c) \/ stdin_eof(c)
      PROVE  UNCHANGED <<mpc, process, nr_hlr>>
  BY <1>4
     DEF client_main, ack_poller, open_socket, connect, connect_fails, load_kvpairs,
       load_killed, wait_until_finish, bench_free, client_exit, ack_check, ack_read,
       ack_disconnected, stdin_eof, serverVars
<1>5. ASSUME NEW h \in Handlers, answer(h)
      PROVE  UNCHANGED <<mpc, process, nr_hlr>>
  BY <1>5 DEF answer
<1>6. ASSUME socket_init \/ join_master \/ UNCHANGED vars
      PROVE  UNCHANGED <<mpc, process, nr_hlr>>
  BY <1>6 DEF socket_init, join_master, vars, serverVars
<1>7. ASSUME \/ create_master_thread \/ handler_init \/ epoll_wait \/ read_requests
             \/ forward_req_to_hlr
      PROVE  /\ mpc' = mpc \/ mpc' # "exit"
             /\ process' = "up"
  BY <1>7 DEF create_master_thread, handler_init, epoll_wait, read_requests,
       forward_req_to_hlr, NextEvent
<1>8. CASE accept_new_client
  <2>1. backlog # << >> /\ process = "up" /\ process' = process
    BY <1>8, AcceptHas DEF accept_new_client, AcceptReady
  <2>2. mpc' # "exit"
    BY <1>8, <2>1 DEF accept_new_client, NextEvent
  <2> QED
    BY <2>1, <2>2
<1>9. CASE read_nothing
  <2>1. process = "up" /\ process' = process /\ mpc = "event" /\ hangup' = hangup
    BY <1>9 DEF read_nothing, netVars
  <2>2. Head(events) \in Clients
    BY <1>9, <2>1, TailFacts DEF read_nothing, LoopInv, Types, Fds
  <2>3. mpc' = "exit" => hangup[Head(events)] \in {"eof", "reset"}
    BY <1>9 DEF read_nothing, NextEvent
  <2> QED
    BY <2>1, <2>2, <2>3
<1>10. ASSUME Death
       PROVE  UNCHANGED <<mpc, nr_hlr>>
  BY <1>10 DEF Death, Dies
<1>11. CASE socket_init_fails
  <2>1. nr_hlr = 0
    BY <1>11 DEF socket_init_fails, StartInv
  <2>2. nr_hlr' < NUM_DEV
    BY <1>10, <1>11, <2>1, Deaths, ServerAssumption
  <2> QED
    BY <1>1, <1>2, <1>10, <1>11, <2>2, Deaths
<1>17. CASE handler_init_fails
  <2>1. nr_hlr' < NUM_DEV
    BY <1>10, <1>17, Deaths DEF handler_init_fails
  <2> QED
    BY <1>1, <1>2, <1>10, <1>17, <2>1, Deaths
<1>12. CASE use_after_free
  <2>1. Left
    BY <1>2, <1>12 DEF use_after_free
  <2> QED
    BY <1>1, <2>1
<1>13. CASE main_returns \/ server_exit
  <2>1. process' = "ended"
    BY <1>13 DEF main_returns, server_exit, Dies
  <2> QED
    BY <1>1, <1>2, <1>10, <1>13, <2>1, Deaths
<1>14. CASE forward_crash
  <2>1. netreq_buf # << >> /\ netreq_buf \in Seq(Requests)
    BY <1>14 DEF forward_crash, LoopInv, Types
  <2>2. Head(netreq_buf).client \in Clients /\ Head(netreq_buf).seq \in SeqNums
    BY <2>1, HeadRequest
  <2>3. Target \in 1..NUM_DEV
    BY <2>2, ServerAssumption DEF Target, SeqNums
  <2>4. nr_hlr < NUM_DEV
    BY <1>14, <2>3, ServerAssumption DEF forward_crash, Types
  <2> QED
    BY <1>1, <1>2, <1>10, <1>14, <2>4, Deaths
<1>15. ASSUME NEW h \in Handlers, answer_killed(h)
       PROVE  LeftNext
  <2>1. Head(req_q[h]).client \in Clients
    BY <1>15, HeadRequest DEF answer_killed, Types
  <2>2. Left
    BY <1>15, <2>1 DEF answer_killed
  <2> QED
    BY <1>1, <2>2
<1>16. ASSUME \/ create_master_thread \/ handler_init \/ epoll_wait \/ read_requests
              \/ forward_req_to_hlr
       PROVE  (mpc' = "exit" => LeftNext) /\ (process' = "crashed" => nr_hlr' < NUM_DEV \/ LeftNext)
  BY <1>1, <1>2, <1>7, <1>16
<1> HIDE DEF Left, LeftNext
<1> QED
  BY <1>3, <1>4, <1>5, <1>6, <1>8, <1>9, <1>11, <1>12, <1>13, <1>14, <1>15, <1>16, <1>17
     DEF Next, server_main, master_thread

-----------------------------------------------------------------------------
(* The theorems. *)

\* The inductive invariant.
Inv ==
    /\ Types /\ LoopInv /\ ListenInv /\ StartInv
    /\ ClientInv /\ CreditInv
    /\ SentInv /\ OnceInv /\ CoverInv /\ BoundInv
    /\ AcksToTheirClient
    /\ NothingStranded
    /\ EndsOnlyByCause

\* The inductive invariant holds initially.
LEMMA InvInit == Init => Inv
<1>1. Init => NothingStranded /\ EndsOnlyByCause
  BY DEF Init, NothingStranded, EndsOnlyByCause
<1> QED
  BY <1>1, TypesInit, LoopInit, ClientInit, PlacesInit, BalanceInit DEF Inv

\* Every step keeps the inductive invariant.
LEMMA InvStep == Inv /\ [Next]_vars => Inv'
<1> SUFFICES ASSUME Inv, [Next]_vars
             PROVE  Inv'
  OBVIOUS
<1>1. /\ Types /\ LoopInv /\ ListenInv /\ StartInv /\ ClientInv /\ CreditInv
      /\ SentInv /\ OnceInv /\ CoverInv /\ BoundInv
      /\ AcksToTheirClient /\ NothingStranded /\ EndsOnlyByCause
  BY DEF Inv
<1>2. Types' /\ LoopInv' /\ ListenInv' /\ StartInv'
  BY <1>1, TypesStep, LoopStep, ListenStep, StartStep
<1>3. ClientInv' /\ SentInv' /\ OnceInv' /\ CoverInv' /\ AcksToTheirClient'
  BY <1>1, ClientStep, SentStep, OnceStep, CoverStep, BalanceStep
<1>4. BoundInv' /\ CreditInv'
  BY <1>1, <1>2, <1>3, BoundStep, CreditStep
<1>5. NothingStranded' /\ EndsOnlyByCause'
  BY <1>1, StrandedStep, CauseStep
<1> QED
  BY <1>2, <1>3, <1>4, <1>5 DEF Inv

\* The inductive invariant holds of every state of the server and its clients.
THEOREM Invariance == Spec => []Inv
<1>1. Init => Inv
  BY InvInit
<1>2. Inv /\ [Next]_vars => Inv'
  BY InvStep
<1> QED
  BY <1>1, <1>2, PTL DEF Spec

\* Every variable keeps its type; in particular no client's semaphore or unread
\* acknowledgements ever exceed CLIENT_QDEPTH, though ack_poller posts once for
\* every acknowledgement without knowing what main has sent.
THEOREM TypesHold == Spec => []TypeOK
<1>1. ASSUME Inv
      PROVE  TypeOK
  <2>1. Types /\ CreditInv
    BY <1>1 DEF Inv
  <2>2. ASSUME NEW c \in Clients
        PROVE  sem[c] \in 0..CLIENT_QDEPTH /\ acks[c] \in 0..CLIENT_QDEPTH
    <3>1. sem[c] \in Nat /\ acks[c] \in Nat /\ sem[c] + acks[c] <= CLIENT_QDEPTH
      BY <2>1 DEF Types, CreditInv
    <3> QED
      BY <3>1, ServerAssumption
  <2>3. sem \in [Clients -> 0..CLIENT_QDEPTH] /\ acks \in [Clients -> 0..CLIENT_QDEPTH]
    BY <2>1, <2>2 DEF Types
  <2> QED
    BY <2>1, <2>3 DEF Types, TypeOK
<1> QED
  BY <1>1, Invariance, PTL

\* __accept_new_client never calls accept() without a connection in the backlog,
\* however connections share the events of the listening socket.
THEOREM AcceptsHold == Spec => []AcceptReady
<1>1. Inv => AcceptReady
  BY AcceptHas DEF Inv
<1> QED
  BY <1>1, Invariance, PTL

\* The master thread ends, and the server crashes, only for a cause: a client
\* has hung up or the handlers were still being created.
THEOREM CausesHold == Spec => []EndsOnlyByCause
<1>1. Inv => EndsOnlyByCause
  BY DEF Inv
<1> QED
  BY <1>1, Invariance, PTL

\* No registered connection with requests in it is left without an event, for
\* any batch sizes and depths with CLIENT_QDEPTH at most MAX_NETREQ_BUF.
THEOREM StrandedNever == Spec => []NothingStranded
<1>1. Inv => NothingStranded
  BY DEF Inv
<1> QED
  BY <1>1, Invariance, PTL

\* Every acknowledgement reaches the client of its request, and posts its
\* semaphore once.
THEOREM AcksHold == Spec => []AcksToTheirClient
<1>1. Inv => AcksToTheirClient
  BY DEF Inv
<1> QED
  BY <1>1, Invariance, PTL

\* The positions at which a request is found are one at most in each place, and
\* none when it is in another place.
LEMMA CountOne ==
    ASSUME NEW S, \A x, y \in S : x = y, NEW x \in S
    PROVE  Cardinality(S) = 1
<1>1. S = {x}
  OBVIOUS
<1> QED
  BY <1>1, FS_Singleton

\* Every request of a connected client is in exactly one of its socket, the
\* master's buffer, the queue of its handler and the answered ones, while the
\* server is up: none is lost or handled twice as the clients' batches share
\* the buffer.
THEOREM ConservedHold == Spec => []RequestsConserved
<1>1. ASSUME Inv
      PROVE  RequestsConserved
  <2> SUFFICES ASSUME process = "up", NEW c \in Clients, sock[c] = "connected",
                      NEW n \in 1..seq_num[c]
               PROVE  Copies(c, n) = 1
    BY DEF RequestsConserved
  <2> DEFINE r == [client |-> c, seq |-> n]
             A == {i \in 1..Len(inbox[c]) : inbox[c][i] = n}
             B == {i \in 1..Len(netreq_buf) : netreq_buf[i] = r}
             C == {p \in Handlers \X (1..QDEPTH) :
                      p[2] <= Len(req_q[p[1]]) /\ req_q[p[1]][p[2]] = r}
             D == IF n \in answered[c] THEN 1 ELSE 0
  <2>1. Copies(c, n) = Cardinality(A) + Cardinality(B) + Cardinality(C) + D
    BY DEF Copies
  <2>2. Types /\ SentInv /\ OnceInv /\ BoundInv
    BY <1>1 DEF Inv
  <2>3. r.client = c /\ r.seq = n
    OBVIOUS
  <2>4. \/ \E i \in 1..Len(inbox[c]) : inbox[c][i] = n
        \/ \E i \in 1..Len(netreq_buf) : netreq_buf[i] = r
        \/ \E h \in Handlers : \E i \in 1..Len(req_q[h]) : req_q[h][i] = r
        \/ n \in answered[c]
    BY <1>1 DEF Inv, CoverInv, Somewhere
  <2> HIDE DEF r
  <2>5. \A i, j \in A : i = j
    BY <2>2 DEF OnceInv, InboxOnce
  <2>6. \A i, j \in B : i = j
    BY <2>2 DEF OnceInv, BufferOnce
  <2>7. ASSUME NEW p \in C
        PROVE  /\ p[1] \in Handlers /\ p[2] \in 1..Len(req_q[p[1]])
               /\ req_q[p[1]][p[2]] = r /\ p = <<p[1], p[2]>>
    BY <2>2 DEF Types
  <2>8. ASSUME NEW p \in C, NEW q \in C
        PROVE  p = q
    <3>1. p[1] = q[1]
      BY <2>2, <2>7, OneQueue
    <3>2. p[2] = q[2]
      BY <2>2, <2>7, <3>1 DEF OnceInv, QueueOnce
    <3> QED
      BY <2>7, <3>1, <3>2
  <2>9. ASSUME NEW h \in Handlers, NEW i \in 1..Len(req_q[h]), req_q[h][i] = r
        PROVE  <<h, i>> \in C
    <3>1. Len(req_q[h]) \in Nat /\ Len(req_q[h]) <= QDEPTH
      BY <2>2 DEF Types, BoundInv
    <3>2. i \in 1..QDEPTH /\ i <= Len(req_q[h])
      BY <3>1, ServerAssumption
    <3> QED
      BY <2>9, <3>2
  <2>10. n \in answered[c] => A = {} /\ B = {} /\ C = {}
    <3>1. n \in answered[c] => A = {}
      BY <2>2 DEF OnceInv, InboxNew
    <3>2. n \in answered[c] => B = {}
      BY <2>2, <2>3 DEF OnceInv, BufferNew
    <3>3. n \in answered[c] => C = {}
      BY <2>2, <2>3, <2>7 DEF OnceInv, QueueNew
    <3> QED
      BY <3>1, <3>2, <3>3
  <2>11. A = {} \/ B = {}
    BY <2>2, <2>3 DEF OnceInv, BufferOrInbox
  <2>12. A = {} \/ C = {}
    BY <2>2, <2>3, <2>7 DEF OnceInv, QueueOrInbox
  <2>13. B = {} \/ C = {}
    BY <2>2, <2>7 DEF OnceInv, QueueOrBuffer
  <2>14. A # {} \/ B # {} \/ C # {} \/ n \in answered[c]
    BY <2>4, <2>9
  <2> HIDE DEF A, B, C
  <2>15. /\ A # {} => Cardinality(A) = 1
         /\ B # {} => Cardinality(B) = 1
         /\ C # {} => Cardinality(C) = 1
    BY <2>5, <2>6, <2>8, CountOne
  <2>16. Cardinality({}) = 0
    BY FS_EmptySet
  <2>17. CASE n \in answered[c]
    <3>1. D = 1 /\ Cardinality(A) = 0 /\ Cardinality(B) = 0 /\ Cardinality(C) = 0
      BY <2>10, <2>16, <2>17
    <3> QED
      BY <2>1, <3>1
  <2>18. CASE n \notin answered[c]
    <3>1. D = 0
      BY <2>18
    <3>2. CASE A # {}
      <4>1. Cardinality(A) = 1 /\ Cardinality(B) = 0 /\ Cardinality(C) = 0
        BY <2>11, <2>12, <2>15, <2>16, <3>2
      <4> QED
        BY <2>1, <3>1, <4>1
    <3>3. CASE B # {}
      <4>1. Cardinality(A) = 0 /\ Cardinality(B) = 1 /\ Cardinality(C) = 0
        BY <2>11, <2>13, <2>15, <2>16, <3>3
      <4> QED
        BY <2>1, <3>1, <4>1
    <3>4. CASE C # {}
      <4>1. Cardinality(A) = 0 /\ Cardinality(B) = 0 /\ Cardinality(C) = 1
        BY <2>12, <2>13, <2>15, <2>16, <3>4
      <4> QED
        BY <2>1, <3>1, <4>1
    <3> QED
      BY <2>14, <2>18, <3>2, <3>3, <3>4
  <2> QED
    BY <2>17, <2>18
<1> QED
  BY <1>1, Invariance, PTL
=============================================================================
