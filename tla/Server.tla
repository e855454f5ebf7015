------------------------------- MODULE Server -------------------------------
(***************************************************************************)
(* Several clients (src/client.cc) and one server process (src/temp.cc,    *)
(* src/master.c) from start-up to the end: the order in which master_init  *)
(* starts its threads, the listening socket and its backlog, the batches   *)
(* of edge-triggered events, the disconnects and the signal that ends a    *)
(* client.  What a handler does with a request is one step here; the pool, *)
(* the lock and the delays of the socket are in RequestPath.               *)
(*                                                                         *)
(* Threads: main and master of the server, its handlers, and of each       *)
(* client main and ack_poller.                                             *)
(***************************************************************************)
EXTENDS Integers, Sequences, FiniteSets, Functions

CONSTANTS Clients,
          NUM_DEV,         \* handlers, one per device
          Route,           \* handler of a client's request with a given seq_num
          NR_KEY,          \* requests a client sends
          CLIENT_QDEPTH,   \* requests a client leaves unanswered at most
          NR_BATCH,        \* requests a client sends at a time
          MAX_NETREQ_BUF,  \* requests the master reads at a time
          QDEPTH,          \* requests in flight in a handler
          Interrupted,     \* the clients that get a SIGINT
          StdinAtEnd,      \* the clients whose descriptor 0 is at its end; the
                           \* others have a terminal nobody types at
          LISTEN           \* the listening socket (mas->fd)

ASSUME ServerAssumption ==
    /\ IsFiniteSet(Clients)
    /\ NUM_DEV \in Nat \ {0}
    /\ NR_KEY \in Nat \ {0}
    /\ Route \in [Clients -> [1..NR_KEY -> 1..NUM_DEV]]
    /\ NR_BATCH \in 1..CLIENT_QDEPTH
    /\ CLIENT_QDEPTH \in 1..MAX_NETREQ_BUF
    /\ MAX_NETREQ_BUF \in Nat
    /\ QDEPTH \in Nat \ {0}
    /\ Interrupted \subseteq Clients
    /\ StdinAtEnd \subseteq Clients
    /\ LISTEN \notin Clients

VARIABLES
    \* the clients
    main,        \* main: "init", "connect", "load", "finish", "join", "closed", "abort"
    poller,      \* ack_poller: "check", "read", "read_stdin", "done"
    sock,        \* its descriptor: 0 until connect_server, then "open",
                 \* "connected" or "closed"
    seq_num,     \* seq_num_global
    sem,         \* the semaphore
    acks,        \* acknowledgements in the socket
    \* the kernel of the server
    backlog,     \* connections to be accepted
    inbox,       \* requests of a client to be read
    hangup,      \* the client's side is "open", or closed: "eof" or "reset"
    ready,       \* the ready list of epoll
    \* the server
    process,     \* "up", "ended" or "crashed"
    smain,       \* main: "socket", "thread", "create", "join"
    nr_hlr,      \* handlers created (mas->hlr[i] is set)
    mpc,         \* master: "none", "epoll_wait", "event", "forward", "exit"
    events,      \* events of the batch still to be handled
    netreq_buf,  \* requests read and still to be forwarded
    req_q,       \* requests in flight of each handler
    accepted,    \* clients registered with epoll
    \* history
    answered     \* of each client, the requests acknowledged

clientVars == <<main, poller, sock, seq_num, sem>>
netVars    == <<acks, backlog, inbox, hangup, ready>>
serverVars == <<process, smain, nr_hlr, mpc, events, netreq_buf, req_q, accepted>>
vars == <<clientVars, netVars, serverVars, answered>>

Handlers == 1..NUM_DEV
SeqNums  == 1..NR_KEY
Fds      == Clients \cup {LISTEN}

Init ==
    /\ main = [c \in Clients |-> "init"]
    /\ poller = [c \in Clients |-> "check"]
    /\ sock = [c \in Clients |-> "0"]
    /\ seq_num = [c \in Clients |-> 0]
    /\ sem = [c \in Clients |-> CLIENT_QDEPTH]
    /\ acks = [c \in Clients |-> 0]
    /\ backlog = << >>
    /\ inbox = [c \in Clients |-> << >>]
    /\ hangup = [c \in Clients |-> "open"]
    /\ ready = << >>
    /\ process = "up"
    /\ smain = "socket"
    /\ nr_hlr = 0
    /\ mpc = "none"
    /\ events = << >>
    /\ netreq_buf = << >>
    /\ req_q = [h \in Handlers |-> << >>]
    /\ accepted = {}
    /\ answered = [c \in Clients |-> {}]

\* An edge: the descriptor joins the ready list unless it is there already.
Raise(fd) == IF fd \in Range(ready) THEN ready ELSE Append(ready, fd)

\* An event of a connection is raised only once the connection is registered.
RaiseClient(c) == IF c \in accepted THEN Raise(c) ELSE ready

\* The server process is gone, and with it its sockets and its memory.
Dies(how) ==
    /\ process' = how
    /\ backlog' = << >>
    /\ inbox' = [c \in Clients |-> << >>]
    /\ ready' = << >>
    /\ events' = << >>
    /\ netreq_buf' = << >>
    /\ req_q' = [h \in Handlers |-> << >>]
    /\ accepted' = {}
    /\ UNCHANGED <<smain, mpc, acks, hangup, clientVars, answered>>

-----------------------------------------------------------------------------
(* A client.  bench_init has started ack_poller before main goes on. *)

\* connect_server, socket().
open_socket(c) ==
    /\ main[c] = "init"
    /\ main' = [main EXCEPT ![c] = "connect"]
    /\ sock' = [sock EXCEPT ![c] = "open"]
    /\ UNCHANGED <<poller, seq_num, sem, netVars, serverVars, answered>>

\* connect_server, connect(): the kernel of the server completes it whether
\* or not the connection is ever accepted.
connect(c) ==
    /\ main[c] = "connect"
    /\ sock[c] = "open"
    /\ process = "up"
    /\ smain # "socket"
    /\ main' = [main EXCEPT ![c] = "load"]
    /\ sock' = [sock EXCEPT ![c] = "connected"]
    /\ backlog' = Append(backlog, c)
    /\ ready' = Raise(LISTEN)
    /\ UNCHANGED <<poller, seq_num, sem, acks, inbox, hangup, serverVars, answered>>

\* Nobody listens, or ack_poller has closed the descriptor: abort().
connect_fails(c) ==
    /\ main[c] = "connect"
    /\ sock[c] = "closed" \/ process # "up" \/ smain = "socket"
    /\ main' = [main EXCEPT ![c] = "abort"]
    /\ sock' = [sock EXCEPT ![c] = "closed"]
    /\ UNCHANGED <<poller, seq_num, sem, netVars, serverVars, answered>>

\* get_next_key_for_load has a key: load_cnt, which goes up with every key as
\* seq_num_global does, has not reached nr_key.
KeysLeft(c) == NR_KEY - seq_num[c]

Batch(c) ==
    LET n == IF KeysLeft(c) < NR_BATCH THEN KeysLeft(c) ELSE NR_BATCH
    IN  [i \in 1..n |-> seq_num[c] + i]

\* load_kvpairs: a batch is sent; the result of write() is not looked at.  The
\* semaphore has no other taker, so that its decrements can be taken together.
load_kvpairs(c) ==
    /\ main[c] = "load"
    /\ sem[c] >= Len(Batch(c))
    /\ sem' = [sem EXCEPT ![c] = @ - Len(Batch(c))]
    /\ seq_num' = [seq_num EXCEPT ![c] = @ + Len(Batch(c))]
    /\ main' = [main EXCEPT ![c] = IF Len(Batch(c)) = KeysLeft(c) THEN "finish" ELSE "load"]
    /\ IF sock[c] = "connected" /\ process = "up"
       THEN /\ inbox' = [inbox EXCEPT ![c] = @ \o Batch(c)]
            /\ ready' = RaiseClient(c)
       ELSE UNCHANGED <<inbox, ready>>
    /\ UNCHANGED <<poller, sock, acks, backlog, hangup, serverVars, answered>>

\* The second write to a connection that the server's end has reset: SIGPIPE.
load_killed(c) ==
    /\ main[c] = "load"
    /\ sock[c] = "connected"
    /\ process # "up"
    /\ main' = [main EXCEPT ![c] = "abort"]
    /\ sock' = [sock EXCEPT ![c] = "closed"]
    /\ UNCHANGED <<poller, seq_num, sem, netVars, serverVars, answered>>

\* wait_until_finish returns, bench_free sets stopflag.
wait_until_finish(c) ==
    /\ main[c] = "finish"
    /\ sem[c] = CLIENT_QDEPTH
    /\ main' = [main EXCEPT ![c] = "join"]
    /\ UNCHANGED <<poller, sock, seq_num, sem, netVars, serverVars, answered>>

\* SIGINT: client_exit runs bench_free, and main never goes on.
client_exit(c) ==
    /\ c \in Interrupted
    /\ main[c] \in {"init", "connect", "load", "finish"}
    /\ main' = [main EXCEPT ![c] = "join"]
    /\ UNCHANGED <<poller, sock, seq_num, sem, netVars, serverVars, answered>>

\* What the server's kernel sees of a close: the end of the stream, or a
\* reset when acknowledgements were left unread.
HangUp(c) ==
    IF sock[c] = "connected" /\ process = "up"
    THEN /\ hangup' = [hangup EXCEPT ![c] = IF acks[c] > 0 THEN "reset" ELSE "eof"]
         /\ ready' = RaiseClient(c)
    ELSE UNCHANGED <<hangup, ready>>

\* bench_free: ack_poller has ended, close the connection and exit.
bench_free(c) ==
    /\ main[c] = "join"
    /\ poller[c] = "done"
    /\ main' = [main EXCEPT ![c] = "closed"]
    /\ HangUp(c)
    /\ sock' = [sock EXCEPT ![c] = "closed"]
    /\ UNCHANGED <<poller, seq_num, sem, acks, backlog, inbox, serverVars, answered>>

\* ack_poller: stopflag is looked at before each read.  The read is one of
\* descriptor 0 until connect_server has set sock; reads of a socket that is
\* not connected, or closed, fail at once and the loop goes on.
ack_check(c) ==
    /\ poller[c] = "check"
    /\ main[c] # "abort"
    /\ \/ /\ main[c] \in {"join", "closed"}
          /\ poller' = [poller EXCEPT ![c] = "done"]
       \/ /\ main[c] \notin {"join", "closed"}
          /\ sock[c] = "0"
          /\ poller' = [poller EXCEPT ![c] = "read_stdin"]
       \/ /\ main[c] \notin {"join", "closed"}
          /\ sock[c] = "connected"
          /\ poller' = [poller EXCEPT ![c] = "read"]
    /\ UNCHANGED <<main, sock, seq_num, sem, netVars, serverVars, answered>>

\* Mutant: the semaphore is posted for the buffer's full length.
ack_read_full(c) ==
    /\ poller[c] = "read"
    /\ main[c] # "abort"
    /\ acks[c] > 0
    /\ sem' = [sem EXCEPT ![c] = @ + CLIENT_QDEPTH]
    /\ acks' = [acks EXCEPT ![c] = 0]
    /\ poller' = [poller EXCEPT ![c] = "check"]
    /\ UNCHANGED <<main, sock, seq_num, backlog, inbox, hangup, ready, serverVars, answered>>

\* The acks that are there are read, and each posts the semaphore.
ack_read(c) ==
    /\ poller[c] = "read"
    /\ main[c] # "abort"
    /\ acks[c] > 0
    /\ sem' = [sem EXCEPT ![c] = @ + acks[c]]
    /\ acks' = [acks EXCEPT ![c] = 0]
    /\ poller' = [poller EXCEPT ![c] = "check"]
    /\ UNCHANGED <<main, sock, seq_num, backlog, inbox, hangup, ready, serverVars, answered>>

\* The server is gone: "Disconnected!".  main goes on without knowing it.
ack_disconnected(c) ==
    /\ poller[c] = "read"
    /\ main[c] # "abort"
    /\ acks[c] = 0
    /\ process # "up"
    /\ poller' = [poller EXCEPT ![c] = "done"]
    /\ sock' = [sock EXCEPT ![c] = "closed"]
    /\ UNCHANGED <<main, seq_num, sem, netVars, serverVars, answered>>

\* Descriptor 0 is at its end: ack_poller closes whatever sock is by now.
stdin_eof(c) ==
    /\ c \in StdinAtEnd
    /\ poller[c] = "read_stdin"
    /\ main[c] # "abort"
    /\ poller' = [poller EXCEPT ![c] = "done"]
    /\ HangUp(c)
    /\ sock' = [sock EXCEPT ![c] = IF sock[c] = "0" THEN "0" ELSE "closed"]
    /\ UNCHANGED <<main, seq_num, sem, acks, backlog, inbox, serverVars, answered>>

client_main(c) ==
    \/ open_socket(c)
    \/ connect(c)
    \/ connect_fails(c)
    \/ load_kvpairs(c)
    \/ load_killed(c)
    \/ wait_until_finish(c)
    \/ bench_free(c)

ack_poller(c) == ack_check(c) \/ ack_read(c) \/ ack_disconnected(c)

-----------------------------------------------------------------------------
(* main of the server: master_init, then pthread_join. *)

\* __socket_init and the registration of the socket with epoll.
socket_init ==
    /\ process = "up"
    /\ smain = "socket"
    /\ smain' = "thread"
    /\ UNCHANGED <<process, nr_hlr, mpc, events, netreq_buf, req_q, accepted,
                   clientVars, netVars, answered>>

\* One of the calls fails: master_init returns NULL, which main dereferences.
socket_init_fails ==
    /\ process = "up"
    /\ smain = "socket"
    /\ Dies("crashed")
    /\ UNCHANGED nr_hlr

create_master_thread ==
    /\ process = "up"
    /\ smain = "thread"
    /\ smain' = "create"
    /\ mpc' = "epoll_wait"
    /\ UNCHANGED <<process, nr_hlr, events, netreq_buf, req_q, accepted,
                   clientVars, netVars, answered>>

\* The next handler is stored in mas.  When the master thread has ended it has
\* freed mas: main then writes to freed memory, and reads the id of the thread
\* to join from it, with or without a crash.
handler_init ==
    /\ process = "up"
    /\ smain = "create"
    /\ nr_hlr < NUM_DEV
    /\ nr_hlr' = nr_hlr + 1
    /\ UNCHANGED <<process, smain, mpc, events, netreq_buf, req_q, accepted,
                   clientVars, netVars, answered>>

\* The device cannot be opened or io_setup fails: abort().
handler_init_fails ==
    /\ process = "up"
    /\ smain = "create"
    /\ nr_hlr < NUM_DEV
    /\ Dies("crashed")
    /\ UNCHANGED nr_hlr

join_master ==
    /\ process = "up"
    /\ smain = "create"
    /\ nr_hlr = NUM_DEV
    /\ smain' = "join"
    /\ UNCHANGED <<process, nr_hlr, mpc, events, netreq_buf, req_q, accepted,
                   clientVars, netVars, answered>>

use_after_free ==
    /\ process = "up"
    /\ smain = "create"
    /\ mpc = "exit"
    /\ Dies("crashed")
    /\ UNCHANGED nr_hlr

\* The master thread has ended, and with it the process.
main_returns ==
    /\ process = "up"
    /\ smain = "join"
    /\ mpc = "exit"
    /\ Dies("ended")
    /\ UNCHANGED nr_hlr

\* SIGINT: the handler calls exit().
server_exit ==
    /\ process = "up"
    /\ Dies("ended")
    /\ UNCHANGED nr_hlr

server_main ==
    \/ socket_init
    \/ create_master_thread
    \/ handler_init
    \/ join_master
    \/ use_after_free
    \/ main_returns

-----------------------------------------------------------------------------
(* The master thread. *)

epoll_wait ==
    /\ process = "up"
    /\ mpc = "epoll_wait"
    /\ ready # << >>
    /\ events' = ready
    /\ ready' = << >>
    /\ mpc' = "event"
    /\ UNCHANGED <<process, smain, nr_hlr, netreq_buf, req_q, accepted,
                   clientVars, acks, backlog, inbox, hangup, answered>>

\* Mutant: the rest of the batch is dropped.
NextEvent_drop ==
    /\ events' = << >>
    /\ mpc' = "epoll_wait"

\* The rest of the batch, and of the loop of master_thread.
NextEvent ==
    /\ events' = Tail(events)
    /\ mpc' = IF Len(events) = 1 THEN "epoll_wait" ELSE "event"

\* Mutant: accepts all that have connected.
accept_new_client_all ==
    /\ process = "up"
    /\ mpc = "event"
    /\ Head(events) = LISTEN
    /\ IF backlog = << >>
       THEN /\ mpc' = "exit"
            /\ UNCHANGED <<events, accepted, backlog, ready>>
       ELSE LET c == Head(backlog)
            IN  /\ accepted' = accepted \cup Range(backlog)
                /\ ready' = IF inbox[c] # << >> \/ hangup[c] # "open"
                            THEN Raise(c) ELSE ready
                /\ backlog' = << >>
                /\ NextEvent
    /\ UNCHANGED <<process, smain, nr_hlr, netreq_buf, req_q, clientVars, acks,
                   inbox, hangup, answered>>

\* __accept_new_client: one connection per event; when accept() has nothing to
\* return the master thread ends.  A connection with requests in it, or closed
\* already, is ready as soon as it is registered.
accept_new_client ==
    /\ process = "up"
    /\ mpc = "event"
    /\ Head(events) = LISTEN
    /\ IF backlog = << >>
       THEN /\ mpc' = "exit"
            /\ UNCHANGED <<events, accepted, backlog, ready>>
       ELSE LET c == Head(backlog)
            IN  /\ accepted' = accepted \cup {c}
                /\ ready' = IF inbox[c] # << >> \/ hangup[c] # "open"
                            THEN Raise(c) ELSE ready
                /\ backlog' = Tail(backlog)
                /\ NextEvent
    /\ UNCHANGED <<process, smain, nr_hlr, netreq_buf, req_q, clientVars, acks,
                   inbox, hangup, answered>>

\* Mutant: one request is read per event.
read_requests_one ==
    /\ process = "up"
    /\ mpc = "event"
    /\ Head(events) # LISTEN
    /\ LET c == Head(events)
           n == IF inbox[c] = << >> THEN 0 ELSE 1
       IN  /\ n > 0
           /\ netreq_buf' = [i \in 1..n |-> [client |-> c, seq |-> inbox[c][i]]]
           /\ inbox' = [inbox EXCEPT ![c] = SubSeq(@, n + 1, Len(@))]
    /\ mpc' = "forward"
    /\ UNCHANGED <<process, smain, nr_hlr, events, req_q, accepted, clientVars,
                   acks, backlog, hangup, ready, answered>>

\* __process_request, one read of what the connection holds.
read_requests ==
    /\ process = "up"
    /\ mpc = "event"
    /\ Head(events) # LISTEN
    /\ LET c == Head(events)
           n == IF Len(inbox[c]) < MAX_NETREQ_BUF THEN Len(inbox[c]) ELSE MAX_NETREQ_BUF
       IN  /\ n > 0
           /\ netreq_buf' = [i \in 1..n |-> [client |-> c, seq |-> inbox[c][i]]]
           /\ inbox' = [inbox EXCEPT ![c] = SubSeq(@, n + 1, Len(@))]
    /\ mpc' = "forward"
    /\ UNCHANGED <<process, smain, nr_hlr, events, req_q, accepted, clientVars,
                   acks, backlog, hangup, ready, answered>>

\* Mutant: a read without data is taken for a disconnect.
read_nothing_ends ==
    /\ process = "up"
    /\ mpc = "event"
    /\ Head(events) # LISTEN
    /\ inbox[Head(events)] = << >>
    /\ mpc' = "exit"
    /\ accepted' = accepted \ {Head(events)}
    /\ UNCHANGED events
    /\ UNCHANGED <<process, smain, nr_hlr, netreq_buf, req_q, clientVars, netVars, answered>>

\* The read fails (EAGAIN, or ECONNRESET once) and the loop goes on, or it
\* returns 0, and the disconnect ends the master thread.  A connection that was
\* reset returns 0 if the end of its stream had come before, or if a read has
\* been told of the reset already.
read_nothing ==
    /\ process = "up"
    /\ mpc = "event"
    /\ Head(events) # LISTEN
    /\ inbox[Head(events)] = << >>
    /\ \/ /\ hangup[Head(events)] \in {"eof", "reset"}
          /\ mpc' = "exit"
          /\ accepted' = accepted \ {Head(events)}
          /\ UNCHANGED events
       \/ /\ hangup[Head(events)] \in {"open", "reset"}
          /\ NextEvent
          /\ UNCHANGED accepted
    /\ UNCHANGED <<process, smain, nr_hlr, netreq_buf, req_q, clientVars, netVars, answered>>

Target == Route[Head(netreq_buf).client][Head(netreq_buf).seq]

\* Mutant: only the first request of a read is forwarded.
forward_req_first ==
    /\ process = "up"
    /\ mpc = "forward"
    /\ Target <= nr_hlr
    /\ Len(req_q[Target]) < QDEPTH
    /\ req_q' = [req_q EXCEPT ![Target] = Append(@, Head(netreq_buf))]
    /\ netreq_buf' = << >>
    /\ NextEvent
    /\ UNCHANGED <<process, smain, nr_hlr, accepted, clientVars, netVars, answered>>

\* make_request_from_netreq and forward_req_to_hlr, which waits while QDEPTH
\* requests are in flight.
forward_req_to_hlr ==
    /\ process = "up"
    /\ mpc = "forward"
    /\ Target <= nr_hlr
    /\ Len(req_q[Target]) < QDEPTH
    /\ req_q' = [req_q EXCEPT ![Target] = Append(@, Head(netreq_buf))]
    /\ netreq_buf' = Tail(netreq_buf)
    /\ IF Len(netreq_buf) = 1 THEN NextEvent ELSE UNCHANGED <<events, mpc>>
    /\ UNCHANGED <<process, smain, nr_hlr, accepted, clientVars, netVars, answered>>

\* mas->hlr[i] is still NULL.
forward_crash ==
    /\ process = "up"
    /\ mpc = "forward"
    /\ Target > nr_hlr
    /\ Dies("crashed")
    /\ UNCHANGED nr_hlr

master_thread ==
    \/ epoll_wait
    \/ accept_new_client
    \/ read_requests
    \/ read_nothing
    \/ forward_req_to_hlr
    \/ forward_crash

-----------------------------------------------------------------------------
(* The handlers. *)

\* Mutant: cl_sock is that of the request accepted last.
answer_last(h) ==
    /\ process = "up"
    /\ req_q[h] # << >>
    /\ LET c == Head(req_q[h]).client
           d == req_q[h][Len(req_q[h])].client
       IN  /\ IF hangup[d] = "open"
              THEN /\ acks' = [acks EXCEPT ![d] = @ + 1]
                   /\ UNCHANGED <<hangup, ready>>
              ELSE /\ hangup' = [hangup EXCEPT ![d] = "reset"]
                   /\ ready' = IF hangup[d] = "eof" THEN RaiseClient(d) ELSE ready
                   /\ UNCHANGED acks
           /\ answered' = [answered EXCEPT ![c] = @ \cup {Head(req_q[h]).seq}]
    /\ req_q' = [req_q EXCEPT ![h] = Tail(@)]
    /\ UNCHANGED <<process, smain, nr_hlr, mpc, events, netreq_buf, accepted,
                   clientVars, backlog, inbox>>

\* request_handler answers and releases the request.  The answer to a client
\* that has closed comes back as a reset.
answer(h) ==
    /\ process = "up"
    /\ req_q[h] # << >>
    /\ LET c == Head(req_q[h]).client
       IN  /\ IF hangup[c] = "open"
              THEN /\ acks' = [acks EXCEPT ![c] = @ + 1]
                   /\ UNCHANGED <<hangup, ready>>
              ELSE /\ hangup' = [hangup EXCEPT ![c] = "reset"]
                   /\ ready' = IF hangup[c] = "eof" THEN RaiseClient(c) ELSE ready
                   /\ UNCHANGED acks
           /\ answered' = [answered EXCEPT ![c] = @ \cup {Head(req_q[h]).seq}]
    /\ req_q' = [req_q EXCEPT ![h] = Tail(@)]
    /\ UNCHANGED <<process, smain, nr_hlr, mpc, events, netreq_buf, accepted,
                   clientVars, backlog, inbox>>

\* The write to a connection that was reset: SIGPIPE.
answer_killed(h) ==
    /\ process = "up"
    /\ req_q[h] # << >>
    /\ hangup[Head(req_q[h]).client] = "reset"
    /\ Dies("crashed")
    /\ UNCHANGED nr_hlr

-----------------------------------------------------------------------------
Next ==
    \/ \E c \in Clients : client_main(c) \/ client_exit(c)
    \/ \E c \in Clients : ack_poller(c) \/ stdin_eof(c)
    \/ server_main
    \/ socket_init_fails \/ handler_init_fails \/ server_exit
    \/ master_thread
    \/ \E h \in Handlers : answer(h) \/ answer_killed(h)

Spec == Init /\ [][Next]_vars

\* Every thread that can run goes on.
Fairness ==
    /\ \A c \in Clients : WF_vars(client_main(c)) /\ WF_vars(ack_poller(c))
    /\ WF_vars(server_main)
    /\ WF_vars(master_thread)
    /\ \A h \in Handlers : WF_vars(answer(h))

FairSpec == Spec /\ Fairness

-----------------------------------------------------------------------------
(* Properties. *)

Requests == [client : Clients, seq : SeqNums]

TypeOK ==
    /\ main \in [Clients -> {"init", "connect", "load", "finish", "join", "closed", "abort"}]
    /\ poller \in [Clients -> {"check", "read", "read_stdin", "done"}]
    /\ sock \in [Clients -> {"0", "open", "connected", "closed"}]
    /\ seq_num \in [Clients -> 0..NR_KEY]
    /\ sem \in [Clients -> 0..CLIENT_QDEPTH]
    /\ acks \in [Clients -> 0..CLIENT_QDEPTH]
    /\ backlog \in Seq(Clients)
    /\ inbox \in [Clients -> Seq(SeqNums)]
    /\ hangup \in [Clients -> {"open", "eof", "reset"}]
    /\ ready \in Seq(Fds)
    /\ process \in {"up", "ended", "crashed"}
    /\ smain \in {"socket", "thread", "create", "join"}
    /\ nr_hlr \in 0..NUM_DEV
    /\ mpc \in {"none", "epoll_wait", "event", "forward", "exit"}
    /\ events \in Seq(Fds)
    /\ netreq_buf \in Seq(Requests)
    /\ req_q \in [Handlers -> Seq(Requests)]
    /\ accepted \in SUBSET Clients
    /\ answered \in [Clients -> SUBSET SeqNums]

\* accept() always has a connection to return: connections that share an event
\* leave one behind, but never an event without a connection, whose accept()
\* would end the master thread.
AcceptReady ==
    process = "up" /\ mpc = "event" /\ Head(events) = LISTEN => backlog # << >>

\* While the master runs, every registered connection with requests in it has
\* an event to come: the requests that arrive before the connection is
\* accepted, while its event is in a batch, or while the master waits for a
\* handler are not left without one.
NothingStranded ==
    mpc \in {"epoll_wait", "event", "forward"} =>
        \A c \in accepted :
            inbox[c] # << >> =>
              \/ c \in Range(ready)
              \/ \E i \in (IF mpc = "forward" THEN 2 ELSE 1)..Len(events) : events[i] = c

\* The requests of every connected client are accounted for one by one: each
\* is in its socket, in the master's buffer, in a handler, or answered, and in
\* one of them only, however the clients' batches share the one buffer.
Copies(c, n) ==
    LET req == [client |-> c, seq |-> n]
    IN  Cardinality({i \in 1..Len(inbox[c]) : inbox[c][i] = n})
        + Cardinality({i \in 1..Len(netreq_buf) : netreq_buf[i] = req})
        + Cardinality({p \in Handlers \X (1..QDEPTH) :
                          p[2] <= Len(req_q[p[1]]) /\ req_q[p[1]][p[2]] = req})
        + (IF n \in answered[c] THEN 1 ELSE 0)

RequestsConserved ==
    process = "up" =>
        \A c \in Clients :
            sock[c] = "connected" => \A n \in 1..seq_num[c] : Copies(c, n) = 1

\* Every acknowledgement goes to the client that sent the request, and is
\* counted by its semaphore once.
AcksToTheirClient ==
    \A c \in Clients :
        sock[c] = "connected" =>
            sem[c] + seq_num[c] - (Cardinality(answered[c]) - acks[c]) = CLIENT_QDEPTH

\* The master thread ends only because a client hung up, and the server crashes
\* only because of that or while its handlers are still being created: it never
\* runs into an accept() without a connection, a handler that does not exist or
\* a stray event once it is up.
EndsOnlyByCause ==
    /\ mpc = "exit" => \E c \in Clients : hangup[c] # "open"
    /\ process = "crashed" => nr_hlr < NUM_DEV \/ \E c \in Clients : hangup[c] # "open"

\* What may keep a client from finishing while the server is up: its connection
\* stays in the backlog, which takes another client whose connection came too,
\* now or earlier (a client alone is always accepted); or its ack_poller reads,
\* or has read, descriptor 0.
LeftBehind(c) ==
    /\ c \in Range(backlog)
    /\ \E d \in Clients \ {c} : sock[d] \notin {"0", "open"}

ReadsStdin(c) ==
    poller[c] = "read_stdin" \/ (poller[c] = "done" /\ main[c] \in {"load", "finish"})

\* Every client finishes its load, finds no server, outlives it, or meets one
\* of those two mishaps for good.
ClientFinishes ==
    \A c \in Clients :
        <>[](\/ main[c] \in {"join", "closed", "abort"}
             \/ process # "up"
             \/ LeftBehind(c)
             \/ ReadsStdin(c))
=============================================================================
