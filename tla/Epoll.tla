-------------------------------- MODULE Epoll -------------------------------
(***************************************************************************)
(* The epoll ingest server (src/core/ingest/epoll.cpp), from start() to    *)
(* stop(): an accept thread that hands each connection to a worker, and    *)
(* workers that wait on an epoll set each, edge-triggered.  What is known  *)
(* of a connection is in a map whose key is the descriptor, a number the   *)
(* kernel gives to another connection as soon as it is closed.             *)
(*                                                                         *)
(* The kernel (sockets, the lowest free descriptor, epoll) is modelled as  *)
(* the code uses it.  Peers connect, send their stream in pieces and hang  *)
(* up.  Left out: the statistics, which nobody reads; tryPush, which here  *)
(* takes every event (see Ingest).                                         *)
(***************************************************************************)
EXTENDS Framing, FiniteSets, Functions

CONSTANTS
    Conn,           \* the connections peers make
    NoConn,         \* none
    Stream,         \* Stream[c]: the bytes the peer of c can send
    Cut,            \* bound: Cut[c], where it may stop in between
    MaxFd,          \* bound: the descriptors there are
    numWorkers_,
    maxEvents_,     \* the most events one epoll_wait() gives (64)
    kReadChunk      \* the most bytes one recv() gives (4096)

ASSUME EpollAssumption == /\ {MaxFd, numWorkers_, maxEvents_, kReadChunk} \subseteq Nat \ {0}
                          /\ NoConn \notin Conn /\ Stream \in [Conn -> Seq(0 .. Base - 1)]
                          /\ \A c \in Conn : Cut[c] \subseteq 1 .. Len(Stream[c])

Fd == 1 .. MaxFd
NoFd == 0
Worker == 0 .. numWorkers_ - 1

VARIABLES
    isRunning_, listening, epollOpen,
    mpc,            \* the thread that calls start() and stop()
    apc, afd,       \* the accept thread, and the descriptor it has at hand
    nextWorker,
    socket,         \* the kernel's table: the connection behind a descriptor
    peer, sent,     \* what a peer does, and how many bytes it has sent
    interest, ready,\* a worker's epoll set, and the edges not yet reported
    wpc,            \* a worker's thread
    batch,          \* the events epoll_wait returned: <<descriptor, hung up>>
    cur,            \* the descriptor of the event at hand
    connections_,   \* the map
    got, events,    \* history: the bytes received and the events made, by client
    tripped         \* history: the connections that broke a limit

server == <<isRunning_, listening, epollOpen, mpc>>
accepting == <<apc, afd, nextWorker>>
network == <<socket, peer, sent, interest, ready>>
workers == <<wpc, batch, cur>>
history == <<got, events, tripped>>
vars == <<server, accepting, network, workers, connections_, history>>

\* An absent entry; what a new one has beside clientAddress, which tells the
\* connections apart.
NoState == [clientAddress |-> NoConn, buffer |-> << >>, emptyFrameCount |-> 0]

Init == /\ isRunning_ = FALSE /\ listening = FALSE /\ epollOpen = FALSE /\ mpc = "new"
        /\ apc = "none" /\ afd = NoFd /\ nextWorker = 0
        /\ socket = [fd \in Fd |-> NoConn]
        /\ peer = [c \in Conn |-> "away"] /\ sent = [c \in Conn |-> 0]
        /\ interest = [w \in Worker |-> {}] /\ ready = [w \in Worker |-> {}]
        /\ wpc = [w \in Worker |-> "none"] /\ batch = [w \in Worker |-> {}]
        /\ cur = [w \in Worker |-> NoFd]
        /\ connections_ = [fd \in Fd |-> NoState]
        /\ got = [c \in Conn |-> 0] /\ events = [c \in Conn |-> << >>] /\ tripped = {}

----------------------------------------------------------------------------
(* start() and stop() *)

\* One of the system calls may fail; then there is no thread and the socket is
\* closed.  (epollFds_ keeps the numbers of the sets made before the failure; that
\* stop() closes those once more touches nothing the server has.)
Start == /\ mpc = "new"
         /\ isRunning_' = TRUE
         /\ \/ /\ listening' = TRUE /\ epollOpen' = TRUE
               /\ apc' = "test" /\ wpc' = [w \in Worker |-> "test"]
            \/ UNCHANGED <<listening, epollOpen, apc, wpc>>
         /\ mpc' = "started"
         /\ UNCHANGED <<afd, nextWorker, network, batch, cur, connections_, history>>

StopFlag == /\ mpc = "started"
            /\ isRunning_' = FALSE
            /\ mpc' = "close"
            /\ UNCHANGED <<listening, epollOpen, accepting, network, workers, connections_, history>>

\* The socket and the epoll descriptors are closed, under the feet of the other
\* threads, and epollFds_ is cleared.
StopClose == /\ mpc = "close"
             /\ listening' = FALSE /\ epollOpen' = FALSE
             /\ mpc' = "accept"
             /\ UNCHANGED <<isRunning_, accepting, network, workers, connections_, history>>

StopAccept == /\ mpc = "accept"
              /\ apc \in {"none", "done"}
              /\ mpc' = "workers"
              /\ UNCHANGED <<isRunning_, listening, epollOpen, accepting, network, workers,
                             connections_, history>>

\* The workers are not waited for.
WorkersUnchecked == TRUE

\* workerThreads_: join
WorkersEnded == \A w \in Worker : wpc[w] \in {"none", "done"}

StopWorkers == /\ mpc = "workers"
               /\ WorkersEnded
               /\ mpc' = "rest"
               /\ UNCHANGED <<isRunning_, listening, epollOpen, accepting, network, workers,
                              connections_, history>>

\* The kernel's side of close(fd), for a set of descriptors
Close(fds) == /\ socket' = [fd \in Fd |-> IF fd \in fds THEN NoConn ELSE socket[fd]]
              /\ peer' = [c \in Conn |-> IF \E fd \in fds : socket[fd] = c THEN "closed"
                                         ELSE peer[c]]
              /\ interest' = [w \in Worker |-> interest[w] \ fds]
              /\ ready' = [w \in Worker |-> ready[w] \ fds]

\* The descriptors of the connections left
ToClose == {fd \in Fd : connections_[fd] # NoState}

StopRest == /\ mpc = "rest"
            /\ Close(ToClose)
            /\ connections_' = [fd \in Fd |-> NoState]
            /\ mpc' = "stopped"
            /\ UNCHANGED <<isRunning_, listening, epollOpen, accepting, sent, workers, history>>

Stop == StopFlag \/ StopClose \/ StopAccept \/ StopWorkers \/ StopRest

----------------------------------------------------------------------------
(* The peers *)

\* Data or a hangup on a descriptor is an edge for the set it is in.
Edge(c) == ready' = [w \in Worker |-> ready[w] \cup {fd \in interest[w] : socket[fd] = c}]

Connect(c) == /\ listening
              /\ peer[c] = "away"
              /\ peer' = [peer EXCEPT ![c] = "waiting"]
              /\ UNCHANGED <<server, accepting, socket, sent, interest, ready, workers,
                             connections_, history>>

Send(c) == /\ peer[c] = "connected"
           /\ \E n \in Cut[c] : n > sent[c] /\ sent' = [sent EXCEPT ![c] = n]
           /\ Edge(c)
           /\ UNCHANGED <<server, accepting, socket, peer, interest, workers, connections_,
                          history>>

\* What is kept of a stream that ends with a whole frame is what was there before
\* its first byte.
Endless == {c \in Conn : LET all == Scan(Stream[c], 0)
                        IN  all.buf = << >> /\ all.empties = 0}

\* Such a peer may send for ever: once all is read it begins anew, and with it the
\* history of its bytes.
SendAgain(c) == /\ peer[c] = "connected"
                /\ c \in Endless /\ got[c] = Len(Stream[c])
                /\ \E n \in Cut[c] : sent' = [sent EXCEPT ![c] = n]
                /\ got' = [got EXCEPT ![c] = 0] /\ events' = [events EXCEPT ![c] = << >>]
                /\ Edge(c)
                /\ UNCHANGED <<server, accepting, socket, peer, interest, workers,
                               connections_, tripped>>

Hangup(c) == /\ peer[c] = "connected"
             /\ peer' = [peer EXCEPT ![c] = "gone"]
             /\ Edge(c)
             /\ UNCHANGED <<server, accepting, socket, sent, interest, workers, connections_,
                            history>>

----------------------------------------------------------------------------
(* acceptConnections() *)

Waiting == {c \in Conn : peer[c] = "waiting"}
Free == {fd \in Fd : socket[fd] = NoConn}

AcceptTest == /\ apc = "test"
              /\ apc' = IF isRunning_ THEN "accept" ELSE "done"
              /\ UNCHANGED <<server, afd, nextWorker, network, workers, connections_, history>>

\* The lowest free descriptor is used.
Accept(c) == /\ apc = "accept" /\ listening
             /\ c \in Waiting /\ Free # {}
             /\ afd' = Min(Free)
             /\ socket' = [socket EXCEPT ![Min(Free)] = c]
             /\ peer' = [peer EXCEPT ![c] = "connected"]
             /\ apc' = "register"
             /\ UNCHANGED <<server, nextWorker, sent, interest, ready, workers, connections_,
                            history>>

\* The socket does not block: with nobody waiting accept() fails at once.
AcceptNone == /\ apc = "accept"
              /\ ~listening \/ Waiting = {} \/ Free = {}
              /\ apc' = "test"
              /\ UNCHANGED <<server, afd, nextWorker, network, workers, connections_, history>>

\* setNonBlocking fails and the connection is closed.
AcceptRefused == /\ apc = "register"
                 /\ Close({afd})
                 /\ apc' = "test" /\ afd' = NoFd
                 /\ UNCHANGED <<server, nextWorker, sent, workers, connections_, history>>

\* emplace(), which leaves an entry that is there alone, and the address
Register == /\ apc = "register"
            /\ connections_' = [connections_ EXCEPT ![afd].clientAddress = socket[afd]]
            /\ apc' = "add"
            /\ UNCHANGED <<server, afd, nextWorker, network, workers, history>>

\* epollAdd(): into the set of one worker
EpollAdd(w, fd) == interest' = [interest EXCEPT ![w] = @ \cup {fd}]

NextWorker == (nextWorker + 1) % numWorkers_

\* What arrived before is reported at once.
Add == /\ apc = "add"
       /\ epollOpen
       /\ EpollAdd(nextWorker, afd)
       /\ ready' = IF peer[socket[afd]] = "gone" \/ sent[socket[afd]] > 0
                   THEN [ready EXCEPT ![nextWorker] = @ \cup {afd}] ELSE ready
       /\ nextWorker' = NextWorker
       /\ apc' = "test" /\ afd' = NoFd
       /\ UNCHANGED <<server, socket, peer, sent, workers, connections_, history>>

\* epoll_ctl fails: there is no memory, or stop() closed the epoll descriptor.
\* epollFds_ is read without a lock while stop() clears it: a vector of int keeps
\* its memory, so that what is read is the number that was closed.
AddFails == /\ apc = "add"
            /\ connections_' = [connections_ EXCEPT ![afd] = NoState]
            /\ Close({afd})
            /\ apc' = "test" /\ afd' = NoFd
            /\ UNCHANGED <<server, nextWorker, sent, workers, history>>

AcceptThread == \/ AcceptTest \/ AcceptNone \/ AcceptRefused \/ Register
                \/ Add \/ AddFails \/ \E c \in Conn : Accept(c)

----------------------------------------------------------------------------
(* workerLoop(), handleRead() and closeConnection() *)

WorkerTest(w) == /\ wpc[w] = "test"
                 /\ wpc' = [wpc EXCEPT ![w] = IF isRunning_ THEN "wait" ELSE "done"]
                 /\ UNCHANGED <<server, accepting, network, batch, cur, connections_, history>>

\* epoll_wait() waits until there is an event.
TimesOutNever(w) == FALSE

\* ... 100 ms, or fails because its descriptor was closed
TimesOut(w) == ready[w] = {} \/ ~epollOpen

Timeout(w) == /\ wpc[w] = "wait"
              /\ TimesOut(w)
              /\ wpc' = [wpc EXCEPT ![w] = IF epollOpen THEN "test" ELSE "done"]
              /\ UNCHANGED <<server, accepting, network, batch, cur, connections_, history>>

\* What epoll_wait() may report: all the edges, or maxEvents_ of them
Reports(w) == {fds \in SUBSET ready[w] :
                 Cardinality(fds) = Min({maxEvents_, Cardinality(ready[w])})}

\* ... each once; the others stay in the kernel's list.
Wait(w) == /\ wpc[w] = "wait"
           /\ ready[w] # {}
           /\ \E fds \in Reports(w) :
                /\ batch' = [batch EXCEPT ![w] = {<<fd, peer[socket[fd]] = "gone">> : fd \in fds}]
                /\ ready' = [ready EXCEPT ![w] = @ \ fds]
           /\ wpc' = [wpc EXCEPT ![w] = "events"]
           /\ UNCHANGED <<server, accepting, socket, peer, sent, interest, cur, connections_,
                          history>>

\* The descriptor is closed before its entry is erased.
CloseFdFirst == <<"close", "erase">>

\* closeConnection(): the entry, then the descriptor
closeConnection == <<"erase", "close">>

\* An event: a hangup closes the connection, unread bytes or not; otherwise
\* handleRead() looks up the entry.
Event(w) == /\ wpc[w] = "events"
            /\ \E e \in batch[w] :
                 /\ batch' = [batch EXCEPT ![w] = @ \ {e}]
                 /\ cur' = [cur EXCEPT ![w] = e[1]]
                 /\ wpc' = [wpc EXCEPT ![w] = IF e[2] \/ connections_[e[1]] = NoState
                                              THEN closeConnection[1] ELSE "recv"]
            /\ UNCHANGED <<server, accepting, network, connections_, history>>

EndOfBatch(w) == /\ wpc[w] = "events"
                 /\ batch[w] = {}
                 /\ wpc' = [wpc EXCEPT ![w] = "test"] /\ cur' = [cur EXCEPT ![w] = NoFd]
                 /\ UNCHANGED <<server, accepting, network, batch, connections_, history>>

\* The bytes used are not taken from the buffer.
ProcessedKeeping(state, new) == [state EXCEPT !.emptyFrameCount = new.empties]

\* The entry after processBuffer(): a limit broken only clears the buffer.
Processed(state, new) ==
    [state EXCEPT !.emptyFrameCount = new.empties,
                  !.buffer = IF new.do = "guard" THEN << >> ELSE new.buf]

\* One recv() for an event
AfterRecvOnce == "events"

\* recv() is called again, until it has nothing.
AfterRecv == "recv"

Recv(w) == LET fd == cur[w]
               c == socket[fd]
               upto == Min({sent[c], got[c] + kReadChunk})
               state == [connections_[fd] EXCEPT
                           !.buffer = @ \o SubSeq(Stream[c], got[c] + 1, upto)]
               new == Scan(state.buffer, state.emptyFrameCount)
           IN  /\ wpc[w] = "recv"
               /\ got[c] < sent[c]
               /\ connections_' = [connections_ EXCEPT ![fd] = Processed(state, new)]
               /\ got' = [got EXCEPT ![c] = upto]
               /\ events' = [events EXCEPT ![state.clientAddress] = @ \o new.events]
               /\ tripped' = IF new.do = "guard" THEN tripped \cup {c} ELSE tripped
               /\ wpc' = [wpc EXCEPT ![w] = AfterRecv]
               /\ UNCHANGED <<server, accepting, network, batch, cur>>

\* EAGAIN: the connection is kept; or the peer hung up, with an error or without
RecvEnds(w) == LET c == socket[cur[w]]
               IN  /\ wpc[w] = "recv"
                   /\ \/ /\ peer[c] = "connected" /\ got[c] = sent[c]
                         /\ wpc' = [wpc EXCEPT ![w] = "events"]
                      \/ /\ peer[c] = "gone"
                         /\ wpc' = [wpc EXCEPT ![w] = closeConnection[1]]
                   /\ UNCHANGED <<server, accepting, network, batch, cur, connections_, history>>

AfterClosing(w) == [wpc EXCEPT ![w] = IF wpc[w] = closeConnection[1] THEN closeConnection[2]
                                      ELSE "events"]

\* EPOLL_CTL_DEL, and with the mutex the entry
Erase(w) == /\ wpc[w] = "erase"
            /\ interest' = [interest EXCEPT ![w] = @ \ {cur[w]}]
            /\ ready' = [ready EXCEPT ![w] = @ \ {cur[w]}]
            /\ connections_' = [connections_ EXCEPT ![cur[w]] = NoState]
            /\ wpc' = AfterClosing(w)
            /\ UNCHANGED <<server, accepting, socket, peer, sent, batch, cur, history>>

CloseFd(w) == /\ wpc[w] = "close"
              /\ Close({cur[w]})
              /\ wpc' = AfterClosing(w)
              /\ UNCHANGED <<server, accepting, sent, batch, cur, connections_, history>>

WorkerThread(w) == \/ WorkerTest(w) \/ Timeout(w) \/ Wait(w) \/ Event(w) \/ EndOfBatch(w)
                   \/ Recv(w) \/ RecvEnds(w) \/ Erase(w) \/ CloseFd(w)

----------------------------------------------------------------------------

Next == \/ Start \/ Stop \/ AcceptThread
        \/ \E w \in Worker : WorkerThread(w)
        \/ \E c \in Conn : Connect(c) \/ Send(c) \/ SendAgain(c) \/ Hangup(c)

Spec == Init /\ [][Next]_vars

\* No call of the server blocks for good: its threads keep running, and stop()
\* goes on once it began.  The kernel's list is first in, first out: no edge is
\* passed over for ever.  Peers do as they like.
FairSpec == /\ Spec
            /\ WF_vars(mpc \notin {"new", "started"} /\ Stop)
            /\ WF_vars(AcceptThread)
            /\ \A w \in Worker : WF_vars(WorkerThread(w))
            /\ \A w \in Worker : \A fd \in Fd :
                 SF_vars(Wait(w) /\ fd \in ready[w] \ ready'[w])

----------------------------------------------------------------------------
(* Properties *)

TypeOK == /\ {isRunning_, listening, epollOpen} \subseteq BOOLEAN
          /\ mpc \in {"new", "started", "close", "accept", "workers", "rest", "stopped"}
          /\ apc \in {"none", "test", "accept", "register", "add", "done"}
          /\ afd \in Fd \cup {NoFd} /\ nextWorker \in Worker
          /\ socket \in [Fd -> Conn \cup {NoConn}]
          /\ peer \in [Conn -> {"away", "waiting", "connected", "gone", "closed"}]
          /\ \A c \in Conn : got[c] <= sent[c] /\ sent[c] <= Len(Stream[c])
          /\ \A w \in Worker : interest[w] \subseteq Fd /\ ready[w] \subseteq interest[w]
          /\ wpc \in [Worker -> {"none", "test", "wait", "events", "recv", "erase", "close", "done"}]
          /\ batch \in [Worker -> SUBSET (Fd \X BOOLEAN)]
          /\ cur \in [Worker -> Fd \cup {NoFd}]
          /\ \A fd \in Fd : connections_[fd].clientAddress \in Conn \cup {NoConn}
          /\ tripped \subseteq Conn

\* The map speaks of the connection the descriptor now stands for, although the
\* kernel gives the number away as soon as it is closed: an entry is of an open
\* connection, and what a worker watches has an entry.
MapMatchesSockets ==
    /\ \A fd \in Fd : connections_[fd] # NoState => connections_[fd].clientAddress = socket[fd]
    /\ \A w \in Worker : \A fd \in interest[w] : connections_[fd] # NoState

\* The entry handleRead() found without holding on to the mutex is there as long
\* as it is used, and nobody else reads the connection.
StateStaysAlive ==
    \A w \in Worker : wpc[w] = "recv" =>
        /\ connections_[cur[w]] # NoState
        /\ \A v \in Worker \ {w} : wpc[v] \in {"recv", "erase", "close"} => cur[v] # cur[w]

\* An event that epoll_wait reported is still about the connection it was
\* reported for: its descriptor is in the worker's set until the worker closes it.
EventsAreCurrent ==
    mpc \notin {"rest", "stopped"} =>
        \A w \in Worker : \A e \in batch[w] : e[1] \in interest[w]

\* The frames of a client are those of its own bytes, whatever pieces they come
\* in and whoever had the descriptor before, until it breaks a limit.
OwnFramesOnly ==
    \A c \in Conn \ tripped : events[c] = Scan(SubSeq(Stream[c], 1, got[c]), 0).events

\* handleRead() returns: no peer sends so fast for ever that recv() never finds
\* its socket empty.  The loop looks at nothing else, isRunning_ included.
ReadsEnd == \A w \in Worker : []<>(wpc[w] # "recv")

\* Edge-triggered: bytes are not left unread, unless the peer hangs up, the server
\* stops or another peer holds the worker; no second edge has to come.
Unread(c) == /\ isRunning_ /\ peer[c] = "connected" /\ got[c] < sent[c]
             /\ \E w \in Worker : \E fd \in interest[w] : socket[fd] = c
BytesAreRead == ReadsEnd => \A c \in Conn : []<>~Unread(c)

\* Descriptors are current: neither the map nor an event a worker has yet to
\* handle is about a connection that had the number before.
DescriptorsCurrent == MapMatchesSockets /\ EventsAreCurrent

\* stop() returns if handleRead() does, and leaves no descriptor of a connection
\* open and no thread.
StopEnds == ReadsEnd => (mpc = "close" ~> /\ mpc = "stopped"
                                          /\ \A fd \in Fd : socket[fd] = NoConn
                                          /\ apc \in {"none", "done"} /\ WorkersEnded)
=============================================================================
