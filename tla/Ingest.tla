------------------------------- MODULE Ingest -------------------------------
(***************************************************************************)
(* The TCP and the UDP ingest server (src/core/ingest/tcp.cpp, udp.cpp),   *)
(* from start() to stop().  A behaviour is about one of them; the two      *)
(* share their flag, their socket, stop() and the counters.                *)
(*                                                                         *)
(* TCP: the accept thread starts a thread for each connection and lists    *)
(* it; a client's thread receives what the connection gives it, any number *)
(* of bytes at a time, and cuts out the frames.  A peer sends its stream,  *)
(* or a part of it, and hangs up, or stays and is silent.                  *)
(* UDP: one thread receives datagrams into a buffer it uses again.         *)
(*                                                                         *)
(* Left out: statistics that are only logged (the connections); Windows.   *)
(* tryPush takes an event or refuses it (see EventPipeline).               *)
(***************************************************************************)
EXTENDS Framing, FiniteSets, Functions

CONSTANTS
    Protocol,          \* the servers to look at: "tcp", "udp"
    Conn,              \* the connections peers make
    Stream,            \* Stream[c]: the bytes the peer of c can send
    Datagram,          \* the datagrams that can arrive
    NoDatagram,        \* before the first one
    LengthSpace,       \* how many values a length and a sum of lengths have (2^32)
    MaxDatagrams,      \* bound: how many arrive
    bufferSize,        \* the size of recvBuffer
    kBufferChunk,      \* the most bytes recv() gives (4096)
    kCleanupInterval   \* 10

ASSUME IngestAssumption ==
    /\ Protocol \subseteq {"tcp", "udp"}
    /\ MaxDatagrams \in Nat /\ {kBufferChunk, kCleanupInterval} \subseteq Nat \ {0}
    /\ bufferSize \in Nat /\ bufferSize >= HeaderSize /\ LengthSpace \in Nat \ {0}
    /\ Stream \in [Conn -> Seq(0 .. Base - 1)]
    /\ Datagram \subseteq Seq(0 .. Base - 1) /\ NoDatagram \notin Datagram

VARIABLES
    protocol,
    isRunning,
    fdOpen,            \* server_fd is open
    mpc,               \* the thread that calls start() and stop()
    apc,               \* TCP: the accept thread
    newConn,           \* the connections accepted and not yet listed: at most one
    connectionsSinceCleanup,
    clientThreads_,    \* the connections whose threads are listed
    peer,              \* what a peer does
    tpc,               \* a client's thread
    finished,          \* its flag
    got,               \* the bytes it has received
    scan,              \* clientBuffer and empty_frame_count, and the frames found
    upc,               \* UDP: the receive thread
    recvBuffer, last,  \* its buffer; history: the datagram last received
    lastEvent,         \* history: the event made of it
    totalDatagrams, totalEvents, totalDrops, totalErrors

server == <<protocol, isRunning, fdOpen, mpc>>
accepting == <<apc, newConn, connectionsSinceCleanup, clientThreads_>>
clients == <<peer, tpc, finished, got, scan>>
udp == <<upc, recvBuffer, last, lastEvent, totalDatagrams, totalErrors>>
counters == <<totalEvents, totalDrops>>
vars == <<server, accepting, clients, udp, counters>>

Fresh == [buf |-> << >>, empties |-> 0, events |-> << >>, do |-> "more"]

Init == /\ protocol \in Protocol
        /\ isRunning = FALSE /\ fdOpen = FALSE /\ mpc = "new"
        /\ apc = "none" /\ newConn = {} /\ connectionsSinceCleanup = 0
        /\ clientThreads_ = {}
        /\ peer = [c \in Conn |-> "away"] /\ tpc = [c \in Conn |-> "none"]
        /\ finished = [c \in Conn |-> FALSE]
        /\ got = [c \in Conn |-> 0] /\ scan = [c \in Conn |-> Fresh]
        /\ upc = "none" /\ recvBuffer = [k \in 1 .. bufferSize |-> 0]
        /\ last = NoDatagram /\ lastEvent = Bad
        /\ totalDatagrams = 0 /\ totalEvents = 0 /\ totalDrops = 0 /\ totalErrors = 0

----------------------------------------------------------------------------
(* start() and stop() *)

\* The socket is made and bound and the thread started; or one of the calls
\* fails, which leaves the flag set and no thread.
TcpStart == /\ mpc = "new" /\ protocol = "tcp"
            /\ isRunning' = TRUE
            /\ \/ fdOpen' = TRUE /\ apc' = "test"
               \/ UNCHANGED <<fdOpen, apc>>
            /\ mpc' = "started"
            /\ UNCHANGED <<protocol, newConn, connectionsSinceCleanup, clientThreads_, clients,
                           udp, counters>>

UdpStart == /\ mpc = "new" /\ protocol = "udp"
            /\ isRunning' = TRUE
            /\ \/ fdOpen' = TRUE /\ upc' = "test"
               \/ UNCHANGED <<fdOpen, upc>>
            /\ mpc' = "started"
            /\ UNCHANGED <<protocol, accepting, clients, recvBuffer, last, lastEvent,
                           totalDatagrams, totalErrors, counters>>

StopFlag == /\ mpc = "started"
            /\ isRunning' = FALSE
            /\ mpc' = "close"
            /\ UNCHANGED <<protocol, fdOpen, accepting, clients, udp, counters>>

\* The socket stays open.
CloseSocketForgotten == UNCHANGED fdOpen

\* closeSocket(server_fd)
CloseSocket == fdOpen' = FALSE

StopClose == /\ mpc = "close"
             /\ CloseSocket
             /\ mpc' = "join"
             /\ UNCHANGED <<protocol, isRunning, accepting, clients, udp, counters>>

\* acceptThread.join(), receiveThread.join()
ServerThreadEnded == apc \in {"none", "done"} /\ upc \in {"none", "done"}

StopJoin == /\ mpc = "join"
            /\ ServerThreadEnded
            /\ mpc' = "clients"
            /\ UNCHANGED <<protocol, isRunning, fdOpen, accepting, clients, udp, counters>>

\* thread.join() of each of the clients: it waits until the thread has ended
JoinThreads(cs) == /\ \A c \in cs : tpc[c] = "ended"
                   /\ tpc' = [c \in Conn |-> IF c \in cs THEN "joined" ELSE tpc[c]]

\* Each listed client is joined, and the list cleared.
StopClients == /\ mpc = "clients"
               /\ JoinThreads(clientThreads_)
               /\ clientThreads_' = {}
               /\ mpc' = "stopped"
               /\ UNCHANGED <<protocol, isRunning, fdOpen, apc, newConn, connectionsSinceCleanup,
                              peer, finished, got, scan, udp, counters>>

Stop == StopFlag \/ StopClose \/ StopJoin \/ StopClients

----------------------------------------------------------------------------
(* TCP: acceptConnections() *)

AcceptTest == /\ apc = "test"
              /\ apc' = IF isRunning THEN "accept" ELSE "done"
              /\ UNCHANGED <<server, newConn, connectionsSinceCleanup, clientThreads_, clients,
                             udp, counters>>

\* accept() gives a connection; its thread starts.
Accept(c) == /\ apc = "accept" /\ fdOpen
             /\ peer[c] = "waiting"
             /\ peer' = [peer EXCEPT ![c] = "connected"]
             /\ tpc' = [tpc EXCEPT ![c] = "test"]
             /\ newConn' = {c}
             /\ apc' = "list"
             /\ UNCHANGED <<server, connectionsSinceCleanup, clientThreads_, finished, got, scan,
                            udp, counters>>

\* accept() fails: a connection was lost, or there is no descriptor left
AcceptError == /\ apc = "accept" /\ fdOpen
               /\ apc' = "test"
               /\ UNCHANGED <<server, newConn, connectionsSinceCleanup, clientThreads_, clients,
                              udp, counters>>

\* The socket was shut down: a thread that waits in accept() wakes up.
AcceptWoken == /\ apc = "accept" /\ ~fdOpen
               /\ apc' = "test"
               /\ UNCHANGED <<server, newConn, connectionsSinceCleanup, clientThreads_, clients,
                              udp, counters>>

\* ++connectionsSinceCleanup >= kCleanupInterval
CleanupDue == connectionsSinceCleanup + 1 >= kCleanupInterval

\* The thread is put in the list.
List == /\ apc = "list"
        /\ clientThreads_' = clientThreads_ \cup newConn
        /\ newConn' = {}
        /\ IF CleanupDue
           THEN apc' = "cleanup" /\ connectionsSinceCleanup' = 0
           ELSE apc' = "test" /\ connectionsSinceCleanup' = connectionsSinceCleanup + 1
        /\ UNCHANGED <<server, clients, udp, counters>>

\* The clients whose finished is set are erased without being joined.
CleanupUnjoined == /\ apc = "cleanup"
                   /\ clientThreads_' = {c \in clientThreads_ : ~finished[c]}
                   /\ apc' = "test"
                   /\ UNCHANGED <<server, newConn, connectionsSinceCleanup, clients, udp,
                                  counters>>

\* cleanupFinishedThreads(): the clients whose finished is set are joined, which
\* waits for the rest of the thread, and erased
Cleanup == /\ apc = "cleanup"
           /\ JoinThreads({c \in clientThreads_ : finished[c]})
           /\ clientThreads_' = {c \in clientThreads_ : ~finished[c]}
           /\ apc' = "test"
           /\ UNCHANGED <<server, newConn, connectionsSinceCleanup, peer, finished, got, scan,
                          udp, counters>>

----------------------------------------------------------------------------
(* TCP: the peers, and handleClient() *)

Connect(c) == /\ protocol = "tcp" /\ fdOpen
              /\ peer[c] = "away"
              /\ peer' = [peer EXCEPT ![c] = "waiting"]
              /\ UNCHANGED <<server, accepting, tpc, finished, got, scan, udp, counters>>

Hangup(c) == /\ peer[c] = "connected"
             /\ peer' = [peer EXCEPT ![c] = "gone"]
             /\ UNCHANGED <<server, accepting, tpc, finished, got, scan, udp, counters>>

ClientTest(c) == /\ tpc[c] = "test"
                 /\ tpc' = [tpc EXCEPT ![c] = IF isRunning THEN "recv" ELSE "end"]
                 /\ UNCHANGED <<server, accepting, peer, finished, got, scan, udp, counters>>

\* tryPush takes some of n events, and refuses the others.
Push(n) == \E taken \in 0 .. n : /\ totalEvents' = totalEvents + taken
                                 /\ totalDrops' = totalDrops + (n - taken)

\* What was used stays at the head of the buffer.
AfterScanKeeping(old, new) == [new EXCEPT !.buf = old.buf, !.events = old.events \o @]

\* The buffer, the count of empty frames and the frames found, after the loop
AfterScan(old, new) == [new EXCEPT !.events = old.events \o @]

\* recv() gives some of the bytes to come; the frames are cut out of the buffer.
\* A limit broken closes the connection and ends the thread.
Receive(c) ==
    /\ tpc[c] = "recv"
    /\ peer[c] \in {"connected", "gone"}
    /\ \E n \in got[c] + 1 .. Min({got[c] + kBufferChunk, Len(Stream[c])}) :
         LET buf == scan[c].buf \o SubSeq(Stream[c], got[c] + 1, n)
             new == Scan(buf, scan[c].empties)
         IN  /\ got' = [got EXCEPT ![c] = n]
             /\ scan' = [scan EXCEPT ![c] = AfterScan([scan[c] EXCEPT !.buf = buf], new)]
             /\ tpc' = [tpc EXCEPT ![c] = IF new.do = "guard" THEN "end" ELSE "test"]
             /\ Push(Len(new.events))
    /\ UNCHANGED <<server, accepting, peer, finished, udp>>

\* recv() gives 0: the peer hung up and all it sent was received; or an error.
Disconnected(c) == /\ tpc[c] = "recv"
                   /\ peer[c] = "gone"
                   /\ tpc' = [tpc EXCEPT ![c] = "end"]
                   /\ UNCHANGED <<server, accepting, peer, finished, got, scan, udp, counters>>

\* The socket is closed and finished set; the thread has not ended yet.
ClientEnd(c) == /\ tpc[c] = "end"
                /\ peer' = [peer EXCEPT ![c] = "closed"]
                /\ finished' = [finished EXCEPT ![c] = TRUE]
                /\ tpc' = [tpc EXCEPT ![c] = "exit"]
                /\ UNCHANGED <<server, accepting, got, scan, udp, counters>>

\* The thread ends.
ClientExit(c) == /\ tpc[c] = "exit"
                 /\ tpc' = [tpc EXCEPT ![c] = "ended"]
                 /\ UNCHANGED <<server, accepting, peer, finished, got, scan, udp, counters>>

----------------------------------------------------------------------------
(* UDP: receiveLoop() *)

UdpTest == /\ upc = "test"
           /\ upc' = IF isRunning THEN "call" ELSE "done"
           /\ UNCHANGED <<server, accepting, clients, recvBuffer, last, lastEvent,
                          totalDatagrams, totalErrors, counters>>

\* recvfrom() waits on an open socket; on a closed one it fails at once.
UdpCall == /\ upc = "call"
           /\ upc' = IF fdOpen THEN "recv" ELSE "test"
           /\ UNCHANGED <<server, accepting, clients, recvBuffer, last, lastEvent,
                          totalDatagrams, totalErrors, counters>>

\* A signal ends the call.
UdpInterrupted == /\ upc = "recv"
                  /\ upc' = "test"
                  /\ UNCHANGED <<server, accepting, clients, recvBuffer, last, lastEvent,
                                 totalDatagrams, totalErrors, counters>>

\* The bytes of the header are not counted.
FitsWithoutHeader(len, n) == len <= n

\* Is a frame of that length inside a datagram of n bytes?  The sum is a uint32_t.
Fits(len, n) == (HeaderSize + len) % LengthSpace <= n

\* The sum goes round: the frame passes the test and is almost LengthSpace long.
Wraps(len) == HeaderSize + len >= LengthSpace

\* The tests before parseFrameBody()
Accepted(buffer, n) == /\ n >= HeaderSize + 4
                       /\ frameLen(buffer) # 0
                       /\ Fits(frameLen(buffer), n)

\* parseFrameBody() reads on behind the datagram and behind the buffer.
Overreads(buffer, n) == Accepted(buffer, n) /\ Wraps(frameLen(buffer))

\* An event made of whatever lies there
Foreign == [Bad EXCEPT !.priority = -2]

\* The events that can be made of the buffer's first n bytes.  A parse that reads on
\* throws, for a wrong byte or for want of memory, or gives an event.
EventsOf(buffer, n) ==
    CASE ~Accepted(buffer, n) -> {Bad}
      [] Overreads(buffer, n) -> {Bad, Foreign}
      [] OTHER -> {parseFrameBody(SubSeq(buffer, HeaderSize + 1, HeaderSize + frameLen(buffer)))}

\* totalParseErrors_, in the three places it is counted
ErrorsIn(event, n) == IF event = Bad THEN 1 ELSE 0

\* recvfrom() gives as many bytes of a datagram as the buffer takes, ...
Taken(d) == Min({Len(d), bufferSize})
\* ... and the buffer keeps what it held behind them.
Filled(d) == [k \in 1 .. bufferSize |-> IF k <= Taken(d) THEN d[k] ELSE recvBuffer[k]]

\* A datagram arrives.  The thread waits in the call although the socket was closed
\* meanwhile.
UdpReceive(d) ==
    /\ upc = "recv"
    /\ totalDatagrams < MaxDatagrams
    /\ recvBuffer' = Filled(d)
    /\ upc' = "test"
    /\ IF d = << >> THEN UNCHANGED <<last, lastEvent, totalDatagrams, totalErrors, counters>>
       ELSE \E event \in EventsOf(Filled(d), Taken(d)) :
              /\ last' = d /\ lastEvent' = event
              /\ totalDatagrams' = totalDatagrams + 1
              /\ totalErrors' = totalErrors + ErrorsIn(event, Taken(d))
              /\ Push(IF event = Bad THEN 0 ELSE 1)
    /\ UNCHANGED <<server, accepting, clients>>

\* ... or the bytes behind the buffer are not there to be read: the process ends.
UdpOverrun(d) == /\ upc = "recv"
                 /\ totalDatagrams < MaxDatagrams
                 /\ Overreads(Filled(d), Taken(d))
                 /\ upc' = "crash" /\ mpc' = "crash"
                 /\ UNCHANGED <<protocol, isRunning, fdOpen, accepting, clients, recvBuffer, last,
                                lastEvent, totalDatagrams, totalErrors, counters>>

----------------------------------------------------------------------------

AcceptThread == AcceptTest \/ AcceptWoken \/ List \/ Cleanup
ClientThread(c) == \/ ClientTest(c) \/ Receive(c) \/ Disconnected(c)
                   \/ ClientEnd(c) \/ ClientExit(c)
ReceiveThread == UdpTest \/ UdpCall

Next == \/ TcpStart \/ UdpStart \/ Stop
        \/ AcceptThread \/ AcceptError
        \/ \E c \in Conn : Accept(c) \/ Connect(c) \/ Hangup(c) \/ ClientThread(c)
        \/ ReceiveThread \/ UdpInterrupted
        \/ \E d \in Datagram : UdpReceive(d) \/ UdpOverrun(d)

Spec == Init /\ [][Next]_vars

\* A thread goes on unless it waits for a peer, and a client's thread then
\* takes what its peer sent before it hung up; stop() goes on once it began.
\* Nobody has to send, to hang up or to call stop().
FairSpec == /\ Spec
            /\ WF_vars(mpc \notin {"new", "started"} /\ Stop)
            /\ WF_vars(AcceptThread)
            /\ WF_vars(ReceiveThread)
            /\ \A c \in Conn : /\ WF_vars(ClientTest(c) \/ ClientEnd(c) \/ ClientExit(c))
                               /\ WF_vars(Disconnected(c))

----------------------------------------------------------------------------
(* Properties *)

Stages == {"new", "started", "close", "join", "clients", "stopped", "crash"}

TypeOK == /\ protocol \in Protocol
          /\ isRunning \in BOOLEAN /\ fdOpen \in BOOLEAN /\ mpc \in Stages
          /\ apc \in {"none", "test", "accept", "list", "cleanup", "done"}
          /\ newConn \subseteq Conn /\ clientThreads_ \subseteq Conn
          /\ connectionsSinceCleanup \in 0 .. kCleanupInterval - 1
          /\ peer \in [Conn -> {"away", "waiting", "connected", "gone", "closed"}]
          /\ tpc \in [Conn -> {"none", "test", "recv", "end", "exit", "ended", "joined"}]
          /\ finished \in [Conn -> BOOLEAN]
          /\ \A c \in Conn : got[c] \in 0 .. Len(Stream[c])
          /\ upc \in {"none", "test", "call", "recv", "done", "crash"}
          /\ recvBuffer \in [1 .. bufferSize -> 0 .. Base - 1]
          /\ totalDatagrams \in 0 .. MaxDatagrams

\* A frame is found whatever pieces the stream arrives in, in the middle of a
\* length or of a body: the frames found are those of the bytes received, taken
\* in one piece, and so are the bytes kept and the connections closed for
\* breaking a limit.
PiecesDoNotMatter ==
    \A c \in Conn : LET whole == Scan(SubSeq(Stream[c], 1, got[c]), 0)
                    IN  /\ scan[c].events = whole.events
                        /\ got[c] > 0 => scan[c].do = whole.do
                        /\ whole.do # "guard" => scan[c].buf = whole.buf

\* stop() returns when all threads of the server have ended, also the one of a
\* connection accepted at the last moment: none of them pushes into a
\* Dispatcher that is gone.
NoThreadAfterStop ==
    mpc = "stopped" => /\ apc \in {"none", "done"} /\ upc \in {"none", "done"}
                       /\ \A c \in Conn : tpc[c] \in {"none", "joined"}

\* A client's thread that was not joined is known to stop(), ended or not: it is in
\* the list, or about to be put there by the accept thread.  To destroy a thread
\* object that was not joined ends the process.
ThreadsListed ==
    \A c \in Conn : tpc[c] \notin {"none", "joined"} => c \in clientThreads_ \cup newConn

\* No event is made of bytes left in the buffer by an earlier datagram: the frame
\* is inside the datagram it came with.  Not so for a length within HeaderSize of
\* 2^32, for which the sum that is tested wraps.
NoStaleBytes ==
    lastEvent # Bad /\ ~Wraps(frameLen(last)) =>
        LET size == HeaderSize + frameLen(last)
        IN  size <= Len(last) /\ lastEvent = parseFullFrame(SubSeq(last, 1, size))

\* Each datagram is counted once, as an event, a drop or an error.
DatagramsAddUp ==
    protocol = "udp" => totalDatagrams = totalEvents + totalDrops + totalErrors

\* stop() returns, if no thread waits forever for a peer: the thread in accept()
\* is woken up, and a client's thread leaves once its peer sends or hangs up.
StopEnds ==
    (\A c \in Conn : []<>(tpc[c] # "recv")) /\ []<>(upc # "recv")
        => (mpc = "close" ~> mpc \in {"stopped", "crash"})

\* Every thread of the server is joined: stop() or the clean-up knows of it, and
\* none is left when stop() returns.
ThreadsJoined == ThreadsListed /\ NoThreadAfterStop

\* A datagram has one outcome, and an event made of it is made of its bytes only,
\* unless its length makes the test of it wrap.
DatagramsSound == DatagramsAddUp /\ NoStaleBytes
=============================================================================
