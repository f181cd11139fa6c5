------------------------------- MODULE Bridge -------------------------------
(***************************************************************************)
(* The engine as the C API sees it, and what outlives an engine:           *)
(*                                                                         *)
(*   C bridge              src/bridge/esccore.cpp                          *)
(*   ProcessedEventStream  include/.../processor/output.hpp                *)
(*   IngestEventPool       include/.../ingest/pool.hpp                     *)
(*                                                                         *)
(* One thread calls esccore_init and esccore_shutdown, as esccore.h asks;  *)
(* callers subscribe and read metrics at any time.  Of an engine's threads *)
(* the module has what they do with the shared pointers to event objects,  *)
(* from acquireEvent() in a server to the processors, and the              *)
(* notifications; an operation on a queue is one step, and what it does    *)
(* with an event is in EventPipeline.  The observer list holds the         *)
(* subscribers of the C API: the default observers only log, are always    *)
(* active and come and go with clear().  Subscribers are numbered as they  *)
(* come, and a list, to which they are only appended, is the set of its    *)
(* numbers.                                                                *)
(***************************************************************************)
EXTENDS Naturals, Sequences, FiniteSetsExt

CONSTANTS
    Caller,         \* threads that subscribe and read
    Server,         \* the threads of the TCP and the UDP server
    Dispatcher,     \* the threads of the Dispatchers
    Worker,         \* the processors' threads ...
    Realtime,       \* ... those that read the ring, the others a deque
    Batch,          \* ... and those that keep events to flush them later
    Home,           \* Home[t]: the engine whose thread t is
    Obj,            \* bound: the addresses an Event can have
    NoObj,          \* the null pointer
    RingSize,       \* the slots of the ring (16384)
    kPoolCapacity,  \* 10000
    MaxEngines,     \* bound: how often esccore_init builds an engine
    MaxSubscribers  \* bound: how often esccore_subscribe succeeds

Thread == Server \cup Dispatcher \cup Worker
Engine == 1 .. MaxEngines
None == 0

ASSUME BridgeAssumption ==
    /\ {kPoolCapacity, MaxEngines, MaxSubscribers, RingSize} \subseteq Nat
    /\ RingSize >= 2
    /\ NoObj \notin Obj /\ IsFiniteSet(Obj)
    /\ Realtime \subseteq Worker /\ Batch \subseteq Worker \ Realtime
    /\ Server \cap Dispatcher = {} /\ (Server \cup Dispatcher) \cap Worker = {}
    /\ Home \in [Thread -> Engine]

VARIABLES
    mpc,            \* where the thread of init and shutdown is
    cpc,            \* where each caller is
    g_initialised, g_engine,
    engine,         \* what became of each engine, and what of it was told to stop
    pc,             \* where a thread of an engine is
    ref,            \* the shared pointer it holds
    dying,          \* the objects whose deleter it runs, past the first look at the flag
    inbound, queued,\* the objects in an engine's inbound queue, and in its deques
    ring, unread,   \* the objects in the slots of its ring; those not popped yet
    observers,      \* observers_snapshot_
    active,         \* active of each subscriber
    snap, i,        \* a worker's snapshot, and the last observer it is done with
    needs_prune,
    pool, shutdownFlag,
    heap,           \* the addresses allocated
    subscribed      \* history: the subscribers since the last clear()

bridge == <<g_initialised, g_engine, engine>>
threads == <<pc, ref, dying>>
queues == <<inbound, queued, ring, unread>>
notifying == <<snap, i, needs_prune>>
stream == <<observers, active, subscribed>>
poolVars == <<pool, shutdownFlag, heap>>
calls == <<mpc, cpc, bridge>>
vars == <<calls, threads, queues, notifying, stream, poolVars>>

Init == /\ mpc = "idle" /\ cpc = [c \in Caller |-> "idle"]
        /\ g_initialised = FALSE /\ g_engine = None
        /\ engine = [n \in Engine |-> "none"]
        /\ pc = [t \in Thread |-> "idle"]
        /\ ref = [t \in Thread |-> NoObj]
        /\ dying = [t \in Thread |-> {}]
        /\ inbound = [n \in Engine |-> {}] /\ queued = [n \in Engine |-> {}]
        /\ ring = [n \in Engine |-> {}] /\ unread = [n \in Engine |-> {}]
        /\ observers = {} /\ active = << >> /\ subscribed = {}
        /\ snap = [w \in Worker |-> {}]
        /\ i = [w \in Worker |-> 0]
        /\ needs_prune = [w \in Worker |-> FALSE]
        /\ pool = {} /\ shutdownFlag = FALSE /\ heap = {}

----------------------------------------------------------------------------
(* esccore_init *)

\* IngestEventPool::initialize()
PoolFilled == \E new \in kSubset(kPoolCapacity, Obj \ heap) :
                /\ pool' = pool \cup new /\ heap' = heap \cup new
                /\ shutdownFlag' = FALSE

\* clear() of the stream
Cleared == observers' = {} /\ subscribed' = {}

\* The flag is tested, the configuration read, the storage file opened
\* (nothing changes when one of them throws), the pool filled, the observers
\* cleared and the defaults registered.
InitBuild == /\ mpc = "idle"
             /\ ~g_initialised
             /\ \E n \in Engine : engine[n] = "none"
             /\ PoolFilled
             /\ Cleared
             /\ mpc' = "start"
             /\ UNCHANGED <<cpc, bridge, threads, queues, notifying, active>>

\* The Dispatcher, the processors and the servers are started, while g_engine is
\* still null.  A thread that cannot be created ends the call: the engine stays
\* behind, running.
InitStart == /\ mpc = "start"
             /\ \E n \in Engine :
                  /\ engine[n] = "none" /\ \A k \in 1 .. n - 1 : engine[k] # "none"
                  /\ \/ engine' = [engine EXCEPT ![n] = "up"] /\ mpc' = "publish"
                     \/ engine' = [engine EXCEPT ![n] = "leaked"] /\ mpc' = "idle"
             /\ UNCHANGED <<cpc, g_initialised, g_engine, threads, queues, notifying, stream,
                            poolVars>>

\* g_engine = eng
InitPublish == /\ mpc = "publish"
               /\ \E n \in Engine : engine[n] = "up" /\ g_engine' = n
               /\ mpc' = "flag"
               /\ UNCHANGED <<cpc, g_initialised, engine, threads, queues, notifying, stream,
                              poolVars>>

InitFlag == /\ mpc = "flag"
            /\ g_initialised' = TRUE
            /\ mpc' = "idle"
            /\ UNCHANGED <<cpc, g_engine, engine, threads, queues, notifying, stream, poolVars>>

----------------------------------------------------------------------------
(* esccore_shutdown: each part of the engine is told to stop and waited for  *)

\* Some threads of the engine have ended.
Ended(T, n) == \A t \in T : Home[t] = n => pc[t] = "done"

\* udpServer->stop() and tcpServer->stop()
ServersJoined(n) == Ended(Server, n)

\* processManager->stop() returns although a thread of a processor still runs.
ProcessorsUnjoined(n) == TRUE

\* processManager->stop()
ProcessorsJoined(n) == Ended(Worker, n)

\* dispatcher->stop()
DispatcherJoined(n) == Ended(Dispatcher, n)

\* The flag is withdrawn before anything is stopped.
Shutdown == /\ mpc = "idle"
            /\ g_initialised
            /\ g_initialised' = FALSE
            /\ engine' = [engine EXCEPT ![g_engine] = "servers"]
            /\ mpc' = "servers"
            /\ UNCHANGED <<cpc, g_engine, threads, queues, notifying, stream, poolVars>>

StopServers == /\ mpc = "servers"
               /\ ServersJoined(g_engine)
               /\ engine' = [engine EXCEPT ![g_engine] = "processors"]
               /\ mpc' = "processors"
               /\ UNCHANGED <<cpc, g_initialised, g_engine, threads, queues, notifying, stream,
                              poolVars>>

StopProcessors == /\ mpc = "processors"
                  /\ ProcessorsJoined(g_engine)
                  /\ engine' = [engine EXCEPT ![g_engine] = "dispatcher"]
                  /\ mpc' = "dispatcher"
                  /\ UNCHANGED <<cpc, g_initialised, g_engine, threads, queues, notifying, stream,
                                 poolVars>>

\* IngestEventPool::shutdown(): the flag ...
PoolFlag == /\ mpc = "dispatcher"
            /\ DispatcherJoined(g_engine)
            /\ shutdownFlag' = TRUE
            /\ mpc' = "pool"
            /\ UNCHANGED <<cpc, bridge, threads, queues, notifying, stream, pool, heap>>

\* ... and, with the mutex, what is in the pool.  clearAllObservers() follows.
PoolClear == /\ mpc = "pool"
             /\ pool' = {} /\ heap' = heap \ pool
             /\ Cleared
             /\ mpc' = "delete"
             /\ UNCHANGED <<cpc, bridge, threads, queues, notifying, active, shutdownFlag>>

\* The objects some shared pointer points to: one of a thread, of a queue, or of a
\* slot of the ring, popped or not
Held == ({ref[t] : t \in Thread} \ {NoObj})
           \cup UNION {inbound[n] \cup queued[n] \cup ring[n] : n \in Engine}

\* The deleters a step runs: those of the objects it dropped the last pointer to
Dropped == Held \ Held'

\* delete g_engine: its queues release what is left in them.  The flag is set, so
\* the deleters delete.
DeleteEngine == /\ mpc = "delete"
                /\ inbound' = [inbound EXCEPT ![g_engine] = {}]
                /\ queued' = [queued EXCEPT ![g_engine] = {}]
                /\ ring' = [ring EXCEPT ![g_engine] = {}]
                /\ unread' = [unread EXCEPT ![g_engine] = {}]
                /\ engine' = [engine EXCEPT ![g_engine] = "deleted"]
                /\ mpc' = "null"
                /\ UNCHANGED ref
                /\ heap' = heap \ Dropped
                /\ UNCHANGED <<cpc, g_initialised, g_engine, pc, dying, notifying, stream, pool,
                               shutdownFlag>>

ForgetEngine == /\ mpc = "null"
                /\ g_engine' = None
                /\ mpc' = "idle"
                /\ UNCHANGED <<cpc, g_initialised, engine, threads, queues, notifying, stream,
                               poolVars>>

Lifecycle == \/ InitBuild \/ InitStart \/ InitPublish \/ InitFlag
             \/ Shutdown \/ StopServers \/ StopProcessors
             \/ PoolFlag \/ PoolClear \/ DeleteEngine \/ ForgetEngine

----------------------------------------------------------------------------
(* esccore_subscribe, esccore_metrics and esccore_health: no lock, the flag  *)
(* is tested first                                                           *)

Call(c) == /\ cpc[c] = "idle"
           /\ g_initialised
           /\ \E what \in {"subscribe", "read"} : cpc' = [cpc EXCEPT ![c] = what]
           /\ UNCHANGED <<mpc, bridge, threads, queues, notifying, stream, poolVars>>

\* updated->push_back(observer)
Added(o) == observers \cup {o}

\* subscribe(): under the stream's mutex
Subscribe(c) == /\ cpc[c] = "subscribe"
                /\ Len(active) < MaxSubscribers
                /\ observers' = Added(Len(active) + 1)
                /\ active' = Append(active, TRUE)
                /\ subscribed' = subscribed \cup {Len(active) + 1}
                /\ cpc' = [cpc EXCEPT ![c] = "idle"]
                /\ UNCHANGED <<mpc, bridge, threads, queues, notifying, poolVars>>

\* g_engine->eventBus is read
Read(c) == /\ cpc[c] = "read"
           /\ cpc' = [cpc EXCEPT ![c] = "idle"]
           /\ UNCHANGED <<mpc, bridge, threads, queues, notifying, stream, poolVars>>

----------------------------------------------------------------------------
(* The pool and the shared pointers *)

\* The front of the pool is used and stays in it.
FrontOnly(o) == UNCHANGED pool

\* pool.front() and pool.pop()
TakeFront(o) == pool' = pool \ {o}

\* acquireEvent(): the heap serves when the pool is empty
Acquire(o) == /\ o \in IF pool # {} THEN pool ELSE Obj \ heap
              /\ TakeFront(o)
              /\ heap' = heap \cup {o}

\* The deleter's first look at the flag: delete, or go on to take the mutex
Release(t) == IF shutdownFlag THEN heap' = heap \ Dropped /\ UNCHANGED dying
              ELSE dying' = [dying EXCEPT ![t] = @ \cup Dropped] /\ UNCHANGED heap

\* The flag is not looked at again under the mutex.
GoesBackUnchecked == Cardinality(pool) < kPoolCapacity

\* Does the event go back to the pool?
GoesBack == ~shutdownFlag /\ Cardinality(pool) < kPoolCapacity

\* The deleter with the mutex
ReturnOrDelete(t) == \E o \in dying[t] :
                       /\ IF GoesBack THEN pool' = pool \cup {o} /\ UNCHANGED heap
                          ELSE heap' = heap \ {o} /\ UNCHANGED pool
                       /\ dying' = [dying EXCEPT ![t] = @ \ {o}]
                       /\ UNCHANGED <<calls, pc, ref, queues, notifying, stream, shutdownFlag>>

\* A thread is at a place of its program, with no deleter to finish.
At(t, place) == pc[t] = place /\ dying[t] = {}
Goto(t, place) == pc' = [pc EXCEPT ![t] = place]

\* It goes from one place to another, and that is all.
Moves(t, from, to) == /\ At(t, from)
                      /\ Goto(t, to)
                      /\ UNCHANGED <<calls, ref, dying, queues, notifying, stream, poolVars>>

\* The end of the scope of a thread's pointer.  There may be another frame in the
\* bytes a server received.
Drop(t) == /\ At(t, "drop")
           /\ ref' = [ref EXCEPT ![t] = NoObj]
           /\ UNCHANGED queues
           /\ Release(t)
           /\ \/ Goto(t, "idle")
              \/ t \in Server /\ Goto(t, "recv")
           /\ UNCHANGED <<calls, notifying, stream, pool, shutdownFlag>>

----------------------------------------------------------------------------
(* The servers and the Dispatcher *)

\* Which loops of an engine go on: their while (running).  The TCP server is told
\* to stop after the UDP server has; what it receives until then are more frames of
\* its last recv() here.
Serving(n) == engine[n] \in {"up", "leaked"}

Processing(n) == engine[n] \in {"up", "leaked", "servers"}
Dispatching(n) == engine[n] \in {"up", "leaked", "servers", "processors"}

\* The loop's test, and then recv(), recvfrom() or accept(), which may block
ServerTest(s) == /\ engine[Home[s]] # "none"
                 /\ Moves(s, "idle", IF Serving(Home[s]) THEN "recv" ELSE "done")

\* The call returns and there is no event in what it gave.
Nothing(s) == Moves(s, "recv", "idle")

\* An event is acquired and pushed; the inbound queue may refuse it.  The server
\* has its own pointer to it to the end of the scope.
Receive(s) == LET n == Home[s]
              IN  /\ At(s, "recv")
                  /\ \E o \in Obj :
                       /\ Acquire(o)
                       /\ ref' = [ref EXCEPT ![s] = o]
                       /\ \/ inbound' = [inbound EXCEPT ![n] = @ \cup {o}]
                          \/ UNCHANGED inbound
                  /\ Goto(s, "drop")
                  /\ UNCHANGED <<calls, dying, queued, ring, unread, notifying, stream,
                                 shutdownFlag>>

ServerStep(s) == ServerTest(s) \/ Nothing(s) \/ Receive(s) \/ Drop(s) \/ ReturnOrDelete(s)

\* The inbound queue moves the event out.
Fetch(d) == LET n == Home[d]
            IN  /\ At(d, "idle")
                /\ Dispatching(n)
                /\ \E o \in inbound[n] : /\ inbound' = [inbound EXCEPT ![n] = @ \ {o}]
                                         /\ ref' = [ref EXCEPT ![d] = o]
                /\ Goto(d, "route")
                /\ UNCHANGED <<calls, dying, queued, ring, unread, notifying, stream, poolVars>>

DispatchEnds(d) == /\ engine[Home[d]] # "none" /\ ~Dispatching(Home[d])
                   /\ Moves(d, "idle", "done")

\* Into a deque, or, when that is full, into the dead letter queue, as a copy
PushDeque(d) == /\ At(d, "route")
                /\ \/ queued' = [queued EXCEPT ![Home[d]] = @ \cup {ref[d]}]
                   \/ UNCHANGED queued
                /\ Goto(d, "drop")
                /\ UNCHANGED <<calls, ref, dying, inbound, ring, unread, notifying, stream,
                               poolVars>>

\* What is not read yet once there is room: in a full ring, one less
Room(n) == IF Cardinality(unread[n]) = RingSize - 1 THEN {unread[n] \ {o} : o \in unread[n]}
           ELSE {unread[n]}

\* The object whose pointer the next slot still has, popped a round before
Overwritten(n) == IF Cardinality(ring[n]) = RingSize THEN {{o} : o \in ring[n] \ unread[n]}
                  ELSE {{}}

\* Into the ring: the slot's old pointer is dropped here.
PushRing(d) == LET n == Home[d]
               IN  /\ At(d, "route")
                   /\ \E left \in Room(n) : \E old \in Overwritten(n) :
                        /\ unread' = [unread EXCEPT ![n] = left \cup {ref[d]}]
                        /\ ring' = [ring EXCEPT ![n] = (@ \ old) \cup {ref[d]}]
                   /\ UNCHANGED <<ref, inbound, queued>>
                   /\ Release(d)
                   /\ Goto(d, "drop")
                   /\ UNCHANGED <<calls, notifying, stream, pool, shutdownFlag>>

DispatcherStep(d) == \/ Fetch(d) \/ DispatchEnds(d) \/ PushDeque(d) \/ PushRing(d)
                     \/ Drop(d) \/ ReturnOrDelete(d)

----------------------------------------------------------------------------
(* The processors *)

\* pop() of a deque
TakeDeque(w) == LET n == Home[w]
                IN  /\ At(w, "idle") /\ w \notin Realtime
                    /\ Processing(n)
                    /\ \E o \in queued[n] : /\ queued' = [queued EXCEPT ![n] = @ \ {o}]
                                            /\ ref' = [ref EXCEPT ![w] = o]
                    /\ Goto(w, "process")
                    /\ UNCHANGED <<calls, dying, inbound, ring, unread, notifying, stream,
                                   poolVars>>

\* pop() of the ring copies the pointer; the slot keeps its own.
TakeRing(w) == LET n == Home[w]
               IN  /\ At(w, "idle") /\ w \in Realtime
                   /\ Processing(n)
                   /\ \E o \in unread[n] : /\ unread' = [unread EXCEPT ![n] = @ \ {o}]
                                           /\ ref' = [ref EXCEPT ![w] = o]
                   /\ Goto(w, "process")
                   /\ UNCHANGED <<calls, dying, inbound, queued, ring, notifying, stream, poolVars>>

\* dropBatchFromQueue(), called by the batch processor with an event at hand
DropBatch(w) == LET n == Home[w]
                IN  /\ At(w, "process") /\ w \in Batch
                    /\ \E some \in (SUBSET queued[n]) \ {{}} :
                         queued' = [queued EXCEPT ![n] = @ \ some]
                    /\ UNCHANGED <<pc, ref, inbound, ring, unread>>
                    /\ Release(w)
                    /\ UNCHANGED <<calls, notifying, stream, pool, shutdownFlag>>

\* The event is done with.
Processed(w) == Moves(w, "process", "drop")

LoopEnds(w) == /\ engine[Home[w]] # "none" /\ ~Processing(Home[w])
               /\ Moves(w, "idle", "stop")

Stopped(w) == Moves(w, "stop", "done")

\* notifyProcessed() or notifyDropped() loads the list: of the event at hand, or of
\* one the batch processor has kept, which it also flushes when it stops.
Notify(w) == /\ At(w, "process") \/ (w \in Batch /\ At(w, "stop"))
             /\ snap' = [snap EXCEPT ![w] = observers]
             /\ i' = [i EXCEPT ![w] = 0]
             /\ Goto(w, "notify")
             /\ UNCHANGED <<calls, ref, dying, queues, needs_prune, stream, poolVars>>

\* for (const auto& obs : *observers): the observers still to come, and the next
Left(w) == {o \in snap[w] : o > i[w]}
obs(w) == Min(Left(w))

\* The next observer of the snapshot: called if it is active, for an event that
\* was processed and whose topic it asked for
Visit(w) == /\ At(w, "notify")
            /\ Left(w) # {}
            /\ \/ /\ active[obs(w)]
                  /\ Goto(w, "callback")
                  /\ UNCHANGED <<i, needs_prune>>
               \/ /\ i' = [i EXCEPT ![w] = obs(w)]
                  /\ needs_prune' = [needs_prune EXCEPT ![w] = @ \/ ~active[obs(w)]]
                  /\ UNCHANGED pc
            /\ UNCHANGED <<calls, ref, dying, queues, snap, stream, poolVars>>

\* The callback returns; not 0 ends the subscription
Return(w) == /\ At(w, "callback")
             /\ \/ active' = [active EXCEPT ![obs(w)] = FALSE]
                \/ UNCHANGED active
             /\ i' = [i EXCEPT ![w] = obs(w)]
             /\ Goto(w, "notify")
             /\ UNCHANGED <<calls, ref, dying, queues, snap, needs_prune, observers, subscribed,
                            poolVars>>

\* The worker's own snapshot is pruned and put back.
PruneSnapshot(w) == observers' = {o \in snap[w] : active[o]}

\* pruneInactive(): under the mutex, from the list as it is now
Prune(w) == observers' = {o \in observers : active[o]}

\* The end of the loop over the observers.  A flush goes on with the next event.
Notified(w) == /\ At(w, "notify")
               /\ Left(w) = {}
               /\ IF needs_prune[w] THEN Prune(w) ELSE UNCHANGED observers
               /\ snap' = [snap EXCEPT ![w] = {}]
               /\ i' = [i EXCEPT ![w] = 0]
               /\ needs_prune' = [needs_prune EXCEPT ![w] = FALSE]
               /\ Goto(w, IF w \notin Batch THEN "drop"
                          ELSE IF ref[w] = NoObj THEN "stop" ELSE "process")
               /\ UNCHANGED <<calls, ref, dying, queues, active, subscribed, poolVars>>

WorkerStep(w) == \/ TakeDeque(w) \/ TakeRing(w) \/ DropBatch(w) \/ Processed(w)
                 \/ LoopEnds(w) \/ Stopped(w)
                 \/ Notify(w) \/ Visit(w) \/ Return(w) \/ Notified(w)
                 \/ Drop(w) \/ ReturnOrDelete(w)

----------------------------------------------------------------------------

Next == \/ Lifecycle
        \/ \E c \in Caller : Call(c) \/ Subscribe(c) \/ Read(c)
        \/ \E s \in Server : ServerStep(s)
        \/ \E d \in Dispatcher : DispatcherStep(d)
        \/ \E w \in Worker : WorkerStep(w)

Spec == Init /\ [][Next]_vars

----------------------------------------------------------------------------
(* Properties *)

TypeOK == /\ mpc \in {"idle", "start", "publish", "flag", "servers", "processors", "dispatcher",
                      "pool", "delete", "null"}
          /\ cpc \in [Caller -> {"idle", "subscribe", "read"}]
          /\ g_initialised \in BOOLEAN /\ g_engine \in Engine \cup {None}
          /\ engine \in [Engine -> {"none", "up", "leaked", "servers", "processors", "dispatcher",
                                    "deleted"}]
          /\ pc \in [Thread -> {"idle", "recv", "route", "process", "notify", "callback", "drop",
                                "stop", "done"}]
          /\ ref \in [Thread -> Obj \cup {NoObj}]
          /\ dying \in [Thread -> SUBSET Obj]
          /\ inbound \in [Engine -> SUBSET Obj] /\ queued \in [Engine -> SUBSET Obj]
          /\ ring \in [Engine -> SUBSET Obj] /\ unread \in [Engine -> SUBSET Obj]
          /\ active \in Seq(BOOLEAN) /\ Len(active) <= MaxSubscribers
          /\ observers \subseteq DOMAIN active
          /\ snap \in [Worker -> SUBSET DOMAIN active]
          /\ i \in [Worker -> 0 .. MaxSubscribers]
          /\ needs_prune \in [Worker -> BOOLEAN]
          /\ pool \subseteq Obj /\ heap \subseteq Obj /\ shutdownFlag \in BOOLEAN
          /\ subscribed \subseteq DOMAIN active

NoneLeaked == \A n \in Engine : engine[n] # "leaked"

\* Each event object allocated is in the pool, behind a shared pointer or with a
\* deleter, and in one of these only, and no two threads run its deleter: none is
\* lost, used after it was given back, or given back twice, whichever thread drops
\* the last of the pointers of servers, queues, ring slots and processors, and
\* whether that is before, after or during a shutdown of the pool.
OneOwner == /\ heap = pool \cup Held \cup UNION {dying[t] : t \in Thread}
            /\ pool \cap Held = {}
            /\ \A t \in Thread : /\ dying[t] \cap (pool \cup Held) = {}
                                 /\ \A u \in Thread \ {t} : dying[t] \cap dying[u] = {}

\* Once shutdown() of the pool is over it stays empty until it is initialised
\* again, although the threads of an engine left behind by a failed init still
\* release events.
EmptyAfterShutdown == shutdownFlag /\ mpc # "pool" => pool = {}

\* The pool holds no more than its capacity, although the heap helps out when it
\* is empty; an init that failed after it filled the pool adds to it once more.
PoolBounded == NoneLeaked => Cardinality(pool) <= kPoolCapacity

\* The pool stays within its limits while it is up, and empty when it is down.
PoolLimits == PoolBounded /\ EmptyAfterShutdown

\* No subscriber is lost: whoever subscribed since the list was last cleared and
\* has not ended its subscription is in the list, although processors prune it
\* at the same time.
SubscriberKept == \A s \in subscribed : active[s] => s \in observers

\* Whoever sees the flag set finds an engine behind the pointer: the pointer is
\* published before the flag and withdrawn after it.
EngineBehindFlag == g_initialised => g_engine # None /\ engine[g_engine] = "up"

\* An engine is deleted when none of its threads can use it any more, and with
\* all it had: nothing was put into its queues after they were emptied.
EngineOutlivesThreads ==
    \A n \in Engine : engine[n] = "deleted" =>
        Ended(Thread, n) /\ inbound[n] \cup queued[n] \cup ring[n] = {}

\* Nobody is called back after shutdown, until the next init has started its
\* threads, so that a client may free what the callback uses; and whoever
\* subscribed before that is not called by the new engine.
NoLateCallback ==
    NoneLeaked =>
        \A w \in Worker : pc[w] = "callback" =>
            /\ obs(w) \in subscribed
            /\ g_initialised \/ mpc \in {"publish", "flag", "servers", "processors"}

\* Flag, pointer, engine, threads and callbacks agree at every step of init and
\* shutdown.
ShutdownIsClean == EngineBehindFlag /\ EngineOutlivesThreads /\ NoLateCallback

\* An observability call reads an engine that exists, at any time: esccore.h
\* calls them safe from any thread.
ReadsLiveEngine ==
    \A c \in Caller : cpc[c] = "read" => g_engine # None /\ engine[g_engine] # "deleted"
=============================================================================
