# A TLA+ verification of EventStreamCore

This directory models EventStreamCore from its sockets to its storage file: the
ingest servers, the queues, the event bus and the Dispatcher, the processors
with their handlers, the deduplication table, the C bridge with the event pool
and the observers, and the shutdown. TLC checks the models on small instances
(`MC*.tla`, `*.cfg`), TLAPS proves the theorems of `*Proofs.tla` for every
value of the constants. `PROJECT.json` lists components, runs, mutants,
findings, hazards and theorems and maps every definition to the lines it
models.

    tlc -workers 2 -config MCMpscQueue.cfg MCMpscQueue
    tlapm MpscQueueProofs.tla

## The system

    TCP, UDP,     --> MpscQueue --> Dispatcher --> EventBusMulti --> processors --> storage, observers
    epoll servers                       |            REALTIME       (3 threads)        |
         |                              |            TRANSACTIONAL                     |
    IngestEventPool                     |            BATCH                             |
                                        +-----------> DeadLetterQueue <----------------+

| Component | State | Operations | Hard part |
|---|---|---|---|
| `MpscQueue` | linked nodes, `head_`, `tail_`, `size_` | `push`, `pop` | lock-free; nodes freed under producers; approximate count |
| `SpscRingBuffer` | slots, `head_`, `tail_` | `push`, `pop`, `size` | lock-free; plain slots |
| `EventBusMulti` | ring with pressure level, two deques with mutex and condition variable, DLQ, metrics | `push`, `pop`, `dropBatchFromQueue` | three overflow policies; the Dispatcher pops the ring on overflow |
| `Dispatcher` | inbound queue, `running_` | `tryPush`, `route`, `adaptToPressure`, loop with retries, `stop` | one thread serves three queues; cached pressure |
| `ProcessManager` | `isRunning_`, three threads | `start`, `stop`, `runLoop`, `dropBatchEvents`, `pauseTransactions` ... | stop order |
| processors | dedup table, buckets per topic, flags | `process`, `stop`, flush | a storage that throws half way; retries; duplicate ids |
| handlers | registry of topic prefixes | `validate`, `checkRules`, `handle` | reads of the body that rely on an earlier check |
| `StorageEngine` | file, the stream's buffer, its sticky error state | `storeEvent`, `flush` | fails with an exception; what a crash of the process loses |
| `DeadLetterQueue` | the last events, total | `push`, `pushBatch` | who puts an event there, and how often |
| `LockFreeDeduplicator` | chains of entries | `insert`, `is_duplicate`, `cleanup` | lock-free; deletion under readers |
| `ProcessedEventStream` | snapshot of observers | `subscribe`, `notify*`, `clear`, prune | copy on write by several threads |
| `IngestEventPool` | free list, `shutdown` flag | `initialize`, `acquireEvent`, the deleter, `shutdown` | the last owner of an event can be any thread, at any time |
| C bridge | `g_engine`, `g_initialised` | `init`, `shutdown`, `subscribe`, metrics, health | calls racing `shutdown`; an init that throws half way |
| TCP and UDP servers | sockets, buffers, list of client threads | `start`, `stop`, accept, receive, framing | joins of blocked threads; a stream cut anywhere |
| epoll server | map from descriptors to connections, epoll sets | `start`, `stop`, accept, `workerLoop`, `handleRead`, `closeConnection` | descriptors used again; edge-triggered reading |
| metrics, topic table, configuration, NUMA, `EventPool`, `ThreadPool` | counters, maps | reads and writes | see Not modelled |

What makes each of them correct: a queue loses, duplicates and reorders
nothing and frees its memory once; the bus and the Dispatcher put every event
in one place, and say so when it is dropped; CRITICAL events are never
demoted; the dedup table accepts an id once; a processor stores, dead-letters
or reports each event once; an event object has one owner; a server finds the
frames the client sent, however they arrive, and never mixes clients; nothing
waits for ever, and a shutdown ends and leaves nothing behind.

## Modules

| Module | Models |
|---|---|
| `FifoQueue` | abstract: what a bounded queue with one consumer promises. `Spec` is exact, `RelaxedSpec` lets an operation fail spuriously and bounds the overshoot. |
| `RingIndex` | index arithmetic of the ring |
| `SpscRingBuffer` | the ring under its contract, one producer and one consumer |
| `MpscQueue` | the inbound queue with its heap and its wrapping counter |
| `RealtimeBus` | the ring as the bus uses it: the Dispatcher's thread pushes and, on overflow, pops |
| `EventPipeline` | ingest, routing, the three queues, retries, dropping on command, loops and shutdown |
| `Dedup` | one bucket of the deduplication table |
| `Handlers` | the registry and the handler classes, as operators |
| `Processors` | the three processors, storage, dead letter queue, counters, reports to observers |
| `Bridge` | C API, engines, observers, event pool, the shared pointers to event objects from server to processor |
| `Framing` | how a buffer is cut into frames and a frame into an event, as operators |
| `Ingest` | the TCP and the UDP server |
| `Epoll` | the epoll server, with the kernel's descriptors, edges and epoll sets |
| `SpscRingBufferProofs`, `MpscQueueProofs`, `RealtimeBusProofs`, `EventPipelineProofs`, `DedupProofs`, `BridgeProofs`, `ProcessorsProofs` | the theorems about the module each is named after |
| `ServerProofs` | the theorems about `Framing`, `Epoll` and `Ingest` |

Composition: `EventPipeline` takes the inbound queue as the FIFO queue
`MpscQueue` is shown to be, and the ring as the exact queue `RealtimeBus` shows
it to be until it overflows. `Processors` starts where `EventPipeline` ends,
at a queue for each lane, and takes the dedup table as the set `Dedup` shows a
bucket to be. `Ingest` and `Epoll` share `Framing` and end at the call of
`tryPush` that `EventPipeline` begins with. `Bridge` has the same threads and
queues once more, as the shared pointers they hold.

State and actions:

* **SpscRingBuffer.** Each call is split at its accesses to shared memory:
  `PushCall`, `PushFull`/`PushRoom` (load of `tail_`), `PushWrite` (slot),
  `PushPublish` (store of `head_`); `PopEmpty`/`PopSome`, `PopRead`,
  `PopRelease`. Loads and stores of the indices are acquire and release, so
  interleaving them is what the build does as long as no slot is accessed by
  both threads at once, which is `NoSlotRace`.
* **MpscQueue.** `PushRefused`/`PushAdmitted` (load of `size_`), `PushSwap`
  (allocation and exchange), `PushLink`, `PushCount`; `PopEmpty`/`PopTake`,
  `PopDelete`, `PopCount`. A freed node goes back to the heap and `PushSwap`
  may get it again. `size_` counts modulo `SizeMod` (2^64 in the build).
  `chain`, a history variable, is the order of the exchanges.
* **RealtimeBus.** The two threads that pop load `tail_` and store it in
  separate steps, and a store writes the value computed from the load. Before
  the first overflow only one thread pops. A slot written while it is being
  copied gives the old or the new event; in the build this is a data race on a
  `shared_ptr` and can be worse, so what the passing run shows of the time
  after an overflow is a best case, and what the violation shows does not
  depend on it.
* **EventPipeline.** Queue operations are atomic: the deques have mutexes. From
  the ring's first overflow on the properties claim nothing of REALTIME events
  (`Unprotected`). An event's `kind` is the client's priority and the topic
  table's. `PushBlock`, `PushTimeout` and `PushRoom` are the timed wait of the
  TRANSACTIONAL queue; a condition variable can wake at any time and tests its
  predicate, so a wait ends with room or with the timeout. A refusal by the
  inbound queue only makes ingest drop an event, which then never enters the
  model. A null event, which the ingest servers never push, is left out.
* **Dedup.** Scans follow the chain link by link. `Spec` has a cleanup at any
  time, `QuietSpec` only while no other call is under way, which is how the
  TransactionalProcessor uses the table. `expired` is the set of entries a
  cleanup's `now_ms` makes too old; `cleanup_all` is the case of all of them.
  What `QuietSpec` leaves out, a cleanup beside other calls as `dedup.hpp`
  describes it, is the run `dedup_cleanup`.
* **Processors.** One thread per lane. Events are numbered in the order in
  which the bus got them; a queue or a bucket is the set of its numbers and is taken
  from the least on. Ids follow that order; two ingest threads may number
  the other way round, which nothing here depends on. An event is checked and taken off its
  queue in one step (`Reject`, `RealtimeHandle`, `TransactionBegin`, ...): those
  parts of `process` touch nothing another thread sees. Each attempt of a
  handler is a step (`TransactionHandle`), and so are each event of a flush
  (`FlushHandle`) and each call of the storage (`StoreEvent`), the places where
  another lane's use of storage, DLQ and observers can come in between. Any
  write may fail, and the stream is bad from then on. Time (window, SLA, age
  of an id) is a choice. Ids count modulo `IdSpace`, 2^32 in the build. An
  exception that leaves a thread, which only the flush of `stop()` can
  raise, sets `terminated`. `ofstream::flush()` gives the bytes to the operating
  system, which keeps them when the process dies; what a power cut loses is
  not the code's to say, it never syncs the file.
* **Bridge.** `init` and `shutdown` are steps of one thread (`mpc`), as
  `esccore.h` asks. An engine's threads run from `InitStart` on, `g_engine` is
  set by `InitPublish` and the flag by `InitFlag`; `engine[n]` says which parts
  were told to stop, and each `stop()` waits for its threads. `subscribe` and
  the observability calls test the flag in one step and act in another. A
  thread holds one pointer (`ref`); `queued` stands for both deques; a pop of the
  ring copies the pointer and its slot keeps one (`ring`, of which `unread` is
  not popped yet), until a push writes the slot again. A step that drops the last pointer
  to an object (`Dropped`) runs its deleter: it deletes if the pool is down, and
  otherwise takes the mutex later (`dying`, `ReturnOrDelete`), before the thread
  goes on. Subscribers are numbered as they come, so a list of observers is the
  set of their numbers, visited in increasing order. An init that throws after
  the threads started leaves its engine `leaked`, still running, and a later
  init makes another next to it.
* **Framing.** `Scan` cuts off frames until the buffer holds no whole one, or
  a limit (frame too large, too many empty ones) says to close. Numbers are of
  base `Base`, a length has `HeaderSize` digits. A stream and a datagram are
  sequences of numbers below `Base`, whatever they mean. `parseFrameBody` tests what
  `frame_parser.cpp` tests, in its order.
* **Ingest.** TCP: the accept thread (`apc`), a thread for each client (`tpc`)
  and the list `stop()` and the clean-up join from. `Receive` takes any
  number of the bytes sent, up to the chunk. A thread sets its flag (`ClientEnd`)
  before it ends (`ClientExit`), and a join waits for the end. UDP: the receive
  thread (`upc`), with `recvBuffer` kept from one datagram to the next. Lengths
  are below `LengthSpace`, 2^32 in the build, and `4 + frameLen` is taken modulo
  it: when it wraps, the parser reads past the datagram and past the buffer, which gives an
  event of foreign bytes, an exception or a crash. `recv()`, `accept()` and `recvfrom()`
  block.
* **Epoll.** `accept()` takes the lowest free descriptor. An edge arrives with
  `Send`, `Hangup` and `Add` and puts the descriptor in the `ready` list of the worker
  it is registered with; `epoll_wait` moves up to `maxEvents_` of it to the
  worker's `batch`, or times out. A peer whose bytes are whole frames may send
  for ever: once all is read, `SendAgain` begins anew. `closeConnection` removes
  the descriptor from the set and the entry from the map, and closes the number
  in a later step; the accept thread can come in between. `stop()` clears
  `epollFds_` under the accept thread: a cleared vector of `int` keeps its memory, so what
  that thread reads is a closed number and its `epoll_ctl` fails (`AddFails`).
  A `start()` that fails is one step, after which there is no thread.

Definitions named like an action with a suffix (`PushRoomUnchecked`,
`PopDeleteNext`, ...) are faulty variants of it, each with the comment that
names the fault. No specification uses them; replacing the action by its
variant must break the property `PROJECT.json` names with it. The type
invariants of all modules are stated; the run of the ring checks its own, and
those of the modules with a `Proofs` module are part of what is proved there.

## Runs

| Run | Instance | Result |
|---|---|---|
| `spsc_ring` | 4 slots, 2 items | pass: types, no slot race, exact FIFO refinement |
| `mpsc_queue` | 2 producers, capacity 1, 4 nodes, 2 items | pass: no use after free, no leak, relaxed FIFO refinement with its bound, refusals have a reason, what is accepted is taken |
| `realtime_bus` | 4 slots, 7 events | pass: exact until overflow, no null event, drains |
| `realtime_loss` | the same | violation: an accepted event vanishes after an overflow |
| `pipeline` | 3 events of 4 kinds; inbound 2, ring 1, TRANSACTIONAL 1, BATCH 2 | pass: one place, order and limits, CRITICAL stays REALTIME, events settle, shutdown ends with no event in a thread's hands |
| `dedup` | 2 threads, 3 ids, 5 entries, 2 retries | pass: chain linked and ids unique, nothing leaked, only expired entries removed |
| `dedup_cleanup` | 2 threads, 2 ids, 4 entries | violation: a cleanup frees an entry another thread reads |
| `processors` | 10 workloads of 3 events, 2 ids, 2 attempts, flush after 2, DLQ of 2 | pass: reported once, stored once, counters and DLQ add up, fewer than a batch lost when the process dies, reads inside bodies, alarms raised, stop ends |
| `bridge` | an engine with a server, a Dispatcher, a REALTIME and a BATCH thread, one before it with a server; 2 objects, pool of 1, ring of 2; 1 caller, 2 subscribers | pass: one owner per object, pool limits, no subscriber lost, clean shutdown |
| `bridge_calls` | the same | violation: an observability call reads a deleted engine |
| `ingest` | bytes of 6 values; 2 TCP streams cut anywhere; 9 datagrams, 3 received | pass: frames independent of the pieces, threads joined, datagrams sound, stop ends |
| `epoll` | 3 clients, one of them endless, 2 descriptors, 1 worker, 3 bytes per read | pass: descriptors current, state alive, frames of one client, all bytes read, stop ends and leaves nothing |

The violations contradict a comment or a document of the repository; the
quotes are in `PROJECT.json`.

**Bounds.** The ring and the inbound queue have no counters, so their runs
cover executions of any length. Four slots let the indices wrap and keep full,
empty and partly filled apart. Four nodes are enough never to run out (the
`EnoughNodes` assumption of `MCMpscQueue`) and few enough that freed nodes are
used again; with capacity 1 two producers overshoot and the counter wraps.
Seven events overflow a ring of four slots several times. In
`EventPipeline` `MaxEvents` is larger than every queue, so each policy is
reached, with its retries, and the marks of the pressure level are inside the
ring; the levels HIGH and CRITICAL have the same effect on routing. Two
threads and three ids give a chain with a head, a middle and an end, and lost
races on each. In `Processors` the third event has the id of the first, a
flush of the file happens inside a bucket and between lanes, and the DLQ
overflows; a workload is fixed because the lanes meet only in storage, DLQ and
observers, and the ten of them have each lane alone, the lanes together and a
rejected event in each. In `Bridge` two engines are an engine and its
successor, or one that was left behind and another that is shut down beside
it. Two objects fill the pool, overflow the ring and make the heap help out;
two subscribers let one be pruned while the other comes. A slot of the ring
that is written over while it holds a popped event takes a third object, which
is beyond the run (together with the subscribers) and left to the theorem
`ObjectsHaveOneOwner`. The streams of `Ingest` hold a good frame, a bad one,
an empty one and each limit; its clean-up runs at the second connection. One
datagram has the greatest length there is. In `Epoll` two descriptors let one
be used again while the other client is connected, and one worker has both, so
that a batch can hold two events and one peer can keep another waiting; several
workers, which share the map and the descriptors, and more edges than one
`epoll_wait` reports are in the theorems.

**Fairness.** Weak fairness of a thread's own steps. The calls of the
queues do not wait for each other; the waits of the bus and of `epoll_wait` are
timed; the operating system keeps running every thread. Strong fairness in one
place: in `Epoll` each descriptor that is ready again and again is reported,
since the kernel's ready list is first in, first out. Nothing is assumed of
clients: nobody needs to send, to hang up or to shut the system down. Where that
is not enough the property has a premise:

* `StopEnds` of `Ingest`: no thread stays blocked for ever in `recv()` or
  `recvfrom()`, since nothing in `stop()` wakes it; `esccore_shutdown`, which
  waits for the servers first, has the same premise;
* `BytesAreRead` and `StopEnds` of `Epoll`: no peer keeps a worker in
  `handleRead` for ever (`ReadsEnd`), whose loop tests nothing but `recv()`. With an
  endless peer both fail without it.

## Proofs

All theorems are about the specifications the runs check, for every value of
the constants. The assumptions are those of the modules, and say what the code
fixes: a ring capacity that is a power of two; a finite set of producers;
`SizeMod` above the capacity and the number of producers, which 2^64 is; queue
capacities, retry counts and batch sizes above zero; values for "nothing"
(`NULL`, `NoObj`, `NoConn`, `NotInTable`) that are no value of the other kind;
in `Bridge` finitely many event objects, a ring of two slots at least, and
threads of one kind and one engine each; in `Epoll` at least one descriptor,
one worker and one event per wait; in `Ingest` a buffer that a length fits in
and a `LengthSpace` above zero; in `Processors` a workload of finitely many
events, of any lane, topic and size; streams and datagrams made of bytes.

* **SpscRingBufferProofs.** Type correctness is inductive. Absence of slot
  races is not: the proof adds what each thread learned from its last test, as
  long as it acts on it (while `push` writes, the ring is not full; while
  `pop` reads, it is not empty), and that every slot between `tail_` and
  `head_` holds an item. From this invariant follow `RaceFree`, `CopyCorrect`
  and, with lemmas on `NextSlot` and `Used` under a publish and a release,
  `ImplementsFifo`.
* **MpscQueueProofs.** `StructInv` relates the list to `chain`: nodes of
  `chain` are distinct and allocated, it starts at `head_` and ends at
  `tail_`; a link between neighbours is either there or owed by exactly one
  producer that is about to make it (`Links`, `Holes`); what is allocated is
  `chain` and the node about to be deleted; nodes after the first carry items.
  It gives `MemorySafe`, `LeakFree`, `EmptyHasReason` and `ImplementsFifo`.
  `CountInv` relates `size_` to the length of `chain`, corrected by the
  producers that have not counted yet and the consumer that has not; it gives
  `Overshoot`, `SizeExact` and `Refused`: a push is refused at capacity or
  while the counter is below zero, never otherwise. `OvershootBounded`,
  `SizeExactAtRest`, `EmptyOnlyIfUnlinked` and `CopyIsCurrent` are
  proved and have no run of their own; the refinements imply most of them.
* **RealtimeBusProofs.** `NoNullEvent` must survive the time after an overflow,
  when two threads store `tail_` and may move it back. Until `head_` comes
  round to slot 0 every copy of `tail_` a thread holds is at most `head_`, and
  from then on no slot is null (`Written`). `ExactUntilOverflow` needs more than
  the counts it speaks of: while only the processor pops, the ring holds the
  last `Used(head_, tail_)` events accepted, in order, and every earlier one
  was delivered once (`Exact`).
* **EventPipelineProofs.** The events are numbered, and the inbound queue hands
  them out in that order. So the Dispatcher holds the event numbered `Taken`,
  the queues of the bus hold smaller ones, and each of these is increasing
  (`Ordered`), which gives `LanesSound`. An increasing queue holds an event at
  most once; the count `InOnePlace` is about becomes a sum of zeros and ones,
  and a step moves an event from one summand to another. `CriticalIsRealtime`
  needs what the Dispatcher has decided for the event it holds.
* **DedupProofs**, of `QuietSpec`. While calls run, the chain only grows at its
  front, so what a thread has scanned stays scanned (`Scans`); when its
  `compare_exchange` finds the head it started from, the scan covers the whole
  chain and the id is new. A thread that inserts owns its entry alone (`Owns`).
  A cleanup runs alone, its two pointers on neighbours of the chain
  (`Cleans`). `OnlyExpiredRemoved` is an action property from the same
  invariant. That no entry is freed under a reader is not claimed: it is false
  for `Spec` (run `dedup_cleanup`) and holds of `QuietSpec` by its guard.
* **BridgeProofs.** At most one engine that no failed init left behind is at
  work, and where `mpc` is says in which state it is (`Engines`); threads that
  were joined have ended, and a deleted engine has nothing (`Threads`). A thread
  that is not at work on an event holds no pointer, and the ring keeps what is
  not popped (`Pointers`); with this each step either passes pointers on
  (`PassesOn`) or drops some, and what it drops the last pointer to goes to its
  own deleter or is deleted (`DropsLast`), which is `OneOwner`. `PoolBounded`
  needs that the pool is empty between a shutdown and the next init (`Filled`).
  A worker's snapshot holds subscribers since the last `clear()` only, since no
  worker notifies while an init or a shutdown clears (`NoneRuns`,
  `Observers`); this and `Threads` give `ShutdownIsClean`.
* **ProcessorsProofs**, for every workload. `FlowInv` says where an event can be:
  in its queue, from which events leave in the order of their numbers (`Waiting`);
  with its thread, exactly while that is at work on it (`Holding`); in the bucket
  of its topic, after the checks (`Collected`); what the history variables hold has
  left its queue (`Gone`). It gives `BodiesReadInside`: what is in a thread's
  hands or in a bucket has passed `validate()`. `ToldOnce` and `StoredOnce` need
  `ToldInv`, which adds what was said of an event: nothing before it is decided
  (`Silent`); while the file can be written, in a bucket one thing exactly if the
  running flush is past the event (`InBuckets`), and one thing once the event has
  left everything (`Settled`); as many records as reports of success, also after a
  write has failed, since the stream stays bad and takes no more (`Written`); ids in the table only of
  events processed (`Remembered`). `SurvivesProcess` needs that the buffer holds no
  more than was counted since the last flush, and nothing when the last thread
  has stopped (`Buffered`); `AlarmsRaised` that the alarm is out when the event
  leaves its queue (`Raised`). For `Accounted` the counters of a processor add
  up, at every step, to the events taken, one of which may be in hand and a late
  one of which counts twice (`Counted`), and the total of the dead letter queue is
  the number of drops reported and swept (`DeadLettered`).
* **ServerProofs, framing.** What `Loop` computes for every buffer is an
  induction over data. The library's induction theorems take an operator as a
  parameter, which the provers cannot instantiate, so the proofs use that a set of
  numbers has a least one (`LeastNumber`): of the buffers a statement fails for, one
  would be shortest (`ByLength`). Each pass that goes on leaves fewer bytes, so
  the equation that defines `Loop` has a solution (`LoopExists`) and `Loop` is
  one (`LoopRecursion`): the loop of the code ends. From this, the frames
  found before do not matter (`ResultAfter`), bytes that come later continue
  where the loop stopped to wait for them (`ResultContinued`), and the frames
  of a stream cut in two are those of the whole (`ScanContinued`).
* **ServerProofs, Epoll.** An open descriptor is in the hands of the accept thread, in
  the epoll set of one worker, or being closed by one worker (`Accepting`,
  `Sets`, `Busy`), and its entry is in the map exactly while it is in a set or
  about to be added to one (`Entries`, `Owned`). `Batches` says the same of the
  events a worker took from its set and has yet to handle: no other worker can
  close their descriptors, so none is used again meanwhile. `NothingIsLeft`, the
  safety part of `StopEnds`, has no run of its own. `OwnFramesOnly` speaks of
  events only; `FrameInv` adds that a connection has one descriptor (`OneSocket`),
  that nothing was read from one without an entry (`Unheard`), and that the entry
  holds what the bytes read so far leave when scanned in one piece (`Framed`). A
  peer that begins anew after whole frames finds them as before the first (`AgainFramed`).
* **ServerProofs, Ingest**, whose properties are named through `I == INSTANCE
  Ingest`. `ThreadsAreJoined`, from no assumption: a thread exists for an accepted
  connection only, and whatever is erased from the list was joined, which waited for the
  thread's end and not for its flag (`Started`, `Joined`). `FramesAreWhole` proves
  `PiecesDoNotMatter`: as for Epoll the client's buffer and count of empty frames
  are those of the whole, and a thread whose client broke a limit is at its
  end, so that nothing follows (`Pieced`). `DatagramsAreSound`: the counters of
  the UDP server add up because no client's thread runs beside it, which pushes
  events too (`Counted`), and a frame that fits in the bytes received is the
  same in the buffer and in the datagram (`FrameOfDatagram`), if its length is
  not one of those for which the tested sum wraps. `FramesAreWhole`
  and `DatagramsAreSound` have the assumption of `Ingest` as a hypothesis; the run
  `ingest` evaluates it.

Each inductive invariant was checked with TLC, on a small instance of its
module, before it was proved.

Only model-checked: the liveness properties, which are out of this prover's
reach, like ENABLED. Every invariant and action property of the passing runs
is proved, and so are the refinements of the two queues.

## Known deviations

Places where a comment and the code disagree, or a run had to be given a
premise. The first three have a violation run.

* The Dispatcher pops the ring on overflow, which has two consumers then
  (`event_bus.cpp:57`): `realtime_loss`.
* Observability calls race `esccore_shutdown` (`esccore.cpp:237`):
  `bridge_calls`.
* `dedup.hpp:57` and `dedup.cpp:79` have `cleanup` beside inserts; it
  deletes entries others scan (`dedup.cpp:110`): `dedup_cleanup`. The only user
  has one thread, and `QuietSpec` says so.
* The stop order leaves events in the queues (`main.cpp:132`), although
  `esccore.h:98` says that the shutdown drains: the processors stop first, and no
  loop empties its queue. `ShutdownEnds` says that nothing is left anywhere else.
* `udp.cpp:77` closes the socket to unblock `recvfrom()`, which on Linux it
  does not do: `stop()` waits for the next datagram (the premise of `StopEnds`).
* `epoll.cpp:408` expects the caller to close a connection whose buffer was
  cleared; `handleRead` goes on reading, and the client keeps its connection.
  `OwnFramesOnly` stops at that point (`tripped`).
* `mpsc.hpp:34` says a push is refused when the queue is at capacity;
  `fetch_sub` can come before the matching `fetch_add` (`mpsc.hpp:81`), the
  counter is huge for a moment, and an almost empty queue refuses.
  `RefusedHasReason` states exactly when.
* `event_bus.cpp:97` adds to `total_events_dropped` at each of three attempts,
  so that one lost event counts three times, and attempts that lead to success
  count too.
* The pressure level is refreshed by REALTIME pushes only
  (`event_bus.cpp:43`): after the ring has drained, HIGH events are still
  downgraded until one is pushed. `CriticalIsRealtime` holds nevertheless.
* A write that fails after the dedup insert (`transactional.cpp:92`) leaves an
  event unreported; the second conjunct of `ToldOnce` and the premises
  `storage.good` are where that shows.
* An event too late for its SLA is counted as processed and as dropped
  (`realtime.cpp:96`); `CountsAddUp` adds the breaches to its right-hand side.
* `udp.cpp:154` adds `4 + frameLen` in 32 bits; lengths within 4 of 2^32 pass
  the test and the event is made of bytes past the datagram. `NoStaleBytes` is about the
  other lengths (`Wraps`).
* `handleRead` tests nothing but `recv()` (`epoll.cpp:344`): a peer that keeps
  sending holds a worker and the `stop()` that joins it (`ReadsEnd`).
* A popped REALTIME event stays allocated until its ring slot is written again
  or the engine is deleted (`spsc.hpp:41`), so the pool gets it back a round
  later.
* `epoll.cpp:117` closes descriptors whose numbers stay in `epollFds_`, and
  `stop()` closes them again: numbers the server does not have any more, so
  that nothing in the model can show it.
* A hang-up closes a connection without reading what it still holds
  (`epoll.cpp:294`); `BytesAreRead` is about connected peers.
* `epoll.cpp:205` says that `accept()` blocks; the socket is non-blocking, and the
  accept thread spins.
* `activeConnections_` is added to after the descriptor is in the epoll set
  (`epoll.cpp:249`), so a worker can subtract first and wrap it for a moment.

## Not modelled

* Metrics registry and histogram: what is left besides the counters (which are
  in the models) is relaxed loads and printing.
* `TopicTable` and configuration: read once before any thread starts.
* `EventPool`: single-threaded, used by benchmarks only. `reset()` without an
  intrusive index leaves old addresses in `ptr_to_index_`.
* `ThreadPool`: nothing uses it. Its `shutdown` notifies without the mutex, so
  a worker between its test and its wait would miss it.
* NUMA binding, alert and log text, the layout of a storage record,
  `appendDLQ` (never called), Windows branches, statistics only logs show, the
  Go and Python bindings: they keep no state the properties are about.

## Plan

The models are in place and their safety properties proved. What could follow:
`ThreadPool` and `EventPool`, if the engine ever uses them; the failing
`start()` of `epoll.cpp:117`, with the descriptors of the rest of the process, once it is
decided how it should behave.
