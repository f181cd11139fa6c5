--------------------------- MODULE EventPipeline ---------------------------
(***************************************************************************)
(* The path of an event from the ingest servers to a processor, and the    *)
(* order in which the path is shut down:                                   *)
(*                                                                         *)
(*   Dispatcher        src/core/events/dispatcher.cpp                      *)
(*   EventBusMulti     src/core/events/event_bus.cpp                       *)
(*   ProcessManager    src/core/processor/manager.cpp (the loops)          *)
(*   BatchProcessor    src/core/processor/batch.cpp (dropping on command)  *)
(*   stop order        src/main.cpp, src/bridge/esccore.cpp                *)
(*                                                                         *)
(* Queue operations are atomic here: the two deques are guarded by their   *)
(* mutexes, and MpscQueue shows that the inbound queue is a FIFO queue.    *)
(* For the REALTIME ring this is exact up to its first overflow only;      *)
(* RealtimeBus models what happens to it then, and the properties below    *)
(* claim nothing of REALTIME events from then on.                          *)
(*                                                                         *)
(* Events are numbered in the order they enter the inbound queue.          *)
(***************************************************************************)
EXTENDS Naturals, Sequences, FiniteSets

CONSTANTS
    EventKind,         \* pairs <<client priority, topic table's priority>>
    NotInTable,        \* the topic table has no entry for the topic
    MaxEvents,         \* bound: how many events the ingest servers push
    InboundCapacity,   \* MpscQueue's capacity, 65536
    RingCapacity,      \* SpscRingBuffer's capacity, 16384
    HighMark,          \* 12000
    CriticalMark,      \* 14000
    TransactionalCapacity,  \* 131072
    BatchCapacity,          \* 32768
    DROP_BATCH_SIZE,        \* 64
    MAX_RETRIES             \* 3

\* enum class EventPriority
BATCH == 0
LOW == 1
MEDIUM == 2
HIGH == 3
CRITICAL == 4
Priority == BATCH .. CRITICAL

ASSUME TableAssumption == NotInTable \notin Priority
ASSUME KindAssumption == EventKind \subseteq Priority \X (Priority \cup {NotInTable})
ASSUME BoundAssumption ==
    /\ {MaxEvents, HighMark, CriticalMark} \subseteq Nat
    /\ RingCapacity \in Nat /\ RingCapacity > 1
    /\ {InboundCapacity, TransactionalCapacity, BatchCapacity,
        DROP_BATCH_SIZE, MAX_RETRIES} \subseteq Nat \ {0}

Event == 1 .. MaxEvents
NoEvent == 0
QueueId == {"REALTIME", "TRANSACTIONAL", "BATCH"}

\* The capacities the constructor assigns; a ring holds one item less than it has slots.
capacity == [q \in QueueId |-> CASE q = "REALTIME" -> RingCapacity - 1
                                 [] q = "TRANSACTIONAL" -> TransactionalCapacity
                                 [] q = "BATCH" -> BatchCapacity]

VARIABLES
    kind,           \* kind[e]: what the client and the table say of event e
    priority,       \* header.priority
    inbound_queue_, \* ingest servers -> Dispatcher
    lane,           \* the three queues of the bus
    pressure,       \* RealtimeBus_.pressure
    dpc,            \* where the Dispatcher is in dispatchLoop
    devt,           \* the event it holds
    queueId,        \* where it is routed
    retry_count,
    ppc,            \* where each processor's thread is in runLoop
    pevt,           \* the event it holds
    drop_events_,   \* BatchProcessor: drop on command
    dlq,            \* how often each event was put in the DLQ
    total_events_dropped,   \* the bus's metric
    handed,         \* history: events given to a processor for good
    overflowed,     \* history: push(REALTIME) has found the ring full
    stage           \* how far the shutdown has come

busVars == <<lane, pressure>>
dispatchVars == <<dpc, devt, queueId, retry_count>>
processorVars == <<ppc, pevt>>
history == <<handed, overflowed>>
vars == <<kind, priority, inbound_queue_, busVars, dispatchVars, processorVars,
          drop_events_, dlq, total_events_dropped, history, stage>>

accepted == DOMAIN kind

Init == /\ kind = << >> /\ priority = << >>
        /\ inbound_queue_ = << >>
        /\ lane = [q \in QueueId |-> << >>]
        /\ pressure = "NORMAL"
        /\ dpc = "loop" /\ devt = NoEvent /\ queueId = "REALTIME" /\ retry_count = 0
        /\ ppc = [q \in QueueId |-> "loop"] /\ pevt = [q \in QueueId |-> NoEvent]
        /\ drop_events_ = FALSE
        /\ dlq = [e \in Event |-> 0] /\ total_events_dropped = 0
        /\ handed = {} /\ overflowed = FALSE
        /\ stage = "up"

DeadLetter(S) == dlq' = [e \in Event |-> IF e \in S THEN dlq[e] + 1 ELSE dlq[e]]

----------------------------------------------------------------------------
(* Ingest: tryPush(evt).  A full queue refuses the event, which the server   *)
(* drops; such an event never gets a number.                                 *)

TryPush == /\ stage = "up"
           /\ Len(inbound_queue_) < InboundCapacity
           /\ Len(kind) < MaxEvents
           /\ \E k \in EventKind : /\ kind' = Append(kind, k)
                                   /\ priority' = Append(priority, k[1])
           /\ inbound_queue_' = Append(inbound_queue_, Len(kind) + 1)
           /\ UNCHANGED <<busVars, dispatchVars, processorVars, drop_events_, dlq,
                          total_events_dropped, history, stage>>

----------------------------------------------------------------------------
(* Dispatcher *)

\* route(), first half: the table only ever raises the priority, and a topic
\* the table does not have counts as MEDIUM
Upgraded(e) == LET table == IF kind[e][2] = NotInTable THEN MEDIUM ELSE kind[e][2]
               IN  IF priority[e] < table THEN table ELSE priority[e]

\* Every event downgraded under pressure.
AdaptedAll(p) == IF pressure \in {"HIGH", "CRITICAL"} THEN MEDIUM ELSE p

\* adaptToPressure()
Adapted(p) == IF pressure \in {"HIGH", "CRITICAL"} /\ p = HIGH THEN MEDIUM ELSE p

\* route(), second half
Lane(p) == IF p \in {CRITICAL, HIGH} THEN "REALTIME"
           ELSE IF p \in {MEDIUM, LOW} THEN "TRANSACTIONAL"
           ELSE "BATCH"

\* while (running_): pop() and route()
DispatchPop == /\ dpc = "loop"
               /\ stage # "dispatcher"
               /\ inbound_queue_ # << >>
               /\ LET e == Head(inbound_queue_)
                      p == Adapted(Upgraded(e))
                  IN  /\ devt' = e
                      /\ priority' = [priority EXCEPT ![e] = p]
                      /\ queueId' = Lane(p)
               /\ inbound_queue_' = Tail(inbound_queue_)
               /\ retry_count' = 0
               /\ dpc' = "push"
               /\ UNCHANGED <<kind, busVars, processorVars, drop_events_, dlq,
                              total_events_dropped, history, stage>>

\* push() returned true
Pushed == /\ dpc' = "loop"
          /\ devt' = NoEvent
          /\ UNCHANGED <<queueId, retry_count>>

\* The event that is given up is not put in the DLQ.
NotPushedForgotten == /\ retry_count' = retry_count + 1
                      /\ UNCHANGED <<queueId, dlq>>
                      /\ IF retry_count' < MAX_RETRIES
                         THEN dpc' = "push" /\ UNCHANGED devt
                         ELSE dpc' = "loop" /\ devt' = NoEvent

\* A push() that failed is tried again for ever.
NotPushedForever == /\ dpc' = "push"
                    /\ UNCHANGED <<devt, queueId, retry_count, dlq>>

\* push() returned false: try again, or put the event in the DLQ
NotPushed == /\ retry_count' = retry_count + 1
             /\ UNCHANGED queueId
             /\ IF retry_count' < MAX_RETRIES
                THEN dpc' = "push" /\ UNCHANGED <<devt, dlq>>
                ELSE dpc' = "loop" /\ devt' = NoEvent /\ DeadLetter({devt})

\* push(REALTIME, evt): pressure from the ring's use, then DROP_OLD
PushRealtime ==
    /\ dpc = "push" /\ queueId = "REALTIME"
    /\ LET rt == lane["REALTIME"]
           full == Len(rt) >= capacity["REALTIME"]
       IN  /\ pressure' = IF Len(rt) >= CriticalMark THEN "CRITICAL"
                          ELSE IF Len(rt) >= HighMark THEN "HIGH"
                          ELSE "NORMAL"
           /\ lane' = [lane EXCEPT !["REALTIME"] =
                         Append(IF full THEN Tail(rt) ELSE rt, devt)]
           /\ DeadLetter(IF full THEN {Head(rt)} ELSE {})
           /\ total_events_dropped' = total_events_dropped + IF full THEN 1 ELSE 0
           /\ overflowed' = (overflowed \/ full)
    /\ Pushed
    /\ UNCHANGED <<kind, priority, inbound_queue_, processorVars, drop_events_, handed, stage>>

\* The event is put at the wrong end of the queue.
PushBackAtFront(q) == lane' = [lane EXCEPT ![q] = <<devt>> \o @]

\* dq.push_back(evt)
PushBack(q) == lane' = [lane EXCEPT ![q] = Append(@, devt)]

\* push(TRANSACTIONAL or BATCH, evt) with room in the deque; the predicate of
\* the timed wait turning true comes to the same
PushRoom == /\ dpc \in {"push", "wait"}
            /\ queueId \in {"TRANSACTIONAL", "BATCH"}
            /\ Len(lane[queueId]) < capacity[queueId]
            /\ PushBack(queueId)
            /\ Pushed
            /\ UNCHANGED <<kind, priority, inbound_queue_, pressure, processorVars,
                           drop_events_, dlq, total_events_dropped, history, stage>>

\* BLOCK_PRODUCER: cv.wait_for(100 ms)
PushBlock == /\ dpc = "push" /\ queueId = "TRANSACTIONAL"
             /\ Len(lane[queueId]) >= capacity[queueId]
             /\ dpc' = "wait"
             /\ UNCHANGED <<kind, priority, inbound_queue_, busVars, devt, queueId, retry_count,
                            processorVars, drop_events_, dlq, total_events_dropped, history,
                            stage>>

\* ... which times out: the predicate is tested once more
PushTimeout == /\ dpc = "wait"
               /\ Len(lane[queueId]) >= capacity[queueId]
               /\ NotPushed
               /\ UNCHANGED <<kind, priority, inbound_queue_, busVars, processorVars,
                              drop_events_, total_events_dropped, history, stage>>

\* DROP_NEW: the bus counts a drop and returns false
PushDropNew == /\ dpc = "push" /\ queueId = "BATCH"
               /\ Len(lane[queueId]) >= capacity[queueId]
               /\ total_events_dropped' = total_events_dropped + 1
               /\ NotPushed
               /\ UNCHANGED <<kind, priority, inbound_queue_, busVars, processorVars,
                              drop_events_, history, stage>>

\* while (running_) ends
DispatchStop == /\ dpc = "loop"
                /\ stage = "dispatcher"
                /\ dpc' = "stopped"
                /\ UNCHANGED <<kind, priority, inbound_queue_, busVars, devt, queueId,
                               retry_count, processorVars, drop_events_, dlq,
                               total_events_dropped, history, stage>>

DispatchStep == \/ DispatchPop \/ PushRealtime \/ PushRoom \/ PushBlock
                \/ PushTimeout \/ PushDropNew \/ DispatchStop

----------------------------------------------------------------------------
(* runLoop(q, processor) *)

\* while (isRunning_)
LoopTest(q) == /\ ppc[q] = "loop"
               /\ ppc' = [ppc EXCEPT ![q] = IF stage \in {"processors", "dispatcher", "down"}
                                            THEN "stopped" ELSE "pop"]
               /\ UNCHANGED <<kind, priority, inbound_queue_, busVars, dispatchVars, pevt,
                              drop_events_, dlq, total_events_dropped, history, stage>>

\* event_bus.pop(q, timeout) comes back with nothing
PopTimeout(q) == /\ ppc[q] = "pop"
                 /\ lane[q] = << >>
                 /\ ppc' = [ppc EXCEPT ![q] = "loop"]
                 /\ UNCHANGED <<kind, priority, inbound_queue_, busVars, dispatchVars, pevt,
                                drop_events_, dlq, total_events_dropped, history, stage>>

\* ... or with the oldest event
PopEvent(q) == /\ ppc[q] = "pop"
               /\ lane[q] # << >>
               /\ pevt' = [pevt EXCEPT ![q] = Head(lane[q])]
               /\ lane' = [lane EXCEPT ![q] = Tail(@)]
               /\ ppc' = [ppc EXCEPT ![q] = "process"]
               /\ UNCHANGED <<kind, priority, inbound_queue_, pressure, dispatchVars,
                              drop_events_, dlq, total_events_dropped, history, stage>>

\* processor->process(event): what a processor does with it is its own matter
Process(q) == /\ ppc[q] = "process"
              /\ q = "BATCH" => ~drop_events_
              /\ handed' = handed \cup {pevt[q]}
              /\ pevt' = [pevt EXCEPT ![q] = NoEvent]
              /\ ppc' = [ppc EXCEPT ![q] = "loop"]
              /\ UNCHANGED <<kind, priority, inbound_queue_, busVars, dispatchVars,
                             drop_events_, dlq, total_events_dropped, overflowed, stage>>

FirstN(s, n) == SubSeq(s, 1, IF n < Len(s) THEN n ELSE Len(s))
AfterN(s, n) == SubSeq(s, (IF n < Len(s) THEN n ELSE Len(s)) + 1, Len(s))

\* BatchProcessor::process(event) while it drops: the event and the next
\* DROP_BATCH_SIZE of its queue (dropBatchFromQueue) go to the DLQ
ProcessDrop == /\ ppc["BATCH"] = "process"
               /\ drop_events_
               /\ LET batch == FirstN(lane["BATCH"], DROP_BATCH_SIZE)
                  IN  /\ DeadLetter({pevt["BATCH"]} \cup {batch[i] : i \in DOMAIN batch})
                      /\ total_events_dropped' = total_events_dropped + Len(batch)
               /\ lane' = [lane EXCEPT !["BATCH"] = AfterN(@, DROP_BATCH_SIZE)]
               /\ pevt' = [pevt EXCEPT !["BATCH"] = NoEvent]
               /\ ppc' = [ppc EXCEPT !["BATCH"] = "loop"]
               /\ UNCHANGED <<kind, priority, inbound_queue_, pressure, dispatchVars,
                              drop_events_, history, stage>>

RunLoop(q) == \/ LoopTest(q) \/ PopTimeout(q) \/ PopEvent(q) \/ Process(q)
              \/ q = "BATCH" /\ ProcessDrop

\* ProcessManager::dropBatchEvents() and resumeBatchEvents()
SetDropBatch == /\ stage = "up"
                /\ drop_events_' = ~drop_events_
                /\ UNCHANGED <<kind, priority, inbound_queue_, busVars, dispatchVars,
                               processorVars, dlq, total_events_dropped, history, stage>>

----------------------------------------------------------------------------
(* Shutdown: udp and tcp stop(), processManager.stop(), dispatcher.stop(),   *)
(* each returning when its threads have ended                                *)

StopWhen(from, ended, to) ==
    /\ stage = from
    /\ ended
    /\ stage' = to
    /\ UNCHANGED <<kind, priority, inbound_queue_, busVars, dispatchVars, processorVars,
                   drop_events_, dlq, total_events_dropped, history>>

StopIngest == StopWhen("up", TRUE, "ingest")
StopProcessors == StopWhen("ingest", TRUE, "processors")

StopDispatcher == StopWhen("processors", \A q \in QueueId : ppc[q] = "stopped", "dispatcher")

StopDone == StopWhen("dispatcher", dpc = "stopped", "down")

ShutdownStep == StopProcessors \/ StopDispatcher \/ StopDone

Down == stage = "down" /\ UNCHANGED vars

Next == \/ TryPush
        \/ DispatchStep
        \/ \E q \in QueueId : RunLoop(q)
        \/ SetDropBatch
        \/ StopIngest
        \/ ShutdownStep
        \/ Down

Spec == Init /\ [][Next]_vars

\* Every thread keeps running, the waits are timed, and a shutdown that began
\* goes on; clients need not push, and nobody needs to stop the system.
FairSpec == /\ Spec
            /\ WF_vars(DispatchStep)
            /\ \A q \in QueueId : WF_vars(RunLoop(q))
            /\ WF_vars(ShutdownStep)

----------------------------------------------------------------------------
(* Properties *)

TypeOK == /\ kind \in Seq(EventKind) /\ Len(kind) <= MaxEvents
          /\ priority \in Seq(Priority) /\ Len(priority) = Len(kind)
          /\ inbound_queue_ \in Seq(Event) /\ Len(inbound_queue_) <= InboundCapacity
          /\ lane \in [QueueId -> Seq(Event)]
          /\ pressure \in {"NORMAL", "HIGH", "CRITICAL"}
          /\ dpc \in {"loop", "push", "wait", "stopped"}
          /\ devt \in Event \cup {NoEvent}
          /\ queueId \in QueueId
          /\ retry_count \in 0 .. MAX_RETRIES
          /\ ppc \in [QueueId -> {"loop", "pop", "process", "stopped"}]
          /\ pevt \in [QueueId -> Event \cup {NoEvent}]
          /\ drop_events_ \in BOOLEAN
          /\ dlq \in [Event -> Nat] /\ total_events_dropped \in Nat
          /\ handed \subseteq Event /\ overflowed \in BOOLEAN
          /\ stage \in {"up", "ingest", "processors", "dispatcher", "down"}

Occurrences(s, e) == Cardinality({i \in DOMAIN s : s[i] = e})

\* A REALTIME event once the ring has overflowed: RealtimeBus shows how such an
\* event can be lost.
Unprotected(e) == overflowed /\ Lane(priority[e]) = "REALTIME"

\* Every event the inbound queue accepted is in exactly one place at any time,
\* through retries, timeouts, overflow, dropping on command and shutdown: in a
\* queue, in the hands of one thread, with its processor, or in the DLQ.  Claimed
\* for REALTIME events until the ring overflows, and for all others always.
InOnePlace ==
    \A e \in accepted : ~Unprotected(e) =>
        Occurrences(inbound_queue_, e) + dlq[e]
          + (IF devt = e THEN 1 ELSE 0)
          + (IF e \in handed THEN 1 ELSE 0)
          + Cardinality({q \in QueueId : pevt[q] = e})
          + Occurrences(lane["REALTIME"], e) + Occurrences(lane["TRANSACTIONAL"], e)
          + Occurrences(lane["BATCH"], e) = 1

\* A queue of the bus stays within its capacity, and its events keep the order in
\* which they arrived, also past the ones that were dropped, retried or
\* downgraded; in the REALTIME ring until it overflows.
LanesSound ==
    \A q \in QueueId :
        /\ Len(lane[q]) <= capacity[q]
        /\ (overflowed => q # "REALTIME") =>
              \A i, j \in DOMAIN lane[q] : i < j => lane[q][i] < lane[q][j]

\* A CRITICAL event, by its client or by its topic, is never put in a queue other
\* than REALTIME, whatever the pressure.
CriticalIsRealtime ==
    \A e \in accepted : CRITICAL \in {kind[e][1], kind[e][2]} =>
        \A q \in QueueId \ {"REALTIME"} : Occurrences(lane[q], e) = 0

\* While the system is up, every accepted event reaches a processor or the DLQ: a
\* queue that stays full holds the Dispatcher up for three timeouts, not forever.
\* Claimed for REALTIME events until the ring overflows, and for all others always.
Settles ==
    \A e \in Event :
        (e \in accepted) ~>
            \/ stage # "up"
            \/ e \in handed
            \/ dlq[e] > 0
            \/ e \in accepted /\ Unprotected(e)

\* A shutdown that began ends, wherever the Dispatcher and the processors are, and
\* no thread ends with an event in its hands: what a shutdown leaves behind, and it
\* drains nothing, is in the queues.
ShutdownEnds == (stage # "up") ~> /\ stage = "down"
                                  /\ devt = NoEvent /\ \A q \in QueueId : pevt[q] = NoEvent
============================================================================
