----------------------------- MODULE Processors -----------------------------
(***************************************************************************)
(* The three processors with what they share:                              *)
(*                                                                         *)
(*   ProcessManager          src/core/processor/manager.cpp                *)
(*   RealtimeProcessor       src/core/processor/realtime.cpp               *)
(*   TransactionalProcessor  src/core/processor/transactional.cpp          *)
(*   BatchProcessor          src/core/processor/batch.cpp                  *)
(*   StorageEngine           src/core/storage/storage.cpp                  *)
(*   DeadLetterQueue         src/core/events/dead_letter_queue.cpp         *)
(*                                                                         *)
(* Each processor has a thread of its own.  The bus is a plain queue for   *)
(* each of them here (EventPipeline has its policies), the dedup table the *)
(* set of the ids it holds (Dedup has its chains; only one thread uses it) *)
(* and time a choice: whether a window, an SLA or an entry has run out.    *)
(* Any write to the storage file may fail, and the stream then stays bad.  *)
(* Events are numbered in the order in which they reach the bus, so that a *)
(* queue and a bucket, first in and first out, are sets of numbers.        *)
(***************************************************************************)
EXTENDS Handlers, FiniteSets

CONSTANTS
    Workload,           \* bound: the sequences of events looked at; an event has the
                        \* lane the Dispatcher chose for it, a topic and a body
    MaxEvents,          \* bound: their length
    IdSpace,            \* how many ids there are, 2^32
    max_retries_,       \* 3
    FLUSH_BATCH_SIZE,   \* 100
    MAX_STORED_EVENTS,  \* 1000
    DROP_BATCH_SIZE     \* 64

Lane == {"REALTIME", "TRANSACTIONAL", "BATCH"}

ASSUME WorkloadAssumption ==
    Workload \subseteq [1 .. MaxEvents -> [lane : Lane, topic : Seq(STRING), size : Nat,
                                          value : Nat]]
ASSUME BoundAssumption ==
    /\ MaxEvents \in Nat
    /\ {IdSpace, max_retries_, FLUSH_BATCH_SIZE, MAX_STORED_EVENTS, DROP_BATCH_SIZE}
         \subseteq Nat \ {0}

Event == 1 .. MaxEvents
NoEvent == 0
Counter == {"processed", "dropped"}
Topic == UNION {{w[e].topic : e \in Event} : w \in Workload}

VARIABLES
    event,          \* the events, in the order of their ids
    queue,          \* the bus: the events waiting in each lane
    pc, cur,        \* where each thread is, and the event it holds
    isRunning_,
    terminated,     \* an exception left a thread: std::terminate
    paused_,        \* TransactionalProcessor
    attempt,
    dedup_table_,   \* the ids in it
    drop_events_,   \* BatchProcessor
    buckets_,       \* the events of each topic
    dated,          \* the topics whose bucket has a last_flush_time
    flushed,        \* the last event of the bucket of cur's topic the flush is past
    stopping,       \* the flush is stop()'s
    storage,        \* StorageEngine: what the operating system has of the file, the
                    \* stream's buffer in the process, and the stream's state
    dlq,            \* DeadLetterQueue: the events kept, and total_dropped_
    metric,         \* total_events_processed and total_events_dropped of each processor
    alerts,         \* the levels of the alerts emitted for an event
    told,           \* what the observers were told of an event
    discarded,      \* history: found in the dedup table, taken off the bus
    swept,          \*          by dropBatchFromQueue, late for the SLA
    breached

bus == <<event, queue>>
controlVars == <<isRunning_, terminated, paused_, drop_events_>>
txnVars == <<attempt, dedup_table_>>
batchVars == <<buckets_, dated, flushed, stopping>>
results == <<dlq, metric, alerts, told>>
history == <<discarded, swept, breached>>
vars == <<bus, pc, cur, controlVars, txnVars, batchVars, storage, results, history>>

handler(e) == getOrDefault(event[e].topic)

\* createEvent: the id is a counter cut to 32 bits
id(e) == e % IdSpace

\* Any events; whether one is already in its queue makes no difference before a
\* thread pops it.
Init == /\ event \in Workload
        /\ queue = [l \in Lane |-> {e \in Event : event[e].lane = l}]
        /\ pc = [l \in Lane |-> "loop"] /\ cur = [l \in Lane |-> NoEvent]
        /\ isRunning_ = TRUE /\ terminated = FALSE
        /\ paused_ = FALSE /\ attempt = 0 /\ dedup_table_ = {}
        /\ drop_events_ = FALSE
        /\ buckets_ = [t \in Topic |-> {}] /\ dated = {}
        /\ flushed = 0 /\ stopping = FALSE
        /\ storage = [file |-> << >>, buffered |-> << >>, good |-> TRUE, eventCount |-> 0]
        /\ dlq = [stored_events_ |-> << >>, total_dropped_ |-> 0]
        /\ metric = [l \in Lane |-> [c \in Counter |-> 0]]
        /\ alerts = [e \in Event |-> {}] /\ told = [e \in Event |-> << >>]
        /\ discarded = {} /\ swept = {} /\ breached = {}

----------------------------------------------------------------------------
(* StorageEngine and DeadLetterQueue: both have a mutex, so that a call is   *)
(* one step                                                                  *)

\* storageFile.flush() hands the buffer to the operating system, which keeps it when
\* the process dies; nothing in the code forces it to the disk.  A failure goes
\* unnoticed until the next storeEvent().
Flushes(s) ==
    IF s.good THEN {[s EXCEPT !.file = @ \o s.buffered, !.buffered = << >>],
                    [s EXCEPT !.good = FALSE]}
    ELSE {s}

\* The stream is not looked at before the write.
StoresUnchecked(s, e) ==
    LET written == [s EXCEPT !.buffered = Append(@, e), !.eventCount = @ + 1]
    IN  {[storage |-> [s EXCEPT !.good = FALSE], thrown |-> TRUE]}
          \cup (IF written.eventCount < FLUSH_BATCH_SIZE
                THEN {[storage |-> written, thrown |-> FALSE]}
                ELSE {[storage |-> f, thrown |-> FALSE] :
                        f \in Flushes([written EXCEPT !.eventCount = 0])})

\* storeEvent(event): what it can leave, and whether it throws
Stores(s, e) ==
    LET written == [s EXCEPT !.buffered = Append(@, e), !.eventCount = @ + 1]
        ok == IF written.eventCount < FLUSH_BATCH_SIZE THEN {written}
              ELSE Flushes([written EXCEPT !.eventCount = 0])
    IN  {[storage |-> [s EXCEPT !.good = FALSE], thrown |-> TRUE]}
          \cup {[storage |-> w, thrown |-> FALSE] : w \in IF s.good THEN ok ELSE {}}

\* The oldest events make room for the new ones.
Keeping(s, es) == LET all == s \o es
                      n == Len(all)
                  IN  SubSeq(all, IF n > MAX_STORED_EVENTS THEN n - MAX_STORED_EVENTS + 1 ELSE 1, n)

\* push(e), and pushBatch(events)
DlqPush(d, es) == [stored_events_ |-> Keeping(d.stored_events_, es),
                   total_dropped_ |-> d.total_dropped_ + Len(es)]

Tell(e, what) == told' = [told EXCEPT ![e] = Append(@, what)]

Count(l, what) == metric' = [metric EXCEPT ![l][what] = @ + 1]

----------------------------------------------------------------------------
(* runLoop.  A step of a thread goes from one call that others can see to    *)
(* the next: taking an event off the bus and deciding what becomes of it, an *)
(* attempt to handle it, the write to the file with the report after it.     *)

\* e is the front of a queue, or the next event of a bucket.
First(e, S) == e \in S /\ \A f \in S : e <= f

\* event_bus.pop() gives e; a timeout changes nothing
Pops(l, e) == /\ pc[l] = "loop"
              /\ isRunning_
              /\ First(e, queue[l])

Taken(l, e) == /\ queue' = [queue EXCEPT ![l] = @ \ {e}]
               /\ UNCHANGED event

\* process() goes on with e, or it ends
Continue(l, where, e) == /\ pc' = [pc EXCEPT ![l] = where]
                         /\ cur' = [cur EXCEPT ![l] = e]
Done(l) == Continue(l, "loop", NoEvent)

\* The counter, the DLQ and the observers: every way out of process() that gives
\* up the event
Drop(l, e) == /\ Count(l, "dropped")
              /\ dlq' = DlqPush(dlq, <<e>>)
              /\ Tell(e, "dropped")
              /\ Done(l)

\* The rules are checked, and the body is not validated.
RejectedByRules(e) == ~checkRules(handler(e), event[e])

\* validate() or checkRules() fails
Rejected(e) == \/ ~validate(handler(e), event[e])
               \/ ~checkRules(handler(e), event[e])

\* The events a processor rejects, and what it does with them.
Reject(l) == \E e \in Event :
                /\ Pops(l, e)
                /\ l = "BATCH" => ~drop_events_
                /\ l = "TRANSACTIONAL" => ~paused_ /\ id(e) \notin dedup_table_
                /\ Rejected(e)
                /\ Drop(l, e)
                /\ Taken(l, e)
                /\ dedup_table_' \in IF l = "TRANSACTIONAL" THEN SUBSET dedup_table_
                                     ELSE {dedup_table_}
                /\ UNCHANGED <<controlVars, attempt, batchVars, storage, alerts, history>>

\* storage_->storeEvent(event) and notifyProcessed(event).  An exception ends
\* process(), and in stop() the program; a flush goes on with the next event.
StoreEvent(l) ==
    /\ pc[l] = "store"
    /\ \E s \in Stores(storage, cur[l]) :
          /\ storage' = s.storage
          /\ terminated' = (s.thrown /\ l = "BATCH" /\ stopping)
          /\ IF s.thrown THEN UNCHANGED told ELSE Tell(cur[l], "processed")
          /\ IF l = "BATCH" /\ ~s.thrown
             THEN Continue(l, "flush", cur[l]) /\ flushed' = cur[l]
             ELSE Done(l) /\ UNCHANGED flushed
    /\ UNCHANGED <<bus, isRunning_, paused_, drop_events_, txnVars, buckets_, dated, stopping,
                   dlq, metric, alerts, history>>

----------------------------------------------------------------------------
(* RealtimeProcessor *)

\* The alert waits until the SLA is known to be met.
EmittedInTime(e, result, late) ==
    IF result.outcome = "ALERT" /\ ~late THEN {result.level} ELSE {}

\* emitAlert(): the handler's alert, and the one for a breach of the SLA
Emitted(e, result, late) == (IF result.outcome = "ALERT" THEN {result.level} ELSE {})
                              \cup (IF late THEN {"WARNING"} ELSE {})

\* handle() fails, or it succeeds and is in time, or it took longer than
\* max_processing_ms_: the event is then counted as processed and dropped
RealtimeHandle ==
    \E e \in Event : \E result \in handle(handler(e), event[e]), late \in BOOLEAN :
        /\ Pops("REALTIME", e)
        /\ ~Rejected(e)
        /\ IF result.outcome \in {"FAIL", "DROP"}
           THEN Drop("REALTIME", e) /\ UNCHANGED <<alerts, breached>>
           ELSE /\ alerts' = [alerts EXCEPT ![e] = @ \cup Emitted(e, result, late)]
                /\ metric' = [metric EXCEPT !["REALTIME"] =
                     [c \in Counter |-> @[c] + IF c = "processed" \/ late THEN 1 ELSE 0]]
                /\ IF late THEN /\ dlq' = DlqPush(dlq, <<e>>)
                                /\ Tell(e, "dropped")
                                /\ breached' = breached \cup {e}
                                /\ Done("REALTIME")
                   ELSE Continue("REALTIME", "store", e) /\ UNCHANGED <<dlq, told, breached>>
        /\ Taken("REALTIME", e)
        /\ UNCHANGED <<controlVars, txnVars, batchVars, storage, discarded, swept>>

----------------------------------------------------------------------------
(* TransactionalProcessor *)

\* process() while paused_
TransactionPaused ==
    \E e \in Event : /\ Pops("TRANSACTIONAL", e)
                       /\ paused_
                       /\ Drop("TRANSACTIONAL", e)
                       /\ Taken("TRANSACTIONAL", e)
                       /\ UNCHANGED <<controlVars, txnVars, batchVars, storage, alerts, history>>

\* is_duplicate(id): the event is given up without a word
TransactionDuplicate ==
    \E e \in Event : /\ Pops("TRANSACTIONAL", e)
                       /\ ~paused_
                       /\ id(e) \in dedup_table_
                       /\ discarded' = discarded \cup {e}
                       /\ Taken("TRANSACTIONAL", e)
                       /\ UNCHANGED <<pc, cur, controlVars, txnVars, batchVars, storage, results,
                                      swept, breached>>

\* A new id: cleanup() may be due and remove what has expired
TransactionBegin ==
    \E e \in Event : /\ Pops("TRANSACTIONAL", e)
                       /\ ~paused_
                       /\ id(e) \notin dedup_table_
                       /\ ~Rejected(e)
                       /\ dedup_table_' \in SUBSET dedup_table_
                       /\ attempt' = 1
                       /\ Continue("TRANSACTIONAL", "handle", e)
                       /\ Taken("TRANSACTIONAL", e)
                       /\ UNCHANGED <<controlVars, batchVars, storage, results, history>>

\* Is there an attempt left?
Retry == attempt < max_retries_

\* Every failed attempt is counted, dead-lettered and reported.
TransactionFailedEach ==
    LET e == cur["TRANSACTIONAL"]
    IN  /\ Count("TRANSACTIONAL", "dropped")
        /\ dlq' = DlqPush(dlq, <<e>>)
        /\ Tell(e, "dropped")
        /\ IF Retry THEN attempt' = attempt + 1 /\ UNCHANGED <<pc, cur>>
           ELSE Done("TRANSACTIONAL") /\ UNCHANGED attempt

\* The event that is given up is not counted.
TransactionFailedUncounted ==
    LET e == cur["TRANSACTIONAL"]
    IN  /\ UNCHANGED metric
        /\ IF Retry THEN attempt' = attempt + 1 /\ UNCHANGED <<pc, cur, dlq, told>>
           ELSE /\ dlq' = DlqPush(dlq, <<e>>)
                /\ Tell(e, "dropped")
                /\ Done("TRANSACTIONAL")
                /\ UNCHANGED attempt

\* The attempts start over when they are used up.
TransactionFailedRestart == /\ attempt' = IF Retry THEN attempt + 1 ELSE 1
                            /\ UNCHANGED <<pc, cur, dlq, metric, told>>

\* handle() failed: once more after a sleep, or give up
TransactionFailed ==
    IF Retry THEN attempt' = attempt + 1 /\ UNCHANGED <<pc, cur, dlq, metric, told>>
    ELSE Drop("TRANSACTIONAL", cur["TRANSACTIONAL"]) /\ UNCHANGED attempt

TransactionHandle ==
    LET e == cur["TRANSACTIONAL"]
    IN  /\ pc["TRANSACTIONAL"] = "handle"
        /\ \E result \in handle(handler(e), event[e]) :
              IF result.outcome \in {"SUCCESS", "ALERT"}
              THEN /\ dedup_table_' = dedup_table_ \cup {id(e)}
                   /\ Count("TRANSACTIONAL", "processed")
                   /\ Continue("TRANSACTIONAL", "store", e)
                   /\ UNCHANGED <<attempt, dlq, told>>
              ELSE TransactionFailed /\ UNCHANGED dedup_table_
        /\ UNCHANGED <<bus, controlVars, batchVars, storage, alerts, history>>

----------------------------------------------------------------------------
(* BatchProcessor *)

\* The n events at the front of a queue, and a set of events as the list of them.
Oldest(S, n) == {e \in S : Cardinality({f \in S : f < e}) < n}
InOrder(S) == {es \in [1 .. Cardinality(S) -> S] : \A i, j \in DOMAIN es : i < j => es[i] < es[j]}

\* process() while drop_events_: dropBatchFromQueue() takes the next events off
\* the bus and into the DLQ
BatchDrop ==
    \E e \in Event :
        LET rest == queue["BATCH"] \ {e}
            batch == Oldest(rest, DROP_BATCH_SIZE)
        IN  /\ Pops("BATCH", e)
            /\ drop_events_
            /\ \E es \in InOrder(batch) : dlq' = DlqPush(dlq, <<e>> \o es)
            /\ queue' = [queue EXCEPT !["BATCH"] = rest \ batch]
            /\ swept' = swept \cup batch
            /\ Count("BATCH", "dropped")
            /\ Tell(e, "dropped")
            /\ UNCHANGED <<event, pc, cur, controlVars, txnVars, batchVars, storage, alerts,
                           discarded, breached>>

\* The event joins its bucket.  The first one only dates the bucket; a later one
\* flushes it once the window is over.
BatchCollect ==
    \E e \in Event :
        LET t == event[e].topic
        IN  /\ Pops("BATCH", e)
            /\ ~drop_events_
            /\ ~Rejected(e)
            /\ buckets_' = [buckets_ EXCEPT ![t] = @ \cup {e}]
            /\ Count("BATCH", "processed")
            /\ dated' = dated \cup {t}
            /\ \/ UNCHANGED <<pc, cur, flushed>>
               \/ /\ t \in dated
                  /\ Continue("BATCH", "flush", e)
                  /\ flushed' = 0
            /\ Taken("BATCH", e)
            /\ UNCHANGED <<controlVars, txnVars, stopping, storage, dlq, alerts, told, history>>

\* The events of the bucket the flush has not come to.
Left == {e \in buckets_[event[cur["BATCH"]].topic] : e > flushed}

\* flushBucketLocked(): the next event of the bucket; a failure is not counted
FlushHandle ==
    \E e \in Event :
        /\ pc["BATCH"] = "flush"
        /\ First(e, Left)
        /\ \E result \in handle(handler(e), event[e]) :
              IF result.outcome \in {"FAIL", "DROP"}
              THEN /\ dlq' = DlqPush(dlq, <<e>>)
                   /\ Tell(e, "dropped")
                   /\ flushed' = e
                   /\ UNCHANGED <<pc, cur>>
              ELSE Continue("BATCH", "store", e) /\ UNCHANGED <<dlq, told, flushed>>
        /\ UNCHANGED <<bus, controlVars, txnVars, buckets_, dated, stopping, storage, metric,
                       alerts, history>>

\* bucket.events.clear()
BucketCleared == buckets_' = [buckets_ EXCEPT ![event[cur["BATCH"]].topic] = {}]

\* ... and the end of it: storage_->flush()
FlushDone == /\ pc["BATCH"] = "flush"
             /\ Left = {}
             /\ storage' \in Flushes(storage)
             /\ BucketCleared
             /\ Done("BATCH")
             /\ UNCHANGED <<bus, controlVars, txnVars, dated, flushed, stopping, results,
                            history>>

----------------------------------------------------------------------------
(* Control and stop *)

Control == /\ \/ /\ paused_' = ~paused_ /\ UNCHANGED drop_events_
              \/ /\ drop_events_' = ~drop_events_ /\ UNCHANGED paused_
           /\ UNCHANGED <<bus, pc, cur, isRunning_, terminated, txnVars, batchVars, storage,
                          results, history>>

\* ProcessManager::stop()
Stop == /\ isRunning_
        /\ isRunning_' = FALSE
        /\ UNCHANGED <<bus, pc, cur, terminated, paused_, drop_events_, txnVars, batchVars,
                       storage, results, history>>

\* stop() does not flush the file.
StopFlushForgotten == UNCHANGED storage

\* storage_->flush() of the three stop() functions
StopFlush == storage' \in Flushes(storage)

\* The loop ends: processor->stop().  The BatchProcessor flushes its buckets
\* first, one after the other.
StopBucket == /\ pc["BATCH"] = "loop"
              /\ ~isRunning_
              /\ \E t \in Topic, e \in Event : /\ First(e, buckets_[t])
                                                /\ Continue("BATCH", "flush", e)
              /\ flushed' = 0
              /\ stopping' = TRUE
              /\ UNCHANGED <<bus, controlVars, txnVars, buckets_, dated, storage, results,
                             history>>

StopProcessor(l) == /\ pc[l] = "loop"
                    /\ ~isRunning_
                    /\ l = "BATCH" => \A t \in Topic : buckets_[t] = {}
                    /\ StopFlush
                    /\ pc' = [pc EXCEPT ![l] = "stopped"]
                    /\ UNCHANGED <<bus, cur, controlVars, txnVars, batchVars, results, history>>

Step(l) == /\ ~terminated
           /\ \/ Reject(l)
              \/ StoreEvent(l)
              \/ StopProcessor(l)
              \/ l = "REALTIME" /\ RealtimeHandle
              \/ l = "TRANSACTIONAL" /\ \/ TransactionPaused \/ TransactionDuplicate
                                        \/ TransactionBegin \/ TransactionHandle
              \/ l = "BATCH" /\ \/ BatchDrop \/ BatchCollect \/ FlushHandle \/ FlushDone
                                \/ StopBucket

Ended == terminated \/ \A l \in Lane : pc[l] = "stopped"

Next == \/ \E l \in Lane : Step(l)
        \/ ~Ended /\ isRunning_ /\ (Control \/ Stop)
        \/ Ended /\ UNCHANGED vars

Spec == Init /\ [][Next]_vars

\* Each processor has a thread that keeps running; nobody needs to call stop().
FairSpec == Spec /\ \A l \in Lane : WF_vars(Step(l))

----------------------------------------------------------------------------
(* Properties *)

TypeOK == /\ event \in Workload
          /\ queue \in [Lane -> SUBSET Event]
          /\ pc \in [Lane -> {"loop", "handle", "store", "flush", "stopped"}]
          /\ cur \in [Lane -> Event \cup {NoEvent}]
          /\ {isRunning_, terminated, paused_, drop_events_, stopping} \subseteq BOOLEAN
          /\ attempt \in 0 .. max_retries_
          /\ dedup_table_ \subseteq 0 .. IdSpace - 1
          /\ buckets_ \in [Topic -> SUBSET Event] /\ dated \subseteq Topic
          /\ flushed \in 0 .. MaxEvents
          /\ storage \in [file : Seq(Event), buffered : Seq(Event), good : BOOLEAN,
                          eventCount : 0 .. FLUSH_BATCH_SIZE - 1]
          /\ dlq \in [stored_events_ : Seq(Event), total_dropped_ : Nat]
          /\ metric \in [Lane -> [Counter -> Nat]]
          /\ alerts \in [Event -> SUBSET AlertLevel]
          /\ told \in [Event -> Seq({"processed", "dropped"})]
          /\ discarded \cup swept \cup breached \subseteq Event

Times(s, x) == Cardinality({i \in DOMAIN s : s[i] = x})
Stored(e) == Times(storage.file, e) + Times(storage.buffered, e)

\* The events nothing will happen to any more, dropBatchFromQueue()'s apart.
Finished == {e \in Event \ swept : /\ \A l \in Lane : cur[l] # e /\ e \notin queue[l]
                                   /\ \A t \in Topic : e \notin buckets_[t]}

\* Observers hear of every finished event exactly once, through retries, SLA
\* breaches, pauses and bucket flushes, as long as the storage file can be
\* written: only an event whose id the dedup table has is passed over, and then
\* an earlier event with that id was reported as processed.  For the
\* TRANSACTIONAL and REALTIME lanes a write that fails loses the report, it
\* never makes for a second one.
ToldOnce ==
    /\ storage.good => \A e \in Finished \ discarded : Len(told[e]) = 1
    /\ \A e \in Event : event[e].lane # "BATCH" => Len(told[e]) <= 1
    /\ \A e \in discarded : /\ told[e] = << >>
                            /\ storage.good =>
                                 \E f \in 1 .. e - 1 : /\ id(f) = id(e)
                                                       /\ told[f] = <<"processed">>

\* No event is written to the file twice, not even when a write fails in the
\* middle of a bucket and the bucket is flushed again.  While the file can be
\* written, a finished event is in it or in the stream's buffer if and only if
\* the observers were told it was processed.
StoredOnce ==
    /\ \A e \in Event : Stored(e) <= 1
    /\ storage.good => \A e \in Finished : Stored(e) = Times(told[e], "processed")

\* The reports of a dropped event.
DropReports == UNION {{<<e, i>> : i \in {j \in DOMAIN told[e] : told[e][j] = "dropped"}} :
                        e \in Event}

\* Whatever is given up is in the dead letter queue's count once for each time
\* the observers are told so, and once if dropBatchFromQueue() took it; the
\* queue keeps as many of them as its limit allows, whichever way they came.
DropsAreDeadLettered ==
    /\ dlq.total_dropped_ = Cardinality(swept) + Cardinality(DropReports)
    /\ Len(dlq.stored_events_) = IF dlq.total_dropped_ < MAX_STORED_EVENTS
                                 THEN dlq.total_dropped_ ELSE MAX_STORED_EVENTS

\* Between two events a processor has counted each one it took exactly once, as
\* processed or as dropped, but for duplicates, which it does not count, and
\* breaches of the SLA, which it counts as both.
CountsAddUp ==
    \A l \in Lane : pc[l] \in {"loop", "stopped"} =>
        metric[l]["processed"] + metric[l]["dropped"]
          + Cardinality({e \in discarded : event[e].lane = l})
        = Cardinality({e \in Event \ swept :
                         event[e].lane = l /\ e \notin queue[l]})
          + Cardinality({e \in breached : event[e].lane = l})

\* A crash of the process at this moment loses fewer than FLUSH_BATCH_SIZE of the
\* events stored, as long as no write has failed.  A power cut may lose more: what
\* the operating system has not written yet, which the code does not control.
LossBounded == storage.good => Len(storage.buffered) < FLUSH_BATCH_SIZE

\* Once the processors have stopped everything they took is settled: no bucket
\* holds an event, and what was reported as processed is in the file, if it could
\* be written, and no more in the process, whichever processor stopped last.
SettledAtStop ==
    (\A l \in Lane : pc[l] = "stopped") =>
        /\ \A t \in Topic : buckets_[t] = {}
        /\ storage.good => storage.buffered = << >>

\* checkRules() and handle() read no more of a body than it has, also when the
\* event has waited in a bucket since it was validated.
ReadsInBody ==
    LET Safe(e) == event[e].size >= BytesRead(handler(e), event[e])
    IN  /\ pc["REALTIME"] = "store" => Safe(cur["REALTIME"])
        /\ pc["TRANSACTIONAL"] = "handle" => Safe(cur["TRANSACTIONAL"])
        /\ \A t \in Topic : \A e \in buckets_[t] : Safe(e)

\* A sensor reading over its limit that reaches the RealtimeProcessor raises its
\* alert, also when the event is then too late for the SLA or cannot be stored.
AlarmsRaised ==
    \A e \in Finished : event[e].lane = "REALTIME" /\ ~Rejected(e) =>
        LET all == handle(handler(e), event[e])
        IN  all \subseteq [outcome : {"ALERT"}, level : AlertLevel]
              => {r.level : r \in all} \subseteq alerts[e]

\* stop() returns: every thread ends, whatever it was doing, or the program is
\* terminated by a flush of stop() that could not write.
StopEnds == ~isRunning_ ~> Ended

\* Every event a processor took is accounted for, in the dead letter queue's
\* count and store and in the processor's own counters.
Accounted == DropsAreDeadLettered /\ CountsAddUp

\* What was reported as processed survives the process but for a bounded rest: fewer
\* than a batch when it crashes, nothing when it ends after a stop.
SurvivesProcess == LossBounded /\ SettledAtStop
=============================================================================
