-------------------------- MODULE ProcessorsProofs --------------------------
(***************************************************************************)
(* Theorems about Processors, for every workload and every value of the    *)
(* constants.                                                              *)
(*                                                                         *)
(* FlowInv says where an event can be: the queues lose their events in the *)
(* order of the numbers, a thread holds an event of its lane that passed   *)
(* the checks, a bucket the events of its topic that did.  On it rest four *)
(* arguments that do not need each other:                                  *)
(*                                                                         *)
(*   ToldInv    nothing is said of an event before it is decided, and in a *)
(*              bucket the flush tells the reported events from the rest   *)
(*   Buffered   the buffer holds no more than was counted since a flush    *)
(*   Raised     an alarm is out by the time its event has left the queue   *)
(*   Counted,   the counters, while one event may be in hand, and the      *)
(*   DeadLettered  total of the dead letter queue                          *)
(***************************************************************************)
EXTENDS Processors, FiniteSetTheorems, FunctionTheorems, SequenceTheorems, TLAPS

HandlerName == {"DefaultEventHandler", "SensorTemperatureHandler", "SensorPressureHandler",
                "PaymentEventHandler", "AuditEventHandler", "custom"}

\* A thread pops the events of its lane in the order of their numbers.
Waiting == \A l \in Lane : \A e \in queue[l] :
             /\ event[e].lane = l
             /\ \A f \in Event : event[f].lane = l /\ e < f => f \in queue[l]

\* A thread holds an event exactly while it is at work on it.
Holding == /\ \A l \in Lane : /\ cur[l] = NoEvent <=> pc[l] \in {"loop", "stopped"}
                              /\ cur[l] # NoEvent => /\ event[cur[l]].lane = l
                                                     /\ cur[l] \notin queue[l]
                                                     /\ ~Rejected(cur[l])
           /\ pc["REALTIME"] \in {"loop", "store", "stopped"}
           /\ pc["TRANSACTIONAL"] \in {"loop", "handle", "store", "stopped"}
           /\ pc["BATCH"] \in {"loop", "flush", "store", "stopped"}

\* A bucket holds the events of its topic that passed the checks, and a flush is
\* at an event of its bucket.
Collected == /\ \A t \in Topic : \A e \in buckets_[t] : /\ event[e].topic = t
                                                        /\ event[e].lane = "BATCH"
                                                        /\ e \notin queue["BATCH"]
                                                        /\ ~Rejected(e)
             /\ cur["BATCH"] # NoEvent => cur["BATCH"] \in buckets_[event[cur["BATCH"]].topic]
             /\ pc["BATCH"] = "store" => First(cur["BATCH"], Left)
             /\ pc["BATCH"] = "stopped" => \A t \in Topic : buckets_[t] = {}

\* What the history variables hold has left its queue.
Gone == /\ \A e \in swept : event[e].lane = "BATCH" /\ e \notin queue["BATCH"]
        /\ \A e \in discarded : /\ event[e].lane = "TRANSACTIONAL"
                                /\ e \notin queue["TRANSACTIONAL"]
                                /\ e # cur["TRANSACTIONAL"]
        /\ \A e \in breached : event[e].lane = "REALTIME" /\ e \notin queue["REALTIME"]

FlowInv == TypeOK /\ Waiting /\ Holding /\ Collected /\ Gone

\* The events nobody has decided about, or decided not to report.
Pending(e) == \/ e \in queue[event[e].lane]
              \/ event[e].lane # "BATCH" /\ cur[event[e].lane] = e
              \/ e \in discarded \cup swept

\* The running flush is past e.
Past(e) == /\ cur["BATCH"] # NoEvent
           /\ event[e].topic = event[cur["BATCH"]].topic
           /\ e <= flushed

\* Nothing is said of an event before it is decided, and of one that is not a
\* BATCH event at most one thing.
Silent == \A e \in Event : /\ Pending(e) => told[e] = << >>
                           /\ event[e].lane # "BATCH" => Len(told[e]) <= 1

\* While the file can be written: an event in a bucket has been reported exactly
\* if the running flush is past it, and one that has left everything has been.
InBuckets == storage.good =>
    \A t \in Topic : \A e \in buckets_[t] : Len(told[e]) = IF Past(e) THEN 1 ELSE 0
Settled == storage.good =>
    \A e \in Event : ~Pending(e) /\ (\A t \in Topic : e \notin buckets_[t]) => Len(told[e]) = 1

\* dropBatchFromQueue() takes nothing that is in a bucket.
Apart == \A t \in Topic : buckets_[t] \cap swept = {}

\* The file and the stream's buffer have what was reported as processed.
Written == \A e \in Event : Stored(e) = Times(told[e], "processed") /\ Stored(e) <= 1

\* f was processed, or it is on its way into the file.
Handled(f) == \/ told[f] = <<"processed">>
              \/ pc["TRANSACTIONAL"] = "store" /\ cur["TRANSACTIONAL"] = f

\* The dedup table has the ids of events that were processed, and what was found
\* in it has a predecessor.
Remembered == storage.good =>
    /\ \A i \in dedup_table_ : \E f \in Event : /\ event[f].lane = "TRANSACTIONAL"
                                                /\ id(f) = i /\ Handled(f)
    /\ \A e \in discarded : \E f \in 1 .. e - 1 : /\ event[f].lane = "TRANSACTIONAL"
                                                  /\ id(f) = id(e)
                                                  /\ told[f] = <<"processed">>

Reports == Silent /\ InBuckets /\ Settled /\ Apart /\ Written /\ Remembered
ToldInv == FlowInv /\ Reports

\* The buffer holds no more than was counted since the last flush, and nothing
\* once the last processor has flushed.
Buffered == storage.good => /\ Len(storage.buffered) <= storage.eventCount
                            /\ (\A l \in Lane : pc[l] = "stopped") => storage.buffered = << >>

\* An alarm is raised by the time its event has left the queue.
Raised == \A e \in Event :
    LET all == handle(handler(e), event[e])
    IN  /\ event[e].lane = "REALTIME" /\ e \notin queue["REALTIME"] /\ ~Rejected(e)
        /\ all \subseteq [outcome : {"ALERT"}, level : AlertLevel]
        => {r.level : r \in all} \subseteq alerts[e]

\* The terms of CountsAddUp, which also hold in the middle of an event: one that is
\* being handled is not counted yet.
Total(l) == metric[l]["processed"] + metric[l]["dropped"]
Passed(l) == {e \in discarded : event[e].lane = l}
InHand(l) == IF pc[l] = "handle" THEN 1 ELSE 0
Took(l) == {e \in Event \ swept : event[e].lane = l /\ e \notin queue[l]}
Late(l) == {e \in breached : event[e].lane = l}
Counted == \A l \in Lane : Total(l) + Cardinality(Passed(l)) + InHand(l)
                             = Cardinality(Took(l)) + Cardinality(Late(l))

\* The reports of drops are what the dead letter queue has counted.
DeadLettered == DropsAreDeadLettered /\ IsFiniteSet(DropReports)

----------------------------------------------------------------------------
(* The model's operators *)

\* A topic has one of the handlers of the registry, or the default one.
LEMMA HandlerKnown ==
    ASSUME NEW topic
    PROVE  getOrDefault(topic) \in HandlerName
<1> DEFINE matching == MatchingPrefixes(topic)
<1>1. \A p \in DOMAIN handlers_ : Len(p) = 1 /\ handlers_[p] \in HandlerName
  BY DEF handlers_, HandlerName
<1>2. matching \subseteq DOMAIN handlers_
  BY DEF MatchingPrefixes
<1>3. CASE matching # {}
  <2>1. \E p \in matching : \A q \in matching : Len(q) <= Len(p)
    BY <1>1, <1>2, <1>3
  <2> HIDE DEF matching
  <2> QED
    BY <1>1, <1>2, <1>3, <2>1 DEF getOrDefault, matching
<1> QED
  BY <1>3 DEF getOrDefault, HandlerName

\* The six classes.
LEMMA Classes ==
    ASSUME NEW ev
    PROVE  /\ ClassOf("SensorTemperatureHandler", ev) = SensorTemperatureHandler(ev)
           /\ ClassOf("SensorPressureHandler", ev) = SensorPressureHandler(ev)
           /\ ClassOf("PaymentEventHandler", ev) = PaymentEventHandler(ev)
           /\ ClassOf("AuditEventHandler", ev) = AuditEventHandler(ev)
           /\ ClassOf("custom", ev) = CustomHandler(ev)
           /\ ClassOf("DefaultEventHandler", ev) = DefaultEventHandler(ev)
  BY SMT DEF ClassOf

\* validate() of a handler makes sure that what its other functions read is there.
LEMMA ValidBodySuffices ==
    ASSUME NEW ev, NEW h \in HandlerName, ev.size \in Nat, validate(h, ev)
    PROVE  ev.size >= BytesRead(h, ev)
<1>1. /\ SensorTemperatureHandler(ev).validate = (ev.size > 0)
      /\ SensorTemperatureHandler(ev).reads = 1
  BY SMT DEF SensorTemperatureHandler
<1>2. /\ SensorPressureHandler(ev).validate = (ev.size > 0)
      /\ SensorPressureHandler(ev).reads = 1
  BY SMT DEF SensorPressureHandler, EventHandler
<1>3. /\ PaymentEventHandler(ev).validate = (ev.size >= 4)
      /\ PaymentEventHandler(ev).reads = 4
  BY SMT DEF PaymentEventHandler
<1>4. /\ AuditEventHandler(ev).reads = 0
      /\ DefaultEventHandler(ev).reads = 0
      /\ CustomHandler(ev).reads = 0
  BY SMT DEF AuditEventHandler, DefaultEventHandler, CustomHandler, EventHandler
<1>5. /\ h = "SensorTemperatureHandler" => ev.size > 0 /\ BytesRead(h, ev) = 1
      /\ h = "SensorPressureHandler" => ev.size > 0 /\ BytesRead(h, ev) = 1
      /\ h = "PaymentEventHandler" => ev.size >= 4 /\ BytesRead(h, ev) = 4
      /\ h \in {"AuditEventHandler", "DefaultEventHandler", "custom"} => BytesRead(h, ev) = 0
  BY <1>1, <1>2, <1>3, <1>4, Classes, Zenon DEF validate, BytesRead
<1> QED
  BY <1>5 DEF HandlerName

\* What handle() of each class can return.
LEMMA Results ==
    ASSUME NEW ev
    PROVE  /\ handle("SensorTemperatureHandler", ev) \in
                {{AlertAt("CRITICAL")}, {AlertAt("WARNING")}, {Success}}
           /\ handle("SensorPressureHandler", ev) \in
                {{AlertAt("EMERGENCY")}, {AlertAt("WARNING")}, {Success}}
           /\ handle("PaymentEventHandler", ev) = {Success}
           /\ handle("AuditEventHandler", ev) = {Success}
           /\ handle("custom", ev) = [outcome : Outcome, level : {"INFO"}]
           /\ handle("DefaultEventHandler", ev) = {Success}
<1>1. SensorTemperatureHandler(ev).handle \in
        {{AlertAt("CRITICAL")}, {AlertAt("WARNING")}, {Success}}
  BY SMT DEF SensorTemperatureHandler
<1>2. SensorPressureHandler(ev).handle \in
        {{AlertAt("EMERGENCY")}, {AlertAt("WARNING")}, {Success}}
  BY SMT DEF SensorPressureHandler, EventHandler
<1>3. PaymentEventHandler(ev).handle = {Success}
  BY SMT DEF PaymentEventHandler
<1>4. AuditEventHandler(ev).handle = {Success} /\ DefaultEventHandler(ev).handle = {Success}
  BY SMT DEF AuditEventHandler, DefaultEventHandler, EventHandler
<1>5. CustomHandler(ev).handle = [outcome : Outcome, level : {"INFO"}]
  <2> DEFINE all == [outcome : Outcome, level : {"INFO"}]
  <2>1. CustomHandler(ev) = [EventHandler(ev) EXCEPT !.handle = all]
    BY DEF CustomHandler
  <2> HIDE DEF all
  <2>2. [EventHandler(ev) EXCEPT !.handle = all].handle = all
    BY SMT DEF EventHandler
  <2> QED
    BY <2>1, <2>2 DEF all
<1> QED
  BY <1>1, <1>2, <1>3, <1>4, <1>5, Classes DEF handle

\* A handler that always raises an alert always raises the same.
LEMMA AlertIsCertain ==
    ASSUME NEW ev, NEW h \in HandlerName,
           handle(h, ev) \subseteq [outcome : {"ALERT"}, level : AlertLevel]
    PROVE  \A r, s \in handle(h, ev) : r = s /\ r.outcome = "ALERT"
<1>1. Success.outcome = "SUCCESS" /\ [outcome |-> "FAIL", level |-> "INFO"].outcome = "FAIL"
  BY DEF Success
<1>2. \A r \in handle(h, ev) : r.outcome = "ALERT"
  OBVIOUS
<1>3. h \in {"SensorTemperatureHandler", "SensorPressureHandler"}
  <2>1. h # "custom"
    <3>1. [outcome |-> "FAIL", level |-> "INFO"] \in handle("custom", ev)
      BY Results DEF Outcome
    <3> QED
      BY <1>1, <1>2, <3>1
  <2> QED
    BY <1>1, <1>2, <2>1, Results DEF HandlerName
<1> QED
  BY <1>2, <1>3, Results

\* The results of a handler.
LEMMA ResultType ==
    ASSUME NEW ev, NEW h \in HandlerName, NEW r \in handle(h, ev)
    PROVE  r.outcome \in Outcome /\ r.level \in AlertLevel
<1>1. Success.outcome \in Outcome /\ Success.level \in AlertLevel
  BY DEF Success, Outcome, AlertLevel
<1>2. \A a \in AlertLevel : AlertAt(a).outcome \in Outcome /\ AlertAt(a).level \in AlertLevel
  BY DEF AlertAt, Outcome, AlertLevel
<1>3. {"INFO", "WARNING", "CRITICAL", "EMERGENCY"} \subseteq AlertLevel
  BY DEF AlertLevel
<1>4. \A x \in [outcome : Outcome, level : {"INFO"}] :
        x.outcome \in Outcome /\ x.level \in AlertLevel
  BY DEF AlertLevel
<1>5. CASE h = "custom"
  BY <1>4, <1>5, Results
<1>6. CASE h # "custom"
  <2>1. r = Success \/ \E a \in AlertLevel : r = AlertAt(a)
    BY <1>3, <1>6, Results DEF HandlerName
  <2> QED
    BY <1>1, <1>2, <2>1
<1> QED
  BY <1>5, <1>6

\* The constants, and an event's fields.
LEMMA EventType ==
    ASSUME TypeOK
    PROVE  \A e \in Event : /\ e \in Nat /\ e # NoEvent
                            /\ event[e].lane \in Lane
                            /\ event[e].topic \in Topic
                            /\ event[e].size \in Nat
<1> SUFFICES ASSUME NEW e \in Event
             PROVE  /\ e \in Nat /\ e # NoEvent /\ event[e].lane \in Lane
                    /\ event[e].topic \in Topic /\ event[e].size \in Nat
  OBVIOUS
<1>1. e \in Nat /\ e # NoEvent
  BY BoundAssumption DEF Event, NoEvent
<1>2. event \in Workload /\ event[e] \in [lane : Lane, topic : Seq(STRING), size : Nat, value : Nat]
  BY WorkloadAssumption DEF TypeOK, Event
<1>3. event[e].topic \in Topic
  BY <1>2 DEF Topic
<1> QED
  BY <1>1, <1>2, <1>3

\* The state of the storage.
StorageType == [file : Seq(Event), buffered : Seq(Event), good : BOOLEAN, eventCount : Nat]

\* storageFile.flush(): it writes what is buffered, or it fails.
LEMMA FlushesFacts ==
    ASSUME NEW s \in StorageType, NEW f \in Flushes(s)
    PROVE  /\ f \in StorageType
           /\ f.eventCount = s.eventCount
           /\ f.good => s.good /\ f.buffered = << >> /\ f.file = s.file \o s.buffered
           /\ ~f.good => f.buffered = s.buffered /\ f.file = s.file
<1>1. s.file \o s.buffered \in Seq(Event) /\ << >> \in Seq(Event)
  BY ConcatProperties, EmptySeq DEF StorageType
<1>2. CASE s.good /\ f = [s EXCEPT !.file = @ \o s.buffered, !.buffered = << >>]
  BY <1>1, <1>2 DEF StorageType
<1>3. CASE s.good /\ f = [s EXCEPT !.good = FALSE]
  BY <1>3 DEF StorageType
<1>4. CASE ~s.good /\ f = s
  BY <1>4
<1> QED
  BY <1>2, <1>3, <1>4 DEF Flushes

\* storeEvent(): it throws and changes nothing but the stream's state, or the event
\* is in the buffer or, with all before it, in the file.
LEMMA StoresFacts ==
    ASSUME NEW s \in StorageType, NEW e \in Event, NEW r \in Stores(s, e)
    PROVE  /\ r.storage \in StorageType
           /\ r.thrown \in BOOLEAN
           /\ r.thrown => /\ ~r.storage.good
                          /\ r.storage.buffered = s.buffered /\ r.storage.file = s.file
                          /\ r.storage.eventCount = s.eventCount
           /\ ~r.thrown => s.good
           /\ ~r.thrown =>
                \/ /\ r.storage.file = s.file
                   /\ r.storage.buffered = Append(s.buffered, e)
                   /\ r.storage.eventCount \in {0, s.eventCount + 1}
                   /\ r.storage.eventCount < FLUSH_BATCH_SIZE
                   /\ r.storage.good => r.storage.eventCount = s.eventCount + 1
                \/ /\ r.storage.file = s.file \o Append(s.buffered, e)
                   /\ r.storage.buffered = << >>
                   /\ r.storage.eventCount = 0
<1> DEFINE b == Append(s.buffered, e)
           written == [s EXCEPT !.buffered = Append(@, e), !.eventCount = @ + 1]
           fresh == [written EXCEPT !.eventCount = 0]
<1>1. b \in Seq(Event) /\ 0 < FLUSH_BATCH_SIZE
  BY BoundAssumption, AppendProperties DEF StorageType
<1>2. /\ written \in StorageType
      /\ written.buffered = b /\ written.file = s.file
      /\ written.good = s.good /\ written.eventCount = s.eventCount + 1
  <2> DEFINE longer == [s EXCEPT !.buffered = b]
  <2>1. written = [longer EXCEPT !.eventCount = s.eventCount + 1]
    BY DEF StorageType
  <2> HIDE DEF b, written
  <2>2. /\ longer \in StorageType /\ longer.buffered = b /\ longer.file = s.file
        /\ longer.good = s.good /\ longer.eventCount = s.eventCount
    BY <1>1 DEF StorageType
  <2> HIDE DEF longer
  <2> QED
    BY <2>1, <2>2 DEF StorageType
<1>3. /\ fresh \in StorageType
      /\ fresh.buffered = b /\ fresh.file = s.file
      /\ fresh.good = s.good /\ fresh.eventCount = 0
  <2> HIDE DEF written
  <2> QED
    BY <1>2 DEF StorageType
<1>4. \/ r = [storage |-> [s EXCEPT !.good = FALSE], thrown |-> TRUE]
      \/ /\ s.good /\ written.eventCount < FLUSH_BATCH_SIZE
         /\ r = [storage |-> written, thrown |-> FALSE]
      \/ s.good /\ \E f \in Flushes(fresh) : r = [storage |-> f, thrown |-> FALSE]
  BY DEF Stores
<1>5. CASE r = [storage |-> [s EXCEPT !.good = FALSE], thrown |-> TRUE]
  BY <1>5 DEF StorageType
<1> HIDE DEF written, fresh, b
<1>6. CASE /\ s.good /\ written.eventCount < FLUSH_BATCH_SIZE
           /\ r = [storage |-> written, thrown |-> FALSE]
  <2>1. r.storage = written /\ ~r.thrown /\ r.thrown \in BOOLEAN
    BY <1>6
  <2> QED
    BY <1>2, <1>6, <2>1 DEF b
<1>7. CASE s.good /\ \E f \in Flushes(fresh) : r = [storage |-> f, thrown |-> FALSE]
  <2>1. PICK f \in Flushes(fresh) : r = [storage |-> f, thrown |-> FALSE]
    BY <1>7
  <2>2. r.storage = f /\ ~r.thrown /\ r.thrown \in BOOLEAN
    BY <2>1
  <2>3. /\ f \in StorageType /\ f.eventCount = 0
        /\ f.good => f.buffered = << >> /\ f.file = s.file \o b
        /\ ~f.good => f.buffered = b /\ f.file = s.file
    <3>1. fresh \in StorageType
      BY <1>3
    <3>2. /\ f \in StorageType /\ f.eventCount = fresh.eventCount
          /\ f.good => f.buffered = << >> /\ f.file = fresh.file \o fresh.buffered
          /\ ~f.good => f.buffered = fresh.buffered /\ f.file = fresh.file
      BY <3>1, FlushesFacts
    <3> QED
      BY <1>3, <3>2
  <2>4. CASE f.good
    BY <1>1, <1>7, <2>2, <2>3, <2>4 DEF b
  <2>5. CASE ~f.good
    <3>1. /\ r.storage.file = s.file /\ r.storage.buffered = Append(s.buffered, e)
          /\ r.storage.eventCount = 0 /\ ~r.storage.good
      BY <2>2, <2>3, <2>5 DEF b
    <3> QED
      BY <1>1, <1>7, <2>2, <2>3, <3>1
  <2> QED
    BY <2>4, <2>5
<1> QED
  BY <1>4, <1>5, <1>6, <1>7

\* The dead letter queue keeps the last events.
LEMMA DlqFacts ==
    ASSUME TypeOK, NEW es \in Seq(Event)
    PROVE  /\ DlqPush(dlq, es) \in [stored_events_ : Seq(Event), total_dropped_ : Nat]
           /\ DlqPush(dlq, es).total_dropped_ = dlq.total_dropped_ + Len(es)
           /\ Len(DlqPush(dlq, es).stored_events_) =
                IF Len(dlq.stored_events_) + Len(es) > MAX_STORED_EVENTS THEN MAX_STORED_EVENTS
                ELSE Len(dlq.stored_events_) + Len(es)
<1> DEFINE all == dlq.stored_events_ \o es
           n == Len(all)
           k == IF n > MAX_STORED_EVENTS THEN n - MAX_STORED_EVENTS + 1 ELSE 1
<1>1. /\ dlq.stored_events_ \in Seq(Event) /\ dlq.total_dropped_ \in Nat /\ Len(es) \in Nat
      /\ MAX_STORED_EVENTS \in Nat \ {0} /\ Len(dlq.stored_events_) \in Nat
  BY BoundAssumption, LenProperties DEF TypeOK
<1>2. all \in Seq(Event) /\ n = Len(dlq.stored_events_) + Len(es)
  BY <1>1, ConcatProperties
<1>3. k \in 1 .. n + 1 /\ n \in Nat
  BY <1>1, <1>2
<1>4. SubSeq(all, k, n) \in Seq(Event) /\ Len(SubSeq(all, k, n)) = n - k + 1
  BY <1>2, <1>3, SubSeqProperties
<1>5. DlqPush(dlq, es) = [stored_events_ |-> SubSeq(all, k, n),
                          total_dropped_ |-> dlq.total_dropped_ + Len(es)]
  BY DEF DlqPush, Keeping
<1>6. /\ DlqPush(dlq, es).stored_events_ = SubSeq(all, k, n)
      /\ DlqPush(dlq, es).total_dropped_ = dlq.total_dropped_ + Len(es)
  <2>1. \A x, y : /\ [stored_events_ |-> x, total_dropped_ |-> y].stored_events_ = x
                 /\ [stored_events_ |-> x, total_dropped_ |-> y].total_dropped_ = y
    OBVIOUS
  <2> HIDE DEF all, n, k
  <2> QED
    BY <1>5, <2>1, Zenon
<1>7. n - k + 1 = IF Len(dlq.stored_events_) + Len(es) > MAX_STORED_EVENTS
                  THEN MAX_STORED_EVENTS ELSE Len(dlq.stored_events_) + Len(es)
  BY <1>1, <1>2
<1> HIDE DEF all, n, k
<1> QED
  BY <1>1, <1>4, <1>5, <1>6, <1>7

\* One more report.
LEMMA TellFacts ==
    ASSUME TypeOK, NEW e \in Event, NEW what \in {"processed", "dropped"}, Tell(e, what)
    PROVE  /\ told' \in [Event -> Seq({"processed", "dropped"})]
           /\ told'[e] = Append(told[e], what) /\ Len(told'[e]) = Len(told[e]) + 1
           /\ \A f \in Event \ {e} : told'[f] = told[f]
<1>1. told[e] \in Seq({"processed", "dropped"})
  BY DEF TypeOK
<1> QED
  BY <1>1, AppendProperties DEF TypeOK, Tell

\* One more event counted.
LEMMA CountFacts ==
    ASSUME TypeOK, NEW l \in Lane, NEW what \in Counter, Count(l, what)
    PROVE  /\ metric' \in [Lane -> [Counter -> Nat]]
           /\ metric'[l]["processed"] + metric'[l]["dropped"]
                = metric[l]["processed"] + metric[l]["dropped"] + 1
           /\ \A m \in Lane \ {l} : metric'[m] = metric[m]
<1>1. metric[l] \in [Counter -> Nat] /\ DOMAIN metric = Lane
  BY DEF TypeOK
<1>2. /\ metric'[l] = [metric[l] EXCEPT ![what] = @ + 1]
      /\ \A m \in Lane \ {l} : metric'[m] = metric[m]
  BY <1>1 DEF Count
<1>3. metric' \in [Lane -> [Counter -> Nat]]
  BY DEF TypeOK, Count
<1> QED
  BY <1>1, <1>2, <1>3 DEF Counter

----------------------------------------------------------------------------
(* Where the events are *)

\* At the start all events wait.
LEMMA InitFlow == Init => FlowInv
<1> SUFFICES ASSUME Init PROVE FlowInv
  OBVIOUS
<1>1. /\ IdSpace \in Nat \ {0} /\ max_retries_ \in Nat \ {0} /\ FLUSH_BATCH_SIZE \in Nat \ {0}
      /\ MaxEvents \in Nat
  BY BoundAssumption
<1>2. TypeOK
  <2>1. << >> \in Seq(Event) /\ << >> \in Seq({"processed", "dropped"})
    BY EmptySeq
  <2>2. /\ storage \in [file : Seq(Event), buffered : Seq(Event), good : BOOLEAN,
                        eventCount : 0 .. FLUSH_BATCH_SIZE - 1]
        /\ dlq \in [stored_events_ : Seq(Event), total_dropped_ : Nat]
    BY <1>1, <2>1 DEF Init
  <2>3. /\ metric \in [Lane -> [Counter -> Nat]]
        /\ alerts \in [Event -> SUBSET AlertLevel]
        /\ told \in [Event -> Seq({"processed", "dropped"})]
    BY <2>1 DEF Init
  <2>4. /\ event \in Workload /\ queue \in [Lane -> SUBSET Event]
        /\ pc \in [Lane -> {"loop", "handle", "store", "flush", "stopped"}]
        /\ cur \in [Lane -> Event \cup {NoEvent}]
        /\ {isRunning_, terminated, paused_, drop_events_, stopping} \subseteq BOOLEAN
        /\ buckets_ \in [Topic -> SUBSET Event] /\ dated \subseteq Topic
        /\ discarded \cup swept \cup breached \subseteq Event
    BY DEF Init
  <2>5. /\ attempt \in 0 .. max_retries_ /\ dedup_table_ \subseteq 0 .. IdSpace - 1
        /\ flushed \in 0 .. MaxEvents
    BY <1>1 DEF Init
  <2> QED
    BY <2>2, <2>3, <2>4, <2>5 DEF TypeOK
<1>3. Waiting /\ Holding /\ Gone
  BY DEF Init, Waiting, Holding, Gone, Lane
<1>4. Collected
  BY DEF Init, Collected, Lane
<1> QED
  BY <1>2, <1>3, <1>4 DEF FlowInv

\* What an event is does not change, and so what becomes of it.
LEMMA RejectedSame ==
    ASSUME event' = event
    PROVE  \A e : Rejected(e)' <=> Rejected(e)
  BY DEF Rejected, handler

\* A thread pops an event.
LEMMA PopStep ==
    ASSUME FlowInv, NEW l \in Lane, NEW e \in Event, Pops(l, e), Taken(l, e)
    PROVE  /\ event' = event /\ e \in queue[l] /\ event[e].lane = l
           /\ pc[l] = "loop" /\ cur[l] = NoEvent
           /\ queue' \in [Lane -> SUBSET Event]
           /\ queue'[l] = queue[l] \ {e} /\ \A m \in Lane \ {l} : queue'[m] = queue[m]
           /\ Waiting'
<1>1. /\ event' = event /\ First(e, queue[l]) /\ pc[l] = "loop"
      /\ queue' = [queue EXCEPT ![l] = @ \ {e}] /\ queue \in [Lane -> SUBSET Event]
  BY DEF Pops, Taken, FlowInv, TypeOK
<1>2. queue'[l] = queue[l] \ {e} /\ \A m \in Lane \ {l} : queue'[m] = queue[m]
  BY <1>1
<1>3. e \in queue[l] /\ event[e].lane = l /\ cur[l] = NoEvent
  BY <1>1 DEF FlowInv, Waiting, Holding, First
<1>4. Waiting'
  <2> SUFFICES ASSUME NEW m \in Lane, NEW x \in queue'[m]
               PROVE  /\ event[x].lane = m
                      /\ \A f \in Event : event[f].lane = m /\ x < f => f \in queue'[m]
    BY <1>1 DEF Waiting
  <2>1. CASE m = l
    <3>1. x \in queue[l] /\ e <= x /\ x \in Event /\ x # e
      BY <1>1, <1>2, <2>1 DEF First
    <3>2. ASSUME NEW f \in Event, event[f].lane = l, x < f PROVE f \in queue'[l]
      <4>1. f \in queue[l] /\ f # e
        BY <3>1, <3>2, BoundAssumption DEF FlowInv, Waiting, Event
      <4> QED
        BY <1>2, <4>1
    <3> QED
      BY <2>1, <3>1, <3>2 DEF FlowInv, Waiting
  <2>2. CASE m # l
    BY <1>2, <2>2 DEF FlowInv, Waiting
  <2> QED
    BY <2>1, <2>2
<1> QED
  BY <1>1, <1>2, <1>3, <1>4

\* What a thread does to its own position leaves the others where they are.
LEMMA ThreadStep ==
    ASSUME FlowInv, NEW l \in Lane, event' = event,
           NEW where \in {"loop", "handle", "store", "flush", "stopped"},
           NEW e \in Event \cup {NoEvent}, Continue(l, where, e),
           \A m \in Lane : queue'[m] \subseteq queue[m],
           (e = NoEvent) <=> where \in {"loop", "stopped"},
           e # NoEvent => event[e].lane = l /\ e \notin queue'[l] /\ ~Rejected(e),
           where = "handle" => l = "TRANSACTIONAL",
           where = "flush" => l = "BATCH"
    PROVE  /\ pc' \in [Lane -> {"loop", "handle", "store", "flush", "stopped"}]
           /\ cur' \in [Lane -> Event \cup {NoEvent}]
           /\ pc'[l] = where /\ cur'[l] = e
           /\ \A m \in Lane \ {l} : pc'[m] = pc[m] /\ cur'[m] = cur[m]
           /\ Holding'
<1>1. /\ pc' \in [Lane -> {"loop", "handle", "store", "flush", "stopped"}]
      /\ cur' \in [Lane -> Event \cup {NoEvent}]
      /\ pc'[l] = where /\ cur'[l] = e
      /\ \A m \in Lane \ {l} : pc'[m] = pc[m] /\ cur'[m] = cur[m]
  BY DEF Continue, FlowInv, TypeOK
<1>2. \A x : Rejected(x)' <=> Rejected(x)
  BY RejectedSame
<1>3. ASSUME NEW m \in Lane
      PROVE  /\ cur'[m] = NoEvent <=> pc'[m] \in {"loop", "stopped"}
             /\ cur'[m] # NoEvent => /\ event'[cur'[m]].lane = m
                                     /\ cur'[m] \notin queue'[m]
                                     /\ ~Rejected(cur'[m])
  <2>1. CASE m = l
    BY <1>1, <2>1
  <2>2. CASE m # l
    BY <1>1, <2>2 DEF FlowInv, Holding
  <2> QED
    BY <2>1, <2>2
<1>4. /\ pc'["REALTIME"] \in {"loop", "store", "stopped"}
      /\ pc'["TRANSACTIONAL"] \in {"loop", "handle", "store", "stopped"}
      /\ pc'["BATCH"] \in {"loop", "flush", "store", "stopped"}
  BY <1>1 DEF FlowInv, Holding, Lane
<1> QED
  BY <1>1, <1>2, <1>3, <1>4 DEF Holding

\* The other threads do not touch the buckets.
LEMMA BucketsKept ==
    ASSUME FlowInv, event' = event, queue'["BATCH"] \subseteq queue["BATCH"],
           pc'["BATCH"] = pc["BATCH"], cur'["BATCH"] = cur["BATCH"],
           buckets_' = buckets_, flushed' = flushed
    PROVE  Collected'
<1>1. \A x : Rejected(x)' <=> Rejected(x)
  BY RejectedSame
<1>2. pc["BATCH"] = "store" => First(cur["BATCH"], Left)'
  BY DEF FlowInv, Collected, Left, First
<1> QED
  BY <1>1, <1>2 DEF FlowInv, Collected

\* A set of events is finite.
LEMMA EventsFinite == \A S \in SUBSET Event : IsFiniteSet(S)
<1>1. IsFiniteSet(Event)
  BY BoundAssumption, FS_Interval DEF Event
<1> QED
  BY <1>1, FS_Subset

\* process() gives up the event it was called with.
LEMMA DropFlow ==
    ASSUME FlowInv, NEW l \in Lane, NEW e \in Event, Pops(l, e), Taken(l, e), Drop(l, e),
           dedup_table_' \subseteq dedup_table_,
           UNCHANGED <<controlVars, attempt, batchVars, storage, alerts, history>>
    PROVE  FlowInv'
<1>1. /\ event' = event /\ e \in queue[l] /\ event[e].lane = l
      /\ pc[l] = "loop" /\ cur[l] = NoEvent
      /\ queue' \in [Lane -> SUBSET Event]
      /\ queue'[l] = queue[l] \ {e} /\ \A m \in Lane \ {l} : queue'[m] = queue[m]
      /\ Waiting'
  BY PopStep
<1>2. pc' = pc /\ cur' = cur
  BY <1>1 DEF Drop, Done, Continue, FlowInv, TypeOK
<1>3. <<e>> \in Seq(Event)
  OBVIOUS
<1>4. TypeOK'
  <2>1. /\ told' \in [Event -> Seq({"processed", "dropped"})]
        /\ metric' \in [Lane -> [Counter -> Nat]]
        /\ dlq' \in [stored_events_ : Seq(Event), total_dropped_ : Nat]
    BY <1>3, TellFacts, CountFacts, DlqFacts DEF Drop, FlowInv, Counter
  <2> QED
    BY <1>1, <1>2, <2>1 DEF FlowInv, TypeOK, controlVars, batchVars, history
<1>5. \A x : Rejected(x)' <=> Rejected(x)
  BY <1>1, RejectedSame
<1>6. Holding'
  BY <1>1, <1>2, <1>5 DEF FlowInv, TypeOK, Holding
<1>7. Collected'
  BY <1>1, <1>2, <1>5 DEF FlowInv, TypeOK, Collected, Left, batchVars, Lane
<1>8. Gone'
  BY <1>1, <1>2 DEF FlowInv, TypeOK, Gone, history, Lane
<1> QED
  BY <1>1, <1>4, <1>6, <1>7, <1>8 DEF FlowInv

\* An event that fails validate() or checkRules().
LEMMA RejectFlow == ASSUME FlowInv, NEW l \in Lane, Reject(l) PROVE FlowInv'
<1>1. PICK e \in Event : /\ Pops(l, e) /\ Drop(l, e) /\ Taken(l, e)
                         /\ dedup_table_' \subseteq dedup_table_
                         /\ UNCHANGED <<controlVars, attempt, batchVars, storage, alerts, history>>
  BY DEF Reject
<1> QED
  BY <1>1, DropFlow

\* An event that comes while the TransactionalProcessor is paused.
LEMMA PausedFlow == ASSUME FlowInv, TransactionPaused PROVE FlowInv'
<1>1. PICK e \in Event : /\ Pops("TRANSACTIONAL", e) /\ Drop("TRANSACTIONAL", e)
                         /\ Taken("TRANSACTIONAL", e)
                         /\ UNCHANGED <<controlVars, txnVars, batchVars, storage, alerts, history>>
  BY DEF TransactionPaused
<1>2. dedup_table_' \subseteq dedup_table_ /\ attempt' = attempt
  BY <1>1 DEF txnVars
<1> QED
  BY <1>1, <1>2, DropFlow DEF Lane

\* An event is stored, or the write fails.
LEMMA StoreFlow == ASSUME FlowInv, NEW l \in Lane, StoreEvent(l) PROVE FlowInv'
<1>1. /\ pc[l] = "store" /\ cur[l] \in Event /\ event' = event /\ queue' = queue
      /\ UNCHANGED <<isRunning_, paused_, drop_events_, txnVars, buckets_, dated, stopping,
                     dlq, metric, alerts, history>>
  BY DEF StoreEvent, FlowInv, TypeOK, Holding, bus, NoEvent
<1>2. PICK s \in Stores(storage, cur[l]) :
         /\ storage' = s.storage
         /\ terminated' = (s.thrown /\ l = "BATCH" /\ stopping)
         /\ IF s.thrown THEN UNCHANGED told ELSE Tell(cur[l], "processed")
         /\ IF l = "BATCH" /\ ~s.thrown
            THEN Continue(l, "flush", cur[l]) /\ flushed' = cur[l]
            ELSE Done(l) /\ UNCHANGED flushed
  BY DEF StoreEvent
<1>3. /\ storage \in StorageType /\ storage.eventCount < FLUSH_BATCH_SIZE
      /\ FLUSH_BATCH_SIZE \in Nat \ {0} /\ MaxEvents \in Nat
  BY BoundAssumption DEF FlowInv, TypeOK, StorageType
<1>4. s.thrown \in BOOLEAN
  BY <1>1, <1>3, StoresFacts
<1>5. storage' \in [file : Seq(Event), buffered : Seq(Event), good : BOOLEAN,
                    eventCount : 0 .. FLUSH_BATCH_SIZE - 1]
  <2>1. storage' \in StorageType
    BY <1>1, <1>2, <1>3, StoresFacts
  <2>2. storage'.eventCount < FLUSH_BATCH_SIZE
    <3>1. CASE s.thrown
      BY <1>1, <1>2, <1>3, <3>1, StoresFacts
    <3>2. CASE ~s.thrown
      <4>1. storage'.eventCount < FLUSH_BATCH_SIZE \/ storage'.eventCount = 0
        BY <1>1, <1>2, <1>3, <3>2, StoresFacts
      <4> QED
        BY <1>3, <4>1
    <3> QED
      BY <3>1, <3>2
  <2> QED
    BY <1>3, <2>1, <2>2 DEF StorageType
<1>6. told' \in [Event -> Seq({"processed", "dropped"})]
  BY <1>1, <1>2, TellFacts DEF FlowInv, TypeOK
<1>7. flushed' \in 0 .. MaxEvents
  BY <1>1, <1>2, <1>3 DEF FlowInv, TypeOK, Event
<1>8. \/ l = "BATCH" /\ flushed' = cur[l] /\ Continue(l, "flush", cur[l])
      \/ flushed' = flushed /\ Continue(l, "loop", NoEvent)
  BY <1>2 DEF Done
<1>9. /\ pc' \in [Lane -> {"loop", "handle", "store", "flush", "stopped"}]
      /\ cur' \in [Lane -> Event \cup {NoEvent}]
      /\ \A m \in Lane \ {l} : pc'[m] = pc[m] /\ cur'[m] = cur[m]
      /\ \/ l = "BATCH" /\ flushed' = cur[l] /\ pc'[l] = "flush" /\ cur'[l] = cur[l]
         \/ flushed' = flushed /\ pc'[l] = "loop" /\ cur'[l] = NoEvent
      /\ Holding'
  <2>1. CASE l = "BATCH" /\ flushed' = cur[l] /\ Continue(l, "flush", cur[l])
    <3>1. cur[l] # NoEvent /\ event[cur[l]].lane = l /\ cur[l] \notin queue[l] /\ ~Rejected(cur[l])
      BY <1>1 DEF FlowInv, Holding
    <3> QED
      BY <1>1, <2>1, <3>1, ThreadStep
  <2>2. CASE flushed' = flushed /\ Continue(l, "loop", NoEvent)
    BY <1>1, <2>2, ThreadStep
  <2> QED
    BY <1>8, <2>1, <2>2
<1>10. TypeOK'
  BY <1>1, <1>2, <1>4, <1>5, <1>6, <1>7, <1>9 DEF FlowInv, TypeOK, txnVars, history
<1>11. \A x : Rejected(x)' <=> Rejected(x)
  BY <1>1, RejectedSame
<1>12. Collected'
  <2>1. CASE l # "BATCH"
    BY <1>1, <1>9, <2>1, BucketsKept DEF Lane
  <2>2. CASE l = "BATCH"
    BY <1>1, <1>9, <1>11, <2>2 DEF FlowInv, Collected
  <2> QED
    BY <2>1, <2>2
<1>13. Waiting' /\ Gone'
  <2>1. cur'["TRANSACTIONAL"] \in {cur["TRANSACTIONAL"], NoEvent}
    BY <1>9 DEF Lane
  <2>2. \A e \in discarded : e # NoEvent
    BY EventType DEF FlowInv, TypeOK
  <2> QED
    BY <1>1, <2>1, <2>2 DEF FlowInv, Waiting, Gone, history
<1> QED
  BY <1>9, <1>10, <1>12, <1>13 DEF FlowInv

\* A thread ends.
LEMMA StopProcessorFlow == ASSUME FlowInv, NEW l \in Lane, StopProcessor(l) PROVE FlowInv'
<1>1. /\ pc[l] = "loop" /\ pc' = [pc EXCEPT ![l] = "stopped"] /\ event' = event
      /\ l = "BATCH" => \A t \in Topic : buckets_[t] = {}
      /\ storage' \in Flushes(storage)
      /\ UNCHANGED <<bus, cur, controlVars, txnVars, batchVars, results, history>>
  BY DEF StopProcessor, StopFlush, bus
<1>2. storage \in StorageType /\ storage.eventCount < FLUSH_BATCH_SIZE
  BY BoundAssumption DEF FlowInv, TypeOK, StorageType
<1>3. storage' \in [file : Seq(Event), buffered : Seq(Event), good : BOOLEAN,
                    eventCount : 0 .. FLUSH_BATCH_SIZE - 1]
  <2>1. storage' \in StorageType /\ storage'.eventCount < FLUSH_BATCH_SIZE
    BY <1>1, <1>2, FlushesFacts
  <2> QED
    BY <2>1, BoundAssumption DEF StorageType
<1>4. TypeOK'
  BY <1>1, <1>3 DEF FlowInv, TypeOK, bus, controlVars, txnVars, batchVars, results, history
<1>5. \A x : Rejected(x)' <=> Rejected(x)
  BY <1>1, RejectedSame
<1>6. Waiting' /\ Holding' /\ Gone'
  BY <1>1, <1>5 DEF FlowInv, TypeOK, Waiting, Holding, Gone, Lane, bus, history
<1>7. Collected'
  BY <1>1, <1>5 DEF FlowInv, TypeOK, Collected, Left, Holding, bus, batchVars, Lane
<1> QED
  BY <1>4, <1>6, <1>7 DEF FlowInv

\* RealtimeProcessor::process() with an event that passed the checks.
LEMMA RealtimeFlow == ASSUME FlowInv, RealtimeHandle PROVE FlowInv'
<1>0. PICK e \in Event : \E result \in handle(handler(e), event[e]), late \in BOOLEAN :
        /\ Pops("REALTIME", e)
        /\ ~Rejected(e)
        /\ IF result.outcome \in {"FAIL", "DROP"}
           THEN Drop("REALTIME", e) /\ UNCHANGED <<alerts, breached>>
           ELSE /\ alerts' = [alerts EXCEPT ![e] = @ \cup Emitted(e, result, late)]
                /\ metric' = [metric EXCEPT !["REALTIME"] =
                     [c \in Counter |-> @[c] + IF c = "processed" \/ late THEN 1 ELSE 0]]
                /\ IF late THEN /\ dlq' = DlqPush(dlq, <<e>>)
                                /\ Tell(e, "dropped")
                                /\ breached' = breached \cup {e}
                                /\ Done("REALTIME")
                   ELSE Continue("REALTIME", "store", e) /\ UNCHANGED <<dlq, told, breached>>
        /\ Taken("REALTIME", e)
        /\ UNCHANGED <<controlVars, txnVars, batchVars, storage, discarded, swept>>
  BY DEF RealtimeHandle
<1>1. PICK result \in handle(handler(e), event[e]), late \in BOOLEAN :
        /\ Pops("REALTIME", e)
        /\ ~Rejected(e)
        /\ IF result.outcome \in {"FAIL", "DROP"}
           THEN Drop("REALTIME", e) /\ UNCHANGED <<alerts, breached>>
           ELSE /\ alerts' = [alerts EXCEPT ![e] = @ \cup Emitted(e, result, late)]
                /\ metric' = [metric EXCEPT !["REALTIME"] =
                     [c \in Counter |-> @[c] + IF c = "processed" \/ late THEN 1 ELSE 0]]
                /\ IF late THEN /\ dlq' = DlqPush(dlq, <<e>>)
                                /\ Tell(e, "dropped")
                                /\ breached' = breached \cup {e}
                                /\ Done("REALTIME")
                   ELSE Continue("REALTIME", "store", e) /\ UNCHANGED <<dlq, told, breached>>
        /\ Taken("REALTIME", e)
        /\ UNCHANGED <<controlVars, txnVars, batchVars, storage, discarded, swept>>
  BY <1>0
<1>2. "REALTIME" \in Lane
  BY DEF Lane
<1>3. CASE result.outcome \in {"FAIL", "DROP"}
  <2>1. UNCHANGED <<controlVars, attempt, batchVars, storage, alerts, history>>
        /\ dedup_table_' \subseteq dedup_table_
    BY <1>1, <1>3 DEF txnVars, history
  <2> QED
    BY <1>1, <1>2, <1>3, <2>1, DropFlow
<1>4. CASE result.outcome \notin {"FAIL", "DROP"}
  <2>1. /\ event' = event /\ e \in queue["REALTIME"] /\ event[e].lane = "REALTIME"
        /\ pc["REALTIME"] = "loop" /\ cur["REALTIME"] = NoEvent
        /\ queue' \in [Lane -> SUBSET Event]
        /\ queue'["REALTIME"] = queue["REALTIME"] \ {e}
        /\ \A m \in Lane \ {"REALTIME"} : queue'[m] = queue[m]
        /\ Waiting'
    BY <1>1, <1>2, PopStep
  <2>2. /\ breached \subseteq breached' /\ breached' \subseteq breached \cup {e}
        /\ pc' \in [Lane -> {"loop", "handle", "store", "flush", "stopped"}]
        /\ cur' \in [Lane -> Event \cup {NoEvent}]
        /\ \A m \in Lane \ {"REALTIME"} : pc'[m] = pc[m] /\ cur'[m] = cur[m]
        /\ Holding'
    <3>1. CASE late
      <4>1. Continue("REALTIME", "loop", NoEvent) /\ breached' = breached \cup {e}
        BY <1>1, <1>4, <3>1 DEF Done
      <4> QED
        BY <1>2, <2>1, <4>1, ThreadStep
    <3>2. CASE ~late
      <4>1. Continue("REALTIME", "store", e) /\ breached' = breached
        BY <1>1, <1>4, <3>2
      <4>2. e # NoEvent
        BY EventType DEF FlowInv
      <4> QED
        BY <1>1, <1>2, <2>1, <4>1, <4>2, ThreadStep
    <3> QED
      BY <3>1, <3>2
  <2>3. TypeOK'
    <3>1. alerts' \in [Event -> SUBSET AlertLevel]
      <4>1. result.level \in AlertLevel
        BY HandlerKnown, ResultType DEF handler
      <4>2. Emitted(e, result, late) \subseteq AlertLevel
        BY <4>1 DEF Emitted, AlertLevel
      <4>3. alerts' = [alerts EXCEPT ![e] = @ \cup Emitted(e, result, late)]
        BY <1>1, <1>4
      <4>4. alerts \in [Event -> SUBSET AlertLevel]
        BY DEF FlowInv, TypeOK
      <4> QED
        BY <4>2, <4>3, <4>4
    <3>2. metric' \in [Lane -> [Counter -> Nat]]
      <4>1. metric \in [Lane -> [Counter -> Nat]] /\ (IF late THEN 1 ELSE 0) \in Nat
        BY DEF FlowInv, TypeOK
      <4> DEFINE more == [c \in Counter |-> metric["REALTIME"][c]
                                                + IF c = "processed" \/ late THEN 1 ELSE 0]
      <4>2. more \in [Counter -> Nat]
        BY <1>2, <4>1
      <4>3. metric' = [metric EXCEPT !["REALTIME"] = more]
        BY <1>1, <1>2, <1>4, <4>1
      <4> HIDE DEF more
      <4> QED
        BY <1>2, <4>1, <4>2, <4>3
    <3>3. /\ told' \in [Event -> Seq({"processed", "dropped"})]
          /\ dlq' \in [stored_events_ : Seq(Event), total_dropped_ : Nat]
      <4>1. <<e>> \in Seq(Event)
        OBVIOUS
      <4>2. CASE late
        BY <1>1, <1>4, <4>1, <4>2, TellFacts, DlqFacts DEF FlowInv
      <4>3. CASE ~late
        BY <1>1, <1>4, <4>3 DEF FlowInv, TypeOK
      <4> QED
        BY <4>2, <4>3
    <3> QED
      BY <1>1, <2>1, <2>2, <3>1, <3>2, <3>3
         DEF FlowInv, TypeOK, controlVars, txnVars, batchVars, Lane
  <2>6. Collected'
    BY <1>1, <2>1, <2>2, BucketsKept DEF batchVars, Lane
  <2>7. Gone'
    BY <1>1, <2>1, <2>2 DEF FlowInv, TypeOK, Gone, Lane
  <2> QED
    BY <2>1, <2>2, <2>3, <2>6, <2>7 DEF FlowInv
<1> QED
  BY <1>3, <1>4

\* An event whose id the dedup table has.
LEMMA DuplicateFlow == ASSUME FlowInv, TransactionDuplicate PROVE FlowInv'
<1>1. PICK e \in Event : /\ Pops("TRANSACTIONAL", e) /\ Taken("TRANSACTIONAL", e)
                         /\ discarded' = discarded \cup {e}
                         /\ UNCHANGED <<pc, cur, controlVars, txnVars, batchVars, storage, results,
                                        swept, breached>>
  BY DEF TransactionDuplicate
<1>2. /\ event' = event /\ e \in queue["TRANSACTIONAL"] /\ event[e].lane = "TRANSACTIONAL"
      /\ pc["TRANSACTIONAL"] = "loop" /\ cur["TRANSACTIONAL"] = NoEvent
      /\ queue' \in [Lane -> SUBSET Event]
      /\ queue'["TRANSACTIONAL"] = queue["TRANSACTIONAL"] \ {e}
      /\ \A m \in Lane \ {"TRANSACTIONAL"} : queue'[m] = queue[m]
      /\ Waiting'
  BY <1>1, PopStep DEF Lane
<1>3. TypeOK'
  BY <1>1, <1>2 DEF FlowInv, TypeOK, controlVars, txnVars, batchVars, results
<1>4. \A x : Rejected(x)' <=> Rejected(x)
  BY <1>2, RejectedSame
<1>5. Holding'
  BY <1>1, <1>2, <1>4 DEF FlowInv, TypeOK, Holding, Lane
<1>6. Collected'
  BY <1>1, <1>2, <1>4 DEF FlowInv, TypeOK, Collected, Left, batchVars, Lane
<1>7. Gone'
  BY <1>1, <1>2 DEF FlowInv, TypeOK, Gone, Lane, NoEvent, Event
<1> QED
  BY <1>2, <1>3, <1>5, <1>6, <1>7 DEF FlowInv

\* An event the TransactionalProcessor goes on with.
LEMMA BeginFlow == ASSUME FlowInv, TransactionBegin PROVE FlowInv'
<1>1. PICK e \in Event : /\ Pops("TRANSACTIONAL", e) /\ Taken("TRANSACTIONAL", e)
                         /\ ~Rejected(e)
                         /\ dedup_table_' \subseteq dedup_table_ /\ attempt' = 1
                         /\ Continue("TRANSACTIONAL", "handle", e)
                         /\ UNCHANGED <<controlVars, batchVars, storage, results, history>>
  BY DEF TransactionBegin
<1>2. /\ event' = event /\ e \in queue["TRANSACTIONAL"] /\ event[e].lane = "TRANSACTIONAL"
      /\ pc["TRANSACTIONAL"] = "loop" /\ cur["TRANSACTIONAL"] = NoEvent
      /\ queue' \in [Lane -> SUBSET Event]
      /\ queue'["TRANSACTIONAL"] = queue["TRANSACTIONAL"] \ {e}
      /\ \A m \in Lane \ {"TRANSACTIONAL"} : queue'[m] = queue[m]
      /\ Waiting'
  BY <1>1, PopStep DEF Lane
<1>3. /\ pc' = [pc EXCEPT !["TRANSACTIONAL"] = "handle"]
      /\ cur' = [cur EXCEPT !["TRANSACTIONAL"] = e]
      /\ attempt' \in 0 .. max_retries_
  BY <1>1, BoundAssumption DEF Continue
<1>4. TypeOK'
  BY <1>1, <1>2, <1>3 DEF FlowInv, TypeOK, controlVars, batchVars, results, history
<1>5. \A x : Rejected(x)' <=> Rejected(x)
  BY <1>2, RejectedSame
<1>6. Holding'
  BY <1>1, <1>2, <1>3, <1>5 DEF FlowInv, TypeOK, Holding, Lane, NoEvent, Event
<1>7. Collected'
  BY <1>1, <1>2, <1>3, <1>5 DEF FlowInv, TypeOK, Collected, Left, batchVars, Lane
<1>8. Gone'
  BY <1>1, <1>2, <1>3 DEF FlowInv, TypeOK, Gone, Lane, history
<1> QED
  BY <1>2, <1>4, <1>6, <1>7, <1>8 DEF FlowInv

\* An attempt of the TransactionalProcessor.
LEMMA TransactionFlow == ASSUME FlowInv, TransactionHandle PROVE FlowInv'
<1> DEFINE e == cur["TRANSACTIONAL"]
<1>1. /\ pc["TRANSACTIONAL"] = "handle" /\ event' = event /\ queue' = queue /\ e \in Event
      /\ UNCHANGED <<controlVars, batchVars, storage, alerts, history>>
  BY DEF TransactionHandle, FlowInv, TypeOK, Holding, bus, NoEvent, Lane
<1>2. IdSpace \in Nat \ {0} /\ max_retries_ \in Nat \ {0}
  BY BoundAssumption
<1>3. \/ /\ dedup_table_' = dedup_table_ \cup {id(e)}
         /\ Count("TRANSACTIONAL", "processed")
         /\ Continue("TRANSACTIONAL", "store", e)
         /\ UNCHANGED <<attempt, dlq, told>>
      \/ /\ attempt < max_retries_ /\ attempt' = attempt + 1
         /\ UNCHANGED <<pc, cur, dlq, metric, told, dedup_table_>>
      \/ Drop("TRANSACTIONAL", e) /\ UNCHANGED <<attempt, dedup_table_>>
  BY DEF TransactionHandle, TransactionFailed, Retry
<1>4. /\ pc' \in [Lane -> {"loop", "handle", "store", "flush", "stopped"}]
      /\ cur' \in [Lane -> Event \cup {NoEvent}]
      /\ \A m \in Lane \ {"TRANSACTIONAL"} : pc'[m] = pc[m] /\ cur'[m] = cur[m]
      /\ cur'["TRANSACTIONAL"] \in {e, NoEvent}
      /\ Holding'
  <2>1. e # NoEvent /\ event[e].lane = "TRANSACTIONAL" /\ e \notin queue["TRANSACTIONAL"]
        /\ ~Rejected(e) /\ "TRANSACTIONAL" \in Lane
    BY <1>1 DEF FlowInv, Holding, Lane
  <2>2. \/ Continue("TRANSACTIONAL", "store", e)
        \/ Continue("TRANSACTIONAL", "handle", e)
        \/ Continue("TRANSACTIONAL", "loop", NoEvent)
    BY <1>1, <1>3 DEF Drop, Done, Continue, FlowInv, TypeOK
  <2> HIDE DEF e
  <2> QED
    BY <1>1, <2>1, <2>2, ThreadStep
<1>5. dedup_table_' \subseteq 0 .. IdSpace - 1
  <2>1. id(e) \in 0 .. IdSpace - 1
    BY <1>1, <1>2, EventType DEF id, FlowInv
  <2> QED
    BY <1>3, <2>1 DEF FlowInv, TypeOK
<1>6. attempt' \in 0 .. max_retries_
  BY <1>2, <1>3 DEF FlowInv, TypeOK
<1>7. /\ told' \in [Event -> Seq({"processed", "dropped"})]
      /\ metric' \in [Lane -> [Counter -> Nat]]
      /\ dlq' \in [stored_events_ : Seq(Event), total_dropped_ : Nat]
  <2> HIDE DEF e
  <2>1. <<e>> \in Seq(Event) /\ "TRANSACTIONAL" \in Lane
    BY <1>1 DEF Lane
  <2>2. CASE Drop("TRANSACTIONAL", e)
    BY <1>1, <2>1, <2>2, TellFacts, CountFacts, DlqFacts DEF Drop, FlowInv, Counter
  <2>3. CASE Count("TRANSACTIONAL", "processed") /\ UNCHANGED <<dlq, told>>
    BY <2>1, <2>3, CountFacts DEF FlowInv, TypeOK, Counter
  <2> QED
    BY <1>3, <2>2, <2>3 DEF FlowInv, TypeOK
<1>8. TypeOK'
  BY <1>1, <1>4, <1>5, <1>6, <1>7 DEF FlowInv, TypeOK, controlVars, batchVars, history
<1>9. Waiting' /\ Gone'
  <2>1. \A x \in discarded : x # NoEvent
    BY EventType DEF FlowInv, TypeOK
  <2> QED
    BY <1>1, <1>4, <2>1 DEF FlowInv, Waiting, Gone, history
<1>10. Collected'
  BY <1>1, <1>4, BucketsKept DEF batchVars, Lane
<1> QED
  BY <1>4, <1>8, <1>9, <1>10 DEF FlowInv

\* The front of a queue: nothing that stays is older than what is taken.
LEMMA OldestFirst ==
    ASSUME NEW S \in SUBSET Event, NEW n \in Nat, NEW x \in Oldest(S, n), NEW y \in S, y < x
    PROVE  y \in Oldest(S, n)
<1> DEFINE Before(z) == {f \in S : f < z}
<1>1. IsFiniteSet(S)
  BY EventsFinite
<1>2. Before(x) \subseteq S /\ Before(y) \subseteq Before(x)
  <2>1. S \subseteq Int /\ x \in S
    BY BoundAssumption DEF Event, Oldest
  <2>2. \A f \in S : f < y => f < x
    BY <2>1
  <2> QED
    BY <2>2
<1>3. /\ Cardinality(Before(y)) <= Cardinality(Before(x))
      /\ Cardinality(Before(y)) \in Nat /\ Cardinality(Before(x)) \in Nat
  BY <1>1, <1>2, FS_Subset, FS_CardinalityType
<1>4. Cardinality(Before(x)) < n
  BY DEF Oldest
<1> HIDE DEF Before
<1>5. Cardinality(Before(y)) < n
  BY <1>3, <1>4
<1> QED
  BY <1>5 DEF Oldest, Before

\* What dropBatchFromQueue() leaves of the queue, and what it puts into the DLQ.
LEMMA BatchDropStep ==
    ASSUME FlowInv, BatchDrop
    PROVE  \E e \in queue["BATCH"], batch \in SUBSET Event :
              /\ e \notin batch /\ batch \subseteq queue["BATCH"]
              /\ IsFiniteSet(batch)
              /\ queue' = [queue EXCEPT !["BATCH"] = @ \ (batch \cup {e})]
              /\ \A x \in batch \cup {e}, y \in queue'["BATCH"] : x < y
              /\ swept' = swept \cup batch
              /\ Count("BATCH", "dropped") /\ Tell(e, "dropped")
              /\ \E es \in Seq(Event) : Len(es) = Cardinality(batch) + 1 /\ dlq' = DlqPush(dlq, es)
              /\ UNCHANGED <<event, pc, cur, controlVars, txnVars, batchVars, storage, alerts,
                             discarded, breached>>
<1>1. PICK e \in Event :
        LET rest == queue["BATCH"] \ {e}
            batch == Oldest(rest, DROP_BATCH_SIZE)
        IN  /\ Pops("BATCH", e)
            /\ drop_events_
            /\ \E es \in InOrder(batch) : dlq' = DlqPush(dlq, <<e>> \o es)
            /\ queue' = [queue EXCEPT !["BATCH"] = rest \ batch]
            /\ swept' = swept \cup batch
            /\ Count("BATCH", "dropped")
            /\ Tell(e, "dropped")
            /\ UNCHANGED <<event, pc, cur, controlVars, txnVars, batchVars, storage, alerts,
                           discarded, breached>>
  BY DEF BatchDrop
<1> DEFINE rest == queue["BATCH"] \ {e}
           batch == Oldest(rest, DROP_BATCH_SIZE)
<1>2. /\ First(e, queue["BATCH"]) /\ queue["BATCH"] \subseteq Event /\ DROP_BATCH_SIZE \in Nat
      /\ "BATCH" \in Lane /\ DOMAIN queue = Lane
  BY <1>1, BoundAssumption DEF Pops, FlowInv, TypeOK, Lane
<1>3. /\ e \in queue["BATCH"] /\ batch \subseteq rest /\ rest \subseteq Event
      /\ e \notin batch /\ batch \in SUBSET Event
  BY <1>2 DEF Oldest, First
<1>4. IsFiniteSet(batch)
  BY <1>3, EventsFinite
<1>5. queue' = [queue EXCEPT !["BATCH"] = @ \ (batch \cup {e})]
  <2>1. rest \ batch = queue["BATCH"] \ (batch \cup {e})
    OBVIOUS
  <2> HIDE DEF batch, rest
  <2>2. queue' = [queue EXCEPT !["BATCH"] = rest \ batch]
    BY <1>1 DEF batch, rest
  <2> QED
    BY <2>1, <2>2
<1>6. ASSUME NEW x \in batch \cup {e}, NEW y \in queue'["BATCH"] PROVE x < y
  <2> HIDE DEF batch
  <2>1. y \in rest /\ y \notin batch /\ x \in Event /\ y \in Event
    BY <1>2, <1>3, <1>5
  <2>2. CASE x = e
    BY <1>2, <2>1, <2>2, BoundAssumption DEF First, Event
  <2>3. CASE x \in batch
    <3>1. ~(y < x)
      BY <1>2, <1>3, <2>1, <2>3, OldestFirst DEF batch
    <3> QED
      BY <2>1, <2>3, <3>1, BoundAssumption DEF Event
  <2> QED
    BY <2>2, <2>3
<1>7. \E es \in Seq(Event) : Len(es) = Cardinality(batch) + 1 /\ dlq' = DlqPush(dlq, es)
  <2> HIDE DEF batch, rest
  <2>1. PICK es \in InOrder(batch) : dlq' = DlqPush(dlq, <<e>> \o es)
    BY <1>1 DEF batch, rest
  <2>2. Cardinality(batch) \in Nat
    BY <1>4, FS_CardinalityType
  <2>3. es \in Seq(Event) /\ Len(es) = Cardinality(batch)
    <3>1. es \in [1 .. Cardinality(batch) -> Event]
      BY <1>3, <2>1 DEF InOrder
    <3> QED
      BY <2>2, <3>1
  <2>4. <<e>> \o es \in Seq(Event) /\ Len(<<e>> \o es) = Cardinality(batch) + 1
    BY <1>3, <2>2, <2>3
  <2> QED
    BY <2>1, <2>4
<1> HIDE DEF batch
<1>8. /\ swept' = swept \cup batch /\ Count("BATCH", "dropped") /\ Tell(e, "dropped")
      /\ UNCHANGED <<event, pc, cur, controlVars, txnVars, batchVars, storage, alerts,
                     discarded, breached>>
  BY <1>1 DEF batch
<1> QED
  BY <1>3, <1>4, <1>5, <1>6, <1>7, <1>8

\* The BatchProcessor gives up a part of its queue.
LEMMA BatchDropFlow == ASSUME FlowInv, BatchDrop PROVE FlowInv'
<1>1. PICK e \in queue["BATCH"], batch \in SUBSET Event :
         /\ e \notin batch /\ batch \subseteq queue["BATCH"]
         /\ queue' = [queue EXCEPT !["BATCH"] = @ \ (batch \cup {e})]
         /\ \A x \in batch \cup {e}, y \in queue'["BATCH"] : x < y
         /\ swept' = swept \cup batch
         /\ Count("BATCH", "dropped") /\ Tell(e, "dropped")
         /\ \E es \in Seq(Event) : dlq' = DlqPush(dlq, es)
         /\ UNCHANGED <<event, pc, cur, controlVars, txnVars, batchVars, storage, alerts,
                        discarded, breached>>
  BY BatchDropStep
<1>2. /\ "BATCH" \in Lane /\ e \in Event /\ queue \in [Lane -> SUBSET Event]
      /\ queue' \in [Lane -> SUBSET Event]
      /\ queue'["BATCH"] = queue["BATCH"] \ (batch \cup {e})
      /\ \A m \in Lane \ {"BATCH"} : queue'[m] = queue[m]
  BY <1>1 DEF FlowInv, TypeOK, Lane
<1>3. TypeOK'
  <2>1. TypeOK /\ "dropped" \in Counter
    BY DEF FlowInv, Counter
  <2>2. told' \in [Event -> Seq({"processed", "dropped"})]
    BY <1>1, <1>2, <2>1, TellFacts
  <2>3. metric' \in [Lane -> [Counter -> Nat]]
    BY <1>1, <1>2, <2>1, CountFacts
  <2>4. dlq' \in [stored_events_ : Seq(Event), total_dropped_ : Nat]
    <3>1. PICK es \in Seq(Event) : dlq' = DlqPush(dlq, es)
      BY <1>1
    <3> QED
      BY <2>1, <3>1, DlqFacts
  <2> QED
    BY <1>1, <1>2, <2>1, <2>2, <2>3, <2>4 DEF TypeOK, controlVars, txnVars, batchVars
<1>4. Waiting'
  <2> SUFFICES ASSUME NEW m \in Lane, NEW x \in queue'[m]
               PROVE  /\ event[x].lane = m
                      /\ \A f \in Event : event[f].lane = m /\ x < f => f \in queue'[m]
    BY <1>1 DEF Waiting
  <2>1. CASE m = "BATCH"
    <3>1. x \in queue["BATCH"] /\ x \in Event
      BY <1>2, <2>1
    <3>2. ASSUME NEW f \in Event, event[f].lane = "BATCH", x < f PROVE f \in queue'["BATCH"]
      <4>1. f \in queue["BATCH"]
        BY <1>2, <3>1, <3>2 DEF FlowInv, Waiting
      <4>2. f \notin batch \cup {e}
        <5>1. x \in Int /\ f \in Int
          BY <3>1, BoundAssumption DEF Event
        <5> QED
          BY <1>1, <2>1, <3>2, <5>1
      <4> QED
        BY <1>2, <4>1, <4>2
    <3> QED
      BY <1>2, <2>1, <3>1, <3>2 DEF FlowInv, Waiting
  <2>2. CASE m # "BATCH"
    BY <1>2, <2>2 DEF FlowInv, Waiting
  <2> QED
    BY <2>1, <2>2
<1>5. \A x : Rejected(x)' <=> Rejected(x)
  BY <1>1, RejectedSame
<1>6. \A m \in Lane : queue'[m] \subseteq queue[m]
  BY <1>2
<1>7. Holding'
  BY <1>1, <1>5, <1>6 DEF FlowInv, Holding
<1>8. Collected'
  BY <1>1, <1>2, BucketsKept DEF batchVars
<1>9. Gone'
  BY <1>1, <1>2, <1>6 DEF FlowInv, Gone, Waiting, Lane
<1> QED
  BY <1>3, <1>4, <1>7, <1>8, <1>9 DEF FlowInv

\* An event joins its bucket, which may now be flushed.
LEMMA CollectFlow == ASSUME FlowInv, BatchCollect PROVE FlowInv'
<1>1. PICK e \in Event :
         /\ Pops("BATCH", e) /\ Taken("BATCH", e) /\ ~Rejected(e)
         /\ buckets_' = [buckets_ EXCEPT ![event[e].topic] = @ \cup {e}]
         /\ Count("BATCH", "processed")
         /\ dated' = dated \cup {event[e].topic}
         /\ \/ UNCHANGED <<pc, cur, flushed>>
            \/ Continue("BATCH", "flush", e) /\ flushed' = 0
         /\ UNCHANGED <<controlVars, txnVars, stopping, storage, dlq, alerts, told, history>>
  BY DEF BatchCollect
<1>2. /\ event' = event /\ e \in queue["BATCH"] /\ event[e].lane = "BATCH"
      /\ pc["BATCH"] = "loop" /\ cur["BATCH"] = NoEvent
      /\ queue' \in [Lane -> SUBSET Event]
      /\ queue'["BATCH"] = queue["BATCH"] \ {e} /\ "BATCH" \in Lane
      /\ \A m \in Lane \ {"BATCH"} : queue'[m] = queue[m]
      /\ Waiting'
  BY <1>1, PopStep DEF Lane
<1>3. event[e].topic \in Topic /\ e # NoEvent /\ MaxEvents \in Nat
  BY EventType, BoundAssumption DEF FlowInv
<1>4. /\ pc' \in [Lane -> {"loop", "handle", "store", "flush", "stopped"}]
      /\ cur' \in [Lane -> Event \cup {NoEvent}]
      /\ \/ pc'["BATCH"] = "loop" /\ cur'["BATCH"] = NoEvent
         \/ pc'["BATCH"] = "flush" /\ cur'["BATCH"] = e
      /\ cur'["TRANSACTIONAL"] = cur["TRANSACTIONAL"]
      /\ Holding'
  <2>1. Continue("BATCH", "loop", NoEvent) \/ Continue("BATCH", "flush", e)
    BY <1>1, <1>2 DEF Continue, FlowInv, TypeOK
  <2>2. \A m \in Lane : queue'[m] \subseteq queue[m]
    BY <1>2
  <2>3. CASE Continue("BATCH", "loop", NoEvent)
    BY <1>2, <2>2, <2>3, ThreadStep DEF Lane
  <2>4. CASE Continue("BATCH", "flush", e)
    BY <1>1, <1>2, <1>3, <2>2, <2>4, ThreadStep DEF Lane
  <2> QED
    BY <2>1, <2>3, <2>4
<1>5. /\ buckets_' \in [Topic -> SUBSET Event]
      /\ buckets_'[event[e].topic] = buckets_[event[e].topic] \cup {e}
      /\ \A t \in Topic \ {event[e].topic} : buckets_'[t] = buckets_[t]
  BY <1>1, <1>3 DEF FlowInv, TypeOK
<1>6. TypeOK'
  <2>1. metric' \in [Lane -> [Counter -> Nat]]
    BY <1>1, <1>2, CountFacts DEF FlowInv, Counter
  <2>2. flushed' \in 0 .. MaxEvents
    BY <1>1, <1>3 DEF FlowInv, TypeOK
  <2> QED
    BY <1>1, <1>2, <1>3, <1>4, <1>5, <2>1, <2>2
       DEF FlowInv, TypeOK, controlVars, txnVars, history
<1>7. \A x : Rejected(x)' <=> Rejected(x)
  BY <1>2, RejectedSame
<1>8. Collected'
  <2>1. \A t \in Topic : \A x \in buckets_'[t] : /\ event[x].topic = t
                                                 /\ event[x].lane = "BATCH"
                                                 /\ x \notin queue'["BATCH"]
                                                 /\ ~Rejected(x)
    BY <1>1, <1>2, <1>5 DEF FlowInv, Collected
  <2> QED
    BY <1>2, <1>3, <1>4, <1>5, <1>7, <2>1 DEF Collected
<1>9. Gone'
  BY <1>1, <1>2, <1>4 DEF FlowInv, Gone, history, Lane
<1> QED
  BY <1>2, <1>4, <1>6, <1>8, <1>9 DEF FlowInv

\* The next event of a flush: it is in the bucket of the topic that is flushed.
LEMMA LeftFacts ==
    ASSUME FlowInv, pc["BATCH"] \in {"flush", "store"}
    PROVE  LET t == event[cur["BATCH"]].topic
           IN  /\ cur["BATCH"] \in Event /\ t \in Topic
               /\ \A e \in Left : /\ e \in Event /\ e \in buckets_[t] /\ e > flushed
                                  /\ event[e].topic = t /\ event[e].lane = "BATCH"
                                  /\ e \notin queue["BATCH"] /\ ~Rejected(e)
<1>1. cur["BATCH"] \in Event
  BY DEF FlowInv, TypeOK, Holding, Lane
<1>2. event[cur["BATCH"]].topic \in Topic
  BY <1>1, EventType DEF FlowInv
<1> QED
  BY <1>1, <1>2 DEF FlowInv, TypeOK, Collected, Left

\* One event of a flush.
LEMMA FlushFlow == ASSUME FlowInv, FlushHandle PROVE FlowInv'
<1>1. PICK e \in Event :
         /\ pc["BATCH"] = "flush" /\ First(e, Left)
         /\ \/ /\ dlq' = DlqPush(dlq, <<e>>) /\ Tell(e, "dropped") /\ flushed' = e
               /\ UNCHANGED <<pc, cur>>
            \/ Continue("BATCH", "store", e) /\ UNCHANGED <<dlq, told, flushed>>
         /\ UNCHANGED <<bus, controlVars, txnVars, buckets_, dated, stopping, storage, metric,
                        alerts, history>>
  BY DEF FlushHandle
<1>2. /\ event' = event /\ queue' = queue /\ "BATCH" \in Lane /\ e # NoEvent
      /\ event[cur["BATCH"]].topic \in Topic
      /\ e \in buckets_[event[e].topic] /\ event[e].topic = event[cur["BATCH"]].topic
      /\ event[e].lane = "BATCH" /\ e \notin queue["BATCH"] /\ ~Rejected(e)
  BY <1>1, LeftFacts, EventType DEF bus, First, Lane, FlowInv
<1>3. /\ pc' \in [Lane -> {"loop", "handle", "store", "flush", "stopped"}]
      /\ cur' \in [Lane -> Event \cup {NoEvent}]
      /\ \/ pc'["BATCH"] = "flush" /\ cur'["BATCH"] = cur["BATCH"]
         \/ pc'["BATCH"] = "store" /\ cur'["BATCH"] = e /\ flushed' = flushed
      /\ cur'["TRANSACTIONAL"] = cur["TRANSACTIONAL"]
      /\ Holding'
  <2>1. CASE UNCHANGED <<pc, cur>>
    <3>1. Holding'
      BY <1>2, <2>1, RejectedSame DEF FlowInv, Holding
    <3> QED
      BY <1>1, <2>1, <3>1 DEF FlowInv, TypeOK
  <2>2. CASE Continue("BATCH", "store", e) /\ flushed' = flushed
    BY <1>2, <2>2, ThreadStep DEF Lane
  <2> QED
    BY <1>1, <2>1, <2>2
<1>4. TypeOK'
  <2>1. /\ told' \in [Event -> Seq({"processed", "dropped"})]
        /\ dlq' \in [stored_events_ : Seq(Event), total_dropped_ : Nat]
    <3>1. <<e>> \in Seq(Event)
      OBVIOUS
    <3>2. CASE dlq' = DlqPush(dlq, <<e>>) /\ Tell(e, "dropped")
      BY <3>1, <3>2, TellFacts, DlqFacts DEF FlowInv
    <3>3. CASE UNCHANGED <<dlq, told>>
      BY <3>3 DEF FlowInv, TypeOK
    <3> QED
      BY <1>1, <3>2, <3>3
  <2>2. flushed' \in 0 .. MaxEvents
    BY <1>1, BoundAssumption DEF FlowInv, TypeOK, Event
  <2> QED
    BY <1>1, <1>2, <1>3, <2>1, <2>2 DEF FlowInv, TypeOK, controlVars, txnVars, history
<1>5. Collected'
  <2>1. \A x : Rejected(x)' <=> Rejected(x)
    BY <1>2, RejectedSame
  <2>2. buckets_' = buckets_
    BY <1>1
  <2>3. pc'["BATCH"] = "store" => First(cur["BATCH"], Left)'
    <3>1. ASSUME pc'["BATCH"] = "store" PROVE Left' = Left
      BY <1>2, <1>3, <2>2, <3>1 DEF Left
    <3> QED
      BY <1>1, <1>3, <3>1 DEF First
  <2> QED
    BY <1>2, <1>3, <2>1, <2>2, <2>3 DEF FlowInv, Collected, Holding
<1>6. Waiting' /\ Gone'
  BY <1>1, <1>2, <1>3 DEF FlowInv, Waiting, Gone, history
<1> QED
  BY <1>3, <1>4, <1>5, <1>6 DEF FlowInv

\* The end of a flush, and its bucket.
LEMMA FlushDoneFlow == ASSUME FlowInv, FlushDone PROVE FlowInv'
<1> DEFINE t0 == event[cur["BATCH"]].topic
<1>1. /\ pc["BATCH"] = "flush" /\ Continue("BATCH", "loop", NoEvent)
      /\ storage' \in Flushes(storage)
      /\ buckets_' = [buckets_ EXCEPT ![t0] = {}]
      /\ event' = event /\ queue' = queue /\ "BATCH" \in Lane
      /\ UNCHANGED <<controlVars, txnVars, dated, flushed, stopping, results, history>>
  BY DEF FlushDone, BucketCleared, Done, bus, Lane
<1>2. /\ pc' \in [Lane -> {"loop", "handle", "store", "flush", "stopped"}]
      /\ cur' \in [Lane -> Event \cup {NoEvent}]
      /\ pc'["BATCH"] = "loop" /\ cur'["BATCH"] = NoEvent
      /\ cur'["TRANSACTIONAL"] = cur["TRANSACTIONAL"]
      /\ Holding'
  BY <1>1, ThreadStep DEF Lane
<1>3. t0 \in Topic
  BY <1>1, LeftFacts
<1> HIDE DEF t0
<1>4. /\ buckets_' \in [Topic -> SUBSET Event]
      /\ \A t \in Topic : buckets_'[t] \subseteq buckets_[t]
  BY <1>1, <1>3 DEF FlowInv, TypeOK
<1>5. storage' \in [file : Seq(Event), buffered : Seq(Event), good : BOOLEAN,
                    eventCount : 0 .. FLUSH_BATCH_SIZE - 1]
  <2>1. storage \in StorageType /\ storage.eventCount < FLUSH_BATCH_SIZE
    BY BoundAssumption DEF FlowInv, TypeOK, StorageType
  <2>2. storage' \in StorageType /\ storage'.eventCount < FLUSH_BATCH_SIZE
    BY <1>1, <2>1, FlushesFacts
  <2> QED
    BY <2>2, BoundAssumption DEF StorageType
<1>6. TypeOK'
  BY <1>1, <1>2, <1>4, <1>5 DEF FlowInv, TypeOK, controlVars, txnVars, results, history
<1>7. Collected'
  BY <1>1, <1>2, <1>4, RejectedSame DEF FlowInv, Collected
<1>8. Waiting' /\ Gone'
  BY <1>1, <1>2 DEF FlowInv, Waiting, Gone, history
<1> QED
  BY <1>2, <1>6, <1>7, <1>8 DEF FlowInv

\* stop() begins the flush of a bucket.
LEMMA StopBucketFlow == ASSUME FlowInv, StopBucket PROVE FlowInv'
<1>1. PICK t \in Topic, e \in Event :
         /\ pc["BATCH"] = "loop" /\ First(e, buckets_[t]) /\ Continue("BATCH", "flush", e)
         /\ flushed' = 0 /\ stopping' = TRUE
         /\ UNCHANGED <<bus, controlVars, txnVars, buckets_, dated, storage, results, history>>
  BY DEF StopBucket
<1>2. /\ event' = event /\ queue' = queue /\ "BATCH" \in Lane /\ e # NoEvent
      /\ e \in buckets_[event[e].topic] /\ event[e].lane = "BATCH"
      /\ e \notin queue["BATCH"] /\ ~Rejected(e) /\ buckets_' = buckets_
  BY <1>1, EventType DEF bus, FlowInv, Collected, Lane, First
<1>3. /\ pc' \in [Lane -> {"loop", "handle", "store", "flush", "stopped"}]
      /\ cur' \in [Lane -> Event \cup {NoEvent}]
      /\ pc'["BATCH"] = "flush" /\ cur'["BATCH"] = e
      /\ cur'["TRANSACTIONAL"] = cur["TRANSACTIONAL"]
      /\ Holding'
  BY <1>1, <1>2, ThreadStep DEF Lane
<1>4. TypeOK'
  BY <1>1, <1>2, <1>3, BoundAssumption DEF FlowInv, TypeOK, controlVars, txnVars, results, history
<1>5. Collected'
  BY <1>2, <1>3, RejectedSame DEF FlowInv, Collected
<1>6. Waiting' /\ Gone'
  BY <1>1, <1>2, <1>3 DEF FlowInv, Waiting, Gone, history
<1> QED
  BY <1>3, <1>4, <1>5, <1>6 DEF FlowInv

\* What main() and the administrator change, and nothing at all.
Quiet == UNCHANGED <<bus, pc, cur, txnVars, batchVars, storage, results, history>>

\* Control, Stop and stuttering are quiet.
LEMMA QuietSteps ==
    ASSUME FlowInv, (Control \/ Stop) \/ UNCHANGED vars
    PROVE  Quiet /\ {isRunning_', terminated', paused_', drop_events_'} \subseteq BOOLEAN
<1>1. {isRunning_, terminated, paused_, drop_events_} \subseteq BOOLEAN
  BY DEF FlowInv, TypeOK
<1> QED
  BY <1>1 DEF Control, Stop, vars, Quiet, controlVars

\* Quiet steps leave the events where they are.
LEMMA QuietFlow == ASSUME FlowInv, (Control \/ Stop) \/ UNCHANGED vars PROVE FlowInv'
<1>1. Quiet /\ {isRunning_', terminated', paused_', drop_events_'} \subseteq BOOLEAN
  BY QuietSteps
<1>2. TypeOK'
  BY <1>1 DEF FlowInv, TypeOK, Quiet, bus, txnVars, batchVars, results, history
<1>3. event' = event /\ queue' = queue /\ pc' = pc /\ cur' = cur
  BY <1>1 DEF Quiet, bus
<1>4. Collected'
  BY <1>1, <1>3, BucketsKept DEF Quiet, batchVars
<1>5. Waiting' /\ Holding' /\ Gone'
  BY <1>1, <1>3, RejectedSame DEF FlowInv, Waiting, Holding, Gone, Quiet, history
<1> QED
  BY <1>2, <1>4, <1>5 DEF FlowInv

\* The steps of the program, one by one.
LEMMA Steps ==
    ASSUME [Next]_vars
    PROVE  \/ \E l \in Lane : Reject(l) \/ StoreEvent(l) \/ StopProcessor(l)
           \/ RealtimeHandle
           \/ TransactionPaused \/ TransactionDuplicate \/ TransactionBegin \/ TransactionHandle
           \/ BatchDrop \/ BatchCollect \/ FlushHandle \/ FlushDone \/ StopBucket
           \/ (Control \/ Stop) \/ UNCHANGED vars
  BY DEF Next, Step

\* Every step keeps FlowInv.
LEMMA NextFlow == FlowInv /\ [Next]_vars => FlowInv'
<1> SUFFICES ASSUME FlowInv, [Next]_vars PROVE FlowInv'
  OBVIOUS
<1> QED
  BY Steps, RejectFlow, StoreFlow, StopProcessorFlow, RealtimeFlow, PausedFlow, DuplicateFlow,
     BeginFlow, TransactionFlow, BatchDropFlow, CollectFlow, FlushFlow, FlushDoneFlow,
     StopBucketFlow, QuietFlow

\* Where events and threads can be, for any workload.
THEOREM FlowInvariant == Spec => []FlowInv
  BY InitFlow, NextFlow, PTL DEF Spec

\* checkRules() and handle() read no more of a body than it has: an event in the
\* hands of a thread or in a bucket has passed validate(), which asks for as many
\* bytes as the handler of its topic reads.
THEOREM BodiesReadInside == Spec => []ReadsInBody
<1>1. FlowInv => ReadsInBody
  <2> SUFFICES ASSUME FlowInv PROVE ReadsInBody
    OBVIOUS
  <2> DEFINE Safe(e) == event[e].size >= BytesRead(handler(e), event[e])
  <2>1. ASSUME NEW e \in Event, ~Rejected(e) PROVE Safe(e)
    <3>1. validate(handler(e), event[e]) /\ handler(e) \in HandlerName /\ event[e].size \in Nat
      BY <2>1, HandlerKnown, EventType DEF Rejected, handler, FlowInv
    <3> QED
      BY <3>1, ValidBodySuffices
  <2> HIDE DEF Safe
  <2>2. \A l \in Lane : pc[l] \in {"store", "handle"} => Safe(cur[l])
    <3>1. \A l \in Lane : cur[l] \in Event \cup {NoEvent}
      BY DEF FlowInv, TypeOK
    <3> QED
      BY <2>1, <3>1 DEF FlowInv, Holding
  <2>3. \A t \in Topic : \A e \in buckets_[t] : Safe(e)
    BY <2>1 DEF FlowInv, TypeOK, Collected
  <2> QED
    BY <2>2, <2>3 DEF ReadsInBody, Safe, Lane
<1> QED
  BY <1>1, FlowInvariant, PTL

----------------------------------------------------------------------------
(* The file *)

\* Only three kinds of step write, and no other ends a thread.
LEMMA StorageKept ==
    ASSUME FlowInv, [Next]_vars
    PROVE  \/ \E l \in Lane : StoreEvent(l) \/ StopProcessor(l)
           \/ FlushDone
           \/ /\ storage' = storage
              /\ (\A l \in Lane : pc'[l] = "stopped") => \A l \in Lane : pc[l] = "stopped"
<1> DEFINE Kept == /\ storage' = storage
                   /\ (\A l \in Lane : pc'[l] = "stopped") => \A l \in Lane : pc[l] = "stopped"
<1>1. DOMAIN pc = Lane /\ {"REALTIME", "TRANSACTIONAL", "BATCH"} \subseteq Lane
  BY DEF FlowInv, TypeOK, Lane
<1>2. ASSUME NEW l \in Lane, NEW where, NEW e, Continue(l, where, e), where # "stopped",
             storage' = storage
      PROVE  Kept
  BY <1>1, <1>2 DEF Continue
<1>3. ASSUME UNCHANGED <<storage, pc>> PROVE Kept
  BY <1>3
<1> HIDE DEF Kept
<1>4. ASSUME NEW l \in Lane, Reject(l) PROVE Kept
  BY <1>2, <1>4 DEF Reject, Drop, Done
<1>5. ASSUME RealtimeHandle PROVE Kept
  BY <1>1, <1>2, <1>5 DEF RealtimeHandle, Drop, Done
<1>6. ASSUME TransactionPaused \/ TransactionDuplicate \/ TransactionBegin PROVE Kept
  BY <1>1, <1>2, <1>3, <1>6
     DEF TransactionPaused, TransactionDuplicate, TransactionBegin, Drop, Done
<1>7. ASSUME TransactionHandle PROVE Kept
  BY <1>1, <1>2, <1>3, <1>7 DEF TransactionHandle, TransactionFailed, Drop, Done
<1>8. ASSUME BatchDrop \/ BatchCollect PROVE Kept
  BY <1>1, <1>2, <1>3, <1>8 DEF BatchDrop, BatchCollect
<1>9. ASSUME FlushHandle \/ StopBucket PROVE Kept
  BY <1>1, <1>2, <1>3, <1>9 DEF FlushHandle, StopBucket
<1>10. ASSUME (Control \/ Stop) \/ UNCHANGED vars PROVE Kept
  BY <1>3, <1>10, QuietSteps DEF Quiet
<1>11. Kept \/ FlushDone \/ \E l \in Lane : StoreEvent(l) \/ StopProcessor(l)
  BY <1>4, <1>5, <1>6, <1>7, <1>8, <1>9, <1>10, Steps
<1> QED
  BY <1>11 DEF Kept

\* Every step keeps Buffered.
LEMMA NextBuffered == FlowInv /\ Buffered /\ [Next]_vars => Buffered'
<1> SUFFICES ASSUME FlowInv, Buffered, [Next]_vars PROVE Buffered'
  OBVIOUS
<1>1. storage \in StorageType /\ storage.eventCount \in Nat /\ Len(storage.buffered) \in Nat
  BY LenProperties, BoundAssumption DEF FlowInv, TypeOK, StorageType
<1>2. ASSUME storage' \in Flushes(storage) PROVE Buffered'
  <2>1. storage'.good => storage'.buffered = << >> /\ storage'.eventCount = storage.eventCount
    BY <1>1, <1>2, FlushesFacts
  <2> QED
    BY <1>1, <2>1, EmptySeq DEF Buffered
<1>3. ASSUME NEW l \in Lane, StoreEvent(l) PROVE Buffered'
  <2>1. pc'[l] # "stopped" /\ cur[l] \in Event
    BY <1>3 DEF StoreEvent, Done, Continue, FlowInv, TypeOK, Holding, NoEvent
  <2>2. PICK s \in Stores(storage, cur[l]) : storage' = s.storage
    BY <1>3 DEF StoreEvent
  <2>3. storage'.good => Len(storage'.buffered) <= storage'.eventCount
    <3> SUFFICES ASSUME storage'.good PROVE Len(storage'.buffered) <= storage'.eventCount
      OBVIOUS
    <3>1. ~s.thrown /\ storage.good
      BY <1>1, <2>1, <2>2, StoresFacts
    <3>2. \/ /\ storage'.buffered = Append(storage.buffered, cur[l])
             /\ storage'.eventCount = storage.eventCount + 1
          \/ storage'.buffered = << >> /\ storage'.eventCount = 0
      BY <1>1, <2>1, <2>2, <3>1, StoresFacts
    <3>3. Len(Append(storage.buffered, cur[l])) = Len(storage.buffered) + 1
      BY <1>1, <2>1, AppendProperties DEF StorageType
    <3> QED
      BY <1>1, <3>1, <3>2, <3>3 DEF Buffered
  <2> QED
    BY <2>1, <2>3 DEF Buffered
<1>4. ASSUME NEW l \in Lane, StopProcessor(l) PROVE Buffered'
  BY <1>2, <1>4 DEF StopProcessor, StopFlush
<1>5. ASSUME FlushDone PROVE Buffered'
  BY <1>2, <1>5 DEF FlushDone
<1>6. CASE /\ storage' = storage
           /\ (\A l \in Lane : pc'[l] = "stopped") => \A l \in Lane : pc[l] = "stopped"
  BY <1>6 DEF Buffered
<1> QED
  BY <1>3, <1>4, <1>5, <1>6, StorageKept

\* A crash of the process loses fewer than FLUSH_BATCH_SIZE stored events, and its end
\* after a stop none, whichever processor stops last and whatever the others were
\* writing, as long as the file can be written.
THEOREM WritesSurvive == Spec => []SurvivesProcess
<1>1. Init => Buffered
  BY DEF Init, Buffered, Lane
<1>2. FlowInv /\ Buffered => SurvivesProcess
  <2> SUFFICES ASSUME FlowInv, Buffered PROVE SurvivesProcess
    OBVIOUS
  <2>1. /\ storage.eventCount \in 0 .. FLUSH_BATCH_SIZE - 1 /\ FLUSH_BATCH_SIZE \in Nat
        /\ Len(storage.buffered) \in Nat
    BY LenProperties, BoundAssumption DEF FlowInv, TypeOK
  <2>2. LossBounded
    BY <2>1 DEF Buffered, LossBounded
  <2>3. SettledAtStop
    BY DEF FlowInv, Collected, Buffered, SettledAtStop, Lane
  <2> QED
    BY <2>2, <2>3 DEF SurvivesProcess
<1> QED
  BY <1>1, <1>2, FlowInvariant, NextBuffered, PTL DEF Spec

----------------------------------------------------------------------------
(* The alarms *)

\* An event leaves the RealtimeProcessor's queue in two ways only.
LEMMA RealtimeKept ==
    ASSUME FlowInv, [Next]_vars
    PROVE  \/ Reject("REALTIME") \/ RealtimeHandle
           \/ UNCHANGED <<event, alerts>> /\ queue'["REALTIME"] = queue["REALTIME"]
<1> DEFINE Kept == UNCHANGED <<event, alerts>> /\ queue'["REALTIME"] = queue["REALTIME"]
<1>1. DOMAIN queue = Lane /\ {"REALTIME", "TRANSACTIONAL", "BATCH"} \subseteq Lane
  BY DEF FlowInv, TypeOK, Lane
<1>2. ASSUME NEW l \in Lane, l # "REALTIME", NEW e, Taken(l, e), alerts' = alerts PROVE Kept
  BY <1>1, <1>2 DEF Taken
<1>3. ASSUME UNCHANGED <<bus, alerts>> PROVE Kept
  BY <1>3 DEF bus
<1>4. ASSUME BatchDrop PROVE Kept
  BY <1>1, <1>4 DEF BatchDrop
<1> HIDE DEF Kept
<1>5. ASSUME NEW l \in Lane, l # "REALTIME", Reject(l) PROVE Kept
  BY <1>2, <1>5 DEF Reject
<1>6. ASSUME NEW l \in Lane, StoreEvent(l) \/ StopProcessor(l) PROVE Kept
  BY <1>3, <1>6 DEF StoreEvent, StopProcessor, results
<1>7. ASSUME TransactionPaused \/ TransactionDuplicate \/ TransactionBegin PROVE Kept
  BY <1>1, <1>2, <1>7
     DEF TransactionPaused, TransactionDuplicate, TransactionBegin, results
<1>8. ASSUME TransactionHandle PROVE Kept
  BY <1>3, <1>8 DEF TransactionHandle
<1>9. ASSUME BatchCollect PROVE Kept
  BY <1>1, <1>2, <1>9 DEF BatchCollect
<1>10. ASSUME FlushHandle \/ FlushDone \/ StopBucket PROVE Kept
  BY <1>3, <1>10 DEF FlushHandle, FlushDone, StopBucket, results
<1>11. ASSUME (Control \/ Stop) \/ UNCHANGED vars PROVE Kept
  BY <1>3, <1>11, QuietSteps DEF Quiet, results
<1>12. Kept \/ Reject("REALTIME") \/ RealtimeHandle
  BY <1>4, <1>5, <1>6, <1>7, <1>8, <1>9, <1>10, <1>11, Steps
<1> QED
  BY <1>12 DEF Kept

\* Every step keeps Raised.
LEMMA NextRaised == FlowInv /\ Raised /\ [Next]_vars => Raised'
<1> SUFFICES ASSUME FlowInv, Raised, [Next]_vars PROVE Raised'
  OBVIOUS
<1> DEFINE all(e) == handle(handler(e), event[e])
           Certain(e) == all(e) \subseteq [outcome : {"ALERT"}, level : AlertLevel]
           Levels(e) == {r.level : r \in all(e)}
<1>1. \A e \in Event : /\ event[e].lane = "REALTIME" /\ e \notin queue["REALTIME"]
                       /\ ~Rejected(e) /\ Certain(e)
                       => Levels(e) \subseteq alerts[e]
  BY DEF Raised
<1>2. ASSUME event' = event,
             \A e \in Event : /\ event[e].lane = "REALTIME" /\ e \notin queue'["REALTIME"]
                              /\ ~Rejected(e) /\ Certain(e)
                              => Levels(e) \subseteq alerts'[e]
      PROVE  Raised'
  <2>1. \A e : Rejected(e)' <=> Rejected(e)
    BY <1>2, RejectedSame
  <2>2. \A e : handler(e)' = handler(e)
    BY <1>2 DEF handler
  <2> QED
    BY <1>2, <2>1, <2>2 DEF Raised
<1> HIDE DEF all, Certain, Levels
<1>3. CASE UNCHANGED <<event, alerts>> /\ queue'["REALTIME"] = queue["REALTIME"]
  BY <1>1, <1>2, <1>3
<1>4. CASE Reject("REALTIME")
  <2>1. PICK e \in Event : /\ Pops("REALTIME", e) /\ Taken("REALTIME", e) /\ Rejected(e)
                           /\ alerts' = alerts
    BY <1>4 DEF Reject
  <2>2. event' = event /\ queue'["REALTIME"] = queue["REALTIME"] \ {e}
    BY <2>1, PopStep DEF Lane
  <2> QED
    BY <1>1, <1>2, <2>1, <2>2
<1>5. CASE RealtimeHandle
  <2>1. PICK e \in Event : \E result \in all(e), late \in BOOLEAN :
           /\ Pops("REALTIME", e) /\ Taken("REALTIME", e)
           /\ IF result.outcome \in {"FAIL", "DROP"} THEN alerts' = alerts
              ELSE alerts' = [alerts EXCEPT ![e] = @ \cup Emitted(e, result, late)]
    BY <1>5 DEF RealtimeHandle, all
  <2>2. PICK result \in all(e), late \in BOOLEAN :
           /\ Pops("REALTIME", e) /\ Taken("REALTIME", e)
           /\ IF result.outcome \in {"FAIL", "DROP"} THEN alerts' = alerts
              ELSE alerts' = [alerts EXCEPT ![e] = @ \cup Emitted(e, result, late)]
    BY <2>1
  <2>3. event' = event /\ queue'["REALTIME"] = queue["REALTIME"] \ {e}
    BY <2>2, PopStep DEF Lane
  <2>4. \A f \in Event : alerts[f] \subseteq alerts'[f]
    <3>1. \/ alerts' = alerts
          \/ alerts' = [alerts EXCEPT ![e] = @ \cup Emitted(e, result, late)]
      BY <2>2
    <3>2. DOMAIN alerts = Event
      BY DEF FlowInv, TypeOK
    <3> QED
      BY <3>1, <3>2
  <2>5. Certain(e) => Levels(e) \subseteq alerts'[e]
    <3> SUFFICES ASSUME Certain(e) PROVE Levels(e) \subseteq alerts'[e]
      OBVIOUS
    <3>1. \A r \in all(e) : r = result /\ r.outcome = "ALERT"
      BY HandlerKnown, AlertIsCertain DEF Certain, all, handler
    <3>2. Levels(e) \subseteq {result.level} /\ result.outcome = "ALERT"
      BY <3>1 DEF Levels
    <3>3. alerts'[e] = alerts[e] \cup Emitted(e, result, late)
      BY <2>2, <3>2 DEF FlowInv, TypeOK
    <3> QED
      BY <3>2, <3>3 DEF Emitted
  <2> QED
    BY <1>1, <1>2, <2>3, <2>4, <2>5
<1> QED
  BY <1>3, <1>4, <1>5, RealtimeKept

\* A reading that can only mean an alarm has raised it once the RealtimeProcessor
\* is done with it, also when the event is then late or cannot be stored: emitAlert()
\* comes before the clock and the file are looked at.
THEOREM AlarmsAlwaysRaised == Spec => []AlarmsRaised
<1>1. Init => Raised
  <2> SUFFICES ASSUME Init PROVE Raised
    OBVIOUS
  <2>1. \A e \in Event : event[e].lane = "REALTIME" => e \in queue["REALTIME"]
    BY DEF Init, Lane
  <2> QED
    BY <2>1 DEF Raised
<1>2. FlowInv /\ Raised => AlarmsRaised
  BY DEF Raised, AlarmsRaised, Finished, Lane
<1> QED
  BY <1>1, <1>2, FlowInvariant, NextRaised, PTL DEF Spec

----------------------------------------------------------------------------
(* How often a sequence has an element *)

\* A sequence has an element a finite number of times, an empty one never.
LEMMA TimesType ==
    ASSUME NEW S, NEW s \in Seq(S), NEW x
    PROVE  /\ IsFiniteSet({i \in DOMAIN s : s[i] = x}) /\ Times(s, x) \in Nat
           /\ Times(<< >>, x) = 0
<1>1. IsFiniteSet(DOMAIN s)
  BY LenProperties, FS_Interval
<1>2. IsFiniteSet({i \in DOMAIN s : s[i] = x})
  BY <1>1, FS_Subset
<1>3. {i \in DOMAIN << >> : << >>[i] = x} = {}
  OBVIOUS
<1> QED
  BY <1>2, <1>3, FS_CardinalityType, FS_EmptySet DEF Times

\* Append adds one.
LEMMA TimesAppend ==
    ASSUME NEW S, NEW s \in Seq(S), NEW a \in S, NEW x
    PROVE  Times(Append(s, a), x) = Times(s, x) + (IF a = x THEN 1 ELSE 0)
<1> DEFINE A == {i \in DOMAIN s : s[i] = x}
           n == Len(s) + 1
           B == {i \in DOMAIN Append(s, a) : Append(s, a)[i] = x}
<1>1. IsFiniteSet(A) /\ Cardinality(A) \in Nat /\ Len(s) \in Nat /\ DOMAIN s = 1 .. Len(s)
  BY TimesType, LenProperties, FS_CardinalityType
<1>2. /\ DOMAIN Append(s, a) = 1 .. n
      /\ \A i \in 1 .. Len(s) : Append(s, a)[i] = s[i]
      /\ Append(s, a)[n] = a
  BY AppendProperties, LenProperties
<1>3. n \notin A /\ 1 .. n = (1 .. Len(s)) \cup {n} /\ n \notin 1 .. Len(s)
  BY <1>1
<1>4. B = IF a = x THEN A \cup {n} ELSE A
  <2> HIDE DEF n
  <2> QED
    BY <1>1, <1>2, <1>3
<1>5. Cardinality(A \cup {n}) = Cardinality(A) + 1
  BY <1>1, <1>3, FS_AddElement
<1> HIDE DEF A, B, n
<1>6. Cardinality(B) = Cardinality(A) + (IF a = x THEN 1 ELSE 0)
  BY <1>1, <1>4, <1>5
<1> QED
  BY <1>6 DEF Times, A, B

\* A concatenation has an element as often as its two parts together.
LEMMA TimesConcat ==
    ASSUME NEW S, NEW s \in Seq(S), NEW t \in Seq(S), NEW x
    PROVE  Times(s \o t, x) = Times(s, x) + Times(t, x)
<1> DEFINE n == Len(s)
           A == {i \in DOMAIN s : s[i] = x}
           B == {i \in DOMAIN t : t[i] = x}
           C == {i \in DOMAIN (s \o t) : (s \o t)[i] = x}
           D == C \ A
           f == [i \in B |-> i + n]
<1>1. /\ IsFiniteSet(A) /\ IsFiniteSet(B) /\ n \in Nat /\ Len(t) \in Nat
      /\ Cardinality(A) \in Nat /\ Cardinality(B) \in Nat
      /\ DOMAIN s = 1 .. n /\ DOMAIN t = 1 .. Len(t)
  BY TimesType, LenProperties, FS_CardinalityType
<1>2. /\ DOMAIN (s \o t) = 1 .. n + Len(t)
      /\ \A i \in 1 .. n + Len(t) : (s \o t)[i] = IF i <= n THEN s[i] ELSE t[i - n]
  BY ConcatProperties, LenProperties
<1> HIDE DEF n
<1>3. A \subseteq C /\ C = A \cup D /\ A \cap D = {}
  BY <1>1, <1>2
<1>4. D = {i \in 1 .. n + Len(t) : i > n /\ t[i - n] = x}
  BY <1>1, <1>2
<1>5. f \in Bijection(B, D)
  <2>1. ASSUME NEW i \in B PROVE i + n \in D
    <3>1. t[i] = x /\ (i + n) - n = i /\ i + n \in 1 .. n + Len(t) /\ i + n > n
      BY <1>1
    <3>2. t[(i + n) - n] = x
      BY <3>1
    <3> HIDE DEF B, D
    <3> QED
      BY <1>4, <3>1, <3>2
  <2>2. f \in [B -> D]
    BY <2>1
  <2>3. \A a, b \in B : f[a] = f[b] => a = b
    BY <1>1
  <2>4. ASSUME NEW d \in D PROVE \E b \in B : f[b] = d
    <3>1. d - n \in B /\ (d - n) + n = d
      BY <1>1, <1>4
    <3> QED
      BY <3>1
  <2> HIDE DEF f, B, D
  <2> QED
    BY <2>2, <2>3, <2>4, Fun_IsBij
<1> HIDE DEF f, A, B, C, D
<1>6. IsFiniteSet(D) /\ Cardinality(D) = Cardinality(B)
  BY <1>1, <1>5, FS_Bijection DEF ExistsBijection
<1>7. Cardinality(C) = Cardinality(A) + Cardinality(D) - Cardinality(A \cap D)
  BY <1>1, <1>3, <1>6, FS_Union
<1>8. Cardinality(A \cap D) = 0
  BY <1>3, FS_EmptySet
<1>9. Cardinality(C) = Cardinality(A) + Cardinality(B)
  BY <1>1, <1>6, <1>7, <1>8
<1> QED
  BY <1>9 DEF Times, A, B, C

----------------------------------------------------------------------------
(* What the observers are told, and what the file has *)

\* Nothing is said, nobody's turn comes.
LEMMA ToldKept ==
    ASSUME ToldInv, event' = event, told' = told, buckets_' = buckets_, flushed' = flushed,
           cur'["BATCH"] = cur["BATCH"], storage'.good => storage.good,
           \A e \in Event : Pending(e)' <=> Pending(e)
    PROVE  Silent' /\ InBuckets' /\ Settled'
<1>1. \A e : Past(e)' <=> Past(e)
  BY DEF Past
<1>2. Silent'
  BY DEF ToldInv, Reports, Silent
<1>3. InBuckets'
  BY <1>1 DEF ToldInv, Reports, InBuckets
<1>4. Settled'
  BY DEF ToldInv, Reports, Settled
<1> QED
  BY <1>2, <1>3, <1>4

\* An event is settled by the report about it.
LEMMA ToldSettled ==
    ASSUME ToldInv, event' = event, buckets_' = buckets_, flushed' = flushed,
           cur'["BATCH"] = cur["BATCH"], storage'.good => storage.good,
           NEW e \in Event, NEW what \in {"processed", "dropped"}, Tell(e, what),
           Pending(e), ~Pending(e)', \A t \in Topic : e \notin buckets_[t],
           \A f \in Event \ {e} : Pending(f)' <=> Pending(f)
    PROVE  Silent' /\ InBuckets' /\ Settled'
<1>1. told[e] = << >> /\ Len(told[e]) = 0
  BY EmptySeq DEF ToldInv, Reports, Silent
<1>2. Len(told'[e]) = 1 /\ \A f \in Event : f # e => told'[f] = told[f]
  <2>1. Len(told'[e]) = Len(told[e]) + 1 /\ \A f \in Event \ {e} : told'[f] = told[f]
    BY TellFacts DEF ToldInv, FlowInv
  <2> QED
    BY <1>1, <2>1
<1>3. \A f : Past(f)' <=> Past(f)
  BY DEF Past
<1>4. Silent'
  <2> SUFFICES ASSUME NEW f \in Event
               PROVE  /\ Pending(f)' => told'[f] = << >>
                      /\ event[f].lane # "BATCH" => Len(told'[f]) <= 1
    BY DEF Silent
  <2>1. CASE f = e
    <3>1. ~Pending(f)' /\ Len(told'[f]) = 1
      BY <1>2, <2>1, Zenon
    <3> QED
      BY <3>1
  <2>2. CASE f # e
    BY <1>2, <2>2 DEF ToldInv, Reports, Silent
  <2> QED
    BY <2>1, <2>2
<1>5. InBuckets'
  <2> SUFFICES ASSUME storage.good, NEW t \in Topic, NEW f \in buckets_[t]
               PROVE  Len(told'[f]) = IF Past(f)' THEN 1 ELSE 0
    BY DEF InBuckets
  <2>1. f \in Event /\ f # e
    BY DEF ToldInv, FlowInv, TypeOK
  <2>2. Len(told[f]) = IF Past(f) THEN 1 ELSE 0
    BY DEF ToldInv, Reports, InBuckets
  <2> QED
    BY <1>2, <1>3, <2>1, <2>2
<1>6. Settled'
  BY <1>2 DEF ToldInv, Reports, Settled
<1> QED
  BY <1>4, <1>5, <1>6

\* The file has become unusable: what is lost stays unsaid.
LEMMA ToldLost ==
    ASSUME ToldInv, event' = event, told' = told, ~storage'.good,
           \A e \in Event : Pending(e)' => Pending(e)
    PROVE  Silent' /\ InBuckets' /\ Settled'
  BY DEF ToldInv, Reports, Silent, InBuckets, Settled

\* The flush is past one event more.
LEMMA ToldFlushed ==
    ASSUME ToldInv, pc["BATCH"] \in {"flush", "store"}, event' = event, buckets_' = buckets_,
           cur'["BATCH"] # NoEvent, storage'.good => storage.good,
           event[cur'["BATCH"]].topic = event[cur["BATCH"]].topic,
           NEW e \in Event, First(e, Left), flushed' = e,
           NEW what \in {"processed", "dropped"}, Tell(e, what),
           \A f \in Event : Pending(f)' <=> Pending(f)
    PROVE  /\ Silent' /\ InBuckets' /\ Settled'
           /\ storage.good => told[e] = << >>
<1>1. /\ e \in Left /\ event[cur["BATCH"]].topic \in Topic /\ cur["BATCH"] \in Event
      /\ e \in buckets_[event[cur["BATCH"]].topic] /\ e > flushed
      /\ event[e].topic = event[cur["BATCH"]].topic
      /\ event[e].lane = "BATCH" /\ e \notin queue["BATCH"]
  BY LeftFacts DEF First, ToldInv
<1>2. ~Pending(e)
  BY <1>1 DEF ToldInv, FlowInv, Gone, Reports, Apart, Pending
<1>3. /\ told' \in [Event -> Seq({"processed", "dropped"})]
      /\ Len(told'[e]) = Len(told[e]) + 1 /\ \A f \in Event \ {e} : told'[f] = told[f]
  BY TellFacts DEF ToldInv, FlowInv
<1>4. Silent'
  BY <1>1, <1>2, <1>3 DEF ToldInv, Reports, Silent
<1>5. flushed \in Int /\ Event \subseteq Int /\ cur["BATCH"] # NoEvent
  <2>1. flushed \in 0 .. MaxEvents /\ MaxEvents \in Nat
    BY BoundAssumption DEF ToldInv, FlowInv, TypeOK
  <2>2. cur["BATCH"] # NoEvent
    BY <1>1, EventType DEF ToldInv, FlowInv
  <2> QED
    BY <2>1, <2>2 DEF Event
<1>6. storage.good => Len(told[e]) = 0
  <2>1. ~Past(e)
    BY <1>1, <1>5 DEF Past
  <2> QED
    BY <1>1, <2>1 DEF ToldInv, Reports, InBuckets
<1>7. InBuckets'
  <2> SUFFICES ASSUME storage'.good, NEW t \in Topic, NEW f \in buckets_[t]
               PROVE  Len(told'[f]) = IF Past(f)' THEN 1 ELSE 0
    BY DEF InBuckets
  <2>1. f \in Event /\ event[f].topic = t /\ Len(told[f]) = IF Past(f) THEN 1 ELSE 0
    BY DEF ToldInv, FlowInv, TypeOK, Collected, Reports, InBuckets
  <2>2. CASE f = e
    <3>1. Past(f)'
      BY <1>1, <1>5, <2>2 DEF Past
    <3>2. Len(told'[e]) = 1
      BY <1>3, <1>6
    <3>3. Len(told'[f]) = 1
      BY <2>2, <3>2, Zenon
    <3> QED
      BY <3>1, <3>3
  <2>3. CASE f # e
    <3>1. Past(f)' <=> Past(f)
      <4>1. CASE t = event[cur["BATCH"]].topic
        <5>1. f <= e <=> f <= flushed
          <6>1. f > flushed => e <= f
            BY <2>1, <4>1 DEF First, Left
          <6> QED
            BY <1>1, <1>5, <2>1, <2>3, <6>1
        <5> QED
          BY <1>5, <2>1, <4>1, <5>1 DEF Past
      <4>2. CASE t # event[cur["BATCH"]].topic
        BY <2>1, <4>2 DEF Past
      <4> QED
        BY <4>1, <4>2
    <3> QED
      BY <1>3, <2>1, <2>3, <3>1
  <2> QED
    BY <2>2, <2>3
<1>8. Settled'
  BY <1>1, <1>3 DEF ToldInv, Reports, Settled
<1>9. storage.good => told[e] = << >>
  BY <1>6, EmptySeq DEF ToldInv, FlowInv, TypeOK
<1> QED
  BY <1>4, <1>7, <1>8, <1>9

\* A report of a drop has nothing to do with the file.
LEMMA WrittenKept ==
    ASSUME ToldInv, storage' = storage, told' = told \/ \E e \in Event : Tell(e, "dropped")
    PROVE  Written'
<1> SUFFICES ASSUME NEW f \in Event PROVE Times(told'[f], "processed") = Times(told[f], "processed")
  BY DEF ToldInv, Reports, Written, Stored
<1>1. CASE told' = told
  BY <1>1
<1>2. CASE \E e \in Event : Tell(e, "dropped")
  <2>1. PICK e \in Event : Tell(e, "dropped")
    BY <1>2
  <2>2. told'[e] = Append(told[e], "dropped") /\ (f # e => told'[f] = told[f])
    BY <2>1, TellFacts DEF ToldInv, FlowInv
  <2>3. told[f] \in Seq({"processed", "dropped"})
    BY DEF ToldInv, FlowInv, TypeOK
  <2>4. Times(Append(told[f], "dropped"), "processed")
          = Times(told[f], "processed") + (IF "dropped" = "processed" THEN 1 ELSE 0)
    BY <2>3, TimesAppend
  <2>5. Times(told[f], "processed") \in Nat
    BY <2>3, TimesType
  <2>6. Times(Append(told[f], "dropped"), "processed") = Times(told[f], "processed")
    BY <2>4, <2>5
  <2>7. CASE f = e
    BY <2>2, <2>6, <2>7, Zenon
  <2>8. CASE f # e
    BY <2>2, <2>8, Zenon
  <2> QED
    BY <2>7, <2>8
<1> QED
  BY <1>1, <1>2

\* A flush moves events from the buffer to the file.
LEMMA WrittenFlushed ==
    ASSUME ToldInv, storage' \in Flushes(storage), told' = told
    PROVE  Written' /\ (storage'.good => storage.good)
<1>1. storage \in StorageType /\ storage.file \in Seq(Event) /\ storage.buffered \in Seq(Event)
  BY BoundAssumption DEF ToldInv, FlowInv, TypeOK, StorageType
<1>2. /\ storage'.good => /\ storage.good /\ storage'.buffered = << >>
                          /\ storage'.file = storage.file \o storage.buffered
      /\ ~storage'.good => storage'.buffered = storage.buffered /\ storage'.file = storage.file
  BY <1>1, FlushesFacts
<1>3. ASSUME NEW f \in Event PROVE Stored(f)' = Stored(f)
  <2>1. /\ Times(storage.file, f) \in Nat /\ Times(storage.buffered, f) \in Nat
        /\ Times(<< >>, f) = 0
        /\ Times(storage.file \o storage.buffered, f)
             = Times(storage.file, f) + Times(storage.buffered, f)
    <3>1. Times(storage.file, f) \in Nat /\ Times(<< >>, f) = 0
      BY <1>1, TimesType
    <3>2. Times(storage.buffered, f) \in Nat
      BY <1>1, TimesType
    <3>3. Times(storage.file \o storage.buffered, f)
            = Times(storage.file, f) + Times(storage.buffered, f)
      BY <1>1, TimesConcat
    <3> QED
      BY <3>1, <3>2, <3>3
  <2>2. CASE storage'.good
    <3>1. Stored(f)' = Times(storage.file \o storage.buffered, f) + Times(<< >>, f)
      BY <1>2, <2>2 DEF Stored
    <3> QED
      BY <2>1, <3>1 DEF Stored
  <2>3. CASE ~storage'.good
    BY <1>2, <2>3 DEF Stored
  <2> QED
    BY <2>2, <2>3
<1> QED
  BY <1>2, <1>3 DEF ToldInv, Reports, Written

\* storeEvent() with the report after it.
LEMMA WrittenStored ==
    ASSUME ToldInv, NEW e \in Event, NEW s \in Stores(storage, e), storage' = s.storage,
           IF s.thrown THEN told' = told ELSE Tell(e, "processed") /\ told[e] = << >>
    PROVE  Written'
<1>1. /\ storage \in StorageType /\ storage.file \in Seq(Event) /\ storage.buffered \in Seq(Event)
      /\ told \in [Event -> Seq({"processed", "dropped"})]
  BY BoundAssumption DEF ToldInv, FlowInv, TypeOK, StorageType
<1>2. CASE s.thrown
  <2>1. storage'.buffered = storage.buffered /\ storage'.file = storage.file
    BY <1>1, <1>2, StoresFacts
  <2> QED
    BY <1>2, <2>1 DEF ToldInv, Reports, Written, Stored
<1>3. CASE ~s.thrown
  <2> SUFFICES ASSUME NEW f \in Event
               PROVE  Stored(f)' = Times(told'[f], "processed") /\ Stored(f)' <= 1
    BY DEF Written
  <2>1. \/ storage'.file = storage.file /\ storage'.buffered = Append(storage.buffered, e)
        \/ /\ storage'.file = storage.file \o Append(storage.buffered, e)
           /\ storage'.buffered = << >>
    BY <1>1, <1>3, StoresFacts
  <2> DEFINE more == Append(storage.buffered, e)
             one == IF e = f THEN 1 ELSE 0
  <2>2. /\ Times(storage.file, f) \in Nat /\ Times(storage.buffered, f) \in Nat
        /\ Times(<< >>, f) = 0 /\ more \in Seq(Event)
        /\ Times(more, f) = Times(storage.buffered, f) + one
    <3>1. /\ Times(storage.file, f) \in Nat /\ Times(storage.buffered, f) \in Nat
          /\ Times(<< >>, f) = 0
      BY <1>1, TimesType
    <3>2. Times(more, f) = Times(storage.buffered, f) + one
      BY <1>1, TimesAppend
    <3>3. more \in Seq(Event)
      BY <1>1, AppendProperties
    <3> QED
      BY <3>1, <3>2, <3>3
  <2> HIDE DEF more
  <2>3. Times(storage.file \o more, f) = Times(storage.file, f) + Times(more, f)
    BY <1>1, <2>2, TimesConcat
  <2>4. Stored(f)' = Stored(f) + one
    <3>1. CASE storage'.file = storage.file /\ storage'.buffered = more
      <4>1. Stored(f)' = Times(storage.file, f) + Times(more, f)
        BY <3>1 DEF Stored
      <4> QED
        BY <2>2, <4>1 DEF Stored
    <3>2. CASE storage'.file = storage.file \o more /\ storage'.buffered = << >>
      <4>1. Stored(f)' = Times(storage.file \o more, f) + Times(<< >>, f)
        BY <3>2 DEF Stored
      <4> QED
        BY <2>2, <2>3, <4>1 DEF Stored
    <3> QED
      BY <2>1, <3>1, <3>2 DEF more
  <2>5. Stored(f) = Times(told[f], "processed") /\ Stored(f) <= 1 /\ Stored(f) \in Nat
    BY <2>2 DEF ToldInv, Reports, Written, Stored
  <2>6. told'[e] = Append(told[e], "processed") /\ \A g \in Event \ {e} : told'[g] = told[g]
    BY <1>3, TellFacts DEF ToldInv, FlowInv
  <2>7. Times(told'[e], "processed") = 1 /\ Times(told[e], "processed") = 0
    <3>1. Times(told[e], "processed") = 0
      BY <1>1, <1>3, TimesType
    <3>2. told[e] \in Seq({"processed", "dropped"})
      BY <1>1
    <3>3. Times(Append(told[e], "processed"), "processed")
            = Times(told[e], "processed") + (IF "processed" = "processed" THEN 1 ELSE 0)
      BY <3>2, TimesAppend
    <3> QED
      BY <2>6, <3>1, <3>3
  <2>8. CASE f = e
    BY <2>4, <2>5, <2>7, <2>8
  <2>9. CASE f # e
    BY <2>4, <2>5, <2>6, <2>9
  <2> QED
    BY <2>8, <2>9
<1> QED
  BY <1>2, <1>3

\* A processed event stays processed, and its id may leave the table.
LEMMA RememberedKept ==
    ASSUME ToldInv, event' = event, storage'.good => storage.good,
           dedup_table_' \subseteq dedup_table_, discarded' = discarded,
           \A f \in Event : event[f].lane = "TRANSACTIONAL" /\ told[f] = <<"processed">>
                              => told'[f] = told[f],
           pc["TRANSACTIONAL"] = "store" => /\ pc'["TRANSACTIONAL"] = "store"
                                            /\ cur'["TRANSACTIONAL"] = cur["TRANSACTIONAL"]
    PROVE  Remembered'
<1> SUFFICES ASSUME storage'.good, Remembered PROVE Remembered'
  BY DEF ToldInv, Reports, Remembered
<1>1. \A f \in Event : event[f].lane = "TRANSACTIONAL" /\ Handled(f) => Handled(f)'
  BY DEF Handled
<1>2. \A i \in dedup_table_' : \E f \in Event : /\ event[f].lane = "TRANSACTIONAL"
                                                /\ id(f) = i /\ Handled(f)'
  BY <1>1 DEF Remembered
<1>3. ASSUME NEW e \in discarded
      PROVE  \E f \in 1 .. e - 1 : /\ event[f].lane = "TRANSACTIONAL" /\ id(f) = id(e)
                                   /\ told'[f] = <<"processed">>
  <2>1. PICK f \in 1 .. e - 1 : /\ event[f].lane = "TRANSACTIONAL" /\ id(f) = id(e)
                                /\ told[f] = <<"processed">>
    BY <1>3 DEF Remembered
  <2>2. f \in Event
    <3>1. e \in Event
      BY DEF ToldInv, FlowInv, TypeOK
    <3> QED
      BY <3>1, BoundAssumption DEF Event
  <2> QED
    BY <2>1, <2>2
<1> QED
  BY <1>2, <1>3 DEF Remembered, id

\* Who is told nothing cannot have been told before.
LEMMA ProcessedKept ==
    ASSUME ToldInv, NEW e \in Event, NEW what \in {"processed", "dropped"}, Tell(e, what),
           event[e].lane = "BATCH" \/ told[e] = << >>
    PROVE  \A f \in Event : event[f].lane = "TRANSACTIONAL" /\ told[f] = <<"processed">>
                              => told'[f] = told[f]
<1>1. \A f \in Event \ {e} : told'[f] = told[f]
  BY TellFacts DEF ToldInv, FlowInv
<1>2. <<"processed">> # << >>
  OBVIOUS
<1> QED
  BY <1>1, <1>2, Zenon

\* The event at the front of a queue is in no bucket and in no history.
LEMMA FrontFacts ==
    ASSUME ToldInv, NEW l \in Lane, NEW e \in queue[l]
    PROVE  /\ event[e].lane = l /\ Pending(e) /\ told[e] = << >> /\ e # NoEvent
           /\ e \notin discarded \cup swept \cup breached
           /\ \A t \in Topic : e \notin buckets_[t]
<1>1. event[e].lane = l /\ e \in Event
  BY DEF ToldInv, FlowInv, TypeOK, Waiting
<1>2. e \notin discarded \cup swept \cup breached /\ \A t \in Topic : e \notin buckets_[t]
  BY <1>1 DEF ToldInv, FlowInv, Gone, Collected
<1>3. Pending(e) /\ e # NoEvent
  BY <1>1, EventType DEF Pending, ToldInv, FlowInv
<1> QED
  BY <1>1, <1>2, <1>3 DEF ToldInv, Reports, Silent

\* process() takes an event off the bus and gives it up.
LEMMA DropTold ==
    ASSUME ToldInv, NEW l \in Lane, NEW e \in Event, Pops(l, e), Taken(l, e),
           Tell(e, "dropped"), cur'[l] = NoEvent, pc'[l] = "loop",
           \A m \in Lane \ {l} : cur'[m] = cur[m] /\ pc'[m] = pc[m],
           dedup_table_' \subseteq dedup_table_,
           UNCHANGED <<batchVars, storage, discarded, swept>>
    PROVE  Reports'
<1>1. /\ event' = event /\ e \in queue[l] /\ event[e].lane = l
      /\ pc[l] = "loop" /\ cur[l] = NoEvent
      /\ queue'[l] = queue[l] \ {e} /\ \A m \in Lane \ {l} : queue'[m] = queue[m]
  BY PopStep DEF ToldInv
<1>2. /\ Pending(e) /\ told[e] = << >> /\ e # NoEvent /\ e \notin discarded \cup swept
      /\ \A t \in Topic : e \notin buckets_[t]
  BY <1>1, FrontFacts
<1>3. \A m \in Lane : cur'[m] = cur[m] /\ pc'[m] = pc[m]
  BY <1>1
<1>4. ~Pending(e)'
  BY <1>1, <1>2, <1>3 DEF Pending
<1>5. ASSUME NEW f \in Event \ {e} PROVE Pending(f)' <=> Pending(f)
  <2>1. event[f].lane \in Lane
    BY EventType DEF ToldInv, FlowInv
  <2> QED
    BY <1>1, <1>3, <2>1 DEF Pending
<1>6. buckets_' = buckets_ /\ flushed' = flushed /\ cur'["BATCH"] = cur["BATCH"]
  BY <1>3 DEF batchVars, Lane
<1>7. Silent' /\ InBuckets' /\ Settled'
  BY <1>1, <1>2, <1>4, <1>5, <1>6, ToldSettled
<1>8. Apart' /\ Written'
  BY <1>6, WrittenKept DEF Apart, ToldInv, Reports
<1>9. Remembered'
  BY <1>1, <1>2, <1>3, ProcessedKept, RememberedKept DEF Lane
<1> QED
  BY <1>7, <1>8, <1>9 DEF Reports

\* The report of an event that fails validate() or checkRules().
LEMMA RejectTold == ASSUME ToldInv, NEW l \in Lane, Reject(l) PROVE Reports'
<1>1. PICK e \in Event : /\ Pops(l, e) /\ Drop(l, e) /\ Taken(l, e)
                         /\ dedup_table_' \subseteq dedup_table_
                         /\ UNCHANGED <<controlVars, attempt, batchVars, storage, alerts, history>>
  BY DEF Reject
<1>2. /\ cur'[l] = NoEvent /\ pc'[l] = "loop"
      /\ \A m \in Lane \ {l} : cur'[m] = cur[m] /\ pc'[m] = pc[m]
  BY <1>1 DEF Drop, Done, Continue, ToldInv, FlowInv, TypeOK
<1> QED
  BY <1>1, <1>2, DropTold DEF Drop, history

\* The report of an event that comes during a pause.
LEMMA PausedTold == ASSUME ToldInv, TransactionPaused PROVE Reports'
<1>1. PICK e \in Event : /\ Pops("TRANSACTIONAL", e) /\ Drop("TRANSACTIONAL", e)
                         /\ Taken("TRANSACTIONAL", e)
                         /\ UNCHANGED <<controlVars, txnVars, batchVars, storage, alerts, history>>
  BY DEF TransactionPaused
<1>2. /\ cur'["TRANSACTIONAL"] = NoEvent /\ pc'["TRANSACTIONAL"] = "loop"
      /\ \A m \in Lane \ {"TRANSACTIONAL"} : cur'[m] = cur[m] /\ pc'[m] = pc[m]
      /\ "TRANSACTIONAL" \in Lane
  BY <1>1 DEF Drop, Done, Continue, ToldInv, FlowInv, TypeOK, Lane
<1> QED
  BY <1>1, <1>2, DropTold DEF Drop, history, txnVars

\* Nothing is reported and the event is still pending, or none is touched.
LEMMA QuietReports ==
    ASSUME ToldInv, event' = event, told' = told, cur'["BATCH"] = cur["BATCH"],
           UNCHANGED <<buckets_, flushed, storage, swept>>,
           \A e \in Event : Pending(e)' <=> Pending(e), Remembered'
    PROVE  Reports'
<1>1. Silent' /\ InBuckets' /\ Settled'
  BY ToldKept
<1>2. Apart' /\ Written'
  BY WrittenKept DEF Apart, ToldInv, Reports
<1> QED
  BY <1>1, <1>2 DEF Reports

\* Quiet steps report nothing.
LEMMA QuietTold == ASSUME ToldInv, (Control \/ Stop) \/ UNCHANGED vars PROVE Reports'
<1>1. /\ event' = event /\ told' = told /\ cur' = cur /\ pc' = pc /\ queue' = queue
      /\ UNCHANGED <<buckets_, flushed, storage, swept, discarded, dedup_table_>>
  BY QuietSteps DEF Quiet, bus, txnVars, batchVars, results, history, ToldInv
<1>2. \A e \in Event : Pending(e)' <=> Pending(e)
  BY <1>1 DEF Pending
<1>3. Remembered'
  BY <1>1, RememberedKept
<1> QED
  BY <1>1, <1>2, <1>3, QuietReports

\* RealtimeProcessor::process() with an event that passed the checks.
LEMMA RealtimeTold == ASSUME ToldInv, RealtimeHandle PROVE Reports'
<1>1. PICK e \in Event :
        /\ Pops("REALTIME", e) /\ Taken("REALTIME", e)
        /\ \/ Tell(e, "dropped") /\ Continue("REALTIME", "loop", NoEvent)
           \/ told' = told /\ Continue("REALTIME", "store", e)
        /\ UNCHANGED <<controlVars, txnVars, batchVars, storage, discarded, swept>>
  BY DEF RealtimeHandle, Drop, Done
<1>2. /\ \A m \in Lane \ {"REALTIME"} : cur'[m] = cur[m] /\ pc'[m] = pc[m]
      /\ "REALTIME" \in Lane
      /\ \/ Tell(e, "dropped") /\ pc'["REALTIME"] = "loop" /\ cur'["REALTIME"] = NoEvent
         \/ told' = told /\ cur'["REALTIME"] = e
  BY <1>1 DEF Continue, ToldInv, FlowInv, TypeOK, Lane
<1>3. CASE Tell(e, "dropped") /\ pc'["REALTIME"] = "loop" /\ cur'["REALTIME"] = NoEvent
  BY <1>1, <1>2, <1>3, DropTold DEF txnVars
<1>4. CASE told' = told /\ cur'["REALTIME"] = e
  <2>1. /\ event' = event /\ e \in queue["REALTIME"] /\ event[e].lane = "REALTIME"
        /\ cur["REALTIME"] = NoEvent
        /\ queue'["REALTIME"] = queue["REALTIME"] \ {e}
        /\ \A m \in Lane \ {"REALTIME"} : queue'[m] = queue[m]
    BY <1>1, <1>2, PopStep DEF ToldInv
  <2>2. /\ cur'["BATCH"] = cur["BATCH"] /\ cur'["TRANSACTIONAL"] = cur["TRANSACTIONAL"]
        /\ pc'["TRANSACTIONAL"] = pc["TRANSACTIONAL"]
        /\ UNCHANGED <<buckets_, flushed, storage, swept, discarded, dedup_table_>>
    BY <1>1, <1>2 DEF Lane, batchVars, txnVars
  <2>3. ASSUME NEW f \in Event PROVE Pending(f)' <=> Pending(f)
    <3>1. event[f].lane \in Lane /\ f # NoEvent
      BY EventType DEF ToldInv, FlowInv
    <3>2. CASE f = e
      BY <1>4, <2>1, <3>2 DEF Pending
    <3>3. CASE f # e
      BY <1>2, <1>4, <2>1, <2>2, <3>1, <3>3 DEF Pending
    <3> QED
      BY <3>2, <3>3
  <2>4. Remembered'
    BY <1>4, <2>1, <2>2, RememberedKept
  <2> QED
    BY <1>4, <2>1, <2>2, <2>3, <2>4, QuietReports
<1> QED
  BY <1>2, <1>3, <1>4

\* An event found in the dedup table: the one whose id it is came before it.
LEMMA DuplicateTold == ASSUME ToldInv, TransactionDuplicate PROVE Reports'
<1>1. PICK e \in Event : /\ Pops("TRANSACTIONAL", e) /\ Taken("TRANSACTIONAL", e)
                         /\ id(e) \in dedup_table_
                         /\ discarded' = discarded \cup {e}
                         /\ UNCHANGED <<pc, cur, controlVars, txnVars, batchVars, storage, results,
                                        swept, breached>>
  BY DEF TransactionDuplicate
<1>2. /\ event' = event /\ e \in queue["TRANSACTIONAL"] /\ event[e].lane = "TRANSACTIONAL"
      /\ pc["TRANSACTIONAL"] = "loop" /\ "TRANSACTIONAL" \in Lane
      /\ queue'["TRANSACTIONAL"] = queue["TRANSACTIONAL"] \ {e}
      /\ \A m \in Lane \ {"TRANSACTIONAL"} : queue'[m] = queue[m]
  BY <1>1, PopStep DEF ToldInv, Lane
<1>3. /\ told' = told /\ cur' = cur /\ pc' = pc
      /\ UNCHANGED <<buckets_, flushed, storage, swept, dedup_table_>>
  BY <1>1 DEF batchVars, txnVars, results
<1>4. ASSUME NEW f \in Event PROVE Pending(f)' <=> Pending(f)
  <2>1. event[f].lane \in Lane
    BY EventType DEF ToldInv, FlowInv
  <2>2. CASE f = e
    BY <1>1, <1>2, <2>2 DEF Pending
  <2>3. CASE f # e
    BY <1>1, <1>2, <1>3, <2>1, <2>3 DEF Pending
  <2> QED
    BY <2>2, <2>3
<1>5. Remembered'
  <2> SUFFICES ASSUME storage'.good PROVE Remembered'
    BY DEF Remembered
  <2>1. Remembered /\ storage.good /\ \A f : Handled(f)' <=> Handled(f)
    BY <1>3 DEF ToldInv, Reports, Handled
  <2>2. PICK f \in Event : event[f].lane = "TRANSACTIONAL" /\ id(f) = id(e) /\ Handled(f)
    BY <1>1, <2>1 DEF Remembered
  <2>3. told[f] = <<"processed">>
    BY <1>2, <2>2 DEF Handled
  <2>4. f \notin queue["TRANSACTIONAL"]
    <3>1. <<"processed">> # << >>
      OBVIOUS
    <3> QED
      BY <1>2, <2>3, <3>1, FrontFacts
  <2>5. f \in 1 .. e - 1
    <3>1. f # e /\ ~(e < f)
      BY <1>2, <2>2, <2>4 DEF ToldInv, FlowInv, Waiting
    <3> QED
      BY <3>1, BoundAssumption DEF Event
  <2> QED
    BY <1>1, <1>2, <1>3, <2>1, <2>2, <2>3, <2>5 DEF Remembered, id
<1> QED
  BY <1>2, <1>3, <1>4, <1>5, QuietReports

\* Nothing is said of an event before handle() has returned.
LEMMA BeginTold == ASSUME ToldInv, TransactionBegin PROVE Reports'
<1>1. PICK e \in Event : /\ Pops("TRANSACTIONAL", e) /\ Taken("TRANSACTIONAL", e)
                         /\ dedup_table_' \subseteq dedup_table_
                         /\ Continue("TRANSACTIONAL", "handle", e)
                         /\ UNCHANGED <<controlVars, batchVars, storage, results, history>>
  BY DEF TransactionBegin
<1>2. /\ event' = event /\ e \in queue["TRANSACTIONAL"] /\ event[e].lane = "TRANSACTIONAL"
      /\ pc["TRANSACTIONAL"] = "loop" /\ cur["TRANSACTIONAL"] = NoEvent
      /\ queue'["TRANSACTIONAL"] = queue["TRANSACTIONAL"] \ {e}
      /\ \A m \in Lane \ {"TRANSACTIONAL"} : queue'[m] = queue[m]
      /\ "TRANSACTIONAL" \in Lane
  BY <1>1, PopStep DEF ToldInv, Lane
<1>3. /\ cur'["TRANSACTIONAL"] = e
      /\ \A m \in Lane \ {"TRANSACTIONAL"} : cur'[m] = cur[m]
      /\ told' = told /\ cur'["BATCH"] = cur["BATCH"]
      /\ UNCHANGED <<buckets_, flushed, storage, swept, discarded>>
  BY <1>1 DEF Continue, ToldInv, FlowInv, TypeOK, Lane, batchVars, results, history
<1>4. ASSUME NEW f \in Event PROVE Pending(f)' <=> Pending(f)
  <2>1. event[f].lane \in Lane /\ f # NoEvent
    BY EventType DEF ToldInv, FlowInv
  <2>2. CASE f = e
    BY <1>2, <1>3, <2>2 DEF Pending
  <2>3. CASE f # e
    BY <1>2, <1>3, <2>1, <2>3 DEF Pending
  <2> QED
    BY <2>2, <2>3
<1>5. Remembered'
  BY <1>1, <1>2, <1>3, RememberedKept
<1> QED
  BY <1>2, <1>3, <1>4, <1>5, QuietReports

\* An attempt of the TransactionalProcessor.
LEMMA TransactionTold == ASSUME ToldInv, TransactionHandle PROVE Reports'
<1>0. PICK e \in Event : pc["TRANSACTIONAL"] = "handle" /\ e = cur["TRANSACTIONAL"]
  BY DEF TransactionHandle, ToldInv, FlowInv, TypeOK, Holding, NoEvent, Lane
<1>1. /\ pc["TRANSACTIONAL"] = "handle" /\ event' = event /\ queue' = queue
      /\ e \in Event /\ e # NoEvent /\ event[e].lane = "TRANSACTIONAL"
      /\ e \notin queue["TRANSACTIONAL"] /\ "TRANSACTIONAL" \in Lane
      /\ UNCHANGED <<buckets_, flushed, storage, swept, discarded>>
  BY <1>0 DEF TransactionHandle, ToldInv, FlowInv, TypeOK, Holding, bus, NoEvent, Lane, batchVars,
         history
<1>2. \/ /\ dedup_table_' = dedup_table_ \cup {id(e)} /\ told' = told
         /\ Continue("TRANSACTIONAL", "store", e)
      \/ UNCHANGED <<pc, cur, told, dedup_table_>>
      \/ /\ Continue("TRANSACTIONAL", "loop", NoEvent) /\ Tell(e, "dropped")
         /\ dedup_table_' = dedup_table_
  BY <1>0 DEF TransactionHandle, TransactionFailed, Drop, Done
<1>3. e \notin discarded \cup swept /\ \A t \in Topic : e \notin buckets_[t]
  BY <1>0, <1>1 DEF ToldInv, FlowInv, Gone, Collected
<1>4. Pending(e) /\ told[e] = << >>
  BY <1>0, <1>1 DEF Pending, ToldInv, Reports, Silent
<1>5. ASSUME cur' = cur PROVE \A f \in Event : Pending(f)' <=> Pending(f)
  BY <1>1, <1>5 DEF Pending
<1>6. CASE UNCHANGED <<pc, cur, told, dedup_table_>>
  BY <1>1, <1>5, <1>6, RememberedKept, QuietReports
<1>7. CASE /\ dedup_table_' = dedup_table_ \cup {id(e)} /\ told' = told
           /\ Continue("TRANSACTIONAL", "store", e)
  <2>1. cur' = cur /\ pc'["TRANSACTIONAL"] = "store"
    BY <1>0, <1>1, <1>7 DEF Continue, ToldInv, FlowInv, TypeOK
  <2>2. Remembered'
    <3> SUFFICES ASSUME storage'.good PROVE Remembered'
      BY DEF Remembered
    <3>1. Remembered /\ storage.good /\ Handled(e)'
      BY <1>0, <1>1, <2>1 DEF ToldInv, Reports, Handled
    <3>2. \A f \in Event : Handled(f) => Handled(f)'
      BY <1>1, <1>7 DEF Handled
    <3>3. \A i \in dedup_table_' : \E f \in Event : /\ event[f].lane = "TRANSACTIONAL"
                                                    /\ id(f) = i /\ Handled(f)'
      BY <1>1, <1>7, <3>1, <3>2 DEF Remembered
    <3> QED
      BY <1>1, <1>7, <3>1, <3>3 DEF Remembered, id
  <2> QED
    BY <1>1, <1>5, <1>7, <2>1, <2>2, QuietReports
<1>8. CASE /\ Continue("TRANSACTIONAL", "loop", NoEvent) /\ Tell(e, "dropped")
           /\ dedup_table_' = dedup_table_
  <2>1. /\ cur'["TRANSACTIONAL"] = NoEvent
        /\ \A m \in Lane \ {"TRANSACTIONAL"} : cur'[m] = cur[m]
        /\ cur'["BATCH"] = cur["BATCH"]
    BY <1>8 DEF Continue, ToldInv, FlowInv, TypeOK, Lane
  <2>2. ~Pending(e)'
    BY <1>1, <1>3, <2>1 DEF Pending
  <2>3. ASSUME NEW f \in Event \ {e} PROVE Pending(f)' <=> Pending(f)
    <3>1. event[f].lane \in Lane /\ f # NoEvent
      BY EventType DEF ToldInv, FlowInv
    <3> QED
      BY <1>0, <1>1, <2>1, <3>1 DEF Pending
  <2>4. Silent' /\ InBuckets' /\ Settled'
    BY <1>1, <1>3, <1>4, <1>8, <2>1, <2>2, <2>3, ToldSettled
  <2>5. Apart' /\ Written'
    BY <1>1, <1>8, WrittenKept DEF Apart, ToldInv, Reports
  <2>6. Remembered'
    BY <1>1, <1>4, <1>8, ProcessedKept, RememberedKept
  <2> QED
    BY <2>4, <2>5, <2>6 DEF Reports
<1> QED
  BY <1>2, <1>6, <1>7, <1>8

\* A write, and what it means for the report.
LEMMA StoreTold == ASSUME ToldInv, NEW l \in Lane, StoreEvent(l) PROVE Reports'
<1>0. PICK e \in Event : pc[l] = "store" /\ e = cur[l]
  BY DEF StoreEvent, ToldInv, FlowInv, TypeOK, Holding, NoEvent
<1>1. /\ pc[l] = "store" /\ e = cur[l] /\ e \in Event /\ e # NoEvent
      /\ event' = event /\ queue' = queue
      /\ event[e].lane = l /\ e \notin queue[l]
      /\ UNCHANGED <<buckets_, swept, discarded, dedup_table_>>
  BY <1>0 DEF StoreEvent, ToldInv, FlowInv, TypeOK, Holding, bus, NoEvent, txnVars, history
<1>2. PICK s \in Stores(storage, e) :
         /\ storage' = s.storage
         /\ IF s.thrown THEN told' = told ELSE Tell(e, "processed")
         /\ IF l = "BATCH" /\ ~s.thrown
            THEN Continue(l, "flush", e) /\ flushed' = e
            ELSE Continue(l, "loop", NoEvent) /\ flushed' = flushed
  BY <1>0 DEF StoreEvent, Done
<1>3. storage \in StorageType
  BY BoundAssumption DEF ToldInv, FlowInv, TypeOK, StorageType
<1>4. storage'.good => storage.good /\ ~s.thrown
  BY <1>1, <1>2, <1>3, StoresFacts
<1>5. ~s.thrown => storage.good
  BY <1>1, <1>3, StoresFacts
<1>6. \A m \in Lane \ {l} : cur'[m] = cur[m] /\ pc'[m] = pc[m]
  BY <1>2 DEF Continue, ToldInv, FlowInv, TypeOK
<1>7. Apart'
  BY <1>1 DEF Apart, ToldInv, Reports
<1>8. ASSUME NEW f \in Event, l = "BATCH" \/ f # e PROVE Pending(f)' <=> Pending(f)
  <2>1. event[f].lane \in Lane /\ f # NoEvent
    BY EventType DEF ToldInv, FlowInv
  <2>2. cur'[l] \in {cur[l], NoEvent}
    BY <1>1, <1>2 DEF Continue, ToldInv, FlowInv, TypeOK
  <2>3. CASE event[f].lane # l
    BY <1>1, <1>6, <2>1, <2>3 DEF Pending
  <2>4. CASE event[f].lane = l
    BY <1>1, <1>8, <2>1, <2>2, <2>4 DEF Pending
  <2> QED
    BY <2>3, <2>4
<1>9. CASE s.thrown
  <2>1. /\ told' = told /\ ~storage'.good /\ flushed' = flushed /\ cur'[l] = NoEvent
    BY <1>2, <1>4, <1>9 DEF Continue, ToldInv, FlowInv, TypeOK
  <2>2. \A f \in Event : Pending(f)' => Pending(f)
    <3>1. l # "BATCH" => Pending(e)
      BY <1>1 DEF Pending
    <3> QED
      BY <1>8, <3>1
  <2>3. Written'
    BY <1>1, <1>2, <1>9, WrittenStored
  <2>4. Remembered'
    BY <2>1 DEF Remembered
  <2> QED
    BY <1>1, <1>7, <2>1, <2>2, <2>3, <2>4, ToldLost DEF Reports
<1>10. CASE ~s.thrown /\ l # "BATCH"
  <2>1. /\ Tell(e, "processed") /\ flushed' = flushed /\ cur'[l] = NoEvent
        /\ cur'["BATCH"] = cur["BATCH"]
    BY <1>2, <1>6, <1>10 DEF Continue, ToldInv, FlowInv, TypeOK, Lane
  <2>2. e \notin discarded \cup swept /\ \A t \in Topic : e \notin buckets_[t]
    BY <1>1, <1>10 DEF ToldInv, FlowInv, Gone, Collected
  <2>3. Pending(e) /\ told[e] = << >>
    BY <1>1, <1>10 DEF Pending, ToldInv, Reports, Silent
  <2>4. ~Pending(e)'
    BY <1>1, <1>10, <2>1, <2>2 DEF Pending
  <2>5. Silent' /\ InBuckets' /\ Settled'
    BY <1>1, <1>4, <1>8, <2>1, <2>2, <2>3, <2>4, ToldSettled
  <2>6. Written'
    BY <1>1, <1>2, <1>10, <2>1, <2>3, WrittenStored
  <2>7. Remembered'
    <3>1. CASE l = "TRANSACTIONAL"
      <4> SUFFICES ASSUME storage'.good PROVE Remembered'
        BY DEF Remembered
      <4>1. Remembered /\ storage.good
        BY <1>4 DEF ToldInv, Reports
      <4>2. told'[e] = <<"processed">>
        <5>1. told'[e] = Append(told[e], "processed")
          BY <1>1, <2>1, TellFacts DEF ToldInv, FlowInv
        <5> QED
          BY <2>3, <5>1
      <4>3. \A f \in Event : event[f].lane = "TRANSACTIONAL" /\ told[f] = <<"processed">>
                               => told'[f] = told[f]
        BY <1>1, <2>1, <2>3, ProcessedKept
      <4>4. \A f \in Event : event[f].lane = "TRANSACTIONAL" /\ Handled(f) => Handled(f)'
        BY <1>1, <3>1, <4>2, <4>3 DEF Handled
      <4>5. \A i \in dedup_table_' : \E f \in Event : /\ event[f].lane = "TRANSACTIONAL"
                                                      /\ id(f) = i /\ Handled(f)'
        BY <1>1, <4>1, <4>4 DEF Remembered
      <4>6. ASSUME NEW d \in discarded
            PROVE  \E f \in 1 .. d - 1 : /\ event[f].lane = "TRANSACTIONAL" /\ id(f) = id(d)
                                         /\ told'[f] = <<"processed">>
        <5>1. PICK f \in 1 .. d - 1 : /\ event[f].lane = "TRANSACTIONAL" /\ id(f) = id(d)
                                      /\ told[f] = <<"processed">>
          BY <4>1, <4>6 DEF Remembered
        <5>2. d \in Event
          BY DEF ToldInv, FlowInv, TypeOK
        <5>3. f \in Event
          BY <5>2, BoundAssumption DEF Event
        <5> QED
          BY <4>3, <5>1, <5>3
      <4> QED
        BY <1>1, <4>5, <4>6 DEF Remembered, id
    <3>2. CASE l # "TRANSACTIONAL"
      BY <1>1, <1>4, <1>6, <2>1, <2>3, <3>2, ProcessedKept, RememberedKept DEF Lane
    <3> QED
      BY <3>1, <3>2
  <2> QED
    BY <1>7, <2>5, <2>6, <2>7 DEF Reports
<1>11. CASE ~s.thrown /\ l = "BATCH"
  <2>1. /\ Tell(e, "processed") /\ flushed' = e /\ cur'["BATCH"] = e
    BY <1>2, <1>11 DEF Continue, ToldInv, FlowInv, TypeOK
  <2>2. First(e, Left)
    BY <1>1, <1>11 DEF ToldInv, FlowInv, Collected
  <2>3. Silent' /\ InBuckets' /\ Settled' /\ told[e] = << >>
    BY <1>1, <1>4, <1>5, <1>8, <1>11, <2>1, <2>2, ToldFlushed
  <2>4. Written'
    BY <1>1, <1>2, <1>11, <2>1, <2>3, WrittenStored
  <2>5. Remembered'
    BY <1>1, <1>4, <1>6, <1>11, <2>1, <2>3, ProcessedKept, RememberedKept DEF Lane
  <2> QED
    BY <1>7, <2>3, <2>4, <2>5 DEF Reports
<1> QED
  BY <1>9, <1>10, <1>11

\* stop() writes what is buffered and reports nothing.
LEMMA StopProcessorTold == ASSUME ToldInv, NEW l \in Lane, StopProcessor(l) PROVE Reports'
<1>1. /\ pc[l] = "loop" /\ pc' = [pc EXCEPT ![l] = "stopped"]
      /\ event' = event /\ queue' = queue /\ cur' = cur /\ told' = told
      /\ storage' \in Flushes(storage)
      /\ UNCHANGED <<buckets_, flushed, swept, discarded, dedup_table_>>
  BY DEF StopProcessor, StopFlush, bus, txnVars, batchVars, results, history
<1>2. \A f \in Event : Pending(f)' <=> Pending(f)
  BY <1>1 DEF Pending
<1>3. Written' /\ (storage'.good => storage.good)
  BY <1>1, WrittenFlushed
<1>4. Silent' /\ InBuckets' /\ Settled' /\ Apart'
  BY <1>1, <1>2, <1>3, ToldKept DEF Apart, ToldInv, Reports
<1>5. Remembered'
  <2>1. pc["TRANSACTIONAL"] = "store" => pc'["TRANSACTIONAL"] = "store"
    BY <1>1 DEF ToldInv, FlowInv, TypeOK, Lane
  <2> QED
    BY <1>1, <1>3, <2>1, RememberedKept
<1> QED
  BY <1>3, <1>4, <1>5 DEF Reports

\* dropBatchFromQueue() says nothing about the events it takes, and never will.
LEMMA BatchDropTold == ASSUME ToldInv, BatchDrop PROVE Reports'
<1>1. PICK e \in queue["BATCH"], batch \in SUBSET Event :
         /\ e \notin batch /\ batch \subseteq queue["BATCH"]
         /\ queue' = [queue EXCEPT !["BATCH"] = @ \ (batch \cup {e})]
         /\ swept' = swept \cup batch
         /\ Tell(e, "dropped")
         /\ UNCHANGED <<event, pc, cur, controlVars, txnVars, batchVars, storage, alerts,
                        discarded, breached>>
  BY BatchDropStep DEF ToldInv
<1>2. /\ "BATCH" \in Lane /\ e \in Event
      /\ queue'["BATCH"] = queue["BATCH"] \ (batch \cup {e})
      /\ \A m \in Lane \ {"BATCH"} : queue'[m] = queue[m]
      /\ UNCHANGED <<buckets_, flushed, dedup_table_>>
  BY <1>1 DEF ToldInv, FlowInv, TypeOK, Lane, batchVars, txnVars
<1>3. /\ event[e].lane = "BATCH" /\ Pending(e) /\ told[e] = << >>
      /\ e \notin discarded \cup swept
      /\ \A t \in Topic : e \notin buckets_[t]
  BY <1>1, <1>2, FrontFacts
<1>4. ~Pending(e)'
  BY <1>1, <1>2, <1>3 DEF Pending
<1>5. \A x \in batch : event[x].lane = "BATCH"
  BY <1>1, <1>2 DEF ToldInv, FlowInv, Waiting
<1>6. ASSUME NEW f \in Event \ {e} PROVE Pending(f)' <=> Pending(f)
  <2>1. event[f].lane \in Lane
    BY EventType DEF ToldInv, FlowInv
  <2>2. CASE f \in batch
    BY <1>1, <1>2, <1>5, <2>2 DEF Pending
  <2>3. CASE f \notin batch
    BY <1>1, <1>2, <2>1, <2>3 DEF Pending
  <2> QED
    BY <2>2, <2>3
<1>7. Silent' /\ InBuckets' /\ Settled'
  BY <1>1, <1>2, <1>3, <1>4, <1>6, ToldSettled
<1>8. Apart'
  BY <1>1, <1>2 DEF Apart, ToldInv, Reports, FlowInv, Collected
<1>9. Written'
  BY <1>1, <1>2, WrittenKept
<1>10. Remembered'
  BY <1>1, <1>2, <1>3, ProcessedKept, RememberedKept
<1> QED
  BY <1>7, <1>8, <1>9, <1>10 DEF Reports

\* An event in a bucket has yet to be reported.
LEMMA CollectTold == ASSUME ToldInv, BatchCollect PROVE Reports'
<1>1. PICK e \in Event :
         /\ Pops("BATCH", e) /\ Taken("BATCH", e)
         /\ buckets_' = [buckets_ EXCEPT ![event[e].topic] = @ \cup {e}]
         /\ \/ UNCHANGED <<pc, cur, flushed>>
            \/ Continue("BATCH", "flush", e) /\ flushed' = 0
         /\ UNCHANGED <<controlVars, txnVars, stopping, storage, dlq, alerts, told, history>>
  BY DEF BatchCollect
<1>2. /\ event' = event /\ e \in queue["BATCH"] /\ event[e].lane = "BATCH"
      /\ cur["BATCH"] = NoEvent /\ "BATCH" \in Lane
      /\ queue'["BATCH"] = queue["BATCH"] \ {e}
      /\ \A m \in Lane \ {"BATCH"} : queue'[m] = queue[m]
  BY <1>1, PopStep DEF ToldInv, Lane
<1>3. /\ told[e] = << >> /\ e \notin discarded \cup swept /\ Pending(e)
      /\ \A t \in Topic : e \notin buckets_[t]
  BY <1>2, FrontFacts
<1>4. /\ \A m \in Lane \ {"BATCH"} : cur'[m] = cur[m] /\ pc'[m] = pc[m]
      /\ cur'["BATCH"] = NoEvent \/ flushed' = 0
      /\ UNCHANGED <<swept, discarded, dedup_table_>>
  BY <1>1, <1>2 DEF Continue, ToldInv, FlowInv, TypeOK, history, txnVars
<1>5. event[e].topic \in Topic
  BY EventType DEF ToldInv, FlowInv
<1>6. /\ buckets_'[event[e].topic] = buckets_[event[e].topic] \cup {e}
      /\ \A t \in Topic \ {event[e].topic} : buckets_'[t] = buckets_[t]
  BY <1>1, <1>5 DEF ToldInv, FlowInv, TypeOK
<1>7. \A f \in Event : ~Past(f) /\ ~Past(f)'
  <2>1. \A f \in Event : ~(f <= 0)
    BY BoundAssumption DEF Event
  <2> QED
    BY <1>2, <1>4, <2>1 DEF Past
<1>8. ~Pending(e)'
  BY <1>2, <1>3, <1>4 DEF Pending
<1>9. ASSUME NEW f \in Event \ {e} PROVE Pending(f)' <=> Pending(f)
  <2>1. event[f].lane \in Lane
    BY EventType DEF ToldInv, FlowInv
  <2> QED
    BY <1>2, <1>4, <2>1 DEF Pending
<1>10. Silent'
  BY <1>1, <1>2, <1>8, <1>9 DEF ToldInv, Reports, Silent
<1>11. InBuckets'
  <2> SUFFICES ASSUME storage.good, NEW t \in Topic, NEW f \in buckets_'[t]
               PROVE  Len(told[f]) = IF Past(f)' THEN 1 ELSE 0
    BY <1>1 DEF InBuckets
  <2>1. f = e \/ f \in buckets_[t]
    BY <1>6
  <2>2. f \in Event
    BY <2>1 DEF ToldInv, FlowInv, TypeOK
  <2>3. Len(told[f]) = 0
    <3>1. CASE f = e
      <4>1. told[f] = << >>
        BY <1>3, <3>1
      <4> QED
        BY <4>1, EmptySeq
    <3>2. CASE f \in buckets_[t]
      BY <1>7, <2>2, <3>2 DEF ToldInv, Reports, InBuckets
    <3> QED
      BY <2>1, <3>1, <3>2
  <2> QED
    BY <1>7, <2>2, <2>3
<1>12. Settled'
  <2> SUFFICES ASSUME storage.good, NEW f \in Event, ~Pending(f)',
                      \A t \in Topic : f \notin buckets_'[t]
               PROVE  Len(told[f]) = 1
    BY <1>1 DEF Settled
  <2>1. f # e /\ \A t \in Topic : f \notin buckets_[t]
    BY <1>5, <1>6
  <2> QED
    BY <1>9, <2>1 DEF ToldInv, Reports, Settled
<1>13. Apart'
  BY <1>3, <1>4, <1>6 DEF Apart, ToldInv, Reports
<1>14. Written'
  BY <1>1, WrittenKept
<1>15. Remembered'
  BY <1>1, <1>2, <1>4, RememberedKept DEF Lane
<1> QED
  BY <1>10, <1>11, <1>12, <1>13, <1>14, <1>15 DEF Reports

\* One event of a flush, reported as dropped or about to be stored.
LEMMA FlushTold == ASSUME ToldInv, FlushHandle PROVE Reports'
<1>1. PICK e \in Event :
         /\ pc["BATCH"] = "flush" /\ First(e, Left)
         /\ \/ Tell(e, "dropped") /\ flushed' = e /\ UNCHANGED <<pc, cur>>
            \/ Continue("BATCH", "store", e) /\ told' = told /\ flushed' = flushed
         /\ event' = event /\ queue' = queue
         /\ UNCHANGED <<buckets_, storage, swept, discarded, dedup_table_>>
  BY DEF FlushHandle, bus, txnVars, history
<1>2. /\ cur["BATCH"] \in Event /\ cur["BATCH"] # NoEvent
      /\ event[e].topic = event[cur["BATCH"]].topic /\ event[e].lane = "BATCH" /\ e # NoEvent
  BY <1>1, LeftFacts, EventType DEF First, ToldInv, FlowInv
<1>3. \A m \in Lane \ {"BATCH"} : cur'[m] = cur[m] /\ pc'[m] = pc[m]
  BY <1>1 DEF Continue, ToldInv, FlowInv, TypeOK
<1>4. ASSUME NEW f \in Event PROVE Pending(f)' <=> Pending(f)
  <2>1. event[f].lane \in Lane
    BY EventType DEF ToldInv, FlowInv
  <2> QED
    BY <1>1, <1>3, <2>1 DEF Pending
<1>5. Apart'
  BY <1>1 DEF Apart, ToldInv, Reports
<1>6. Written'
  BY <1>1, WrittenKept
<1>7. CASE Tell(e, "dropped") /\ flushed' = e /\ UNCHANGED <<pc, cur>>
  <2>1. Silent' /\ InBuckets' /\ Settled'
    BY <1>1, <1>2, <1>4, <1>7, ToldFlushed
  <2>2. Remembered'
    BY <1>1, <1>2, <1>7, ProcessedKept, RememberedKept
  <2> QED
    BY <1>5, <1>6, <2>1, <2>2 DEF Reports
<1>8. CASE Continue("BATCH", "store", e) /\ told' = told /\ flushed' = flushed
  <2>1. cur'["BATCH"] = e
    BY <1>8 DEF Continue, ToldInv, FlowInv, TypeOK, Lane
  <2>2. \A f : Past(f)' <=> Past(f)
    BY <1>1, <1>2, <1>8, <2>1 DEF Past
  <2>3. Silent'
    BY <1>1, <1>4, <1>8 DEF ToldInv, Reports, Silent
  <2>4. InBuckets'
    BY <1>1, <1>8, <2>2 DEF ToldInv, Reports, InBuckets
  <2>5. Settled'
    BY <1>1, <1>4, <1>8 DEF ToldInv, Reports, Settled
  <2>6. Remembered'
    BY <1>1, <1>3, <1>8, RememberedKept DEF Lane
  <2> QED
    BY <1>5, <1>6, <2>3, <2>4, <2>5, <2>6 DEF Reports
<1> QED
  BY <1>1, <1>7, <1>8

\* A bucket is cleared when the flush has reported all of it.
LEMMA FlushDoneTold == ASSUME ToldInv, FlushDone PROVE Reports'
<1> DEFINE t0 == event[cur["BATCH"]].topic
<1>1. /\ pc["BATCH"] = "flush" /\ Continue("BATCH", "loop", NoEvent) /\ Left = {}
      /\ storage' \in Flushes(storage)
      /\ buckets_' = [buckets_ EXCEPT ![t0] = {}]
      /\ event' = event /\ queue' = queue /\ told' = told
      /\ UNCHANGED <<swept, discarded, dedup_table_>>
  BY DEF FlushDone, BucketCleared, Done, bus, results, txnVars, history
<1>2. /\ cur'["BATCH"] = NoEvent /\ \A m \in Lane \ {"BATCH"} : cur'[m] = cur[m] /\ pc'[m] = pc[m]
  BY <1>1 DEF Continue, ToldInv, FlowInv, TypeOK, Lane
<1>3. t0 \in Topic /\ cur["BATCH"] \in Event /\ cur["BATCH"] # NoEvent
  BY <1>1, LeftFacts, EventType DEF ToldInv, FlowInv
<1>4. /\ buckets_'[t0] = {} /\ \A t \in Topic \ {t0} : buckets_'[t] = buckets_[t]
  BY <1>1, <1>3 DEF ToldInv, FlowInv, TypeOK
<1>5. ASSUME NEW f \in Event PROVE Pending(f)' <=> Pending(f)
  <2>1. event[f].lane \in Lane
    BY EventType DEF ToldInv, FlowInv
  <2> QED
    BY <1>1, <1>2, <2>1 DEF Pending
<1>6. Written' /\ (storage'.good => storage.good)
  BY <1>1, WrittenFlushed
<1>7. Silent'
  BY <1>1, <1>5 DEF ToldInv, Reports, Silent
<1>8. Apart'
  BY <1>1, <1>4 DEF Apart, ToldInv, Reports
<1>9. InBuckets'
  <2> SUFFICES ASSUME storage.good, NEW t \in Topic, NEW f \in buckets_'[t]
               PROVE  Len(told[f]) = IF Past(f)' THEN 1 ELSE 0
    BY <1>1, <1>6 DEF InBuckets
  <2>1. t # t0 /\ f \in buckets_[t] /\ event[f].topic = t
    BY <1>4 DEF ToldInv, FlowInv, Collected
  <2>2. ~Past(f) /\ ~Past(f)'
    BY <1>2, <2>1 DEF Past
  <2> QED
    BY <2>1, <2>2 DEF ToldInv, Reports, InBuckets
<1>10. Settled'
  <2> SUFFICES ASSUME storage.good, NEW f \in Event, ~Pending(f),
                      \A t \in Topic : f \notin buckets_'[t]
               PROVE  Len(told[f]) = 1
    BY <1>1, <1>5, <1>6 DEF Settled
  <2>1. CASE f \in buckets_[t0]
    <3>1. Past(f)
      <4>1. event[f].topic = t0 /\ ~(f > flushed)
        BY <1>1, <1>3, <2>1 DEF ToldInv, FlowInv, Collected, Left
      <4>2. f \in Int /\ flushed \in Int
        BY BoundAssumption DEF ToldInv, FlowInv, TypeOK, Event
      <4> QED
        BY <1>3, <4>1, <4>2 DEF Past
    <3> QED
      BY <1>3, <2>1, <3>1 DEF ToldInv, Reports, InBuckets
  <2>2. CASE f \notin buckets_[t0]
    <3>1. \A t \in Topic : f \notin buckets_[t]
      BY <1>4, <2>2
    <3> QED
      BY <3>1 DEF ToldInv, Reports, Settled
  <2> QED
    BY <2>1, <2>2
<1>11. Remembered'
  BY <1>1, <1>2, <1>6, RememberedKept DEF Lane
<1> QED
  BY <1>6, <1>7, <1>8, <1>9, <1>10, <1>11 DEF Reports

\* A flush that begins is past no event.
LEMMA StopBucketTold == ASSUME ToldInv, StopBucket PROVE Reports'
<1>1. PICK e \in Event :
         /\ pc["BATCH"] = "loop" /\ Continue("BATCH", "flush", e) /\ flushed' = 0
         /\ event' = event /\ queue' = queue /\ told' = told
         /\ UNCHANGED <<buckets_, storage, swept, discarded, dedup_table_>>
  BY DEF StopBucket, bus, txnVars, results, history
<1>2. /\ cur["BATCH"] = NoEvent
      /\ \A m \in Lane \ {"BATCH"} : cur'[m] = cur[m] /\ pc'[m] = pc[m]
  BY <1>1 DEF Continue, ToldInv, FlowInv, TypeOK, Holding, Lane
<1>3. ASSUME NEW f \in Event PROVE Pending(f)' <=> Pending(f)
  <2>1. event[f].lane \in Lane
    BY EventType DEF ToldInv, FlowInv
  <2> QED
    BY <1>1, <1>2, <2>1 DEF Pending
<1>4. \A f \in Event : ~Past(f) /\ ~Past(f)'
  <2>1. \A f \in Event : ~(f <= 0)
    BY BoundAssumption DEF Event
  <2> QED
    BY <1>1, <1>2, <2>1 DEF Past
<1>5. Silent' /\ Settled'
  BY <1>1, <1>3 DEF ToldInv, Reports, Silent, Settled
<1>6. InBuckets'
  BY <1>1, <1>4 DEF ToldInv, Reports, InBuckets, FlowInv, TypeOK
<1>7. Apart' /\ Written'
  BY <1>1, WrittenKept DEF Apart, ToldInv, Reports
<1>8. Remembered'
  BY <1>1, <1>2, RememberedKept DEF Lane
<1> QED
  BY <1>5, <1>6, <1>7, <1>8 DEF Reports

\* At the start nothing has been said and nothing is stored.
LEMMA InitTold == Init => ToldInv
<1> SUFFICES ASSUME Init PROVE Reports
  BY InitFlow DEF ToldInv
<1>1. \A e \in Event : told[e] = << >> /\ Pending(e)
  <2>1. \A e \in Event : event[e].lane \in Lane
    BY InitFlow, EventType DEF FlowInv
  <2> QED
    BY <2>1 DEF Init, Pending
<1>2. Silent
  BY <1>1, EmptySeq DEF Silent
<1>3. InBuckets /\ Settled /\ Apart /\ Remembered
  BY <1>1 DEF Init, InBuckets, Settled, Apart, Remembered
<1>4. Written
  <2>1. \A x : Times(<< >>, x) = 0
    BY EmptySeq, TimesType
  <2>2. storage.file = << >> /\ storage.buffered = << >>
    BY DEF Init
  <2> QED
    BY <1>1, <2>1, <2>2 DEF Written, Stored
<1> QED
  BY <1>2, <1>3, <1>4 DEF Reports

\* Every step keeps ToldInv.
LEMMA NextTold == ToldInv /\ [Next]_vars => ToldInv'
<1> SUFFICES ASSUME ToldInv, [Next]_vars PROVE Reports'
  BY NextFlow DEF ToldInv
<1> QED
  BY Steps, RejectTold, StoreTold, StopProcessorTold, RealtimeTold, PausedTold, DuplicateTold,
     BeginTold, TransactionTold, BatchDropTold, CollectTold, FlushTold, FlushDoneTold,
     StopBucketTold, QuietTold

\* What is said of the events, for any workload.
LEMMA ToldInvariant == Spec => []ToldInv
  BY InitTold, NextTold, PTL DEF Spec

\* Every finished event is reported exactly once while the file can be written,
\* through retries, late answers, pauses and bucket flushes, and an event passed
\* over as a duplicate has a predecessor that was processed; a write that fails
\* loses a report and never repeats one of the RealtimeProcessor or of the
\* TransactionalProcessor.
THEOREM ReportedOnce == Spec => []ToldOnce
<1>1. ToldInv => ToldOnce
  <2> SUFFICES ASSUME ToldInv PROVE ToldOnce
    OBVIOUS
  <2>1. ASSUME storage.good, NEW e \in Finished \ discarded PROVE Len(told[e]) = 1
    <3>1. e \in Event /\ event[e].lane \in Lane
      BY EventType DEF Finished, ToldInv, FlowInv
    <3>2. ~Pending(e) /\ \A t \in Topic : e \notin buckets_[t]
      BY <2>1, <3>1 DEF Finished, Pending
    <3> QED
      BY <2>1, <3>1, <3>2 DEF ToldInv, Reports, Settled
  <2>2. \A e \in Event : event[e].lane # "BATCH" => Len(told[e]) <= 1
    BY DEF ToldInv, Reports, Silent
  <2>3. \A e \in discarded : told[e] = << >>
    BY DEF ToldInv, FlowInv, TypeOK, Reports, Silent, Pending
  <2>4. storage.good => \A e \in discarded : \E f \in 1 .. e - 1 : /\ id(f) = id(e)
                                                                  /\ told[f] = <<"processed">>
    BY DEF ToldInv, Reports, Remembered
  <2> QED
    BY <2>1, <2>2, <2>3, <2>4 DEF ToldOnce
<1> QED
  BY <1>1, ToldInvariant, PTL

\* No event is written twice, not even when a write fails in the middle of a bucket
\* and the bucket is flushed again, and the file and the stream's buffer have what
\* was reported as processed.
THEOREM WrittenOnce == Spec => []StoredOnce
<1>1. ToldInv => StoredOnce
  BY DEF ToldInv, Reports, Written, StoredOnce, Finished
<1> QED
  BY <1>1, ToldInvariant, PTL

----------------------------------------------------------------------------
(* The dead letter queue and the counters *)

\* A report of a drop is one more of them.
LEMMA ReportAdded ==
    ASSUME TypeOK, NEW e \in Event
    PROVE  /\ Tell(e, "processed") => DropReports' = DropReports
           /\ Tell(e, "dropped") => /\ DropReports' = DropReports \cup {<<e, Len(told[e]) + 1>>}
                                    /\ <<e, Len(told[e]) + 1>> \notin DropReports
<1> DEFINE n == Len(told[e]) + 1
           Of(s) == {j \in DOMAIN s : s[j] = "dropped"}
<1>1. /\ told[e] \in Seq({"processed", "dropped"}) /\ Len(told[e]) \in Nat
      /\ DOMAIN told[e] = 1 .. Len(told[e])
  BY LenProperties DEF TypeOK
<1>2. DropReports = UNION {{<<f, i>> : i \in Of(told[f])} : f \in Event}
  BY DEF DropReports
<1>3. DropReports' = UNION {{<<f, i>> : i \in Of(told'[f])} : f \in Event}
  BY DEF DropReports
<1>4. \A p : p \in DropReports <=> \E f \in Event : \E i \in Of(told[f]) : p = <<f, i>>
  <2> HIDE DEF Of
  <2> QED
    BY <1>2
<1>5. \A p : p \in DropReports' <=> \E f \in Event : \E i \in Of(told'[f]) : p = <<f, i>>
  <2> HIDE DEF Of
  <2> QED
    BY <1>3
<1>6. ASSUME NEW what \in {"processed", "dropped"}
      PROVE  Of(Append(told[e], what)) = IF what = "dropped" THEN Of(told[e]) \cup {n}
                                         ELSE Of(told[e])
  <2>1. /\ DOMAIN Append(told[e], what) = 1 .. n
        /\ \A i \in 1 .. Len(told[e]) : Append(told[e], what)[i] = told[e][i]
        /\ Append(told[e], what)[n] = what
    BY <1>1, AppendProperties, LenProperties
  <2>2. 1 .. n = (1 .. Len(told[e])) \cup {n} /\ n \notin 1 .. Len(told[e])
    BY <1>1
  <2> HIDE DEF n
  <2> QED
    BY <1>1, <2>1, <2>2
<1>7. n \notin Of(told[e])
  BY <1>1
<1>8. ASSUME NEW what \in {"processed", "dropped"}, Tell(e, what)
      PROVE  told'[e] = Append(told[e], what) /\ \A f \in Event : f # e => told'[f] = told[f]
  BY <1>8, TellFacts
<1> HIDE DEF n, Of
<1>9. ASSUME Tell(e, "processed") PROVE DropReports' = DropReports
  <2>1. Of(told'[e]) = Of(told[e])
    BY <1>6, <1>8, <1>9
  <2>2. \A f \in Event : Of(told'[f]) = Of(told[f])
    BY <1>8, <1>9, <2>1, Zenon
  <2>3. \A p : p \in DropReports' <=> p \in DropReports
    BY <1>4, <1>5, <2>2, Zenon
  <2> QED
    BY <2>3
<1>10. ASSUME Tell(e, "dropped")
       PROVE  DropReports' = DropReports \cup {<<e, n>>} /\ <<e, n>> \notin DropReports
  <2>1. Of(told'[e]) = Of(told[e]) \cup {n}
    BY <1>6, <1>8, <1>10
  <2>2. \A f \in Event : f # e => Of(told'[f]) = Of(told[f])
    BY <1>8, <1>10, Zenon
  <2>3. \A p : p \in DropReports' <=> p \in DropReports \/ p = <<e, n>>
    <3> TAKE p
    <3>1. ASSUME p \in DropReports' PROVE p \in DropReports \/ p = <<e, n>>
      <4>1. PICK f \in Event : \E i \in Of(told'[f]) : p = <<f, i>>
        BY <1>5, <3>1
      <4>2. PICK i \in Of(told'[f]) : p = <<f, i>>
        BY <4>1
      <4>3. CASE f = e
        BY <1>4, <2>1, <4>2, <4>3
      <4>4. CASE f # e
        BY <1>4, <2>2, <4>2, <4>4
      <4> QED
        BY <4>3, <4>4
    <3>2. ASSUME p \in DropReports PROVE p \in DropReports'
      <4>1. PICK f \in Event : \E i \in Of(told[f]) : p = <<f, i>>
        BY <1>4, <3>2
      <4>2. Of(told[f]) \subseteq Of(told'[f])
        BY <2>1, <2>2
      <4> QED
        BY <1>5, <4>1, <4>2
    <3>3. ASSUME p = <<e, n>> PROVE p \in DropReports'
      BY <1>5, <2>1, <3>3
    <3> QED
      BY <3>1, <3>2, <3>3
  <2>4. <<e, n>> \notin DropReports
    <3> SUFFICES ASSUME <<e, n>> \in DropReports PROVE FALSE
      OBVIOUS
    <3>1. PICK f \in Event : \E i \in Of(told[f]) : <<e, n>> = <<f, i>>
      BY <1>4
    <3>2. f = e /\ n \in Of(told[f])
      BY <3>1
    <3> QED
      BY <1>7, <3>2
  <2>5. DropReports' = DropReports \cup {<<e, n>>}
    BY <2>3
  <2> QED
    BY <2>4, <2>5
<1> QED
  BY <1>9, <1>10 DEF n

\* What a step does to the dead letter queue and to the reports.
LEMMA DeadLetterStep ==
    ASSUME FlowInv, [Next]_vars
    PROVE  \/ /\ dlq' = dlq /\ swept' = swept
              /\ told' = told \/ \E e \in Event : Tell(e, "processed")
           \/ \E e \in Event, batch \in SUBSET Event, es \in Seq(Event) :
                 /\ Tell(e, "dropped")
                 /\ swept' = swept \cup batch /\ swept \cap batch = {}
                 /\ Len(es) = Cardinality(batch) + 1
                 /\ dlq' = DlqPush(dlq, es)
<1> DEFINE Same == /\ dlq' = dlq /\ swept' = swept
                   /\ told' = told \/ \E e \in Event : Tell(e, "processed")
           More == \E e \in Event, batch \in SUBSET Event, es \in Seq(Event) :
                      /\ Tell(e, "dropped")
                      /\ swept' = swept \cup batch /\ swept \cap batch = {}
                      /\ Len(es) = Cardinality(batch) + 1
                      /\ dlq' = DlqPush(dlq, es)
<1>1. ASSUME NEW e \in Event, Tell(e, "dropped"), dlq' = DlqPush(dlq, <<e>>), swept' = swept
      PROVE  More
  <2>1. /\ <<e>> \in Seq(Event) /\ Len(<<e>>) = 0 + 1 /\ Cardinality({}) = 0
        /\ {} \in SUBSET Event
    BY FS_EmptySet
  <2> QED
    BY <1>1, <2>1
<1>2. ASSUME UNCHANGED <<dlq, told, swept>> PROVE Same
  BY <1>2
<1>3. ASSUME NEW e \in Event, Tell(e, "processed"), UNCHANGED <<dlq, swept>> PROVE Same
  BY <1>3
<1>4. ASSUME BatchDrop PROVE More
  <2>1. PICK e \in queue["BATCH"], batch \in SUBSET Event :
          /\ batch \subseteq queue["BATCH"] /\ swept' = swept \cup batch /\ Tell(e, "dropped")
          /\ \E es \in Seq(Event) : Len(es) = Cardinality(batch) + 1 /\ dlq' = DlqPush(dlq, es)
    BY <1>4, BatchDropStep
  <2>2. swept \cap batch = {} /\ e \in Event
    BY <2>1 DEF FlowInv, Gone, TypeOK, Lane
  <2> QED
    BY <2>1, <2>2
<1> HIDE DEF Same, More
<1>5. ASSUME NEW l \in Lane, Reject(l) PROVE More
  BY <1>1, <1>5 DEF Reject, Drop, history
<1>6. ASSUME NEW l \in Lane, StoreEvent(l) PROVE Same
  <2>1. cur[l] \in Event
    BY <1>6 DEF StoreEvent, FlowInv, TypeOK, Holding, NoEvent
  <2>2. UNCHANGED <<dlq, swept>> /\ (told' = told \/ Tell(cur[l], "processed"))
    BY <1>6 DEF StoreEvent, history
  <2> QED
    BY <1>2, <1>3, <2>1, <2>2
<1>7. ASSUME NEW l \in Lane, StopProcessor(l) PROVE Same
  BY <1>2, <1>7 DEF StopProcessor, results, history
<1>8. ASSUME RealtimeHandle PROVE Same \/ More
  <2>1. PICK e \in Event : /\ \/ Tell(e, "dropped") /\ dlq' = DlqPush(dlq, <<e>>)
                              \/ UNCHANGED <<dlq, told>>
                           /\ swept' = swept
    BY <1>8 DEF RealtimeHandle, Drop
  <2> QED
    BY <1>1, <1>2, <2>1
<1>9. ASSUME TransactionPaused PROVE More
  BY <1>1, <1>9 DEF TransactionPaused, Drop, history
<1>10. ASSUME TransactionDuplicate \/ TransactionBegin PROVE Same
  BY <1>2, <1>10 DEF TransactionDuplicate, TransactionBegin, results, history
<1>11. ASSUME TransactionHandle PROVE Same \/ More
  <2>1. cur["TRANSACTIONAL"] \in Event
    BY <1>11 DEF TransactionHandle, FlowInv, TypeOK, Holding, NoEvent, Lane
  <2>2. /\ \/ /\ Tell(cur["TRANSACTIONAL"], "dropped")
              /\ dlq' = DlqPush(dlq, <<cur["TRANSACTIONAL"]>>)
           \/ UNCHANGED <<dlq, told>>
        /\ swept' = swept
    BY <1>11 DEF TransactionHandle, TransactionFailed, Drop, history
  <2> QED
    BY <1>1, <1>2, <2>1, <2>2
<1>12. ASSUME BatchCollect \/ FlushDone \/ StopBucket PROVE Same
  BY <1>2, <1>12 DEF BatchCollect, FlushDone, StopBucket, results, history
<1>13. ASSUME FlushHandle PROVE Same \/ More
  <2>1. PICK e \in Event : /\ \/ Tell(e, "dropped") /\ dlq' = DlqPush(dlq, <<e>>)
                              \/ UNCHANGED <<dlq, told>>
                           /\ swept' = swept
    BY <1>13 DEF FlushHandle, history
  <2> QED
    BY <1>1, <1>2, <2>1
<1>14. ASSUME (Control \/ Stop) \/ UNCHANGED vars PROVE Same
  BY <1>2, <1>14, QuietSteps DEF Quiet, results, history
<1>15. Same \/ More
  BY <1>4, <1>5, <1>6, <1>7, <1>8, <1>9, <1>10, <1>11, <1>12, <1>13, <1>14, Steps
<1> QED
  BY <1>15 DEF Same, More

\* Every step keeps DeadLettered.
LEMMA NextDeadLettered == FlowInv /\ DeadLettered /\ [Next]_vars => DeadLettered'
<1> SUFFICES ASSUME FlowInv, DeadLettered, [Next]_vars PROVE DeadLettered'
  OBVIOUS
<1> DEFINE total == dlq.total_dropped_
           Kept(n) == IF n < MAX_STORED_EVENTS THEN n ELSE MAX_STORED_EVENTS
<1>1. /\ total = Cardinality(swept) + Cardinality(DropReports)
      /\ Len(dlq.stored_events_) = Kept(total) /\ IsFiniteSet(DropReports)
      /\ MAX_STORED_EVENTS \in Nat /\ total \in Nat
  BY BoundAssumption DEF DeadLettered, DropsAreDeadLettered, FlowInv, TypeOK
<1>2. CASE /\ dlq' = dlq /\ swept' = swept
           /\ told' = told \/ \E e \in Event : Tell(e, "processed")
  <2>1. DropReports' = DropReports
    <3>1. CASE told' = told
      BY <3>1 DEF DropReports
    <3>2. CASE \E e \in Event : Tell(e, "processed")
      BY <3>2, ReportAdded DEF FlowInv
    <3> QED
      BY <1>2, <3>1, <3>2
  <2> QED
    BY <1>2, <2>1 DEF DeadLettered, DropsAreDeadLettered
<1>3. CASE \E e \in Event, batch \in SUBSET Event, es \in Seq(Event) :
              /\ Tell(e, "dropped")
              /\ swept' = swept \cup batch /\ swept \cap batch = {}
              /\ Len(es) = Cardinality(batch) + 1
              /\ dlq' = DlqPush(dlq, es)
  <2>1. PICK e \in Event, batch \in SUBSET Event, es \in Seq(Event) :
              /\ Tell(e, "dropped")
              /\ swept' = swept \cup batch /\ swept \cap batch = {}
              /\ Len(es) = Cardinality(batch) + 1
              /\ dlq' = DlqPush(dlq, es)
    BY <1>3
  <2>2. IsFiniteSet(DropReports') /\ Cardinality(DropReports') = Cardinality(DropReports) + 1
    <3>1. /\ DropReports' = DropReports \cup {<<e, Len(told[e]) + 1>>}
          /\ <<e, Len(told[e]) + 1>> \notin DropReports
      BY <2>1, ReportAdded DEF FlowInv
    <3> QED
      BY <1>1, <3>1, FS_AddElement
  <2>3. IsFiniteSet(swept) /\ IsFiniteSet(batch)
    BY EventsFinite DEF FlowInv, TypeOK
  <2>4. Cardinality(swept') = Cardinality(swept) + Cardinality(batch)
    <3>1. Cardinality(swept \cup batch)
            = Cardinality(swept) + Cardinality(batch) - Cardinality(swept \cap batch)
      BY <2>3, FS_Union
    <3>2. Cardinality(swept \cap batch) = 0
      BY <2>1, FS_EmptySet
    <3>3. Cardinality(swept) \in Nat /\ Cardinality(batch) \in Nat
      BY <2>3, FS_CardinalityType
    <3> QED
      BY <2>1, <3>1, <3>2, <3>3
  <2>5. /\ dlq'.total_dropped_ = total + Len(es)
        /\ Len(dlq'.stored_events_) =
             IF Len(dlq.stored_events_) + Len(es) > MAX_STORED_EVENTS THEN MAX_STORED_EVENTS
             ELSE Len(dlq.stored_events_) + Len(es)
    BY <2>1, DlqFacts DEF FlowInv
  <2>6. /\ Cardinality(swept) \in Nat /\ Cardinality(batch) \in Nat
        /\ Cardinality(DropReports) \in Nat
    BY <1>1, <2>3, FS_CardinalityType
  <2> HIDE DEF total
  <2>7. dlq'.total_dropped_ = Cardinality(swept') + Cardinality(DropReports')
    BY <1>1, <2>1, <2>2, <2>4, <2>5, <2>6
  <2>8. Len(dlq'.stored_events_) = Kept(dlq'.total_dropped_)
    <3>1. /\ total \in Nat /\ Len(es) \in Nat /\ MAX_STORED_EVENTS \in Nat
          /\ Len(dlq.stored_events_) = Kept(total)
      BY <1>1, <2>1, <2>6, BoundAssumption
    <3> QED
      BY <2>5, <3>1
  <2> QED
    BY <2>2, <2>7, <2>8 DEF DeadLettered, DropsAreDeadLettered
<1> QED
  BY <1>2, <1>3, DeadLetterStep

\* The terms of the sum are numbers.
LEMMA TermsType ==
    ASSUME FlowInv, NEW l \in Lane
    PROVE  /\ Total(l) \in Nat /\ InHand(l) \in Nat
           /\ IsFiniteSet(Passed(l)) /\ IsFiniteSet(Took(l)) /\ IsFiniteSet(Late(l))
           /\ Cardinality(Passed(l)) \in Nat /\ Cardinality(Took(l)) \in Nat
           /\ Cardinality(Late(l)) \in Nat
<1>1. Passed(l) \in SUBSET Event /\ Took(l) \in SUBSET Event /\ Late(l) \in SUBSET Event
  BY DEF FlowInv, TypeOK, Passed, Took, Late
<1>2. IsFiniteSet(Passed(l)) /\ IsFiniteSet(Took(l)) /\ IsFiniteSet(Late(l))
  BY <1>1, EventsFinite
<1>3. Total(l) \in Nat /\ InHand(l) \in Nat
  BY DEF FlowInv, TypeOK, Total, InHand, Counter
<1> QED
  BY <1>2, <1>3, FS_CardinalityType

\* A processor that takes an event either counts it, or passes it over, or has it in
\* hand; an event it has counted twice was late.
LEMMA CountedStep ==
    ASSUME FlowInv, Counted, NEW l \in Lane,
           NEW taken \in {0, 1}, NEW d \in {0, 1}, NEW n \in {0, 1, 2},
           InHand(l)' \in Nat, Total(l)' = Total(l) + n,
           Cardinality(Took(l)') = Cardinality(Took(l)) + taken,
           Cardinality(Passed(l)') = Cardinality(Passed(l)) + d,
           Cardinality(Late(l)') + taken + InHand(l)
             = Cardinality(Late(l)) + n + d + InHand(l)',
           \A m \in Lane \ {l} : /\ Total(m)' = Total(m) /\ InHand(m)' = InHand(m)
                                 /\ Passed(m)' = Passed(m) /\ Took(m)' = Took(m)
                                 /\ Late(m)' = Late(m),
           Cardinality(Late(l)') \in Nat
    PROVE  Counted'
<1> SUFFICES ASSUME NEW m \in Lane
             PROVE  Total(m)' + Cardinality(Passed(m)') + InHand(m)'
                      = Cardinality(Took(m)') + Cardinality(Late(m)')
  BY DEF Counted
<1>1. Total(m) + Cardinality(Passed(m)) + InHand(m) = Cardinality(Took(m)) + Cardinality(Late(m))
  BY DEF Counted
<1>2. CASE m = l
  <2>1. Total(l) + Cardinality(Passed(l)) + InHand(l) = Cardinality(Took(l)) + Cardinality(Late(l))
    BY <1>1, <1>2
  <2>2. /\ Total(l) \in Nat /\ InHand(l) \in Nat /\ Cardinality(Passed(l)) \in Nat
        /\ Cardinality(Took(l)) \in Nat /\ Cardinality(Late(l)) \in Nat
    BY TermsType
  <2>3. Total(l)' + Cardinality(Passed(l)') + InHand(l)'
          = Cardinality(Took(l)') + Cardinality(Late(l)')
    BY <2>1, <2>2
  <2> QED
    BY <1>2, <2>3, Zenon
<1>3. CASE m # l
  BY <1>1, <1>3
<1> QED
  BY <1>2, <1>3

\* A popped event is one more that was taken.
LEMMA PopTook ==
    ASSUME FlowInv, NEW l \in Lane, NEW e \in Event, Pops(l, e), Taken(l, e), swept' = swept
    PROVE  /\ Cardinality(Took(l)') = Cardinality(Took(l)) + 1
           /\ \A m \in Lane \ {l} : Took(m)' = Took(m)
<1>1. /\ event' = event /\ e \in queue[l] /\ event[e].lane = l
      /\ queue'[l] = queue[l] \ {e} /\ \A m \in Lane \ {l} : queue'[m] = queue[m]
  BY PopStep
<1>2. e \notin swept
  BY <1>1 DEF FlowInv, Gone
<1>3. Took(l)' = Took(l) \cup {e} /\ e \notin Took(l)
  BY <1>1, <1>2 DEF Took
<1>4. \A m \in Lane \ {l} : Took(m)' = Took(m)
  BY <1>1 DEF Took
<1>5. Cardinality(Took(l) \cup {e}) = Cardinality(Took(l)) + 1
  BY <1>3, TermsType, FS_AddElement
<1> QED
  BY <1>3, <1>4, <1>5

\* Where a thread goes decides what it has in hand.
LEMMA HandStep ==
    ASSUME FlowInv, NEW l \in Lane, NEW where, NEW e, Continue(l, where, e)
    PROVE  /\ InHand(l)' = (IF where = "handle" THEN 1 ELSE 0)
           /\ \A m \in Lane \ {l} : InHand(m)' = InHand(m)
  BY DEF FlowInv, TypeOK, Continue, InHand

\* One counter of one processor.
LEMMA TotalStep ==
    ASSUME FlowInv, NEW l \in Lane, NEW what \in Counter, Count(l, what)
    PROVE  Total(l)' = Total(l) + 1 /\ \A m \in Lane \ {l} : Total(m)' = Total(m)
<1>1. /\ metric'[l]["processed"] + metric'[l]["dropped"]
           = metric[l]["processed"] + metric[l]["dropped"] + 1
      /\ \A m \in Lane \ {l} : metric'[m] = metric[m]
  BY CountFacts DEF FlowInv
<1> QED
  BY <1>1 DEF Total

\* process() takes an event off the bus and counts it.
LEMMA PopCounted ==
    ASSUME FlowInv, Counted, NEW l \in Lane, NEW e \in Event, Pops(l, e), Taken(l, e),
           NEW what \in Counter, Count(l, what), NEW where, where # "handle", NEW x,
           Continue(l, where, x), UNCHANGED history
    PROVE  Counted'
<1>1. event' = event /\ UNCHANGED <<discarded, swept, breached>> /\ pc[l] = "loop"
  BY DEF Taken, Pops, history
<1>2. \A m \in Lane : Passed(m)' = Passed(m) /\ Late(m)' = Late(m)
  BY <1>1 DEF Passed, Late
<1>3. Total(l)' = Total(l) + 1 /\ \A m \in Lane \ {l} : Total(m)' = Total(m)
  BY TotalStep
<1>4. /\ Cardinality(Took(l)') = Cardinality(Took(l)) + 1
      /\ \A m \in Lane \ {l} : Took(m)' = Took(m)
  BY <1>1, PopTook
<1>5. InHand(l) = 0 /\ InHand(l)' = 0 /\ \A m \in Lane \ {l} : InHand(m)' = InHand(m)
  BY <1>1, HandStep DEF InHand
<1>6. /\ Cardinality(Passed(l)') = Cardinality(Passed(l)) + 0
      /\ Cardinality(Late(l)') + 1 + InHand(l) = Cardinality(Late(l)) + 1 + 0 + InHand(l)'
      /\ Cardinality(Late(l)') \in Nat /\ InHand(l)' \in Nat
  BY <1>2, <1>5, TermsType
<1> QED
  BY <1>2, <1>3, <1>4, <1>5, <1>6, CountedStep

\* Nothing is taken and nothing is counted.
LEMMA CountedKept ==
    ASSUME Counted, UNCHANGED <<event, queue, metric, history>>,
           \A m \in Lane : pc'[m] = "handle" <=> pc[m] = "handle"
    PROVE  Counted'
<1>1. \A m \in Lane : /\ Total(m)' = Total(m) /\ InHand(m)' = InHand(m)
                      /\ Passed(m)' = Passed(m) /\ Took(m)' = Took(m) /\ Late(m)' = Late(m)
  BY DEF Total, InHand, Passed, Took, Late, history
<1> QED
  BY <1>1 DEF Counted

\* A rejected event is counted as dropped.
LEMMA RejectCounted == ASSUME FlowInv, Counted, NEW l \in Lane, Reject(l) PROVE Counted'
<1>1. PICK e \in Event : Pops(l, e) /\ Drop(l, e) /\ Taken(l, e) /\ UNCHANGED history
  BY DEF Reject
<1> QED
  BY <1>1, PopCounted DEF Drop, Done, Counter

\* So is one that comes during a pause.
LEMMA PausedCounted == ASSUME FlowInv, Counted, TransactionPaused PROVE Counted'
<1>1. PICK e \in Event : /\ Pops("TRANSACTIONAL", e) /\ Drop("TRANSACTIONAL", e)
                         /\ Taken("TRANSACTIONAL", e) /\ UNCHANGED history
  BY DEF TransactionPaused
<1> QED
  BY <1>1, PopCounted DEF Drop, Done, Counter, Lane

\* The RealtimeProcessor counts once, and twice if the event is late.
LEMMA RealtimeCounted == ASSUME FlowInv, Counted, RealtimeHandle PROVE Counted'
<1> DEFINE l == "REALTIME"
<1>1. PICK e \in Event :
        /\ Pops(l, e) /\ Taken(l, e) /\ UNCHANGED <<discarded, swept>>
        /\ \/ Count(l, "dropped") /\ breached' = breached /\ Continue(l, "loop", NoEvent)
           \/ \E late \in BOOLEAN :
                /\ metric' = [metric EXCEPT ![l] =
                     [c \in Counter |-> @[c] + IF c = "processed" \/ late THEN 1 ELSE 0]]
                /\ IF late THEN breached' = breached \cup {e} /\ Continue(l, "loop", NoEvent)
                   ELSE Continue(l, "store", e) /\ breached' = breached
  BY DEF RealtimeHandle, Drop, Done
<1>2. l \in Lane /\ event' = event /\ pc[l] = "loop" /\ event[e].lane = l /\ e \notin breached
  <2>1. l \in Lane
    BY DEF Lane
  <2> QED
    BY <1>1, <2>1, PopStep DEF FlowInv, Gone
<1> HIDE DEF l
<1>3. CASE Count(l, "dropped") /\ breached' = breached /\ Continue(l, "loop", NoEvent)
  BY <1>1, <1>2, <1>3, PopCounted DEF history, Counter
<1>4. ASSUME NEW late \in BOOLEAN,
             metric' = [metric EXCEPT ![l] =
                     [c \in Counter |-> @[c] + IF c = "processed" \/ late THEN 1 ELSE 0]],
             IF late THEN breached' = breached \cup {e} /\ Continue(l, "loop", NoEvent)
             ELSE Continue(l, "store", e) /\ breached' = breached
      PROVE  Counted'
  <2> DEFINE n == IF late THEN 2 ELSE 1
  <2>1. Total(l)' = Total(l) + n /\ \A m \in Lane \ {l} : Total(m)' = Total(m)
    <3>1. metric[l] \in [Counter -> Nat] /\ DOMAIN metric = Lane
      BY <1>2 DEF FlowInv, TypeOK
    <3>2. /\ metric'[l] = [c \in Counter |-> metric[l][c]
                                               + IF c = "processed" \/ late THEN 1 ELSE 0]
          /\ \A m \in Lane \ {l} : metric'[m] = metric[m]
      BY <1>2, <1>4, <3>1
    <3> QED
      BY <3>1, <3>2 DEF Total, Counter
  <2>2. \A m \in Lane : Passed(m)' = Passed(m)
    BY <1>1, <1>2 DEF Passed
  <2>3. /\ Cardinality(Took(l)') = Cardinality(Took(l)) + 1
        /\ \A m \in Lane \ {l} : Took(m)' = Took(m)
    BY <1>1, <1>2, PopTook
  <2>4. InHand(l) = 0 /\ InHand(l)' = 0 /\ \A m \in Lane \ {l} : InHand(m)' = InHand(m)
    BY <1>2, <1>4, HandStep DEF InHand
  <2>5. /\ \A m \in Lane \ {l} : Late(m)' = Late(m)
        /\ Cardinality(Late(l)') = Cardinality(Late(l)) + (IF late THEN 1 ELSE 0)
        /\ Cardinality(Late(l)') \in Nat
    <3>1. /\ Late(l)' = IF late THEN Late(l) \cup {e} ELSE Late(l)
          /\ e \notin Late(l) /\ \A m \in Lane \ {l} : Late(m)' = Late(m)
      BY <1>2, <1>4 DEF Late
    <3>2. /\ Cardinality(Late(l) \cup {e}) = Cardinality(Late(l)) + 1
          /\ Cardinality(Late(l)) \in Nat
      BY <1>2, <3>1, TermsType, FS_AddElement
    <3> QED
      BY <3>1, <3>2
  <2>6. /\ Cardinality(Passed(l)') = Cardinality(Passed(l)) + 0
        /\ Cardinality(Late(l)') + 1 + InHand(l) = Cardinality(Late(l)) + n + 0 + InHand(l)'
        /\ InHand(l)' \in Nat /\ n \in {0, 1, 2}
    BY <1>2, <2>2, <2>4, <2>5, TermsType
  <2> HIDE DEF n
  <2> QED
    BY <1>2, <2>1, <2>2, <2>3, <2>4, <2>5, <2>6, CountedStep
<1> QED
  BY <1>1, <1>3, <1>4

\* A duplicate is passed over.
LEMMA DuplicateCounted == ASSUME FlowInv, Counted, TransactionDuplicate PROVE Counted'
<1> DEFINE l == "TRANSACTIONAL"
<1>1. PICK e \in Event : /\ Pops(l, e) /\ Taken(l, e) /\ discarded' = discarded \cup {e}
                         /\ UNCHANGED <<pc, metric, swept, breached>>
  BY DEF TransactionDuplicate, results
<1>2. l \in Lane /\ event' = event /\ event[e].lane = l /\ e \notin discarded /\ pc[l] = "loop"
  <2>1. l \in Lane
    BY DEF Lane
  <2> QED
    BY <1>1, <2>1, PopStep DEF FlowInv, Gone
<1> HIDE DEF l
<1>3. \A m \in Lane : Total(m)' = Total(m) /\ InHand(m)' = InHand(m) /\ Late(m)' = Late(m)
  BY <1>1, <1>2 DEF Total, InHand, Late
<1>4. /\ Cardinality(Took(l)') = Cardinality(Took(l)) + 1
      /\ \A m \in Lane \ {l} : Took(m)' = Took(m)
  BY <1>1, <1>2, PopTook
<1>5. /\ Passed(l)' = Passed(l) \cup {e} /\ e \notin Passed(l)
      /\ \A m \in Lane \ {l} : Passed(m)' = Passed(m)
  BY <1>1, <1>2 DEF Passed
<1>6. Cardinality(Passed(l)') = Cardinality(Passed(l)) + 1
  BY <1>2, <1>5, TermsType, FS_AddElement
<1>7. /\ Total(l)' = Total(l) + 0 /\ InHand(l)' \in Nat /\ Cardinality(Late(l)') \in Nat
      /\ Cardinality(Late(l)') + 1 + InHand(l) = Cardinality(Late(l)) + 0 + 1 + InHand(l)'
  BY <1>2, <1>3, TermsType
<1> QED
  BY <1>2, <1>3, <1>4, <1>5, <1>6, <1>7, CountedStep

\* An event in hand is not counted yet.
LEMMA BeginCounted == ASSUME FlowInv, Counted, TransactionBegin PROVE Counted'
<1> DEFINE l == "TRANSACTIONAL"
<1>1. PICK e \in Event : /\ Pops(l, e) /\ Taken(l, e) /\ Continue(l, "handle", e)
                         /\ UNCHANGED <<metric, history>>
  BY DEF TransactionBegin, results
<1>2. l \in Lane /\ event' = event /\ UNCHANGED <<discarded, swept, breached>> /\ pc[l] = "loop"
  BY <1>1 DEF Lane, Taken, Pops, history
<1> HIDE DEF l
<1>3. \A m \in Lane : Total(m)' = Total(m) /\ Passed(m)' = Passed(m) /\ Late(m)' = Late(m)
  BY <1>1, <1>2 DEF Total, Passed, Late
<1>4. /\ Cardinality(Took(l)') = Cardinality(Took(l)) + 1
      /\ \A m \in Lane \ {l} : Took(m)' = Took(m)
  BY <1>1, <1>2, PopTook
<1>5. InHand(l) = 0 /\ InHand(l)' = 1 /\ \A m \in Lane \ {l} : InHand(m)' = InHand(m)
  BY <1>1, <1>2, HandStep DEF InHand
<1>6. /\ Total(l)' = Total(l) + 0 /\ Cardinality(Late(l)') \in Nat /\ InHand(l)' \in Nat
      /\ Cardinality(Passed(l)') = Cardinality(Passed(l)) + 0
      /\ Cardinality(Late(l)') + 1 + InHand(l) = Cardinality(Late(l)) + 0 + 0 + InHand(l)'
  BY <1>2, <1>3, <1>5, TermsType
<1> QED
  BY <1>2, <1>3, <1>4, <1>5, <1>6, CountedStep

\* The event in hand is counted once, when it succeeds or is given up.
LEMMA TransactionCounted == ASSUME FlowInv, Counted, TransactionHandle PROVE Counted'
<1> DEFINE l == "TRANSACTIONAL"
<1>1. /\ pc[l] = "handle" /\ l \in Lane /\ UNCHANGED <<event, queue, history>>
      /\ UNCHANGED <<discarded, swept, breached>>
  BY DEF TransactionHandle, Lane, bus, history
<1>2. \/ UNCHANGED <<pc, metric>>
      \/ \E what \in Counter, where \in {"store", "loop"}, x \in Event \cup {NoEvent} :
            Count(l, what) /\ Continue(l, where, x)
  <2>1. cur[l] \in Event \cup {NoEvent}
    BY <1>1 DEF FlowInv, TypeOK
  <2> QED
    BY <2>1 DEF TransactionHandle, TransactionFailed, Drop, Done, Counter
<1> HIDE DEF l
<1>3. CASE UNCHANGED <<pc, metric>>
  BY <1>1, <1>3, CountedKept
<1>4. ASSUME NEW what \in Counter, NEW where \in {"store", "loop"}, NEW x,
             Count(l, what), Continue(l, where, x)
      PROVE  Counted'
  <2>1. \A m \in Lane : Passed(m)' = Passed(m) /\ Late(m)' = Late(m) /\ Took(m)' = Took(m)
    BY <1>1 DEF Passed, Late, Took
  <2>2. Total(l)' = Total(l) + 1 /\ \A m \in Lane \ {l} : Total(m)' = Total(m)
    BY <1>1, <1>4, TotalStep
  <2>3. InHand(l) = 1 /\ InHand(l)' = 0 /\ \A m \in Lane \ {l} : InHand(m)' = InHand(m)
    BY <1>1, <1>4, HandStep DEF InHand
  <2>4. /\ Cardinality(Took(l)') = Cardinality(Took(l)) + 0
        /\ Cardinality(Passed(l)') = Cardinality(Passed(l)) + 0
        /\ Cardinality(Late(l)') + 0 + InHand(l) = Cardinality(Late(l)) + 1 + 0 + InHand(l)'
        /\ Cardinality(Late(l)') \in Nat /\ InHand(l)' \in Nat
    BY <1>1, <2>1, <2>3, TermsType
  <2> QED
    BY <1>1, <2>1, <2>2, <2>3, <2>4, CountedStep
<1> QED
  BY <1>2, <1>3, <1>4

\* What dropBatchFromQueue() takes is counted by nobody.
LEMMA BatchDropCounted == ASSUME FlowInv, Counted, BatchDrop PROVE Counted'
<1> DEFINE l == "BATCH"
<1>1. PICK e \in queue[l], batch \in SUBSET Event :
         /\ e \notin batch /\ batch \subseteq queue[l]
         /\ queue' = [queue EXCEPT ![l] = @ \ (batch \cup {e})]
         /\ swept' = swept \cup batch /\ Count(l, "dropped")
         /\ UNCHANGED <<event, pc, discarded, breached>>
  BY BatchDropStep
<1>2. /\ l \in Lane /\ e \in Event /\ queue'[l] = queue[l] \ (batch \cup {e})
      /\ \A m \in Lane \ {l} : queue'[m] = queue[m]
      /\ event[e].lane = l /\ e \notin swept /\ \A x \in batch : event[x].lane = l
  BY <1>1 DEF FlowInv, TypeOK, Waiting, Gone, Lane
<1> HIDE DEF l
<1>3. \A m \in Lane : InHand(m)' = InHand(m) /\ Passed(m)' = Passed(m) /\ Late(m)' = Late(m)
  BY <1>1 DEF InHand, Passed, Late
<1>4. Took(l)' = Took(l) \cup {e} /\ e \notin Took(l)
  BY <1>1, <1>2 DEF Took
<1>5. \A m \in Lane \ {l} : Took(m)' = Took(m)
  BY <1>1, <1>2 DEF Took
<1>6. Cardinality(Took(l)') = Cardinality(Took(l)) + 1
  <2>1. IsFiniteSet(Took(l))
    BY <1>2, TermsType
  <2> QED
    BY <1>4, <2>1, FS_AddElement
<1>7. Total(l)' = Total(l) + 1 /\ \A m \in Lane \ {l} : Total(m)' = Total(m)
  BY <1>1, <1>2, TotalStep DEF Counter
<1>8. /\ Cardinality(Passed(l)') = Cardinality(Passed(l)) + 0
      /\ Cardinality(Late(l)') + 1 + InHand(l) = Cardinality(Late(l)) + 1 + 0 + InHand(l)'
      /\ Cardinality(Late(l)') \in Nat /\ InHand(l)' \in Nat
  BY <1>2, <1>3, TermsType
<1> QED
  BY <1>2, <1>3, <1>5, <1>6, <1>7, <1>8, CountedStep

\* An event counts as processed when it joins its bucket.
LEMMA CollectCounted == ASSUME FlowInv, Counted, BatchCollect PROVE Counted'
<1>1. PICK e \in Event :
         /\ Pops("BATCH", e) /\ Taken("BATCH", e) /\ Count("BATCH", "processed")
         /\ UNCHANGED <<pc, cur>> \/ Continue("BATCH", "flush", e)
         /\ UNCHANGED history
  BY DEF BatchCollect
<1>2. Continue("BATCH", "loop", cur["BATCH"]) \/ Continue("BATCH", "flush", e)
  BY <1>1 DEF Pops, Continue, FlowInv, TypeOK
<1> QED
  BY <1>1, <1>2, PopCounted DEF Counter, Lane

\* Every step keeps Counted.
LEMMA NextCounted == FlowInv /\ Counted /\ [Next]_vars => Counted'
<1> SUFFICES ASSUME FlowInv, Counted, [Next]_vars PROVE Counted'
  OBVIOUS
<1>1. DOMAIN pc = Lane /\ {"REALTIME", "TRANSACTIONAL", "BATCH"} \subseteq Lane
  BY DEF FlowInv, TypeOK, Lane
<1>2. ASSUME NEW l \in Lane, NEW where, NEW e, Continue(l, where, e), where # "handle",
             pc[l] # "handle"
      PROVE  \A m \in Lane : pc'[m] = "handle" <=> pc[m] = "handle"
  BY <1>1, <1>2 DEF Continue
<1>3. ASSUME NEW l \in Lane, StoreEvent(l) PROVE Counted'
  <2>1. /\ UNCHANGED <<event, queue, metric, history>> /\ pc[l] = "store"
        /\ Continue(l, "flush", cur[l]) \/ Continue(l, "loop", NoEvent)
    BY <1>3 DEF StoreEvent, bus, Done
  <2> QED
    BY <1>2, <2>1, CountedKept
<1>4. ASSUME NEW l \in Lane, StopProcessor(l) PROVE Counted'
  <2>1. UNCHANGED <<event, queue, metric, history>>
    BY <1>4 DEF StopProcessor, bus, results
  <2>2. \A m \in Lane : pc'[m] = "handle" <=> pc[m] = "handle"
    BY <1>1, <1>4 DEF StopProcessor
  <2> QED
    BY <2>1, <2>2, CountedKept
<1>5. ASSUME FlushHandle PROVE Counted'
  <2>1. PICK e \in Event : /\ UNCHANGED <<event, queue, metric, history>> /\ pc["BATCH"] = "flush"
                           /\ UNCHANGED <<pc, cur>> \/ Continue("BATCH", "store", e)
    BY <1>5 DEF FlushHandle, bus
  <2> QED
    BY <1>1, <1>2, <2>1, CountedKept
<1>6. ASSUME FlushDone PROVE Counted'
  <2>1. /\ UNCHANGED <<event, queue, metric, history>> /\ pc["BATCH"] = "flush"
        /\ Continue("BATCH", "loop", NoEvent)
    BY <1>6 DEF FlushDone, Done, bus, results
  <2> QED
    BY <1>1, <1>2, <2>1, CountedKept
<1>7. ASSUME StopBucket PROVE Counted'
  <2>1. PICK e \in Event : /\ UNCHANGED <<event, queue, metric, history>> /\ pc["BATCH"] = "loop"
                           /\ Continue("BATCH", "flush", e)
    BY <1>7 DEF StopBucket, bus, results
  <2> QED
    BY <1>1, <1>2, <2>1, CountedKept
<1>8. ASSUME (Control \/ Stop) \/ UNCHANGED vars PROVE Counted'
  BY <1>8, QuietSteps, CountedKept DEF Quiet, bus, results
<1> QED
  BY <1>3, <1>4, <1>5, <1>6, <1>7, <1>8, Steps, RejectCounted, RealtimeCounted, PausedCounted,
     DuplicateCounted, BeginCounted, TransactionCounted, BatchDropCounted, CollectCounted

\* Nothing is given up without a trace: the dead letter queue's total is the number of
\* drops reported and of events dropBatchFromQueue() took, its store is as full as its
\* limit allows, and the counters of a processor add up to the events it took.
THEOREM AllAccounted == Spec => []Accounted
<1>1. Init => DeadLettered /\ Counted
  <2> SUFFICES ASSUME Init PROVE DeadLettered /\ Counted
    OBVIOUS
  <2>1. FlowInv /\ \A l \in Lane : \A e \in Event : event[e].lane = l => e \in queue[l]
    BY InitFlow DEF Init
  <2>2. DropReports = {}
    <3>1. \A e \in Event : {j \in DOMAIN told[e] : told[e][j] = "dropped"} = {}
      BY DEF Init
    <3> QED
      BY <3>1 DEF DropReports
  <2>3. DeadLettered
    <3>1. /\ dlq.total_dropped_ = 0 /\ Len(dlq.stored_events_) = 0 /\ swept = {}
          /\ MAX_STORED_EVENTS \in Nat \ {0}
      BY EmptySeq, BoundAssumption DEF Init
    <3> QED
      BY <2>2, <3>1, FS_EmptySet DEF DeadLettered, DropsAreDeadLettered
  <2>4. ASSUME NEW l \in Lane
        PROVE  /\ Total(l) = 0 /\ InHand(l) = 0 /\ Passed(l) = {} /\ Took(l) = {} /\ Late(l) = {}
    BY <2>1 DEF Init, Total, InHand, Passed, Took, Late, Counter
  <2> QED
    BY <2>3, <2>4, FS_EmptySet DEF Counted
<1>2. FlowInv /\ DeadLettered /\ Counted => Accounted
  <2> SUFFICES ASSUME FlowInv, DeadLettered, Counted PROVE CountsAddUp
    BY DEF Accounted, DeadLettered
  <2>1. ASSUME NEW l \in Lane, pc[l] \in {"loop", "stopped"}
        PROVE  Total(l) + Cardinality(Passed(l)) = Cardinality(Took(l)) + Cardinality(Late(l))
    <3>1. InHand(l) = 0
      BY <2>1 DEF InHand
    <3> QED
      BY <3>1, TermsType DEF Counted
  <2> QED
    BY <2>1 DEF CountsAddUp, Total, Passed, Took, Late
<1> QED
  BY <1>1, <1>2, FlowInvariant, NextDeadLettered, NextCounted, PTL DEF Spec
=============================================================================
