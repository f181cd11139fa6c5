---------------------------- MODULE RealtimeBus ----------------------------
(***************************************************************************)
(* The REALTIME lane of EventBusMulti (src/core/events/event_bus.cpp): an  *)
(* SpscRingBuffer with the DROP_OLD policy between the Dispatcher's thread *)
(* and the RealtimeProcessor's thread.                                     *)
(*                                                                         *)
(* When push() finds the ring full, the Dispatcher's thread itself calls   *)
(* ringBuffer.pop() to make room, so two threads pop.  Each thread's       *)
(* accesses to tail_ are therefore steps of their own, and a thread stores *)
(* the tail_ it computed from the value it loaded, whatever was stored in  *)
(* between.  When a slot is written while the other thread copies it, the  *)
(* model lets the copy be the old event or the new one; in the build it is *)
(* a data race on a shared_ptr and can be worse.                           *)
(*                                                                         *)
(* Events are numbered in the order the Dispatcher takes them.             *)
(***************************************************************************)
EXTENDS RingIndex

CONSTANTS MaxEvents,      \* bound: how many events the Dispatcher takes
          MAX_RETRIES,    \* dispatchLoop's constant, 3
          HighMark,       \* ring use from which pressure is HIGH, 12000
          CriticalMark    \* ring use from which pressure is CRITICAL, 14000

ASSUME BoundAssumption == MaxEvents \in Nat /\ MAX_RETRIES \in Nat \ {0}
ASSUME MarkAssumption == HighMark <= CriticalMark /\ CriticalMark < Capacity

Event == 1 .. MaxEvents
NoEvent == 0              \* a null EventPtr: a slot never written

VARIABLES
    buffer_, head_, tail_,  \* RealtimeBus_.ringBuffer
    pressure,               \* RealtimeBus_.pressure
    dpc,                    \* where the Dispatcher's thread is
    evt,                    \* the event it is pushing
    retry_count,            \* dispatchLoop's local variable
    dtail,                  \* its pop()'s local variable tail
    dold,                   \* the event its pop() took
    cpc,                    \* where the RealtimeProcessor's thread is in pop()
    ctail,                  \* its pop()'s local variable tail
    citem,                  \* its pop()'s local variable item
    dlq,                    \* how often each event was put in the DLQ
    total_events_dropped,   \* the bus's metric
    accepted,               \* history: the events push() returned true for
    delivered,              \* history: how often each event was handed out
    overflowed              \* history: push() has found the ring full

ring == <<buffer_, head_, tail_>>
dvars == <<pressure, dpc, evt, retry_count, dtail, dold>>
cvars == <<cpc, ctail, citem>>
counts == <<dlq, total_events_dropped, accepted, delivered, overflowed>>
vars == <<ring, dvars, cvars, counts>>

Init == /\ buffer_ = [i \in Slot |-> NoEvent] /\ head_ = 0 /\ tail_ = 0
        /\ pressure = "NORMAL"
        /\ dpc = "idle" /\ evt = NoEvent /\ retry_count = 0
        /\ dtail = 0 /\ dold = NoEvent
        /\ cpc = "idle" /\ ctail = 0 /\ citem = NoEvent
        /\ dlq = [e \in Event |-> 0] /\ total_events_dropped = 0
        /\ accepted = {} /\ delivered = [e \in Event |-> 0] /\ overflowed = FALSE

Once(f, e) == [f EXCEPT ![e] = @ + 1]

----------------------------------------------------------------------------
(* The Dispatcher's thread: push(REALTIME, evt), and dispatchLoop around it *)

Dispatch == /\ dpc = "idle"
            /\ evt < MaxEvents
            /\ evt' = evt + 1
            /\ retry_count' = 0
            /\ dpc' = "size"
            /\ UNCHANGED <<ring, pressure, dtail, dold, cvars, counts>>

\* used = ringBuffer.size(); pressure.store(...)
PushSize == /\ dpc = "size"
            /\ LET used == Used(head_, tail_)
               IN  pressure' = IF used >= CriticalMark THEN "CRITICAL"
                               ELSE IF used >= HighMark THEN "HIGH"
                               ELSE "NORMAL"
            /\ dpc' = "room"
            /\ UNCHANGED <<ring, evt, retry_count, dtail, dold, cvars, counts>>

\* The full test of the first push() forgotten.
PushRoomUnchecked == /\ dpc = "room"
                     /\ dpc' = "write"
                     /\ UNCHANGED <<ring, pressure, evt, retry_count, dtail, dold, cvars, dlq,
                                    total_events_dropped, accepted, delivered, overflowed>>

\* ringBuffer.push(evt): the full test
PushRoom == /\ dpc = "room"
            /\ LET full == NextSlot(head_) = tail_
               IN  /\ dpc' = IF full THEN "drop" ELSE "write"
                   /\ overflowed' = (overflowed \/ full)
            /\ UNCHANGED <<ring, pressure, evt, retry_count, dtail, dold, cvars, dlq,
                           total_events_dropped, accepted, delivered>>

\* buffer_[head] = item
PushWrite == /\ dpc = "write"
             /\ buffer_' = [buffer_ EXCEPT ![head_] = evt]
             /\ dpc' = "publish"
             /\ UNCHANGED <<head_, tail_, pressure, evt, retry_count, dtail, dold, cvars, counts>>

\* head_.store(next); return true, and dispatchLoop is done with the event
PushPublish == /\ dpc = "publish"
               /\ head_' = NextSlot(head_)
               /\ accepted' = accepted \cup {evt}
               /\ dpc' = "idle"
               /\ UNCHANGED <<buffer_, tail_, pressure, evt, retry_count, dtail, dold, cvars,
                              dlq, total_events_dropped, delivered, overflowed>>

\* old_evt = ringBuffer.pop(): the tail, the empty test and the copy
DropOld == /\ dpc = "drop"
           /\ dtail' = tail_
           /\ IF tail_ = head_
              THEN dpc' = "again" /\ UNCHANGED dold
              ELSE dpc' = "dropped" /\ dold' = buffer_[tail_]
           /\ UNCHANGED <<ring, pressure, evt, retry_count, cvars, counts>>

\* ... its store of tail_; dlq_.push(*old_evt.value())
DropOldStore == /\ dpc = "dropped"
                /\ tail_' = NextSlot(dtail)
                /\ dlq' = Once(dlq, dold)
                /\ total_events_dropped' = total_events_dropped + 1
                /\ dold' = NoEvent
                /\ dtail' = 0
                /\ dpc' = "again"
                /\ UNCHANGED <<buffer_, head_, pressure, evt, retry_count, cvars, accepted,
                               delivered, overflowed>>

\* the second ringBuffer.push(evt) finds room
PushAgainRoom == /\ dpc = "again"
                 /\ NextSlot(head_) # tail_
                 /\ dpc' = "write"
                 /\ UNCHANGED <<ring, pressure, evt, retry_count, dtail, dold, cvars, counts>>

\* ... or none: dlq_.push(*evt); return false, and dispatchLoop tries the whole
\* push() again or gives up with a dlq_.push of its own
PushAgainFull == /\ dpc = "again"
                 /\ NextSlot(head_) = tail_
                 /\ total_events_dropped' = total_events_dropped + 1
                 /\ retry_count' = retry_count + 1
                 /\ IF retry_count' < MAX_RETRIES
                    THEN dlq' = Once(dlq, evt) /\ dpc' = "size"
                    ELSE dlq' = Once(Once(dlq, evt), evt) /\ dpc' = "idle"
                 /\ UNCHANGED <<ring, pressure, evt, dtail, dold, cvars, accepted, delivered,
                                overflowed>>

Dispatcher == \/ PushSize \/ PushRoom \/ PushWrite \/ PushPublish
              \/ DropOld \/ DropOldStore \/ PushAgainRoom \/ PushAgainFull

----------------------------------------------------------------------------
(* The RealtimeProcessor's thread: pop(REALTIME) *)

\* tail = tail_.load()
PopLoad == /\ cpc = "idle"
           /\ ctail' = tail_
           /\ cpc' = "check"
           /\ UNCHANGED <<ring, dvars, citem, counts>>

\* The empty test forgotten.
PopCheckForgotten == /\ cpc = "check"
                     /\ cpc' = "read"
                     /\ UNCHANGED <<ring, dvars, ctail, citem, counts>>

\* if (tail == head_.load()) return nullopt
PopCheck == /\ cpc = "check"
            /\ cpc' = IF ctail = head_ THEN "idle" ELSE "read"
            /\ UNCHANGED <<ring, dvars, ctail, citem, counts>>

\* item = buffer_[tail]
PopRead == /\ cpc = "read"
           /\ citem' = buffer_[ctail]
           /\ cpc' = "store"
           /\ UNCHANGED <<ring, dvars, ctail, counts>>

\* The slot never given back.
PopStoreForgotten == /\ cpc = "store"
                     /\ delivered' = IF delivered[citem] < 3 THEN Once(delivered, citem)
                                                             ELSE delivered
                     /\ citem' = NoEvent
                     /\ ctail' = 0
                     /\ cpc' = "idle"
                     /\ UNCHANGED <<ring, dvars, dlq, total_events_dropped, accepted, overflowed>>

\* tail_.store(next); the event is handed to the processor
PopStore == /\ cpc = "store"
            /\ tail_' = NextSlot(ctail)
            /\ delivered' = Once(delivered, citem)
            /\ citem' = NoEvent
            /\ ctail' = 0
            /\ cpc' = "idle"
            /\ UNCHANGED <<buffer_, head_, dvars, dlq, total_events_dropped, accepted, overflowed>>

Processor == PopLoad \/ PopCheck \/ PopRead \/ PopStore

Next == Dispatch \/ Dispatcher \/ Processor

Spec == Init /\ [][Next]_vars

\* push() and pop() wait for nobody, and runLoop calls pop() over and over; the
\* Dispatcher need not get another event.
FairSpec == Spec /\ WF_vars(Dispatcher) /\ WF_vars(Processor)

----------------------------------------------------------------------------
(* Properties *)

TypeOK == /\ buffer_ \in [Slot -> Event \cup {NoEvent}]
          /\ head_ \in Slot /\ tail_ \in Slot
          /\ pressure \in {"NORMAL", "HIGH", "CRITICAL"}
          /\ dpc \in {"idle", "size", "room", "write", "publish", "drop", "dropped", "again"}
          /\ evt \in Event \cup {NoEvent}
          /\ retry_count \in 0 .. MAX_RETRIES
          /\ dtail \in Slot /\ dold \in Event \cup {NoEvent}
          /\ cpc \in {"idle", "check", "read", "store"}
          /\ ctail \in Slot /\ citem \in Event \cup {NoEvent}
          /\ dlq \in [Event -> Nat] /\ total_events_dropped \in Nat
          /\ accepted \subseteq Event /\ delivered \in [Event -> Nat]
          /\ overflowed \in BOOLEAN

\* Neither thread takes a null EventPtr out of the ring, although both popping
\* threads can move tail_ back onto slots that were given back: push() and pop()
\* of the bus dereference what they take without a test.
NoNullEvent == /\ cpc = "store" => citem # NoEvent
               /\ dpc = "dropped" => dold # NoEvent

\* The events between tail_ and head_.
InRing == {buffer_[SlotFrom(tail_, k)] : k \in 0 .. Used(head_, tail_) - 1}

\* Until push() finds the ring full for the first time the lane is exact: what
\* was accepted is waiting or was delivered, once, and nothing is in the DLQ.
ExactUntilOverflow ==
    ~overflowed =>
        /\ \A e \in accepted : delivered[e] + (IF e \in InRing THEN 1 ELSE 0) = 1
        /\ \A e \in Event : delivered[e] > 0 => e \in accepted
        /\ \A e \in Event : dlq[e] = 0

\* The lane comes to rest: once the Dispatcher gets no more events (an instance
\* has finitely many), the ring is emptied and stays empty, however often the two
\* popping threads moved tail_ back.
LaneDrains == <>[](dpc = "idle" /\ tail_ = head_)

\* An event that the bus accepted is waiting, is being handed out, was handed
\* out, or is in the DLQ.
NoSilentLoss == \A e \in accepted : \/ e \in InRing
                                    \/ e \in {citem, dold}
                                    \/ delivered[e] > 0
                                    \/ dlq[e] > 0
============================================================================
