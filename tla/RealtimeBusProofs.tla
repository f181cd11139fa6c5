------------------------- MODULE RealtimeBusProofs -------------------------
(***************************************************************************)
(* Theorems about RealtimeBus, for every Capacity and every number of      *)
(* events.                                                                 *)
(*                                                                         *)
(* NoNullEvent has to survive the time after an overflow, when both        *)
(* threads store tail_ and may move it back.  What saves it is Written:    *)
(* until head_ comes round to slot 0 every copy of tail_ a thread holds is *)
(* at most head_, and from then on no slot is null.                        *)
(*                                                                         *)
(* ExactUntilOverflow rests on Exact, which numbers the events: as long as *)
(* only the processor pops, the ring holds the last Used(head_, tail_)     *)
(* events accepted, in order, and every earlier one was delivered once.    *)
(***************************************************************************)
EXTENDS RealtimeBus, TLAPS

\* Stepping an index around the ring, without the remainder.
LEMMA NextSlotValue ==
    ASSUME NEW k \in Slot
    PROVE  /\ NextSlot(k) \in Slot
           /\ NextSlot(k) = IF k + 1 = Capacity THEN 0 ELSE k + 1
<1>1. Capacity \in Nat \ {0}
  BY CapacityAssumption
<1>2. CASE k + 1 = Capacity
  <2>1. Capacity % Capacity = 0
    BY <1>1
  <2> QED
    BY <1>1, <1>2, <2>1 DEF NextSlot, Slot
<1>3. CASE k + 1 # Capacity
  <2>1. (k + 1) % Capacity = k + 1
    BY <1>1, <1>3 DEF Slot
  <2> QED
    BY <1>1, <1>3, <2>1 DEF NextSlot, Slot
<1> QED
  BY <1>2, <1>3

\* How many slots are filled, and which.
LEMMA UsedValue ==
    ASSUME NEW h \in Slot, NEW t \in Slot
    PROVE  /\ Used(h, t) \in 0 .. Capacity - 1
           /\ Used(h, t) = 0 <=> h = t
           /\ SlotFrom(t, 0) = t
           /\ SlotFrom(t, Used(h, t)) = h
           /\ \A k \in 0 .. Used(h, t) - 1 : /\ SlotFrom(t, k) \in Slot
                                             /\ SlotFrom(t, k) # h
  BY CapacityAssumption DEF Slot, Used, SlotFrom

\* A step of head_ adds one slot at the end, a step of tail_ takes the first.
LEMMA UsedStep ==
    ASSUME NEW h \in Slot, NEW t \in Slot
    PROVE  /\ NextSlot(h) # t => Used(NextSlot(h), t) = Used(h, t) + 1
           /\ h # t => /\ Used(h, NextSlot(t)) = Used(h, t) - 1
                       /\ \A k \in 0 .. Used(h, t) - 2 :
                             SlotFrom(NextSlot(t), k) = SlotFrom(t, k + 1)
<1>1. /\ NextSlot(h) \in Slot
      /\ NextSlot(h) = IF h + 1 = Capacity THEN 0 ELSE h + 1
      /\ NextSlot(t) \in Slot
      /\ NextSlot(t) = IF t + 1 = Capacity THEN 0 ELSE t + 1
  BY NextSlotValue
<1> QED
  BY <1>1, CapacityAssumption DEF Slot, Used, SlotFrom

\* Counting an event; a null one has no counter.
LEMMA OnceType ==
    ASSUME NEW f \in [Event -> Nat], NEW e
    PROVE  /\ Once(f, e) \in [Event -> Nat]
           /\ \A x \in Event : Once(f, e)[x] = IF x = e THEN f[x] + 1 ELSE f[x]
<1>1. Once(f, e) = [x \in Event |-> IF x = e THEN f[e] + 1 ELSE f[x]]
  BY DEF Once
<1> QED
  BY <1>1

----------------------------------------------------------------------------
(* Types *)

\* Inside push() there is an event, and an attempt is left.
Pushing == dpc # "idle" => evt \in Event /\ retry_count < MAX_RETRIES

TypeInv == TypeOK /\ Pushing

LEMMA InitTypeInv == Init => TypeInv
<1> SUFFICES ASSUME Init PROVE TypeInv
  OBVIOUS
<1>1. 0 \in Slot
  BY CapacityAssumption DEF Slot
<1>2. MAX_RETRIES \in Nat /\ 0 \in 0 .. MAX_RETRIES
  BY BoundAssumption
<1> QED
  BY <1>1, <1>2 DEF Init, TypeInv, TypeOK, Pushing

LEMMA NextTypeInv == TypeInv /\ [Next]_vars => TypeInv'
<1> SUFFICES ASSUME TypeInv, [Next]_vars
             PROVE  TypeInv'
  OBVIOUS
<1> USE BoundAssumption DEF TypeInv, TypeOK, Pushing
<1>n. \A k \in Slot : NextSlot(k) \in Slot
  BY NextSlotValue
<1>o. \A f \in [Event -> Nat], e \in Event \cup {NoEvent} : Once(f, e) \in [Event -> Nat]
  BY OnceType
<1>1. CASE Dispatch
  BY <1>1 DEF Dispatch, ring, cvars, counts, Event, NoEvent
<1>2. CASE PushSize
  BY <1>2 DEF PushSize, ring, cvars, counts
<1>3. CASE PushRoom
  BY <1>3 DEF PushRoom, ring, cvars
<1>4. CASE PushWrite
  BY <1>4 DEF PushWrite, cvars, counts
<1>5. CASE PushPublish
  BY <1>5, <1>n DEF PushPublish, cvars
<1>6. CASE DropOld
  BY <1>6 DEF DropOld, ring, cvars, counts
<1>z. 0 \in Slot
  BY CapacityAssumption DEF Slot
<1>7. CASE DropOldStore
  <2>1. Once(dlq, dold) \in [Event -> Nat]
    BY <1>o
  <2> QED
    BY <1>7, <1>n, <1>z, <2>1 DEF DropOldStore, cvars
<1>8. CASE PushAgainRoom
  BY <1>8 DEF PushAgainRoom, ring, cvars, counts
<1>9. CASE PushAgainFull
  <2>1. Once(dlq, evt) \in [Event -> Nat] /\ Once(Once(dlq, evt), evt) \in [Event -> Nat]
    BY <1>o
  <2> QED
    BY <1>9, <2>1 DEF PushAgainFull, ring, cvars
<1>10. CASE PopLoad \/ PopCheck \/ PopRead
  BY <1>10 DEF PopLoad, PopCheck, PopRead, ring, dvars, counts
<1>11. CASE PopStore
  <2>1. Once(delivered, citem) \in [Event -> Nat]
    BY <1>o
  <2> QED
    BY <1>11, <1>n, <1>z, <2>1 DEF PopStore, dvars
<1>12. CASE UNCHANGED vars
  BY <1>12 DEF vars, ring, dvars, cvars, counts
<1> QED
  BY <1>1, <1>2, <1>3, <1>4, <1>5, <1>6, <1>7, <1>8, <1>9, <1>10, <1>11, <1>12
     DEF Next, Dispatcher, Processor

\* Indices stay inside the ring and the retries inside their limit, also while
\* both threads pop.
THEOREM TypeCorrect == Spec => []TypeOK
<1>1. TypeInv => TypeOK
  BY DEF TypeInv
<1> QED
  BY <1>1, InitTypeInv, NextTypeInv, PTL DEF Spec

----------------------------------------------------------------------------
(* No null event *)

\* head_ has not come round yet: the slots before it are written, and nobody
\* holds an index beyond it.
Unwrapped == /\ \A s \in Slot : s < head_ => buffer_[s] # NoEvent
             /\ tail_ <= head_
             /\ cpc = "check" => ctail <= head_
             /\ cpc \in {"read", "store"} => ctail < head_
             /\ dpc = "dropped" => dtail < head_

Written == \/ Unwrapped
           \/ \A s \in Slot : buffer_[s] # NoEvent

NullInv == /\ TypeInv
           /\ Written
           /\ dpc = "publish" => buffer_[head_] # NoEvent
           /\ NoNullEvent

LEMMA InitNullInv == Init => NullInv
<1> SUFFICES ASSUME Init PROVE NullInv
  OBVIOUS
<1>1. TypeInv
  BY InitTypeInv
<1>2. Unwrapped
  BY <1>1 DEF Init, Unwrapped, TypeInv, TypeOK, Slot
<1> QED
  BY <1>1, <1>2 DEF Init, NullInv, Written, NoNullEvent

LEMMA NextNullInv == NullInv /\ [Next]_vars => NullInv'
<1> SUFFICES ASSUME NullInv, [Next]_vars
             PROVE  NullInv'
  OBVIOUS
<1>t. TypeInv /\ TypeInv'
  BY NextTypeInv DEF NullInv
<1>c. Capacity \in Nat \ {0}
  BY CapacityAssumption
<1> USE <1>c DEF TypeInv, TypeOK, Slot
<1>w. Unwrapped \/ \A s \in Slot : buffer_[s] # NoEvent
  BY DEF NullInv, Written
<1>e. NoEvent \notin Event
  BY BoundAssumption DEF NoEvent, Event
<1>n. \A k \in Slot : NextSlot(k) = IF k + 1 = Capacity THEN 0 ELSE k + 1
  BY NextSlotValue DEF Slot
<1>1. CASE Dispatch \/ PushSize \/ PushRoom \/ PushAgainRoom \/ PushAgainFull
  BY <1>1, <1>t DEF Dispatch, PushSize, PushRoom, PushAgainRoom, PushAgainFull, ring, cvars,
        NullInv, Written, Unwrapped, NoNullEvent
<1>2. CASE PushWrite
  <2>1. evt # NoEvent
    BY <1>2, <1>t, <1>e DEF PushWrite, Pushing
  <2> QED
    BY <1>2, <1>t, <2>1 DEF PushWrite, cvars, NullInv, Written, Unwrapped, NoNullEvent
<1>3. CASE PushPublish
  <2>1. CASE Unwrapped /\ head_ + 1 < Capacity
    <3>1. head_' = head_ + 1
      BY <1>3, <1>t, <1>n, <2>1 DEF PushPublish
    <3>2. Unwrapped'
      BY <1>3, <1>t, <2>1, <3>1 DEF PushPublish, cvars, NullInv, Unwrapped
    <3> QED
      BY <1>3, <1>t, <3>2 DEF PushPublish, cvars, NullInv, Written, NoNullEvent
  <2>2. CASE Unwrapped /\ head_ + 1 = Capacity
    <3>1. \A s \in Slot : buffer_[s] # NoEvent
      BY <1>3, <1>t, <2>2 DEF PushPublish, NullInv, Unwrapped
    <3> QED
      BY <1>3, <1>t, <3>1 DEF PushPublish, cvars, NullInv, Written, NoNullEvent
  <2>3. CASE \A s \in Slot : buffer_[s] # NoEvent
    BY <1>3, <1>t, <2>3 DEF PushPublish, cvars, NullInv, Written, NoNullEvent
  <2>4. head_ + 1 < Capacity \/ head_ + 1 = Capacity
    BY <1>t
  <2> QED
    BY <1>w, <2>1, <2>2, <2>3, <2>4
<1>4. CASE DropOld
  <2>1. tail_ # head_ => buffer_[tail_] # NoEvent
    <3>1. CASE Unwrapped
      BY <1>t, <3>1 DEF Unwrapped
    <3>2. CASE \A s \in Slot : buffer_[s] # NoEvent
      BY <1>t, <3>2
    <3> QED
      BY <1>w, <3>1, <3>2
  <2>2. Written'
    BY <1>4, <1>t DEF DropOld, ring, cvars, NullInv, Written, Unwrapped
  <2> QED
    BY <1>4, <1>t, <2>1, <2>2 DEF DropOld, ring, cvars, NullInv, NoNullEvent
<1>5. CASE DropOldStore
  <2>1. Written'
    <3>1. CASE Unwrapped
      <4>1. tail_' = dtail + 1 /\ dtail + 1 <= head_
        BY <1>5, <1>t, <1>n, <3>1 DEF DropOldStore, Unwrapped
      <4> QED
        BY <1>5, <1>t, <3>1, <4>1 DEF DropOldStore, cvars, Unwrapped, Written
    <3>2. CASE \A s \in Slot : buffer_[s] # NoEvent
      BY <1>5, <3>2 DEF DropOldStore, Written
    <3> QED
      BY <1>w, <3>1, <3>2
  <2> QED
    BY <1>5, <1>t, <2>1 DEF DropOldStore, cvars, NullInv, NoNullEvent
<1>6. CASE PopLoad \/ PopCheck
  <2>1. Written'
    <3>1. CASE Unwrapped /\ PopLoad
      BY <1>t, <3>1 DEF PopLoad, ring, dvars, Unwrapped, Written
    <3>2. CASE Unwrapped /\ PopCheck
      BY <1>t, <3>2 DEF PopCheck, ring, dvars, Unwrapped, Written
    <3>3. CASE \A s \in Slot : buffer_[s] # NoEvent
      BY <1>6, <3>3 DEF PopLoad, PopCheck, ring, Written
    <3> QED
      BY <1>6, <1>w, <3>1, <3>2, <3>3
  <2> QED
    BY <1>6, <1>t, <2>1 DEF PopLoad, PopCheck, ring, dvars, NullInv, NoNullEvent
<1>7. CASE PopRead
  <2>1. buffer_[ctail] # NoEvent
    <3>1. CASE Unwrapped
      BY <1>7, <1>t, <3>1 DEF PopRead, Unwrapped
    <3>2. CASE \A s \in Slot : buffer_[s] # NoEvent
      BY <1>t, <3>2
    <3> QED
      BY <1>w, <3>1, <3>2
  <2>2. Written'
    BY <1>7, <1>t DEF PopRead, ring, dvars, NullInv, Written, Unwrapped
  <2> QED
    BY <1>7, <1>t, <2>1, <2>2 DEF PopRead, ring, dvars, NullInv, NoNullEvent
<1>8. CASE PopStore
  <2>1. Written'
    <3>1. CASE Unwrapped
      <4>1. tail_' = ctail + 1 /\ ctail + 1 <= head_
        BY <1>8, <1>t, <1>n, <3>1 DEF PopStore, Unwrapped
      <4> QED
        BY <1>8, <1>t, <3>1, <4>1 DEF PopStore, dvars, Unwrapped, Written
    <3>2. CASE \A s \in Slot : buffer_[s] # NoEvent
      BY <1>8, <3>2 DEF PopStore, Written
    <3> QED
      BY <1>w, <3>1, <3>2
  <2> QED
    BY <1>8, <1>t, <2>1 DEF PopStore, dvars, NullInv, NoNullEvent
<1>9. CASE UNCHANGED vars
  BY <1>9, <1>t DEF vars, ring, dvars, cvars, NullInv, Written, Unwrapped, NoNullEvent
<1> QED
  BY <1>1, <1>2, <1>3, <1>4, <1>5, <1>6, <1>7, <1>8, <1>9 DEF Next, Dispatcher, Processor

\* Neither thread ever takes a null EventPtr out of the ring, although after an
\* overflow each may store a tail_ the other has moved past.
THEOREM NeverNull == Spec => []NoNullEvent
<1>1. NullInv => NoNullEvent
  BY DEF NullInv
<1> QED
  BY <1>1, InitNullInv, NextNullInv, PTL DEF Spec

----------------------------------------------------------------------------
(* Exactness before the first overflow *)

\* The last event push() returned true for: all before it were accepted too.
Last == IF dpc = "idle" THEN evt ELSE evt - 1

\* The event that pop() hands out next.
First == Last - Used(head_, tail_) + 1

\* What the two threads know of the ring.
Knows == /\ cpc # "idle" => ctail = tail_
         /\ cpc \in {"read", "store"} => tail_ # head_
         /\ cpc = "store" => citem = First
         /\ dpc \in {"write", "publish"} => NextSlot(head_) # tail_
         /\ dpc = "publish" => buffer_[head_] = evt

\* The ring holds the events First .. Last; those before were delivered.
Numbered == /\ accepted = 1 .. Last
            /\ Used(head_, tail_) <= Last
            /\ \A e \in Event : delivered[e] = IF e < First THEN 1 ELSE 0
            /\ \A k \in 0 .. Used(head_, tail_) - 1 : buffer_[SlotFrom(tail_, k)] = First + k

Exact == ~overflowed => /\ dpc \in {"idle", "size", "room", "write", "publish"}
                        /\ \A e \in Event : dlq[e] = 0
                        /\ Knows
                        /\ Numbered

ExactInv == TypeInv /\ Exact

LEMMA InitExactInv == Init => ExactInv
<1> SUFFICES ASSUME Init PROVE ExactInv
  OBVIOUS
<1>1. TypeInv
  BY InitTypeInv
<1>2. 0 \in Slot /\ Used(0, 0) = 0
  BY CapacityAssumption DEF Slot, Used
<1>3. Last = 0 /\ First = 1
  BY <1>2 DEF Init, Last, First, NoEvent
<1>4. \A e \in Event : ~(e < 1)
  BY BoundAssumption DEF Event
<1>5. 1 .. 0 = {}
  OBVIOUS
<1>6. Numbered
  BY <1>2, <1>3, <1>4, <1>5 DEF Init, Numbered
<1> QED
  BY <1>1, <1>6 DEF Init, ExactInv, Exact, Knows

LEMMA NextExactInv == ExactInv /\ [Next]_vars => ExactInv'
<1> SUFFICES ASSUME ExactInv, [Next]_vars
             PROVE  ExactInv'
  OBVIOUS
<1>t. TypeInv /\ TypeInv'
  BY NextTypeInv DEF ExactInv
<1> SUFFICES ASSUME ~overflowed' PROVE Exact'
  BY <1>t DEF ExactInv, Exact
<1>o. ~overflowed
  BY DEF Next, Dispatcher, Processor, Dispatch, PushSize, PushRoom, PushWrite, PushPublish,
         DropOld, DropOldStore, PushAgainRoom, PushAgainFull, PopLoad, PopCheck, PopRead,
         PopStore, vars, counts
<1>x. /\ dpc \in {"idle", "size", "room", "write", "publish"}
      /\ \A e \in Event : dlq[e] = 0
      /\ Knows
      /\ Numbered
  BY <1>o DEF ExactInv, Exact
<1>i. /\ head_ \in Slot /\ tail_ \in Slot /\ head_' \in Slot /\ tail_' \in Slot
      /\ evt \in Nat /\ (dpc # "idle" => evt >= 1)
  BY <1>t, BoundAssumption DEF TypeInv, TypeOK, Pushing, Event, NoEvent
<1>u. Used(head_, tail_) \in Nat /\ (Used(head_, tail_) = 0 <=> head_ = tail_)
  BY <1>i, UsedValue
<1>c. Capacity \in Nat \ {0}
  BY CapacityAssumption
<1>l. Last \in Nat /\ First \in Nat /\ First >= 1 /\ First + Used(head_, tail_) = Last + 1
  <2>1. Used(head_, tail_) <= Last
    BY <1>x DEF Numbered
  <2>2. Last \in Nat
    BY <1>i DEF Last
  <2> QED
    BY <1>u, <2>1, <2>2 DEF First
<1>1. CASE Dispatch
  <2>1. Last' = Last /\ First' = First
    BY <1>1, <1>i DEF Dispatch, ring, Last, First
  <2> QED
    BY <1>1, <1>x, <2>1 DEF Dispatch, ring, cvars, counts, Exact, Knows, Numbered
<1>2. CASE PushSize
  <2>1. Last' = Last /\ First' = First
    BY <1>2 DEF PushSize, ring, Last, First
  <2> QED
    BY <1>2, <1>x, <2>1 DEF PushSize, ring, cvars, counts, Exact, Knows, Numbered
<1>3. CASE PushRoom
  <2>1. NextSlot(head_) # tail_ /\ dpc' = "write"
    BY <1>3, <1>o DEF PushRoom
  <2>2. Last' = Last /\ First' = First
    BY <1>3, <2>1 DEF PushRoom, ring, Last, First
  <2> QED
    BY <1>3, <1>x, <2>1, <2>2 DEF PushRoom, ring, cvars, Exact, Knows, Numbered
<1>4. CASE PushWrite
  <2>1. Last' = Last /\ First' = First
    BY <1>4 DEF PushWrite, Last, First
  <2>2. \A k \in 0 .. Used(head_, tail_) - 1 : /\ SlotFrom(tail_, k) \in Slot
                                               /\ SlotFrom(tail_, k) # head_
    BY <1>i, UsedValue
  <2>3. buffer_ \in [Slot -> Event \cup {NoEvent}]
    BY <1>t DEF TypeInv, TypeOK
  <2>4. Numbered'
    BY <1>4, <1>x, <2>1, <2>2, <2>3 DEF PushWrite, counts, Numbered
  <2>5. Knows'
    BY <1>4, <1>i, <1>x, <2>1, <2>3 DEF PushWrite, cvars, Knows
  <2> QED
    BY <1>4, <1>x, <2>4, <2>5 DEF PushWrite, counts, Exact
<1>5. CASE PushPublish
  <2>1. NextSlot(head_) # tail_ /\ buffer_[head_] = evt
    BY <1>5, <1>x DEF PushPublish, Knows
  <2>2. Used(head_', tail_') = Used(head_, tail_) + 1
    BY <1>5, <1>i, <2>1, UsedStep DEF PushPublish
  <2>3. Last' = Last + 1 /\ Last' = evt
    BY <1>5, <1>i DEF PushPublish, Last
  <2>4. First' = First
    BY <1>l, <1>u, <2>2, <2>3 DEF First
  <2>5. SlotFrom(tail_, Used(head_, tail_)) = head_
    BY <1>i, UsedValue
  <2>6. accepted' = 1 .. Last'
    <3>1. accepted = 1 .. Last
      BY <1>x DEF Numbered
    <3>2. 1 .. Last + 1 = (1 .. Last) \cup {Last + 1}
      BY <1>l
    <3> QED
      BY <1>5, <2>3, <3>1, <3>2 DEF PushPublish
  <2>7. ASSUME NEW k \in 0 .. Used(head_', tail_') - 1
        PROVE  buffer_'[SlotFrom(tail_', k)] = First' + k
    <3>1. buffer_' = buffer_ /\ tail_' = tail_
      BY <1>5 DEF PushPublish
    <3>2. CASE k < Used(head_, tail_)
      <4>1. k \in 0 .. Used(head_, tail_) - 1
        BY <1>u, <2>2, <3>2
      <4> QED
        BY <1>x, <2>4, <3>1, <4>1 DEF Numbered
    <3>3. CASE k = Used(head_, tail_)
      BY <1>l, <2>1, <2>3, <2>4, <2>5, <3>1, <3>3
    <3> QED
      BY <1>u, <2>2, <3>2, <3>3
  <2>8. Numbered'
    BY <1>5, <1>x, <1>l, <1>u, <2>2, <2>3, <2>4, <2>6, <2>7 DEF PushPublish, Numbered
  <2>9. Knows'
    <3>1. Used(head_', tail_') # 0
      BY <1>u, <2>2
    <3>2. tail_' # head_'
      BY <1>i, <3>1, UsedValue
    <3> QED
      BY <1>5, <1>x, <2>4, <3>2 DEF PushPublish, cvars, Knows
  <2> QED
    BY <1>5, <1>x, <2>8, <2>9 DEF PushPublish, Exact
<1>6. CASE DropOld \/ DropOldStore \/ PushAgainRoom \/ PushAgainFull
  BY <1>6, <1>x DEF DropOld, DropOldStore, PushAgainRoom, PushAgainFull
<1>7. CASE PopLoad \/ PopCheck
  <2>1. Last' = Last /\ First' = First
    BY <1>7 DEF PopLoad, PopCheck, ring, dvars, Last, First
  <2> QED
    BY <1>7, <1>x, <2>1
       DEF PopLoad, PopCheck, ring, dvars, counts, Exact, Knows, Numbered
<1>8. CASE PopRead
  <2>1. Last' = Last /\ First' = First
    BY <1>8 DEF PopRead, ring, dvars, Last, First
  <2>2. citem' = First
    <3>1. SlotFrom(tail_, 0) = tail_
      BY <1>i, UsedValue
    <3>2. ctail = tail_ /\ tail_ # head_
      BY <1>8, <1>x DEF PopRead, Knows
    <3>3. 0 \in 0 .. Used(head_, tail_) - 1
      BY <1>u, <3>2
    <3>4. buffer_[SlotFrom(tail_, 0)] = First + 0
      BY <1>x, <3>3 DEF Numbered
    <3> QED
      BY <1>8, <1>l, <3>1, <3>2, <3>4 DEF PopRead
  <2> QED
    BY <1>8, <1>x, <2>1, <2>2 DEF PopRead, ring, dvars, counts, Exact, Knows, Numbered
<1>9. CASE PopStore
  <2>1. ctail = tail_ /\ tail_ # head_ /\ citem = First
    BY <1>9, <1>x DEF PopStore, Knows
  <2>2. /\ Used(head_', tail_') = Used(head_, tail_) - 1
        /\ \A k \in 0 .. Used(head_, tail_) - 2 : SlotFrom(tail_', k) = SlotFrom(tail_, k + 1)
    BY <1>9, <1>i, <2>1, UsedStep DEF PopStore
  <2>3. Last' = Last
    BY <1>9 DEF PopStore, dvars, Last
  <2>4. First' = First + 1
    BY <1>l, <1>u, <2>2, <2>3 DEF First
  <2>5. \A e \in Event : delivered'[e] = IF e < First' THEN 1 ELSE 0
    <3>1. delivered \in [Event -> Nat]
      BY <1>t DEF TypeInv, TypeOK
    <3>2. \A e \in Event : delivered'[e] = IF e = First THEN delivered[e] + 1 ELSE delivered[e]
      BY <1>9, <2>1, <3>1, OnceType DEF PopStore
    <3>3. \A e \in Event : e \in Nat
      BY BoundAssumption DEF Event
    <3> QED
      BY <1>l, <1>x, <2>4, <3>2, <3>3 DEF Numbered
  <2>6. ASSUME NEW k \in 0 .. Used(head_', tail_') - 1
        PROVE  buffer_'[SlotFrom(tail_', k)] = First' + k
    <3>1. k \in 0 .. Used(head_, tail_) - 2 /\ k + 1 \in 0 .. Used(head_, tail_) - 1
      BY <1>u, <2>2
    <3>2. buffer_[SlotFrom(tail_, k + 1)] = First + (k + 1)
      BY <1>x, <3>1 DEF Numbered
    <3>3. buffer_' = buffer_
      BY <1>9 DEF PopStore
    <3> QED
      BY <1>l, <2>2, <2>4, <3>1, <3>2, <3>3
  <2>7. Numbered'
    <3>1. Used(head_', tail_') <= Last'
      BY <1>l, <1>u, <1>x, <2>2, <2>3 DEF Numbered
    <3> QED
      BY <1>9, <1>x, <2>3, <2>5, <2>6, <3>1 DEF PopStore, Numbered
  <2>8. Knows'
    <3>1. dpc \in {"write", "publish"} => NextSlot(head_) # NextSlot(tail_)
      BY <1>i, <1>c, <2>1, NextSlotValue DEF Slot
    <3> QED
      BY <1>9, <1>x, <2>1, <3>1 DEF PopStore, dvars, Knows
  <2> QED
    BY <1>9, <1>x, <2>7, <2>8 DEF PopStore, dvars, Exact
<1>10. CASE UNCHANGED vars
  <2>1. Last' = Last /\ First' = First
    BY <1>10 DEF vars, ring, dvars, Last, First
  <2> QED
    BY <1>10, <1>x, <2>1 DEF vars, ring, dvars, cvars, counts, Exact, Knows, Numbered
<1> QED
  BY <1>1, <1>2, <1>3, <1>4, <1>5, <1>6, <1>7, <1>8, <1>9, <1>10
     DEF Next, Dispatcher, Processor

\* Until the ring overflows for the first time, the lane loses nothing, delivers
\* nothing twice and puts nothing in the DLQ.
THEOREM ExactBeforeOverflow == Spec => []ExactUntilOverflow
<1>1. ExactInv => ExactUntilOverflow
  <2> SUFFICES ASSUME ExactInv, ~overflowed
               PROVE  /\ \A e \in accepted : delivered[e] + (IF e \in InRing THEN 1 ELSE 0) = 1
                      /\ \A e \in Event : delivered[e] > 0 => e \in accepted
                      /\ \A e \in Event : dlq[e] = 0
    BY DEF ExactUntilOverflow
  <2>1. Numbered /\ \A e \in Event : dlq[e] = 0
    BY DEF ExactInv, Exact
  <2>2. /\ head_ \in Slot /\ tail_ \in Slot /\ accepted \subseteq Event
        /\ evt \in Nat /\ (dpc # "idle" => evt >= 1)
    BY BoundAssumption DEF ExactInv, TypeInv, TypeOK, Pushing, Event, NoEvent
  <2>3. Used(head_, tail_) \in Nat
    BY <2>2, UsedValue
  <2>4. Last \in Nat /\ First \in Nat /\ First >= 1 /\ First + Used(head_, tail_) = Last + 1
    BY <2>1, <2>2, <2>3 DEF Last, First, Numbered
  <2>5. \A e \in Nat : e \in InRing <=> First <= e /\ e <= Last
    <3>1. ASSUME NEW e \in Nat, e \in InRing PROVE First <= e /\ e <= Last
      <4>1. PICK k \in 0 .. Used(head_, tail_) - 1 : e = buffer_[SlotFrom(tail_, k)]
        BY <3>1 DEF InRing
      <4>2. e = First + k
        BY <2>1, <4>1 DEF Numbered
      <4> QED
        BY <2>3, <2>4, <4>2
    <3>2. ASSUME NEW e \in Nat, First <= e, e <= Last PROVE e \in InRing
      <4>1. e - First \in 0 .. Used(head_, tail_) - 1
        BY <2>3, <2>4, <3>2
      <4>2. buffer_[SlotFrom(tail_, e - First)] = First + (e - First)
        BY <2>1, <4>1 DEF Numbered
      <4>3. First + (e - First) = e
        BY <2>4
      <4> QED
        BY <4>1, <4>2, <4>3 DEF InRing
    <3> QED
      BY <3>1, <3>2
  <2>6. ASSUME NEW e \in accepted
        PROVE  delivered[e] + (IF e \in InRing THEN 1 ELSE 0) = 1
    <3>1. e \in Event /\ e \in Nat /\ e <= Last
      BY <2>1, <2>2, <2>4 DEF Numbered
    <3>2. delivered[e] = IF e < First THEN 1 ELSE 0
      BY <2>1, <3>1 DEF Numbered
    <3> QED
      BY <2>4, <2>5, <3>1, <3>2
  <2>7. ASSUME NEW e \in Event, delivered[e] > 0 PROVE e \in accepted
    <3>1. e \in Nat /\ e >= 1
      BY BoundAssumption DEF Event
    <3>2. e < First
      BY <2>1, <2>7 DEF Numbered
    <3>3. e \in 1 .. Last
      BY <2>3, <2>4, <3>1, <3>2
    <3> QED
      BY <2>1, <3>3 DEF Numbered
  <2> QED
    BY <2>1, <2>6, <2>7
<1> QED
  BY <1>1, InitExactInv, NextExactInv, PTL DEF Spec
============================================================================
