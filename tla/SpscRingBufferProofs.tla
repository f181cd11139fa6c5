------------------------ MODULE SpscRingBufferProofs ------------------------
(***************************************************************************)
(* Theorems about SpscRingBuffer, for every Capacity and every set of      *)
(* items.  The argument rests on IInv: a thread that is past its test of   *)
(* the other thread's index stays past it, because the other thread only   *)
(* ever moves its index away.                                              *)
(***************************************************************************)
EXTENDS SpscRingBuffer, SequenceTheorems, TLAPS

\* Stepping an index around the ring, without the remainder.
LEMMA NextSlotValue ==
    ASSUME NEW i \in Slot
    PROVE  /\ NextSlot(i) \in Slot
           /\ NextSlot(i) = IF i + 1 = Capacity THEN 0 ELSE i + 1
<1>1. Capacity \in Nat \ {0}
  BY CapacityAssumption
<1>2. CASE i + 1 = Capacity
  <2>1. Capacity % Capacity = 0
    BY <1>1
  <2> QED
    BY <1>1, <1>2, <2>1 DEF NextSlot, Slot
<1>3. CASE i + 1 # Capacity
  <2>1. i + 1 \in 0 .. Capacity - 1
    BY <1>1, <1>3 DEF Slot
  <2>2. (i + 1) % Capacity = i + 1
    BY <1>1, <2>1
  <2> QED
    BY <1>1, <1>3, <2>1, <2>2 DEF NextSlot, Slot
<1> QED
  BY <1>2, <1>3

\* The number of filled slots, and the slots that are filled.
LEMMA UsedValue ==
    ASSUME NEW h \in Slot, NEW t \in Slot
    PROVE  /\ Used(h, t) \in 0 .. Capacity - 1
           /\ Used(h, t) = 0 <=> h = t
           /\ \A k \in 0 .. Used(h, t) - 1 : /\ SlotFrom(t, k) \in Slot
                                             /\ SlotFrom(t, k) # h
  BY CapacityAssumption DEF Slot, Used, SlotFrom

\* Publishing a slot adds it after the filled ones.
LEMMA UsedPublish ==
    ASSUME NEW h \in Slot, NEW t \in Slot
    PROVE  /\ NextSlot(h) = t <=> Used(h, t) = Capacity - 1
           /\ NextSlot(h) # t => Used(NextSlot(h), t) = Used(h, t) + 1
           /\ SlotFrom(t, Used(h, t)) = h
  BY CapacityAssumption, NextSlotValue DEF Slot, Used, SlotFrom

\* Giving a slot back removes the first of the filled ones.
LEMMA UsedRelease ==
    ASSUME NEW h \in Slot, NEW t \in Slot, h # t
    PROVE  /\ Used(h, NextSlot(t)) = Used(h, t) - 1
           /\ SlotFrom(t, 0) = t
           /\ \A k \in 0 .. Used(h, t) - 2 : SlotFrom(NextSlot(t), k) = SlotFrom(t, k + 1)
<1>1. /\ NextSlot(t) \in Slot
      /\ NextSlot(t) = IF t + 1 = Capacity THEN 0 ELSE t + 1
  BY NextSlotValue
<1> QED
  BY <1>1, CapacityAssumption DEF Slot, Used, SlotFrom

----------------------------------------------------------------------------
(* The inductive invariant *)

\* Past its test, the producer still has a free slot to step into.
RoomAhead == ppc \in {"write", "publish"} => NextSlot(head_) # tail_

\* Past its test, the consumer still has a filled slot under it.
SlotBehind == cpc \in {"read", "release"} => head_ # tail_

\* Every filled slot holds an item.
FilledHoldItems == \A k \in 0 .. Used(head_, tail_) - 1 : buffer_[SlotFrom(tail_, k)] \in Item

\* What the producer is about to publish is its argument.
WrittenIsArgument == /\ ppc # "idle" => pushItem \in Item
                     /\ ppc = "publish" => buffer_[head_] = pushItem

IInv == /\ TypeOK
        /\ RoomAhead
        /\ SlotBehind
        /\ FilledHoldItems
        /\ WrittenIsArgument
        /\ CopyIsCurrent

\* The state predicate of the types is inductive by itself.
LEMMA TypeInductive ==
    TypeOK /\ [Next]_vars => TypeOK'
<1> SUFFICES ASSUME TypeOK, [Next]_vars
             PROVE  TypeOK'
  OBVIOUS
<1> USE DEF TypeOK
<1>1. NextSlot(head_) \in Slot /\ NextSlot(tail_) \in Slot
  BY NextSlotValue
<1>2. CASE Push
  BY <1>1, <1>2 DEF Push, PushCall, PushFull, PushRoom, PushWrite, PushPublish, cvars
<1>3. CASE Pop
  BY <1>1, <1>3 DEF Pop, PopEmpty, PopSome, PopRead, PopRelease, pvars
<1>4. CASE UNCHANGED vars
  BY <1>4 DEF vars
<1> QED
  BY <1>2, <1>3, <1>4 DEF Next

\* The ring starts in the invariant.
LEMMA InitIInv == Init => IInv
<1> SUFFICES ASSUME Init PROVE IInv
  OBVIOUS
<1>1. 0 \in Slot
  BY CapacityAssumption DEF Slot
<1>2. Used(head_, tail_) = 0
  BY DEF Init, Used
<1> QED
  BY <1>1, <1>2 DEF Init, IInv, TypeOK, RoomAhead, SlotBehind, FilledHoldItems,
                    WrittenIsArgument, CopyIsCurrent

\* Every step of either thread keeps the invariant.
LEMMA NextIInv == IInv /\ [Next]_vars => IInv'
<1> SUFFICES ASSUME IInv, [Next]_vars
             PROVE  IInv'
  OBVIOUS
<1> USE CapacityAssumption, NoItemAssumption
<1>t. TypeOK'
  BY TypeInductive DEF IInv
<1>n. /\ head_ \in Slot /\ tail_ \in Slot
      /\ NextSlot(head_) \in Slot
      /\ NextSlot(head_) = IF head_ + 1 = Capacity THEN 0 ELSE head_ + 1
      /\ NextSlot(tail_) \in Slot
      /\ NextSlot(tail_) = IF tail_ + 1 = Capacity THEN 0 ELSE tail_ + 1
  BY NextSlotValue DEF IInv, TypeOK
<1>1. CASE PushCall \/ PushFull \/ PushRoom \/ PopEmpty \/ PopSome
  BY <1>1, <1>t DEF IInv, PushCall, PushFull, PushRoom, PopEmpty, PopSome, pvars, cvars,
         TypeOK, RoomAhead, SlotBehind, FilledHoldItems, WrittenIsArgument, CopyIsCurrent,
         Used, SlotFrom
<1>2. CASE PushWrite
  <2>1. RoomAhead' /\ SlotBehind' /\ WrittenIsArgument'
    BY <1>2, <1>n DEF PushWrite, cvars, IInv, TypeOK, RoomAhead, SlotBehind, WrittenIsArgument
  <2>2. FilledHoldItems'
    <3>1. \A k \in 0 .. Used(head_, tail_) - 1 :
              buffer_'[SlotFrom(tail_, k)] = buffer_[SlotFrom(tail_, k)]
      BY <1>2, <1>n, UsedValue DEF PushWrite, IInv, TypeOK
    <3> QED
      BY <1>2, <3>1 DEF PushWrite, IInv, FilledHoldItems, Used, SlotFrom
  <2>3. CopyIsCurrent'
    BY <1>2, <1>n DEF PushWrite, cvars, IInv, TypeOK, SlotBehind, CopyIsCurrent
  <2> QED
    BY <1>t, <2>1, <2>2, <2>3 DEF IInv
<1>3. CASE PushPublish
  <2>1. RoomAhead' /\ SlotBehind' /\ WrittenIsArgument' /\ CopyIsCurrent'
    BY <1>3 DEF PushPublish, cvars, IInv, RoomAhead, SlotBehind, WrittenIsArgument,
                CopyIsCurrent
  <2>2. FilledHoldItems'
    <3>1. /\ Used(head_', tail_') = Used(head_, tail_) + 1
          /\ buffer_[SlotFrom(tail_, Used(head_, tail_))] \in Item
          /\ Used(head_, tail_) \in Nat
      BY <1>3, <1>n, UsedPublish, UsedValue
         DEF PushPublish, IInv, RoomAhead, WrittenIsArgument
    <3>2. \A k \in 0 .. Used(head_, tail_) : buffer_[SlotFrom(tail_, k)] \in Item
      BY <3>1 DEF IInv, FilledHoldItems
    <3> QED
      BY <1>3, <3>1, <3>2 DEF PushPublish, FilledHoldItems, SlotFrom
  <2> QED
    BY <1>t, <2>1, <2>2 DEF IInv
<1>4. CASE PopRead
  <2>1. buffer_[tail_] \in Item
    BY <1>4, <1>n, UsedValue, UsedRelease DEF PopRead, IInv, SlotBehind, FilledHoldItems
  <2> QED
    BY <1>4, <1>t, <2>1 DEF PopRead, pvars, IInv, RoomAhead, SlotBehind, FilledHoldItems,
                WrittenIsArgument, CopyIsCurrent, Used, SlotFrom
<1>5. CASE PopRelease
  <2>1. RoomAhead' /\ SlotBehind' /\ WrittenIsArgument' /\ CopyIsCurrent'
    BY <1>5, <1>n DEF PopRelease, pvars, IInv, RoomAhead, SlotBehind, WrittenIsArgument,
                CopyIsCurrent, Slot
  <2>2. FilledHoldItems'
    <3>0. head_ # tail_ /\ Used(head_, tail_) \in Nat
      BY <1>5, <1>n, UsedValue DEF PopRelease, IInv, SlotBehind
    <3>1. /\ Used(head_', tail_') = Used(head_, tail_) - 1
          /\ \A k \in 0 .. Used(head_, tail_) - 2 :
                SlotFrom(tail_', k) = SlotFrom(tail_, k + 1)
      BY <1>5, <1>n, <3>0, UsedRelease DEF PopRelease
    <3>2. \A k \in 0 .. Used(head_, tail_) - 2 : buffer_[SlotFrom(tail_, k + 1)] \in Item
      BY <3>0 DEF IInv, FilledHoldItems
    <3>3. \A k \in 0 .. Used(head_, tail_) - 2 : buffer_'[SlotFrom(tail_', k)] \in Item
      BY <1>5, <3>1, <3>2 DEF PopRelease
    <3>4. Used(head_', tail_') - 1 = Used(head_, tail_) - 2
      BY <3>0, <3>1
    <3> QED
      BY <3>3, <3>4 DEF FilledHoldItems
  <2> QED
    BY <1>t, <2>1, <2>2 DEF IInv
<1>6. CASE UNCHANGED vars
  BY <1>6, <1>t DEF vars, IInv, RoomAhead, SlotBehind, FilledHoldItems, WrittenIsArgument,
                    CopyIsCurrent, Used, SlotFrom
<1> QED
  BY <1>1, <1>2, <1>3, <1>4, <1>5, <1>6 DEF Next, Push, Pop

\* IInv holds in every state the two threads can reach.
THEOREM InductiveInvariant == Spec => []IInv
  BY InitIInv, NextIInv, PTL DEF Spec

\* Both indices stay inside buffer_ and every slot holds an item or nothing,
\* whatever the interleaving of push() and pop().
THEOREM TypeCorrect == Spec => []TypeOK
<1>1. IInv => TypeOK
  BY DEF IInv
<1> QED
  BY <1>1, InductiveInvariant, PTL

\* push() and pop() need no lock: one never writes the slot the other is
\* reading.
THEOREM RaceFree == Spec => []NoSlotRace
<1>1. IInv => NoSlotRace
  BY DEF IInv, SlotBehind, NoSlotRace
<1> QED
  BY <1>1, InductiveInvariant, PTL

\* pop() gives a slot back while the slot still holds the item it copied.
THEOREM CopyCorrect == Spec => []CopyIsCurrent
<1>1. IInv => CopyIsCurrent
  BY DEF IInv
<1> QED
  BY <1>1, InductiveInvariant, PTL

----------------------------------------------------------------------------
(* Refinement: the ring implements the exact FIFO queue of FifoQueue. *)

\* The contents are a sequence of items, as long as Used says.
ContentsShape == /\ Contents \in Seq(Item)
                 /\ Len(Contents) = Used(head_, tail_)
                 /\ Used(head_, tail_) \in Nat
                 /\ \A k \in 1 .. Used(head_, tail_) :
                       Contents[k] = buffer_[SlotFrom(tail_, k - 1)]

\* The invariant gives the contents that shape.
LEMMA ContentsType == IInv => ContentsShape
<1> HAVE IInv
<1>1. Used(head_, tail_) \in Nat
  BY UsedValue DEF IInv, TypeOK, Slot
<1>2. \A k \in 1 .. Used(head_, tail_) : buffer_[SlotFrom(tail_, k - 1)] \in Item
  BY <1>1 DEF IInv, FilledHoldItems
<1>3. Contents \in [1 .. Used(head_, tail_) -> Item]
  BY <1>2 DEF Contents
<1>4. Contents \in Seq(Item) /\ Len(Contents) = Used(head_, tail_)
  BY <1>1, <1>3
<1> QED
  BY <1>1, <1>4 DEF Contents, ContentsShape

\* An empty ring is an empty queue.
LEMMA RefineInit == Init => Fifo!Init
<1> SUFFICES ASSUME Init PROVE Fifo!Init
  OBVIOUS
<1>1. Used(head_, tail_) = 0
  BY DEF Init, Used
<1>2. Contents = << >>
  BY <1>1 DEF Contents
<1> QED
  BY <1>2 DEF Init, Fifo!Init

\* Every step of a thread is a step of the queue, or none.
LEMMA RefineNext == IInv /\ IInv' /\ [Next]_vars => [Fifo!Next]_Fifo!vars
<1> SUFFICES ASSUME IInv, IInv', [Next]_vars
             PROVE  [Fifo!Next]_Fifo!vars
  OBVIOUS
<1> USE CapacityAssumption, NoItemAssumption
<1>i. head_ \in Slot /\ tail_ \in Slot
  BY DEF IInv, TypeOK
<1>c. /\ Contents \in Seq(Item)
      /\ Len(Contents) = Used(head_, tail_)
      /\ Used(head_, tail_) \in Nat
      /\ \A k \in 1 .. Used(head_, tail_) : Contents[k] = buffer_[SlotFrom(tail_, k - 1)]
  BY ContentsType DEF ContentsShape
<1>s. ContentsShape'
  BY ContentsType, PTL
<1>d. /\ Contents' \in Seq(Item)
      /\ Len(Contents') = Used(head_', tail_')
      /\ \A k \in 1 .. Used(head_', tail_') :
            Contents'[k] = buffer_'[SlotFrom(tail_', k - 1)]
  BY <1>s DEF ContentsShape
<1>1. CASE PushCall \/ PushRoom \/ PopSome \/ PopRead \/ UNCHANGED vars
  <2>1. UNCHANGED <<buffer_, head_, tail_, pushRes, popRes>>
    BY <1>1 DEF PushCall, PushRoom, PopSome, PopRead, vars, pvars, cvars
  <2> QED
    BY <2>1 DEF Fifo!vars, Contents, Used, SlotFrom
<1>2. CASE PushWrite
  <2>1. \A k \in 1 .. Used(head_, tail_) :
            buffer_'[SlotFrom(tail_, k - 1)] = buffer_[SlotFrom(tail_, k - 1)]
    BY <1>2, <1>c, <1>i, UsedValue DEF PushWrite, IInv, TypeOK
  <2>2. Contents' = Contents
    BY <1>2, <2>1 DEF PushWrite, Contents, Used, SlotFrom
  <2> QED
    BY <1>2, <2>2 DEF PushWrite, cvars, Fifo!vars
<1>3. CASE PushFull
  <2>1. Len(Contents) = Capacity - 1
    BY <1>3, <1>i, <1>c, UsedPublish DEF PushFull
  <2>2. Contents' = Contents
    BY <1>3 DEF PushFull, Contents, Used, SlotFrom
  <2>3. Fifo!RefuseFull("producer")
    BY <1>3, <2>1, <2>2 DEF PushFull, cvars, Fifo!RefuseFull
  <2> QED
    BY <2>3 DEF Fifo!Next
<1>4. CASE PushPublish
  <2>1. /\ Used(head_', tail_') = Used(head_, tail_) + 1
        /\ Used(head_, tail_) < Capacity - 1
        /\ SlotFrom(tail_, Used(head_, tail_)) = head_
    BY <1>4, <1>i, UsedPublish, UsedValue DEF PushPublish, IInv, RoomAhead
  <2>2. buffer_[head_] = pushItem /\ pushItem \in Item
    BY <1>4 DEF PushPublish, IInv, WrittenIsArgument
  <2>3. \A k \in 1 .. Len(Contents) : Contents'[k] = Contents[k]
    <3> SUFFICES ASSUME NEW k \in 1 .. Len(Contents)
                 PROVE  Contents'[k] = Contents[k]
      OBVIOUS
    <3>1. k \in 1 .. Used(head_, tail_) /\ k \in 1 .. Used(head_', tail_')
      BY <1>c, <2>1
    <3> QED
      BY <1>4, <1>c, <1>d, <3>1 DEF PushPublish
  <2>4. Contents'[Len(Contents) + 1] = pushItem
    BY <1>4, <1>c, <1>d, <2>1, <2>2 DEF PushPublish, SlotFrom
  <2>5. Len(Contents') = Len(Contents) + 1
    BY <1>c, <1>d, <2>1
  <2>6. Contents' = Append(Contents, pushItem)
    BY <1>c, <1>d, <2>2, <2>3, <2>4, <2>5
  <2>7. Fifo!Enqueue("producer")
    BY <1>4, <1>c, <2>1, <2>2, <2>6 DEF PushPublish, cvars, Fifo!Enqueue
  <2> QED
    BY <2>7 DEF Fifo!Next
<1>5. CASE PopEmpty
  <2>1. Contents = << >> /\ Contents' = Contents
    BY <1>5, <1>i, UsedValue DEF PopEmpty, Contents, Used, SlotFrom
  <2>2. Fifo!FindEmpty
    BY <1>5, <2>1 DEF PopEmpty, pvars, Fifo!FindEmpty
  <2> QED
    BY <2>2 DEF Fifo!Next
<1>6. CASE PopRelease
  <2>1. /\ Used(head_', tail_') = Used(head_, tail_) - 1
        /\ \A k \in 0 .. Used(head_, tail_) - 2 :
              SlotFrom(tail_', k) = SlotFrom(tail_, k + 1)
        /\ SlotFrom(tail_, 0) = tail_
        /\ Used(head_, tail_) # 0
    BY <1>6, <1>i, UsedRelease, UsedValue DEF PopRelease, IInv, SlotBehind
  <2>2. Contents # << >> /\ Head(Contents) = popItem
    BY <1>6, <1>c, <2>1 DEF PopRelease, IInv, CopyIsCurrent
  <2>3. Len(Contents') = Len(Contents) - 1
    BY <1>c, <1>d, <2>1
  <2>4. \A k \in 1 .. Len(Contents) - 1 : Contents'[k] = Contents[k + 1]
    <3> SUFFICES ASSUME NEW k \in 1 .. Len(Contents) - 1
                 PROVE  Contents'[k] = Contents[k + 1]
      OBVIOUS
    <3>1. Contents'[k] = buffer_[SlotFrom(tail_', k - 1)]
      BY <1>6, <1>c, <1>d, <2>3 DEF PopRelease
    <3>2. SlotFrom(tail_', k - 1) = SlotFrom(tail_, k)
      BY <1>c, <2>1
    <3>3. Contents[k + 1] = buffer_[SlotFrom(tail_, k)]
      BY <1>c
    <3> QED
      BY <3>1, <3>2, <3>3
  <2>5. Contents' = Tail(Contents)
    BY <1>c, <1>d, <2>2, <2>3, <2>4
  <2>6. Fifo!Dequeue
    BY <1>6, <2>2, <2>5 DEF PopRelease, pvars, Fifo!Dequeue
  <2> QED
    BY <2>6 DEF Fifo!Next
<1> QED
  BY <1>1, <1>2, <1>3, <1>4, <1>5, <1>6 DEF Next, Push, Pop

\* push() and pop() together are a FIFO queue of Capacity - 1 items that refuses
\* only when full and comes back empty only when empty: spsc.hpp's contract.
THEOREM ImplementsFifo == Spec => RefinesFifo
<1>1. Init => Fifo!Init
  BY RefineInit
<1>2. IInv /\ IInv' /\ [Next]_vars => [Fifo!Next]_Fifo!vars
  BY RefineNext
<1> QED
  BY <1>1, <1>2, InductiveInvariant, PTL DEF Spec, RefinesFifo, Fifo!Spec
============================================================================
