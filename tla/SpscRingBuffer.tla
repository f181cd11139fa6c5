--------------------------- MODULE SpscRingBuffer ---------------------------
(***************************************************************************)
(* SpscRingBuffer<T, Capacity> of include/eventstream/core/queues/spsc.hpp *)
(* under the use its name promises: one thread calls push(), one calls     *)
(* pop(), and each call is as many steps as it has accesses to shared      *)
(* memory.  Every load and store of head_ and tail_ is atomic; a slot of   *)
(* buffer_ is plain memory, so a slot one thread is about to write while   *)
(* the other is about to read it would be a data race.                     *)
(*                                                                         *)
(* RealtimeBus models what the event bus really does with the ring.        *)
(***************************************************************************)
EXTENDS RingIndex, Sequences

CONSTANTS Item,       \* the values of T
          NoItem      \* std::nullopt, and the value of a slot never written

ASSUME NoItemAssumption == NoItem \notin Item

VARIABLES
    buffer_,    \* the slots
    head_,      \* next slot to write, stored by the producer only
    tail_,      \* next slot to read, stored by the consumer only
    ppc,        \* where the producer is in push()
    pushItem,   \* push()'s argument
    pushRes,    \* what the last push() returned
    cpc,        \* where the consumer is in pop()
    popItem,    \* pop()'s local copy of the slot
    popRes      \* what the last pop() returned

pvars == <<ppc, pushItem, pushRes>>
cvars == <<cpc, popItem, popRes>>
vars == <<buffer_, head_, tail_, ppc, pushItem, pushRes, cpc, popItem, popRes>>

Init == /\ buffer_ = [i \in Slot |-> NoItem]
        /\ head_ = 0
        /\ tail_ = 0
        /\ ppc = "idle" /\ pushItem = NoItem /\ pushRes = TRUE
        /\ cpc = "idle" /\ popItem = NoItem /\ popRes = NoItem

----------------------------------------------------------------------------
(* push(item).  head_ is the producer's own variable, so the relaxed load   *)
(* at the call returns what the producer last stored.                       *)

PushCall == /\ ppc = "idle"
            /\ \E v \in Item : pushItem' = v
            /\ ppc' = "check"
            /\ UNCHANGED <<buffer_, head_, tail_, pushRes, cvars>>

\* if (next == tail_.load(acquire)) return false;
PushFull == /\ ppc = "check"
            /\ NextSlot(head_) = tail_
            /\ pushRes' = FALSE
            /\ ppc' = "idle"
            /\ pushItem' = NoItem
            /\ UNCHANGED <<buffer_, head_, tail_, cvars>>

\* The full test forgotten.
PushRoomUnchecked == /\ ppc = "check"
                     /\ ppc' = "write"
                     /\ UNCHANGED <<buffer_, head_, tail_, pushItem, pushRes, cvars>>

PushRoom == /\ ppc = "check"
            /\ NextSlot(head_) # tail_
            /\ ppc' = "write"
            /\ UNCHANGED <<buffer_, head_, tail_, pushItem, pushRes, cvars>>

\* buffer_[head] = item;
PushWrite == /\ ppc = "write"
             /\ buffer_' = [buffer_ EXCEPT ![head_] = pushItem]
             /\ ppc' = "publish"
             /\ UNCHANGED <<head_, tail_, pushItem, pushRes, cvars>>

\* head_.store(next, release); return true;
PushPublish == /\ ppc = "publish"
               /\ head_' = NextSlot(head_)
               /\ pushRes' = TRUE
               /\ ppc' = "idle"
               /\ pushItem' = NoItem
               /\ UNCHANGED <<buffer_, tail_, cvars>>

Push == PushCall \/ PushFull \/ PushRoom \/ PushWrite \/ PushPublish

----------------------------------------------------------------------------
(* pop().  tail_ is the consumer's own variable. *)

\* if (tail == head_.load(acquire)) return std::nullopt;
PopEmpty == /\ cpc = "idle"
            /\ tail_ = head_
            /\ popRes' = NoItem
            /\ UNCHANGED <<buffer_, head_, tail_, cpc, popItem, pvars>>

\* The empty test forgotten.
PopSomeUnchecked == /\ cpc = "idle"
                    /\ cpc' = "read"
                    /\ UNCHANGED <<buffer_, head_, tail_, popItem, popRes, pvars>>

PopSome == /\ cpc = "idle"
           /\ tail_ # head_
           /\ cpc' = "read"
           /\ UNCHANGED <<buffer_, head_, tail_, popItem, popRes, pvars>>

\* T item = buffer_[tail];
PopRead == /\ cpc = "read"
           /\ popItem' = buffer_[tail_]
           /\ cpc' = "release"
           /\ UNCHANGED <<buffer_, head_, tail_, popRes, pvars>>

\* tail_.store((tail + 1) & (Capacity - 1), release); return item;
PopRelease == /\ cpc = "release"
              /\ tail_' = NextSlot(tail_)
              /\ popRes' = popItem
              /\ popItem' = NoItem
              /\ cpc' = "idle"
              /\ UNCHANGED <<buffer_, head_, pvars>>

Pop == PopEmpty \/ PopSome \/ PopRead \/ PopRelease

Next == Push \/ Pop

Spec == Init /\ [][Next]_vars

----------------------------------------------------------------------------
(* Properties *)

TypeOK == /\ buffer_ \in [Slot -> Item \cup {NoItem}]
          /\ head_ \in Slot
          /\ tail_ \in Slot
          /\ ppc \in {"idle", "check", "write", "publish"}
          /\ pushItem \in Item \cup {NoItem}
          /\ pushRes \in BOOLEAN
          /\ cpc \in {"idle", "read", "release"}
          /\ popItem \in Item \cup {NoItem}
          /\ popRes \in Item \cup {NoItem}

\* The two threads never touch one slot at the same time: while push() writes
\* buffer_[head] no pop() is between its empty test and its store of tail_ on
\* that slot, although neither thread takes a lock.
NoSlotRace == ~ /\ ppc \in {"write", "publish"}
                /\ cpc \in {"read", "release"}
                /\ head_ = tail_

\* The copy pop() made of its slot is still what the slot holds when the slot
\* is given back, and is an item that was pushed: no push() overwrote it in
\* between, and pop() never hands out a slot nobody wrote.
CopyIsCurrent == cpc = "release" => /\ popItem = buffer_[tail_]
                                    /\ popItem \in Item

\* The items between tail_ and head_, oldest first.
Contents == [k \in 1 .. Used(head_, tail_) |-> buffer_[SlotFrom(tail_, k - 1)]]

Fifo == INSTANCE FifoQueue WITH
            Producer <- {"producer"},
            Bound    <- Capacity - 1,
            q        <- Contents,
            pushRes  <- [p \in {"producer"} |-> pushRes]

\* The ring is an exact FIFO queue of Capacity - 1 items: push() returns false
\* only when Capacity - 1 items are stored, pop() returns nullopt only when none
\* is, and items come out once, in the order they went in.
RefinesFifo == Fifo!Spec
============================================================================
