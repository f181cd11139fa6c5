----------------------------- MODULE RingIndex -----------------------------
(* Index arithmetic of SpscRingBuffer<T, Capacity>, shared by the module that *)
(* checks the ring's contract (SpscRingBuffer) and the one that checks how    *)
(* the event bus uses the ring (RealtimeBus).                                 *)
EXTENDS Naturals

CONSTANT Capacity   \* the template argument

\* The two static_asserts: Capacity is positive and a power of two, for which
\* x & (Capacity - 1) is x % Capacity.
ASSUME CapacityAssumption ==
    /\ Capacity \in Nat \ {0}
    /\ \E k \in 0 .. Capacity : 2^k = Capacity

Slot == 0 .. Capacity - 1

\* The mask forgotten.
NextSlotUnmasked(i) == i + 1

\* (i + 1) & (Capacity - 1)
NextSlot(i) == (i + 1) % Capacity

\* size(): the number of filled slots, from a head and a tail.
Used(h, t) == IF h >= t THEN h - t ELSE Capacity + h - t

\* The slot k places after slot t.
SlotFrom(t, k) == IF t + k < Capacity THEN t + k ELSE t + k - Capacity
============================================================================
