-------------------------- MODULE MCSpscRingBuffer --------------------------
(* Instances of SpscRingBuffer for TLC: a ring of Capacity slots and two    *)
(* distinguishable items, enough to tell items out of order from items in   *)
(* order.  The model has no counter, so every run of the ring is covered.   *)
EXTENDS SpscRingBuffer
============================================================================
