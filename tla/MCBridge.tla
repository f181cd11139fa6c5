------------------------------ MODULE MCBridge ------------------------------
(* An instance of Bridge for TLC.  The second engine has a thread of each     *)
(* kind and a processor for the ring and one for a deque.  The first one,     *)
(* with a server's thread, is shut down before, or left behind running by an  *)
(* init that failed while the second one is shut down next to it.             *)
EXTENDS Bridge, TLC

CONSTANTS s1

Homes == [t \in Thread |-> IF t = s1 THEN 1 ELSE 2]

Symmetric == Permutations(Obj)
=============================================================================
