----------------------------- MODULE FifoQueue -----------------------------
(***************************************************************************)
(* What a bounded queue with one consumer promises its clients.  The       *)
(* queues under include/eventstream/core/queues are shown to implement it. *)
(*                                                                         *)
(*   q        the items accepted and not yet handed out, oldest first      *)
(*   pushRes  what each producer's last completed push() returned          *)
(*   popRes   what the consumer's last completed pop() returned            *)
(*                                                                         *)
(* Two promises are stated.  Spec is the exact one: a push is refused only *)
(* when the queue holds Bound items, and a pop comes back empty-handed     *)
(* only when it holds none.  RelaxedSpec lets either operation fail at any *)
(* time, and a push report success some time after its item was accepted;  *)
(* the order of the items and the bound are promised all the same.         *)
(***************************************************************************)
EXTENDS Naturals, Sequences

CONSTANTS Producer,   \* the threads that push
          Item,       \* what is pushed
          NoItem,     \* std::nullopt
          Bound       \* the most items the queue may hold

VARIABLES q, pushRes, popRes

vars == <<q, pushRes, popRes>>

Init == /\ q = << >>
        /\ pushRes = [p \in Producer |-> TRUE]
        /\ popRes = NoItem

----------------------------------------------------------------------------
(* The exact queue. *)

Enqueue(p) == /\ Len(q) < Bound
              /\ \E v \in Item : q' = Append(q, v)
              /\ pushRes' = [pushRes EXCEPT ![p] = TRUE]
              /\ UNCHANGED popRes

RefuseFull(p) == /\ Len(q) = Bound
                 /\ pushRes' = [pushRes EXCEPT ![p] = FALSE]
                 /\ UNCHANGED <<q, popRes>>

Dequeue == /\ q # << >>
           /\ q' = Tail(q)
           /\ popRes' = Head(q)
           /\ UNCHANGED pushRes

FindEmpty == /\ q = << >>
             /\ popRes' = NoItem
             /\ UNCHANGED <<q, pushRes>>

Next == \/ \E p \in Producer : Enqueue(p) \/ RefuseFull(p)
        \/ Dequeue
        \/ FindEmpty

Spec == Init /\ [][Next]_vars

----------------------------------------------------------------------------
(* The relaxed queue. *)

Accept == /\ Len(q) < Bound
          /\ \E v \in Item : q' = Append(q, v)
          /\ UNCHANGED <<pushRes, popRes>>

Report(p) == /\ \E r \in BOOLEAN : pushRes' = [pushRes EXCEPT ![p] = r]
             /\ UNCHANGED <<q, popRes>>

Hand == /\ q # << >>
        /\ q' = Tail(q)
        /\ popRes' = Head(q)
        /\ UNCHANGED pushRes

ComeBackEmpty == /\ popRes' = NoItem
                 /\ UNCHANGED <<q, pushRes>>

RelaxedNext == \/ Accept
               \/ \E p \in Producer : Report(p)
               \/ Hand
               \/ ComeBackEmpty

RelaxedSpec == Init /\ [][RelaxedNext]_vars
============================================================================
