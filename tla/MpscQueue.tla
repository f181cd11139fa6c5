----------------------------- MODULE MpscQueue -----------------------------
(***************************************************************************)
(* MpscQueue<T, Capacity> of include/eventstream/core/queues/mpsc.hpp: the *)
(* linked queue between the ingest threads and the Dispatcher.  Producers  *)
(* swing tail_ with an exchange and link the previous tail afterwards; the *)
(* one consumer follows the links from head_, a node whose item is already *)
(* taken.  Nodes come from and go back to the heap, and the heap hands a   *)
(* freed node out again.                                                   *)
(*                                                                         *)
(* A step is one access to memory the threads share.  size_ is a size_t:   *)
(* it counts modulo SizeMod (2^64 in the build).  The consumer also frees  *)
(* what is left in the destructor, when no other thread is running.        *)
(*                                                                         *)
(* chain is a history of the exchanges: the nodes from head_ on, in the    *)
(* order in which tail_ was swung to them.  No action reads it.            *)
(***************************************************************************)
EXTENDS Integers, Sequences, FiniteSets

CONSTANTS Producer,   \* the threads that call push()
          Item,       \* the values of T
          NoItem,     \* std::nullopt, and a moved-from or default T
          Node,       \* the addresses new Node can return
          NULL,       \* nullptr
          Capacity,   \* the template argument
          SizeMod     \* 2^w, where size_t has w bits

ASSUME ProducerAssumption == IsFiniteSet(Producer)
ASSUME ItemAssumption == NoItem \notin Item
ASSUME NodeAssumption == NULL \notin Node
ASSUME CapacityAssumption == Capacity \in Nat \ {0}
ASSUME SizeModAssumption == /\ SizeMod \in Nat
                            /\ SizeMod > Capacity + Cardinality(Producer) + 1

VARIABLES
    allocated,  \* the nodes that are allocated
    next,       \* Node::next
    data,       \* Node::data
    head_,      \* read and stored by the consumer only
    tail_,      \* exchanged by the producers
    size_,      \* the approximate count
    ppc,        \* where each producer is in push()
    node,       \* push()'s local variable node
    prev,       \* push()'s local variable prev
    pushRes,    \* what each producer's last push() returned
    cpc,        \* where the consumer is in pop()
    oldHead,    \* pop()'s local variable head
    popItem,    \* pop()'s local variable item
    popRes,     \* what the last pop() returned
    chain       \* history

memory == <<allocated, next, data>>
pvars == <<ppc, node, prev, pushRes>>
cvars == <<cpc, oldHead, popItem, popRes>>
vars == <<memory, head_, tail_, size_, pvars, cvars, chain>>

Init == \E dummy \in Node :
          /\ allocated = {dummy}
          /\ next = [n \in Node |-> NULL]
          /\ data = [n \in Node |-> NoItem]
          /\ head_ = dummy
          /\ tail_ = dummy
          /\ size_ = 0
          /\ ppc = [p \in Producer |-> "idle"]
          /\ node = [p \in Producer |-> NULL]
          /\ prev = [p \in Producer |-> NULL]
          /\ pushRes = [p \in Producer |-> TRUE]
          /\ cpc = "idle" /\ oldHead = NULL /\ popItem = NoItem /\ popRes = NoItem
          /\ chain = <<dummy>>

----------------------------------------------------------------------------
(* push(item) *)

\* The last place of the queue refused.
PushRefusedEarly(p) == /\ ppc[p] = "idle"
                       /\ size_ + 1 >= Capacity
                       /\ pushRes' = [pushRes EXCEPT ![p] = FALSE]
                       /\ UNCHANGED <<memory, head_, tail_, size_, ppc, node, prev, cvars,
                                      chain>>

\* if (size_.load(relaxed) >= Capacity) return false;
PushRefused(p) == /\ ppc[p] = "idle"
                  /\ size_ >= Capacity
                  /\ pushRes' = [pushRes EXCEPT ![p] = FALSE]
                  /\ UNCHANGED <<memory, head_, tail_, size_, ppc, node, prev, cvars, chain>>

PushAdmitted(p) == /\ ppc[p] = "idle"
                   /\ size_ < Capacity
                   /\ ppc' = [ppc EXCEPT ![p] = "swap"]
                   /\ UNCHANGED <<memory, head_, tail_, size_, node, prev, pushRes, cvars,
                                  chain>>

\* node = new Node(item); prev = tail_.exchange(node).  No other thread knows
\* the node before the exchange, so making it is part of the same step.
PushSwap(p) == /\ ppc[p] = "swap"
               /\ \E n \in Node \ allocated, v \in Item :
                    /\ allocated' = allocated \cup {n}
                    /\ next' = [next EXCEPT ![n] = NULL]
                    /\ data' = [data EXCEPT ![n] = v]
                    /\ node' = [node EXCEPT ![p] = n]
                    /\ tail_' = n
                    /\ chain' = Append(chain, n)
               /\ prev' = [prev EXCEPT ![p] = tail_]
               /\ ppc' = [ppc EXCEPT ![p] = "link"]
               /\ UNCHANGED <<head_, size_, pushRes, cvars>>

\* The link skipped.
PushLinkForgotten(p) == /\ ppc[p] = "link"
                        /\ ppc' = [ppc EXCEPT ![p] = "count"]
                        /\ UNCHANGED <<memory, head_, tail_, size_, node, prev, pushRes, cvars,
                                       chain>>

\* prev->next.store(node, release);
PushLink(p) == /\ ppc[p] = "link"
               /\ next' = [next EXCEPT ![prev[p]] = node[p]]
               /\ ppc' = [ppc EXCEPT ![p] = "count"]
               /\ UNCHANGED <<allocated, data, head_, tail_, size_, node, prev, pushRes, cvars,
                              chain>>

\* size_.fetch_add(1, relaxed); return true;
PushCount(p) == /\ ppc[p] = "count"
                /\ size_' = (size_ + 1) % SizeMod
                /\ pushRes' = [pushRes EXCEPT ![p] = TRUE]
                /\ node' = [node EXCEPT ![p] = NULL]
                /\ prev' = [prev EXCEPT ![p] = NULL]
                /\ ppc' = [ppc EXCEPT ![p] = "idle"]
                /\ UNCHANGED <<memory, head_, tail_, cvars, chain>>

PushStep(p) == PushSwap(p) \/ PushLink(p) \/ PushCount(p)

----------------------------------------------------------------------------
(* pop() *)

\* if (next == nullptr) return std::nullopt;
PopEmpty == /\ cpc = "idle"
            /\ next[head_] = NULL
            /\ popRes' = NoItem
            /\ UNCHANGED <<memory, head_, tail_, size_, pvars, cpc, oldHead, popItem, chain>>

\* The item taken from the dummy instead of the node after it.
PopTakeDummy == /\ cpc = "idle"
                /\ next[head_] # NULL
                /\ oldHead' = head_
                /\ popItem' = data[head_]
                /\ data' = [data EXCEPT ![head_] = NoItem]
                /\ head_' = next[head_]
                /\ chain' = Tail(chain)
                /\ cpc' = "delete"
                /\ UNCHANGED <<allocated, next, tail_, size_, pvars, popRes>>

\* item = std::move(next->data); head_.store(next).  Only the consumer reads
\* head_ and the item of a linked node.
PopTake == /\ cpc = "idle"
           /\ next[head_] # NULL
           /\ oldHead' = head_
           /\ popItem' = data[next[head_]]
           /\ data' = [data EXCEPT ![next[head_]] = NoItem]
           /\ head_' = next[head_]
           /\ chain' = Tail(chain)
           /\ cpc' = "delete"
           /\ UNCHANGED <<allocated, next, tail_, size_, pvars, popRes>>

\* The new dummy deleted instead of the old one.
PopDeleteNext == /\ cpc = "delete"
                 /\ allocated' = allocated \ {head_}
                 /\ oldHead' = NULL
                 /\ cpc' = "count"
                 /\ UNCHANGED <<next, data, head_, tail_, size_, pvars, popItem, popRes, chain>>

\* The old dummy not deleted.
PopDeleteForgotten == /\ cpc = "delete"
                      /\ oldHead' = NULL
                      /\ cpc' = "count"
                      /\ UNCHANGED <<memory, head_, tail_, size_, pvars, popItem, popRes, chain>>

\* delete head;
PopDelete == /\ cpc = "delete"
             /\ allocated' = allocated \ {oldHead}
             /\ oldHead' = NULL
             /\ cpc' = "count"
             /\ UNCHANGED <<next, data, head_, tail_, size_, pvars, popItem, popRes, chain>>

\* size_.fetch_sub(1, relaxed); return item;
PopCount == /\ cpc = "count"
            /\ size_' = (size_ + SizeMod - 1) % SizeMod
            /\ popRes' = popItem
            /\ popItem' = NoItem
            /\ cpc' = "idle"
            /\ UNCHANGED <<memory, head_, tail_, pvars, oldHead, chain>>

Pop == PopEmpty \/ PopTake \/ PopDelete \/ PopCount

Next == \/ \E p \in Producer : PushRefused(p) \/ PushAdmitted(p) \/ PushStep(p)
        \/ Pop

Spec == Init /\ [][Next]_vars

\* push() and pop() wait for nobody, and the operating system keeps every
\* thread running: a push() that has been admitted finishes, and the Dispatcher
\* calls pop() in a loop.  Whether a producer ever pushes is up to its client.
FairSpec == /\ Spec
            /\ \A p \in Producer : WF_vars(PushStep(p))
            /\ WF_vars(Pop)

----------------------------------------------------------------------------
(* Properties *)

TypeOK == /\ allocated \subseteq Node
          /\ next \in [Node -> Node \cup {NULL}]
          /\ data \in [Node -> Item \cup {NoItem}]
          /\ head_ \in Node
          /\ tail_ \in Node
          /\ size_ \in 0 .. SizeMod - 1
          /\ ppc \in [Producer -> {"idle", "swap", "link", "count"}]
          /\ node \in [Producer -> Node \cup {NULL}]
          /\ prev \in [Producer -> Node \cup {NULL}]
          /\ pushRes \in [Producer -> BOOLEAN]
          /\ cpc \in {"idle", "delete", "count"}
          /\ oldHead \in Node \cup {NULL}
          /\ popItem \in Item \cup {NoItem}
          /\ popRes \in Item \cup {NoItem}
          /\ chain \in Seq(Node)

\* The nodes from head_ on.
Chained == {chain[i] : i \in 1 .. Len(chain)}

\* The items accepted and not yet taken.
Queued == Len(chain) - 1

\* No thread touches a freed node: head_ and the node after it, tail_, the node
\* a producer is about to link from and the one the consumer is about to delete
\* are all allocated, although the consumer deletes nodes producers still hold
\* pointers to.
NoUseAfterFree ==
    /\ head_ \in allocated
    /\ tail_ \in allocated
    /\ next[head_] # NULL => next[head_] \in allocated
    /\ \A p \in Producer : ppc[p] = "link" => {prev[p], node[p]} \subseteq allocated
    /\ cpc = "delete" => oldHead \in allocated \ {head_}

\* No node is lost: what is allocated is what the destructor reaches from head_,
\* and the node pop() is about to delete.
NoLeak == allocated = Chained \cup (IF cpc = "delete" THEN {oldHead} ELSE {})

\* push()'s capacity test is made before the item is counted, so the queue can
\* hold more than Capacity items, but never more than one extra for each other
\* producer.
OvershootBounded == Queued <= Capacity - 1 + Cardinality(Producer)

\* size_ is exact whenever no push() or pop() is between its change of the list
\* and its change of size_, however far it was off in between.
SizeExactAtRest ==
    (cpc = "idle" /\ \A p \in Producer : ppc[p] \in {"idle", "swap"}) => size_ = Queued

\* pop() returns nullopt on a queue that holds an item only while the push() of
\* the oldest item is between its exchange and its link.
EmptyOnlyIfUnlinked ==
    next[head_] = NULL => \/ Queued = 0
                          \/ \E p \in Producer : ppc[p] = "link" /\ prev[p] = head_

\* The items accepted and not yet taken, in the order of the exchanges.
Contents == [i \in 1 .. Queued |-> data[chain[i + 1]]]

Fifo == INSTANCE FifoQueue WITH
            Bound   <- Capacity - 1 + Cardinality(Producer),
            q       <- Contents,
            popRes  <- IF cpc = "idle" THEN popRes ELSE popItem

\* Items are accepted in the order of the exchanges and handed out once each, in
\* that order.
RefinesFifo == Fifo!RelaxedSpec

\* While the queue holds an item the consumer takes one in the end, also one that
\* was hidden behind a push() that had not linked yet; by RefinesFifo it takes
\* them in order, so that every accepted item is taken.
AcceptedIsTaken == Queued > 0 ~> cpc # "idle"

\* The items accepted that the consumer has not subtracted from size_, and how
\* many push() calls have an item in the list and have not counted it.
Present == Queued + (IF cpc = "idle" THEN 0 ELSE 1)
Uncounted == Cardinality({p \in Producer : ppc[p] \in {"link", "count"}})

\* push() returns false only for a queue that is at capacity, counting an item
\* the consumer has taken and not yet subtracted from size_, or while size_ has
\* wrapped below zero: more push() calls have yet to count an item they put in
\* than there are items left, so at least one of theirs is already taken.
RefusedHasReason ==
    [][\A p \in Producer : PushRefused(p) => Present >= Capacity \/ Present < Uncounted]_vars
============================================================================
