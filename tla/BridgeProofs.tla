---------------------------- MODULE BridgeProofs ----------------------------
(***************************************************************************)
(* Theorems about Bridge, for any number of callers, threads, engines,     *)
(* subscribers and event objects and every capacity of pool and ring.      *)
(*                                                                         *)
(* The argument: init and shutdown are steps of one thread, so at most one *)
(* engine that was not left behind by a failed init has threads at work    *)
(* (Engines), and the threads each join waited for have ended for good     *)
(* (Threads); a step of a thread drops pointers or passes one on, and the  *)
(* deleters it runs are those of the objects no pointer is left to         *)
(* (Pointers, OneOwner); with these, what is in the pool is bounded by     *)
(* what the last init put there (Filled), and a snapshot of the observers  *)
(* does not outlive the next clear() (Observers).                          *)
(***************************************************************************)
EXTENDS Bridge, FiniteSetTheorems, FunctionTheorems, SequenceTheorems, WellFoundedInduction,
        TLAPS

\* What init and shutdown have done at each step, to the flag, the pointer and the
\* engines.
Engines ==
    /\ g_initialised => mpc = "idle" /\ g_engine \in Engine /\ engine[g_engine] = "up"
    /\ mpc = "flag" => g_engine \in Engine /\ engine[g_engine] = "up"
    /\ mpc \in {"servers", "processors"} => g_engine \in Engine /\ engine[g_engine] = mpc
    /\ mpc \in {"dispatcher", "pool", "delete"} =>
         g_engine \in Engine /\ engine[g_engine] = "dispatcher"
    /\ mpc = "null" => g_engine \in Engine /\ engine[g_engine] = "deleted"
    /\ mpc \in {"pool", "delete", "null"} => shutdownFlag
    /\ \A n \in Engine :
         /\ engine[n] = "up" => \/ mpc = "publish"
                                \/ n = g_engine /\ (g_initialised \/ mpc = "flag")
         /\ engine[n] \in {"servers", "processors"} => n = g_engine /\ mpc = engine[n]
         /\ engine[n] = "dispatcher" => n = g_engine /\ mpc \in {"dispatcher", "pool", "delete"}
         /\ \A m \in Engine : engine[n] = "up" /\ engine[m] = "up" => n = m

\* Which threads have not begun, and which have ended; what has ended, or has been
\* deleted, has nothing.
Threads ==
    /\ \A t \in Thread :
         LET n == Home[t]
         IN  /\ engine[n] = "none" => pc[t] = "idle" /\ dying[t] = {}
             /\ pc[t] = "done" => dying[t] = {}
             /\ t \in Server /\ engine[n] \in {"processors", "dispatcher", "deleted"} =>
                  pc[t] = "done"
             /\ t \in Worker /\ engine[n] \in {"dispatcher", "deleted"} => pc[t] = "done"
             /\ t \in Dispatcher /\ (engine[n] = "deleted" \/ (mpc \in {"pool", "delete"}
                                                                 /\ n = g_engine)) =>
                  pc[t] = "done"
    /\ \A n \in Engine : engine[n] = "deleted" => /\ inbound[n] = {} /\ queued[n] = {}
                                                  /\ ring[n] = {} /\ unread[n] = {}

\* Where a thread holds a pointer, and that the ring keeps what is not popped.
Pointers ==
    /\ \A t \in Thread : /\ pc[t] \in {"idle", "recv", "stop", "done"} => ref[t] = NoObj
                         /\ pc[t] = "route" => ref[t] \in Obj
    /\ \A n \in Engine : unread[n] \subseteq ring[n]

\* The pool is empty between a shutdown and the next init, and never too full.
Filled == /\ EmptyAfterShutdown
          /\ PoolBounded
          /\ NoneLeaked /\ mpc = "idle" /\ ~g_initialised => pool = {}

\* What the list and the snapshots have to do with the subscribers.
Observers ==
    /\ SubscriberKept
    /\ observers \subseteq subscribed
    /\ \A w \in Worker : /\ pc[w] \notin {"notify", "callback"} => snap[w] = {}
                         /\ NoneLeaked => snap[w] \subseteq subscribed
                         /\ pc[w] = "callback" => Left(w) # {}

BridgeInv == TypeOK /\ Engines /\ Threads /\ Pointers /\ OneOwner /\ Filled /\ Observers

----------------------------------------------------------------------------
(* Choices *)

\* A non-empty set of natural numbers has a least element.
LEMMA LeastElement ==
    ASSUME NEW S \in SUBSET Nat, S # {}
    PROVE  \E x \in S : \A y \in S : x <= y
<1>1. PICK x \in S : \A y \in S : ~(<<y, x>> \in OpToRel(<, Nat))
  BY NatLessThanWellFounded, WFMin
<1>2. ASSUME NEW y \in S PROVE x <= y
  <2>1. x \in Nat /\ y \in Nat /\ ~(y < x)
    BY <1>1 DEF OpToRel
  <2> QED
    BY <2>1
<1> QED
  BY <1>2

\* The observer a worker is at is one of its snapshot.
LEMMA ObsIn ==
    ASSUME TypeOK, NEW w \in Worker, Left(w) # {}
    PROVE  obs(w) \in Left(w) /\ obs(w) \in DOMAIN active /\ obs(w) \in 0 .. MaxSubscribers
<1>1. Len(active) \in Nat /\ DOMAIN active = 1 .. Len(active) /\ Len(active) <= MaxSubscribers
  BY LenProperties DEF TypeOK
<1>2. Left(w) \subseteq DOMAIN active
  BY DEF TypeOK, Left
<1>3. Left(w) \in SUBSET Nat
  BY <1>1, <1>2
<1>4. obs(w) \in Left(w)
  BY <1>3, LeastElement DEF obs, Min
<1> QED
  BY <1>1, <1>2, <1>4, BridgeAssumption

\* How many objects are in a pool that changed by one.
LEMMA PoolSize ==
    ASSUME NEW S \in SUBSET Obj, NEW o
    PROVE  /\ IsFiniteSet(S) /\ Cardinality(S) \in Nat /\ kPoolCapacity \in Nat
           /\ Cardinality({}) = 0
           /\ Cardinality(S \ {o}) <= Cardinality(S)
           /\ Cardinality(S \cup {o}) <= Cardinality(S) + 1
<1>1. IsFiniteSet(S)
  BY BridgeAssumption, FS_Subset
<1>2. Cardinality(S) \in Nat /\ kPoolCapacity \in Nat /\ Cardinality({}) = 0
  BY <1>1, BridgeAssumption, FS_CardinalityType, FS_EmptySet
<1>3. Cardinality(S \ {o}) = IF o \in S THEN Cardinality(S) - 1 ELSE Cardinality(S)
  BY <1>1, FS_RemoveElement
<1>4. Cardinality(S \cup {o}) = IF o \in S THEN Cardinality(S) ELSE Cardinality(S) + 1
  BY <1>1, FS_AddElement
<1> QED
  BY <1>1, <1>2, <1>3, <1>4

----------------------------------------------------------------------------
(* What a step keeps *)

\* What it is to be behind a shared pointer.
LEMMA HeldIs ==
    \A o : o \in Held <=> \/ o # NoObj /\ \E t \in Thread : ref[t] = o
                          \/ \E n \in Engine : o \in inbound[n] \/ o \in queued[n] \/ o \in ring[n]
  BY DEF Held

\* The same, after a step.
LEMMA HeldIsNext ==
    \A o : o \in Held' <=> \/ o # NoObj /\ \E t \in Thread : ref'[t] = o
                           \/ \E n \in Engine : \/ o \in inbound'[n] \/ o \in queued'[n]
                                                \/ o \in ring'[n]
  BY DEF Held

\* A step that only passes pointers on keeps the owners.
LEMMA PassesOn ==
    ASSUME OneOwner, \A o : o \in Held' <=> o \in Held, UNCHANGED <<pool, heap, dying>>
    PROVE  OneOwner'
<1>1. Held' = Held
  OBVIOUS
<1>2. dying' = dying /\ pool' = pool /\ heap' = heap
  OBVIOUS
<1> HIDE DEF Held
<1>3. heap' = pool' \cup Held' \cup UNION {dying'[t] : t \in Thread}
  BY <1>1, <1>2 DEF OneOwner
<1> QED
  BY <1>1, <1>2, <1>3 DEF OneOwner

\* A step that drops pointers hands the objects to its deleter, or deletes them.
LEMMA DropsLast ==
    ASSUME TypeOK, OneOwner, NEW t \in Thread,
           \A o : o \in Held' => o \in Held,
           pool' = pool, Release(t)
    PROVE  OneOwner'
<1> DEFINE H == Held
           K == Held'
           D == UNION {dying[u] : u \in Thread}
           E == UNION {dying'[u] : u \in Thread}
<1>1. /\ K \subseteq H
      /\ heap = pool \cup H \cup D /\ pool \cap H = {}
      /\ \A u \in Thread : /\ dying[u] \cap (pool \cup H) = {}
                           /\ \A v \in Thread \ {u} : dying[u] \cap dying[v] = {}
      /\ DOMAIN dying = Thread
  BY DEF OneOwner, TypeOK
<1>2. \/ heap' = heap \ (H \ K) /\ dying' = dying
      \/ heap' = heap /\ dying' = [dying EXCEPT ![t] = @ \cup (H \ K)]
  BY DEF Release, Dropped
<1> HIDE DEF H, K
<1>3. CASE heap' = heap \ (H \ K) /\ dying' = dying
  <2>1. D \cap H = {} /\ E = D
    BY <1>1, <1>3
  <2>2. heap' = pool' \cup K \cup E
    <3> HIDE DEF D, E
    <3> QED
      BY <1>1, <1>3, <2>1
  <2>3. \A u \in Thread : dying'[u] \cap (pool' \cup K) = {}
    BY <1>1, <1>3
  <2>4. pool' \cap K = {}
    BY <1>1
  <2> QED
    BY <1>1, <1>3, <2>2, <2>3, <2>4 DEF OneOwner, K
<1>4. CASE heap' = heap /\ dying' = [dying EXCEPT ![t] = @ \cup (H \ K)]
  <2>1. \A u \in Thread : dying'[u] = IF u = t THEN dying[t] \cup (H \ K) ELSE dying[u]
    BY <1>1, <1>4
  <2>2. E = D \cup (H \ K)
    <3>1. \A o : o \in E <=> \E u \in Thread : o \in dying'[u]
      OBVIOUS
    <3>2. \A o : o \in D <=> \E u \in Thread : o \in dying[u]
      OBVIOUS
    <3> HIDE DEF D, E
    <3> QED
      BY <2>1, <3>1, <3>2
  <2>3. heap' = pool' \cup K \cup E
    <3> HIDE DEF D, E
    <3> QED
      BY <1>1, <1>4, <2>2
  <2>4. \A u \in Thread : dying'[u] \cap (pool' \cup K) = {}
    BY <1>1, <2>1
  <2>5. \A u \in Thread : \A v \in Thread \ {u} : dying'[u] \cap dying'[v] = {}
    BY <1>1, <2>1
  <2>6. pool' \cap K = {}
    BY <1>1
  <2> QED
    BY <2>3, <2>4, <2>5, <2>6 DEF OneOwner, K
<1> QED
  BY <1>2, <1>3, <1>4

\* A step of a thread that runs: it changes its own place, its own deleters and
\* the queues of its own engine.
Works(t) == /\ pc[t] # "done" /\ engine[Home[t]] # "none"
            /\ UNCHANGED <<calls, shutdownFlag>>
            /\ \A u \in Thread \ {t} : pc'[u] = pc[u] /\ dying'[u] = dying[u]
            /\ pc'[t] = "done" => dying'[t] = {}
            /\ \A n \in Engine \ {Home[t]} : /\ inbound'[n] = inbound[n] /\ queued'[n] = queued[n]
                                             /\ ring'[n] = ring[n] /\ unread'[n] = unread[n]

\* Such a step keeps what is known of engines and threads.
LEMMA WorksKeeps ==
    ASSUME TypeOK, Engines, Threads, NEW t \in Thread, Works(t)
    PROVE  Engines' /\ Threads'
<1>1. UNCHANGED <<mpc, g_initialised, g_engine, engine, shutdownFlag>>
  BY DEF Works, calls, bridge
<1>2. Engines'
  BY <1>1 DEF Engines
<1>h. Home[t] \in Engine
  BY BridgeAssumption
<1>3. engine[Home[t]] # "deleted" /\ ~(t \in Dispatcher /\ mpc \in {"pool", "delete"} /\ Home[t] = g_engine)
  BY DEF Works, Threads, Thread
<1>4. ASSUME NEW u \in Thread
      PROVE  LET n == Home[u]
             IN  /\ engine'[n] = "none" => pc'[u] = "idle" /\ dying'[u] = {}
                 /\ pc'[u] = "done" => dying'[u] = {}
                 /\ u \in Server /\ engine'[n] \in {"processors", "dispatcher", "deleted"} =>
                      pc'[u] = "done"
                 /\ u \in Worker /\ engine'[n] \in {"dispatcher", "deleted"} => pc'[u] = "done"
                 /\ u \in Dispatcher /\ (engine'[n] = "deleted" \/ (mpc' \in {"pool", "delete"}
                                                                      /\ n = g_engine')) =>
                      pc'[u] = "done"
  <2>1. CASE u = t
    BY <1>1, <1>3, <2>1 DEF Works, Threads
  <2>2. CASE u # t
    BY <1>1, <2>2 DEF Works, Threads
  <2> QED
    BY <2>1, <2>2
<1>5. ASSUME NEW n \in Engine, engine'[n] = "deleted"
      PROVE  inbound'[n] = {} /\ queued'[n] = {} /\ ring'[n] = {} /\ unread'[n] = {}
  BY <1>1, <1>3, <1>5 DEF Works, Threads
<1> QED
  BY <1>2, <1>4, <1>5 DEF Threads

\* A step that puts nothing into the pool keeps its limits.
LEMMA TakesKeeps ==
    ASSUME TypeOK, Filled, UNCHANGED <<calls, shutdownFlag>>, pool' \subseteq pool
    PROVE  Filled'
<1>1. UNCHANGED <<mpc, g_initialised, engine, shutdownFlag>>
  BY DEF calls, bridge
<1>2. NoneLeaked' <=> NoneLeaked
  BY <1>1 DEF NoneLeaked
<1>3. Cardinality(pool') <= Cardinality(pool) /\ Cardinality(pool) \in Nat
      /\ Cardinality(pool') \in Nat /\ kPoolCapacity \in Nat
  BY BridgeAssumption, FS_Subset, FS_CardinalityType DEF TypeOK
<1>4. Cardinality(pool) <= kPoolCapacity => Cardinality(pool') <= kPoolCapacity
  BY <1>3
<1> QED
  BY <1>1, <1>2, <1>4 DEF Filled, EmptyAfterShutdown, PoolBounded

\* A step of a thread that is not about the observers keeps what is known of them.
LEMMA ElseKeeps ==
    ASSUME TypeOK, Observers, NEW t \in Thread, NEW x,
           pc' = pc \/ pc' = [pc EXCEPT ![t] = x],
           x \notin {"notify", "callback"},
           pc[t] \notin {"notify", "callback"},
           UNCHANGED <<calls, notifying, stream>>
    PROVE  Observers'
<1>1. UNCHANGED <<engine, snap, i, observers, active, subscribed>>
  BY DEF calls, bridge, notifying, stream
<1>2. (NoneLeaked' <=> NoneLeaked) /\ \A w \in Worker : Left(w)' = Left(w)
  BY <1>1 DEF NoneLeaked, Left
<1>3. \A w \in Worker : /\ w \in Thread
                        /\ pc'[w] = pc[w] \/ (w = t /\ pc'[w] = x)
  BY DEF TypeOK, Thread
<1> QED
  BY <1>1, <1>2, <1>3 DEF Observers, SubscriberKept

----------------------------------------------------------------------------
(* The threads *)

\* The types of the threads' constants.
LEMMA Homes ==
    ASSUME NEW t \in Thread
    PROVE  /\ Home[t] \in Engine
           /\ t \in Worker => t \notin Server /\ t \notin Dispatcher
           /\ NoObj \notin Obj
  BY BridgeAssumption DEF Thread

\* A step of a thread on the pool, the queues of its engine or its own pointer.
Handles(t, x) ==
    /\ pc[t] \in {"idle", "recv", "route", "process", "drop", "stop"}
    /\ x \in {"idle", "recv", "route", "process", "drop", "stop", "done"}
    /\ pc' = [pc EXCEPT ![t] = x]
    /\ UNCHANGED <<calls, notifying, stream, shutdownFlag>>
    /\ ref' \in [Thread -> Obj \cup {NoObj}] /\ dying' \in [Thread -> SUBSET Obj]
    /\ \A u \in Thread \ {t} : ref'[u] = ref[u] /\ dying'[u] = dying[u]
    /\ x \in {"idle", "recv", "stop", "done"} => ref'[t] = NoObj
    /\ x = "route" => ref'[t] \in Obj
    /\ x = "done" => dying'[t] = {}
    /\ inbound' \in [Engine -> SUBSET Obj] /\ queued' \in [Engine -> SUBSET Obj]
    /\ ring' \in [Engine -> SUBSET Obj] /\ unread' \in [Engine -> SUBSET Obj]
    /\ \A n \in Engine \ {Home[t]} : /\ inbound'[n] = inbound[n] /\ queued'[n] = queued[n]
                                     /\ ring'[n] = ring[n] /\ unread'[n] = unread[n]
    /\ unread'[Home[t]] \subseteq ring'[Home[t]]
    /\ pool' \subseteq pool /\ heap' \subseteq Obj

\* Such a step keeps the invariant, when it leaves each object with one owner.
LEMMA HandlesKeeps ==
    ASSUME BridgeInv, NEW t \in Thread, NEW x, Handles(t, x),
           engine[Home[t]] # "none", OneOwner'
    PROVE  BridgeInv'
<1> USE DEF BridgeInv, Handles
<1>2. /\ UNCHANGED <<mpc, cpc, g_initialised, g_engine, engine>>
      /\ UNCHANGED <<snap, i, needs_prune, observers, active, subscribed>>
  BY DEF calls, bridge, notifying, stream
<1>3. /\ pc' \in [Thread -> {"idle", "recv", "route", "process", "notify", "callback", "drop",
                             "stop", "done"}]
      /\ \A u \in Thread : pc'[u] = IF u = t THEN x ELSE pc[u]
      /\ pool' \subseteq Obj
  BY DEF TypeOK
<1>4. TypeOK'
  BY <1>2, <1>3 DEF TypeOK
<1>5. Works(t)
  BY <1>3 DEF Works
<1>6. Engines' /\ Threads'
  BY <1>5, WorksKeeps
<1>7. Pointers'
  <2>1. \A u \in Thread : /\ pc'[u] \in {"idle", "recv", "stop", "done"} => ref'[u] = NoObj
                          /\ pc'[u] = "route" => ref'[u] \in Obj
    BY <1>3 DEF Pointers
  <2>2. \A n \in Engine : unread'[n] \subseteq ring'[n]
    BY DEF Pointers
  <2> QED
    BY <2>1, <2>2 DEF Pointers
<1>8. Filled'
  BY TakesKeeps
<1>9. Observers'
  BY ElseKeeps
<1> QED
  BY <1>4, <1>6, <1>7, <1>8, <1>9

\* What Release() does to deleters and heap.
LEMMA ReleaseTypes ==
    ASSUME TypeOK, NEW t \in Thread, Release(t)
    PROVE  /\ heap' \subseteq Obj
           /\ dying' \in [Thread -> SUBSET Obj]
           /\ \A u \in Thread \ {t} : dying'[u] = dying[u]
<1>1. \A o : o \in Held => o \in Obj
  BY HeldIs DEF TypeOK
<1>2. Dropped \subseteq Obj
  BY <1>1 DEF Dropped
<1> QED
  BY <1>2 DEF Release, TypeOK

\* A thread that only moves keeps the invariant.
LEMMA MovesKeeps ==
    ASSUME BridgeInv, NEW t \in Thread, NEW from, NEW to, Moves(t, from, to),
           engine[Home[t]] # "none",
           from \in {"idle", "recv", "process", "stop"},
           to \in {"idle", "recv", "drop", "stop", "done"},
           to # "drop" => from # "process"
    PROVE  BridgeInv'
<1> USE DEF BridgeInv
<1>1. /\ pc[t] = from /\ dying[t] = {} /\ pc' = [pc EXCEPT ![t] = to]
      /\ UNCHANGED <<calls, ref, dying, queues, notifying, stream, poolVars>>
  BY DEF Moves, At, Goto
<1>2. UNCHANGED <<inbound, queued, ring, unread, pool, shutdownFlag, heap>>
  BY <1>1 DEF queues, poolVars
<1>3. \A o : o \in Held' <=> o \in Held
  BY <1>1, <1>2, HeldIs, HeldIsNext
<1>4. OneOwner'
  BY <1>1, <1>2, <1>3, PassesOn
<1>5. to \in {"idle", "recv", "stop", "done"} => ref'[t] = NoObj
  BY <1>1 DEF Pointers
<1>6. Handles(t, to)
  BY <1>1, <1>2, <1>5, Homes DEF TypeOK, Pointers, Handles
<1> QED
  BY <1>4, <1>6, HandlesKeeps

\* The end of the scope of a pointer keeps the invariant.
LEMMA DropKeeps ==
    ASSUME BridgeInv, NEW t \in Thread, Drop(t)
    PROVE  BridgeInv'
<1> USE DEF BridgeInv
<1>1. PICK to \in {"idle", "recv"} :
        /\ pc[t] = "drop" /\ pc' = [pc EXCEPT ![t] = to]
        /\ ref' = [ref EXCEPT ![t] = NoObj]
        /\ Release(t)
        /\ UNCHANGED <<calls, queues, notifying, stream, pool, shutdownFlag>>
  BY DEF Drop, At, Goto
<1>2. UNCHANGED <<inbound, queued, ring, unread>>
  BY <1>1 DEF queues
<1>3. \A u \in Thread : ref'[u] = IF u = t THEN NoObj ELSE ref[u]
  BY <1>1 DEF TypeOK
<1>4. \A o : o \in Held' => o \in Held
  BY <1>2, <1>3, HeldIs, HeldIsNext
<1>5. OneOwner'
  BY <1>1, <1>4, DropsLast
<1>6. engine[Home[t]] # "none"
  BY <1>1 DEF Threads
<1>7. /\ heap' \subseteq Obj
      /\ dying' \in [Thread -> SUBSET Obj]
      /\ \A u \in Thread \ {t} : dying'[u] = dying[u]
  BY <1>1, ReleaseTypes
<1>8. Handles(t, to)
  BY <1>1, <1>2, <1>3, <1>7, Homes DEF TypeOK, Pointers, Handles
<1> QED
  BY <1>5, <1>6, <1>8, HandlesKeeps

\* The deleter under the mutex keeps the invariant.
LEMMA ReturnOrDeleteKeeps ==
    ASSUME BridgeInv, NEW t \in Thread, ReturnOrDelete(t)
    PROVE  BridgeInv'
<1> USE DEF BridgeInv
<1>1. PICK o \in dying[t] :
        /\ IF GoesBack THEN pool' = pool \cup {o} /\ UNCHANGED heap
           ELSE heap' = heap \ {o} /\ UNCHANGED pool
        /\ dying' = [dying EXCEPT ![t] = @ \ {o}]
        /\ UNCHANGED <<calls, pc, ref, queues, notifying, stream, shutdownFlag>>
  BY DEF ReturnOrDelete
<1>2. /\ UNCHANGED <<inbound, queued, ring, unread>>
      /\ UNCHANGED <<mpc, cpc, g_initialised, g_engine, engine>>
      /\ UNCHANGED <<snap, i, needs_prune, observers, active, subscribed>>
  BY <1>1 DEF queues, calls, bridge, notifying, stream
<1>3. o \in Obj /\ \A u \in Thread : dying'[u] = IF u = t THEN dying[t] \ {o} ELSE dying[u]
  BY <1>1 DEF TypeOK
<1>4. pool' \subseteq Obj /\ heap' \subseteq Obj /\ dying' \in [Thread -> SUBSET Obj]
  BY <1>1, <1>3 DEF TypeOK
<1>5. TypeOK'
  BY <1>1, <1>2, <1>4 DEF TypeOK
<1>6. engine[Home[t]] # "none" /\ pc[t] # "done"
  BY <1>1 DEF Threads
<1>7. Works(t)
  BY <1>1, <1>2, <1>3, <1>6 DEF Works
<1>8. Engines' /\ Threads'
  BY <1>7, WorksKeeps
<1>9. Pointers'
  BY <1>1, <1>2 DEF Pointers
<1>10. OneOwner'
  <2> DEFINE H == Held
             K == Held'
             D == UNION {dying[u] : u \in Thread}
             E == UNION {dying'[u] : u \in Thread}
  <2>1. K = H
    <3>1. \A p : p \in Held' <=> p \in Held
      BY <1>1, <1>2, HeldIs, HeldIsNext
    <3> QED
      BY <3>1
  <2>2. /\ heap = pool \cup H \cup D /\ pool \cap H = {}
        /\ \A u \in Thread : /\ dying[u] \cap (pool \cup H) = {}
                             /\ \A v \in Thread \ {u} : dying[u] \cap dying[v] = {}
    BY DEF OneOwner
  <2> HIDE DEF H, K
  <2>3. E = D \ {o}
    <3>1. \A p : p \in E <=> \E u \in Thread : p \in dying'[u]
      OBVIOUS
    <3>2. \A p : p \in D <=> \E u \in Thread : p \in dying[u]
      OBVIOUS
    <3>3. \A u \in Thread : u # t => o \notin dying[u]
      BY <1>1, <2>2
    <3> HIDE DEF D, E
    <3> QED
      BY <1>3, <3>1, <3>2, <3>3
  <2>4. o \in D /\ o \notin pool /\ o \notin H
    BY <1>1, <2>2
  <2>5. heap' = pool' \cup K \cup E
    <3> HIDE DEF D, E
    <3> QED
      BY <1>1, <2>1, <2>2, <2>3, <2>4
  <2>6. pool' \cap K = {}
    BY <1>1, <2>1, <2>2, <2>4
  <2>7. \A u \in Thread : dying'[u] \cap (pool' \cup K) = {}
    <3>1. \A u \in Thread : o \notin dying'[u]
      BY <1>1, <1>3, <2>2
    <3> QED
      BY <1>1, <1>3, <2>1, <2>2, <3>1
  <2>8. \A u \in Thread : \A v \in Thread \ {u} : dying'[u] \cap dying'[v] = {}
    BY <1>3, <2>2
  <2> QED
    BY <2>5, <2>6, <2>7, <2>8 DEF OneOwner, K
<1>11. Filled'
  <2>1. CASE ~GoesBack
    BY <1>1, <2>1, TakesKeeps
  <2>2. CASE GoesBack
    <3>1. ~shutdownFlag /\ ~shutdownFlag' /\ Cardinality(pool) < kPoolCapacity
      BY <1>1, <2>2 DEF GoesBack
    <3>2. Cardinality(pool') <= Cardinality(pool) + 1 /\ Cardinality(pool) \in Nat
          /\ kPoolCapacity \in Nat
      BY <1>1, <2>2, PoolSize DEF TypeOK
    <3>3. pool' \in SUBSET Obj
      BY <1>4
    <3>4. Cardinality(pool') \in Nat
      BY <3>3, PoolSize
    <3>5. Cardinality(pool') <= kPoolCapacity
      BY <3>1, <3>2, <3>4
    <3>6. ~(NoneLeaked /\ mpc = "idle" /\ ~g_initialised)
      <4>1. engine[Home[t]] # "deleted"
        BY <1>6 DEF Threads, Thread
      <4>2. Home[t] \in Engine
        BY Homes
      <4> QED
        BY <1>6, <4>1, <4>2 DEF Engines, NoneLeaked, TypeOK
    <3>7. (NoneLeaked' <=> NoneLeaked) /\ mpc' = mpc /\ g_initialised' = g_initialised
      BY <1>2 DEF NoneLeaked
    <3> QED
      BY <3>1, <3>5, <3>6, <3>7 DEF Filled, EmptyAfterShutdown, PoolBounded
  <2> QED
    BY <2>1, <2>2
<1>12. Observers'
  <2>1. (NoneLeaked' <=> NoneLeaked) /\ \A w \in Worker : Left(w)' = Left(w)
    BY <1>2 DEF NoneLeaked, Left
  <2> QED
    BY <1>1, <1>2, <2>1 DEF Observers, SubscriberKept
<1> QED
  BY <1>5, <1>8, <1>9, <1>10, <1>11, <1>12

\* The steps of a server keep the invariant.
LEMMA ServerKeeps ==
    ASSUME BridgeInv, NEW s \in Server, ServerStep(s)
    PROVE  BridgeInv'
<1> s \in Thread
  BY DEF Thread
<1>1. CASE ServerTest(s)
  BY <1>1, MovesKeeps DEF ServerTest
<1>2. CASE Nothing(s)
  <2>1. engine[Home[s]] # "none"
    BY <1>2 DEF Nothing, Moves, At, BridgeInv, Threads
  <2> QED
    BY <1>2, <2>1, MovesKeeps DEF Nothing
<1>3. CASE Receive(s)
  <2> USE DEF BridgeInv
  <2> DEFINE n == Home[s]
  <2>1. /\ pc[s] = "recv" /\ dying[s] = {} /\ pc' = [pc EXCEPT ![s] = "drop"]
        /\ UNCHANGED <<calls, dying, queued, ring, unread, notifying, stream, shutdownFlag>>
    BY <1>3 DEF Receive, At, Goto
  <2>2. PICK o \in Obj : /\ Acquire(o)
                         /\ ref' = [ref EXCEPT ![s] = o]
                         /\ \/ inbound' = [inbound EXCEPT ![n] = @ \cup {o}]
                            \/ UNCHANGED inbound
    BY <1>3 DEF Receive
  <2>3. n \in Engine /\ NoObj \notin Obj
    BY Homes
  <2>4. /\ \A u \in Thread : ref'[u] = IF u = s THEN o ELSE ref[u]
        /\ \A m \in Engine : \/ inbound'[m] = inbound[m]
                             \/ m = n /\ inbound'[m] = inbound[m] \cup {o}
    BY <2>2, <2>3 DEF TypeOK
  <2>5. ref[s] = NoObj
    BY <2>1 DEF Pointers
  <2>6. \A p : p \in Held' <=> p \in Held \/ p = o
    <3>1. \A p : p \in Held => p \in Held' \/ p = o
      BY <2>1, <2>4, <2>5, HeldIs, HeldIsNext
    <3>2. \A p : p \in Held' => p \in Held \/ p = o
      BY <2>1, <2>4, <2>5, HeldIs, HeldIsNext
    <3>3. o \in Held'
      BY <2>3, <2>4, HeldIsNext
    <3> QED
      BY <3>1, <3>2, <3>3
  <2>7. OneOwner'
    <3> DEFINE H == Held
               K == Held'
               D == UNION {dying[u] : u \in Thread}
    <3>1. /\ heap = pool \cup H \cup D /\ pool \cap H = {}
          /\ \A u \in Thread : /\ dying[u] \cap (pool \cup H) = {}
                               /\ \A v \in Thread \ {u} : dying[u] \cap dying[v] = {}
      BY DEF OneOwner
    <3>2. K = H \cup {o} /\ dying' = dying
      BY <2>1, <2>6
    <3> HIDE DEF H, K
    <3>3. /\ pool' = pool \ {o} /\ heap' = heap \cup {o}
          /\ o \in pool \/ o \notin heap
      BY <2>2 DEF Acquire, TakeFront
    <3>4. \A u \in Thread : o \notin dying[u]
      BY <3>1, <3>3
    <3>5. heap' = pool' \cup K \cup D
      <4> HIDE DEF D
      <4> QED
        BY <3>1, <3>2, <3>3
    <3>6. UNION {dying'[u] : u \in Thread} = D
      BY <3>2
    <3>7. pool' \cap K = {}
      BY <3>1, <3>2, <3>3
    <3>8. \A u \in Thread : dying'[u] \cap (pool' \cup K) = {}
      BY <3>1, <3>2, <3>3, <3>4
    <3>9. \A u \in Thread : \A v \in Thread \ {u} : dying'[u] \cap dying'[v] = {}
      BY <3>1, <3>2
    <3> HIDE DEF D
    <3> QED
      BY <3>5, <3>6, <3>7, <3>8, <3>9 DEF OneOwner, K
  <2>8. /\ ref' \in [Thread -> Obj \cup {NoObj}] /\ inbound' \in [Engine -> SUBSET Obj]
        /\ pool' \subseteq pool /\ heap' \subseteq Obj
    BY <2>2, <2>3 DEF TypeOK, Acquire, TakeFront
  <2>9. Handles(s, "drop")
    BY <2>1, <2>3, <2>4, <2>8 DEF TypeOK, Pointers, Handles
  <2>10. engine[Home[s]] # "none"
    BY <2>1 DEF Threads
  <2> QED
    BY <2>7, <2>9, <2>10, HandlesKeeps
<1> QED
  BY <1>1, <1>2, <1>3, DropKeeps, ReturnOrDeleteKeeps DEF ServerStep

\* The steps of a Dispatcher keep the invariant.
LEMMA DispatcherKeeps ==
    ASSUME BridgeInv, NEW d \in Dispatcher, DispatcherStep(d)
    PROVE  BridgeInv'
<1> d \in Thread
  BY DEF Thread
<1> DEFINE n == Home[d]
<1>n. n \in Engine /\ NoObj \notin Obj
  BY Homes
<1>1. CASE Fetch(d)
  <2> USE DEF BridgeInv
  <2>1. /\ pc[d] = "idle" /\ Dispatching(n) /\ pc' = [pc EXCEPT ![d] = "route"]
        /\ UNCHANGED <<calls, dying, queued, ring, unread, notifying, stream, poolVars>>
    BY <1>1 DEF Fetch, At, Goto
  <2>2. PICK o \in inbound[n] : /\ inbound' = [inbound EXCEPT ![n] = @ \ {o}]
                                /\ ref' = [ref EXCEPT ![d] = o]
    BY <1>1 DEF Fetch
  <2>3. /\ o \in Obj /\ ref[d] = NoObj
        /\ \A u \in Thread : ref'[u] = IF u = d THEN o ELSE ref[u]
        /\ \A m \in Engine : inbound'[m] = IF m = n THEN inbound[n] \ {o} ELSE inbound[m]
    BY <1>n, <2>1, <2>2 DEF TypeOK, Pointers
  <2>4. \A p : p \in Held' <=> p \in Held
    <3>1. o \in Held /\ o \in Held'
      BY <1>n, <2>2, <2>3, HeldIs, HeldIsNext
    <3>2. \A p : p # o => (p \in Held' <=> p \in Held)
      BY <2>1, <2>3, HeldIs, HeldIsNext
    <3> QED
      BY <3>1, <3>2
  <2>5. UNCHANGED <<pool, shutdownFlag, heap, dying>>
    BY <2>1 DEF poolVars
  <2>6. OneOwner'
    BY <2>4, <2>5, PassesOn
  <2>7. ref' \in [Thread -> Obj \cup {NoObj}] /\ inbound' \in [Engine -> SUBSET Obj]
    BY <1>n, <2>2, <2>3 DEF TypeOK
  <2>8. Handles(d, "route")
    BY <1>n, <2>1, <2>3, <2>5, <2>7 DEF TypeOK, Pointers, Handles
  <2>9. engine[n] # "none"
    BY <2>1 DEF Dispatching
  <2> QED
    BY <2>6, <2>8, <2>9, HandlesKeeps
<1>2. CASE DispatchEnds(d)
  BY <1>2, MovesKeeps DEF DispatchEnds
<1>3. CASE PushDeque(d)
  <2> USE DEF BridgeInv
  <2>1. /\ pc[d] = "route" /\ pc' = [pc EXCEPT ![d] = "drop"]
        /\ \/ queued' = [queued EXCEPT ![n] = @ \cup {ref[d]}]
           \/ UNCHANGED queued
        /\ UNCHANGED <<calls, ref, dying, inbound, ring, unread, notifying, stream, poolVars>>
    BY <1>3 DEF PushDeque, At, Goto
  <2>2. ref[d] \in Obj
    BY <2>1 DEF Pointers
  <2>3. \A m \in Engine : \/ queued'[m] = queued[m]
                          \/ m = n /\ queued'[m] = queued[m] \cup {ref[d]}
    BY <1>n, <2>1 DEF TypeOK
  <2>4. \A p : p \in Held' <=> p \in Held
    <3>1. ref[d] \in Held /\ ref[d] \in Held'
      BY <1>n, <2>1, <2>2, HeldIs, HeldIsNext
    <3>2. \A p : p # ref[d] => (p \in Held' <=> p \in Held)
      BY <2>1, <2>3, HeldIs, HeldIsNext
    <3> QED
      BY <3>1, <3>2
  <2>5. UNCHANGED <<pool, shutdownFlag, heap, dying>>
    BY <2>1 DEF poolVars
  <2>6. OneOwner'
    BY <2>4, <2>5, PassesOn
  <2>7. queued' \in [Engine -> SUBSET Obj]
    BY <1>n, <2>1, <2>2 DEF TypeOK
  <2>8. Handles(d, "drop")
    BY <1>n, <2>1, <2>3, <2>5, <2>7 DEF TypeOK, Pointers, Handles
  <2>9. engine[n] # "none"
    BY <2>1 DEF Threads
  <2> QED
    BY <2>6, <2>8, <2>9, HandlesKeeps
<1>4. CASE PushRing(d)
  <2> USE DEF BridgeInv
  <2>1. /\ pc[d] = "route" /\ pc' = [pc EXCEPT ![d] = "drop"]
        /\ UNCHANGED <<ref, inbound, queued>>
        /\ Release(d)
        /\ UNCHANGED <<calls, notifying, stream, pool, shutdownFlag>>
    BY <1>4 DEF PushRing, At, Goto
  <2>2. PICK left \in Room(n) : \E old \in Overwritten(n) :
          /\ unread' = [unread EXCEPT ![n] = left \cup {ref[d]}]
          /\ ring' = [ring EXCEPT ![n] = (@ \ old) \cup {ref[d]}]
    BY <1>4 DEF PushRing
  <2>3. PICK old \in Overwritten(n) :
          /\ unread' = [unread EXCEPT ![n] = left \cup {ref[d]}]
          /\ ring' = [ring EXCEPT ![n] = (@ \ old) \cup {ref[d]}]
    BY <2>2
  <2>4. left \subseteq unread[n]
    BY <2>2 DEF Room
  <2>5. old \cap unread[n] = {}
    BY <2>3 DEF Overwritten
  <2>6. ref[d] \in Obj /\ unread[n] \subseteq ring[n]
    BY <1>n, <2>1 DEF Pointers
  <2>7. \A m \in Engine :
          /\ ring'[m] = IF m = n THEN (ring[n] \ old) \cup {ref[d]} ELSE ring[m]
          /\ unread'[m] = IF m = n THEN left \cup {ref[d]} ELSE unread[m]
    BY <1>n, <2>3 DEF TypeOK
  <2>8. \A p : p \in Held' => p \in Held
    <3>1. ref[d] \in Held
      BY <1>n, <2>6, HeldIs
    <3>2. \A p : p # ref[d] => (p \in Held' => p \in Held)
      BY <2>1, <2>7, HeldIs, HeldIsNext
    <3> QED
      BY <3>1, <3>2
  <2>9. OneOwner'
    BY <2>1, <2>8, DropsLast
  <2>10. ring' \in [Engine -> SUBSET Obj] /\ unread' \in [Engine -> SUBSET Obj]
         /\ unread'[n] \subseteq ring'[n]
    <3>1. (ring[n] \ old) \cup {ref[d]} \in SUBSET Obj /\ left \cup {ref[d]} \in SUBSET Obj
      BY <1>n, <2>4, <2>6 DEF TypeOK
    <3>2. ring' \in [Engine -> SUBSET Obj] /\ unread' \in [Engine -> SUBSET Obj]
      BY <2>3, <3>1 DEF TypeOK
    <3> QED
      BY <1>n, <2>4, <2>5, <2>6, <2>7, <3>2
  <2>11. /\ heap' \subseteq Obj
         /\ dying' \in [Thread -> SUBSET Obj]
         /\ \A u \in Thread \ {d} : dying'[u] = dying[u]
    BY <2>1, ReleaseTypes
  <2>12. Handles(d, "drop")
    BY <1>n, <2>1, <2>7, <2>10, <2>11 DEF TypeOK, Handles
  <2>13. engine[n] # "none"
    BY <2>1 DEF Threads
  <2> QED
    BY <2>9, <2>12, <2>13, HandlesKeeps
<1> QED
  BY <1>1, <1>2, <1>3, <1>4, DropKeeps, ReturnOrDeleteKeeps DEF DispatcherStep

\* The types of what a notification changes.
NoticeTypes ==
    /\ active' \in Seq(BOOLEAN) /\ Len(active') = Len(active) /\ DOMAIN active' = DOMAIN active
    /\ observers' \subseteq observers
    /\ snap' \in [Worker -> SUBSET DOMAIN active]
    /\ i' \in [Worker -> 0 .. MaxSubscribers]
    /\ needs_prune' \in [Worker -> BOOLEAN]

\* A step of a notification.
Notifies(w, x) == /\ pc[w] \in {"process", "stop", "notify", "callback"}
                  /\ x \in {"notify", "callback", "process", "stop", "drop"}
                  /\ pc' = [pc EXCEPT ![w] = x]
                  /\ x = "stop" => ref[w] = NoObj
                  /\ UNCHANGED <<calls, ref, dying, queues, poolVars, subscribed>>
                  /\ NoticeTypes

\* It keeps the invariant, if it keeps what is known of the observers.
LEMMA NotifiesKeeps ==
    ASSUME BridgeInv, NEW w \in Worker, NEW x, Notifies(w, x), Observers'
    PROVE  BridgeInv'
<1> USE DEF BridgeInv, Notifies
<1> w \in Thread
  BY DEF Thread
<1>1. /\ UNCHANGED <<inbound, queued, ring, unread, pool, shutdownFlag, heap>>
      /\ UNCHANGED <<mpc, cpc, g_initialised, g_engine, engine>>
  BY DEF queues, poolVars, calls, bridge
<1>2. /\ pc' \in [Thread -> {"idle", "recv", "route", "process", "notify", "callback", "drop",
                             "stop", "done"}]
      /\ \A u \in Thread : pc'[u] = IF u = w THEN x ELSE pc[u]
  BY DEF TypeOK
<1>3. TypeOK'
  BY <1>1, <1>2 DEF TypeOK, NoticeTypes
<1>4. Works(w)
  <2>1. engine[Home[w]] # "none"
    BY DEF Threads
  <2> QED
    BY <1>1, <1>2, <2>1 DEF Works
<1>5. Engines' /\ Threads'
  BY <1>4, WorksKeeps
<1>6. Pointers'
  BY <1>1, <1>2 DEF Pointers
<1>7. OneOwner'
  <2>1. \A o : o \in Held' <=> o \in Held
    BY <1>1, HeldIs, HeldIsNext
  <2> QED
    BY <1>1, <2>1, PassesOn
<1>8. Filled'
  BY <1>1, TakesKeeps
<1> QED
  BY <1>3, <1>5, <1>6, <1>7, <1>8

\* The steps of a processor on the queues keep the invariant.
LEMMA WorkerTakes ==
    ASSUME BridgeInv, NEW w \in Worker, TakeDeque(w) \/ TakeRing(w) \/ DropBatch(w)
    PROVE  BridgeInv'
<1> USE DEF BridgeInv
<1> w \in Thread
  BY DEF Thread
<1> DEFINE n == Home[w]
<1>n. n \in Engine /\ NoObj \notin Obj
  BY Homes
<1>1. CASE TakeDeque(w)
  <2>1. /\ pc[w] = "idle" /\ Processing(n) /\ pc' = [pc EXCEPT ![w] = "process"]
        /\ UNCHANGED <<calls, dying, inbound, ring, unread, notifying, stream, poolVars>>
    BY <1>1 DEF TakeDeque, At, Goto
  <2>2. PICK o \in queued[n] : /\ queued' = [queued EXCEPT ![n] = @ \ {o}]
                               /\ ref' = [ref EXCEPT ![w] = o]
    BY <1>1 DEF TakeDeque
  <2>3. /\ o \in Obj /\ ref[w] = NoObj
        /\ \A u \in Thread : ref'[u] = IF u = w THEN o ELSE ref[u]
        /\ \A m \in Engine : queued'[m] = IF m = n THEN queued[n] \ {o} ELSE queued[m]
    BY <1>n, <2>1, <2>2 DEF TypeOK, Pointers
  <2>4. \A p : p \in Held' <=> p \in Held
    <3>1. o \in Held /\ o \in Held'
      BY <1>n, <2>2, <2>3, HeldIs, HeldIsNext
    <3>2. \A p : p # o => (p \in Held' <=> p \in Held)
      BY <2>1, <2>3, HeldIs, HeldIsNext
    <3> QED
      BY <3>1, <3>2
  <2>5. UNCHANGED <<pool, shutdownFlag, heap, dying>>
    BY <2>1 DEF poolVars
  <2>6. OneOwner'
    BY <2>4, <2>5, PassesOn
  <2>7. ref' \in [Thread -> Obj \cup {NoObj}] /\ queued' \in [Engine -> SUBSET Obj]
    BY <1>n, <2>2, <2>3 DEF TypeOK
  <2>8. Handles(w, "process")
    BY <1>n, <2>1, <2>3, <2>5, <2>7 DEF TypeOK, Pointers, Handles
  <2>9. engine[n] # "none"
    BY <2>1 DEF Processing
  <2> QED
    BY <2>6, <2>8, <2>9, HandlesKeeps
<1>2. CASE TakeRing(w)
  <2>1. /\ pc[w] = "idle" /\ Processing(n) /\ pc' = [pc EXCEPT ![w] = "process"]
        /\ UNCHANGED <<calls, dying, inbound, queued, ring, notifying, stream, poolVars>>
    BY <1>2 DEF TakeRing, At, Goto
  <2>2. PICK o \in unread[n] : /\ unread' = [unread EXCEPT ![n] = @ \ {o}]
                               /\ ref' = [ref EXCEPT ![w] = o]
    BY <1>2 DEF TakeRing
  <2>3. /\ o \in Obj /\ ref[w] = NoObj /\ o \in ring[n]
        /\ \A u \in Thread : ref'[u] = IF u = w THEN o ELSE ref[u]
        /\ \A m \in Engine : unread'[m] = IF m = n THEN unread[n] \ {o} ELSE unread[m]
    BY <1>n, <2>1, <2>2 DEF TypeOK, Pointers
  <2>4. \A p : p \in Held' <=> p \in Held
    <3>1. o \in Held /\ o \in Held'
      BY <1>n, <2>1, <2>3, HeldIs, HeldIsNext
    <3>2. \A p : p # o => (p \in Held' <=> p \in Held)
      BY <2>1, <2>3, HeldIs, HeldIsNext
    <3> QED
      BY <3>1, <3>2
  <2>5. UNCHANGED <<pool, shutdownFlag, heap, dying>>
    BY <2>1 DEF poolVars
  <2>6. OneOwner'
    BY <2>4, <2>5, PassesOn
  <2>7. /\ ref' \in [Thread -> Obj \cup {NoObj}] /\ unread' \in [Engine -> SUBSET Obj]
        /\ unread'[n] \subseteq ring'[n]
    BY <1>n, <2>1, <2>2, <2>3 DEF TypeOK, Pointers
  <2>8. Handles(w, "process")
    BY <1>n, <2>1, <2>3, <2>5, <2>7 DEF TypeOK, Handles
  <2>9. engine[n] # "none"
    BY <2>1 DEF Processing
  <2> QED
    BY <2>6, <2>8, <2>9, HandlesKeeps
<1>3. CASE DropBatch(w)
  <2>1. /\ pc[w] = "process"
        /\ UNCHANGED <<pc, ref, inbound, ring, unread>>
        /\ Release(w)
        /\ UNCHANGED <<calls, notifying, stream, pool, shutdownFlag>>
    BY <1>3 DEF DropBatch, At
  <2>2. PICK some \in SUBSET queued[n] : queued' = [queued EXCEPT ![n] = @ \ some]
    BY <1>3 DEF DropBatch
  <2>3. \A m \in Engine : queued'[m] = IF m = n THEN queued[n] \ some ELSE queued[m]
    BY <1>n, <2>2 DEF TypeOK
  <2>4. \A p : p \in Held' => p \in Held
    BY <2>1, <2>3, HeldIs, HeldIsNext
  <2>5. OneOwner'
    BY <2>1, <2>4, DropsLast
  <2>6. queued' \in [Engine -> SUBSET Obj] /\ pc' = [pc EXCEPT ![w] = "process"]
    BY <1>n, <2>1, <2>2 DEF TypeOK
  <2>7. /\ heap' \subseteq Obj
        /\ dying' \in [Thread -> SUBSET Obj]
        /\ \A u \in Thread \ {w} : dying'[u] = dying[u]
    BY <2>1, ReleaseTypes
  <2>8. Handles(w, "process")
    BY <1>n, <2>1, <2>3, <2>6, <2>7 DEF TypeOK, Pointers, Handles
  <2>9. engine[n] # "none"
    BY <2>1 DEF Threads
  <2> QED
    BY <2>5, <2>8, <2>9, HandlesKeeps
<1> QED
  BY <1>1, <1>2, <1>3

\* The steps of a notification keep the invariant.
LEMMA WorkerNotifies ==
    ASSUME BridgeInv, NEW w \in Worker, Notify(w) \/ Visit(w) \/ Return(w) \/ Notified(w)
    PROVE  BridgeInv'
<1> USE DEF BridgeInv
<1> w \in Thread /\ Worker \subseteq Thread
  BY DEF Thread
<1>m. 0 \in 0 .. MaxSubscribers
  BY BridgeAssumption
<1>1. CASE Notify(w)
  <2>1. /\ pc[w] \in {"process", "stop"} /\ pc' = [pc EXCEPT ![w] = "notify"]
        /\ snap' = [snap EXCEPT ![w] = observers]
        /\ i' = [i EXCEPT ![w] = 0]
        /\ UNCHANGED <<calls, ref, dying, queues, needs_prune, stream, poolVars>>
    BY <1>1 DEF Notify, At, Goto
  <2>2. UNCHANGED <<engine, observers, active, subscribed>>
    BY <2>1 DEF calls, bridge, stream
  <2>3. snap' \in [Worker -> SUBSET DOMAIN active] /\ i' \in [Worker -> 0 .. MaxSubscribers]
    BY <1>m, <2>1 DEF TypeOK
  <2>4. NoticeTypes
    BY <2>1, <2>2, <2>3 DEF TypeOK, NoticeTypes
  <2>5. Notifies(w, "notify")
    BY <2>1, <2>2, <2>4 DEF Notifies
  <2>6. \A v \in Worker : /\ pc'[v] = IF v = w THEN "notify" ELSE pc[v]
                          /\ snap'[v] = IF v = w THEN observers ELSE snap[v]
                          /\ v # w => i'[v] = i[v]
    BY <2>1 DEF TypeOK
  <2>7. (NoneLeaked' <=> NoneLeaked) /\ \A v \in Worker : v # w => Left(v)' = Left(v)
    BY <2>2, <2>6 DEF NoneLeaked, Left
  <2>8. Observers'
    BY <2>2, <2>6, <2>7 DEF Observers, SubscriberKept
  <2> QED
    BY <2>5, <2>8, NotifiesKeeps
<1>2. CASE Visit(w)
  <2>1. /\ pc[w] = "notify" /\ Left(w) # {}
        /\ UNCHANGED <<calls, ref, dying, queues, snap, stream, poolVars>>
    BY <1>2 DEF Visit, At
  <2>2. UNCHANGED <<engine, observers, active, subscribed>>
    BY <2>1 DEF calls, bridge, stream
  <2>3. PICK x \in {"notify", "callback"} :
          /\ pc' = [pc EXCEPT ![w] = x]
          /\ x = "callback" => i' = i
          /\ i' = i \/ i' = [i EXCEPT ![w] = obs(w)]
          /\ \/ needs_prune' = needs_prune
             \/ needs_prune' = [needs_prune EXCEPT ![w] = @ \/ ~active[obs(w)]]
    <3>1. CASE /\ active[obs(w)]
               /\ Goto(w, "callback")
               /\ UNCHANGED <<i, needs_prune>>
      BY <3>1 DEF Goto
    <3>2. CASE /\ i' = [i EXCEPT ![w] = obs(w)]
               /\ needs_prune' = [needs_prune EXCEPT ![w] = @ \/ ~active[obs(w)]]
               /\ UNCHANGED pc
      <4>1. pc' = [pc EXCEPT ![w] = "notify"]
        BY <2>1, <3>2 DEF TypeOK
      <4> QED
        BY <3>2, <4>1
    <3> QED
      BY <1>2, <3>1, <3>2 DEF Visit
  <2>4. obs(w) \in 0 .. MaxSubscribers
    BY <2>1, ObsIn
  <2>5. needs_prune' \in [Worker -> BOOLEAN]
    <3> DEFINE b == needs_prune[w] \/ ~active[obs(w)]
    <3>1. b \in BOOLEAN
      OBVIOUS
    <3>2. needs_prune' = needs_prune \/ needs_prune' = [needs_prune EXCEPT ![w] = b]
      BY <2>3
    <3> HIDE DEF b
    <3> QED
      BY <3>1, <3>2 DEF TypeOK
  <2>6. i' \in [Worker -> 0 .. MaxSubscribers]
    BY <2>3, <2>4 DEF TypeOK
  <2>7. NoticeTypes
    BY <2>1, <2>2, <2>5, <2>6 DEF TypeOK, NoticeTypes
  <2>8. Notifies(w, x)
    BY <2>1, <2>2, <2>3, <2>7 DEF Notifies
  <2>9. \A v \in Worker : /\ pc'[v] = IF v = w THEN x ELSE pc[v]
                          /\ v # w => i'[v] = i[v]
    BY <2>3 DEF TypeOK
  <2>10. (NoneLeaked' <=> NoneLeaked) /\ \A v \in Worker : v # w => Left(v)' = Left(v)
    BY <2>1, <2>2, <2>9 DEF NoneLeaked, Left
  <2>11. x = "callback" => Left(w)' # {}
    BY <2>1, <2>3 DEF Left
  <2>12. Observers'
    BY <2>1, <2>2, <2>9, <2>10, <2>11 DEF Observers, SubscriberKept
  <2> QED
    BY <2>8, <2>12, NotifiesKeeps
<1>3. CASE Return(w)
  <2>1. /\ pc[w] = "callback" /\ pc' = [pc EXCEPT ![w] = "notify"]
        /\ active' = [active EXCEPT ![obs(w)] = FALSE] \/ UNCHANGED active
        /\ i' = [i EXCEPT ![w] = obs(w)]
        /\ UNCHANGED <<calls, ref, dying, queues, snap, needs_prune, observers, subscribed,
                       poolVars>>
    BY <1>3 DEF Return, At, Goto
  <2>2. engine' = engine
    BY <2>1 DEF calls, bridge
  <2>3. obs(w) \in DOMAIN active /\ obs(w) \in 0 .. MaxSubscribers
    <3>1. Left(w) # {}
      BY <2>1 DEF Observers
    <3> QED
      BY <3>1, ObsIn
  <2>4. active' \in Seq(BOOLEAN) /\ Len(active') = Len(active) /\ DOMAIN active' = DOMAIN active
    <3>1. CASE active' = [active EXCEPT ![obs(w)] = FALSE]
      BY <2>3, <3>1, ExceptSeq, LenProperties DEF TypeOK
    <3>2. CASE UNCHANGED active
      BY <3>2 DEF TypeOK
    <3> QED
      BY <2>1, <3>1, <3>2
  <2>5. i' \in [Worker -> 0 .. MaxSubscribers]
    BY <2>1, <2>3 DEF TypeOK
  <2>6. NoticeTypes
    BY <2>1, <2>4, <2>5 DEF TypeOK, NoticeTypes
  <2>7. Notifies(w, "notify")
    BY <2>1, <2>6 DEF Notifies
  <2>8. \A v \in Worker : /\ pc'[v] = IF v = w THEN "notify" ELSE pc[v]
                          /\ v # w => i'[v] = i[v]
    BY <2>1 DEF TypeOK
  <2>9. (NoneLeaked' <=> NoneLeaked) /\ \A v \in Worker : v # w => Left(v)' = Left(v)
    BY <2>1, <2>2, <2>8 DEF NoneLeaked, Left
  <2>10. \A s \in subscribed : active'[s] => active[s]
    BY <2>1, <2>3 DEF TypeOK
  <2>11. SubscriberKept'
    BY <2>1, <2>10 DEF Observers, SubscriberKept
  <2>12. Observers'
    BY <2>1, <2>8, <2>9, <2>11 DEF Observers
  <2> QED
    BY <2>7, <2>12, NotifiesKeeps
<1>4. CASE Notified(w)
  <2> DEFINE x == IF w \notin Batch THEN "drop" ELSE IF ref[w] = NoObj THEN "stop" ELSE "process"
  <2>1. /\ pc[w] = "notify" /\ pc' = [pc EXCEPT ![w] = x]
        /\ observers' = {o \in observers : active[o]} \/ observers' = observers
        /\ snap' = [snap EXCEPT ![w] = {}]
        /\ i' = [i EXCEPT ![w] = 0]
        /\ needs_prune' = [needs_prune EXCEPT ![w] = FALSE]
        /\ UNCHANGED <<calls, ref, dying, queues, active, subscribed, poolVars>>
    BY <1>4 DEF Notified, At, Goto, Prune
  <2>2. engine' = engine
    BY <2>1 DEF calls, bridge
  <2>3. /\ snap' \in [Worker -> SUBSET DOMAIN active]
        /\ i' \in [Worker -> 0 .. MaxSubscribers]
        /\ needs_prune' \in [Worker -> BOOLEAN]
    BY <1>m, <2>1 DEF TypeOK
  <2>4. NoticeTypes
    BY <2>1, <2>3 DEF TypeOK, NoticeTypes
  <2>5. x \in {"process", "stop", "drop"} /\ (x = "stop" => ref[w] = NoObj)
    OBVIOUS
  <2> HIDE DEF x
  <2>6. Notifies(w, x)
    BY <2>1, <2>4, <2>5 DEF Notifies
  <2>7. \A v \in Worker : /\ pc'[v] = IF v = w THEN x ELSE pc[v]
                          /\ snap'[v] = IF v = w THEN {} ELSE snap[v]
                          /\ v # w => i'[v] = i[v]
    BY <2>1 DEF TypeOK
  <2>8. (NoneLeaked' <=> NoneLeaked) /\ \A v \in Worker : v # w => Left(v)' = Left(v)
    BY <2>1, <2>2, <2>7 DEF NoneLeaked, Left
  <2>9. SubscriberKept' /\ observers' \subseteq subscribed'
    BY <2>1 DEF Observers, SubscriberKept
  <2>10. Observers'
    BY <2>1, <2>5, <2>7, <2>8, <2>9 DEF Observers
  <2> QED
    BY <2>6, <2>10, NotifiesKeeps
<1> QED
  BY <1>1, <1>2, <1>3, <1>4

\* The steps of a processor keep the invariant.
LEMMA WorkerKeeps ==
    ASSUME BridgeInv, NEW w \in Worker, WorkerStep(w)
    PROVE  BridgeInv'
<1> w \in Thread
  BY DEF Thread
<1>1. CASE Processed(w) \/ Stopped(w)
  <2>1. engine[Home[w]] # "none"
    BY <1>1 DEF Processed, Stopped, Moves, At, BridgeInv, Threads
  <2> QED
    BY <1>1, <2>1, MovesKeeps DEF Processed, Stopped
<1>2. CASE LoopEnds(w)
  BY <1>2, MovesKeeps DEF LoopEnds
<1> QED
  BY <1>1, <1>2, WorkerTakes, WorkerNotifies, DropKeeps, ReturnOrDeleteKeeps DEF WorkerStep

----------------------------------------------------------------------------
(* The callers, init and shutdown *)

\* The steps of a caller keep the invariant.
LEMMA CallerKeeps ==
    ASSUME BridgeInv, NEW c \in Caller, Call(c) \/ Subscribe(c) \/ Read(c)
    PROVE  BridgeInv'
<1> USE DEF BridgeInv
<1>1. /\ UNCHANGED <<mpc, g_initialised, g_engine, engine>>
      /\ UNCHANGED <<pc, ref, dying, inbound, queued, ring, unread>>
      /\ UNCHANGED <<snap, i, needs_prune, pool, shutdownFlag, heap>>
  BY DEF Call, Subscribe, Read, bridge, threads, queues, notifying, poolVars
<1>2. cpc' \in [Caller -> {"idle", "subscribe", "read"}]
  BY DEF Call, Subscribe, Read, TypeOK
<1>3. Engines' /\ Pointers'
  BY <1>1 DEF Engines, Pointers
<1>4. Threads'
  BY <1>1 DEF Threads
<1>5. \A o : o \in Held' <=> o \in Held
  BY <1>1, HeldIs, HeldIsNext
<1>6. OneOwner'
  BY <1>1, <1>5, PassesOn
<1>7. /\ NoneLeaked' <=> NoneLeaked
      /\ \A w \in Worker : Left(w)' = Left(w)
  BY <1>1 DEF NoneLeaked, Left
<1>8. Filled'
  BY <1>1, <1>7 DEF Filled, EmptyAfterShutdown, PoolBounded
<1>9. TypeOK' /\ Observers'
  <2>1. CASE Call(c) \/ Read(c)
    <3>1. UNCHANGED <<observers, active, subscribed>>
      BY <2>1 DEF Call, Read, stream
    <3> QED
      BY <1>1, <1>2, <1>7, <3>1 DEF TypeOK, Observers, SubscriberKept
  <2>2. CASE Subscribe(c)
    <3> DEFINE new == Len(active) + 1
    <3>1. /\ Len(active) < MaxSubscribers
          /\ observers' = observers \cup {new}
          /\ active' = Append(active, TRUE)
          /\ subscribed' = subscribed \cup {new}
      BY <2>2 DEF Subscribe, Added
    <3>2. active \in Seq(BOOLEAN) /\ Len(active) \in Nat /\ DOMAIN active = 1 .. Len(active)
      BY LenProperties DEF TypeOK
    <3>3. /\ active' \in Seq(BOOLEAN) /\ Len(active') = new
          /\ DOMAIN active' = 1 .. new
          /\ \A k \in 1 .. Len(active) : active'[k] = active[k]
      BY <3>1, <3>2, AppendProperties, LenProperties
    <3>4. DOMAIN active \subseteq DOMAIN active' /\ new \in DOMAIN active'
      BY <3>2, <3>3
    <3>5. Len(active') <= MaxSubscribers
      BY <3>1, <3>2, <3>3, BridgeAssumption
    <3>6. TypeOK'
      <4> HIDE DEF new
      <4>1. snap' \in [Worker -> SUBSET DOMAIN active']
        BY <1>1, <3>4 DEF TypeOK
      <4> QED
        BY <1>1, <1>2, <3>1, <3>3, <3>4, <3>5, <4>1 DEF TypeOK
    <3>7. SubscriberKept'
      <4>1. \A s \in subscribed : s \in DOMAIN active /\ active'[s] = active[s]
        BY <3>2, <3>3 DEF TypeOK
      <4> QED
        BY <3>1, <4>1 DEF Observers, SubscriberKept
    <3>8. Observers'
      <4> HIDE DEF new
      <4> QED
        BY <1>1, <1>7, <3>1, <3>7 DEF Observers
    <3> QED
      BY <3>6, <3>8
  <2> QED
    BY <2>1, <2>2
<1> QED
  BY <1>3, <1>4, <1>6, <1>8, <1>9

\* A step of init or shutdown that leaves threads, queues, observers and pool alone.
LEMMA QuietKeeps ==
    ASSUME BridgeInv, NoneLeaked' => NoneLeaked,
           UNCHANGED <<cpc, threads, queues, notifying, stream, pool, heap>>,
           mpc' \in {"idle", "start", "publish", "flag", "servers", "processors", "dispatcher",
                     "pool", "delete", "null"},
           g_initialised' \in BOOLEAN, g_engine' \in Engine \cup {None},
           engine' \in [Engine -> {"none", "up", "leaked", "servers", "processors", "dispatcher",
                                   "deleted"}],
           shutdownFlag' \in BOOLEAN
    PROVE  TypeOK' /\ Pointers' /\ OneOwner' /\ Observers'
<1> USE DEF BridgeInv
<1>1. /\ UNCHANGED <<pc, ref, dying, inbound, queued, ring, unread>>
      /\ UNCHANGED <<snap, i, needs_prune, observers, active, subscribed>>
  BY DEF threads, queues, notifying, stream
<1>2. TypeOK'
  BY <1>1 DEF TypeOK
<1>3. \A o : o \in Held' <=> o \in Held
  BY <1>1, HeldIs, HeldIsNext
<1>4. OneOwner'
  BY <1>1, <1>3, PassesOn
<1>5. \A w \in Worker : Left(w)' = Left(w)
  BY <1>1 DEF Left
<1> QED
  BY <1>1, <1>2, <1>4, <1>5 DEF Pointers, Observers, SubscriberKept

\* Between two engines no thread runs but those of an engine left behind.
LEMMA NoneRuns ==
    ASSUME TypeOK, Engines, Threads, Observers, NoneLeaked,
           mpc \in {"start", "pool"} \/ (mpc = "idle" /\ ~g_initialised)
    PROVE  \A w \in Worker : snap[w] = {}
<1> SUFFICES ASSUME NEW w \in Worker PROVE snap[w] = {}
  OBVIOUS
<1>1. w \in Thread /\ Home[w] \in Engine
  BY Homes DEF Thread
<1>2. engine[Home[w]] \in {"none", "dispatcher", "deleted"}
  BY <1>1 DEF TypeOK, Engines, NoneLeaked
<1>3. pc[w] \in {"idle", "done"}
  BY <1>1, <1>2 DEF Threads
<1> QED
  BY <1>3 DEF Observers

\* The steps of esccore_init keep the invariant.
LEMMA InitKeeps ==
    ASSUME BridgeInv, InitBuild \/ InitStart \/ InitPublish \/ InitFlag
    PROVE  BridgeInv'
<1> USE DEF BridgeInv
<1>1. CASE InitBuild
  <2>1. /\ mpc = "idle" /\ ~g_initialised /\ mpc' = "start"
        /\ PoolFilled /\ observers' = {} /\ subscribed' = {}
        /\ UNCHANGED <<cpc, g_initialised, g_engine, engine>>
        /\ UNCHANGED <<pc, ref, dying, inbound, queued, ring, unread>>
        /\ UNCHANGED <<snap, i, needs_prune, active>>
    BY <1>1 DEF InitBuild, Cleared, bridge, threads, queues, notifying
  <2>2. PICK new \in SUBSET (Obj \ heap) :
          /\ Cardinality(new) = kPoolCapacity
          /\ pool' = pool \cup new /\ heap' = heap \cup new
          /\ shutdownFlag' = FALSE
    BY <2>1 DEF PoolFilled, kSubset
  <2>3. TypeOK'
    BY <2>1, <2>2 DEF TypeOK
  <2>4. Engines'
    BY <2>1, <2>2 DEF Engines
  <2>5. Threads' /\ Pointers'
    BY <2>1 DEF Threads, Pointers
  <2>6. OneOwner'
    <3> DEFINE H == Held
               K == Held'
               D == UNION {dying[u] : u \in Thread}
    <3>1. /\ heap = pool \cup H \cup D /\ pool \cap H = {}
          /\ \A u \in Thread : /\ dying[u] \cap (pool \cup H) = {}
                               /\ \A v \in Thread \ {u} : dying[u] \cap dying[v] = {}
      BY DEF OneOwner
    <3>2. K = H /\ dying' = dying
      <4>1. \A o : o \in Held' <=> o \in Held
        BY <2>1, HeldIs, HeldIsNext
      <4> QED
        BY <2>1, <4>1
    <3> HIDE DEF H, K
    <3>3. new \cap heap = {} /\ \A u \in Thread : dying[u] \subseteq heap
      BY <2>2, <3>1
    <3>4. heap' = pool' \cup K \cup D
      <4> HIDE DEF D
      <4> QED
        BY <2>2, <3>1, <3>2
    <3>5. UNION {dying'[u] : u \in Thread} = D
      BY <3>2
    <3>6. pool' \cap K = {}
      BY <2>2, <3>1, <3>2, <3>3
    <3>7. \A u \in Thread : dying'[u] \cap (pool' \cup K) = {}
      BY <2>2, <3>1, <3>2, <3>3
    <3>8. \A u \in Thread : \A v \in Thread \ {u} : dying'[u] \cap dying'[v] = {}
      BY <3>1, <3>2
    <3> HIDE DEF D
    <3> QED
      BY <3>4, <3>5, <3>6, <3>7, <3>8 DEF OneOwner, K
  <2>7. NoneLeaked' <=> NoneLeaked
    BY <2>1 DEF NoneLeaked
  <2>8. Filled'
    <3>1. ASSUME NoneLeaked PROVE Cardinality(pool') <= kPoolCapacity
      <4>1. pool' = new
        BY <2>1, <2>2, <3>1 DEF Filled
      <4>2. kPoolCapacity \in Nat
        BY BridgeAssumption
      <4> QED
        BY <2>2, <4>1, <4>2
    <3> QED
      BY <2>1, <2>2, <2>7, <3>1 DEF Filled, EmptyAfterShutdown, PoolBounded
  <2>9. Observers'
    <3>1. \A w \in Worker : Left(w)' = Left(w)
      BY <2>1 DEF Left
    <3>2. NoneLeaked => \A w \in Worker : snap[w] = {}
      BY <2>1, NoneRuns
    <3> QED
      BY <2>1, <2>7, <3>1, <3>2 DEF Observers, SubscriberKept
  <2> QED
    BY <2>3, <2>4, <2>5, <2>6, <2>8, <2>9
<1>2. CASE InitStart
  <2>1. /\ mpc = "start"
        /\ UNCHANGED <<cpc, g_initialised, g_engine, threads, queues, notifying, stream, pool,
                       heap, shutdownFlag>>
    BY <1>2 DEF InitStart, poolVars
  <2>2. PICK n \in Engine :
          /\ engine[n] = "none"
          /\ \/ engine' = [engine EXCEPT ![n] = "up"] /\ mpc' = "publish"
             \/ engine' = [engine EXCEPT ![n] = "leaked"] /\ mpc' = "idle"
    BY <1>2 DEF InitStart
  <2>3. \A m \in Engine : \/ m # n /\ engine'[m] = engine[m]
                          \/ m = n /\ engine'[m] = "up" /\ mpc' = "publish"
                          \/ m = n /\ engine'[m] = "leaked" /\ mpc' = "idle"
    BY <2>2 DEF TypeOK
  <2>4. /\ NoneLeaked' => NoneLeaked
        /\ NoneLeaked' => mpc' = "publish"
    BY <2>2, <2>3 DEF NoneLeaked
  <2>5. TypeOK' /\ Pointers' /\ OneOwner' /\ Observers'
    <3>1. engine' \in [Engine -> {"none", "up", "leaked", "servers", "processors", "dispatcher",
                                  "deleted"}]
      BY <2>2 DEF TypeOK
    <3>2. /\ g_initialised' \in BOOLEAN /\ g_engine' \in Engine \cup {None}
          /\ shutdownFlag' \in BOOLEAN
      BY <2>1 DEF TypeOK
    <3> QED
      BY <2>1, <2>2, <2>4, <3>1, <3>2, QuietKeeps
  <2>6. UNCHANGED <<pc, dying, inbound, queued, ring, unread>>
    BY <2>1 DEF threads, queues
  <2>7. Engines'
    <3>1. \A m \in Engine : engine[m] \in {"none", "leaked", "deleted"}
      BY <2>1 DEF Engines, TypeOK
    <3>2. ~g_initialised
      BY <2>1 DEF Engines
    <3>3. mpc' = "publish" \/ \A m \in Engine : engine'[m] # "up"
      BY <2>3, <3>1
    <3>4. \A m \in Engine : engine'[m] = "up" => m = n
      BY <2>3, <3>1
    <3>5. \A m \in Engine : engine'[m] \in {"none", "up", "leaked", "deleted"}
      BY <2>3, <3>1
    <3>6. mpc' \in {"publish", "idle"}
      BY <2>2
    <3> QED
      BY <2>1, <3>2, <3>3, <3>4, <3>5, <3>6 DEF Engines
  <2>8. Threads'
    <3>1. \A t \in Thread : Home[t] \in Engine
      BY Homes
    <3>2. mpc' \notin {"pool", "delete"}
      BY <2>2
    <3>3. \A m \in Engine : /\ engine'[m] = "none" => engine[m] = "none"
                            /\ engine'[m] = "deleted" => engine[m] = "deleted"
                            /\ engine'[m] = "dispatcher" => engine[m] = "dispatcher"
                            /\ engine'[m] = "processors" => engine[m] = "processors"
      BY <2>3
    <3> QED
      BY <2>6, <3>1, <3>2, <3>3 DEF Threads
  <2>9. Filled'
    BY <2>1, <2>2, <2>4 DEF Filled, EmptyAfterShutdown, PoolBounded
  <2> QED
    BY <2>5, <2>7, <2>8, <2>9
<1>3. CASE InitPublish
  <2>1. /\ mpc = "publish" /\ mpc' = "flag"
        /\ UNCHANGED <<cpc, g_initialised, engine, threads, queues, notifying, stream, pool,
                       heap, shutdownFlag>>
    BY <1>3 DEF InitPublish, poolVars
  <2>2. PICK n \in Engine : engine[n] = "up" /\ g_engine' = n
    BY <1>3 DEF InitPublish
  <2>3. NoneLeaked' <=> NoneLeaked
    BY <2>1 DEF NoneLeaked
  <2>4. TypeOK' /\ Pointers' /\ OneOwner' /\ Observers'
    <3>1. /\ g_initialised' \in BOOLEAN /\ g_engine' \in Engine \cup {None}
          /\ shutdownFlag' \in BOOLEAN
          /\ engine' \in [Engine -> {"none", "up", "leaked", "servers", "processors",
                                     "dispatcher", "deleted"}]
      BY <2>1, <2>2 DEF TypeOK
    <3> QED
      BY <2>1, <2>3, <3>1, QuietKeeps
  <2>5. UNCHANGED <<pc, dying, inbound, queued, ring, unread>>
    BY <2>1 DEF threads, queues
  <2>6. Engines'
    BY <2>1, <2>2 DEF Engines
  <2>7. Threads'
    BY <2>1, <2>5 DEF Threads
  <2>8. Filled'
    BY <2>1, <2>3 DEF Filled, EmptyAfterShutdown, PoolBounded
  <2> QED
    BY <2>4, <2>6, <2>7, <2>8
<1>4. CASE InitFlag
  <2>1. /\ mpc = "flag" /\ mpc' = "idle" /\ g_initialised' = TRUE
        /\ UNCHANGED <<cpc, g_engine, engine, threads, queues, notifying, stream, pool, heap,
                       shutdownFlag>>
    BY <1>4 DEF InitFlag, poolVars
  <2>2. NoneLeaked' <=> NoneLeaked
    BY <2>1 DEF NoneLeaked
  <2>3. TypeOK' /\ Pointers' /\ OneOwner' /\ Observers'
    <3>1. /\ g_engine' \in Engine \cup {None} /\ shutdownFlag' \in BOOLEAN
          /\ engine' \in [Engine -> {"none", "up", "leaked", "servers", "processors",
                                     "dispatcher", "deleted"}]
      BY <2>1 DEF TypeOK
    <3> QED
      BY <2>1, <2>2, <3>1, QuietKeeps
  <2>4. UNCHANGED <<pc, dying, inbound, queued, ring, unread>>
    BY <2>1 DEF threads, queues
  <2>5. Engines'
    BY <2>1 DEF Engines
  <2>6. Threads'
    BY <2>1, <2>4 DEF Threads
  <2>7. Filled'
    BY <2>1, <2>2 DEF Filled, EmptyAfterShutdown, PoolBounded
  <2> QED
    BY <2>3, <2>5, <2>6, <2>7
<1> QED
  BY <1>1, <1>2, <1>3, <1>4

\* A part of the engine is told to stop, when the threads of another have ended.
Stops(x, y) ==
    /\ <<x, y>> \in {<<"up", "servers">>, <<"servers", "processors">>,
                     <<"processors", "dispatcher">>}
    /\ g_engine \in Engine /\ engine[g_engine] = x
    /\ x = "up" \/ mpc = x
    /\ x = "up" => g_initialised
    /\ mpc' = y /\ g_initialised' = FALSE
    /\ engine' = [engine EXCEPT ![g_engine] = y]
    /\ UNCHANGED <<cpc, g_engine, threads, queues, notifying, stream, poolVars>>
    /\ y = "processors" => ServersJoined(g_engine)
    /\ y = "dispatcher" => ProcessorsJoined(g_engine)

\* That keeps the invariant.
LEMMA StopKeeps ==
    ASSUME BridgeInv, NEW x, NEW y, Stops(x, y)
    PROVE  BridgeInv'
<1> USE DEF BridgeInv, Stops
<1>1. /\ UNCHANGED <<pc, dying, inbound, queued, ring, unread, pool, shutdownFlag, heap>>
      /\ y \in {"servers", "processors", "dispatcher"}
      /\ x \in {"up", "servers", "processors"}
      /\ \A m \in Engine : engine'[m] = IF m = g_engine THEN y ELSE engine[m]
  BY DEF threads, queues, poolVars, TypeOK
<1>2. NoneLeaked' => NoneLeaked
  BY <1>1 DEF NoneLeaked
<1>3. TypeOK' /\ Pointers' /\ OneOwner' /\ Observers'
  <2>1. /\ g_initialised' \in BOOLEAN /\ g_engine' \in Engine \cup {None}
        /\ shutdownFlag' \in BOOLEAN
        /\ engine' \in [Engine -> {"none", "up", "leaked", "servers", "processors", "dispatcher",
                                   "deleted"}]
        /\ mpc' \in {"idle", "start", "publish", "flag", "servers", "processors", "dispatcher",
                     "pool", "delete", "null"}
    BY <1>1 DEF TypeOK
  <2>2. UNCHANGED <<cpc, threads, queues, notifying, stream, pool, heap>>
    BY <1>1
  <2> QED
    BY <1>2, <2>1, <2>2, QuietKeeps
<1>4. \A m \in Engine : m # g_engine => engine[m] \in {"none", "leaked", "deleted"}
  <2>1. CASE x = "up"
    BY <2>1 DEF Engines, TypeOK
  <2>2. CASE mpc = x /\ x # "up"
    BY <1>1, <2>2 DEF Engines, TypeOK
  <2> QED
    BY <2>1, <2>2
<1>5. Engines'
  BY <1>1, <1>4 DEF Engines
<1>6. Threads'
  <2>1. \A t \in Thread : Home[t] \in Engine
    BY Homes
  <2>2. ASSUME NEW t \in Thread, Home[t] = g_engine
        PROVE  /\ t \in Server /\ y \in {"processors", "dispatcher"} => pc[t] = "done"
               /\ t \in Worker /\ y = "dispatcher" => pc[t] = "done"
    <3>1. CASE y = "servers"
      BY <3>1
    <3>2. CASE y = "processors"
      BY <2>2, <3>2 DEF ServersJoined, Ended
    <3>3. CASE y = "dispatcher"
      <4>1. x = "processors"
        BY <3>3
      <4> QED
        BY <2>2, <3>3, <4>1 DEF ProcessorsJoined, Ended, Threads
    <3> QED
      BY <1>1, <3>1, <3>2, <3>3
  <2>3. mpc' \notin {"pool", "delete"}
    BY <1>1
  <2>4. \A t \in Thread :
          LET n == Home[t]
          IN  /\ engine'[n] = "none" => pc'[t] = "idle" /\ dying'[t] = {}
              /\ pc'[t] = "done" => dying'[t] = {}
              /\ t \in Server /\ engine'[n] \in {"processors", "dispatcher", "deleted"} =>
                   pc'[t] = "done"
              /\ t \in Worker /\ engine'[n] \in {"dispatcher", "deleted"} => pc'[t] = "done"
              /\ t \in Dispatcher /\ engine'[n] = "deleted" => pc'[t] = "done"
    <3> SUFFICES ASSUME NEW t \in Thread
                 PROVE  LET n == Home[t]
                        IN  /\ engine'[n] = "none" => pc'[t] = "idle" /\ dying'[t] = {}
                            /\ pc'[t] = "done" => dying'[t] = {}
                            /\ t \in Server /\ engine'[n] \in {"processors", "dispatcher",
                                                               "deleted"} => pc'[t] = "done"
                            /\ t \in Worker /\ engine'[n] \in {"dispatcher", "deleted"} =>
                                 pc'[t] = "done"
                            /\ t \in Dispatcher /\ engine'[n] = "deleted" => pc'[t] = "done"
      OBVIOUS
    <3>1. CASE Home[t] = g_engine
      BY <1>1, <2>2, <3>1 DEF Threads
    <3>2. CASE Home[t] # g_engine
      BY <1>1, <2>1, <3>2 DEF Threads
    <3> QED
      BY <3>1, <3>2
  <2>5. \A n \in Engine : engine'[n] = "deleted" => /\ inbound'[n] = {} /\ queued'[n] = {}
                                                    /\ ring'[n] = {} /\ unread'[n] = {}
    BY <1>1 DEF Threads
  <2> QED
    BY <2>3, <2>4, <2>5 DEF Threads
<1>7. Filled'
  <2>1. mpc # "pool" /\ mpc' # "idle"
    BY <1>1 DEF Engines
  <2> QED
    BY <1>1, <1>2, <2>1 DEF Filled, EmptyAfterShutdown, PoolBounded
<1> QED
  BY <1>3, <1>5, <1>6, <1>7

\* The steps of esccore_shutdown keep the invariant.
LEMMA ShutdownKeeps ==
    ASSUME BridgeInv,
           \/ Shutdown \/ StopServers \/ StopProcessors
           \/ PoolFlag \/ PoolClear \/ DeleteEngine \/ ForgetEngine
    PROVE  BridgeInv'
<1>1. CASE Shutdown
  <2>1. g_engine \in Engine /\ engine[g_engine] = "up" /\ g_initialised
    BY <1>1 DEF Shutdown, BridgeInv, Engines
  <2>2. Stops("up", "servers")
    BY <1>1, <2>1 DEF Shutdown, Stops
  <2> QED
    BY <2>2, StopKeeps
<1>2. CASE StopServers
  <2>1. g_engine \in Engine /\ engine[g_engine] = "servers" /\ g_initialised = FALSE
    BY <1>2 DEF StopServers, BridgeInv, Engines, TypeOK
  <2>2. Stops("servers", "processors")
    BY <1>2, <2>1 DEF StopServers, Stops
  <2> QED
    BY <2>2, StopKeeps
<1>3. CASE StopProcessors
  <2>1. g_engine \in Engine /\ engine[g_engine] = "processors" /\ g_initialised = FALSE
    BY <1>3 DEF StopProcessors, BridgeInv, Engines, TypeOK
  <2>2. Stops("processors", "dispatcher")
    BY <1>3, <2>1 DEF StopProcessors, Stops
  <2> QED
    BY <2>2, StopKeeps
<1>4. CASE PoolFlag
  <2> USE DEF BridgeInv
  <2>1. /\ mpc = "dispatcher" /\ mpc' = "pool" /\ shutdownFlag' = TRUE
        /\ DispatcherJoined(g_engine)
        /\ UNCHANGED <<cpc, g_initialised, g_engine, engine, threads, queues, notifying, stream,
                       pool, heap>>
    BY <1>4 DEF PoolFlag, bridge
  <2>2. NoneLeaked' <=> NoneLeaked
    BY <2>1 DEF NoneLeaked
  <2>3. TypeOK' /\ Pointers' /\ OneOwner' /\ Observers'
    <3>1. /\ g_initialised' \in BOOLEAN /\ g_engine' \in Engine \cup {None}
          /\ engine' \in [Engine -> {"none", "up", "leaked", "servers", "processors",
                                     "dispatcher", "deleted"}]
      BY <2>1 DEF TypeOK
    <3> QED
      BY <2>1, <2>2, <3>1, QuietKeeps
  <2>4. UNCHANGED <<pc, dying, inbound, queued, ring, unread>>
    BY <2>1 DEF threads, queues
  <2>5. Engines'
    BY <2>1 DEF Engines
  <2>6. \A t \in Dispatcher : Home[t] = g_engine => pc[t] = "done"
    BY <2>1 DEF DispatcherJoined, Ended
  <2>7. Threads'
    BY <2>1, <2>4, <2>6 DEF Threads
  <2>8. Filled'
    BY <2>1, <2>2 DEF Filled, EmptyAfterShutdown, PoolBounded
  <2> QED
    BY <2>3, <2>5, <2>7, <2>8
<1>5. CASE PoolClear
  <2> USE DEF BridgeInv
  <2>1. /\ mpc = "pool" /\ mpc' = "delete"
        /\ pool' = {} /\ heap' = heap \ pool /\ observers' = {} /\ subscribed' = {}
        /\ UNCHANGED <<cpc, g_initialised, g_engine, engine, shutdownFlag>>
        /\ UNCHANGED <<pc, ref, dying, inbound, queued, ring, unread>>
        /\ UNCHANGED <<snap, i, needs_prune, active>>
    BY <1>5 DEF PoolClear, Cleared, bridge, threads, queues, notifying
  <2>2. TypeOK'
    BY <2>1 DEF TypeOK
  <2>3. Engines'
    BY <2>1 DEF Engines
  <2>4. Threads' /\ Pointers'
    BY <2>1 DEF Threads, Pointers
  <2>5. OneOwner'
    <3> DEFINE H == Held
               K == Held'
               D == UNION {dying[u] : u \in Thread}
    <3>1. /\ heap = pool \cup H \cup D /\ pool \cap H = {}
          /\ \A u \in Thread : /\ dying[u] \cap (pool \cup H) = {}
                               /\ \A v \in Thread \ {u} : dying[u] \cap dying[v] = {}
      BY DEF OneOwner
    <3>2. K = H /\ dying' = dying
      <4>1. \A o : o \in Held' <=> o \in Held
        BY <2>1, HeldIs, HeldIsNext
      <4> QED
        BY <2>1, <4>1
    <3> HIDE DEF H, K
    <3>3. D \cap pool = {}
      BY <3>1
    <3>4. heap' = pool' \cup K \cup D
      <4> HIDE DEF D
      <4> QED
        BY <2>1, <3>1, <3>2, <3>3
    <3>5. UNION {dying'[u] : u \in Thread} = D
      BY <3>2
    <3>6. pool' \cap K = {} /\ \A u \in Thread : dying'[u] \cap (pool' \cup K) = {}
      BY <2>1, <3>1, <3>2
    <3>7. \A u \in Thread : \A v \in Thread \ {u} : dying'[u] \cap dying'[v] = {}
      BY <3>1, <3>2
    <3> HIDE DEF D
    <3> QED
      BY <3>4, <3>5, <3>6, <3>7 DEF OneOwner, K
  <2>6. NoneLeaked' <=> NoneLeaked
    BY <2>1 DEF NoneLeaked
  <2>7. Filled'
    <3>1. Cardinality(pool') = 0 /\ 0 <= kPoolCapacity
      BY <2>1, BridgeAssumption, FS_EmptySet
    <3> QED
      BY <2>1, <3>1 DEF Filled, EmptyAfterShutdown, PoolBounded
  <2>8. Observers'
    <3>1. \A w \in Worker : Left(w)' = Left(w)
      BY <2>1 DEF Left
    <3>2. NoneLeaked => \A w \in Worker : snap[w] = {}
      BY <2>1, NoneRuns
    <3> QED
      BY <2>1, <2>6, <3>1, <3>2 DEF Observers, SubscriberKept
  <2> QED
    BY <2>2, <2>3, <2>4, <2>5, <2>7, <2>8
<1>6. CASE DeleteEngine
  <2> USE DEF BridgeInv
  <2>1. /\ mpc = "delete" /\ mpc' = "null"
        /\ g_engine \in Engine /\ engine[g_engine] = "dispatcher" /\ shutdownFlag
        /\ inbound' = [inbound EXCEPT ![g_engine] = {}]
        /\ queued' = [queued EXCEPT ![g_engine] = {}]
        /\ ring' = [ring EXCEPT ![g_engine] = {}]
        /\ unread' = [unread EXCEPT ![g_engine] = {}]
        /\ engine' = [engine EXCEPT ![g_engine] = "deleted"]
        /\ heap' = heap \ Dropped
        /\ UNCHANGED <<cpc, g_initialised, g_engine, pc, ref, dying, pool, shutdownFlag>>
        /\ UNCHANGED <<snap, i, needs_prune, observers, active, subscribed>>
    BY <1>6 DEF DeleteEngine, notifying, stream, Engines
  <2>2. \A n \in Engine : /\ inbound'[n] = IF n = g_engine THEN {} ELSE inbound[n]
                          /\ queued'[n] = IF n = g_engine THEN {} ELSE queued[n]
                          /\ ring'[n] = IF n = g_engine THEN {} ELSE ring[n]
                          /\ unread'[n] = IF n = g_engine THEN {} ELSE unread[n]
                          /\ engine'[n] = IF n = g_engine THEN "deleted" ELSE engine[n]
    BY <2>1 DEF TypeOK
  <2>3. \A o : o \in Held' => o \in Held
    BY <2>1, <2>2, HeldIs, HeldIsNext
  <2>4. TypeOK'
    <3>1. /\ inbound' \in [Engine -> SUBSET Obj] /\ queued' \in [Engine -> SUBSET Obj]
          /\ ring' \in [Engine -> SUBSET Obj] /\ unread' \in [Engine -> SUBSET Obj]
          /\ engine' \in [Engine -> {"none", "up", "leaked", "servers", "processors",
                                     "dispatcher", "deleted"}]
      BY <2>1 DEF TypeOK
    <3> QED
      BY <2>1, <3>1 DEF TypeOK
  <2>5. Engines'
    BY <2>1, <2>2 DEF Engines
  <2>6. Threads'
    <3>1. \A t \in Thread : Home[t] \in Engine
      BY Homes
    <3>2. \A t \in Thread : Home[t] = g_engine => pc[t] = "done"
      BY <2>1 DEF Threads, Thread
    <3> QED
      BY <2>1, <2>2, <3>1, <3>2 DEF Threads
  <2>7. Pointers'
    BY <2>1, <2>2 DEF Pointers
  <2>8. OneOwner'
    <3> DEFINE H == Held
               K == Held'
               D == UNION {dying[u] : u \in Thread}
    <3>1. /\ heap = pool \cup H \cup D /\ pool \cap H = {} /\ K \subseteq H
          /\ \A u \in Thread : /\ dying[u] \cap (pool \cup H) = {}
                               /\ \A v \in Thread \ {u} : dying[u] \cap dying[v] = {}
      BY <2>3 DEF OneOwner
    <3>2. heap' = heap \ (H \ K) /\ dying' = dying /\ pool' = pool
      BY <2>1 DEF Dropped
    <3> HIDE DEF H, K
    <3>3. D \cap H = {}
      BY <3>1
    <3>4. heap' = pool' \cup K \cup D
      <4> HIDE DEF D
      <4> QED
        BY <3>1, <3>2, <3>3
    <3>5. UNION {dying'[u] : u \in Thread} = D
      BY <3>2
    <3>6. pool' \cap K = {} /\ \A u \in Thread : dying'[u] \cap (pool' \cup K) = {}
      BY <3>1, <3>2
    <3>7. \A u \in Thread : \A v \in Thread \ {u} : dying'[u] \cap dying'[v] = {}
      BY <3>1, <3>2
    <3> HIDE DEF D
    <3> QED
      BY <3>4, <3>5, <3>6, <3>7 DEF OneOwner, K
  <2>9. NoneLeaked' => NoneLeaked
    BY <2>1, <2>2 DEF NoneLeaked
  <2>10. Filled'
    BY <2>1, <2>9 DEF Filled, EmptyAfterShutdown, PoolBounded
  <2>11. Observers'
    <3>1. \A w \in Worker : Left(w)' = Left(w)
      BY <2>1 DEF Left
    <3> QED
      BY <2>1, <2>9, <3>1 DEF Observers, SubscriberKept
  <2> QED
    BY <2>4, <2>5, <2>6, <2>7, <2>8, <2>10, <2>11
<1>7. CASE ForgetEngine
  <2> USE DEF BridgeInv
  <2>1. /\ mpc = "null" /\ mpc' = "idle" /\ g_engine' = None /\ ~g_initialised
        /\ UNCHANGED <<cpc, g_initialised, engine, threads, queues, notifying, stream, pool,
                       heap, shutdownFlag>>
    BY <1>7 DEF ForgetEngine, poolVars, Engines
  <2>2. NoneLeaked' <=> NoneLeaked
    BY <2>1 DEF NoneLeaked
  <2>3. TypeOK' /\ Pointers' /\ OneOwner' /\ Observers'
    <3>1. /\ g_initialised' \in BOOLEAN /\ shutdownFlag' \in BOOLEAN
          /\ engine' \in [Engine -> {"none", "up", "leaked", "servers", "processors",
                                     "dispatcher", "deleted"}]
      BY <2>1 DEF TypeOK
    <3> QED
      BY <2>1, <2>2, <3>1, QuietKeeps
  <2>4. UNCHANGED <<pc, dying, inbound, queued, ring, unread>>
    BY <2>1 DEF threads, queues
  <2>5. Engines'
    BY <2>1 DEF Engines
  <2>6. Threads'
    BY <2>1, <2>4 DEF Threads
  <2>7. Filled'
    BY <2>1, <2>2 DEF Filled, EmptyAfterShutdown, PoolBounded, Engines
  <2> QED
    BY <2>3, <2>5, <2>6, <2>7
<1> QED
  BY <1>1, <1>2, <1>3, <1>4, <1>5, <1>6, <1>7

----------------------------------------------------------------------------
(* The theorems *)

\* Nothing exists before the first init.
LEMMA InitBridgeInv == Init => BridgeInv
<1> SUFFICES ASSUME Init PROVE BridgeInv
  OBVIOUS
<1>1. active \in Seq(BOOLEAN) /\ Len(active) = 0 /\ DOMAIN active = {}
  BY EmptySeq DEF Init
<1>2. 0 <= MaxSubscribers /\ 0 \in 0 .. MaxSubscribers /\ 0 <= kPoolCapacity
  BY BridgeAssumption
<1>3. TypeOK
  BY <1>1, <1>2 DEF Init, TypeOK
<1>4. Engines
  BY DEF Init, Engines
<1>h. \A t \in Thread : Home[t] \in Engine
  BY Homes
<1>5. Threads /\ Pointers
  BY <1>h DEF Init, Threads, Pointers
<1>6. OneOwner
  <2>1. Held = {}
    BY HeldIs DEF Init
  <2>2. \A t \in Thread : dying[t] = {}
    BY DEF Init
  <2>3. UNION {dying[t] : t \in Thread} = {}
    BY <2>2
  <2> QED
    BY <2>1, <2>2, <2>3 DEF Init, OneOwner
<1>7. Filled
  BY <1>2, FS_EmptySet DEF Init, Filled, EmptyAfterShutdown, PoolBounded
<1>8. Observers
  BY DEF Init, Observers, SubscriberKept, Thread
<1> QED
  BY <1>3, <1>4, <1>5, <1>6, <1>7, <1>8 DEF BridgeInv

\* A step that changes nothing keeps the invariant.
LEMMA StutterKeeps ==
    ASSUME BridgeInv, UNCHANGED vars
    PROVE  BridgeInv'
<1> USE DEF BridgeInv
<1>1. /\ UNCHANGED <<mpc, cpc, g_initialised, g_engine, engine, pc, ref, dying>>
      /\ UNCHANGED <<inbound, queued, ring, unread, snap, i, needs_prune>>
      /\ UNCHANGED <<observers, active, subscribed, pool, shutdownFlag, heap>>
  BY DEF vars, calls, bridge, threads, queues, notifying, stream, poolVars
<1>2. TypeOK' /\ Engines' /\ Pointers'
  BY <1>1 DEF TypeOK, Engines, Pointers
<1>3. Threads'
  BY <1>1 DEF Threads
<1>4. \A o : o \in Held' <=> o \in Held
  BY <1>1, HeldIs, HeldIsNext
<1>5. OneOwner'
  BY <1>1, <1>4, PassesOn
<1>6. /\ NoneLeaked' <=> NoneLeaked
      /\ \A w \in Worker : Left(w)' = Left(w)
  BY <1>1 DEF NoneLeaked, Left
<1>7. Filled' /\ Observers'
  BY <1>1, <1>6 DEF Filled, EmptyAfterShutdown, PoolBounded, Observers, SubscriberKept
<1> QED
  BY <1>2, <1>3, <1>5, <1>7

\* The invariant holds in every reachable state.
LEMMA InductiveInvariant == Spec => []BridgeInv
<1>1. BridgeInv /\ [Next]_vars => BridgeInv'
  BY InitKeeps, ShutdownKeeps, CallerKeeps, ServerKeeps, DispatcherKeeps, WorkerKeeps,
     StutterKeeps DEF Next, Lifecycle
<1> QED
  BY <1>1, InitBridgeInv, PTL DEF Spec

\* Each event object is in the pool, behind shared pointers or with one deleter,
\* whichever of the servers, the queues, the slots of the ring and the processors
\* drops the last pointer to it, and whenever the pool is shut down.
THEOREM ObjectsHaveOneOwner == Spec => []OneOwner
<1>1. BridgeInv => OneOwner
  BY DEF BridgeInv
<1> QED
  BY <1>1, InductiveInvariant, PTL

\* The pool holds no more than kPoolCapacity objects, and none between shutdown()
\* and the next initialize().
THEOREM PoolIsLimited == Spec => []PoolLimits
<1>1. BridgeInv => PoolLimits
  BY DEF BridgeInv, Filled, PoolLimits
<1> QED
  BY <1>1, InductiveInvariant, PTL

\* Neither subscribe() nor pruneInactive() loses a subscriber.
THEOREM SubscribersAreKept == Spec => []SubscriberKept
<1>1. BridgeInv => SubscriberKept
  BY DEF BridgeInv, Observers
<1> QED
  BY <1>1, InductiveInvariant, PTL

\* The flag stands for an engine; an engine is deleted when its threads have ended
\* and its queues are empty; nobody is called back by an engine that is shut down.
THEOREM ShutdownLeavesNoCallback == Spec => []ShutdownIsClean
<1>1. BridgeInv => EngineBehindFlag
  BY BridgeAssumption DEF BridgeInv, Engines, EngineBehindFlag, Engine, None
<1>2. BridgeInv => EngineOutlivesThreads
  <2> SUFFICES ASSUME BridgeInv, NEW n \in Engine, engine[n] = "deleted"
               PROVE  Ended(Thread, n) /\ inbound[n] \cup queued[n] \cup ring[n] = {}
    BY DEF EngineOutlivesThreads
  <2> QED
    BY DEF BridgeInv, Threads, Ended, Thread
<1>3. BridgeInv => NoLateCallback
  <2> SUFFICES ASSUME BridgeInv, NoneLeaked, NEW w \in Worker, pc[w] = "callback"
               PROVE  /\ obs(w) \in subscribed
                      /\ g_initialised \/ mpc \in {"publish", "flag", "servers", "processors"}
    BY DEF NoLateCallback
  <2> USE DEF BridgeInv
  <2>1. Left(w) # {} /\ snap[w] \subseteq subscribed
    BY DEF Observers
  <2>2. obs(w) \in Left(w)
    BY <2>1, ObsIn
  <2>3. obs(w) \in subscribed
    BY <2>1, <2>2 DEF Left
  <2>4. w \in Thread /\ Home[w] \in Engine
    BY Homes DEF Thread
  <2>5. engine[Home[w]] \in {"up", "servers", "processors"}
    BY <2>4 DEF Threads, NoneLeaked, TypeOK
  <2> QED
    BY <2>3, <2>4, <2>5 DEF Engines
<1> QED
  BY <1>1, <1>2, <1>3, InductiveInvariant, PTL DEF ShutdownIsClean

=============================================================================
