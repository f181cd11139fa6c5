------------------------ MODULE EventPipelineProofs ------------------------
(***************************************************************************)
(* Theorems about EventPipeline, for every set of event kinds, every       *)
(* capacity and every number of events.                                    *)
(*                                                                         *)
(* The inbound queue hands the events out in the order of their numbers,   *)
(* so the Dispatcher holds the event numbered Taken, the queues of the bus *)
(* hold smaller ones, and each of those queues is increasing (Ordered).    *)
(* An increasing queue holds an event at most once, which turns the sum    *)
(* that InOnePlace speaks of into a sum of zeros and ones (Places) that    *)
(* every step keeps: it moves an event from one summand to another.        *)
(***************************************************************************)
EXTENDS EventPipeline, FiniteSetTheorems, SequenceTheorems, TLAPS

Member(s, e) == \E i \in DOMAIN s : s[i] = e

Increasing(s) == \A i, j \in DOMAIN s : i < j => s[i] < s[j]

\* How often an increasing sequence holds an event.
In(s, e) == IF Member(s, e) THEN 1 ELSE 0

\* How many events the Dispatcher has taken.
Taken == Len(kind) - Len(inbound_queue_)

\* How many it is done with.
Routed == IF devt = NoEvent THEN Taken ELSE Taken - 1

----------------------------------------------------------------------------
(* The model's queues *)

\* push_back at the end of a queue.
LEMMA AppendFacts ==
    ASSUME NEW s \in Seq(Event), NEW x \in Event
    PROVE  /\ Append(s, x) \in Seq(Event) /\ Len(Append(s, x)) = Len(s) + 1
           /\ \A e : Member(Append(s, x), e) <=> Member(s, e) \/ x = e
           /\ Increasing(s) /\ (\A i \in DOMAIN s : s[i] < x) => Increasing(Append(s, x))
<1>1. /\ Append(s, x) \in Seq(Event) /\ Len(Append(s, x)) = Len(s) + 1
      /\ DOMAIN s = 1 .. Len(s) /\ Len(s) \in Nat
      /\ DOMAIN Append(s, x) = 1 .. Len(s) + 1
      /\ \A i \in 1 .. Len(s) : Append(s, x)[i] = s[i]
      /\ Append(s, x)[Len(s) + 1] = x
  BY AppendProperties, LenProperties
<1>2. \A e : Member(Append(s, x), e) <=> Member(s, e) \/ x = e
  <2> SUFFICES ASSUME NEW e PROVE Member(Append(s, x), e) <=> Member(s, e) \/ x = e
    OBVIOUS
  <2>1. ASSUME Member(Append(s, x), e) PROVE Member(s, e) \/ x = e
    <3>1. PICK i \in 1 .. Len(s) + 1 : Append(s, x)[i] = e
      BY <1>1, <2>1 DEF Member
    <3> QED
      BY <1>1, <3>1 DEF Member
  <2>2. ASSUME Member(s, e) PROVE Member(Append(s, x), e)
    <3>1. PICK i \in 1 .. Len(s) : s[i] = e
      BY <1>1, <2>2 DEF Member
    <3> QED
      BY <1>1, <3>1 DEF Member
  <2>3. ASSUME x = e PROVE Member(Append(s, x), e)
    BY <1>1, <2>3 DEF Member
  <2> QED
    BY <2>1, <2>2, <2>3
<1>3. ASSUME Increasing(s), \A i \in DOMAIN s : s[i] < x
      PROVE  Increasing(Append(s, x))
  <2> SUFFICES ASSUME NEW i \in 1 .. Len(s) + 1, NEW j \in 1 .. Len(s) + 1, i < j
               PROVE  Append(s, x)[i] < Append(s, x)[j]
    BY <1>1 DEF Increasing
  <2>1. i \in 1 .. Len(s)
    BY <1>1
  <2>2. CASE j \in 1 .. Len(s)
    BY <1>1, <1>3, <2>1, <2>2 DEF Increasing
  <2>3. CASE j = Len(s) + 1
    BY <1>1, <1>3, <2>1, <2>3
  <2> QED
    BY <1>1, <2>2, <2>3
<1> QED
  BY <1>1, <1>2, <1>3

\* What is left of a queue without its first n events.
IsRest(r, s, n) == Len(r) = Len(s) - n /\ \A i \in 1 .. Len(r) : r[i] = s[i + n]

\* pop_front, of one event or of several: the rest of an increasing queue.
LEMMA RestFacts ==
    ASSUME NEW s \in Seq(Event), NEW r \in Seq(Event), NEW n \in 0 .. Len(s), IsRest(r, s, n)
    PROVE  /\ \A i \in DOMAIN r : i + n \in DOMAIN s /\ r[i] = s[i + n]
           /\ \A e : Member(s, e) <=> Member(r, e) \/ \E i \in 1 .. n : s[i] = e
           /\ Increasing(s) => /\ Increasing(r)
                               /\ \A e : ~(Member(r, e) /\ \E i \in 1 .. n : s[i] = e)
<1>1. /\ Len(s) \in Nat /\ DOMAIN s = 1 .. Len(s)
      /\ Len(r) \in Nat /\ DOMAIN r = 1 .. Len(r)
      /\ \A i \in 1 .. Len(s) : s[i] \in Event
  BY LenProperties, ElementOfSeq
<1>2. \A i \in DOMAIN r : i + n \in DOMAIN s /\ r[i] = s[i + n]
  BY <1>1 DEF IsRest
<1>3. ASSUME NEW e
      PROVE  Member(s, e) <=> Member(r, e) \/ \E i \in 1 .. n : s[i] = e
  <2>1. ASSUME Member(s, e) PROVE Member(r, e) \/ \E i \in 1 .. n : s[i] = e
    <3>1. PICK i \in 1 .. Len(s) : s[i] = e
      BY <1>1, <2>1 DEF Member
    <3>2. CASE i > n
      <4>1. i - n \in 1 .. Len(r) /\ (i - n) + n = i
        BY <1>1, <3>2 DEF IsRest
      <4>2. r[i - n] = e
        BY <1>2, <1>1, <3>1, <4>1
      <4> QED
        BY <1>1, <4>1, <4>2 DEF Member
    <3>3. CASE i <= n
      BY <3>1, <3>3
    <3> QED
      BY <1>1, <3>2, <3>3
  <2>2. ASSUME Member(r, e) PROVE Member(s, e)
    BY <1>2, <2>2 DEF Member
  <2>3. ASSUME \E i \in 1 .. n : s[i] = e PROVE Member(s, e)
    BY <1>1, <2>3 DEF Member
  <2> QED
    BY <2>1, <2>2, <2>3
<1>4. ASSUME Increasing(s)
      PROVE  /\ Increasing(r)
             /\ \A e : ~(Member(r, e) /\ \E i \in 1 .. n : s[i] = e)
  <2>1. ASSUME NEW i \in DOMAIN r, NEW j \in DOMAIN r, i < j PROVE r[i] < r[j]
    <3>1. i + n \in DOMAIN s /\ j + n \in DOMAIN s /\ i + n < j + n
      BY <1>1, <1>2, <2>1
    <3> QED
      BY <1>2, <1>4, <3>1 DEF Increasing
  <2>2. ASSUME NEW i \in DOMAIN r, NEW j \in 1 .. n PROVE s[j] # r[i]
    <3>1. j \in DOMAIN s /\ i + n \in DOMAIN s /\ j < i + n
      BY <1>1, <1>2
    <3>2. s[j] < s[i + n]
      BY <1>4, <3>1 DEF Increasing
    <3>3. s[j] \in Int /\ s[i + n] \in Int
      BY <1>1, <3>1, BoundAssumption DEF Event
    <3> QED
      BY <1>2, <3>2, <3>3
  <2> QED
    BY <2>1, <2>2 DEF Increasing, Member
<1> QED
  BY <1>2, <1>3, <1>4

LEMMA TailFacts ==
    ASSUME NEW s \in Seq(Event), s # << >>
    PROVE  /\ Head(s) \in Event /\ Head(s) = s[1] /\ 1 \in DOMAIN s
           /\ Tail(s) \in Seq(Event) /\ Len(Tail(s)) = Len(s) - 1
           /\ \A i \in DOMAIN Tail(s) : i + 1 \in DOMAIN s /\ Tail(s)[i] = s[i + 1]
           /\ \A e : Member(s, e) <=> Member(Tail(s), e) \/ Head(s) = e
           /\ Increasing(s) => Increasing(Tail(s)) /\ ~Member(Tail(s), Head(s))
<1>1. /\ Head(s) \in Event /\ Tail(s) \in Seq(Event) /\ Len(Tail(s)) = Len(s) - 1
      /\ \A i \in 1 .. Len(Tail(s)) : Tail(s)[i] = s[i + 1]
  BY HeadTailProperties
<1>2. Len(s) \in Nat \ {0} /\ DOMAIN s = 1 .. Len(s)
  BY EmptySeq, LenProperties
<1>3. Head(s) = s[1] /\ 1 \in 0 .. Len(s) /\ 1 \in DOMAIN s
  BY <1>2
<1>r. PICK r : r = Tail(s)
  OBVIOUS
<1>s. r \in Seq(Event) /\ IsRest(r, s, 1)
  BY <1>1, <1>r DEF IsRest
<1>4. /\ \A i \in DOMAIN r : i + 1 \in DOMAIN s /\ r[i] = s[i + 1]
      /\ \A e : Member(s, e) <=> Member(r, e) \/ \E i \in 1 .. 1 : s[i] = e
      /\ Increasing(s) => /\ Increasing(r)
                          /\ \A e : ~(Member(r, e) /\ \E i \in 1 .. 1 : s[i] = e)
  BY <1>s, <1>3, RestFacts
<1>5. \A e : (\E i \in 1 .. 1 : s[i] = e) <=> Head(s) = e
  BY <1>3
<1> QED
  BY <1>r, <1>1, <1>3, <1>4, <1>5

\* dropBatchFromQueue: a queue cut in two.
LEMMA AfterFacts ==
    ASSUME NEW s \in Seq(Event), NEW n \in Nat
    PROVE  /\ FirstN(s, n) \in Seq(Event) /\ Len(FirstN(s, n)) \in Nat
           /\ AfterN(s, n) \in Seq(Event) /\ Len(AfterN(s, n)) <= Len(s)
           /\ \A i \in DOMAIN AfterN(s, n) : \E j \in DOMAIN s : AfterN(s, n)[i] = s[j]
           /\ \A e : Member(s, e) <=> Member(AfterN(s, n), e) \/ Member(FirstN(s, n), e)
           /\ Increasing(s) => /\ Increasing(AfterN(s, n))
                               /\ \A e : ~(Member(AfterN(s, n), e) /\ Member(FirstN(s, n), e))
<1>f. PICK f : f = FirstN(s, n)
  OBVIOUS
<1>r. PICK r : r = AfterN(s, n)
  OBVIOUS
<1>1. \A i \in 1 .. Len(s) : s[i] \in Event
  BY ElementOfSeq
<1>2. Len(s) \in Nat
  BY LenProperties
<1>m. PICK m \in 0 .. Len(s) : f = SubSeq(s, 1, m) /\ r = SubSeq(s, m + 1, Len(s))
  <2>1. CASE n < Len(s)
    <3>1. n \in 0 .. Len(s)
      BY <1>2, <2>1
    <3> QED
      BY <1>f, <1>r, <2>1, <3>1 DEF FirstN, AfterN
  <2>2. CASE ~(n < Len(s))
    <3>1. Len(s) \in 0 .. Len(s)
      BY <1>2
    <3> QED
      BY <1>f, <1>r, <2>2, <3>1 DEF FirstN, AfterN
  <2> QED
    BY <2>1, <2>2
<1>3. m \in Nat /\ m <= Len(s) /\ m + 1 \in Int /\ m \in Int
  BY <1>2
<1>4. /\ f \in Seq(Event) /\ Len(f) = m
      /\ \A i \in 1 .. m : f[i] = s[i]
  <2>1. \A i \in 1 .. m : s[i] \in Event
    BY <1>1, <1>2, <1>3
  <2>2. /\ f \in Seq(Event)
        /\ Len(f) = IF 1 <= m THEN m - 1 + 1 ELSE 0
        /\ \A i \in 1 .. m - 1 + 1 : f[i] = s[1 + i - 1]
    BY <1>3, <1>m, <2>1, SubSeqProperties
  <2> QED
    BY <1>3, <2>2
<1>5. /\ r \in Seq(Event) /\ Len(r) = Len(s) - m
      /\ \A i \in 1 .. Len(r) : r[i] = s[i + m]
  <2>1. \A i \in m + 1 .. Len(s) : s[i] \in Event
    BY <1>1, <1>2, <1>3
  <2>2. /\ r \in Seq(Event)
        /\ Len(r) = IF m + 1 <= Len(s) THEN Len(s) - (m + 1) + 1 ELSE 0
        /\ \A i \in 1 .. Len(s) - (m + 1) + 1 : r[i] = s[(m + 1) + i - 1]
    BY <1>2, <1>3, <1>m, <2>1, SubSeqProperties
  <2>3. \A i \in Nat : (m + 1) + i - 1 = i + m
    BY <1>3
  <2>4. Len(s) - (m + 1) + 1 = Len(s) - m /\ Len(r) = Len(s) - m
    BY <1>2, <1>3, <2>2
  <2>5. ASSUME NEW i \in 1 .. Len(r) PROVE r[i] = s[i + m]
    <3>1. i \in Nat /\ i \in 1 .. Len(s) - (m + 1) + 1
      BY <1>2, <1>3, <2>4
    <3> QED
      BY <2>2, <2>3, <3>1
  <2> QED
    BY <2>2, <2>4, <2>5
<1>6. \A e : Member(f, e) <=> \E i \in 1 .. m : s[i] = e
  <2>1. DOMAIN f = 1 .. m
    BY <1>4, LenProperties
  <2> QED
    BY <1>4, <2>1 DEF Member
<1>7. /\ \A i \in DOMAIN r : i + m \in DOMAIN s /\ r[i] = s[i + m]
      /\ \A e : Member(s, e) <=> Member(r, e) \/ \E i \in 1 .. m : s[i] = e
      /\ Increasing(s) => /\ Increasing(r)
                          /\ \A e : ~(Member(r, e) /\ \E i \in 1 .. m : s[i] = e)
  <2>1. r \in Seq(Event) /\ IsRest(r, s, m)
    BY <1>5 DEF IsRest
  <2> QED
    BY <2>1, RestFacts
<1>8. Len(r) <= Len(s) /\ Len(f) \in Nat
  <2>1. Len(r) = Len(s) - m /\ Len(f) = m
    BY <1>4, <1>5
  <2> QED
    BY <1>2, <1>3, <2>1
<1>9. \A i \in DOMAIN r : \E j \in DOMAIN s : r[i] = s[j]
  BY <1>7
<1>10. /\ \A e : Member(s, e) <=> Member(r, e) \/ Member(f, e)
       /\ Increasing(s) => Increasing(r) /\ \A e : ~(Member(r, e) /\ Member(f, e))
  BY <1>6, <1>7
<1>11. f \in Seq(Event) /\ r \in Seq(Event)
  BY <1>4, <1>5
<1> QED
  BY <1>f, <1>r, <1>8, <1>9, <1>10, <1>11

\* An increasing queue holds an event at most once.
LEMMA OccurrencesIn ==
    ASSUME NEW s \in Seq(Event), Increasing(s), NEW e
    PROVE  Occurrences(s, e) = In(s, e)
<1>1. DOMAIN s = 1 .. Len(s) /\ Len(s) \in Nat /\ \A i \in DOMAIN s : s[i] \in Int
  BY LenProperties, ElementOfSeq, BoundAssumption DEF Event
<1>2. CASE Member(s, e)
  <2>1. PICK i \in DOMAIN s : s[i] = e
    BY <1>2 DEF Member
  <2>2. \A j \in DOMAIN s : s[j] = e => j = i
    BY <1>1, <2>1 DEF Increasing
  <2>3. {j \in DOMAIN s : s[j] = e} = {i}
    BY <2>1, <2>2
  <2> QED
    BY <1>2, <2>3, FS_Singleton DEF Occurrences, In
<1>3. CASE ~Member(s, e)
  <2>1. {j \in DOMAIN s : s[j] = e} = {}
    BY <1>3 DEF Member
  <2> QED
    BY <1>3, <2>1, FS_EmptySet DEF Occurrences, In
<1> QED
  BY <1>2, <1>3

----------------------------------------------------------------------------
(* Types *)

\* The inbound queue holds the events that were not taken, in order.
Numbering == /\ Len(inbound_queue_) <= Len(kind)
             /\ \A i \in DOMAIN inbound_queue_ : inbound_queue_[i] = Taken + i
             /\ devt # NoEvent => devt = Taken

\* The threads hold an event exactly where they need one.
Phases == /\ dpc \in {"push", "wait"} <=> devt # NoEvent
          /\ dpc \in {"push", "wait"} => retry_count < MAX_RETRIES
          /\ dpc = "wait" => queueId = "TRANSACTIONAL"
          /\ \A q \in QueueId : ppc[q] = "process" <=> pevt[q] # NoEvent

TypeInv == TypeOK /\ Numbering /\ Phases

\* What the bus's constructor assigns.
LEMMA CapacityValues ==
    /\ capacity["REALTIME"] = RingCapacity - 1
    /\ capacity["TRANSACTIONAL"] = TransactionalCapacity
    /\ capacity["BATCH"] = BatchCapacity
    /\ \A q \in QueueId : capacity[q] \in Nat \ {0}
<1>1. /\ capacity["REALTIME"] = RingCapacity - 1
      /\ capacity["TRANSACTIONAL"] = TransactionalCapacity
      /\ capacity["BATCH"] = BatchCapacity
  BY DEF capacity, QueueId
<1> QED
  BY <1>1, BoundAssumption DEF QueueId

\* The DLQ counts whatever is put in it.
LEMMA DeadLetterType ==
    ASSUME NEW S, dlq \in [Event -> Nat], DeadLetter(S)
    PROVE  /\ dlq' \in [Event -> Nat]
           /\ \A e \in Event : dlq'[e] = dlq[e] + IF e \in S THEN 1 ELSE 0
  BY DEF DeadLetter

\* What route() does with the head of the inbound queue.
LEMMA RouteType ==
    ASSUME TypeInv, inbound_queue_ # << >>
    PROVE  /\ Head(inbound_queue_) \in Event
           /\ Head(inbound_queue_) \in 1 .. Len(kind)
           /\ Head(inbound_queue_) = Taken + 1
           /\ Adapted(Upgraded(Head(inbound_queue_))) \in Priority
<1> DEFINE e == Head(inbound_queue_)
<1>1. inbound_queue_ \in Seq(Event)
  BY DEF TypeInv, TypeOK
<1>2. e \in Event /\ e = inbound_queue_[1] /\ 1 \in DOMAIN inbound_queue_
  BY <1>1, TailFacts
<1>3. e = Taken + 1
  BY <1>2 DEF TypeInv, Numbering
<1>4. Len(kind) \in Nat /\ Len(inbound_queue_) \in Nat /\ Len(inbound_queue_) >= 1
  <2>1. kind \in Seq(EventKind)
    BY DEF TypeInv, TypeOK
  <2> QED
    BY <1>1, <2>1, LenProperties, EmptySeq
<1>5. e \in 1 .. Len(kind)
  <2>1. Len(inbound_queue_) <= Len(kind)
    BY DEF TypeInv, Numbering
  <2> QED
    BY <1>3, <1>4, <2>1 DEF Taken
<1>6. kind[e] \in EventKind /\ priority[e] \in Priority
  <2>1. /\ kind \in Seq(EventKind) /\ priority \in Seq(Priority) /\ Len(priority) = Len(kind)
    BY DEF TypeInv, TypeOK
  <2> QED
    BY <1>5, <2>1, ElementOfSeq
<1>7. kind[e][2] \in Priority \cup {NotInTable}
  BY <1>6, KindAssumption
<1>8. Upgraded(e) \in Priority
  BY <1>6, <1>7 DEF Upgraded, Priority, BATCH, MEDIUM, CRITICAL
<1>9. Adapted(Upgraded(e)) \in Priority
  BY <1>8 DEF Adapted, Priority, BATCH, MEDIUM, CRITICAL
<1> QED
  BY <1>2, <1>3, <1>5, <1>9

LEMMA InitTypeInv == Init => TypeInv
<1> SUFFICES ASSUME Init PROVE TypeInv
  OBVIOUS
<1>1. MaxEvents \in Nat /\ InboundCapacity \in Nat /\ MAX_RETRIES \in Nat /\ MAX_RETRIES > 0
  BY BoundAssumption
<1>2. TypeOK
  <2>1. \A S : << >> \in Seq(S) /\ Len(<< >>) = 0
    BY EmptySeq
  <2>2. kind \in Seq(EventKind) /\ priority \in Seq(Priority) /\ inbound_queue_ \in Seq(Event)
    BY <2>1 DEF Init
  <2>3. lane \in [QueueId -> Seq(Event)]
    BY <2>1 DEF Init
  <2>4. /\ Len(kind) <= MaxEvents /\ Len(priority) = Len(kind)
        /\ Len(inbound_queue_) <= InboundCapacity
    BY <1>1, <2>1 DEF Init
  <2>5. /\ ppc \in [QueueId -> {"loop", "pop", "process", "stopped"}]
        /\ pevt \in [QueueId -> Event \cup {NoEvent}]
        /\ dlq \in [Event -> Nat]
    BY DEF Init
  <2>6. queueId \in QueueId /\ retry_count \in 0 .. MAX_RETRIES
    BY <1>1 DEF Init, QueueId
  <2> QED
    BY <1>1, <2>2, <2>3, <2>4, <2>5, <2>6, Zenon DEF Init, TypeOK
<1>3. Numbering /\ Phases
  BY <1>1 DEF Init, Numbering, Phases, Taken
<1> QED
  BY <1>2, <1>3 DEF TypeInv

LEMMA NextTypeInv == TypeInv /\ [Next]_vars => TypeInv'
<1> SUFFICES ASSUME TypeInv, [Next]_vars
             PROVE  TypeInv'
  OBVIOUS
<1>b. /\ MaxEvents \in Nat /\ MAX_RETRIES \in Nat \ {0} /\ DROP_BATCH_SIZE \in Nat
      /\ InboundCapacity \in Nat
  BY BoundAssumption
<1>s. /\ kind \in Seq(EventKind) /\ inbound_queue_ \in Seq(Event) /\ priority \in Seq(Priority)
      /\ Len(kind) \in Nat /\ Len(inbound_queue_) \in Nat
      /\ DOMAIN inbound_queue_ = 1 .. Len(inbound_queue_)
      /\ \A q \in QueueId : lane[q] \in Seq(Event)
  BY LenProperties DEF TypeInv, TypeOK
<1>1. CASE TryPush
  <2>1. PICK k \in EventKind : /\ kind' = Append(kind, k)
                               /\ priority' = Append(priority, k[1])
    BY <1>1 DEF TryPush
  <2>2. k[1] \in Priority
    BY KindAssumption
  <2>3. Len(kind) + 1 \in Event
    BY <1>1, <1>b, <1>s DEF TryPush, Event
  <2>4. /\ kind' \in Seq(EventKind) /\ Len(kind') = Len(kind) + 1
        /\ priority' \in Seq(Priority) /\ Len(priority') = Len(priority) + 1
        /\ inbound_queue_' \in Seq(Event) /\ Len(inbound_queue_') = Len(inbound_queue_) + 1
        /\ DOMAIN inbound_queue_' = 1 .. Len(inbound_queue_) + 1
        /\ \A i \in 1 .. Len(inbound_queue_) : inbound_queue_'[i] = inbound_queue_[i]
        /\ inbound_queue_'[Len(inbound_queue_) + 1] = Len(kind) + 1
    BY <1>1, <1>s, <2>1, <2>2, <2>3, AppendProperties, LenProperties DEF TryPush
  <2>5. Taken' = Taken
    BY <1>s, <2>4 DEF Taken
  <2>6. Numbering'
    BY <1>1, <1>s, <2>4, <2>5 DEF TryPush, dispatchVars, TypeInv, Numbering, Taken
  <2> QED
    BY <1>1, <1>b, <1>s, <2>4, <2>6
       DEF TryPush, busVars, dispatchVars, processorVars, history, TypeInv, TypeOK, Phases
<1>2. CASE DispatchPop
  <2> DEFINE e == Head(inbound_queue_)
  <2>1. inbound_queue_ # << >>
    BY <1>2 DEF DispatchPop
  <2>2. e \in Event /\ e \in 1 .. Len(kind) /\ e = Taken + 1 /\ Adapted(Upgraded(e)) \in Priority
    BY <2>1, RouteType
  <2>3. /\ Tail(inbound_queue_) \in Seq(Event)
        /\ Len(Tail(inbound_queue_)) = Len(inbound_queue_) - 1
        /\ \A i \in DOMAIN Tail(inbound_queue_) :
              i + 1 \in DOMAIN inbound_queue_ /\ Tail(inbound_queue_)[i] = inbound_queue_[i + 1]
    BY <1>s, <2>1, TailFacts
  <2>4. Lane(Adapted(Upgraded(e))) \in QueueId
    BY DEF Lane, QueueId
  <2> HIDE DEF e
  <2>5. priority' \in Seq(Priority) /\ Len(priority') = Len(priority)
    BY <1>2, <1>s, <2>2, ExceptSeq DEF DispatchPop, TypeInv, TypeOK, e
  <2>6. Taken' = Taken + 1
    BY <1>2, <1>s, <2>3 DEF DispatchPop, Taken
  <2>7. Numbering'
    <3>1. \A i \in DOMAIN inbound_queue_' : i \in Nat
      BY <1>2, <2>3, LenProperties DEF DispatchPop
    <3>2. Taken \in Int
      BY <1>s DEF Taken
    <3>3. \A i \in DOMAIN inbound_queue_' : inbound_queue_'[i] = Taken' + i
      BY <1>2, <2>3, <2>6, <3>1, <3>2 DEF DispatchPop, TypeInv, Numbering
    <3> QED
      BY <1>2, <1>s, <2>2, <2>3, <2>6, <3>3 DEF DispatchPop, TypeInv, Numbering, e
  <2>8. Phases'
    BY <1>2, <1>b, <2>2
       DEF DispatchPop, processorVars, TypeInv, Phases, Event, NoEvent, e
  <2>9. Len(inbound_queue_') <= InboundCapacity
    BY <1>2, <1>b, <1>s, <2>3 DEF DispatchPop, TypeInv, TypeOK
  <2>10. devt' \in Event /\ queueId' \in QueueId /\ inbound_queue_' \in Seq(Event)
    BY <1>2, <2>2, <2>3, <2>4 DEF DispatchPop, e
  <2> QED
    BY <1>2, <1>b, <2>5, <2>7, <2>8, <2>9, <2>10
       DEF DispatchPop, busVars, processorVars, history, TypeInv, TypeOK
<1>d. dpc \in {"push", "wait"} => devt \in Event /\ retry_count + 1 \in 0 .. MAX_RETRIES
  <2>1. devt \in Event \cup {NoEvent} /\ retry_count \in 0 .. MAX_RETRIES
    BY DEF TypeInv, TypeOK
  <2>2. dpc \in {"push", "wait"} => devt # NoEvent /\ retry_count < MAX_RETRIES
    BY DEF TypeInv, Phases
  <2> QED
    BY <1>b, <2>1, <2>2
<1>l. lane \in [QueueId -> Seq(Event)] /\ dlq \in [Event -> Nat] /\ total_events_dropped \in Nat
  BY DEF TypeInv, TypeOK
<1>3. CASE PushRealtime
  <2> DEFINE rt == lane["REALTIME"]
             full == Len(rt) >= capacity["REALTIME"]
  <2>1. rt \in Seq(Event) /\ devt \in Event
    BY <1>3, <1>s, <1>d DEF PushRealtime, QueueId
  <2>2. capacity["REALTIME"] \in Nat \ {0}
    BY CapacityValues DEF QueueId
  <2>3. full => rt # << >>
    <3>1. rt = << >> => Len(rt) = 0
      BY EmptySeq
    <3> QED
      BY <2>2, <3>1
  <2>4. (IF full THEN Tail(rt) ELSE rt) \in Seq(Event)
    BY <2>1, <2>3, TailFacts
  <2>5. Append(IF full THEN Tail(rt) ELSE rt, devt) \in Seq(Event)
    BY <2>1, <2>4, AppendFacts
  <2>6. lane' \in [QueueId -> Seq(Event)]
    BY <1>3, <1>l, <2>5 DEF PushRealtime
  <2>7. dlq' \in [Event -> Nat] /\ total_events_dropped' \in Nat
    BY <1>3, <1>l, DeadLetterType DEF PushRealtime
  <2>8. Numbering' /\ Phases'
    BY <1>3 DEF PushRealtime, Pushed, processorVars, TypeInv, Numbering, Phases, Taken
  <2>9. pressure' \in {"NORMAL", "HIGH", "CRITICAL"} /\ overflowed' \in BOOLEAN
    BY <1>3 DEF PushRealtime, TypeInv, TypeOK
  <2> QED
    BY <1>3, <2>6, <2>7, <2>8, <2>9 DEF PushRealtime, Pushed, processorVars, TypeInv, TypeOK
<1>4. CASE PushRoom
  <2>1. queueId \in QueueId /\ lane[queueId] \in Seq(Event) /\ devt \in Event
    BY <1>4, <1>s, <1>d DEF PushRoom, QueueId
  <2>2. Append(lane[queueId], devt) \in Seq(Event)
    BY <2>1, AppendFacts
  <2>3. lane' \in [QueueId -> Seq(Event)]
    BY <1>4, <1>l, <2>2 DEF PushRoom, PushBack
  <2>4. Numbering' /\ Phases'
    BY <1>4 DEF PushRoom, Pushed, processorVars, TypeInv, Numbering, Phases, Taken
  <2> QED
    BY <1>4, <2>3, <2>4 DEF PushRoom, Pushed, processorVars, history, TypeInv, TypeOK
<1>5. CASE PushBlock
  BY <1>5 DEF PushBlock, busVars, processorVars, history, TypeInv, TypeOK, Numbering, Phases,
              Taken
<1>6. CASE PushTimeout \/ PushDropNew
  <2>1. dlq' \in [Event -> Nat]
    BY <1>6, <1>l, DeadLetterType DEF PushTimeout, PushDropNew, NotPushed
  <2>2. total_events_dropped' \in Nat
    BY <1>6, <1>l DEF PushTimeout, PushDropNew
  <2>3. retry_count' \in 0 .. MAX_RETRIES
    BY <1>6, <1>d DEF PushTimeout, PushDropNew, NotPushed
  <2>4. Numbering'
    BY <1>6 DEF PushTimeout, PushDropNew, NotPushed, TypeInv, Numbering, Taken
  <2>5. Phases'
    BY <1>6 DEF PushTimeout, PushDropNew, NotPushed, processorVars, TypeInv, Phases
  <2>6. dpc' \in {"loop", "push", "wait", "stopped"} /\ devt' \in Event \cup {NoEvent}
    BY <1>6 DEF PushTimeout, PushDropNew, NotPushed, TypeInv, TypeOK
  <2> QED
    BY <1>6, <2>1, <2>2, <2>3, <2>4, <2>5, <2>6
       DEF PushTimeout, PushDropNew, NotPushed, busVars, processorVars, history, TypeInv, TypeOK
<1>7. CASE DispatchStop
  BY <1>7 DEF DispatchStop, busVars, processorVars, history, TypeInv, TypeOK, Numbering,
              Phases, Taken
<1>8. ASSUME NEW q \in QueueId, LoopTest(q) \/ PopTimeout(q)
      PROVE  TypeInv'
  BY <1>8 DEF LoopTest, PopTimeout, busVars, dispatchVars, history, TypeInv, TypeOK, Numbering,
              Phases, Taken
<1>9. ASSUME NEW q \in QueueId, PopEvent(q)
      PROVE  TypeInv'
  <2>1. lane[q] \in Seq(Event) /\ lane[q] # << >>
    BY <1>9, <1>s DEF PopEvent
  <2>2. Head(lane[q]) \in Event /\ Tail(lane[q]) \in Seq(Event)
    BY <2>1, TailFacts
  <2>3. lane' \in [QueueId -> Seq(Event)]
    BY <1>9, <1>l, <2>2 DEF PopEvent
  <2>4. Head(lane[q]) # NoEvent
    BY <2>2, <1>b DEF Event, NoEvent
  <2>5. Numbering'
    BY <1>9 DEF PopEvent, dispatchVars, TypeInv, Numbering, Taken
  <2>6. Phases' /\ pevt' \in [QueueId -> Event \cup {NoEvent}]
    BY <1>9, <2>2, <2>4 DEF PopEvent, dispatchVars, TypeInv, TypeOK, Phases
  <2> QED
    BY <1>9, <2>3, <2>5, <2>6 DEF PopEvent, dispatchVars, history, TypeInv, TypeOK
<1>10. ASSUME NEW q \in QueueId, Process(q)
       PROVE  TypeInv'
  <2>1. pevt[q] \in Event
    BY <1>10 DEF Process, TypeInv, TypeOK, Phases
  <2>2. Numbering' /\ Phases'
    BY <1>10 DEF Process, dispatchVars, TypeInv, TypeOK, Numbering, Phases, Taken
  <2> QED
    BY <1>10, <2>1, <2>2 DEF Process, busVars, dispatchVars, TypeInv, TypeOK
<1>11. CASE ProcessDrop
  <2> DEFINE batch == FirstN(lane["BATCH"], DROP_BATCH_SIZE)
  <2>1. lane["BATCH"] \in Seq(Event) /\ "BATCH" \in QueueId
    BY <1>s DEF QueueId
  <2>2. Len(batch) \in Nat /\ AfterN(lane["BATCH"], DROP_BATCH_SIZE) \in Seq(Event)
    BY <1>b, <2>1, AfterFacts
  <2> HIDE DEF batch
  <2>3. lane' \in [QueueId -> Seq(Event)]
    BY <1>11, <1>l, <2>2 DEF ProcessDrop
  <2>4. dlq' \in [Event -> Nat]
    BY <1>11, <1>l, DeadLetterType DEF ProcessDrop
  <2>5. total_events_dropped' \in Nat
    BY <1>11, <1>l, <2>2 DEF ProcessDrop, batch
  <2>6. Numbering' /\ Phases'
    BY <1>11, <2>1 DEF ProcessDrop, dispatchVars, TypeInv, TypeOK, Numbering, Phases, Taken
  <2> QED
    BY <1>11, <2>1, <2>3, <2>4, <2>5, <2>6
       DEF ProcessDrop, dispatchVars, history, TypeInv, TypeOK
<1>12. CASE SetDropBatch
  BY <1>12 DEF SetDropBatch, busVars, dispatchVars, processorVars, history, TypeInv, TypeOK,
               Numbering, Phases, Taken
<1>13. CASE StopIngest \/ ShutdownStep
  BY <1>13 DEF StopIngest, ShutdownStep, StopProcessors, StopDispatcher, StopDone, StopWhen,
               busVars, dispatchVars, processorVars, history, TypeInv, TypeOK, Numbering,
               Phases, Taken
<1>14. CASE UNCHANGED vars
  BY <1>14 DEF vars, busVars, dispatchVars, processorVars, history, TypeInv, TypeOK, Numbering,
               Phases, Taken
<1> QED
  BY <1>1, <1>2, <1>3, <1>4, <1>5, <1>6, <1>7, <1>8, <1>9, <1>10, <1>11, <1>12, <1>13, <1>14
     DEF Next, DispatchStep, RunLoop, Down

\* Every number and queue of the pipeline stays within its range.
THEOREM TypeCorrect == Spec => []TypeOK
<1>1. TypeInv => TypeOK
  BY DEF TypeInv
<1> QED
  BY <1>1, InitTypeInv, NextTypeInv, PTL DEF Spec

----------------------------------------------------------------------------
(* The queues of the bus: capacity and order *)

\* A queue of at most cap events, in order, none of them beyond n.
Sorted(s, cap, n) == /\ Len(s) <= cap
                     /\ Increasing(s)
                     /\ \A e : Member(s, e) => e <= n

Ordered == \A q \in QueueId : Sorted(lane[q], capacity[q], Routed)

OrderInv == TypeInv /\ Ordered

LEMMA MemberType ==
    ASSUME NEW s \in Seq(Event), NEW e, Member(s, e)
    PROVE  e \in Event /\ e \in Int
<1>1. e \in Event
  BY LenProperties, ElementOfSeq DEF Member
<1> QED
  BY <1>1, BoundAssumption DEF Event

\* An event after all others of a queue.
LEMMA SortedAppend ==
    ASSUME NEW s \in Seq(Event), NEW cap \in Nat, NEW x \in Event,
           Sorted(s, cap, x - 1), Len(s) < cap
    PROVE  Sorted(Append(s, x), cap, x)
<1>1. x \in Int
  BY BoundAssumption DEF Event
<1>2. \A e : Member(s, e) => e \in Int /\ e < x
  BY <1>1, MemberType DEF Sorted
<1>3. \A i \in DOMAIN s : s[i] < x
  BY <1>2 DEF Member
<1>4. Increasing(Append(s, x)) /\ \A e : Member(Append(s, x), e) => e <= x
  BY <1>1, <1>2, <1>3, AppendFacts DEF Sorted
<1>5. Len(Append(s, x)) <= cap
  <2>1. Len(s) \in Nat /\ Len(Append(s, x)) = Len(s) + 1
    BY AppendFacts, LenProperties
  <2> QED
    BY <2>1
<1> QED
  BY <1>4, <1>5 DEF Sorted

LEMMA SortedTail ==
    ASSUME NEW s \in Seq(Event), s # << >>, NEW cap \in Nat, NEW n, Sorted(s, cap, n)
    PROVE  Sorted(Tail(s), cap, n) /\ Len(Tail(s)) < cap
<1>1. Len(s) \in Nat /\ Len(Tail(s)) = Len(s) - 1 /\ Len(s) <= cap
  BY TailFacts, LenProperties DEF Sorted
<1>2. Len(Tail(s)) < cap /\ Len(Tail(s)) <= cap
  BY <1>1
<1> QED
  BY <1>2, TailFacts DEF Sorted

LEMMA SortedAfter ==
    ASSUME NEW s \in Seq(Event), NEW k \in Nat, NEW cap \in Nat, NEW n, Sorted(s, cap, n)
    PROVE  Sorted(AfterN(s, k), cap, n)
<1>1. Len(s) \in Nat /\ Len(AfterN(s, k)) \in Nat
  BY AfterFacts, LenProperties
<1>2. Len(AfterN(s, k)) <= Len(s) /\ Len(s) <= cap
  BY AfterFacts DEF Sorted
<1>3. Len(AfterN(s, k)) <= cap
  BY <1>1, <1>2
<1> QED
  BY <1>3, AfterFacts DEF Sorted

LEMMA SortedMore ==
    ASSUME NEW s \in Seq(Event), NEW cap, NEW n \in Int, NEW m \in Int, n <= m, Sorted(s, cap, n)
    PROVE  Sorted(s, cap, m)
  BY MemberType DEF Sorted

LEMMA InitOrderInv == Init => OrderInv
<1> SUFFICES ASSUME Init PROVE OrderInv
  OBVIOUS
<1>1. TypeInv
  BY InitTypeInv
<1>2. ASSUME NEW q \in QueueId PROVE Sorted(lane[q], capacity[q], Routed)
  <2>1. lane[q] = << >> /\ Len(lane[q]) = 0 /\ DOMAIN lane[q] = {}
    BY EmptySeq DEF Init
  <2>2. capacity[q] \in Nat
    BY CapacityValues
  <2> QED
    BY <2>1, <2>2 DEF Sorted, Increasing, Member
<1> QED
  BY <1>1, <1>2 DEF OrderInv, Ordered

LEMMA NextOrderInv == OrderInv /\ [Next]_vars => OrderInv'
<1> SUFFICES ASSUME OrderInv, [Next]_vars
             PROVE  OrderInv'
  OBVIOUS
<1>t. TypeInv /\ TypeInv'
  BY NextTypeInv DEF OrderInv
<1>l. \A q \in QueueId : /\ lane[q] \in Seq(Event) /\ lane'[q] \in Seq(Event)
                         /\ capacity[q] \in Nat /\ capacity[q] = capacity[q]'
  BY <1>t, CapacityValues DEF TypeInv, TypeOK, capacity
<1>s. \A q \in QueueId : Sorted(lane[q], capacity[q], Routed)
  BY DEF OrderInv, Ordered
<1>n. /\ Taken \in Int /\ Taken' \in Int /\ Routed \in Int /\ Routed' \in Int
  BY <1>t, LenProperties DEF TypeInv, TypeOK, Taken, Routed
<1> SUFFICES ASSUME NEW q \in QueueId PROVE Sorted(lane'[q], capacity[q], Routed')
  BY <1>t, <1>l DEF OrderInv, Ordered
<1>q. lane[q] \in Seq(Event) /\ capacity[q] \in Nat /\ Sorted(lane[q], capacity[q], Routed)
  BY <1>l, <1>s
<1>u. ASSUME lane' = lane, Routed <= Routed' PROVE Sorted(lane'[q], capacity[q], Routed')
  BY <1>u, <1>q, <1>n, SortedMore
<1>d. dpc \in {"push", "wait"} => /\ devt \in Event /\ devt = Taken /\ Routed = devt - 1
                                  /\ devt # NoEvent
  BY <1>t DEF TypeInv, TypeOK, Numbering, Phases, Routed
<1>1. CASE TryPush
  <2>1. kind \in Seq(EventKind) /\ inbound_queue_ \in Seq(Event)
    BY <1>t DEF TypeInv, TypeOK
  <2>2. Len(kind') = Len(kind) + 1 /\ Len(inbound_queue_') = Len(inbound_queue_) + 1
    BY <1>1, <2>1 DEF TryPush
  <2>3. Taken' = Taken
    BY <2>1, <2>2, LenProperties DEF Taken
  <2> QED
    BY <1>1, <1>u, <1>n, <2>3 DEF TryPush, busVars, dispatchVars, Routed
<1>2. CASE DispatchPop
  <2>1. devt = NoEvent /\ devt' # NoEvent
    BY <1>2, <1>t DEF DispatchPop, TypeInv, Phases
  <2>2. inbound_queue_ \in Seq(Event) /\ inbound_queue_ # << >> /\ kind \in Seq(EventKind)
    BY <1>2, <1>t DEF DispatchPop, TypeInv, TypeOK
  <2>3. Len(inbound_queue_') = Len(inbound_queue_) - 1
    BY <1>2, <2>2, TailFacts DEF DispatchPop
  <2>4. Taken' = Taken + 1
    BY <1>2, <2>2, <2>3, LenProperties DEF DispatchPop, Taken
  <2> QED
    BY <1>2, <1>u, <1>n, <2>1, <2>4 DEF DispatchPop, busVars, Routed
<1>p. ASSUME Pushed, dpc \in {"push", "wait"}, Taken' = Taken
      PROVE  Routed' = devt /\ Routed <= Routed'
  BY <1>p, <1>d, <1>n DEF Pushed, Routed
<1>3. CASE PushRealtime
  <2> DEFINE rt == lane["REALTIME"]
             full == Len(rt) >= capacity["REALTIME"]
             base == IF full THEN Tail(rt) ELSE rt
  <2>1. /\ rt \in Seq(Event) /\ Len(rt) \in Nat /\ capacity["REALTIME"] \in Nat \ {0}
        /\ Sorted(rt, capacity["REALTIME"], devt - 1) /\ devt \in Event
    BY <1>3, <1>l, <1>s, <1>d, CapacityValues, LenProperties DEF PushRealtime, QueueId
  <2>2. base \in Seq(Event) /\ Sorted(base, capacity["REALTIME"], devt - 1)
          /\ Len(base) < capacity["REALTIME"]
    <3>1. CASE full
      <4>1. rt # << >>
        <5>1. rt = << >> => Len(rt) = 0
          BY EmptySeq
        <5> QED
          BY <2>1, <3>1, <5>1
      <4>2. /\ Tail(rt) \in Seq(Event) /\ Sorted(Tail(rt), capacity["REALTIME"], devt - 1)
            /\ Len(Tail(rt)) < capacity["REALTIME"]
        BY <2>1, <4>1, TailFacts, SortedTail
      <4> QED
        BY <3>1, <4>2
    <3>2. CASE ~full
      BY <2>1, <3>2
    <3> QED
      BY <3>1, <3>2
  <2>3. Sorted(Append(base, devt), capacity["REALTIME"], devt)
    BY <2>1, <2>2, SortedAppend
  <2>4. Routed' = devt /\ Routed <= Routed'
    BY <1>3, <1>p DEF PushRealtime, Taken
  <2>5. lane'[q] = IF q = "REALTIME" THEN Append(base, devt) ELSE lane[q]
    BY <1>3, <1>t DEF PushRealtime, TypeInv, TypeOK
  <2> HIDE DEF base
  <2>6. CASE q = "REALTIME"
    BY <2>3, <2>4, <2>5, <2>6
  <2>7. CASE q # "REALTIME"
    BY <1>q, <1>n, <2>4, <2>5, <2>7, SortedMore
  <2> QED
    BY <2>6, <2>7
<1>4. CASE PushRoom
  <2>1. /\ devt \in Event /\ Routed = devt - 1 /\ Routed' = devt /\ Routed <= Routed'
    BY <1>4, <1>d, <1>p DEF PushRoom, Taken
  <2>2. lane'[q] = IF q = queueId THEN Append(lane[q], devt) ELSE lane[q]
    BY <1>4, <1>t DEF PushRoom, PushBack, TypeInv, TypeOK
  <2>3. CASE q = queueId
    BY <1>4, <1>q, <2>1, <2>2, <2>3, SortedAppend DEF PushRoom
  <2>4. CASE q # queueId
    BY <1>q, <1>n, <2>1, <2>2, <2>4, SortedMore
  <2> QED
    BY <2>3, <2>4
<1>5. CASE PushTimeout \/ PushDropNew
  <2>1. lane' = lane /\ Taken' = Taken /\ devt # NoEvent
    BY <1>5, <1>d DEF PushTimeout, PushDropNew, busVars, Taken
  <2> QED
    BY <1>u, <1>n, <2>1 DEF Routed
<1>6. CASE PushBlock \/ DispatchStop \/ SetDropBatch \/ StopIngest \/ ShutdownStep \/ UNCHANGED vars
  BY <1>6, <1>u, <1>n DEF PushBlock, DispatchStop, SetDropBatch, StopIngest, ShutdownStep,
     StopProcessors, StopDispatcher, StopDone, StopWhen, busVars, dispatchVars, vars, Routed, Taken
<1>7. ASSUME NEW p \in QueueId, LoopTest(p) \/ PopTimeout(p) \/ Process(p)
      PROVE  Sorted(lane'[q], capacity[q], Routed')
  BY <1>7, <1>u, <1>n DEF LoopTest, PopTimeout, Process, busVars, dispatchVars, Routed, Taken
<1>8. ASSUME NEW p \in QueueId, PopEvent(p)
      PROVE  Sorted(lane'[q], capacity[q], Routed')
  <2>1. Routed' = Routed
    BY <1>8 DEF PopEvent, dispatchVars, Routed, Taken
  <2>2. lane'[q] = IF q = p THEN Tail(lane[q]) ELSE lane[q]
    BY <1>8, <1>t DEF PopEvent, TypeInv, TypeOK
  <2>3. CASE q = p
    BY <1>8, <1>q, <2>1, <2>2, <2>3, SortedTail DEF PopEvent
  <2> QED
    BY <1>q, <2>1, <2>2, <2>3
<1>9. CASE ProcessDrop
  <2>1. Routed' = Routed
    BY <1>9 DEF ProcessDrop, dispatchVars, Routed, Taken
  <2>2. lane'[q] = IF q = "BATCH" THEN AfterN(lane[q], DROP_BATCH_SIZE) ELSE lane[q]
    BY <1>9, <1>t DEF ProcessDrop, TypeInv, TypeOK
  <2>3. CASE q = "BATCH"
    BY <1>q, <2>1, <2>2, <2>3, SortedAfter, BoundAssumption
  <2> QED
    BY <1>q, <2>1, <2>2, <2>3
<1> QED
  BY <1>1, <1>2, <1>3, <1>4, <1>5, <1>6, <1>7, <1>8, <1>9 DEF Next, DispatchStep, RunLoop, Down

\* The queues of the bus stay within their capacities and in the order of arrival.
THEOREM LanesAreSound == Spec => []LanesSound
<1>1. OrderInv => LanesSound
  BY DEF OrderInv, Ordered, Sorted, Increasing, LanesSound
<1> QED
  BY <1>1, InitOrderInv, NextOrderInv, PTL DEF Spec

----------------------------------------------------------------------------
(* The way of a CRITICAL event *)

IsCritical(e) == CRITICAL \in {kind[e][1], kind[e][2]}

\* An event has its client's priority until it is routed, and no CRITICAL one is
\* routed to another queue than REALTIME.
Kept == /\ \A e \in accepted : e > Taken => priority[e] = kind[e][1]
        /\ devt # NoEvent /\ IsCritical(devt) => queueId = "REALTIME"
        /\ \A q \in QueueId, e \in accepted :
              Member(lane[q], e) /\ IsCritical(e) => q = "REALTIME"

RouteInv == OrderInv /\ Kept

\* route() of the event that comes next.
LEMMA CriticalRoute ==
    ASSUME TypeInv, NEW e \in accepted, priority[e] = kind[e][1], IsCritical(e)
    PROVE  Lane(Adapted(Upgraded(e))) = "REALTIME"
<1>1. kind[e] \in EventKind
  BY ElementOfSeq, LenProperties DEF TypeInv, TypeOK, accepted
<1>2. kind[e][1] \in Priority /\ kind[e][2] \in Priority \cup {NotInTable}
  BY <1>1, KindAssumption
<1>3. Upgraded(e) = CRITICAL
  <2>1. CASE kind[e][1] = CRITICAL
    BY <1>2, <2>1 DEF Upgraded, Priority, BATCH, MEDIUM, CRITICAL
  <2>2. CASE kind[e][2] = CRITICAL
    <3>1. kind[e][2] # NotInTable
      BY <2>2, TableAssumption DEF Priority, BATCH, CRITICAL
    <3> QED
      BY <1>2, <2>2, <3>1 DEF Upgraded, Priority, BATCH, CRITICAL
  <2> QED
    BY <2>1, <2>2 DEF IsCritical
<1>4. Adapted(CRITICAL) = CRITICAL
  BY DEF Adapted, CRITICAL, HIGH
<1> QED
  BY <1>3, <1>4 DEF Lane

LEMMA InitRouteInv == Init => RouteInv
<1> SUFFICES ASSUME Init PROVE RouteInv
  OBVIOUS
<1>1. accepted = {} /\ devt = NoEvent
  BY DEF Init, accepted
<1> QED
  BY <1>1, InitOrderInv DEF RouteInv, Kept

LEMMA NextRouteInv == RouteInv /\ [Next]_vars => RouteInv'
<1> SUFFICES ASSUME RouteInv, [Next]_vars
             PROVE  RouteInv'
  OBVIOUS
<1>o. OrderInv /\ OrderInv' /\ Kept
  BY NextOrderInv DEF RouteInv
<1>t. TypeInv /\ TypeInv'
  BY <1>o DEF OrderInv
<1> SUFFICES Kept'
  BY <1>o DEF RouteInv
<1>f. /\ lane \in [QueueId -> Seq(Event)] /\ inbound_queue_ \in Seq(Event)
      /\ kind \in Seq(EventKind) /\ priority \in Seq(Priority) /\ Len(priority) = Len(kind)
      /\ Len(inbound_queue_) <= Len(kind)
  BY <1>t DEF TypeInv, TypeOK, Numbering
<1>k. /\ Len(kind) \in Nat /\ Len(inbound_queue_) \in Nat /\ accepted = 1 .. Len(kind)
      /\ DOMAIN priority = 1 .. Len(kind)
  BY <1>f, LenProperties DEF accepted
<1>g. Taken \in Nat /\ Taken <= Len(kind)
  BY <1>f, <1>k DEF Taken
<1>m. \A q \in QueueId : \A e : Member(lane[q], e) => e \in accepted
  <2> SUFFICES ASSUME NEW q \in QueueId, NEW e, Member(lane[q], e) PROVE e \in accepted
    OBVIOUS
  <2>1. e \in Event /\ e \in Int
    BY <1>f, MemberType
  <2>2. e <= Routed
    BY <1>o DEF OrderInv, Ordered, Sorted
  <2>3. Routed <= Taken /\ Routed \in Int
    BY <1>g DEF Routed
  <2> QED
    BY <1>g, <1>k, <2>1, <2>2, <2>3, BoundAssumption DEF Event
<1>s. ASSUME \A q \in QueueId : \A e : Member(lane'[q], e) => Member(lane[q], e),
             UNCHANGED <<kind, priority, inbound_queue_>>,
             devt' # NoEvent => devt' = devt, queueId' = queueId
      PROVE  Kept'
  <2>1. Taken' = Taken /\ accepted' = accepted /\ \A e : IsCritical(e)' = IsCritical(e)
    BY <1>s DEF Taken, accepted, IsCritical
  <2>2. \A q \in QueueId : \A e : Member(lane[q], e)' = Member(lane'[q], e)
    BY DEF Member
  <2>3. devt' # NoEvent => IsCritical(devt)' = IsCritical(devt)
    BY <1>s DEF IsCritical
  <2> QED
    BY <1>o, <1>s, <2>1, <2>2, <2>3 DEF Kept
<1>1. CASE TryPush
  <2>1. PICK k \in EventKind : /\ kind' = Append(kind, k)
                               /\ priority' = Append(priority, k[1])
    BY <1>1 DEF TryPush
  <2>2. k[1] \in Priority
    BY KindAssumption
  <2>3. /\ accepted' = 1 .. Len(kind) + 1
        /\ \A e \in accepted : kind'[e] = kind[e] /\ priority'[e] = priority[e]
        /\ kind'[Len(kind) + 1] = k /\ priority'[Len(kind) + 1] = k[1]
    BY <1>f, <1>k, <2>1, <2>2, AppendProperties, LenProperties DEF accepted
  <2>4. Taken' = Taken
    <3>1. Len(kind') = Len(kind) + 1 /\ Len(inbound_queue_') = Len(inbound_queue_) + 1
      BY <1>1, <1>f, <2>1 DEF TryPush
    <3> QED
      BY <1>k, <3>1 DEF Taken
  <2>5. lane' = lane /\ devt' = devt /\ queueId' = queueId
    BY <1>1 DEF TryPush, busVars, dispatchVars
  <2>6. ASSUME NEW e \in accepted', e > Taken PROVE priority'[e] = kind'[e][1]
    BY <1>o, <1>k, <2>3, <2>6 DEF Kept
  <2>7. \A e \in accepted : IsCritical(e)' = IsCritical(e)
    BY <2>3 DEF IsCritical
  <2>8. devt # NoEvent => devt \in accepted
    BY <1>t, <1>k, <1>g, BoundAssumption DEF TypeInv, TypeOK, Numbering, Event, NoEvent
  <2>9. devt' # NoEvent /\ IsCritical(devt)' => queueId' = "REALTIME"
    BY <1>o, <2>5, <2>7, <2>8 DEF Kept, IsCritical
  <2>10. ASSUME NEW q \in QueueId, NEW e \in accepted', Member(lane[q], e)', IsCritical(e)'
         PROVE  q = "REALTIME"
    <3>1. Member(lane[q], e)
      BY <2>5, <2>10 DEF Member
    <3>2. e \in accepted
      BY <1>m, <3>1
    <3> QED
      BY <1>o, <2>7, <2>10, <3>1, <3>2 DEF Kept
  <2> QED
    BY <2>4, <2>6, <2>9, <2>10 DEF Kept
<1>2. CASE DispatchPop
  <2> DEFINE e == Head(inbound_queue_)
  <2>1. inbound_queue_ # << >>
    BY <1>2 DEF DispatchPop
  <2>2. e \in 1 .. Len(kind) /\ e = Taken + 1
    BY <1>t, <2>1, RouteType
  <2>3. /\ devt' = e /\ queueId' = Lane(Adapted(Upgraded(e))) /\ kind' = kind /\ lane' = lane
        /\ priority' = [priority EXCEPT ![e] = Adapted(Upgraded(e))]
        /\ inbound_queue_' = Tail(inbound_queue_)
    BY <1>2 DEF DispatchPop, busVars
  <2> HIDE DEF e
  <2>4. Taken' = Taken + 1
    <3>1. Len(inbound_queue_') = Len(inbound_queue_) - 1
      BY <1>f, <2>1, <2>3, TailFacts
    <3>2. Len(kind') = Len(kind) /\ Len(kind) \in Nat /\ Len(inbound_queue_) \in Nat
      BY <1>k, <2>3
    <3> QED
      BY <3>1, <3>2 DEF Taken
  <2>5. priority[e] = kind[e][1] /\ e \in accepted
    BY <1>o, <1>k, <1>g, <2>2 DEF Kept
  <2>6. IsCritical(e) => queueId' = "REALTIME"
    BY <1>t, <2>3, <2>5, CriticalRoute
  <2>7. accepted' = accepted /\ \A x : IsCritical(x)' = IsCritical(x)
    BY <2>3 DEF accepted, IsCritical
  <2>8. IsCritical(devt)' <=> IsCritical(e)
    BY <2>3 DEF IsCritical
  <2>9. \A x \in accepted : x > Taken' => priority'[x] = kind'[x][1]
    <3> SUFFICES ASSUME NEW x \in accepted, x > Taken' PROVE priority'[x] = kind'[x][1]
      OBVIOUS
    <3>1. x # e /\ x > Taken /\ x \in DOMAIN priority
      BY <1>g, <1>k, <2>2, <2>4
    <3>2. priority[x] = kind[x][1]
      BY <1>o, <3>1 DEF Kept
    <3>3. priority'[x] = priority[x]
      BY <1>f, <2>3, <3>1, LenProperties
    <3> QED
      BY <2>3, <3>2, <3>3
  <2>10. \A q \in QueueId : \A x : Member(lane[q], x)' = Member(lane[q], x)
    BY <2>3 DEF Member
  <2> QED
    BY <1>o, <2>6, <2>7, <2>8, <2>9, <2>10 DEF Kept
<1>p. ASSUME NEW r \in QueueId,
             \A q \in QueueId : \A e :
                 Member(lane'[q], e) => Member(lane[q], e) \/ (q = r /\ e = devt),
             UNCHANGED <<kind, priority, inbound_queue_>>, Pushed, devt # NoEvent, r = queueId
      PROVE  Kept'
  <2>1. Taken' = Taken /\ accepted' = accepted /\ \A e : IsCritical(e)' = IsCritical(e)
    BY <1>p DEF Taken, accepted, IsCritical
  <2>2. \A q \in QueueId : \A e : Member(lane[q], e)' = Member(lane'[q], e)
    BY DEF Member
  <2>3. devt' = NoEvent
    BY <1>p DEF Pushed
  <2> QED
    BY <1>o, <1>p, <2>1, <2>2, <2>3 DEF Kept
<1>d. dpc \in {"push", "wait"} => devt \in Event /\ devt # NoEvent
  BY <1>t DEF TypeInv, TypeOK, Phases
<1>3. CASE PushRealtime
  <2> DEFINE rt == lane["REALTIME"]
             full == Len(rt) >= capacity["REALTIME"]
             base == IF full THEN Tail(rt) ELSE rt
  <2>1. rt \in Seq(Event) /\ devt \in Event /\ "REALTIME" \in QueueId /\ devt # NoEvent
    BY <1>3, <1>d, <1>f DEF PushRealtime, QueueId
  <2>2. full => rt # << >>
    <3>1. rt = << >> => Len(rt) = 0
      BY EmptySeq
    <3>2. capacity["REALTIME"] \in Nat \ {0}
      BY <2>1, CapacityValues
    <3> QED
      BY <3>1, <3>2
  <2>3. base \in Seq(Event) /\ \A e : Member(base, e) => Member(rt, e)
    BY <2>1, <2>2, TailFacts
  <2>4. \A e : Member(Append(base, devt), e) => Member(rt, e) \/ e = devt
    BY <2>1, <2>3, AppendFacts
  <2>5. \A q \in QueueId : lane'[q] = IF q = "REALTIME" THEN Append(base, devt) ELSE lane[q]
    BY <1>3, <1>f DEF PushRealtime
  <2>6. UNCHANGED <<kind, priority, inbound_queue_>> /\ Pushed /\ queueId = "REALTIME"
    BY <1>3 DEF PushRealtime
  <2> HIDE DEF base
  <2> QED
    BY <1>p, <2>1, <2>4, <2>5, <2>6
<1>4. CASE PushRoom
  <2>1. queueId \in QueueId /\ devt \in Event /\ devt # NoEvent
    BY <1>4, <1>d DEF PushRoom, QueueId
  <2>2. \A q \in QueueId : \A e :
          Member(lane'[q], e) => Member(lane[q], e) \/ (q = queueId /\ e = devt)
    BY <1>4, <1>f, <2>1, AppendFacts DEF PushRoom, PushBack
  <2> QED
    BY <1>4, <1>p, <2>1, <2>2 DEF PushRoom
<1>5. CASE PushTimeout \/ PushDropNew
  BY <1>5, <1>s DEF PushTimeout, PushDropNew, NotPushed, busVars
<1>6. CASE PushBlock \/ DispatchStop \/ SetDropBatch \/ StopIngest \/ ShutdownStep \/ UNCHANGED vars
  BY <1>6, <1>s DEF PushBlock, DispatchStop, SetDropBatch, StopIngest, ShutdownStep,
     StopProcessors, StopDispatcher, StopDone, StopWhen, busVars, dispatchVars, vars
<1>7. ASSUME NEW p \in QueueId, LoopTest(p) \/ PopTimeout(p) \/ Process(p) PROVE Kept'
  BY <1>7, <1>s DEF LoopTest, PopTimeout, Process, busVars, dispatchVars
<1>8. ASSUME NEW p \in QueueId, PopEvent(p) PROVE Kept'
  <2>1. \A q \in QueueId : \A e : Member(lane'[q], e) => Member(lane[q], e)
    BY <1>8, <1>f, TailFacts DEF PopEvent
  <2> QED
    BY <1>8, <1>s, <2>1 DEF PopEvent, dispatchVars
<1>9. CASE ProcessDrop
  <2>1. \A q \in QueueId : \A e : Member(lane'[q], e) => Member(lane[q], e)
    BY <1>9, <1>f, AfterFacts, BoundAssumption DEF ProcessDrop
  <2> QED
    BY <1>9, <1>s, <2>1 DEF ProcessDrop, dispatchVars
<1> QED
  BY <1>1, <1>2, <1>3, <1>4, <1>5, <1>6, <1>7, <1>8, <1>9 DEF Next, DispatchStep, RunLoop, Down

\* Whatever the pressure and the topic table, a CRITICAL event waits in no other
\* queue of the bus than REALTIME.
THEOREM CriticalStaysRealtime == Spec => []CriticalIsRealtime
<1>1. RouteInv => CriticalIsRealtime
  <2> SUFFICES ASSUME RouteInv, NEW e \in accepted, IsCritical(e),
                      NEW q \in QueueId \ {"REALTIME"}
               PROVE  Occurrences(lane[q], e) = 0
    BY DEF CriticalIsRealtime, IsCritical
  <2>1. ~Member(lane[q], e)
    BY DEF RouteInv, Kept
  <2>2. {i \in DOMAIN lane[q] : lane[q][i] = e} = {}
    BY <2>1 DEF Member
  <2> QED
    BY <2>2, FS_EmptySet DEF Occurrences
<1> QED
  BY <1>1, InitRouteInv, NextRouteInv, PTL DEF Spec

----------------------------------------------------------------------------
(* Every event in one place *)

Is(x, e) == IF x = e THEN 1 ELSE 0
Has(S, e) == IF e \in S THEN 1 ELSE 0

\* The sum of InOnePlace, each queue counted with zero or one.
Count(e) == In(inbound_queue_, e) + dlq[e] + Is(devt, e) + Has(handed, e)
              + Is(pevt["REALTIME"], e) + Is(pevt["TRANSACTIONAL"], e)
              + Is(pevt["BATCH"], e)
              + In(lane["REALTIME"], e) + In(lane["TRANSACTIONAL"], e) + In(lane["BATCH"], e)

\* Every accepted event counts once, no other counts at all.
Places == \A e \in Event : Count(e) = Has(accepted, e)

PlaceInv == OrderInv /\ Places

LEMMA InboundIncreasing ==
    ASSUME TypeInv
    PROVE  Increasing(inbound_queue_)
<1>1. inbound_queue_ \in Seq(Event) /\ kind \in Seq(EventKind)
  BY DEF TypeInv, TypeOK
<1>2. Taken \in Int /\ DOMAIN inbound_queue_ = 1 .. Len(inbound_queue_)
        /\ Len(inbound_queue_) \in Nat
  BY <1>1, LenProperties DEF Taken
<1>3. \A i \in DOMAIN inbound_queue_ : inbound_queue_[i] = Taken + i
  BY DEF TypeInv, Numbering
<1> QED
  BY <1>2, <1>3 DEF Increasing

LEMMA InitPlaceInv == Init => PlaceInv
<1> SUFFICES ASSUME Init PROVE PlaceInv
  OBVIOUS
<1>1. OrderInv
  BY InitOrderInv
<1>2. \A e : ~Member(<< >>, e)
  BY EmptySeq DEF Member
<1>3. \A e \in Event : NoEvent # e
  BY BoundAssumption DEF Event, NoEvent
<1>4. \A e : e \notin accepted
  BY DEF Init, accepted
<1>5. \A e \in Event : Count(e) = 0
  BY <1>2, <1>3 DEF Init, Count, In, Has, Is, QueueId
<1> QED
  BY <1>1, <1>4, <1>5 DEF PlaceInv, Places, Has, Is

LEMMA NextPlaceInv == PlaceInv /\ [Next]_vars => PlaceInv'
<1> SUFFICES ASSUME PlaceInv, [Next]_vars
             PROVE  PlaceInv'
  OBVIOUS
<1>o. OrderInv /\ OrderInv'
  BY NextOrderInv DEF PlaceInv
<1>t. TypeInv /\ TypeInv'
  BY <1>o DEF OrderInv
<1> SUFFICES ASSUME NEW e \in Event PROVE Count(e)' = Has(accepted, e)'
  BY <1>o DEF PlaceInv, Places
<1>c. Count(e) = Has(accepted, e)
  BY DEF PlaceInv, Places
<1>n. e # NoEvent
  BY BoundAssumption DEF Event, NoEvent
<1>l. \A q \in QueueId : lane[q] \in Seq(Event) /\ Increasing(lane[q])
  BY <1>o, <1>t DEF OrderInv, Ordered, Sorted, TypeInv, TypeOK
<1>f. lane \in [QueueId -> Seq(Event)] /\ pevt \in [QueueId -> Event \cup {NoEvent}]
        /\ dlq \in [Event -> Nat] /\ inbound_queue_ \in Seq(Event) /\ kind \in Seq(EventKind)
  BY <1>t DEF TypeInv, TypeOK
<1>q. "REALTIME" \in QueueId /\ "TRANSACTIONAL" \in QueueId /\ "BATCH" \in QueueId
  BY DEF QueueId
<1>z. /\ \A s : In(s, e) \in {0, 1} /\ Is(s, e) \in {0, 1} /\ Has(s, e) \in {0, 1}
      /\ dlq[e] \in Nat
  BY <1>f DEF In, Is, Has
<1>d. dpc \in {"push", "wait"} => devt \in Event /\ devt # NoEvent
  BY <1>t DEF TypeInv, TypeOK, Phases
<1>p. Count(e)' = In(inbound_queue_', e) + dlq'[e] + Is(devt', e) + Has(handed', e)
                    + Is(pevt'["REALTIME"], e) + Is(pevt'["TRANSACTIONAL"], e)
                    + Is(pevt'["BATCH"], e)
                    + In(lane'["REALTIME"], e) + In(lane'["TRANSACTIONAL"], e)
                    + In(lane'["BATCH"], e)
  BY DEF Count, In, Member, Has, Is
<1>u. ASSUME UNCHANGED <<kind, inbound_queue_, lane, devt, pevt, dlq, handed>>
      PROVE  Count(e)' = Has(accepted, e)'
  BY <1>u, <1>c DEF Count, accepted, Has, Is, In, Member
<1>1. CASE TryPush
  <2> DEFINE n == Len(kind) + 1
  <2>1. n \in Event /\ DOMAIN kind' = DOMAIN kind \cup {n} /\ n \notin DOMAIN kind
    <3>1. PICK k \in EventKind : kind' = Append(kind, k)
      BY <1>1 DEF TryPush
    <3>2. /\ Len(kind) \in Nat /\ DOMAIN kind = 1 .. Len(kind)
          /\ DOMAIN kind' = 1 .. Len(kind) + 1
      BY <1>f, <3>1, AppendProperties, LenProperties
    <3>3. Len(kind) + 1 \in Event
      BY <1>1, <3>2, BoundAssumption DEF TryPush, Event
    <3> QED
      BY <3>2, <3>3
  <2>2. Member(inbound_queue_', e) <=> Member(inbound_queue_, e) \/ n = e
    BY <1>1, <1>f, <2>1, AppendFacts DEF TryPush
  <2> HIDE DEF n
  <2>3. n = e => In(inbound_queue_, e) = 0
    BY <1>c, <1>z, <2>1 DEF Count, Has, Is, accepted
  <2>4. In(inbound_queue_', e) = In(inbound_queue_, e) + Is(n, e)
    BY <2>2, <2>3 DEF In, Has, Is
  <2>5. Count(e)' = Count(e) + Is(n, e)
    <3>1. UNCHANGED <<lane, devt, pevt, dlq, handed>>
      BY <1>1 DEF TryPush, busVars, dispatchVars, processorVars, history
    <3> QED
      BY <1>p, <1>z, <2>4, <3>1 DEF Count
  <2> QED
    BY <1>c, <2>1, <2>5 DEF Has, Is, accepted
<1>2. CASE DispatchPop
  <2>1. inbound_queue_ # << >> /\ Increasing(inbound_queue_)
    BY <1>2, <1>t, InboundIncreasing DEF DispatchPop
  <2>2. /\ Member(inbound_queue_, e) <=> Member(inbound_queue_', e) \/ devt' = e
        /\ ~(Member(inbound_queue_', e) /\ devt' = e)
    BY <1>2, <1>f, <2>1, TailFacts DEF DispatchPop
  <2>3. devt # e
    BY <1>2, <1>n, <1>t DEF DispatchPop, TypeInv, Phases
  <2>4. In(inbound_queue_, e) + Is(devt, e) = In(inbound_queue_', e) + Is(devt', e)
    BY <2>2, <2>3 DEF In, Has, Is
  <2>5. Count(e)' = Count(e)
    <3>1. UNCHANGED <<lane, pevt, dlq, handed>>
      BY <1>2 DEF DispatchPop, busVars, processorVars, history
    <3> QED
      BY <1>p, <1>z, <2>4, <3>1 DEF Count
  <2> QED
    BY <1>2, <1>c, <2>5 DEF DispatchPop, Has, Is, accepted
<1>3. CASE PushRealtime
  <2> DEFINE rt == lane["REALTIME"]
             full == Len(rt) >= capacity["REALTIME"]
             base == IF full THEN Tail(rt) ELSE rt
  <2>1. rt \in Seq(Event) /\ Increasing(rt) /\ devt \in Event
    BY <1>3, <1>d, <1>l, <1>q DEF PushRealtime
  <2>2. full => rt # << >>
    <3>1. rt = << >> => Len(rt) = 0
      BY EmptySeq
    <3>2. capacity["REALTIME"] \in Nat \ {0}
      BY <1>q, CapacityValues
    <3> QED
      BY <3>1, <3>2
  <2>3. /\ base \in Seq(Event)
        /\ Member(rt, e) <=> Member(base, e) \/ (full /\ Head(rt) = e)
        /\ ~(Member(base, e) /\ full /\ Head(rt) = e)
    BY <2>1, <2>2, TailFacts
  <2>4. Member(lane'["REALTIME"], e) <=> Member(base, e) \/ devt = e
    BY <1>3, <1>f, <1>q, <2>1, <2>3, AppendFacts DEF PushRealtime
  <2>5. dlq'[e] = dlq[e] + IF full /\ Head(rt) = e THEN 1 ELSE 0
    <3>1. DeadLetter(IF full THEN {Head(rt)} ELSE {})
      BY <1>3 DEF PushRealtime
    <3>2. dlq'[e] = dlq[e] + IF e \in (IF full THEN {Head(rt)} ELSE {}) THEN 1 ELSE 0
      BY <1>f, <3>1, DeadLetterType
    <3> QED
      BY <3>2 DEF Has, Is
  <2>6. /\ lane'["TRANSACTIONAL"] = lane["TRANSACTIONAL"] /\ lane'["BATCH"] = lane["BATCH"]
        /\ devt' = NoEvent
    BY <1>3, <1>f, <1>q DEF PushRealtime, Pushed
  <2>7. devt = e => In(lane["REALTIME"], e) = 0
    BY <1>c, <1>z DEF Count, Has, Is
  <2> HIDE DEF base, full
  <2>8. In(lane["REALTIME"], e) + dlq[e] + Is(devt, e)
          = In(lane'["REALTIME"], e) + dlq'[e] + Is(devt', e)
    BY <1>n, <1>z, <2>3, <2>4, <2>5, <2>6, <2>7 DEF In, Has, Is
  <2>9. In(lane'["REALTIME"], e) \in {0, 1} /\ dlq'[e] \in Nat
    BY <1>z, <2>5 DEF In, Has, Is
  <2>10. Count(e)' = Count(e)
    <3>1. UNCHANGED <<inbound_queue_, pevt, handed>>
      BY <1>3 DEF PushRealtime, processorVars
    <3> QED
      BY <1>p, <1>z, <2>6, <2>8, <2>9, <3>1 DEF Count
  <2> QED
    BY <1>3, <1>c, <2>10 DEF PushRealtime, Has, Is, accepted
<1>4. CASE PushRoom
  <2>1. queueId \in QueueId /\ devt \in Event
    BY <1>4, <1>d, <1>q DEF PushRoom
  <2>2. \A q \in QueueId :
            /\ q = queueId => (Member(lane'[q], e) <=> Member(lane[q], e) \/ devt = e)
            /\ q # queueId => lane'[q] = lane[q]
    BY <1>4, <1>f, <2>1, AppendFacts DEF PushRoom, PushBack
  <2>3. devt = e => \A q \in QueueId : In(lane[q], e) = 0
    BY <1>c, <1>z DEF Count, Has, Is, QueueId
  <2>4. \A q \in QueueId : 
          In(lane'[q], e) = In(lane[q], e) + IF q = queueId THEN Is(devt, e) ELSE 0
    BY <2>2, <2>3 DEF In, Has, Is
  <2>5. devt' # e
    BY <1>4, <1>n DEF PushRoom, Pushed
  <2>6. Count(e)' = Count(e)
    <3>1. UNCHANGED <<inbound_queue_, pevt, handed, dlq>>
      BY <1>4 DEF PushRoom, processorVars, history
    <3>2. Is(devt', e) = 0
      BY <2>5 DEF Is
    <3>3. In(lane'["REALTIME"], e) + In(lane'["TRANSACTIONAL"], e) + In(lane'["BATCH"], e)
            = In(lane["REALTIME"], e) + In(lane["TRANSACTIONAL"], e) + In(lane["BATCH"], e)
                + Is(devt, e)
      BY <1>4, <1>z, <1>q, <2>4 DEF PushRoom
    <3> QED
      BY <1>p, <1>z, <3>1, <3>2, <3>3 DEF Count
  <2> QED
    BY <1>4, <1>c, <2>6 DEF PushRoom, Has, Is, accepted
<1>5. CASE PushTimeout \/ PushDropNew
  <2>1. NotPushed
    BY <1>5 DEF PushTimeout, PushDropNew
  <2>2. dlq'[e] + Is(devt', e) = dlq[e] + Is(devt, e) /\ dlq'[e] \in Nat
    BY <1>f, <1>n, <2>1, DeadLetterType DEF NotPushed, Has, Is
  <2>3. Count(e)' = Count(e)
    <3>1. UNCHANGED <<inbound_queue_, lane, pevt, handed>>
      BY <1>5 DEF PushTimeout, PushDropNew, busVars, processorVars, history
    <3> QED
      BY <1>p, <1>z, <2>2, <3>1 DEF Count
  <2> QED
    BY <1>5, <1>c, <2>3 DEF PushTimeout, PushDropNew, Has, Is, accepted
<1>6. CASE PushBlock \/ DispatchStop \/ SetDropBatch \/ StopIngest \/ ShutdownStep \/ UNCHANGED vars
  BY <1>6, <1>u DEF PushBlock, DispatchStop, SetDropBatch, StopIngest, ShutdownStep,
     StopProcessors, StopDispatcher, StopDone, StopWhen, busVars, dispatchVars, processorVars,
     history, vars
<1>7. ASSUME NEW p \in QueueId, LoopTest(p) \/ PopTimeout(p)
      PROVE  Count(e)' = Has(accepted, e)'
  BY <1>7, <1>u DEF LoopTest, PopTimeout, busVars, dispatchVars, history
<1>8. ASSUME NEW p \in QueueId, PopEvent(p)
      PROVE  Count(e)' = Has(accepted, e)'
  <2>1. /\ Member(lane[p], e) <=> Member(lane'[p], e) \/ pevt'[p] = e
        /\ ~(Member(lane'[p], e) /\ pevt'[p] = e)
    BY <1>8, <1>f, <1>l, TailFacts DEF PopEvent
  <2>2. pevt[p] # e
    BY <1>8, <1>n, <1>t DEF PopEvent, TypeInv, Phases
  <2>3. \A q \in QueueId : q # p => lane'[q] = lane[q] /\ pevt'[q] = pevt[q]
    BY <1>8, <1>f DEF PopEvent
  <2>4. \A q \in QueueId : In(lane'[q], e) + Is(pevt'[q], e) = In(lane[q], e) + Is(pevt[q], e)
    BY <2>1, <2>2, <2>3 DEF In, Has, Is
  <2>5. Count(e)' = Count(e)
    <3>1. UNCHANGED <<inbound_queue_, dlq, devt, handed>>
      BY <1>8 DEF PopEvent, dispatchVars, history
    <3> QED
      BY <1>p, <1>z, <1>q, <2>4, <3>1 DEF Count
  <2> QED
    BY <1>8, <1>c, <2>5 DEF PopEvent, Has, Is, accepted
<1>9. ASSUME NEW p \in QueueId, Process(p)
      PROVE  Count(e)' = Has(accepted, e)'
  <2>1. pevt'[p] # e
    BY <1>9, <1>f, <1>n DEF Process
  <2>2. \A q \in QueueId : q # p => pevt'[q] = pevt[q]
    BY <1>9, <1>f DEF Process
  <2>3. pevt[p] = e => e \notin handed /\ \A q \in QueueId : q # p => pevt[q] # e
    BY <1>c, <1>z DEF Count, Has, Is, QueueId
  <2>4. e \in handed' <=> e \in handed \/ pevt[p] = e
    BY <1>9 DEF Process
  <2>5. Count(e)' = Count(e)
    <3>1. UNCHANGED <<inbound_queue_, lane, dlq, devt>>
      BY <1>9 DEF Process, busVars, dispatchVars
    <3> QED
      BY <1>p, <1>z, <1>q, <2>1, <2>2, <2>3, <2>4, <3>1 DEF Count, Has, Is, QueueId
  <2> QED
    BY <1>9, <1>c, <2>5 DEF Process, Has, Is, accepted
<1>10. CASE ProcessDrop
  <2> DEFINE batch == FirstN(lane["BATCH"], DROP_BATCH_SIZE)
             rest == AfterN(lane["BATCH"], DROP_BATCH_SIZE)
  <2>1. /\ Member(lane["BATCH"], e) <=> Member(rest, e) \/ Member(batch, e)
        /\ ~(Member(rest, e) /\ Member(batch, e))
    BY <1>l, <1>q, BoundAssumption, AfterFacts
  <2>2. lane' = [lane EXCEPT !["BATCH"] = rest]
    BY <1>10 DEF ProcessDrop
  <2>3. DeadLetter({pevt["BATCH"]} \cup {batch[i] : i \in DOMAIN batch})
    BY <1>10 DEF ProcessDrop
  <2> HIDE DEF batch, rest
  <2>4. dlq'[e] = dlq[e] + IF pevt["BATCH"] = e \/ Member(batch, e) THEN 1 ELSE 0
    BY <1>f, <2>3, DeadLetterType DEF Has, Is, Member
  <2>5. pevt["BATCH"] = e => In(lane["BATCH"], e) = 0
    BY <1>c, <1>z DEF Count, Has, Is
  <2>6. /\ pevt'["BATCH"] # e /\ pevt'["REALTIME"] = pevt["REALTIME"]
        /\ pevt'["TRANSACTIONAL"] = pevt["TRANSACTIONAL"]
    BY <1>10, <1>f, <1>q, <1>n DEF ProcessDrop
  <2>7. /\ lane'["BATCH"] = rest /\ lane'["REALTIME"] = lane["REALTIME"]
        /\ lane'["TRANSACTIONAL"] = lane["TRANSACTIONAL"]
    BY <1>f, <1>q, <2>2
  <2>8. In(lane'["BATCH"], e) + dlq'[e] + Is(pevt'["BATCH"], e)
          = In(lane["BATCH"], e) + dlq[e] + Is(pevt["BATCH"], e)
    BY <1>z, <2>1, <2>4, <2>5, <2>6, <2>7 DEF In, Has, Is
  <2>9. In(lane'["BATCH"], e) \in {0, 1} /\ dlq'[e] \in Nat
    BY <1>z, <2>4 DEF In, Has, Is
  <2>10. Count(e)' = Count(e)
    <3>1. UNCHANGED <<inbound_queue_, devt, handed>>
      BY <1>10 DEF ProcessDrop, dispatchVars, history
    <3> QED
      BY <1>p, <1>z, <2>6, <2>7, <2>8, <2>9, <3>1 DEF Count
  <2> QED
    BY <1>10, <1>c, <2>10 DEF ProcessDrop, Has, Is, accepted
<1> QED
  BY <1>1, <1>2, <1>3, <1>4, <1>5, <1>6, <1>7, <1>8, <1>9, <1>10
     DEF Next, DispatchStep, RunLoop, Down

\* How many threads hold an event that at most one of them holds.
LEMMA HolderCount ==
    ASSUME NEW e, \A q, r \in QueueId : pevt[q] = e /\ pevt[r] = e => q = r
    PROVE  Cardinality({q \in QueueId : pevt[q] = e})
             = Is(pevt["REALTIME"], e) + Is(pevt["TRANSACTIONAL"], e) + Is(pevt["BATCH"], e)
<1>1. CASE \E q \in QueueId : pevt[q] = e
  <2>1. PICK q \in QueueId : pevt[q] = e
    BY <1>1
  <2>2. {r \in QueueId : pevt[r] = e} = {q}
    BY <2>1
  <2>3. Cardinality({r \in QueueId : pevt[r] = e}) = 1
    BY <2>2, FS_Singleton
  <2> QED
    BY <2>1, <2>3 DEF Has, Is, QueueId
<1>2. CASE ~\E q \in QueueId : pevt[q] = e
  <2>1. {r \in QueueId : pevt[r] = e} = {}
    BY <1>2
  <2>2. Cardinality({r \in QueueId : pevt[r] = e}) = 0
    BY <2>1, FS_EmptySet
  <2> QED
    BY <1>2, <2>2 DEF Has, Is, QueueId
<1> QED
  BY <1>1, <1>2

\* No accepted event is lost on its way and none is duplicated.
THEOREM EveryEventInOnePlace == Spec => []InOnePlace
<1>1. PlaceInv => InOnePlace
  <2> SUFFICES ASSUME PlaceInv, NEW e \in accepted
               PROVE  Occurrences(inbound_queue_, e) + dlq[e]
                        + (IF devt = e THEN 1 ELSE 0)
                        + (IF e \in handed THEN 1 ELSE 0)
                        + Cardinality({q \in QueueId : pevt[q] = e})
                        + Occurrences(lane["REALTIME"], e) + Occurrences(lane["TRANSACTIONAL"], e)
                        + Occurrences(lane["BATCH"], e) = 1
    BY DEF InOnePlace
  <2>1. TypeInv /\ Ordered
    BY DEF PlaceInv, OrderInv
  <2>2. e \in Event
    <3>1. kind \in Seq(EventKind) /\ Len(kind) <= MaxEvents
      BY <2>1 DEF TypeInv, TypeOK
    <3>2. Len(kind) \in Nat /\ DOMAIN kind = 1 .. Len(kind)
      BY <3>1, LenProperties
    <3> QED
      BY <3>1, <3>2, BoundAssumption DEF accepted, Event
  <2>3. Count(e) = 1
    BY <2>2 DEF PlaceInv, Places, Has, Is
  <2>4. /\ Occurrences(inbound_queue_, e) = In(inbound_queue_, e)
        /\ \A q \in QueueId : Occurrences(lane[q], e) = In(lane[q], e)
    <3>1. inbound_queue_ \in Seq(Event) /\ \A q \in QueueId : lane[q] \in Seq(Event)
      BY <2>1 DEF TypeInv, TypeOK
    <3>2. Increasing(inbound_queue_) /\ \A q \in QueueId : Increasing(lane[q])
      BY <2>1, InboundIncreasing DEF Ordered, Sorted
    <3> QED
      BY <3>1, <3>2, OccurrencesIn
  <2>5. dlq[e] \in Nat /\ \A s : In(s, e) \in {0, 1}
    BY <2>1, <2>2 DEF TypeInv, TypeOK, In
  <2>6. \A q, r \in QueueId : pevt[q] = e /\ pevt[r] = e => q = r
    BY <2>3, <2>5 DEF Count, Has, Is, QueueId
  <2>7. Cardinality({q \in QueueId : pevt[q] = e})
          = Is(pevt["REALTIME"], e) + Is(pevt["TRANSACTIONAL"], e) + Is(pevt["BATCH"], e)
    BY <2>6, HolderCount
  <2>8. "REALTIME" \in QueueId /\ "TRANSACTIONAL" \in QueueId /\ "BATCH" \in QueueId
    BY DEF QueueId
  <2> QED
    BY <2>3, <2>4, <2>5, <2>7, <2>8 DEF Count, Has, Is
<1> QED
  BY <1>1, InitPlaceInv, NextPlaceInv, PTL DEF Spec
============================================================================
